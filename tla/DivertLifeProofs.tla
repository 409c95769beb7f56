-------------------------- MODULE DivertLifeProofs --------------------------
(***************************************************************************)
(* Theorems about the cleanup of a handle, the deletion of its objects,    *)
(* and the lists it keeps from the network stack, for every value of the   *)
(* constants of DivertContext.                                             *)
(***************************************************************************)
EXTENDS DivertContextProofs, FiniteSetTheorems

-----------------------------------------------------------------------------
(***************************************************************************)
(* A step that leaves the packet queue alone or takes out its head.        *)
(***************************************************************************)
NoLonger == UNCHANGED queueVars \/ (packet_queue # <<>> /\ RemoveHead)

(***************************************************************************)
(* Only the slow path of windivert_queue_packet adds to the packet queue.  *)
(***************************************************************************)
LEMMA OnlyInsertAdds ==
  TypeInv /\ [Next]_vars => NoLonger \/ \E w \in Workers : Insert(w)
<1> SUFFICES ASSUME TypeInv, [Next]_vars, \A w \in Workers : ~Insert(w)
             PROVE  NoLonger
  OBVIOUS
<1> USE DEF NoLonger
<1>1. ASSUME NEW n \in NBLs, ClassifyEnter(n) \/ Classify(n) \/ InjectComplete(n)
      PROVE  NoLonger
  BY <1>1 DEF ClassifyEnter, Classify, ClassifyFilter, ClassifyNoMemory,
     ClassifyQueue, InjectComplete
<1>2. ASSUME NEW w \in Workers, Worker(w) PROVE NoLonger
  <2>1. CASE InsertEvict(w)
    BY <2>1, VictimExists DEF InsertEvict, EvictionHasVictim
  <2>2. CASE ~InsertEvict(w)
    BY <1>2, <2>2 DEF Worker, WorkerStart, WorkerReturn, WorkerTake,
       WorkerSniff, WorkerNext, WorkerFinish, QueueRefuse, QueueDrop,
       QueueFast, QueueCopy, InsertRefuse, InsertDrop
  <2> QED BY <2>1, <2>2
<1>3. ASSUME NEW t \in Threads, Service(t) PROVE NoLonger
  BY <1>3 DEF Service, ServiceExpire, ServicePair, ServiceReturn, Serve
<1>4. ASSUME NEW r \in Reqs, Read(r) \/ Cancel(r) PROVE NoLonger
  BY <1>4 DEF Read, Cancel
<1>5. SetParam \/ CleanupBegin \/ Cleanup => NoLonger
  BY DEF SetParam, CleanupBegin, Cleanup, CleanupPacket,
     CleanupPacketsDone, CleanupWork, CleanupPurge, CleanupFlush,
     CleanupUninstall, Close, Destroy
<1>6. Terminated \/ UNCHANGED vars => NoLonger
  BY DEF Terminated, vars
<1> HIDE DEF NoLonger
<1> QED BY <1>1, <1>2, <1>3, <1>4, <1>5, <1>6 DEF Next

-----------------------------------------------------------------------------
(***************************************************************************)
(* Cleanup has begun exactly when the handle has left OPEN, and is over    *)
(* when it is CLOSED.                                                      *)
(***************************************************************************)
ClosingBegun ==
  /\ state = "OPEN" <=> cleanup = "idle"
  /\ state = "CLOSED" => cleanup = "done"

(***************************************************************************)
(* What each loop of windivert_cleanup has emptied stays empty.            *)
(***************************************************************************)
Drained ==
  /\ cleanup \notin {"idle", "packets"} => packet_queue = <<>>
  /\ cleanup \notin {"idle", "packets", "works"} =>
       work_queue = <<>> /\ read_queue = {}

(***************************************************************************)
(* The framework objects that are left at each point of windivert_cleanup. *)
(***************************************************************************)
Deleted ==
  /\ cleanup \in {"idle", "packets", "works"} => objects = AllObjects
  /\ cleanup = "flush" => "worker" \in objects

(***************************************************************************)
(* Once flushed, the work item is not queued or run again.                 *)
(***************************************************************************)
Quiesced == cleanup \in {"uninstall", "done"} => WorkerIdle

CleanupInv == ClosingBegun /\ Drained /\ Deleted /\ Quiesced

(***************************************************************************)
(* The steps of everybody but windivert_cleanup, _close and _destroy.      *)
(***************************************************************************)
Others ==
  \/ \E n \in NBLs : ClassifyEnter(n) \/ Classify(n) \/ InjectComplete(n)
  \/ \E w \in Workers : Worker(w)
  \/ \E t \in Threads : Service(t)
  \/ \E r \in Reqs : Read(r) \/ Cancel(r)
  \/ SetParam \/ Terminated \/ UNCHANGED vars

(***************************************************************************)
(* The others do not open, close or delete anything.                       *)
(***************************************************************************)
LEMMA OthersFrame == Others => UNCHANGED <<state, filter, objects, cleanup>>
<1> SUFFICES ASSUME Others PROVE UNCHANGED <<state, filter, objects, cleanup>>
  OBVIOUS
<1>1. ASSUME NEW n \in NBLs, ClassifyEnter(n) \/ Classify(n) \/ InjectComplete(n)
      PROVE  UNCHANGED <<state, filter, objects, cleanup>>
  BY <1>1 DEF ClassifyEnter, Classify, ClassifyFilter, ClassifyNoMemory,
     ClassifyQueue, InjectComplete, lifeVars
<1>2. ASSUME NEW w \in Workers, Worker(w) PROVE UNCHANGED lifeVars
  BY <1>2 DEF Worker, WorkerStart, WorkerReturn, WorkerTake, WorkerSniff,
     WorkerNext, WorkerFinish, QueueRefuse, QueueDrop, QueueFast, QueueCopy,
     InsertRefuse, InsertDrop, InsertEvict, Insert, InsertThen
<1>3. ASSUME NEW t \in Threads, Service(t) PROVE UNCHANGED lifeVars
  BY <1>3 DEF Service, ServiceExpire, ServicePair, ServiceReturn, Serve
<1>4. ASSUME NEW r \in Reqs, Read(r) \/ Cancel(r) PROVE UNCHANGED lifeVars
  BY <1>4 DEF Read, Cancel
<1>5. SetParam \/ Terminated \/ UNCHANGED vars => UNCHANGED lifeVars
  BY DEF SetParam, Terminated, vars
<1>6. UNCHANGED lifeVars => UNCHANGED <<state, filter, objects, cleanup>>
  BY DEF lifeVars
<1> QED BY <1>1, <1>2, <1>3, <1>4, <1>5, <1>6 DEF Others

(***************************************************************************)
(* Once the handle is not open, the others add nothing to a queue, wake no *)
(* worker and start none that was not woken before.                        *)
(***************************************************************************)
LEMMA OthersAddNothing ==
  ASSUME TypeInv, Others, state # "OPEN"
  PROVE  /\ UNCHANGED <<packet_queue, work_queue>>
         /\ read_queue' \subseteq read_queue
         /\ WorkerIdle => WorkerIdle'
<1> DEFINE Quiet == /\ UNCHANGED <<packet_queue, work_queue>>
                    /\ read_queue' \subseteq read_queue
                    /\ WorkerIdle => WorkerIdle'
<1>0. /\ pc \in [Threads -> WorkerPCs \cup ReaderPCs]
      /\ Workers \subseteq Threads /\ Reqs \cap Workers = {}
  BY ContextAssumption DEF TypeInv, TypeOK, ThreadsTyped, Threads
<1>1. ASSUME NEW n \in NBLs, ClassifyEnter(n) \/ Classify(n) \/ InjectComplete(n)
      PROVE  Quiet
  BY <1>1 DEF ClassifyEnter, Classify, ClassifyFilter, ClassifyNoMemory,
     ClassifyQueue, InjectComplete, StillOpen, queueVars, workVars,
     threadVars, reqVars, WorkerIdle
<1>2. ASSUME NEW w \in Workers, Worker(w) PROVE Quiet
  <2>1. ~WorkerIdle
    BY <1>2 DEF WorkerIdle, Worker, WorkerStart, WorkerReturn, WorkerTake,
       WorkerSniff, WorkerNext, WorkerFinish, QueueRefuse, QueueDrop,
       QueueFast, QueueCopy, InsertRefuse, InsertDrop, InsertEvict, Evicts,
       Insert, InsertThen
  <2>2. UNCHANGED <<packet_queue, work_queue, read_queue>>
    BY <1>2 DEF Worker, WorkerStart, WorkerReturn, WorkerTake,
       WorkerSniff, WorkerNext, WorkerFinish, QueueRefuse, QueueDrop,
       QueueFast, QueueCopy, InsertRefuse, InsertDrop, InsertEvict, Evicts,
       Insert, InsertThen, StillOpen, queueVars, workVars, reqVars
  <2> QED BY <2>1, <2>2
<1>3. ASSUME NEW t \in Threads, Service(t) PROVE Quiet
  <2>1. UNCHANGED <<packet_queue, work_queue, read_queue, enqueued>>
    BY <1>3 DEF Service, ServiceExpire, ServicePair, ServiceReturn, Serve,
       queueVars, workVars, reqVars
  <2>2. pc[t] # "idle" /\ \E p : pc' = [pc EXCEPT ![t] = p]
    BY <1>3 DEF Service, ServiceExpire, ServicePair, ServiceReturn, Serve, Goto
  <2> QED BY <1>0, <2>1, <2>2 DEF WorkerIdle
<1>4. ASSUME NEW r \in Reqs, Read(r) \/ Cancel(r) PROVE Quiet
  <2>1. /\ UNCHANGED <<packet_queue, work_queue, enqueued>>
        /\ read_queue' \subseteq read_queue
        /\ pc' = pc \/ \E p : pc' = [pc EXCEPT ![r] = p]
    BY <1>4 DEF Read, Cancel, queueVars, workVars, threadVars, Goto
  <2> QED BY <1>0, <2>1 DEF WorkerIdle
<1>5. SetParam \/ Terminated \/ UNCHANGED vars => Quiet
  BY DEF SetParam, Terminated, vars, queueVars, workVars, threadVars, reqVars,
     WorkerIdle
<1> QED BY <1>1, <1>2, <1>3, <1>4, <1>5 DEF Others

(***************************************************************************)
(* The invariant of windivert_cleanup is inductive.                        *)
(***************************************************************************)
LEMMA NextCleanupInv == TypeInv /\ CleanupInv /\ [Next]_vars => CleanupInv'
<1> SUFFICES ASSUME TypeInv, CleanupInv, [Next]_vars PROVE CleanupInv'
  OBVIOUS
<1> USE DEF CleanupInv
<1>1. CASE Others
  <2>1. UNCHANGED <<state, filter, objects, cleanup>>
    BY <1>1, OthersFrame
  <2>2. CASE state = "OPEN"
    BY <2>1, <2>2 DEF ClosingBegun, Drained, Deleted, Quiesced
  <2>3. CASE state # "OPEN"
    <3>1. /\ UNCHANGED <<packet_queue, work_queue>>
          /\ read_queue' \subseteq read_queue
          /\ WorkerIdle => WorkerIdle'
      BY <1>1, <2>3, OthersAddNothing
    <3> QED BY <2>1, <3>1 DEF ClosingBegun, Drained, Deleted, Quiesced
  <2> QED BY <2>2, <2>3
<1>2. CASE CleanupBegin
  BY <1>2 DEF CleanupBegin, ClosingBegun, Drained, Deleted, Quiesced
<1>3. CASE CleanupPacket \/ CleanupPacketsDone \/ CleanupWork
  BY <1>3 DEF CleanupPacket, CleanupPacketsDone, CleanupWork, ClosingBegun,
     Drained, Deleted, Quiesced, queueVars, workVars, reqVars
<1>4. CASE CleanupPurge
  BY <1>4 DEF CleanupPurge, ClosingBegun, Drained, Deleted, Quiesced,
     queueVars, workVars, AllObjects
<1>5. CASE CleanupFlush
  BY <1>5 DEF CleanupFlush, Flush, ClosingBegun, Drained, Deleted, Quiesced,
     queueVars, workVars, reqVars, threadVars, WorkerIdle
<1>6. CASE CleanupUninstall
  BY <1>6 DEF CleanupUninstall, ClosingBegun, Drained, Deleted, Quiesced,
     queueVars, workVars, reqVars, threadVars, WorkerIdle
<1>7. CASE Close \/ Destroy
  BY <1>7 DEF Close, Destroy, ClosingBegun, Drained, Deleted, Quiesced,
     queueVars, workVars, reqVars, threadVars, WorkerIdle
<1> QED BY <1>1, <1>2, <1>3, <1>4, <1>5, <1>6, <1>7 DEF Next, Others, Cleanup

(***************************************************************************)
(* Cleanup empties and deletes in order, for ever.                         *)
(***************************************************************************)
THEOREM CleanupInvariance == Spec => []CleanupInv
<1>1. Init => CleanupInv
  BY DEF Init, CleanupInv, ClosingBegun, Drained, Deleted, Quiesced
<1> QED BY <1>1, NextCleanupInv, TypeInvariance, PTL DEF Spec

(***************************************************************************)
(* No classify callback, worker or reader inserts work, a packet or a      *)
(* request behind the loops of windivert_cleanup that empty the queues.    *)
(***************************************************************************)
THEOREM NothingLeft == Spec => []NothingLeftBehind
<1>1. CleanupInv => NothingLeftBehind
  BY DEF CleanupInv, Drained, NothingLeftBehind
<1> QED BY <1>1, CleanupInvariance, PTL

-----------------------------------------------------------------------------
(***************************************************************************)
(* The classify callbacks that are between their two critical sections.    *)
(* Each holds one reference on the file object.                            *)
(***************************************************************************)
Classifying == {n \in NBLs : cls[n] \in {"entered", "matched"}}

ReferencesCounted ==
  IsFiniteSet(Classifying) /\ objrefs = Cardinality(Classifying)

(***************************************************************************)
(* windivert_destroy came last.                                            *)
(***************************************************************************)
FreedLast == filter = "freed" => state = "CLOSED" /\ Classifying = {}

RefInv == ReferencesCounted /\ FreedLast

(***************************************************************************)
(* What a step does to the callbacks that hold a reference: one of them    *)
(* starts while the handle is open, or one ends, or none does either.      *)
(***************************************************************************)
ReferenceStep ==
  \/ objrefs' = objrefs /\ Classifying' = Classifying
  \/ \E n \in NBLs \ Classifying :
       /\ state = "OPEN"
       /\ objrefs' = objrefs + 1 /\ Classifying' = Classifying \cup {n}
  \/ \E n \in Classifying :
       objrefs' = objrefs - 1 /\ Classifying' = Classifying \ {n}

(***************************************************************************)
(* Every step treats the references in one of these ways.                  *)
(***************************************************************************)
LEMMA NextReferenceStep == TypeInv /\ [Next]_vars => ReferenceStep
<1> SUFFICES ASSUME TypeInv, [Next]_vars PROVE ReferenceStep
  OBVIOUS
<1>0. cls \in [NBLs -> {"new", "entered", "matched", "continued", "blocked"}]
  BY DEF TypeInv, TypeOK, ListsTyped
<1>1. objrefs' = objrefs /\ cls' = cls => ReferenceStep
  BY DEF ReferenceStep, Classifying
<1>2. ASSUME NEW n \in NBLs, ClassifyEnter(n) \/ Classify(n) PROVE ReferenceStep
  <2> DEFINE To(c) == cls' = [cls EXCEPT ![n] = c]
  <2>1. \/ cls[n] = "new" /\ objrefs' = objrefs /\ To("continued")
        \/ cls[n] = "new" /\ state = "OPEN" /\ objrefs' = objrefs + 1 /\ To("entered")
        \/ cls[n] = "entered" /\ objrefs' = objrefs /\ To("matched")
        \/ n \in Classifying /\ objrefs' = objrefs - 1 /\ (To("continued") \/ To("blocked"))
    BY <1>2 DEF ClassifyEnter, Reference, Classify, ClassifyFilter,
       ClassifyNoMemory, ClassifyQueue, Classifying
  <2>2. /\ To("continued") \/ To("blocked") => Classifying' = Classifying \ {n}
        /\ To("entered") \/ To("matched") => Classifying' = Classifying \cup {n}
    BY <1>0 DEF Classifying
  <2>3. /\ cls[n] = "new" => n \notin Classifying
        /\ cls[n] = "entered" => n \in Classifying
    BY DEF Classifying
  <2> HIDE DEF To
  <2> QED BY <2>1, <2>2, <2>3 DEF ReferenceStep
<1>3. ASSUME NEW n \in NBLs, InjectComplete(n) PROVE ReferenceStep
  BY <1>1, <1>3 DEF InjectComplete, lifeVars
<1>4. ASSUME NEW w \in Workers, Worker(w) PROVE ReferenceStep
  BY <1>1, <1>4 DEF Worker, WorkerStart, WorkerReturn, WorkerTake,
     WorkerSniff, WorkerNext, WorkerFinish, QueueRefuse, QueueDrop, QueueFast,
     QueueCopy, InsertRefuse, InsertDrop, InsertEvict, Insert, InsertThen,
     lifeVars, nblVars
<1>5. ASSUME NEW t \in Threads, Service(t) PROVE ReferenceStep
  BY <1>1, <1>5 DEF Service, ServiceExpire, ServicePair, ServiceReturn, Serve,
     lifeVars, nblVars
<1>6. ASSUME NEW r \in Reqs, Read(r) \/ Cancel(r) PROVE ReferenceStep
  BY <1>1, <1>6 DEF Read, Cancel, lifeVars, nblVars
<1>7. CASE SetParam \/ CleanupBegin \/ Cleanup
  BY <1>1, <1>7 DEF SetParam, CleanupBegin, Cleanup, CleanupPacket,
     CleanupPacketsDone, CleanupWork, CleanupPurge, CleanupFlush,
     CleanupUninstall, Close, Destroy, lifeVars, nblVars
<1>8. CASE Terminated \/ UNCHANGED vars
  BY <1>1, <1>8 DEF Terminated, vars, lifeVars, nblVars
<1> QED BY <1>2, <1>3, <1>4, <1>5, <1>6, <1>7, <1>8 DEF Next

(***************************************************************************)
(* The references are counted, and none is left when the filter is freed.  *)
(***************************************************************************)
LEMMA NextRefInv == TypeInv /\ CleanupInv /\ RefInv /\ [Next]_vars => RefInv'
<1> SUFFICES ASSUME TypeInv, CleanupInv, RefInv, [Next]_vars PROVE RefInv'
  OBVIOUS
<1>0. ReferenceStep /\ IsFiniteSet(Classifying) /\ objrefs = Cardinality(Classifying)
  BY NextReferenceStep DEF RefInv, ReferencesCounted
<1>1. ReferencesCounted'
  <2>1. CASE objrefs' = objrefs /\ Classifying' = Classifying
    BY <1>0, <2>1 DEF ReferencesCounted
  <2>2. ASSUME NEW n \in NBLs \ Classifying, objrefs' = objrefs + 1,
               Classifying' = Classifying \cup {n}
        PROVE  ReferencesCounted'
    <3>1. /\ IsFiniteSet(Classifying \cup {n})
          /\ Cardinality(Classifying \cup {n}) = Cardinality(Classifying) + 1
      BY <1>0, <2>2, FS_AddElement
    <3> QED BY <1>0, <2>2, <3>1 DEF ReferencesCounted
  <2>3. ASSUME NEW n \in Classifying, objrefs' = objrefs - 1,
               Classifying' = Classifying \ {n}
        PROVE  ReferencesCounted'
    <3>1. /\ IsFiniteSet(Classifying \ {n})
          /\ Cardinality(Classifying \ {n}) = Cardinality(Classifying) - 1
      BY <1>0, <2>3, FS_RemoveElement
    <3> QED BY <1>0, <2>3, <3>1 DEF ReferencesCounted
  <2> QED BY <1>0, <2>1, <2>2, <2>3 DEF ReferenceStep
<1>2. FreedLast'
  <2>1. CASE Destroy
    <3>1. objrefs = 0 /\ cls' = cls /\ state' = state /\ state = "CLOSED"
      BY <2>1 DEF Destroy, nblVars
    <3>2. Classifying = {}
      BY <1>0, <3>1, FS_EmptySet
    <3> QED BY <3>1, <3>2 DEF FreedLast, Classifying
  <2>2. CASE ~Destroy
    <3>1. filter' = filter /\ (state = "CLOSED" => state' = "CLOSED")
      <4>1. CASE Others
        BY <4>1, OthersFrame
      <4>2. CASE ~Others
        BY <2>2, <4>2 DEF Next, Others, Cleanup, CleanupBegin, CleanupPacket,
           CleanupPacketsDone, CleanupWork, CleanupPurge, CleanupFlush,
           CleanupUninstall, Close
      <4> QED BY <4>1, <4>2
    <3>2. state # "OPEN" /\ Classifying = {} => Classifying' = {}
      BY <1>0 DEF ReferenceStep
    <3> QED BY <3>1, <3>2 DEF RefInv, FreedLast
  <2> QED BY <2>1, <2>2
<1> QED BY <1>1, <1>2 DEF RefInv

(***************************************************************************)
(* The file object's references are those of the callbacks, and the last   *)
(* of them is gone before windivert_destroy frees the filter.              *)
(***************************************************************************)
THEOREM RefInvariance == Spec => []RefInv
<1>1. Init => RefInv
  <2> SUFFICES ASSUME Init PROVE RefInv
    OBVIOUS
  <2>1. Classifying = {}
    BY DEF Init, Classifying
  <2>2. objrefs = 0 /\ filter = "on"
    BY DEF Init
  <2> QED BY <2>1, <2>2, FS_EmptySet DEF RefInv, ReferencesCounted, FreedLast
<1> QED BY <1>1, NextRefInv, CleanupInvariance, TypeInvariance, PTL DEF Spec

(***************************************************************************)
(* What windivert_cleanup and windivert_destroy delete is no longer used:  *)
(* not the read queue by a request, not the work item by a worker, and not *)
(* the filter by a classify callback that evaluates it without the lock.   *)
(***************************************************************************)
THEOREM NoUseAfterDeleteHolds == Spec => []NoUseAfterDelete
<1>1. TypeInv /\ CleanupInv /\ RefInv => NoUseAfterDelete
  <2> SUFFICES ASSUME TypeInv, CleanupInv, RefInv PROVE NoUseAfterDelete
    OBVIOUS
  <2> USE DEF CleanupInv, ClosingBegun, Drained, Deleted, Quiesced, AllObjects
  <2>1. cleanup \in CleanupPCs /\ filter \in {"on", "freed"}
    BY DEF TypeInv, TypeOK, LifeTyped
  <2>2. state = "OPEN" => objects = AllObjects
    OBVIOUS
  <2>3. read_queue # {} => "read_queue" \in objects
    OBVIOUS
  <2>4. ~WorkerIdle => "worker" \in objects
    BY <2>1 DEF CleanupPCs
  <2>5. FilterInUse => filter = "on"
    <3>1. filter = "freed" => WorkerIdle /\ \A n \in NBLs : cls[n] # "entered"
      BY DEF RefInv, FreedLast, Classifying
    <3> QED BY <2>1, <3>1 DEF FilterInUse, WorkerIdle
  <2> QED BY <2>2, <2>3, <2>4, <2>5 DEF NoUseAfterDelete
<1> QED BY <1>1, RefInvariance, CleanupInvariance, TypeInvariance, PTL

-----------------------------------------------------------------------------
(***************************************************************************)
(* A list without repetitions (the work queue, the packet queue, the       *)
(* buffers of a NET_BUFFER_LIST) loses exactly its head.                   *)
(***************************************************************************)
LEMMA TailOfInjective ==
  ASSUME NEW S, NEW s \in Seq(S), s # <<>>, IsInjective(s)
  PROVE  /\ Head(s) \in S /\ Head(s) \in Range(s)
         /\ Tail(s) \in Seq(S) /\ IsInjective(Tail(s))
         /\ Range(Tail(s)) = Range(s) \ {Head(s)}
<1>1. /\ DOMAIN s = 1..Len(s) /\ Len(s) \in Nat /\ Len(s) >= 1
      /\ Tail(s) \in Seq(S) /\ DOMAIN Tail(s) = 1..Len(s) - 1
      /\ Head(s) = s[1] /\ Head(s) \in S
      /\ \A i \in 1..Len(s) - 1 : Tail(s)[i] = s[i + 1]
  OBVIOUS
<1>2. Head(s) \in Range(s)
  BY <1>1 DEF Range
<1>3. IsInjective(Tail(s))
  <2> SUFFICES ASSUME NEW i \in 1..Len(s) - 1, NEW j \in 1..Len(s) - 1,
                      Tail(s)[i] = Tail(s)[j]
               PROVE  i = j
    BY <1>1 DEF IsInjective
  <2>1. i + 1 \in DOMAIN s /\ j + 1 \in DOMAIN s /\ s[i + 1] = s[j + 1]
    BY <1>1
  <2>2. i + 1 = j + 1
    BY <2>1 DEF IsInjective
  <2> QED BY <2>2
<1>4. ASSUME NEW x \in Range(Tail(s)) PROVE x \in Range(s) \ {Head(s)}
  <2>1. PICK i \in 1..Len(s) - 1 : x = Tail(s)[i]
    BY <1>1 DEF Range
  <2>2. i + 1 \in DOMAIN s /\ 1 \in DOMAIN s /\ i + 1 # 1 /\ x = s[i + 1]
    BY <1>1, <2>1
  <2> QED BY <1>1, <2>2 DEF Range, IsInjective
<1>5. ASSUME NEW x \in Range(s) \ {Head(s)} PROVE x \in Range(Tail(s))
  <2>1. PICK i \in 1..Len(s) : x = s[i]
    BY <1>1 DEF Range
  <2>2. i - 1 \in 1..Len(s) - 1 /\ i - 1 + 1 = i
    BY <1>1, <2>1
  <2>3. x = Tail(s)[i - 1]
    BY <1>1, <2>1, <2>2
  <2> QED BY <1>1, <2>2, <2>3 DEF Range
<1> QED BY <1>1, <1>2, <1>3, <1>4, <1>5

(***************************************************************************)
(* A list without repetitions gains exactly what is appended.              *)
(***************************************************************************)
LEMMA AppendToInjective ==
  ASSUME NEW S, NEW s \in Seq(S), NEW e \in S, e \notin Range(s), IsInjective(s)
  PROVE  /\ Append(s, e) \in Seq(S) /\ IsInjective(Append(s, e))
         /\ Range(Append(s, e)) = Range(s) \cup {e}
<1> DEFINE t == Append(s, e)
<1>1. /\ DOMAIN s = 1..Len(s) /\ Len(s) \in Nat
      /\ t \in Seq(S) /\ DOMAIN t = 1..Len(s) + 1
      /\ t[Len(s) + 1] = e
      /\ \A i \in 1..Len(s) : t[i] = s[i]
  OBVIOUS
<1> HIDE DEF t
<1>2. \A i \in 1..Len(s) : s[i] \in Range(s)
  BY <1>1 DEF Range
<1>3. ASSUME NEW i \in DOMAIN t, NEW j \in DOMAIN t, t[i] = t[j] PROVE i = j
  <2>1. \A k \in DOMAIN t : k = Len(s) + 1 \/ k \in 1..Len(s)
    BY <1>1
  <2>2. \A k \in 1..Len(s) : t[k] # e
    BY <1>1, <1>2
  <2>3. i \in 1..Len(s) /\ j \in 1..Len(s) => i = j
    BY <1>1, <1>3 DEF IsInjective
  <2> QED BY <1>1, <1>3, <2>1, <2>2, <2>3
<1>4. ASSUME NEW x \in Range(t) PROVE x \in Range(s) \cup {e}
  <2>1. PICK i \in DOMAIN t : x = t[i]
    BY DEF Range
  <2>2. i = Len(s) + 1 \/ i \in 1..Len(s)
    BY <1>1, <2>1
  <2> QED BY <1>1, <1>2, <2>1, <2>2
<1>5. ASSUME NEW x \in Range(s) \cup {e} PROVE x \in Range(t)
  <2>1. CASE x = e
    <3>1. Len(s) + 1 \in DOMAIN t
      BY <1>1
    <3> QED BY <1>1, <2>1, <3>1 DEF Range
  <2>2. CASE x \in Range(s)
    <3>1. PICK i \in 1..Len(s) : x = s[i]
      BY <1>1, <2>2 DEF Range
    <3>2. i \in DOMAIN t /\ x = t[i]
      BY <1>1, <3>1
    <3> QED BY <3>2 DEF Range
  <2> QED BY <2>1, <2>2
<1> QED BY <1>1, <1>3, <1>4, <1>5 DEF IsInjective, t

-----------------------------------------------------------------------------
(***************************************************************************)
(* A list is in the work queue once, or in the hands of one worker.        *)
(***************************************************************************)
OneHolder ==
  /\ IsInjective(work_queue)
  /\ \A w \in Workers : work[w] \notin Range(work_queue)
  /\ \A v, w \in Workers : work[v] = work[w] /\ work[v] # Nil => v = w

(***************************************************************************)
(* The driver keeps only lists that its callout blocked.                   *)
(***************************************************************************)
HeldBlocked ==
  /\ \A n \in Range(work_queue) : cls[n] = "blocked"
  /\ \A w \in Workers : work[w] # Nil => cls[work[w]] = "blocked"

(***************************************************************************)
(* A worker has a list only inside the loop body of windivert_worker, and  *)
(* has retreated it to its IP header, unless that failed.                  *)
(***************************************************************************)
BetweenWorks == \A w \in Workers : pc[w] \in {"idle", "work"} => work[w] = Nil

AtHeader ==
  \A w \in Workers : pc[w] \notin {"idle", "work", "finish"} => atip[work[w]]

ListsInv ==
  /\ OneHolder /\ HeldBlocked /\ BetweenWorks /\ AtHeader
  /\ ListsBalanced /\ IntactWhileOpen

(***************************************************************************)
(* What a step does to the lists the driver keeps, and to the references   *)
(* on them: nothing; inject a copy of one, or complete one; put a newly    *)
(* blocked list in the work queue, discarding the oldest or not; give the  *)
(* oldest to a worker; release the one a worker has; or, in cleanup,       *)
(* release the oldest or turn it into its own copy.                        *)
(***************************************************************************)
SameHolders == UNCHANGED <<work_queue, work>>

NothingHappens ==
  /\ SameHolders /\ UNCHANGED <<refs, inflight, atip>>
  /\ \A n \in NBLs : cls[n] = "blocked" => cls'[n] = "blocked"

CopyInjected(n) ==
  /\ SameHolders /\ UNCHANGED <<cls, atip>>
  /\ refs' = [refs EXCEPT ![n] = @ + 1]
  /\ inflight' = [inflight EXCEPT ![n] = @ + 1]

CopyCompleted(n) ==
  /\ SameHolders /\ UNCHANGED <<cls, atip>>
  /\ refs' = [refs EXCEPT ![n] = @ - 1]
  /\ inflight' = [inflight EXCEPT ![n] = @ - 1]

ListQueued(n) ==
  /\ cls[n] # "blocked" /\ cls' = [cls EXCEPT ![n] = "blocked"]
  /\ \/ /\ work_queue' = Append(work_queue, n)
        /\ refs' = [refs EXCEPT ![n] = @ + 1]
     \/ /\ work_queue # <<>>
        /\ work_queue' = Append(Tail(work_queue), n)
        /\ refs' = [refs EXCEPT ![n] = @ + 1, ![Head(work_queue)] = @ - 1]
  /\ UNCHANGED <<work, inflight, atip>>

ListTaken(w) ==
  /\ work_queue # <<>> /\ work[w] = Nil
  /\ work' = [work EXCEPT ![w] = Head(work_queue)]
  /\ work_queue' = Tail(work_queue)
  /\ \/ atip' = [atip EXCEPT ![Head(work_queue)] = TRUE]
     \/ atip' = atip
  /\ UNCHANGED <<refs, inflight, cls>>

ListReleased(w) ==
  /\ work[w] \in NBLs
  /\ work' = [work EXCEPT ![w] = Nil]
  /\ atip' = [atip EXCEPT ![work[w]] = work[w] \notin Inbound]
  /\ refs' = [refs EXCEPT ![work[w]] = @ - 1]
  /\ UNCHANGED <<work_queue, inflight, cls>>

ListDrained ==
  /\ work_queue # <<>>
  /\ work_queue' = Tail(work_queue)
  /\ \/ /\ refs' = [refs EXCEPT ![Head(work_queue)] = @ - 1]
        /\ UNCHANGED inflight
     \/ /\ inflight' = [inflight EXCEPT ![Head(work_queue)] = @ + 1]
        /\ UNCHANGED refs
  /\ UNCHANGED <<work, atip, cls>>

ListStep ==
  \/ NothingHappens
  \/ \E n \in NBLs : CopyInjected(n) \/ CopyCompleted(n) \/ ListQueued(n)
  \/ \E w \in Workers : ListTaken(w) \/ ListReleased(w)
  \/ ListDrained

(***************************************************************************)
(* Every step of the driver treats the lists in one of these ways.         *)
(***************************************************************************)
LEMMA NextListStep == TypeInv /\ BetweenWorks /\ [Next]_vars => ListStep
<1> SUFFICES ASSUME TypeInv, BetweenWorks, [Next]_vars PROVE ListStep
  OBVIOUS
<1> USE DEF SameHolders
<1>0. /\ WorkTyped /\ ListsTyped /\ ThreadsTyped /\ WorkCounter
      /\ \A w \in Workers : pc[w] \notin {"idle", "work"} => work[w] \in NBLs
  BY DEF TypeInv, TypeOK, HasList
<1>1. ASSUME NEW n \in NBLs, ClassifyEnter(n) \/ Classify(n) \/ InjectComplete(n)
      PROVE  ListStep
  <2>1. CASE ClassifyEnter(n) \/ ClassifyFilter(n) \/ ClassifyNoMemory(n)
    <3>1. NothingHappens
      BY <1>0, <2>1 DEF ClassifyEnter, ClassifyFilter, ClassifyNoMemory,
         NothingHappens, workVars, threadVars, ListsTyped
    <3> QED BY <3>1 DEF ListStep
  <2>2. CASE ClassifyQueue(n)
    <3>1. CASE UNCHANGED workVars
      <4>1. NothingHappens \/ ListQueued(n)
        BY <1>0, <2>2, <3>1 DEF ClassifyQueue, NothingHappens, ListQueued,
           workVars, threadVars, ListsTyped
      <4> QED BY <4>1 DEF ListStep
    <3>2. CASE ~UNCHANGED workVars
      <4>1. WorkFull => work_queue # <<>>
        BY <1>0, ContextAssumption DEF WorkFull, WorkCounter
      <4>2. ListQueued(n)
        BY <2>2, <3>2, <4>1 DEF ClassifyQueue, ListQueued, threadVars
      <4> QED BY <4>2 DEF ListStep
    <3> QED BY <3>1, <3>2
  <2>3. CASE InjectComplete(n)
    <3>1. CopyCompleted(n)
      BY <2>3 DEF InjectComplete, ReleaseList, CopyCompleted, workVars, threadVars
    <3> QED BY <3>1 DEF ListStep
  <2> QED BY <1>1, <2>1, <2>2, <2>3 DEF Classify
<1>2. ASSUME NEW w \in Workers, Worker(w) PROVE ListStep
  <2>1. CASE WorkerTake(w)
    <3>1. ListTaken(w)
      BY <2>1 DEF WorkerTake, Retreat, ListTaken, BetweenWorks
    <3> QED BY <3>1 DEF ListStep
  <2>2. CASE WorkerFinish(w)
    <3>1. ListReleased(w)
      BY <1>0, <2>2 DEF WorkerFinish, Advance, ReleaseList, ListReleased, workVars
    <3> QED BY <3>1 DEF ListStep
  <2>3. CASE WorkerSniff(w) \/ WorkerNext(w)
    <3>1. work[w] \in NBLs
      BY <1>0, <2>3 DEF WorkerSniff, WorkerNext
    <3>2. NothingHappens \/ CopyInjected(work[w])
      BY <2>3 DEF WorkerSniff, WorkerNext, Put, PutSucceeds, PutIsRefused,
         NothingHappens, CopyInjected, workVars
    <3> QED BY <3>1, <3>2 DEF ListStep
  <2>4. CASE ~WorkerTake(w) /\ ~WorkerFinish(w) /\ ~WorkerSniff(w) /\ ~WorkerNext(w)
    <3>1. NothingHappens
      BY <1>2, <2>4 DEF Worker, WorkerStart, WorkerReturn, QueueRefuse,
         QueueDrop, QueueFast, QueueCopy, InsertRefuse, InsertDrop,
         InsertEvict, Insert, InsertThen, NothingHappens, workVars, nblVars,
         threadVars
    <3> QED BY <3>1 DEF ListStep
  <2> QED BY <2>1, <2>2, <2>3, <2>4
<1>3. ASSUME NEW t \in Threads, Service(t) PROVE ListStep
  <2>1. NothingHappens
    BY <1>3 DEF Service, ServiceExpire, ServicePair, ServiceReturn, Serve,
       NothingHappens, workVars, nblVars, threadVars
  <2> QED BY <2>1 DEF ListStep
<1>4. ASSUME NEW r \in Reqs, Read(r) \/ Cancel(r) PROVE ListStep
  <2>1. NothingHappens
    BY <1>4 DEF Read, Cancel, NothingHappens, workVars, nblVars, threadVars
  <2> QED BY <2>1 DEF ListStep
<1>5. CASE CleanupWork
  <2>1. ListDrained
    BY <1>5 DEF CleanupWork, ReleaseList, ListDrained, threadVars
  <2> QED BY <2>1 DEF ListStep
<1>6. CASE SetParam \/ CleanupBegin \/ (Cleanup /\ ~CleanupWork)
  <2>1. NothingHappens
    BY <1>6 DEF SetParam, CleanupBegin, Cleanup, CleanupPacket,
       CleanupPacketsDone, CleanupPurge, CleanupFlush, CleanupUninstall,
       Close, Destroy, NothingHappens, workVars, nblVars, threadVars
  <2> QED BY <2>1 DEF ListStep
<1>7. CASE Terminated \/ UNCHANGED vars
  <2>1. NothingHappens
    BY <1>7 DEF Terminated, vars, NothingHappens, workVars, nblVars, threadVars
  <2> QED BY <2>1 DEF ListStep
<1> QED BY <1>1, <1>2, <1>3, <1>4, <1>5, <1>6, <1>7 DEF Next

(***************************************************************************)
(* No list gets a second holder, and what is held is blocked.              *)
(***************************************************************************)
LEMMA ListStepHolders ==
  ASSUME TypeInv, OneHolder, HeldBlocked, ListStep
  PROVE  OneHolder' /\ HeldBlocked'
<1>0. /\ work_queue \in Seq(NBLs) /\ Range(work_queue) \subseteq NBLs
      /\ work \in [Workers -> NBLs \cup {Nil}] /\ Nil \notin NBLs
      /\ cls \in [NBLs -> {"new", "entered", "matched", "continued", "blocked"}]
  BY ContextAssumption DEF TypeInv, TypeOK, WorkTyped, ThreadsTyped, ListsTyped, Range
<1>1. /\ IsInjective(work_queue)
      /\ \A w \in Workers : work[w] \notin Range(work_queue)
      /\ \A v, w \in Workers : work[v] = work[w] /\ work[v] # Nil => v = w
      /\ \A n \in Range(work_queue) : cls[n] = "blocked"
      /\ \A w \in Workers : work[w] # Nil => cls[work[w]] = "blocked"
  BY DEF OneHolder, HeldBlocked
<1>2. work_queue # <<>> =>
        /\ Head(work_queue) \in NBLs /\ Head(work_queue) \in Range(work_queue)
        /\ Tail(work_queue) \in Seq(NBLs) /\ IsInjective(Tail(work_queue))
        /\ Range(Tail(work_queue)) = Range(work_queue) \ {Head(work_queue)}
  BY <1>0, <1>1, TailOfInjective
<1>3. CASE NothingHappens
  BY <1>0, <1>1, <1>3 DEF NothingHappens, SameHolders, OneHolder, HeldBlocked
<1>4. ASSUME NEW n \in NBLs, CopyInjected(n) \/ CopyCompleted(n)
      PROVE  OneHolder' /\ HeldBlocked'
  BY <1>1, <1>4 DEF CopyInjected, CopyCompleted, SameHolders, OneHolder, HeldBlocked
<1>5. ASSUME NEW n \in NBLs, ListQueued(n) PROVE OneHolder' /\ HeldBlocked'
  <2>1. n \notin Range(work_queue) /\ \A w \in Workers : work[w] # n
    BY <1>0, <1>1, <1>5 DEF ListQueued
  <2>2. /\ IsInjective(work_queue') /\ n \in Range(work_queue')
        /\ Range(work_queue') \subseteq Range(work_queue) \cup {n}
    <3>1. CASE work_queue' = Append(work_queue, n)
      BY <1>0, <1>1, <2>1, <3>1, AppendToInjective
    <3>2. CASE work_queue # <<>> /\ work_queue' = Append(Tail(work_queue), n)
      <4>1. n \notin Range(Tail(work_queue))
        BY <1>2, <2>1, <3>2
      <4> DEFINE t == Tail(work_queue)
      <4>2. t \in Seq(NBLs) /\ IsInjective(t) /\ n \notin Range(t)
        BY <1>2, <3>2, <4>1
      <4>3. Range(t) \subseteq Range(work_queue) /\ work_queue' = Append(t, n)
        BY <1>2, <3>2
      <4> HIDE DEF t
      <4>4. IsInjective(Append(t, n)) /\ Range(Append(t, n)) = Range(t) \cup {n}
        BY <4>2, AppendToInjective
      <4> QED BY <4>3, <4>4
    <3> QED BY <1>5, <3>1, <3>2 DEF ListQueued
  <2>3. work' = work /\ cls' = [cls EXCEPT ![n] = "blocked"]
    BY <1>5 DEF ListQueued
  <2> QED BY <1>0, <1>1, <2>1, <2>2, <2>3 DEF OneHolder, HeldBlocked
<1>6. ASSUME NEW w \in Workers, ListTaken(w) PROVE OneHolder' /\ HeldBlocked'
  <2>1. /\ work_queue # <<>> /\ work_queue' = Tail(work_queue) /\ cls' = cls
        /\ work' = [work EXCEPT ![w] = Head(work_queue)]
    BY <1>6 DEF ListTaken
  <2> QED BY <1>0, <1>1, <1>2, <2>1 DEF OneHolder, HeldBlocked
<1>7. ASSUME NEW w \in Workers, ListReleased(w) PROVE OneHolder' /\ HeldBlocked'
  <2>1. /\ work_queue' = work_queue /\ cls' = cls
        /\ work' = [work EXCEPT ![w] = Nil]
    BY <1>7 DEF ListReleased
  <2> QED BY <1>0, <1>1, <2>1 DEF OneHolder, HeldBlocked
<1>8. CASE ListDrained
  <2>1. work_queue # <<>> /\ work_queue' = Tail(work_queue) /\ UNCHANGED <<work, cls>>
    BY <1>8 DEF ListDrained
  <2> QED BY <1>0, <1>1, <1>2, <2>1 DEF OneHolder, HeldBlocked
<1> QED BY <1>3, <1>4, <1>5, <1>6, <1>7, <1>8 DEF ListStep

(***************************************************************************)
(* References and copies stay in balance, list by list, and a list nobody  *)
(* works on starts where the stack left it.                                *)
(***************************************************************************)
LEMMA ListStepBalanced ==
  ASSUME TypeInv, OneHolder, HeldBlocked, ListsBalanced, ListStep
  PROVE  ListsBalanced'
<1>0. /\ work_queue \in Seq(NBLs) /\ Range(work_queue) \subseteq NBLs
      /\ work \in [Workers -> NBLs \cup {Nil}] /\ Nil \notin NBLs
      /\ refs \in [NBLs -> Int] /\ inflight \in [NBLs -> Nat]
  BY ContextAssumption DEF TypeInv, TypeOK, WorkTyped, ThreadsTyped, ListsTyped, Range
<1>a. atip \in [NBLs -> BOOLEAN]
  BY DEF TypeInv, TypeOK, ListsTyped
<1>1. /\ IsInjective(work_queue)
      /\ \A w \in Workers : work[w] \notin Range(work_queue)
      /\ \A v, w \in Workers : work[v] = work[w] /\ work[v] # Nil => v = w
  BY DEF OneHolder
<1>2. work_queue # <<>> =>
        /\ Head(work_queue) \in NBLs /\ Head(work_queue) \in Range(work_queue)
        /\ Tail(work_queue) \in Seq(NBLs) /\ IsInjective(Tail(work_queue))
        /\ Range(Tail(work_queue)) = Range(work_queue) \ {Head(work_queue)}
  BY <1>0, <1>1, TailOfInjective
<1> DEFINE Wk(n) == \E w \in Workers : work[w] = n
           Wkp(n) == \E w \in Workers : work'[w] = n
           One(n) == IF IsWork(n) THEN 1 ELSE 0
           Onep(n) == IF n \in Range(work_queue') \/ Wkp(n) THEN 1 ELSE 0
<1>3. \A n \in NBLs : /\ refs[n] = inflight[n] + One(n)
                      /\ ~Wk(n) => (atip[n] <=> n \notin Inbound)
  BY DEF ListsBalanced
<1>4. SUFFICES ASSUME NEW m \in NBLs
               PROVE  /\ refs'[m] = inflight'[m] + Onep(m)
                      /\ ~Wkp(m) => (atip'[m] <=> m \notin Inbound)
  BY DEF ListsBalanced, IsWork
<1>5. /\ refs[m] = inflight[m] + One(m)
      /\ ~Wk(m) => (atip[m] <=> m \notin Inbound)
  BY <1>3
<1>6. One(m) = IF m \in Range(work_queue) \/ Wk(m) THEN 1 ELSE 0
  BY DEF IsWork
<1> HIDE DEF One
<1>7. CASE NothingHappens
  BY <1>5, <1>6, <1>7 DEF NothingHappens, SameHolders
<1>8. ASSUME NEW n \in NBLs, CopyInjected(n) \/ CopyCompleted(n)
      PROVE  /\ refs'[m] = inflight'[m] + Onep(m)
             /\ ~Wkp(m) => (atip'[m] <=> m \notin Inbound)
  <2>1. /\ Onep(m) = One(m) /\ atip' = atip /\ (Wkp(m) <=> Wk(m))
    BY <1>6, <1>8 DEF CopyInjected, CopyCompleted, SameHolders
  <2>2. One(m) \in Int
    BY <1>6
  <2>3. refs'[m] = inflight'[m] + One(m)
    <3> HIDE DEF Onep, Wk, Wkp
    <3>1. refs[m] \in Int /\ inflight[m] \in Int
      BY <1>0
    <3>2. CASE CopyInjected(n)
      <4>1. /\ refs'[m] = IF m = n THEN refs[m] + 1 ELSE refs[m]
            /\ inflight'[m] = IF m = n THEN inflight[m] + 1 ELSE inflight[m]
        BY <1>0, <3>2 DEF CopyInjected
      <4> QED BY <1>5, <2>2, <3>1, <4>1
    <3>3. CASE CopyCompleted(n)
      <4>1. /\ refs'[m] = IF m = n THEN refs[m] - 1 ELSE refs[m]
            /\ inflight'[m] = IF m = n THEN inflight[m] - 1 ELSE inflight[m]
        BY <1>0, <3>3 DEF CopyCompleted
      <4> QED BY <1>5, <2>2, <3>1, <4>1
    <3> QED BY <1>8, <3>2, <3>3
  <2> HIDE DEF Onep, Wk, Wkp
  <2> QED BY <1>5, <2>1, <2>3
<1>9. ASSUME NEW n \in NBLs, ListQueued(n)
      PROVE  /\ refs'[m] = inflight'[m] + Onep(m)
             /\ ~Wkp(m) => (atip'[m] <=> m \notin Inbound)
  <2>1. n \notin Range(work_queue) /\ ~Wk(n)
    BY <1>0, <1>9 DEF ListQueued, HeldBlocked
  <2>2. work' = work /\ inflight' = inflight /\ atip' = atip
    BY <1>9 DEF ListQueued
  <2>3. Wkp(m) <=> Wk(m)
    BY <2>2
  <2>4. CASE /\ work_queue' = Append(work_queue, n)
             /\ refs' = [refs EXCEPT ![n] = @ + 1]
    <3>1. Range(work_queue') = Range(work_queue) \cup {n}
      BY <1>0, <1>1, <2>1, <2>4, AppendToInjective
    <3> HIDE DEF Wk, Wkp
    <3>2. refs'[m] = inflight'[m] + Onep(m)
      BY <1>0, <1>5, <1>6, <2>1, <2>2, <2>3, <2>4, <3>1
    <3> QED BY <1>5, <2>2, <2>3, <3>2
  <2>5. CASE /\ work_queue # <<>>
             /\ work_queue' = Append(Tail(work_queue), n)
             /\ refs' = [refs EXCEPT ![n] = @ + 1, ![Head(work_queue)] = @ - 1]
    <3>1. n \notin Range(Tail(work_queue)) /\ Head(work_queue) # n
      BY <1>2, <2>1, <2>5
    <3>2. Range(work_queue') = (Range(work_queue) \ {Head(work_queue)}) \cup {n}
      <4> DEFINE t == Tail(work_queue)
      <4>1. /\ t \in Seq(NBLs) /\ IsInjective(t) /\ n \notin Range(t)
            /\ Range(t) = Range(work_queue) \ {Head(work_queue)}
            /\ work_queue' = Append(t, n)
        BY <1>2, <2>5, <3>1
      <4> HIDE DEF t
      <4>2. Range(Append(t, n)) = Range(t) \cup {n}
        BY <4>1, AppendToInjective
      <4> QED BY <4>1, <4>2
    <3>3. ~Wk(Head(work_queue))
      BY <1>1, <1>2, <2>5
    <3> HIDE DEF Wk, Wkp
    <3>4. refs'[m] = inflight'[m] + Onep(m)
      BY <1>0, <1>2, <1>5, <1>6, <2>1, <2>2, <2>3, <2>5, <3>1, <3>2, <3>3
    <3> QED BY <1>5, <2>2, <2>3, <3>4
  <2> QED BY <1>9, <2>4, <2>5 DEF ListQueued
<1>10. ASSUME NEW w \in Workers, ListTaken(w)
       PROVE  /\ refs'[m] = inflight'[m] + Onep(m)
              /\ ~Wkp(m) => (atip'[m] <=> m \notin Inbound)
  <2>1. /\ work_queue # <<>> /\ work_queue' = Tail(work_queue)
        /\ work' = [work EXCEPT ![w] = Head(work_queue)] /\ work[w] = Nil
        /\ UNCHANGED <<refs, inflight>>
        /\ atip' = [atip EXCEPT ![Head(work_queue)] = TRUE] \/ atip' = atip
    BY <1>10 DEF ListTaken
  <2>2. Wkp(m) <=> (Wk(m) \/ m = Head(work_queue))
    BY <1>0, <2>1
  <2> HIDE DEF Wk, Wkp
  <2>3. refs'[m] = inflight'[m] + Onep(m)
    BY <1>2, <1>5, <1>6, <2>1, <2>2
  <2>4. ~Wkp(m) => atip'[m] = atip[m]
    BY <1>a, <2>1, <2>2
  <2> QED BY <1>5, <2>2, <2>3, <2>4
<1>11. ASSUME NEW w \in Workers, ListReleased(w)
       PROVE  /\ refs'[m] = inflight'[m] + Onep(m)
              /\ ~Wkp(m) => (atip'[m] <=> m \notin Inbound)
  <2>1. /\ work[w] \in NBLs /\ work_queue' = work_queue /\ inflight' = inflight
        /\ work' = [work EXCEPT ![w] = Nil]
        /\ refs' = [refs EXCEPT ![work[w]] = @ - 1]
        /\ atip' = [atip EXCEPT ![work[w]] = work[w] \notin Inbound]
    BY <1>11 DEF ListReleased
  <2>2. /\ Wkp(m) <=> (Wk(m) /\ m # work[w])
        /\ Wk(work[w]) /\ work[w] \notin Range(work_queue)
    BY <1>0, <1>1, <2>1
  <2> HIDE DEF Wk, Wkp
  <2>3. refs'[m] = inflight'[m] + Onep(m)
    BY <1>0, <1>5, <1>6, <2>1, <2>2
  <2>4. CASE m = work[w]
    BY <1>a, <2>1, <2>3, <2>4
  <2>5. CASE m # work[w]
    <3>1. atip'[m] = atip[m]
      BY <1>a, <2>1, <2>5
    <3> QED BY <1>5, <2>2, <2>3, <2>5, <3>1
  <2> QED BY <2>4, <2>5
<1>12. CASE ListDrained
  <2>1. /\ work_queue # <<>> /\ work_queue' = Tail(work_queue)
        /\ UNCHANGED <<work, atip>>
        /\ \/ refs' = [refs EXCEPT ![Head(work_queue)] = @ - 1] /\ inflight' = inflight
           \/ inflight' = [inflight EXCEPT ![Head(work_queue)] = @ + 1] /\ refs' = refs
    BY <1>12 DEF ListDrained
  <2>2. (Wkp(m) <=> Wk(m)) /\ ~Wk(Head(work_queue))
    BY <1>1, <1>2, <2>1
  <2> HIDE DEF Wk, Wkp
  <2>3. refs'[m] = inflight'[m] + Onep(m)
    BY <1>0, <1>2, <1>5, <1>6, <2>1, <2>2
  <2> QED BY <1>5, <2>1, <2>2, <2>3
<1> QED BY <1>7, <1>8, <1>9, <1>10, <1>11, <1>12 DEF ListStep

(***************************************************************************)
(* A worker has no list between two turns of its loop, and works only on a *)
(* list whose data starts at the IP header: nobody else moves it.          *)
(***************************************************************************)
LEMMA NextWorkerLists ==
  TypeInv /\ OneHolder /\ BetweenWorks /\ AtHeader /\ [Next]_vars
    => (BetweenWorks /\ AtHeader)'
<1> SUFFICES ASSUME TypeInv, OneHolder, BetweenWorks, AtHeader, [Next]_vars
             PROVE  BetweenWorks' /\ AtHeader'
  OBVIOUS
<1> DEFINE Fine(v) == /\ pc'[v] \in {"idle", "work"} => work'[v] = Nil
                      /\ pc'[v] \notin {"idle", "work", "finish"} => atip'[work'[v]]
<1>0. /\ pc \in [Threads -> WorkerPCs \cup ReaderPCs]
      /\ work \in [Workers -> NBLs \cup {Nil}]
      /\ Workers \subseteq Threads /\ Reqs \cap Workers = {}
  BY ContextAssumption DEF TypeInv, TypeOK, ThreadsTyped, Threads
<1>a. atip \in [NBLs -> BOOLEAN]
  BY DEF TypeInv, TypeOK, ListsTyped
<1>b. \A w \in Workers : pc[w] \notin {"idle", "work"} => work[w] \in NBLs
  BY DEF TypeInv, HasList
<1>c. \A v \in Workers : /\ pc[v] \in {"idle", "work"} => work[v] = Nil
                         /\ pc[v] \notin {"idle", "work", "finish"} => atip[work[v]]
  BY DEF BetweenWorks, AtHeader
<1>1. SUFFICES ASSUME NEW v \in Workers PROVE Fine(v)
  BY DEF BetweenWorks, AtHeader
<1>2. pc'[v] = pc[v] /\ work'[v] = work[v] /\ atip' = atip => Fine(v)
  BY <1>c
<1>3. ASSUME NEW n \in NBLs, ClassifyEnter(n) \/ Classify(n) \/ InjectComplete(n)
      PROVE  Fine(v)
  BY <1>2, <1>3 DEF ClassifyEnter, Classify, ClassifyFilter,
     ClassifyNoMemory, ClassifyQueue, InjectComplete, threadVars
<1>4. ASSUME NEW w \in Workers, Worker(w) PROVE Fine(v)
  <2>0. Moves(w)
    BY <1>4, WorkerMoves
  <2>1. v # w => pc'[v] = pc[v] /\ work'[v] = work[v]
    BY <1>0, <2>0 DEF Moves
  <2>2. CASE WorkerTake(w)
    <3>1. /\ work_queue # <<>> /\ Head(work_queue) \in NBLs
          /\ work' = [work EXCEPT ![w] = Head(work_queue)]
      BY <2>2 DEF WorkerTake, TypeInv, TypeOK, WorkTyped
    <3>2. \/ /\ atip' = [atip EXCEPT ![Head(work_queue)] = TRUE]
             /\ pc'[w] \in {"sniff", "next"}
          \/ atip' = atip /\ pc'[w] = "finish"
      BY <1>0, <2>2 DEF WorkerTake, Retreat, Goto
    <3>3. CASE v = w
      BY <1>0, <1>a, <3>1, <3>2, <3>3
    <3>4. CASE v # w
      <4>1. pc[v] \notin {"idle", "work"} => (atip[work[v]] => atip'[work[v]])
        BY <1>a, <1>b, <3>1, <3>2
      <4> QED BY <1>c, <2>1, <3>4, <4>1
    <3> QED BY <3>3, <3>4
  <2>3. CASE WorkerFinish(w)
    <3>1. /\ atip' = [atip EXCEPT ![work[w]] = work[w] \notin Inbound]
          /\ pc'[w] = "work" /\ work'[w] = Nil /\ work[w] \in NBLs
      BY <1>0, <1>b, <2>3 DEF WorkerFinish, Advance, Goto
    <3>2. v # w /\ pc[v] \notin {"idle", "work"} => atip'[work[v]] = atip[work[v]]
      BY <1>0, <1>a, <1>b, <3>1, ContextAssumption DEF OneHolder
    <3> QED BY <1>c, <2>1, <3>1, <3>2
  <2>4. CASE ~WorkerTake(w) /\ ~WorkerFinish(w)
    <3>1. work' = work /\ atip' = atip
      BY <1>4, <2>4 DEF Worker, WorkerStart, WorkerReturn, WorkerSniff,
         WorkerNext, QueueRefuse, QueueDrop, QueueFast, QueueCopy,
         InsertRefuse, InsertDrop, InsertEvict, Insert, InsertThen, nblVars,
         threadVars
    <3>2. \/ pc[w] \in {"idle", "work"} /\ pc'[w] \in {"idle", "work"}
          \/ pc[w] \notin {"idle", "work", "finish"} /\ pc'[w] \notin {"idle", "work"}
      BY <1>0, <1>4, <2>4 DEF Worker, WorkerStart, WorkerReturn, WorkerSniff,
         WorkerNext, QueueRefuse, QueueDrop, QueueFast, QueueCopy,
         InsertRefuse, InsertDrop, InsertEvict, Evicts, Insert, InsertThen,
         Skip, Goto, threadVars
    <3> QED BY <1>c, <2>1, <3>1, <3>2
  <2> QED BY <2>2, <2>3, <2>4
<1>5. ASSUME NEW t \in Threads, Service(t) PROVE Fine(v)
  <2>1. work' = work /\ atip' = atip
    BY <1>5 DEF Service, ServiceExpire, ServicePair, ServiceReturn, Serve,
       nblVars, threadVars
  <2>2. /\ t # v => pc'[v] = pc[v]
        /\ pc[t] \in {"svc", "serve", "fast"}
        /\ pc'[t] \in {"svc", "serve", "next", "done"}
    BY <1>0, <1>5 DEF Service, ServiceExpire, ServicePair, ServiceReturn, Serve,
       Goto, Caller, threadVars
  <2> QED BY <1>c, <2>1, <2>2
<1>6. ASSUME NEW r \in Reqs, Read(r) \/ Cancel(r) PROVE Fine(v)
  <2>1. work' = work /\ atip' = atip
    BY <1>6 DEF Read, Cancel, nblVars, threadVars
  <2>2. pc'[v] = pc[v]
    BY <1>0, <1>6 DEF Read, Cancel, Goto, threadVars
  <2> QED BY <1>2, <2>1, <2>2
<1>7. SetParam \/ CleanupBegin \/ Cleanup => Fine(v)
  BY <1>2 DEF SetParam, CleanupBegin, Cleanup, CleanupPacket,
     CleanupPacketsDone, CleanupWork, CleanupPurge, CleanupFlush,
     CleanupUninstall, Close, Destroy, nblVars, threadVars
<1>8. Terminated \/ UNCHANGED vars => Fine(v)
  BY <1>2 DEF Terminated, vars, nblVars, threadVars
<1> HIDE DEF Fine
<1> QED BY <1>3, <1>4, <1>5, <1>6, <1>7, <1>8 DEF Next

(***************************************************************************)
(* While the handle is open only workers inject, from the IP header on.    *)
(* (CleanupWork injects lists as they are, but the handle is closing.)     *)
(***************************************************************************)
LEMMA NextIntact ==
  TypeInv /\ CleanupInv /\ AtHeader /\ IntactWhileOpen /\ [Next]_vars
    => IntactWhileOpen'
<1> SUFFICES ASSUME TypeInv, CleanupInv, AtHeader, IntactWhileOpen, [Next]_vars,
                    state' = "OPEN"
             PROVE  malformed' = {}
  BY DEF IntactWhileOpen
<1>1. CASE Others
  <2>1. malformed = {}
    BY <1>1, OthersFrame DEF IntactWhileOpen
  <2>2. ASSUME NEW n \in NBLs, ClassifyEnter(n) \/ Classify(n) \/ InjectComplete(n)
        PROVE  malformed' = malformed
    BY <2>2 DEF ClassifyEnter, Classify, ClassifyFilter, ClassifyNoMemory,
       ClassifyQueue, InjectComplete, fateVars
  <2>3. ASSUME NEW w \in Workers, Worker(w) PROVE malformed' = malformed
    <3>1. CASE WorkerSniff(w) \/ WorkerNext(w)
      <4>1. atip[work[w]]
        BY <3>1 DEF AtHeader, WorkerSniff, WorkerNext
      <4> QED BY <3>1, <4>1 DEF WorkerSniff, WorkerNext, Put, PutSucceeds,
              PutIsRefused, fateVars
    <3>2. CASE ~WorkerSniff(w) /\ ~WorkerNext(w)
      BY <2>3, <3>2 DEF Worker, WorkerStart, WorkerReturn, WorkerTake,
         WorkerFinish, QueueRefuse, QueueDrop, QueueFast, QueueCopy,
         InsertRefuse, InsertDrop, InsertEvict, Insert, InsertThen, fateVars
    <3> QED BY <3>1, <3>2
  <2>4. ASSUME NEW t \in Threads, Service(t) PROVE malformed' = malformed
    BY <2>4 DEF Service, ServiceExpire, ServicePair, ServiceReturn, Serve, fateVars
  <2>5. ASSUME NEW r \in Reqs, Read(r) \/ Cancel(r) PROVE malformed' = malformed
    BY <2>5 DEF Read, Cancel, fateVars
  <2>6. SetParam \/ Terminated \/ UNCHANGED vars => malformed' = malformed
    BY DEF SetParam, Terminated, vars, fateVars
  <2> QED BY <1>1, <2>1, <2>2, <2>3, <2>4, <2>5, <2>6 DEF Others
<1>2. CASE CleanupBegin \/ Cleanup
  <2>1. state' # "OPEN"
    BY <1>2 DEF CleanupInv, ClosingBegun, CleanupBegin, Cleanup,
       CleanupPacket, CleanupPacketsDone, CleanupWork, CleanupPurge,
       CleanupFlush, CleanupUninstall, Close, Destroy
  <2> QED BY <2>1
<1> QED BY <1>1, <1>2 DEF Next, Others

(***************************************************************************)
(* The invariant of the lists holds of every reachable state.              *)
(***************************************************************************)
THEOREM ListsInvariance == Spec => []ListsInv
<1>1. Init => ListsInv
  <2> SUFFICES ASSUME Init PROVE ListsInv
    OBVIOUS
  <2>1. Range(work_queue) = {} /\ IsInjective(work_queue)
    <3>1. DOMAIN work_queue = {}
      BY DEF Init
    <3> QED BY <3>1 DEF Range, IsInjective
  <2>2. /\ \A w \in Workers : work[w] = Nil /\ pc[w] = "idle"
        /\ \A n \in NBLs : refs[n] = 0 /\ inflight[n] = 0 /\ n # Nil
        /\ \A n \in NBLs : atip[n] <=> n \notin Inbound
        /\ malformed = {}
    BY ContextAssumption DEF Init, Threads
  <2>3. OneHolder /\ HeldBlocked /\ BetweenWorks /\ AtHeader
    BY <2>1, <2>2 DEF OneHolder, HeldBlocked, BetweenWorks, AtHeader
  <2>4. ListsBalanced
    <3>1. \A n \in NBLs : ~IsWork(n)
      BY <2>1, <2>2 DEF IsWork
    <3> QED BY <2>2, <3>1 DEF ListsBalanced
  <2> QED BY <2>2, <2>3, <2>4 DEF ListsInv, IntactWhileOpen
<1>2. TypeInv /\ CleanupInv /\ ListsInv /\ [Next]_vars => ListsInv'
  <2> SUFFICES ASSUME TypeInv, CleanupInv, ListsInv, [Next]_vars PROVE ListsInv'
    OBVIOUS
  <2>1. ListStep
    BY NextListStep DEF ListsInv
  <2>2. OneHolder' /\ HeldBlocked'
    BY <2>1, ListStepHolders DEF ListsInv
  <2>3. ListsBalanced'
    BY <2>1, ListStepBalanced DEF ListsInv
  <2>4. BetweenWorks' /\ AtHeader'
    BY NextWorkerLists DEF ListsInv
  <2>5. IntactWhileOpen'
    BY NextIntact DEF ListsInv
  <2> QED BY <2>2, <2>3, <2>4, <2>5 DEF ListsInv
<1> QED BY <1>1, <1>2, CleanupInvariance, TypeInvariance, PTL DEF Spec

(***************************************************************************)
(* The driver holds exactly one reference on a list for its work item and  *)
(* one for each copy in flight, whichever of the classify callback, the    *)
(* workers, the completion routines and cleanup took or dropped them; and  *)
(* a list no worker has starts where the network stack left it.            *)
(***************************************************************************)
THEOREM ListsBalancedHolds == Spec => []ListsBalanced
<1>1. ListsInv => ListsBalanced
  BY DEF ListsInv
<1> QED BY <1>1, ListsInvariance, PTL

(***************************************************************************)
(* While the handle is open nothing is injected without its IP header.     *)
(***************************************************************************)
THEOREM IntactHolds == Spec => []IntactWhileOpen
<1>1. ListsInv => IntactWhileOpen
  BY DEF ListsInv
<1> QED BY <1>1, ListsInvariance, PTL
=============================================================================
