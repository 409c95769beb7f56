------------------------ MODULE DivertContextProofs ------------------------
(***************************************************************************)
(* Theorems about DivertContext, for any number of lists, buffers,         *)
(* requests and workers, any queue limits and any mode.                    *)
(***************************************************************************)
EXTENDS DivertContext, TLAPS, WellFoundedInduction

(***************************************************************************)
(* A worker inside windivert_queue_packet has a buffer in hand.            *)
(***************************************************************************)
HasBuffer == \A w \in Workers : pc[w] \in {"queue", "insert"} => rest[w] # <<>>

(***************************************************************************)
(* A worker that has left the lock with a list has not lost it.            *)
(***************************************************************************)
HasList == \A w \in Workers : pc[w] \notin {"idle", "work"} => work[w] \in NBLs

(***************************************************************************)
(* The counters agree with the lists.  The size of the packet queue is the *)
(* last of the partial sums P of its packets' lengths.                     *)
(***************************************************************************)
IsPartialSums(P, q) ==
  /\ P \in [0..Len(q) -> Int]
  /\ P[0] = 0
  /\ \A i \in 1..Len(q) : P[i] = P[i - 1] + DataLen[q[i]]

PacketCounters ==
  /\ packet_queue_length = Len(packet_queue)
  /\ \E P : IsPartialSums(P, packet_queue)
              /\ packet_queue_size = P[Len(packet_queue)]

WorkCounter == work_queue_length = Len(work_queue)

(***************************************************************************)
(* The inductive invariant behind type correctness.  Removing a head keeps *)
(* the types only if there is one, which the counters and the queue limits *)
(* ensure.                                                                 *)
(***************************************************************************)
TypeInv ==
  TypeOK /\ HasBuffer /\ HasList /\ PacketCounters /\ WorkCounter

-----------------------------------------------------------------------------
(***************************************************************************)
(* RemoveHead keeps the counters and takes out a packet.                   *)
(***************************************************************************)
LEMMA RemoveHeadCounters ==
  ASSUME TypeOK, PacketCounters, packet_queue # <<>>, RemoveHead
  PROVE  /\ Head(packet_queue) \in Bufs
         /\ packet_queue' \in Seq(Bufs)
         /\ packet_queue_length' \in Int
         /\ packet_queue_size' \in Int
         /\ PacketCounters'
<1> DEFINE q == packet_queue
<1>1. /\ q \in Seq(Bufs) /\ q # <<>>
      /\ packet_queue_length \in Int /\ packet_queue_size \in Int
  BY DEF TypeOK, QueueTyped
<1>2. /\ Head(q) \in Bufs /\ Head(q) = q[1]
      /\ Tail(q) \in Seq(Bufs) /\ Len(Tail(q)) = Len(q) - 1
      /\ Len(q) \in Nat /\ Len(q) >= 1
      /\ \A i \in 1..Len(q) - 1 : Tail(q)[i] = q[i + 1]
  BY <1>1
<1>3. /\ q' = Tail(q)
      /\ packet_queue_length' = packet_queue_length - 1
      /\ packet_queue_size' = packet_queue_size - DataLen[q[1]]
  BY <1>2 DEF RemoveHead
<1>4. DataLen[q[1]] \in Nat
  BY <1>2, ContextAssumption
<1>5. PICK P : IsPartialSums(P, q) /\ packet_queue_size = P[Len(q)]
  BY DEF PacketCounters
<1>6. P \in [0..Len(q) -> Int] /\ P[0] = 0 /\ P[1] = DataLen[q[1]]
  BY <1>2, <1>4, <1>5 DEF IsPartialSums
<1> DEFINE R == [i \in 0..Len(q) - 1 |-> P[i + 1] - P[1]]
<1> HIDE DEF q
<1>7. IsPartialSums(R, Tail(q))
  <2>1. R \in [0..Len(Tail(q)) -> Int] /\ R[0] = 0
    BY <1>2, <1>6
  <2>2. ASSUME NEW i \in 1..Len(Tail(q))
        PROVE  R[i] = R[i - 1] + DataLen[Tail(q)[i]]
    <3>1. /\ i \in 1..Len(q) - 1 /\ i \in 0..Len(q) - 1 /\ i - 1 \in 0..Len(q) - 1
          /\ i + 1 \in 1..Len(q) /\ i + 1 - 1 = i /\ i - 1 + 1 = i
      BY <1>2
    <3>2. P[i + 1] = P[i] + DataLen[q[i + 1]]
      BY <1>5, <3>1 DEF IsPartialSums
    <3>3. R[i] = P[i + 1] - P[1] /\ R[i - 1] = P[i] - P[1]
      BY <3>1
    <3>4. Tail(q)[i] = q[i + 1] /\ q[i + 1] \in Bufs
      BY <1>1, <1>2, <3>1 DEF q
    <3>5. DataLen[q[i + 1]] \in Int /\ P[i] \in Int /\ P[1] \in Int /\ P[i + 1] \in Int
      BY <1>6, <3>1, <3>4, ContextAssumption, <1>2
    <3> QED BY <3>2, <3>3, <3>4, <3>5
  <2> QED BY <2>1, <2>2 DEF IsPartialSums
<1>8. packet_queue_size' = R[Len(Tail(q))]
  <2>1. Len(Tail(q)) \in 0..Len(q) - 1 /\ Len(Tail(q)) + 1 = Len(q)
    BY <1>2
  <2> QED BY <2>1, <1>3, <1>5, <1>6
<1>9. packet_queue_length' = Len(q')
  BY <1>1, <1>2, <1>3 DEF PacketCounters, q
<1> QED BY <1>1, <1>2, <1>3, <1>4, <1>7, <1>8, <1>9 DEF PacketCounters, q

(***************************************************************************)
(* Appending a packet keeps the counters.                                  *)
(***************************************************************************)
LEMMA AppendCounters ==
  ASSUME TypeOK, PacketCounters, NEW b \in Bufs,
         packet_queue' = Append(packet_queue, b),
         packet_queue_length' = packet_queue_length + 1,
         packet_queue_size' = packet_queue_size + DataLen[b]
  PROVE  /\ packet_queue' \in Seq(Bufs)
         /\ packet_queue_length' \in Int
         /\ packet_queue_size' \in Int
         /\ PacketCounters'
<1> DEFINE q == packet_queue
           r == Append(q, b)
<1>1. /\ q \in Seq(Bufs)
      /\ packet_queue_length \in Int /\ packet_queue_size \in Int
  BY DEF TypeOK, QueueTyped
<1>2. /\ r \in Seq(Bufs) /\ Len(r) = Len(q) + 1 /\ Len(q) \in Nat
      /\ r[Len(q) + 1] = b
      /\ \A i \in 1..Len(q) : r[i] = q[i]
  BY <1>1
<1>3. DataLen[b] \in Nat
  BY ContextAssumption
<1>4. PICK P : IsPartialSums(P, q) /\ packet_queue_size = P[Len(q)]
  BY DEF PacketCounters
<1> DEFINE R == [i \in 0..Len(r) |-> IF i = Len(r) THEN P[Len(q)] + DataLen[b]
                                                  ELSE P[i]]
<1> HIDE DEF r
<1>5. IsPartialSums(R, r)
  <2>1. P \in [0..Len(q) -> Int] /\ P[0] = 0
    BY <1>4 DEF IsPartialSums
  <2>2. R \in [0..Len(r) -> Int] /\ R[0] = 0
    BY <2>1, <1>2, <1>3
  <2>3. ASSUME NEW i \in 1..Len(r)
        PROVE  R[i] = R[i - 1] + DataLen[r[i]]
    <3>1. CASE i = Len(r)
      BY <3>1, <1>2, <2>1
    <3>2. CASE i # Len(r)
      <4>1. i \in 1..Len(q) /\ i - 1 \in 0..Len(q)
        BY <3>2, <1>2
      <4>2. R[i] = P[i] /\ R[i - 1] = P[i - 1] /\ r[i] = q[i]
        BY <3>2, <4>1, <1>2
      <4> QED BY <4>1, <4>2, <1>4 DEF IsPartialSums
    <3> QED BY <3>1, <3>2
  <2> QED BY <2>2, <2>3 DEF IsPartialSums
<1>6. packet_queue_size' = R[Len(r)]
  BY <1>2, <1>4
<1>7. packet_queue_length' = Len(r)
  BY <1>2 DEF PacketCounters
<1>8. packet_queue' = r
  BY DEF r
<1> QED BY <1>1, <1>2, <1>3, <1>5, <1>6, <1>7, <1>8 DEF PacketCounters

(***************************************************************************)
(* RemoveHeadList in windivert_queue_packet finds a packet.                *)
(***************************************************************************)
LEMMA VictimExists == TypeInv => EvictionHasVictim
<1> SUFFICES ASSUME TypeInv, NEW w \in Workers, Evicts(w), packet_queue = <<>>
             PROVE  FALSE
  BY DEF EvictionHasVictim
<1>1. Len(packet_queue) = 0
  OBVIOUS
<1>2. packet_queue_length = 0 /\ packet_queue_size = 0
  BY <1>1 DEF TypeInv, PacketCounters, IsPartialSums
<1>3. Head(rest[w]) \in Bufs
  <2>1. rest[w] \in Seq(Bufs) /\ rest[w] # <<>>
    BY DEF TypeInv, TypeOK, ThreadsTyped, HasBuffer, Evicts
  <2> QED BY <2>1
<1>4. DataLen[Head(rest[w])] \in Nat
  BY <1>3, ContextAssumption
<1>5. packet_queue_maxlength \in Nat \ {0} /\ packet_queue_maxsize \in Nat
  BY ContextAssumption DEF TypeInv, TypeOK, ParamsTyped
<1> QED BY <1>2, <1>4, <1>5 DEF Evicts, TooLarge, QueueFull

-----------------------------------------------------------------------------
(***************************************************************************)
(* The handle starts with every queue empty, so every counter agrees.      *)
(***************************************************************************)
LEMMA InitTypeInv == Init => TypeInv
<1> SUFFICES ASSUME Init PROVE TypeInv
  OBVIOUS
<1>1. LifeTyped /\ WorkTyped /\ QueueTyped /\ ParamsTyped
  <2>1. LifeTyped
    BY DEF Init, LifeTyped, CleanupPCs
  <2>2. WorkTyped
    <3>1. work_queue \in Seq(NBLs) /\ work_queue_length \in Int
      BY DEF Init
    <3>2. enqueued \in BOOLEAN
      BY DEF Init
    <3> QED BY <3>1, <3>2 DEF WorkTyped
  <2>3. QueueTyped
    BY DEF Init, QueueTyped
  <2>4. ParamsTyped
    BY DEF Init, ParamsTyped
  <2> QED BY <2>1, <2>2, <2>3, <2>4
<1>2. ThreadsTyped
  BY ContextAssumption DEF Init, ThreadsTyped, Threads, WorkerPCs, ReaderPCs
<1>3. ListsTyped /\ FatesTyped
  BY DEF Init, ListsTyped, FatesTyped
<1>4. HasBuffer /\ HasList /\ WorkCounter
  BY DEF Init, HasBuffer, HasList, WorkCounter, Threads
<1>5. IsPartialSums([i \in 0..0 |-> 0], <<>>)
  BY DEF IsPartialSums
<1>6. PacketCounters
  BY <1>5 DEF PacketCounters, Init
<1> QED BY <1>1, <1>2, <1>3, <1>4, <1>6 DEF TypeInv, TypeOK

(***************************************************************************)
(* Every step leaves the packet queue alone, takes out its head, or adds a *)
(* packet to it.                                                           *)
(***************************************************************************)
QueueStep ==
  \/ UNCHANGED queueVars
  \/ packet_queue # <<>> /\ RemoveHead
  \/ \E b \in Bufs : /\ packet_queue' = Append(packet_queue, b)
                     /\ packet_queue_length' = packet_queue_length + 1
                     /\ packet_queue_size' = packet_queue_size + DataLen[b]

(***************************************************************************)
(* Every step of the driver treats the packet queue in one of the three    *)
(* ways of QueueStep: nobody else touches it.                              *)
(***************************************************************************)
LEMMA NextQueueStep == TypeInv /\ [Next]_vars => QueueStep
<1> SUFFICES ASSUME TypeInv, [Next]_vars PROVE QueueStep
  OBVIOUS
<1>1. ASSUME NEW n \in NBLs, ClassifyEnter(n) \/ Classify(n) \/ InjectComplete(n)
      PROVE  UNCHANGED queueVars
  BY <1>1 DEF ClassifyEnter, Classify, ClassifyFilter, ClassifyNoMemory,
     ClassifyQueue, InjectComplete
<1>2. ASSUME NEW w \in Workers, Worker(w) PROVE QueueStep
  <2>1. CASE InsertEvict(w)
    BY <2>1, VictimExists DEF InsertEvict, EvictionHasVictim, QueueStep
  <2>2. CASE Insert(w)
    <3>1. rest[w] \in Seq(Bufs) /\ rest[w] # <<>>
      BY <2>2 DEF Insert, InsertThen, TypeInv, TypeOK, ThreadsTyped, HasBuffer
    <3>2. Head(rest[w]) \in Bufs
      BY <3>1
    <3> QED BY <3>2, <2>2 DEF Insert, InsertThen, QueueStep
  <2>3. CASE ~InsertEvict(w) /\ ~Insert(w)
    BY <1>2, <2>3 DEF Worker, WorkerStart, WorkerReturn, WorkerTake,
       WorkerSniff, WorkerNext, WorkerFinish, QueueRefuse, QueueDrop,
       QueueFast, QueueCopy, InsertRefuse, InsertDrop, QueueStep
  <2> QED BY <2>1, <2>2, <2>3
<1>3. ASSUME NEW t \in Threads, Service(t) PROVE QueueStep
  BY <1>3 DEF Service, ServiceExpire, ServicePair, ServiceReturn, Serve,
     QueueStep
<1>4. ASSUME NEW r \in Reqs, Read(r) \/ Cancel(r) PROVE UNCHANGED queueVars
  BY <1>4 DEF Read, Cancel
<1>5. CASE SetParam \/ CleanupBegin \/ Cleanup \/ Terminated
  BY <1>5 DEF SetParam, CleanupBegin, Cleanup, CleanupPacket,
     CleanupPacketsDone, CleanupWork, CleanupPurge, CleanupFlush,
     CleanupUninstall, Close, Destroy, Terminated, vars, QueueStep
<1>6. CASE UNCHANGED vars
  BY <1>6 DEF vars, QueueStep
<1> QED BY <1>1, <1>2, <1>3, <1>4, <1>5, <1>6 DEF Next, QueueStep

(***************************************************************************)
(* Hence the packet queue and its two counters stay together.              *)
(***************************************************************************)
LEMMA NextQueueTyped == TypeInv /\ [Next]_vars => (QueueTyped /\ PacketCounters)'
<1> SUFFICES ASSUME TypeInv, [Next]_vars PROVE QueueTyped' /\ PacketCounters'
  OBVIOUS
<1>1. QueueStep /\ TypeOK /\ PacketCounters
  BY NextQueueStep DEF TypeInv
<1>2. CASE UNCHANGED queueVars
  BY <1>1, <1>2 DEF queueVars, PacketCounters, QueueTyped, TypeOK
<1>3. CASE packet_queue # <<>> /\ RemoveHead
  BY <1>1, <1>3, RemoveHeadCounters DEF QueueTyped
<1>4. ASSUME NEW b \in Bufs,
             packet_queue' = Append(packet_queue, b),
             packet_queue_length' = packet_queue_length + 1,
             packet_queue_size' = packet_queue_size + DataLen[b]
      PROVE  QueueTyped' /\ PacketCounters'
  BY <1>1, <1>4, AppendCounters DEF QueueTyped
<1> QED BY <1>1, <1>2, <1>3, <1>4 DEF QueueStep

-----------------------------------------------------------------------------
(***************************************************************************)
(* One lemma for each remaining part of the invariant, one step for each   *)
(* actor.                                                                  *)
(***************************************************************************)
LEMMA NextLifeTyped == TypeInv /\ [Next]_vars => LifeTyped'
<1> SUFFICES ASSUME LifeTyped, [Next]_vars PROVE LifeTyped'
  BY DEF TypeInv, TypeOK
<1> USE DEF LifeTyped, lifeVars
<1>1. ASSUME NEW n \in NBLs, ClassifyEnter(n) \/ Classify(n) \/ InjectComplete(n)
      PROVE  LifeTyped'
  BY <1>1 DEF ClassifyEnter, Reference, Classify, ClassifyFilter,
     ClassifyNoMemory, ClassifyQueue, InjectComplete
<1>2. ASSUME NEW w \in Workers, Worker(w) PROVE UNCHANGED lifeVars
  BY <1>2 DEF Worker, WorkerStart, WorkerReturn, WorkerTake, WorkerSniff,
     WorkerNext, WorkerFinish, QueueRefuse, QueueDrop, QueueFast, QueueCopy,
     InsertRefuse, InsertDrop, InsertEvict, Insert, InsertThen
<1>3. ASSUME NEW t \in Threads, Service(t) PROVE UNCHANGED lifeVars
  BY <1>3 DEF Service, ServiceExpire, ServicePair, ServiceReturn, Serve
<1>4. ASSUME NEW r \in Reqs, Read(r) \/ Cancel(r) PROVE UNCHANGED lifeVars
  BY <1>4 DEF Read, Cancel
<1>5. CASE SetParam
  BY <1>5 DEF SetParam
<1>6. CASE CleanupBegin \/ Cleanup
  BY <1>6 DEF CleanupBegin, Cleanup, CleanupPacket, CleanupPacketsDone,
     CleanupWork, CleanupPurge, CleanupFlush, CleanupUninstall, Close,
     Destroy, CleanupPCs
<1>7. CASE Terminated \/ UNCHANGED vars
  BY <1>7 DEF Terminated, vars
<1> QED BY <1>1, <1>2, <1>3, <1>4, <1>5, <1>6, <1>7 DEF Next

(***************************************************************************)
(* The work queue and its counter stay together: classify callbacks        *)
(* append, workers and cleanup remove, and an overflow does both at once.  *)
(***************************************************************************)
LEMMA NextWorkTyped == TypeInv /\ [Next]_vars => (WorkTyped /\ WorkCounter)'
<1> SUFFICES ASSUME WorkTyped, WorkCounter, [Next]_vars
             PROVE  WorkTyped' /\ WorkCounter'
  BY DEF TypeInv, TypeOK
<1> USE DEF WorkTyped, WorkCounter, workVars
<1>1. ASSUME NEW n \in NBLs, ClassifyEnter(n) \/ Classify(n) \/ InjectComplete(n)
      PROVE  WorkTyped' /\ WorkCounter'
  <2>1. CASE ClassifyQueue(n)
    <3>1. CASE UNCHANGED workVars
      BY <3>1
    <3>2. CASE ~WorkFull /\ ~UNCHANGED workVars
      <4>1. /\ work_queue' = Append(work_queue, n)
            /\ work_queue_length' = work_queue_length + 1
            /\ enqueued' = TRUE
        BY <2>1, <3>2 DEF ClassifyQueue, WakeWorker
      <4> QED BY <4>1
    <3>3. CASE WorkFull /\ ~UNCHANGED workVars
      <4>1. work_queue # <<>>
        BY <3>3, ContextAssumption DEF WorkFull
      <4>2. /\ work_queue' = Append(Tail(work_queue), n)
            /\ work_queue_length' = work_queue_length
            /\ enqueued' = TRUE
        BY <2>1, <3>3 DEF ClassifyQueue, WakeWorker
      <4>3. Tail(work_queue) \in Seq(NBLs) /\ Len(Tail(work_queue)) = Len(work_queue) - 1
        BY <4>1
      <4> QED BY <4>2, <4>3
    <3> QED BY <3>1, <3>2, <3>3
  <2>2. CASE ~ClassifyQueue(n)
    BY <1>1, <2>2 DEF ClassifyEnter, Classify, ClassifyFilter,
       ClassifyNoMemory, InjectComplete
  <2> QED BY <2>1, <2>2
<1>2. ASSUME NEW w \in Workers, Worker(w) PROVE WorkTyped' /\ WorkCounter'
  <2>1. CASE WorkerTake(w)
    <3>1. /\ work_queue # <<>> /\ work_queue' = Tail(work_queue)
          /\ work_queue_length' = work_queue_length - 1
          /\ enqueued' = enqueued
      BY <2>1 DEF WorkerTake
    <3> QED BY <3>1
  <2>2. CASE WorkerStart(w)
    <3>1. /\ UNCHANGED <<work_queue, work_queue_length>>
          /\ enqueued' = FALSE
      BY <2>2 DEF WorkerStart
    <3> QED BY <3>1
  <2>3. CASE ~WorkerTake(w) /\ ~WorkerStart(w)
    <3>1. UNCHANGED workVars
      BY <1>2, <2>3 DEF Worker, WorkerReturn, WorkerSniff, WorkerNext,
         WorkerFinish, QueueRefuse, QueueDrop, QueueFast, QueueCopy,
         InsertRefuse, InsertDrop, InsertEvict, Insert, InsertThen
    <3> QED BY <3>1
  <2> QED BY <2>1, <2>2, <2>3
<1>3. ASSUME NEW t \in Threads, Service(t) PROVE UNCHANGED workVars
  BY <1>3 DEF Service, ServiceExpire, ServicePair, ServiceReturn, Serve
<1>4. ASSUME NEW r \in Reqs, Read(r) \/ Cancel(r) PROVE UNCHANGED workVars
  BY <1>4 DEF Read, Cancel
<1>5. CASE SetParam
  BY <1>5 DEF SetParam
<1>6. CASE CleanupBegin \/ Cleanup
  BY <1>6 DEF CleanupBegin, Cleanup, CleanupPacket, CleanupPacketsDone,
     CleanupWork, CleanupPurge, CleanupFlush, CleanupUninstall, Close, Destroy
<1>7. CASE Terminated \/ UNCHANGED vars
  BY <1>7 DEF Terminated, vars
<1> QED BY <1>1, <1>2, <1>3, <1>4, <1>5, <1>6, <1>7 DEF Next

(***************************************************************************)
(* The limits are ones the application set, and only its requests wait in  *)
(* the read queue.                                                         *)
(***************************************************************************)
LEMMA NextParamsTyped == TypeInv /\ [Next]_vars => ParamsTyped'
<1> SUFFICES ASSUME ParamsTyped, [Next]_vars PROVE ParamsTyped'
  BY DEF TypeInv, TypeOK
<1> USE DEF ParamsTyped, paramVars, reqVars
<1>1. ASSUME NEW n \in NBLs, ClassifyEnter(n) \/ Classify(n) \/ InjectComplete(n)
      PROVE  ParamsTyped'
  BY <1>1 DEF ClassifyEnter, Classify, ClassifyFilter, ClassifyNoMemory,
     ClassifyQueue, InjectComplete
<1>2. ASSUME NEW w \in Workers, Worker(w) PROVE ParamsTyped'
  BY <1>2 DEF Worker, WorkerStart, WorkerReturn, WorkerTake, WorkerSniff,
     WorkerNext, WorkerFinish, QueueRefuse, QueueDrop, QueueFast, QueueCopy,
     InsertRefuse, InsertDrop, InsertEvict, Insert, InsertThen, TakeRequest
<1>3. ASSUME NEW t \in Threads, Service(t) PROVE ParamsTyped'
  BY <1>3 DEF Service, ServiceExpire, ServicePair, ServiceReturn, Serve,
     TakeRequest
<1>4. ASSUME NEW r \in Reqs, Read(r) \/ Cancel(r) PROVE ParamsTyped'
  BY <1>4 DEF Read, Cancel
<1>5. CASE SetParam
  BY <1>5 DEF SetParam
<1>6. CASE CleanupBegin \/ Cleanup
  BY <1>6 DEF CleanupBegin, Cleanup, CleanupPacket, CleanupPacketsDone,
     CleanupWork, CleanupPurge, CleanupFlush, CleanupUninstall, Close, Destroy
<1>7. CASE Terminated \/ UNCHANGED vars
  BY <1>7 DEF Terminated, vars
<1> QED BY <1>1, <1>2, <1>3, <1>4, <1>5, <1>6, <1>7 DEF Next

(***************************************************************************)
(* What a step does to the thread-private variables of thread t.           *)
(***************************************************************************)
PCs(t) == IF t \in Workers THEN WorkerPCs ELSE ReaderPCs

Moves(t) ==
  /\ pc' = pc \/ \E p \in PCs(t) : pc' = [pc EXCEPT ![t] = p]
  /\ work' = work \/ \E n \in NBLs \cup {Nil} : work' = [work EXCEPT ![t] = n]
  /\ rest' = rest \/ \E s \in Seq(Bufs) : rest' = [rest EXCEPT ![t] = s]
  /\ pkt' = pkt \/ \E b \in Bufs \cup {Nil} : pkt' = [pkt EXCEPT ![t] = b]
  /\ req' = req \/ \E r \in Reqs \cup {Nil} : req' = [req EXCEPT ![t] = r]

(***************************************************************************)
(* A step that moves one thread keeps the types of all threads.            *)
(***************************************************************************)
LEMMA MovesTyped ==
  ASSUME ThreadsTyped, NEW t \in Threads, Moves(t) PROVE ThreadsTyped'
<1> USE DEF ThreadsTyped
<1>1. pc' \in [Threads -> WorkerPCs \cup ReaderPCs]
  BY DEF Moves, PCs
<1>2. \A r \in Reqs : pc'[r] \in ReaderPCs
  BY ContextAssumption DEF Moves, PCs, Threads
<1>3. \A w \in Workers : pc'[w] \in WorkerPCs
  BY ContextAssumption DEF Moves, PCs, Threads
<1>4. work' \in [Workers -> NBLs \cup {Nil}] /\ rest' \in [Workers -> Seq(Bufs)]
  BY DEF Moves
<1>5. pkt' \in [Threads -> Bufs \cup {Nil}] /\ req' \in [Threads -> Reqs \cup {Nil}]
  BY DEF Moves
<1> QED BY <1>1, <1>2, <1>3, <1>4, <1>5

(***************************************************************************)
(* The steps of windivert_worker and windivert_queue_packet move their     *)
(* worker only.                                                            *)
(***************************************************************************)
LEMMA WorkerMoves ==
  ASSUME TypeInv, NEW w \in Workers, Worker(w) PROVE Moves(w)
<1>0. /\ rest[w] \in Seq(Bufs) /\ work_queue \in Seq(NBLs)
      /\ work \in [Workers -> NBLs \cup {Nil}] /\ rest \in [Workers -> Seq(Bufs)]
  BY DEF TypeInv, TypeOK, ThreadsTyped, WorkTyped
<1>1. rest[w] # <<>> => Head(rest[w]) \in Bufs /\ Tail(rest[w]) \in Seq(Bufs)
  BY <1>0
<1>2. PCs(w) = WorkerPCs
  BY DEF PCs
<1> USE DEF Moves, Goto, WorkerPCs, threadVars
<1>3. CASE WorkerStart(w) \/ WorkerReturn(w) \/ WorkerSniff(w)
  BY <1>2, <1>3 DEF WorkerStart, WorkerReturn, WorkerSniff
<1>4. CASE WorkerTake(w)
  <2>1. Head(work_queue) \in NBLs /\ Buffers[Head(work_queue)] \in Seq(Bufs)
    BY <1>0, <1>4, ContextAssumption DEF WorkerTake
  <2> QED BY <1>2, <1>4, <2>1 DEF WorkerTake
<1>5. CASE WorkerNext(w)
  BY <1>1, <1>2, <1>5 DEF WorkerNext
<1>6. CASE WorkerFinish(w)
  <2>1. /\ pc' = [pc EXCEPT ![w] = "work"] /\ work' = [work EXCEPT ![w] = Nil]
        /\ rest' = [rest EXCEPT ![w] = <<>>] /\ UNCHANGED <<pkt, req>>
    BY <1>6 DEF WorkerFinish
  <2>2. <<>> \in Seq(Bufs)
    OBVIOUS
  <2> QED BY <1>2, <2>1, <2>2
<1>7. CASE QueueRefuse(w) \/ QueueCopy(w) \/ InsertRefuse(w) \/ InsertEvict(w)
  BY <1>2, <1>7 DEF QueueRefuse, QueueCopy, InsertRefuse, InsertEvict
<1>8. CASE QueueDrop(w) \/ InsertDrop(w)
  <2>1. rest[w] # <<>>
    BY <1>8 DEF TypeInv, HasBuffer, QueueDrop, InsertDrop
  <2> QED BY <1>1, <1>2, <1>8, <2>1 DEF QueueDrop, InsertDrop, Skip
<1>9. CASE QueueFast(w)
  <2>1. rest[w] # <<>> /\ read_queue \subseteq Reqs
    BY <1>9 DEF TypeInv, TypeOK, ParamsTyped, HasBuffer, QueueFast
  <2> QED BY <1>1, <1>2, <1>9, <2>1 DEF QueueFast, TakeRequest
<1>10. CASE Insert(w)
  <2>1. rest[w] # <<>>
    BY <1>10 DEF TypeInv, HasBuffer, Insert, InsertThen
  <2> QED BY <1>1, <1>2, <1>10, <2>1 DEF Insert, InsertThen
<1> QED BY <1>3, <1>4, <1>5, <1>6, <1>7, <1>8, <1>9, <1>10 DEF Worker

(***************************************************************************)
(* The steps of windivert_read_service move the thread that runs it only.  *)
(***************************************************************************)
LEMMA ServiceMoves ==
  ASSUME TypeInv, NEW t \in Threads, Service(t) PROVE Moves(t)
<1>1. /\ packet_queue \in Seq(Bufs) /\ read_queue \subseteq Reqs
      /\ \A r \in Reqs : pc[r] # "fast"
  BY DEF TypeInv, TypeOK, QueueTyped, ParamsTyped, ThreadsTyped, ReaderPCs
<1>2. /\ {"svc", "serve"} \subseteq PCs(t) /\ Caller(t) \in PCs(t)
      /\ t \in Workers => "next" \in PCs(t)
  BY DEF PCs, Caller, WorkerPCs, ReaderPCs
<1> USE DEF Moves, Goto, threadVars
<1>3. CASE ServiceExpire(t) \/ ServiceReturn(t)
  BY <1>2, <1>3 DEF ServiceExpire, ServiceReturn
<1>4. CASE ServicePair(t)
  <2>1. Head(packet_queue) \in Bufs
    BY <1>1, <1>4 DEF ServicePair
  <2> QED BY <1>1, <1>2, <1>4, <2>1 DEF ServicePair, TakeRequest
<1>5. CASE Serve(t)
  <2>1. pc[t] = "fast" => t \in Workers
    BY <1>1 DEF Threads
  <2> QED BY <1>2, <1>5, <2>1 DEF Serve
<1> QED BY <1>3, <1>4, <1>5 DEF Service

(***************************************************************************)
(* Control points, work, packets and requests of all threads stay typed.   *)
(***************************************************************************)
LEMMA NextThreadsTyped == TypeInv /\ [Next]_vars => ThreadsTyped'
<1> SUFFICES ASSUME TypeInv, [Next]_vars PROVE ThreadsTyped'
  OBVIOUS
<1>0. ThreadsTyped
  BY DEF TypeInv, TypeOK
<1> USE DEF threadVars
<1>1. ASSUME NEW n \in NBLs, ClassifyEnter(n) \/ Classify(n) \/ InjectComplete(n)
      PROVE  UNCHANGED threadVars
  BY <1>1 DEF ClassifyEnter, Classify, ClassifyFilter, ClassifyNoMemory,
     ClassifyQueue, InjectComplete
<1>2. ASSUME NEW w \in Workers, Worker(w) PROVE ThreadsTyped'
  BY <1>0, <1>2, WorkerMoves, MovesTyped DEF Threads
<1>3. ASSUME NEW t \in Threads, Service(t) PROVE ThreadsTyped'
  BY <1>0, <1>3, ServiceMoves, MovesTyped
<1>4. ASSUME NEW r \in Reqs, Read(r) \/ Cancel(r) PROVE ThreadsTyped'
  <2>1. r \in Threads /\ {"svc", "done"} \subseteq PCs(r)
    BY ContextAssumption DEF Threads, PCs, ReaderPCs, WorkerPCs
  <2>2. Moves(r)
    BY <1>4, <2>1 DEF Read, Cancel, Moves, Goto
  <2> QED BY <1>0, <2>1, <2>2, MovesTyped
<1>5. CASE SetParam \/ CleanupBegin \/ Cleanup \/ Terminated
  <2>1. UNCHANGED threadVars
    BY <1>5 DEF SetParam, CleanupBegin, Cleanup, CleanupPacket,
       CleanupPacketsDone, CleanupWork, CleanupPurge, CleanupFlush,
       CleanupUninstall, Close, Destroy, Terminated, vars
  <2> QED BY <1>0, <2>1 DEF ThreadsTyped
<1>6. CASE UNCHANGED vars
  BY <1>0, <1>6 DEF vars, ThreadsTyped
<1>7. UNCHANGED threadVars => ThreadsTyped'
  BY <1>0 DEF ThreadsTyped
<1> QED BY <1>1, <1>2, <1>3, <1>4, <1>5, <1>6, <1>7 DEF Next

(***************************************************************************)
(* A worker enters windivert_queue_packet with a buffer, and keeps it      *)
(* until it leaves.                                                        *)
(***************************************************************************)
LEMMA NextHasBuffer == TypeInv /\ [Next]_vars => HasBuffer'
<1> SUFFICES ASSUME TypeInv, [Next]_vars, NEW v \in Workers,
                    pc'[v] \in {"queue", "insert"}
             PROVE  rest'[v] # <<>>
  BY DEF HasBuffer
<1>0. /\ pc[v] \in {"queue", "insert"} => rest[v] # <<>>
      /\ pc \in [Threads -> WorkerPCs \cup ReaderPCs]
      /\ rest \in [Workers -> Seq(Bufs)]
  BY DEF TypeInv, TypeOK, ThreadsTyped, HasBuffer
<1> USE DEF threadVars, Goto
<1>1. ASSUME NEW n \in NBLs, ClassifyEnter(n) \/ Classify(n) \/ InjectComplete(n)
      PROVE  UNCHANGED threadVars
  BY <1>1 DEF ClassifyEnter, Classify, ClassifyFilter, ClassifyNoMemory,
     ClassifyQueue, InjectComplete
<1>2. ASSUME NEW w \in Workers, Worker(w) PROVE rest'[v] # <<>>
  <2>0. w \in Threads /\ v \in Threads
    BY DEF Threads
  <2>1. CASE WorkerStart(w) \/ WorkerReturn(w) \/ WorkerSniff(w)
    BY <1>0, <2>0, <2>1 DEF WorkerStart, WorkerReturn, WorkerSniff
  <2>2. CASE WorkerTake(w)
    BY <1>0, <2>0, <2>2 DEF WorkerTake
  <2>3. CASE WorkerNext(w)
    BY <1>0, <2>0, <2>3 DEF WorkerNext
  <2>4. CASE WorkerFinish(w)
    BY <1>0, <2>0, <2>4 DEF WorkerFinish
  <2>5. CASE QueueRefuse(w) \/ QueueCopy(w) \/ InsertRefuse(w) \/ InsertEvict(w)
    BY <1>0, <2>0, <2>5 DEF QueueRefuse, QueueCopy, InsertRefuse, InsertEvict
  <2>6. CASE QueueDrop(w) \/ InsertDrop(w)
    BY <1>0, <2>0, <2>6 DEF QueueDrop, InsertDrop, Skip
  <2>7. CASE QueueFast(w)
    BY <1>0, <2>0, <2>7 DEF QueueFast
  <2>8. CASE Insert(w)
    BY <1>0, <2>0, <2>8 DEF Insert, InsertThen
  <2> QED BY <1>2, <2>1, <2>2, <2>3, <2>4, <2>5, <2>6, <2>7, <2>8 DEF Worker
<1>3. ASSUME NEW t \in Threads, Service(t) PROVE rest'[v] # <<>>
  BY <1>0, <1>3 DEF Service, ServiceExpire, ServicePair, ServiceReturn, Serve,
     Threads, Caller
<1>4. ASSUME NEW r \in Reqs, Read(r) \/ Cancel(r) PROVE rest'[v] # <<>>
  BY <1>0, <1>4 DEF Read, Cancel, Threads
<1>5. CASE SetParam \/ CleanupBegin \/ Cleanup \/ Terminated
  BY <1>0, <1>5 DEF SetParam, CleanupBegin, Cleanup, CleanupPacket,
     CleanupPacketsDone, CleanupWork, CleanupPurge, CleanupFlush,
     CleanupUninstall, Close, Destroy, Terminated, vars
<1>6. CASE UNCHANGED vars
  BY <1>0, <1>6 DEF vars
<1> QED BY <1>0, <1>1, <1>2, <1>3, <1>4, <1>5, <1>6 DEF Next

(***************************************************************************)
(* A worker keeps its list from windivert_worker's first critical section  *)
(* until it has released it.                                               *)
(***************************************************************************)
LEMMA NextHasList == TypeInv /\ [Next]_vars => HasList'
<1> SUFFICES ASSUME TypeInv, [Next]_vars, NEW v \in Workers,
                    pc'[v] \notin {"idle", "work"}
             PROVE  work'[v] \in NBLs
  BY DEF HasList
<1>0. /\ pc[v] \notin {"idle", "work"} => work[v] \in NBLs
      /\ pc \in [Threads -> WorkerPCs \cup ReaderPCs]
      /\ work \in [Workers -> NBLs \cup {Nil}] /\ work_queue \in Seq(NBLs)
  BY DEF TypeInv, TypeOK, ThreadsTyped, WorkTyped, HasList
<1> USE DEF threadVars, Goto
<1>1. ASSUME NEW n \in NBLs, ClassifyEnter(n) \/ Classify(n) \/ InjectComplete(n)
      PROVE  UNCHANGED threadVars
  BY <1>1 DEF ClassifyEnter, Classify, ClassifyFilter, ClassifyNoMemory,
     ClassifyQueue, InjectComplete
<1>2. ASSUME NEW w \in Workers, Worker(w) PROVE work'[v] \in NBLs
  <2>0. w \in Threads /\ v \in Threads
    BY DEF Threads
  <2>1. CASE WorkerStart(w) \/ WorkerReturn(w) \/ WorkerSniff(w)
    BY <1>0, <2>0, <2>1 DEF WorkerStart, WorkerReturn, WorkerSniff
  <2>2. CASE WorkerTake(w)
    BY <1>0, <2>0, <2>2 DEF WorkerTake
  <2>3. CASE WorkerNext(w)
    BY <1>0, <2>0, <2>3 DEF WorkerNext
  <2>4. CASE WorkerFinish(w)
    BY <1>0, <2>0, <2>4 DEF WorkerFinish
  <2>5. CASE QueueRefuse(w) \/ QueueCopy(w) \/ InsertRefuse(w) \/ InsertEvict(w)
    BY <1>0, <2>0, <2>5 DEF QueueRefuse, QueueCopy, InsertRefuse, InsertEvict
  <2>6. CASE QueueDrop(w) \/ InsertDrop(w)
    BY <1>0, <2>0, <2>6 DEF QueueDrop, InsertDrop, Skip
  <2>7. CASE QueueFast(w)
    BY <1>0, <2>0, <2>7 DEF QueueFast
  <2>8. CASE Insert(w)
    BY <1>0, <2>0, <2>8 DEF Insert, InsertThen
  <2> QED BY <1>2, <2>1, <2>2, <2>3, <2>4, <2>5, <2>6, <2>7, <2>8 DEF Worker
<1>3. ASSUME NEW t \in Threads, Service(t) PROVE work'[v] \in NBLs
  BY <1>0, <1>3 DEF Service, ServiceExpire, ServicePair, ServiceReturn, Serve,
     Threads, Caller
<1>4. ASSUME NEW r \in Reqs, Read(r) \/ Cancel(r) PROVE work'[v] \in NBLs
  BY <1>0, <1>4, ContextAssumption DEF Read, Cancel, Threads
<1>5. CASE SetParam \/ CleanupBegin \/ Cleanup \/ Terminated
  BY <1>0, <1>5 DEF SetParam, CleanupBegin, Cleanup, CleanupPacket,
     CleanupPacketsDone, CleanupWork, CleanupPurge, CleanupFlush,
     CleanupUninstall, Close, Destroy, Terminated, vars
<1>6. CASE UNCHANGED vars
  BY <1>0, <1>6 DEF vars
<1> QED BY <1>0, <1>1, <1>2, <1>3, <1>4, <1>5, <1>6 DEF Next

(***************************************************************************)
(* Progress, data offset, references and copies of the lists stay typed.   *)
(***************************************************************************)
LEMMA NextListsTyped == TypeInv /\ [Next]_vars => ListsTyped'
<1> SUFFICES ASSUME ListsTyped, [Next]_vars PROVE ListsTyped'
  BY DEF TypeInv, TypeOK
<1> USE DEF ListsTyped, nblVars
<1>1. ASSUME NEW n \in NBLs, ClassifyEnter(n) \/ Classify(n) \/ InjectComplete(n)
      PROVE  ListsTyped'
  <2>1. CASE ClassifyQueue(n)
    <3>1. refs' \in [NBLs -> Int]
      <4>1. refs \in [NBLs -> Int]
        OBVIOUS
      <4>2. \/ refs' = refs
            \/ refs' = [refs EXCEPT ![n] = @ + 1]
            \/ refs' = [refs EXCEPT ![n] = @ + 1, ![Head(work_queue)] = @ - 1]
        BY <2>1 DEF ClassifyQueue
      <4> QED BY <4>1, <4>2
    <3>2. cls' \in [NBLs -> {"new", "entered", "matched", "continued", "blocked"}]
      BY <2>1 DEF ClassifyQueue
    <3>3. UNCHANGED <<atip, inflight>>
      BY <2>1 DEF ClassifyQueue
    <3> QED BY <3>1, <3>2, <3>3
  <2>2. CASE InjectComplete(n)
    BY <2>2 DEF InjectComplete, ReleaseList
  <2>3. CASE ClassifyEnter(n) \/ ClassifyFilter(n) \/ ClassifyNoMemory(n)
    BY <2>3 DEF ClassifyEnter, ClassifyFilter, ClassifyNoMemory
  <2> QED BY <1>1, <2>1, <2>2, <2>3 DEF Classify
<1>2. ASSUME NEW w \in Workers, Worker(w) PROVE ListsTyped'
  <2>1. CASE WorkerTake(w)
    BY <2>1 DEF WorkerTake, Retreat
  <2>2. CASE WorkerSniff(w) \/ WorkerNext(w)
    BY <2>2 DEF WorkerSniff, WorkerNext, Put, PutSucceeds, PutIsRefused
  <2>3. CASE WorkerFinish(w)
    <3>1. refs' \in [NBLs -> Int]
      <4>1. refs \in [NBLs -> Int]
        OBVIOUS
      <4>2. refs' = [refs EXCEPT ![work[w]] = @ - 1]
        BY <2>3 DEF WorkerFinish, ReleaseList
      <4>3. CASE work[w] \in NBLs
        BY <4>1, <4>2, <4>3
      <4>4. CASE work[w] \notin NBLs
        BY <4>1, <4>2, <4>4
      <4> QED BY <4>3, <4>4
    <3>2. atip' \in [NBLs -> BOOLEAN]
      BY <2>3 DEF WorkerFinish, Advance
    <3>3. UNCHANGED <<cls, inflight>>
      BY <2>3 DEF WorkerFinish
    <3> QED BY <3>1, <3>2, <3>3
  <2>4. CASE ~(WorkerTake(w) \/ WorkerSniff(w) \/ WorkerNext(w) \/ WorkerFinish(w))
    BY <1>2, <2>4 DEF Worker, WorkerStart, WorkerReturn, QueueRefuse,
       QueueDrop, QueueFast, QueueCopy, InsertRefuse, InsertDrop, InsertEvict,
       Insert, InsertThen
  <2> QED BY <2>1, <2>2, <2>3, <2>4
<1>3. ASSUME NEW t \in Threads, Service(t) PROVE UNCHANGED nblVars
  BY <1>3 DEF Service, ServiceExpire, ServicePair, ServiceReturn, Serve
<1>4. ASSUME NEW r \in Reqs, Read(r) \/ Cancel(r) PROVE UNCHANGED nblVars
  BY <1>4 DEF Read, Cancel
<1>5. CASE CleanupWork
  BY <1>5 DEF CleanupWork, ReleaseList
<1>6. CASE SetParam \/ CleanupBegin \/ (Cleanup /\ ~CleanupWork) \/ Terminated
  BY <1>6 DEF SetParam, CleanupBegin, Cleanup, CleanupPacket,
     CleanupPacketsDone, CleanupPurge, CleanupFlush, CleanupUninstall, Close,
     Destroy, Terminated, vars
<1>7. CASE UNCHANGED vars
  BY <1>7 DEF vars
<1> QED BY <1>1, <1>2, <1>3, <1>4, <1>5, <1>6, <1>7 DEF Next

(***************************************************************************)
(* Recording a loss keeps the record typed.                                *)
(***************************************************************************)
LEMMA LoseTyped ==
  ASSUME lost \in [Bufs -> SUBSET Reasons], NEW S, NEW why \in Reasons,
         Lose(S, why)
  PROVE  lost' \in [Bufs -> SUBSET Reasons]
  BY DEF Lose

(***************************************************************************)
(* Counting a packet keeps the count typed.                                *)
(***************************************************************************)
LEMMA CountTyped ==
  ASSUME NEW f \in [Bufs -> Nat], NEW S PROVE Count(f, S) \in [Bufs -> Nat]
  BY DEF Count

(***************************************************************************)
(* The records of what became of requests and packets stay typed.          *)
(***************************************************************************)
LEMMA NextFatesTyped == TypeInv /\ [Next]_vars => FatesTyped'
<1> SUFFICES ASSUME TypeInv, [Next]_vars PROVE FatesTyped'
  OBVIOUS
<1>0. FatesTyped
  BY DEF TypeInv, TypeOK
<1>1. \A n \in NBLs : BufsOf(n) \subseteq Bufs
  BY ContextAssumption DEF BufsOf, Range
<1> USE DEF fateVars, reqVars
<1>2. ASSUME NEW n \in NBLs, ClassifyEnter(n) \/ Classify(n) \/ InjectComplete(n)
      PROVE  FatesTyped'
  BY <1>0, <1>2, LoseTyped DEF FatesTyped, ClassifyEnter, Classify,
     ClassifyFilter, ClassifyNoMemory, ClassifyQueue, InjectComplete, Reasons
<1>3. ASSUME NEW w \in Workers, Worker(w) PROVE FatesTyped'
  <2>0. ASSUME NEW S \in SUBSET Bufs, NEW n, Put(S, n),
               UNCHANGED <<read, completions>>
        PROVE  FatesTyped'
    BY <1>0, <2>0, LoseTyped, CountTyped DEF FatesTyped, Put, PutSucceeds,
       PutIsRefused, Reasons
  <2>1. CASE WorkerSniff(w)
    <3>1. BufsOf(work[w]) \subseteq Bufs
      BY <1>1, <2>1 DEF TypeInv, HasList, WorkerSniff
    <3> QED BY <1>0, <2>0, <2>1, <3>1 DEF WorkerSniff, FatesTyped
  <2>2. CASE WorkerNext(w)
    <3>1. rest[w] # <<>> => Head(rest[w]) \in Bufs
      BY DEF TypeInv, TypeOK, ThreadsTyped
    <3> QED BY <1>0, <2>0, <2>2, <3>1 DEF WorkerNext, FatesTyped
  <2>3. CASE WorkerFinish(w) \/ QueueDrop(w) \/ InsertDrop(w) \/ InsertEvict(w)
    BY <1>0, <2>3, LoseTyped DEF FatesTyped, WorkerFinish, QueueDrop,
       InsertDrop, InsertEvict, Skip, Reasons
  <2>4. CASE \/ WorkerStart(w) \/ WorkerReturn(w) \/ WorkerTake(w)
             \/ QueueRefuse(w) \/ QueueFast(w) \/ QueueCopy(w)
             \/ InsertRefuse(w) \/ Insert(w)
    BY <1>0, <2>4 DEF FatesTyped, WorkerStart, WorkerReturn, WorkerTake,
       QueueRefuse, QueueFast, QueueCopy, InsertRefuse, Insert, InsertThen
  <2> QED BY <1>3, <2>1, <2>2, <2>3, <2>4 DEF Worker
<1>4. ASSUME NEW t \in Threads, Service(t) PROVE FatesTyped'
  <2>1. CASE Serve(t)
    <3>1. completions' \in [Reqs -> Nat]
      <4>1. completions \in [Reqs -> Nat]
        BY <1>0 DEF FatesTyped
      <4>2. completions' = [completions EXCEPT ![req[t]] = @ + 1]
        BY <2>1 DEF Serve
      <4>3. CASE req[t] \in Reqs
        BY <4>1, <4>2, <4>3
      <4>4. CASE req[t] \notin Reqs
        BY <4>1, <4>2, <4>4
      <4> QED BY <4>3, <4>4
    <3>2. read' \in [Bufs -> Nat] /\ lost' \in [Bufs -> SUBSET Reasons]
      BY <1>0, <2>1, LoseTyped, CountTyped DEF FatesTyped, Serve, Reasons
    <3> QED BY <1>0, <2>1, <3>1, <3>2 DEF FatesTyped, Serve
  <2>2. CASE ServiceExpire(t)
    BY <1>0, <2>2, LoseTyped DEF FatesTyped, ServiceExpire, Reasons
  <2>3. CASE ServicePair(t) \/ ServiceReturn(t)
    BY <1>0, <2>3 DEF FatesTyped, ServicePair, ServiceReturn
  <2> QED BY <1>4, <2>1, <2>2, <2>3 DEF Service
<1>5. ASSUME NEW r \in Reqs, Read(r) \/ Cancel(r) PROVE FatesTyped'
  BY <1>0, <1>5 DEF FatesTyped, Read, Cancel
<1>6. CASE CleanupPacket
  BY <1>0, <1>6, LoseTyped, CountTyped DEF FatesTyped, CleanupPacket, Reasons
<1>7. CASE CleanupWork
  <2>1. BufsOf(Head(work_queue)) \subseteq Bufs
    <3>1. work_queue \in Seq(NBLs) /\ work_queue # <<>>
      BY <1>7 DEF CleanupWork, TypeInv, TypeOK, WorkTyped
    <3>2. Head(work_queue) \in NBLs
      BY <3>1
    <3> QED BY <1>1, <3>2
  <2>2. lost' \in [Bufs -> SUBSET Reasons]
    BY <1>0, <1>7, LoseTyped DEF FatesTyped, CleanupWork, Reasons
  <2>3. sent' \in [Bufs -> Nat]
    BY <1>0, <1>7, CountTyped DEF FatesTyped, CleanupWork
  <2>4. malformed' \subseteq Bufs
    BY <1>0, <1>7, <2>1 DEF FatesTyped, CleanupWork
  <2>5. UNCHANGED <<read, completions>>
    BY <1>7 DEF CleanupWork
  <2> QED BY <1>0, <2>2, <2>3, <2>4, <2>5 DEF FatesTyped
<1>8. CASE CleanupPurge
  BY <1>0, <1>8 DEF FatesTyped, CleanupPurge, CompleteAll
<1>9. CASE \/ SetParam \/ CleanupBegin \/ CleanupPacketsDone \/ CleanupFlush
           \/ CleanupUninstall \/ Close \/ Destroy \/ Terminated
  BY <1>0, <1>9 DEF FatesTyped, SetParam, CleanupBegin, CleanupPacketsDone,
     CleanupFlush, CleanupUninstall, Close, Destroy, Terminated, vars
<1>10. CASE UNCHANGED vars
  BY <1>0, <1>10 DEF FatesTyped, vars
<1> QED BY <1>2, <1>3, <1>4, <1>5, <1>6, <1>7, <1>8, <1>9, <1>10
        DEF Next, Cleanup

-----------------------------------------------------------------------------
(***************************************************************************)
(* Every step preserves the inductive invariant.                           *)
(***************************************************************************)
LEMMA NextTypeInv == TypeInv /\ [Next]_vars => TypeInv'
  BY NextQueueTyped, NextLifeTyped, NextWorkTyped, NextParamsTyped,
     NextThreadsTyped, NextHasBuffer, NextHasList, NextListsTyped,
     NextFatesTyped DEF TypeInv, TypeOK

(***************************************************************************)
(* The packet path keeps its types and its counters, whatever the number   *)
(* of threads and lists and however their critical sections interleave.    *)
(***************************************************************************)
THEOREM TypeInvariance == Spec => []TypeInv
<1>1. Init => TypeInv
  BY InitTypeInv
<1>2. TypeInv /\ [Next]_vars => TypeInv'
  BY NextTypeInv
<1> QED BY <1>1, <1>2, PTL DEF Spec

(***************************************************************************)
(* Type correctness.                                                       *)
(***************************************************************************)
THEOREM TypeCorrect == Spec => []TypeOK
<1>1. TypeInv => TypeOK
  BY DEF TypeInv
<1> QED BY <1>1, TypeInvariance, PTL

(***************************************************************************)
(* RemoveHeadList is never applied to an empty packet queue, for any queue *)
(* limits the application may set at any time.                             *)
(***************************************************************************)
THEOREM EvictionSafe == Spec => []EvictionHasVictim
  BY TypeInvariance, VictimExists, PTL

(***************************************************************************)
(* A set of natural numbers has a least element, from which statements     *)
(* about all prefixes of a queue are proved by looking at the shortest one *)
(* that would be an exception.                                             *)
(***************************************************************************)
LEMMA LeastNumber ==
  ASSUME NEW T, T \subseteq Nat, T # {}
  PROVE  \E x \in T : \A y \in T : x <= y
<1> DEFINE R == {ss \in Nat \X Nat : ss[1] < ss[2]}
<1>1. IsWellFoundedOn(R, Nat)
  <2>1. R = OpToRel(<, Nat)
    BY DEF OpToRel
  <2> QED BY <2>1, NatLessThanWellFounded, Zenon
<1>2. \A y, x \in Nat : <<y, x>> \in R <=> y < x
  OBVIOUS
<1> HIDE DEF R
<1>3. PICK x \in T : \A y \in T : ~ (<<y, x>> \in R)
  BY <1>1, WFMin
<1>4. x \in Nat /\ \A y \in T : y \in Nat /\ ~(y < x)
  BY <1>2, <1>3
<1>5. \A y \in T : x <= y
  BY <1>4
<1> QED BY <1>5

(***************************************************************************)
(* The partial sums of a queue end in its total length.                    *)
(***************************************************************************)
LEMMA PartialSumsTotal ==
  ASSUME NEW q \in Seq(Bufs), NEW P, IsPartialSums(P, q)
  PROVE  P[Len(q)] = TotalLen(q)
<1> DEFINE n == Len(q)
           Step(f) == [i \in 0..n |-> IF i = 0 THEN 0 ELSE f[i - 1] + DataLen[q[i]]]
           sum == CHOOSE f : f = Step(f)
<1>1. n \in Nat /\ \A i \in 1..n : q[i] \in Bufs /\ DataLen[q[i]] \in Int
  BY ContextAssumption
<1>2. TotalLen(q) = sum[n]
  BY DEF TotalLen
<1>3. /\ P = [i \in 0..n |-> P[i]] /\ P[0] = 0
      /\ \A i \in 1..n : P[i] = P[i - 1] + DataLen[q[i]]
  BY DEF IsPartialSums
<1> HIDE DEF n
<1>4. P = Step(P)
  <2>1. ASSUME NEW i \in 0..n
        PROVE  P[i] = IF i = 0 THEN 0 ELSE P[i - 1] + DataLen[q[i]]
    <3>1. CASE i = 0
      BY <1>3, <3>1
    <3>2. CASE i # 0
      <4>1. i \in 1..n
        BY <1>1, <3>2
      <4> QED BY <1>3, <3>2, <4>1
    <3> QED BY <3>1, <3>2
  <2>2. [i \in 0..n |-> P[i]] = Step(P)
    BY <2>1
  <2> QED BY <1>3, <2>2
<1>5. sum = Step(sum)
  <2>1. \E f : f = Step(f)
    BY <1>4
  <2> HIDE DEF Step
  <2> QED BY <2>1
<1>6. \A i \in 0..n : sum[i] = IF i = 0 THEN 0 ELSE sum[i - 1] + DataLen[q[i]]
  BY <1>5
<1> HIDE DEF sum, Step
<1> DEFINE T == {i \in 0..n : sum[i] # P[i]}
<1>7. ASSUME T # {} PROVE FALSE
  <2>0. T \subseteq Nat
    BY <1>1
  <2> HIDE DEF T
  <2>1. PICK i \in T : \A j \in T : i <= j
    BY <1>7, <2>0, LeastNumber
  <2>2. i \in 0..n /\ i # 0 /\ sum[i] # P[i]
    BY <1>1, <1>3, <1>6 DEF T
  <2>3. i - 1 \in 0..n /\ i \in 1..n /\ ~(i <= i - 1)
    BY <1>1, <2>2
  <2>4. sum[i - 1] = P[i - 1]
    BY <2>1, <2>3 DEF T
  <2>5. sum[i] = sum[i - 1] + DataLen[q[i]] /\ P[i] = P[i - 1] + DataLen[q[i]]
    BY <1>3, <1>6, <2>2, <2>3
  <2> QED BY <2>2, <2>4, <2>5
<1>8. n \in 0..n
  BY <1>1
<1> QED BY <1>2, <1>7, <1>8 DEF n

(***************************************************************************)
(* The counters that the driver keeps beside its two lists, and by which   *)
(* it decides to discard packets, never drift away from them.              *)
(***************************************************************************)
THEOREM CountersCorrect == Spec => []CountersAgree
<1>1. TypeInv => CountersAgree
  <2> SUFFICES ASSUME TypeInv PROVE CountersAgree
    OBVIOUS
  <2>1. packet_queue \in Seq(Bufs)
    BY DEF TypeInv, TypeOK, QueueTyped
  <2>2. PICK P : /\ IsPartialSums(P, packet_queue)
                 /\ packet_queue_size = P[Len(packet_queue)]
    BY DEF TypeInv, PacketCounters
  <2>3. packet_queue_size = TotalLen(packet_queue)
    BY <2>1, <2>2, PartialSumsTotal
  <2> QED BY <2>3 DEF TypeInv, PacketCounters, WorkCounter, CountersAgree
<1> QED BY <1>1, TypeInvariance, PTL

-----------------------------------------------------------------------------
(***************************************************************************)
(* A thread in windivert_read_service stays there until a queue is empty   *)
(* or the handle is closing; whoever adds to a queue enters it.            *)
(***************************************************************************)
Servicing(t) == pc[t] \in {"svc", "serve"}

Waits == state = "OPEN" /\ packet_queue # <<>> /\ read_queue # {}

(***************************************************************************)
(* Every step preserves NoLostWakeup: the steps that make a packet meet a  *)
(* request leave their own thread in the read service.                     *)
(***************************************************************************)
LEMMA NextNoLostWakeup ==
  TypeInv /\ NoLostWakeup /\ [Next]_vars => NoLostWakeup'
<1> SUFFICES ASSUME TypeInv, NoLostWakeup, [Next]_vars, Waits'
             PROVE  \E t \in Threads : pc'[t] \in {"svc", "serve"}
  BY DEF NoLostWakeup, Waits
<1>0. /\ pc \in [Threads -> WorkerPCs \cup ReaderPCs]
      /\ Workers \subseteq Threads /\ Reqs \subseteq Threads
  BY DEF TypeInv, TypeOK, ThreadsTyped, Threads
<1>1. ASSUME Waits, NEW v \in Threads, ~Servicing(v),
             \A u \in Threads \ {v} : pc'[u] = pc[u]
      PROVE  \E t \in Threads : pc'[t] \in {"svc", "serve"}
  BY <1>1 DEF NoLostWakeup, Waits, Servicing
<1>2. ASSUME Waits, pc' = pc
      PROVE  \E t \in Threads : pc'[t] \in {"svc", "serve"}
  BY <1>2 DEF NoLostWakeup, Waits
<1> USE DEF threadVars, reqVars, lifeVars, queueVars, Goto
<1>3. ASSUME NEW n \in NBLs, ClassifyEnter(n) \/ Classify(n) \/ InjectComplete(n)
      PROVE  \E t \in Threads : pc'[t] \in {"svc", "serve"}
  <2>1. UNCHANGED <<pc, state, packet_queue, read_queue>>
    BY <1>3 DEF ClassifyEnter, Classify, ClassifyFilter, ClassifyNoMemory,
       ClassifyQueue, InjectComplete
  <2> QED BY <2>1, <1>2 DEF Waits
<1>4. ASSUME NEW w \in Workers, Worker(w)
      PROVE  \E t \in Threads : pc'[t] \in {"svc", "serve"}
  <2>1. CASE Insert(w)
    BY <1>0, <2>1 DEF Insert, InsertThen
  <2>2. CASE ~Insert(w)
    <3>1. ~Servicing(w) /\ \A u \in Threads \ {w} : pc'[u] = pc[u]
      BY <1>0, <1>4, <2>2 DEF Servicing, Worker, WorkerStart, WorkerReturn,
         WorkerTake, WorkerSniff, WorkerNext, WorkerFinish, QueueRefuse,
         QueueDrop, QueueFast, QueueCopy, InsertRefuse, InsertDrop,
         InsertEvict, Evicts, Skip
    <3>2. state' = state /\ read_queue' \subseteq read_queue
      BY <1>4, <2>2 DEF Worker, WorkerStart, WorkerReturn, WorkerTake,
         WorkerSniff, WorkerNext, WorkerFinish, QueueRefuse, QueueDrop,
         QueueFast, QueueCopy, InsertRefuse, InsertDrop, InsertEvict,
         TakeRequest
    <3>3. packet_queue # <<>>
      <4>1. CASE InsertEvict(w)
        BY <4>1, VictimExists DEF InsertEvict, EvictionHasVictim
      <4>2. CASE ~InsertEvict(w)
        BY <1>4, <2>2, <4>2 DEF Worker, WorkerStart, WorkerReturn, WorkerTake,
           WorkerSniff, WorkerNext, WorkerFinish, QueueRefuse, QueueDrop,
           QueueFast, QueueCopy, InsertRefuse, InsertDrop, Waits
      <4> QED BY <4>1, <4>2
    <3> QED BY <1>0, <1>1, <3>1, <3>2, <3>3 DEF Waits
  <2> QED BY <2>1, <2>2
<1>5. ASSUME NEW t \in Threads, Service(t)
      PROVE  \E u \in Threads : pc'[u] \in {"svc", "serve"}
  <2>1. CASE ServiceExpire(t)
    BY <2>1 DEF ServiceExpire
  <2>2. CASE ServicePair(t)
    BY <1>0, <2>2 DEF ServicePair
  <2>3. CASE ServiceReturn(t)
    BY <2>3 DEF ServiceReturn, Waits
  <2>4. CASE Serve(t) /\ pc[t] = "serve"
    BY <1>0, <2>4 DEF Serve
  <2>5. CASE Serve(t) /\ pc[t] # "serve"
    <3>1. ~Servicing(t) /\ \A u \in Threads \ {t} : pc'[u] = pc[u]
      BY <1>0, <2>5 DEF Serve, Servicing
    <3>2. UNCHANGED <<state, packet_queue, read_queue>>
      BY <2>5 DEF Serve
    <3> QED BY <1>1, <3>1, <3>2 DEF Waits
  <2> QED BY <1>5, <2>1, <2>2, <2>3, <2>4, <2>5 DEF Service
<1>6. ASSUME NEW r \in Reqs, Read(r) \/ Cancel(r)
      PROVE  \E t \in Threads : pc'[t] \in {"svc", "serve"}
  <2>1. CASE Cancel(r)
    <3>1. UNCHANGED <<pc, state, packet_queue>> /\ read_queue' \subseteq read_queue
      BY <2>1 DEF Cancel
    <3> QED BY <1>2, <3>1 DEF Waits
  <2>2. CASE Read(r) /\ pc'[r] = "svc"
    BY <1>0, <2>2
  <2>3. CASE Read(r) /\ pc'[r] # "svc"
    <3>1. ~Servicing(r) /\ \A u \in Threads \ {r} : pc'[u] = pc[u]
      BY <1>0, <2>3 DEF Read, Servicing
    <3>2. UNCHANGED <<state, packet_queue, read_queue>>
      BY <1>0, <2>3 DEF Read
    <3> QED BY <1>0, <1>1, <3>1, <3>2 DEF Waits
  <2> QED BY <1>6, <2>1, <2>2, <2>3
<1>7. CASE SetParam \/ Terminated \/ UNCHANGED vars
  <2>1. UNCHANGED <<pc, state, packet_queue, read_queue>>
    BY <1>7 DEF SetParam, Terminated, vars
  <2> QED BY <2>1, <1>2 DEF Waits
<1>8. CASE CleanupBegin \/ Close
  BY <1>8 DEF CleanupBegin, Close, Waits
<1>9. CASE Cleanup /\ ~Close
  <2>1. UNCHANGED <<pc, state>> /\ read_queue' \subseteq read_queue
    BY <1>9 DEF Cleanup, CleanupPacket, CleanupPacketsDone, CleanupWork,
       CleanupPurge, CleanupFlush, CleanupUninstall, Destroy
  <2>2. packet_queue # <<>>
    BY <1>9 DEF Cleanup, CleanupPacket, CleanupPacketsDone, CleanupWork,
       CleanupPurge, CleanupFlush, CleanupUninstall, Destroy, Waits
  <2> QED BY <1>2, <2>1, <2>2 DEF Waits
<1> QED BY <1>3, <1>4, <1>5, <1>6, <1>7, <1>8, <1>9 DEF Next

(***************************************************************************)
(* A packet and a reader never wait for each other with nobody about to    *)
(* bring them together: the wakeups of windivert_read and                  *)
(* windivert_queue_packet are enough, for any number of threads.           *)
(***************************************************************************)
THEOREM WakeupNotLost == Spec => []NoLostWakeup
<1>1. Init => NoLostWakeup
  BY DEF Init, NoLostWakeup
<1>2. TypeInv /\ NoLostWakeup /\ [Next]_vars => NoLostWakeup'
  BY NextNoLostWakeup
<1> QED BY <1>1, <1>2, TypeInvariance, PTL DEF Spec

-----------------------------------------------------------------------------
(***************************************************************************)
(* The inductive invariant for read requests.  A thread holds a request    *)
(* only while it serves it, so taking another cannot overwrite one, and a  *)
(* request that was not submitted has not been completed.                  *)
(***************************************************************************)
HoldsRequest ==
  \A t \in Threads : (req[t] # Nil) <=> (pc[t] \in {"fast", "serve"})

NotSubmitted == \A r \in Reqs : pc[r] = "idle" => completions[r] = 0

RequestInv == HoldsRequest /\ NotSubmitted /\ RequestCompletedOnce

(***************************************************************************)
(* Every step leaves the requests alone, or submits one, or moves one from *)
(* the read queue to a thread, or completes the one that a thread holds,   *)
(* or completes some that are in the read queue.                           *)
(***************************************************************************)
SameIdle(r) == pc'[r] = "idle" <=> pc[r] = "idle"

RequestStep ==
  \/ /\ UNCHANGED <<read_queue, completions, req>>
     /\ \A r \in Reqs : SameIdle(r)
  \/ \E r \in Reqs :
       /\ pc[r] = "idle" /\ pc'[r] # "idle"
       /\ \A s \in Reqs \ {r} : SameIdle(s)
       /\ UNCHANGED req
       /\ \/ read_queue' = read_queue \cup {r} /\ UNCHANGED completions
          \/ completions' = [completions EXCEPT ![r] = @ + 1]
             /\ UNCHANGED read_queue
  \/ \E t \in Threads :
       /\ req[t] = Nil /\ TakeRequest(t)
       /\ UNCHANGED completions
       /\ \A r \in Reqs : SameIdle(r)
  \/ \E t \in Threads :
       /\ req[t] # Nil /\ req' = [req EXCEPT ![t] = Nil]
       /\ completions' = [completions EXCEPT ![req[t]] = @ + 1]
       /\ UNCHANGED read_queue
       /\ \A r \in Reqs : SameIdle(r)
  \/ \E S \in SUBSET read_queue :
       /\ read_queue' = read_queue \ S /\ CompleteAll(S)
       /\ UNCHANGED req
       /\ \A r \in Reqs : SameIdle(r)

(***************************************************************************)
(* Every step of the driver treats the requests in one of the ways of      *)
(* RequestStep.                                                            *)
(***************************************************************************)
LEMMA NextRequestStep ==
  TypeInv /\ HoldsRequest /\ [Next]_vars => RequestStep /\ HoldsRequest'
<1> SUFFICES ASSUME TypeInv, HoldsRequest, [Next]_vars
             PROVE  RequestStep /\ HoldsRequest'
  OBVIOUS
<1>0. /\ pc \in [Threads -> WorkerPCs \cup ReaderPCs]
      /\ req \in [Threads -> Reqs \cup {Nil}]
      /\ completions \in [Reqs -> Nat]
      /\ Workers \subseteq Threads /\ Reqs \subseteq Threads
      /\ Reqs \cap Workers = {} /\ Nil \notin Reqs
      /\ read_queue \subseteq Reqs
      /\ \A r \in Reqs : pc[r] # "fast"
  BY ContextAssumption DEF TypeInv, TypeOK, ThreadsTyped, FatesTyped,
     ParamsTyped, Threads, ReaderPCs
<1>1. ASSUME UNCHANGED <<pc, read_queue, completions, req>>
      PROVE  RequestStep /\ HoldsRequest'
  BY <1>1 DEF RequestStep, HoldsRequest, SameIdle
<1> USE DEF threadVars, reqVars, Goto
<1>2. ASSUME NEW n \in NBLs, ClassifyEnter(n) \/ Classify(n) \/ InjectComplete(n)
      PROVE  UNCHANGED <<pc, read_queue, completions, req>>
  BY <1>2 DEF ClassifyEnter, Classify, ClassifyFilter, ClassifyNoMemory,
     ClassifyQueue, InjectComplete
<1>3. ASSUME NEW w \in Workers, Worker(w) PROVE RequestStep /\ HoldsRequest'
  <2>1. \A r \in Reqs : SameIdle(r)
    BY <1>0, <1>3 DEF SameIdle, Worker, WorkerStart, WorkerReturn, WorkerTake,
       WorkerSniff, WorkerNext, WorkerFinish, QueueRefuse, QueueDrop,
       QueueFast, QueueCopy, InsertRefuse, InsertDrop, InsertEvict, Insert,
       InsertThen, Skip
  <2>2. CASE QueueFast(w)
    <3>1. /\ req[w] = Nil /\ TakeRequest(w) /\ UNCHANGED completions
          /\ pc' = [pc EXCEPT ![w] = "fast"]
      BY <1>0, <2>2 DEF QueueFast, HoldsRequest
    <3> QED BY <1>0, <2>1, <3>1 DEF RequestStep, HoldsRequest, TakeRequest
  <2>3. CASE ~QueueFast(w)
    <3>1. UNCHANGED <<read_queue, completions, req>>
      BY <1>3, <2>3 DEF Worker, WorkerStart, WorkerReturn, WorkerTake,
         WorkerSniff, WorkerNext, WorkerFinish, QueueRefuse, QueueDrop,
         QueueCopy, InsertRefuse, InsertDrop, InsertEvict, Insert,
         InsertThen, Skip
    <3>2. \/ pc' = pc
          \/ /\ pc[w] \notin {"fast", "serve"}
             /\ \E p \in WorkerPCs \ {"fast", "serve"} : pc' = [pc EXCEPT ![w] = p]
      BY <1>3, <2>3 DEF Worker, WorkerStart, WorkerReturn, WorkerTake,
         WorkerSniff, WorkerNext, WorkerFinish, QueueRefuse, QueueDrop,
         QueueCopy, InsertRefuse, InsertDrop, InsertEvict, Insert,
         InsertThen, Skip, WorkerPCs
    <3> QED BY <1>0, <2>1, <3>1, <3>2 DEF RequestStep, HoldsRequest
  <2> QED BY <2>2, <2>3
<1>4. ASSUME NEW t \in Threads, Service(t) PROVE RequestStep /\ HoldsRequest'
  <2>1. \A r \in Reqs : SameIdle(r)
    BY <1>0, <1>4 DEF SameIdle, Service, ServiceExpire, ServicePair,
       ServiceReturn, Serve, Caller
  <2>2. CASE ServiceExpire(t)
    BY <1>1, <2>2 DEF ServiceExpire
  <2>3. CASE ServicePair(t)
    <3>1. /\ req[t] = Nil /\ TakeRequest(t) /\ UNCHANGED completions
          /\ pc' = [pc EXCEPT ![t] = "serve"]
      BY <1>0, <2>3 DEF ServicePair, HoldsRequest
    <3> QED BY <1>0, <2>1, <3>1 DEF RequestStep, HoldsRequest, TakeRequest
  <2>4. CASE ServiceReturn(t)
    <3>1. /\ UNCHANGED <<read_queue, completions, req>>
          /\ pc[t] = "svc"
          /\ \E p \in {"next", "done"} : pc' = [pc EXCEPT ![t] = p]
      BY <2>4 DEF ServiceReturn, Caller
    <3> QED BY <1>0, <2>1, <3>1 DEF RequestStep, HoldsRequest
  <2>5. CASE Serve(t)
    <3>1. /\ req[t] # Nil /\ req' = [req EXCEPT ![t] = Nil]
          /\ completions' = [completions EXCEPT ![req[t]] = @ + 1]
          /\ UNCHANGED read_queue
          /\ \E p \in {"next", "svc"} : pc' = [pc EXCEPT ![t] = p]
      BY <1>0, <2>5 DEF Serve, HoldsRequest
    <3> QED BY <1>0, <2>1, <3>1 DEF RequestStep, HoldsRequest
  <2> QED BY <1>4, <2>2, <2>3, <2>4, <2>5 DEF Service
<1>5. ASSUME NEW r \in Reqs, Read(r) PROVE RequestStep /\ HoldsRequest'
  <2>1. /\ pc[r] = "idle" /\ UNCHANGED req
        /\ \E p \in {"svc", "done"} : pc' = [pc EXCEPT ![r] = p]
        /\ \/ read_queue' = read_queue \cup {r} /\ UNCHANGED completions
           \/ completions' = [completions EXCEPT ![r] = @ + 1]
              /\ UNCHANGED read_queue
    BY <1>5 DEF Read
  <2>2. pc'[r] # "idle" /\ \A s \in Reqs \ {r} : SameIdle(s)
    BY <1>0, <2>1 DEF SameIdle
  <2> QED BY <1>0, <2>1, <2>2 DEF RequestStep, HoldsRequest
<1>6. ASSUME NEW r \in Reqs, Cancel(r) PROVE RequestStep /\ HoldsRequest'
  <2>1. /\ {r} \in SUBSET read_queue /\ read_queue' = read_queue \ {r}
        /\ completions' = [completions EXCEPT ![r] = @ + 1]
        /\ UNCHANGED <<pc, req>>
    BY <1>6 DEF Cancel
  <2>2. CompleteAll({r})
    BY <1>0, <2>1 DEF CompleteAll
  <2> QED BY <2>1, <2>2 DEF RequestStep, HoldsRequest, SameIdle
<1>7. CASE CleanupPurge
  <2>1. /\ CompleteAll(read_queue) /\ read_queue' = read_queue \ read_queue
        /\ UNCHANGED <<pc, req>>
    BY <1>7 DEF CleanupPurge
  <2> QED BY <2>1 DEF RequestStep, HoldsRequest, SameIdle
<1>8. CASE SetParam \/ CleanupBegin \/ (Cleanup /\ ~CleanupPurge) \/ Terminated
  BY <1>1, <1>8 DEF SetParam, CleanupBegin, Cleanup, CleanupPacket,
     CleanupPacketsDone, CleanupWork, CleanupFlush, CleanupUninstall, Close,
     Destroy, Terminated, vars
<1>9. CASE UNCHANGED vars
  BY <1>1, <1>9 DEF vars
<1> QED BY <1>1, <1>2, <1>3, <1>4, <1>5, <1>6, <1>7, <1>8, <1>9 DEF Next

(***************************************************************************)
(* Where request r is: what RequestCompletedOnce says of it, without the   *)
(* set of its holders.                                                     *)
(***************************************************************************)
Held(r) == \E t \in Threads : req[t] = r

OnceOnly(r) ==
  /\ completions[r] \in {0, 1}
  /\ Outstanding(r) <=> (r \in read_queue \/ Held(r))
  /\ r \in read_queue => ~Held(r)
  /\ \A t, u \in Threads : req[t] = r /\ req[u] = r => t = u

(***************************************************************************)
(* RequestCompletedOnce is OnceOnly of every request.                      *)
(***************************************************************************)
LEMMA OnceOnlyEquiv == RequestCompletedOnce <=> \A r \in Reqs : OnceOnly(r)
<1>1. ASSUME NEW r \in Reqs
      PROVE  /\ Holders(r) # {} <=> Held(r)
             /\ (\A t, u \in Holders(r) : t = u)
                  <=> \A t, u \in Threads : req[t] = r /\ req[u] = r => t = u
  BY DEF Holders, Held
<1> QED BY <1>1 DEF RequestCompletedOnce, OnceOnly

(***************************************************************************)
(* A step of any of those kinds keeps each request in one place.           *)
(***************************************************************************)
LEMMA RequestStepInv ==
  ASSUME TypeInv, RequestInv, RequestStep
  PROVE  NotSubmitted' /\ RequestCompletedOnce'
<1>0. /\ req \in [Threads -> Reqs \cup {Nil}] /\ Nil \notin Reqs
      /\ completions \in [Reqs -> Nat] /\ read_queue \subseteq Reqs
      /\ \A r \in Reqs : OnceOnly(r) /\ (pc[r] = "idle" => completions[r] = 0)
  BY ContextAssumption, OnceOnlyEquiv DEF TypeInv, TypeOK, ThreadsTyped,
     FatesTyped, ParamsTyped, RequestInv, NotSubmitted
<1> SUFFICES ASSUME NEW q \in Reqs
             PROVE  (pc'[q] = "idle" => completions'[q] = 0) /\ OnceOnly(q)'
  <2>1. (RequestCompletedOnce <=> \A r \in Reqs : OnceOnly(r))'
    BY OnceOnlyEquiv, PTL
  <2> QED BY <2>1 DEF NotSubmitted
<1> USE DEF OnceOnly, Held, Outstanding, SameIdle
<1>1. CASE /\ UNCHANGED <<read_queue, completions, req>>
           /\ \A r \in Reqs : SameIdle(r)
  BY <1>0, <1>1
<1>2. ASSUME NEW r \in Reqs, pc[r] = "idle", pc'[r] # "idle",
             \A s \in Reqs \ {r} : SameIdle(s), UNCHANGED req,
             \/ read_queue' = read_queue \cup {r} /\ UNCHANGED completions
             \/ completions' = [completions EXCEPT ![r] = @ + 1]
                /\ UNCHANGED read_queue
      PROVE  (pc'[q] = "idle" => completions'[q] = 0) /\ OnceOnly(q)'
  BY <1>0, <1>2
<1>3. ASSUME NEW t \in Threads, req[t] = Nil, TakeRequest(t),
             UNCHANGED completions, \A r \in Reqs : SameIdle(r)
      PROVE  (pc'[q] = "idle" => completions'[q] = 0) /\ OnceOnly(q)'
  BY <1>0, <1>3 DEF TakeRequest
<1>4. ASSUME NEW t \in Threads, req[t] # Nil, req' = [req EXCEPT ![t] = Nil],
             completions' = [completions EXCEPT ![req[t]] = @ + 1],
             UNCHANGED read_queue, \A r \in Reqs : SameIdle(r)
      PROVE  (pc'[q] = "idle" => completions'[q] = 0) /\ OnceOnly(q)'
  BY <1>0, <1>4
<1>5. ASSUME NEW S \in SUBSET read_queue, read_queue' = read_queue \ S,
             CompleteAll(S), UNCHANGED req, \A r \in Reqs : SameIdle(r)
      PROVE  (pc'[q] = "idle" => completions'[q] = 0) /\ OnceOnly(q)'
  BY <1>0, <1>5 DEF CompleteAll
<1> QED BY <1>1, <1>2, <1>3, <1>4, <1>5 DEF RequestStep

(***************************************************************************)
(* Each submitted request is in one place until it is completed, and a     *)
(* thread holds one exactly while it serves it.                            *)
(***************************************************************************)
THEOREM RequestInvariance == Spec => []RequestInv
<1>1. Init => RequestInv
  BY ContextAssumption DEF Init, RequestInv, HoldsRequest, NotSubmitted,
     RequestCompletedOnce, Outstanding, Holders, Threads
<1>2. TypeInv /\ RequestInv /\ [Next]_vars => RequestInv'
  BY NextRequestStep, RequestStepInv DEF RequestInv
<1> QED BY <1>1, <1>2, TypeInvariance, PTL DEF Spec

(***************************************************************************)
(* No read request is completed twice or forgotten, however the fast path, *)
(* the read service of any thread, cancellation, the purge at cleanup and  *)
(* the ioctl's error path interleave.                                      *)
(***************************************************************************)
THEOREM RequestsCompletedOnce == Spec => []RequestCompletedOnce
<1>1. RequestInv => RequestCompletedOnce
  BY DEF RequestInv
<1> QED BY <1>1, RequestInvariance, PTL
=============================================================================
