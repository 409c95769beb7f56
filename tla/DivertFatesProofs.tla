-------------------------- MODULE DivertFatesProofs --------------------------
(***************************************************************************)
(* Theorems about what becomes of each buffer of DivertContext: a diverted *)
(* one is in one place only, whatever the threads do, a sniffed one is     *)
(* sent and read at most once, and those of one list are read in order.    *)
(***************************************************************************)
EXTENDS DivertLifeProofs, DivertHandle

-----------------------------------------------------------------------------
(***************************************************************************)
(* The places a buffer can be in, and the buffers in each: those in which  *)
(* the handle has it, and its fates.                                       *)
(***************************************************************************)
LostBufs == {b \in Bufs : lost[b] # {}}

Kinds == {"stack", "work", "worker", "queue", "service", "read", "sent", "lost"}

Part == [stack |-> StackBufs, work |-> WorkBufs, worker |-> WorkerBufs,
         queue |-> QueueBufs, service |-> ServiceBufs, read |-> ReadBufs,
         sent |-> SentBufs, lost |-> LostBufs]

(***************************************************************************)
(* The places that exclude each other.  A sniffed packet is on the network *)
(* and on its way to a reader at once, so for it "sent" and "lost" do not  *)
(* count.                                                                  *)
(***************************************************************************)
Tracked == IF IsSniff THEN Kinds \ {"sent", "lost"} ELSE Kinds

Apart(P, K) == \A j, k \in K : j # k => P[j] \cap P[k] = {}
Covers(P, K) == \A b \in Bufs : \E k \in K : b \in P[k]

(***************************************************************************)
(* A worker's remaining buffers are those of its list, each once; a packet *)
(* is in the packet queue once, and one thread at most services it; only   *)
(* in SNIFF mode is the list put back first, and then as a whole.          *)
(***************************************************************************)
RestOwned ==
  \A w \in Workers :
    /\ IsInjective(rest[w])
    /\ \A b \in Range(rest[w]) : work[w] \in NBLs /\ b \in BufsOf(work[w])

QueuedOnce == IsInjective(packet_queue)

HoldsPacket ==
  /\ \A t \in Threads : (pkt[t] # Nil) <=> (pc[t] \in {"fast", "serve"})
  /\ \A t, u \in Threads : pkt[t] = pkt[u] /\ pkt[t] # Nil => t = u

SniffFirst ==
  \A w \in Workers : pc[w] = "sniff" => IsSniff /\ rest[w] = Buffers[work[w]]

HeldOnce == RestOwned /\ QueuedOnce /\ HoldsPacket /\ SniffFirst

(***************************************************************************)
(* The fates: the places are apart; every buffer that is not sniffed is in *)
(* one of them; and no fate strikes twice.                                 *)
(***************************************************************************)
Once ==
  /\ \A b \in Bufs : read[b] <= 1
  /\ ~IsSniff => \A b \in Bufs : /\ sent[b] <= 1
                                 /\ \A x, y \in lost[b] : x = y

Fates == /\ Apart(Part, Tracked)
         /\ ~IsSniff => Covers(Part, Kinds)
         /\ Once

(***************************************************************************)
(* In SNIFF mode, the buffers that were not put back on the network yet.   *)
(***************************************************************************)
SniffingBufs ==
  {b \in Bufs : \E w \in Workers : pc[w] = "sniff" /\ b \in BufsOf(work[w])}

Unsent == StackBufs \cup WorkBufs \cup SniffingBufs

SniffSent ==
  IsSniff => /\ \A b \in Bufs : sent[b] <= 1
             /\ \A b \in Unsent : sent[b] = 0

FateInv == HeldOnce /\ Fates /\ SniffSent

-----------------------------------------------------------------------------
(***************************************************************************)
(* The buffers of a list are its own, each once.                           *)
(***************************************************************************)
LEMMA BuffersOwned ==
  /\ \A n \in NBLs : /\ BufsOf(n) \subseteq Bufs
                     /\ Buffers[n] \in Seq(Bufs) /\ IsInjective(Buffers[n])
  /\ \A m, n \in NBLs : \A b : b \in BufsOf(m) /\ b \in BufsOf(n) => m = n
<1>1. \A n \in NBLs : Buffers[n] \in Seq(Bufs)
  BY ContextAssumption
<1>2. ASSUME NEW n \in NBLs PROVE BufsOf(n) \subseteq Bufs
  <2>1. Buffers[n] \in Seq(Bufs)
    BY <1>1
  <2> QED BY <2>1 DEF BufsOf, Range
<1>3. \A n \in NBLs : IsInjective(Buffers[n])
  BY BufferAssumption DEF IsInjective
<1>4. ASSUME NEW m \in NBLs, NEW n \in NBLs, NEW b, b \in BufsOf(m), b \in BufsOf(n)
      PROVE  m = n
  <2>1. PICK i \in DOMAIN Buffers[m] : b = Buffers[m][i]
    BY <1>4 DEF BufsOf, Range
  <2>2. PICK j \in DOMAIN Buffers[n] : b = Buffers[n][j]
    BY <1>4 DEF BufsOf, Range
  <2> QED BY <2>1, <2>2, BufferAssumption
<1> QED BY <1>1, <1>2, <1>3, <1>4

(***************************************************************************)
(* Hence no two workers have a buffer in common.                           *)
(***************************************************************************)
LEMMA RestApart ==
  ASSUME OneHolder, RestOwned, NEW v \in Workers, NEW w \in Workers, NEW b,
         b \in Range(rest[v]), b \in Range(rest[w])
  PROVE  v = w
<1>1. /\ work[v] \in NBLs /\ b \in BufsOf(work[v])
      /\ work[w] \in NBLs /\ b \in BufsOf(work[w])
  BY DEF RestOwned
<1>2. work[v] = work[w]
  BY <1>1, BuffersOwned
<1> QED BY <1>1, <1>2, ContextAssumption DEF OneHolder

(***************************************************************************)
(* What each elementary change does to the buffers in one place.  A worker *)
(* drops its first buffer, or all it has, or starts on a list.             *)
(***************************************************************************)
LEMMA RestDropsHead ==
  ASSUME TypeInv, OneHolder, RestOwned, NEW w \in Workers, rest[w] # <<>>,
         rest' = [rest EXCEPT ![w] = Tail(@)]
  PROVE  /\ Head(rest[w]) \in Bufs /\ Head(rest[w]) \in WorkerBufs
         /\ work[w] \in NBLs /\ Head(rest[w]) \in BufsOf(work[w])
         /\ WorkerBufs' = WorkerBufs \ {Head(rest[w])}
<1>1. rest \in [Workers -> Seq(Bufs)] /\ rest[w] \in Seq(Bufs) /\ IsInjective(rest[w])
  BY DEF TypeInv, TypeOK, ThreadsTyped, RestOwned
<1>2. /\ Head(rest[w]) \in Bufs /\ Head(rest[w]) \in Range(rest[w])
      /\ Range(Tail(rest[w])) = Range(rest[w]) \ {Head(rest[w])}
  BY <1>1, TailOfInjective
<1>3. /\ Range(rest'[w]) = Range(rest[w]) \ {Head(rest[w])}
      /\ \A v \in Workers \ {w} : rest'[v] = rest[v] /\ Head(rest[w]) \notin Range(rest[v])
  BY <1>1, <1>2, RestApart
<1>4. WorkerBufs' = WorkerBufs \ {Head(rest[w])}
  BY <1>2, <1>3 DEF WorkerBufs
<1> QED BY <1>2, <1>4 DEF WorkerBufs, RestOwned

(***************************************************************************)
(* A worker gives up its list, with all the buffers it still has.          *)
(***************************************************************************)
LEMMA RestDropsAll ==
  ASSUME TypeInv, OneHolder, RestOwned, NEW w \in Workers,
         rest' = [rest EXCEPT ![w] = <<>>]
  PROVE  /\ Range(rest[w]) \subseteq WorkerBufs
         /\ WorkerBufs' = WorkerBufs \ Range(rest[w])
<1>1. rest \in [Workers -> Seq(Bufs)] /\ rest[w] \in Seq(Bufs)
  BY DEF TypeInv, TypeOK, ThreadsTyped
<1>2. Range(rest[w]) \subseteq Bufs
  BY <1>1 DEF Range
<1>3. rest'[w] = <<>> /\ \A v \in Workers \ {w} : rest'[v] = rest[v]
  BY <1>1
<1>4. Range(rest'[w]) = {}
  <2>1. DOMAIN <<>> = {}
    OBVIOUS
  <2> QED BY <1>3, <2>1 DEF Range
<1>5. \A v \in Workers \ {w} : Range(rest[v]) \cap Range(rest[w]) = {}
  BY RestApart
<1>6. WorkerBufs' = WorkerBufs \ Range(rest[w])
  BY <1>3, <1>4, <1>5 DEF WorkerBufs
<1> QED BY <1>2, <1>6 DEF WorkerBufs

(***************************************************************************)
(* A worker without buffers starts on those of list n.                     *)
(***************************************************************************)
LEMMA RestStarts ==
  ASSUME TypeInv, NEW w \in Workers, rest[w] = <<>>, NEW n \in NBLs,
         rest' = [rest EXCEPT ![w] = Buffers[n]]
  PROVE  WorkerBufs' = WorkerBufs \cup BufsOf(n)
<1>1. rest \in [Workers -> Seq(Bufs)]
  BY DEF TypeInv, TypeOK, ThreadsTyped
<1>2. rest'[w] = Buffers[n] /\ \A v \in Workers \ {w} : rest'[v] = rest[v]
  BY <1>1
<1>3. Range(rest[w]) = {}
  <2>1. DOMAIN <<>> = {}
    OBVIOUS
  <2> QED BY <2>1 DEF Range
<1>4. Range(rest'[w]) = BufsOf(n) /\ BufsOf(n) \subseteq Bufs
  BY <1>2, BuffersOwned DEF BufsOf
<1> QED BY <1>2, <1>3, <1>4 DEF WorkerBufs

(***************************************************************************)
(* The oldest packet leaves the packet queue, or one more enters it.       *)
(***************************************************************************)
LEMMA QueueDropsHead ==
  ASSUME TypeInv, QueuedOnce, packet_queue # <<>>, RemoveHead
  PROVE  /\ Head(packet_queue) \in Bufs /\ Head(packet_queue) \in QueueBufs
         /\ QueueBufs' = QueueBufs \ {Head(packet_queue)}
         /\ QueuedOnce'
<1>1. packet_queue \in Seq(Bufs) /\ IsInjective(packet_queue)
  BY DEF TypeInv, TypeOK, QueueTyped, QueuedOnce
<1>2. packet_queue' = Tail(packet_queue)
  BY DEF RemoveHead
<1>3. /\ Head(packet_queue) \in Bufs /\ Head(packet_queue) \in Range(packet_queue)
      /\ IsInjective(Tail(packet_queue))
      /\ Range(Tail(packet_queue)) = Range(packet_queue) \ {Head(packet_queue)}
  BY <1>1, TailOfInjective
<1> QED BY <1>2, <1>3 DEF QueueBufs, QueuedOnce

(***************************************************************************)
(* A packet that is not in the packet queue enters it.                     *)
(***************************************************************************)
LEMMA QueueGains ==
  ASSUME TypeInv, QueuedOnce, NEW b \in Bufs, b \notin QueueBufs,
         packet_queue' = Append(packet_queue, b)
  PROVE  QueueBufs' = QueueBufs \cup {b} /\ QueuedOnce'
<1>1. packet_queue \in Seq(Bufs) /\ IsInjective(packet_queue)
  BY DEF TypeInv, TypeOK, QueueTyped, QueuedOnce
<1>2. /\ IsInjective(Append(packet_queue, b))
      /\ Range(Append(packet_queue, b)) = Range(packet_queue) \cup {b}
  BY <1>1, AppendToInjective DEF QueueBufs
<1> QED BY <1>2 DEF QueueBufs, QueuedOnce

(***************************************************************************)
(* A thread takes a packet to service it, or is done with the one it has.  *)
(***************************************************************************)
LEMMA ServiceGains ==
  ASSUME TypeInv, HoldsPacket, NEW t \in Threads, pkt[t] = Nil, NEW b \in Bufs,
         pkt' = [pkt EXCEPT ![t] = b]
  PROVE  ServiceBufs' = ServiceBufs \cup {b}
<1>1. pkt \in [Threads -> Bufs \cup {Nil}] /\ Nil \notin Bufs
  BY ContextAssumption DEF TypeInv, TypeOK, ThreadsTyped
<1>2. pkt'[t] = b /\ \A u \in Threads \ {t} : pkt'[u] = pkt[u]
  BY <1>1
<1> QED BY <1>1, <1>2 DEF ServiceBufs

(***************************************************************************)
(* A thread is done with the packet it has, and no other thread has it.    *)
(***************************************************************************)
LEMMA ServiceDrops ==
  ASSUME TypeInv, HoldsPacket, NEW t \in Threads, pkt[t] # Nil,
         pkt' = [pkt EXCEPT ![t] = Nil]
  PROVE  /\ pkt[t] \in Bufs /\ pkt[t] \in ServiceBufs
         /\ ServiceBufs' = ServiceBufs \ {pkt[t]}
<1>1. pkt \in [Threads -> Bufs \cup {Nil}] /\ Nil \notin Bufs
  BY ContextAssumption DEF TypeInv, TypeOK, ThreadsTyped
<1>2. pkt'[t] = Nil /\ \A u \in Threads \ {t} : pkt'[u] = pkt[u] /\ pkt[u] # pkt[t]
  BY <1>1 DEF HoldsPacket
<1> QED BY <1>1, <1>2 DEF ServiceBufs

(***************************************************************************)
(* The oldest list leaves the work queue, with all its buffers.            *)
(***************************************************************************)
LEMMA WorkDropsHead ==
  ASSUME TypeInv, OneHolder, work_queue # <<>>, work_queue' = Tail(work_queue)
  PROVE  /\ Head(work_queue) \in NBLs /\ BufsOf(Head(work_queue)) \subseteq WorkBufs
         /\ WorkBufs' = WorkBufs \ BufsOf(Head(work_queue))
<1>1. work_queue \in Seq(NBLs) /\ IsInjective(work_queue)
  BY DEF TypeInv, TypeOK, WorkTyped, OneHolder
<1>2. /\ Head(work_queue) \in NBLs /\ Head(work_queue) \in Range(work_queue)
      /\ Range(Tail(work_queue)) = Range(work_queue) \ {Head(work_queue)}
  BY <1>1, TailOfInjective
<1>3. Range(work_queue) \subseteq NBLs
  BY <1>1 DEF Range
<1>4. \A n \in Range(work_queue) \ {Head(work_queue)} :
        BufsOf(n) \cap BufsOf(Head(work_queue)) = {}
  BY <1>2, <1>3, BuffersOwned
<1>5. BufsOf(Head(work_queue)) \subseteq WorkBufs
  BY <1>2, BuffersOwned DEF WorkBufs
<1>6. Range(work_queue)' = Range(work_queue) \ {Head(work_queue)}
  BY <1>2
<1>7. WorkBufs' = WorkBufs \ BufsOf(Head(work_queue))
  BY <1>4, <1>6 DEF WorkBufs
<1> QED BY <1>2, <1>5, <1>7

(***************************************************************************)
(* The work queue is full: a list that is not in it takes the place of the *)
(* oldest.                                                                 *)
(***************************************************************************)
LEMMA WorkOverflows ==
  ASSUME TypeInv, OneHolder, HeldBlocked, NEW n \in NBLs, cls[n] # "blocked",
         WorkFull, work_queue' = Append(Tail(work_queue), n)
  PROVE  LET h == Head(work_queue)
         IN  /\ h \in NBLs /\ BufsOf(h) \subseteq WorkBufs
             /\ WorkBufs' = (WorkBufs \ BufsOf(h)) \cup BufsOf(n)
<1> DEFINE h == Head(work_queue)
           t == Tail(work_queue)
<1>0. /\ work_queue \in Seq(NBLs) /\ IsInjective(work_queue)
      /\ Range(work_queue) \subseteq NBLs /\ WorkCounter
  BY DEF TypeInv, TypeOK, WorkTyped, OneHolder, Range
<1>1. work_queue # <<>>
  BY <1>0, ContextAssumption DEF WorkFull, WorkCounter
<1>2. /\ h \in NBLs /\ h \in Range(work_queue) /\ t \in Seq(NBLs)
      /\ IsInjective(t) /\ Range(t) = Range(work_queue) \ {h}
  BY <1>0, <1>1, TailOfInjective
<1>3. n \notin Range(work_queue)
  BY DEF HeldBlocked
<1>4. work_queue' = Append(t, n)
  OBVIOUS
<1> HIDE DEF h, t
<1>5. Range(Append(t, n)) = Range(t) \cup {n}
  BY <1>2, <1>3, AppendToInjective
<1>6. Range(work_queue)' = (Range(work_queue) \ {h}) \cup {n}
  BY <1>2, <1>4, <1>5
<1>7. /\ \A m \in Range(work_queue) \ {h} : BufsOf(m) \cap BufsOf(h) = {}
      /\ BufsOf(n) \cap BufsOf(h) = {} /\ BufsOf(n) \subseteq Bufs
  BY <1>0, <1>2, <1>3, BuffersOwned
<1>8. WorkBufs' = (WorkBufs \ BufsOf(h)) \cup BufsOf(n)
  BY <1>6, <1>7 DEF WorkBufs
<1>9. BufsOf(h) \subseteq WorkBufs
  BY <1>2, BuffersOwned DEF WorkBufs
<1> QED BY <1>2, <1>8, <1>9 DEF h

(***************************************************************************)
(* A callout blocks list n: its buffers leave the stack.                   *)
(***************************************************************************)
LEMMA StackDrops ==
  ASSUME TypeInv, NEW n \in NBLs, cls[n] # "blocked",
         cls' = [cls EXCEPT ![n] = "blocked"]
  PROVE  BufsOf(n) \subseteq StackBufs /\ StackBufs' = StackBufs \ BufsOf(n)
<1>1. cls \in [NBLs -> {"new", "entered", "matched", "continued", "blocked"}]
  BY DEF TypeInv, TypeOK, ListsTyped
<1>2. cls'[n] = "blocked" /\ \A m \in NBLs \ {n} : cls'[m] = cls[m]
  BY <1>1
<1>3. BufsOf(n) \subseteq StackBufs
  BY BuffersOwned DEF StackBufs
<1> QED BY <1>2, <1>3 DEF StackBufs

-----------------------------------------------------------------------------
(***************************************************************************)
(* What place j contains once the buffers S have gone from place k to l.   *)
(***************************************************************************)
Moved(P, S, k, l, j) == IF j = k THEN P[j] \ S
                        ELSE IF j = l THEN P[j] \cup S ELSE P[j]

(***************************************************************************)
(* Places that are apart stay apart when buffers go from one of them to    *)
(* another, or out of sight; and if none goes out of sight, none is lost.  *)
(***************************************************************************)
LEMMA MoveKeepsApart ==
  ASSUME NEW K, NEW P, NEW Q, NEW S, NEW k \in K, NEW l, k # l, S \subseteq P[k],
         Apart(P, K), \A j \in K : Q[j] = Moved(P, S, k, l, j)
  PROVE  Apart(Q, K)
<1> SUFFICES ASSUME NEW i \in K, NEW j \in K, i # j, NEW b \in Q[i], b \in Q[j]
             PROVE  FALSE
  BY DEF Apart
<1>1. \A x, y \in K : x # y => ~(b \in P[x] /\ b \in P[y])
  BY DEF Apart
<1>2. \A x \in K : x = k /\ b \in Q[x] => b \in P[x] /\ b \notin S
  BY DEF Moved
<1>3. \A x \in K : x # k /\ b \in Q[x] => b \in P[x] \/ (x = l /\ b \in S)
  BY DEF Moved
<1>4. b \in S => b \in P[k]
  OBVIOUS
<1> QED BY <1>1, <1>2, <1>3, <1>4

(***************************************************************************)
(* If the buffers stay in sight, every buffer still has a place.           *)
(***************************************************************************)
LEMMA MoveKeepsCover ==
  ASSUME NEW K, NEW P, NEW Q, NEW S, NEW k \in K, NEW l \in K, k # l,
         S \subseteq P[k], Covers(P, K), \A j \in K : Q[j] = Moved(P, S, k, l, j)
  PROVE  Covers(Q, K)
<1> SUFFICES ASSUME NEW b \in Bufs PROVE \E j \in K : b \in Q[j]
  BY DEF Covers
<1>1. PICK j \in K : b \in P[j]
  BY DEF Covers
<1>2. CASE b \in S /\ j = k
  BY <1>2 DEF Moved
<1>3. CASE ~(b \in S /\ j = k)
  BY <1>1, <1>3 DEF Moved
<1> QED BY <1>2, <1>3

(***************************************************************************)
(* A step moves the buffers S from place k to place l.  Nothing leaves the *)
(* last three places, in which the fates are counted.                      *)
(***************************************************************************)
Placed == {"stack", "work", "worker", "queue", "service"}

Tally(S, l) ==
  /\ read' = IF l = "read" THEN Count(read, S) ELSE read
  /\ ~IsSniff => /\ sent' = IF l = "sent" THEN Count(sent, S) ELSE sent
                 /\ l = "lost" => \E why \in Reasons : Lose(S, why)
                 /\ l # "lost" => lost' = lost

Transfer(S, k, l) ==
  /\ k \in Placed /\ l \in Kinds /\ k # l /\ S \subseteq Part[k]
  /\ \A j \in Placed : Part'[j] = Moved(Part, S, k, l, j)
  /\ Tally(S, l)

Stays ==
  /\ \A j \in Placed : Part'[j] = Part[j]
  /\ read' = read
  /\ ~IsSniff => sent' = sent /\ lost' = lost

(***************************************************************************)
(* The work queue is full: the buffers of list h are lost, those of list n *)
(* take their place.                                                       *)
(***************************************************************************)
Overflows(n, h) ==
  /\ BufsOf(h) \subseteq WorkBufs /\ BufsOf(n) \subseteq StackBufs
  /\ \A j \in Placed : Part'[j] = CASE j = "stack" -> StackBufs \ BufsOf(n)
                                    [] j = "work" -> (WorkBufs \ BufsOf(h)) \cup BufsOf(n)
                                    [] OTHER -> Part[j]
  /\ Tally(BufsOf(h), "lost")

FateStep ==
  \/ Stays
  \/ \E S \in SUBSET Bufs, k, l \in Kinds : Transfer(S, k, l)
  \/ \E n, h \in NBLs : Overflows(n, h)

(***************************************************************************)
(* What the counts say about the last three places.                        *)
(***************************************************************************)
LEMMA TallyParts ==
  ASSUME TypeInv, NEW S \in SUBSET Bufs, NEW l \in Kinds, Tally(S, l),
         mode' = mode
  PROVE  \A j \in Tracked \ Placed :
           Part'[j] = IF j = l THEN Part[j] \cup S ELSE Part[j]
<1>1. read \in [Bufs -> Nat] /\ sent \in [Bufs -> Nat] /\ lost \in [Bufs -> SUBSET Reasons]
  BY DEF TypeInv, TypeOK, FatesTyped
<1>2. ReadBufs' = IF l = "read" THEN ReadBufs \cup S ELSE ReadBufs
  BY <1>1 DEF Tally, Count, ReadBufs
<1>3. ~IsSniff => SentBufs' = IF l = "sent" THEN SentBufs \cup S ELSE SentBufs
  BY <1>1 DEF Tally, Count, SentBufs
<1>4. ~IsSniff => LostBufs' = IF l = "lost" THEN LostBufs \cup S ELSE LostBufs
  <2>1. CASE ~IsSniff /\ l = "lost"
    <3>1. PICK why \in Reasons : Lose(S, why)
      BY <2>1 DEF Tally
    <3>2. \A b \in Bufs : lost'[b] # {} <=> (b \in S \/ lost[b] # {})
      BY <3>1 DEF Lose
    <3> QED BY <2>1, <3>2 DEF LostBufs
  <2>2. CASE ~IsSniff /\ l # "lost"
    BY <2>2 DEF Tally, LostBufs
  <2> QED BY <2>1, <2>2
<1>5. /\ Part["read"] = ReadBufs /\ Part'["read"] = ReadBufs'
      /\ Part["sent"] = SentBufs /\ Part'["sent"] = SentBufs'
      /\ Part["lost"] = LostBufs /\ Part'["lost"] = LostBufs'
  BY DEF Part
<1>6. \A j \in Tracked \ Placed : j = "read" \/ (~IsSniff /\ j \in {"sent", "lost"})
  BY DEF Tracked, Kinds, Placed
<1> QED BY <1>2, <1>3, <1>4, <1>5, <1>6

(***************************************************************************)
(* No fate strikes twice if the buffers that meet it had not met it yet.   *)
(***************************************************************************)
LEMMA TallyOnce ==
  ASSUME TypeInv, Once, NEW S \in SUBSET Bufs, NEW l \in Kinds, Tally(S, l),
         mode' = mode, l \in Tracked \ Placed => S \cap Part[l] = {}
  PROVE  Once'
<1>1. read \in [Bufs -> Nat] /\ sent \in [Bufs -> Nat] /\ lost \in [Bufs -> SUBSET Reasons]
  BY DEF TypeInv, TypeOK, FatesTyped
<1>2. /\ l = "read" => S \cap ReadBufs = {}
      /\ ~IsSniff /\ l = "sent" => S \cap SentBufs = {}
      /\ ~IsSniff /\ l = "lost" => S \cap LostBufs = {}
  BY DEF Tracked, Kinds, Placed, Part
<1>3. ASSUME NEW b \in Bufs PROVE read'[b] <= 1
  BY <1>1, <1>2 DEF Tally, Count, ReadBufs, Once
<1>4. ASSUME ~IsSniff, NEW b \in Bufs PROVE sent'[b] <= 1
  BY <1>1, <1>2, <1>4 DEF Tally, Count, SentBufs, Once
<1>5. ASSUME ~IsSniff, NEW b \in Bufs PROVE \A x, y \in lost'[b] : x = y
  <2>1. CASE l = "lost"
    <3>1. PICK why \in Reasons : Lose(S, why)
      BY <1>5, <2>1 DEF Tally
    <3>2. lost'[b] = IF b \in S THEN lost[b] \cup {why} ELSE lost[b]
      BY <3>1 DEF Lose
    <3>3. b \in S => lost[b] = {}
      BY <1>2, <1>5, <2>1 DEF LostBufs
    <3> QED BY <1>5, <3>2, <3>3 DEF Once
  <2>2. CASE l # "lost"
    BY <1>5, <2>2 DEF Tally, Once
  <2> QED BY <2>1, <2>2
<1>6. IsSniff' = IsSniff
  BY DEF IsSniff
<1> QED BY <1>3, <1>4, <1>5, <1>6 DEF Once

(***************************************************************************)
(* A step that moves buffers as FateStep says keeps the fates in order.    *)
(***************************************************************************)
LEMMA FateStepFates ==
  ASSUME TypeInv, Fates, FateStep, mode' = mode
  PROVE  Fates'
<1>0. /\ Tracked' = Tracked /\ (IsSniff' <=> IsSniff)
      /\ Placed \subseteq Tracked /\ Tracked \subseteq Kinds
      /\ ~IsSniff => Tracked = Kinds
  BY DEF Tracked, IsSniff, Kinds, Placed
<1>1. Apart(Part, Tracked) /\ (~IsSniff => Covers(Part, Kinds)) /\ Once
  BY DEF Fates
<1>2. CASE Stays
  <2>1. /\ ReadBufs' = ReadBufs
        /\ ~IsSniff => SentBufs' = SentBufs /\ LostBufs' = LostBufs
    BY <1>2 DEF Stays, ReadBufs, SentBufs, LostBufs
  <2>2. \A j \in Tracked \ Placed : Part'[j] = Part[j]
    BY <2>1 DEF Tracked, Kinds, Placed, Part
  <2>3. \A j \in Tracked : Part'[j] = Part[j]
    BY <1>2, <2>2 DEF Stays
  <2>4. Apart(Part', Tracked)
    BY <1>1, <2>3 DEF Apart
  <2>5. ~IsSniff => Covers(Part', Kinds)
    BY <1>0, <1>1, <2>3 DEF Covers
  <2>6. Once'
    BY <1>0, <1>1, <1>2 DEF Stays, Once
  <2> QED BY <1>0, <2>4, <2>5, <2>6 DEF Fates
<1>3. ASSUME NEW S \in SUBSET Bufs, NEW k \in Kinds, NEW l \in Kinds, Transfer(S, k, l)
      PROVE  Fates'
  <2>1. /\ k \in Placed /\ k # l /\ S \subseteq Part[k] /\ Tally(S, l)
        /\ \A j \in Placed : Part'[j] = Moved(Part, S, k, l, j)
    BY <1>3 DEF Transfer
  <2>2. \A j \in Tracked \ Placed :
          Part'[j] = IF j = l THEN Part[j] \cup S ELSE Part[j]
    BY <2>1, TallyParts
  <2>3. \A j \in Tracked : Part'[j] = Moved(Part, S, k, l, j)
    BY <2>1, <2>2 DEF Moved
  <2> DEFINE P == Part
             Q == Part'
             K == Tracked
  <2>4. k \in K /\ S \subseteq P[k] /\ Apart(P, K) /\ (~IsSniff => l \in K)
        /\ (\A j \in K : Q[j] = Moved(P, S, k, l, j))
    BY <1>0, <1>1, <2>1, <2>3
  <2>5. ~IsSniff => K = Kinds /\ Covers(P, K)
    BY <1>0, <1>1
  <2>6. l \in Tracked \ Placed => S \cap Part[l] = {}
    BY <1>0, <1>1, <2>1 DEF Apart
  <2>7. Once'
    BY <1>1, <2>1, <2>6, TallyOnce
  <2> HIDE DEF P, Q, K
  <2>8. Apart(Q, K)
    BY <2>1, <2>4, MoveKeepsApart
  <2>9. ASSUME ~IsSniff PROVE Covers(Q, Kinds)
    <3>1. l \in K /\ Covers(P, K) /\ K = Kinds
      BY <2>4, <2>5, <2>9
    <3>2. Covers(Q, K)
      BY <2>1, <2>4, <3>1, MoveKeepsCover
    <3> QED BY <3>1, <3>2
  <2> QED BY <1>0, <2>7, <2>8, <2>9 DEF Fates, P, Q, K
<1>4. ASSUME NEW n \in NBLs, NEW h \in NBLs, Overflows(n, h)
      PROVE  Fates'
  <2> DEFINE S == BufsOf(h)
             T == BufsOf(n)
             P == Part
             Q == Part'
             K == Tracked
             R == [j \in Kinds |-> Moved(P, S, "work", "lost", j)]
  <2>1. /\ S \subseteq P["work"] /\ T \subseteq P["stack"] /\ Tally(S, "lost")
        /\ S \in SUBSET Bufs /\ T \in SUBSET Bufs
    BY <1>4, BuffersOwned DEF Overflows, Part
  <2>2. \A j \in K \ Placed : Q[j] = IF j = "lost" THEN P[j] \cup S ELSE P[j]
    BY <2>1, TallyParts DEF Kinds
  <2>3. \A j \in Placed : Q[j] = CASE j = "stack" -> P["stack"] \ T
                                   [] j = "work" -> (P["work"] \ S) \cup T
                                   [] OTHER -> P[j]
    BY <1>4 DEF Overflows, Part
  <2>4. Apart(P, K) /\ (~IsSniff => K = Kinds /\ Covers(P, K))
        /\ K \subseteq Kinds /\ Placed \subseteq K
    BY <1>0, <1>1
  <2>5. "lost" \in Tracked \ Placed => S \cap Part["lost"] = {}
    BY <1>0, <1>1, <2>1 DEF Apart, Placed
  <2>6. Once'
    BY <1>1, <2>1, <2>5, TallyOnce DEF Kinds
  <2> HIDE DEF P, Q, K, S, T
  <2>7. \A j \in K : R[j] = Moved(P, S, "work", "lost", j)
    BY <2>4
  <2>8. \A j \in K : Q[j] = Moved(R, T, "stack", "work", j)
    <3> SUFFICES ASSUME NEW j \in K PROVE Q[j] = Moved(R, T, "stack", "work", j)
      OBVIOUS
    <3>1. CASE j \in Placed
      BY <2>3, <2>7, <3>1 DEF Moved, Placed
    <3>2. CASE j \notin Placed
      BY <2>2, <2>7, <3>2 DEF Moved, Placed
    <3> QED BY <3>1, <3>2
  <2>9. T \subseteq R["stack"] /\ "stack" \in K /\ "work" \in K
    BY <2>1, <2>4 DEF Moved, Placed, Kinds
  <2> HIDE DEF R
  <2>10. Apart(R, K)
    BY <2>1, <2>4, <2>7, <2>9, MoveKeepsApart
  <2>11. Apart(Q, K)
    BY <2>8, <2>9, <2>10, MoveKeepsApart
  <2>12. ~IsSniff => Covers(R, K)
    <3>1. ~IsSniff => "lost" \in K
      BY <2>4 DEF Kinds
    <3> QED BY <2>1, <2>4, <2>7, <2>9, <3>1, MoveKeepsCover
  <2>13. ASSUME ~IsSniff PROVE Covers(Q, Kinds)
    <3>1. Covers(R, K)
      BY <2>12, <2>13
    <3>2. Covers(Q, K)
      BY <2>8, <2>9, <3>1, MoveKeepsCover
    <3> QED BY <2>4, <2>13, <3>2
  <2> QED BY <1>0, <2>6, <2>11, <2>13 DEF Fates, P, Q, K
<1> QED BY <1>2, <1>3, <1>4 DEF FateStep

-----------------------------------------------------------------------------
(***************************************************************************)
(* A place whose variable does not change keeps its buffers.               *)
(***************************************************************************)
LEMMA SamePlaces ==
  /\ (\A n \in NBLs : cls'[n] = "blocked" <=> cls[n] = "blocked")
       => StackBufs' = StackBufs
  /\ work_queue' = work_queue => WorkBufs' = WorkBufs
  /\ rest' = rest => WorkerBufs' = WorkerBufs
  /\ packet_queue' = packet_queue => QueueBufs' = QueueBufs
  /\ pkt' = pkt => ServiceBufs' = ServiceBufs
BY DEF StackBufs, WorkBufs, WorkerBufs, QueueBufs, ServiceBufs

(***************************************************************************)
(* A step that leaves all places alone, and the fates of diverted buffers. *)
(***************************************************************************)
LEMMA StaysStep ==
  ASSUME \A n \in NBLs : cls'[n] = "blocked" <=> cls[n] = "blocked",
         UNCHANGED <<work_queue, rest, packet_queue, pkt, read>>,
         ~IsSniff => UNCHANGED <<sent, lost>>
  PROVE  FateStep
<1>1. /\ StackBufs' = StackBufs /\ WorkBufs' = WorkBufs /\ WorkerBufs' = WorkerBufs
      /\ QueueBufs' = QueueBufs /\ ServiceBufs' = ServiceBufs
  BY SamePlaces
<1>2. \A j \in Placed : Part'[j] = Part[j]
  BY <1>1 DEF Placed, Part
<1> QED BY <1>2 DEF FateStep, Stays

(***************************************************************************)
(* A step that moves the buffers S from place k to place l, described      *)
(* place by place.                                                         *)
(***************************************************************************)
LEMMA TransferStep ==
  ASSUME NEW S \in SUBSET Bufs, NEW k \in Placed, NEW l \in Kinds, k # l,
         S \subseteq Part[k],
         StackBufs' = Moved(Part, S, k, l, "stack"),
         WorkBufs' = Moved(Part, S, k, l, "work"),
         WorkerBufs' = Moved(Part, S, k, l, "worker"),
         QueueBufs' = Moved(Part, S, k, l, "queue"),
         ServiceBufs' = Moved(Part, S, k, l, "service"),
         Tally(S, l)
  PROVE  FateStep
<1>1. /\ Part'["stack"] = StackBufs' /\ Part'["work"] = WorkBufs'
      /\ Part'["worker"] = WorkerBufs' /\ Part'["queue"] = QueueBufs'
      /\ Part'["service"] = ServiceBufs'
  BY DEF Part
<1>2. \A j \in Placed : Part'[j] = Moved(Part, S, k, l, j)
  BY <1>1 DEF Placed
<1>3. k \in Kinds
  BY DEF Placed, Kinds
<1>4. Transfer(S, k, l)
  BY <1>2 DEF Transfer
<1> QED BY <1>3, <1>4 DEF FateStep

(***************************************************************************)
(* Places that exclude each other in either mode.                          *)
(***************************************************************************)
LEMMA PlacesApart ==
  ASSUME Fates
  PROVE  /\ WorkerBufs \cap QueueBufs = {} /\ WorkerBufs \cap ServiceBufs = {}
         /\ QueueBufs \cap ServiceBufs = {}
<1>1. {"worker", "queue", "service"} \subseteq Tracked
  BY DEF Tracked, Kinds
<1>2. /\ Part["worker"] = WorkerBufs /\ Part["queue"] = QueueBufs
      /\ Part["service"] = ServiceBufs
  BY DEF Part
<1>3. \A j, k \in Tracked : j # k => Part[j] \cap Part[k] = {}
  BY DEF Fates, Apart
<1> QED BY <1>1, <1>2, <1>3

(***************************************************************************)
(* The second critical section of windivert_classify_callout takes the     *)
(* buffers of a list off the stack and puts them in the work queue.        *)
(***************************************************************************)
LEMMA ClassifyFates ==
  ASSUME TypeInv, OneHolder, HeldBlocked, NEW n \in NBLs,
         ClassifyEnter(n) \/ Classify(n) \/ InjectComplete(n)
  PROVE  FateStep
<1>0. /\ cls \in [NBLs -> {"new", "entered", "matched", "continued", "blocked"}]
      /\ work_queue \in Seq(NBLs) /\ IsInjective(work_queue)
      /\ Range(work_queue) \subseteq NBLs /\ BufsOf(n) \in SUBSET Bufs
      /\ WorkCounter /\ work_queue_length \in Int
  BY BuffersOwned DEF TypeInv, TypeOK, ListsTyped, WorkTyped, OneHolder, Range
<1>1. CASE ClassifyEnter(n) \/ ClassifyFilter(n) \/ InjectComplete(n)
  <2>1. UNCHANGED <<work_queue, rest, packet_queue, pkt, read, sent, lost>>
    BY <1>1 DEF ClassifyEnter, ClassifyFilter, InjectComplete, workVars,
       threadVars, queueVars, fateVars
  <2>2. \A m \in NBLs : cls'[m] = "blocked" <=> cls[m] = "blocked"
    BY <1>0, <1>1 DEF ClassifyEnter, ClassifyFilter, InjectComplete
  <2> QED BY <2>1, <2>2, StaysStep
<1>2. CASE ClassifyNoMemory(n)
  <2>1. /\ UNCHANGED <<work_queue, rest, packet_queue, pkt, read, sent>>
        /\ cls[n] # "blocked" /\ cls' = [cls EXCEPT ![n] = "blocked"]
        /\ Lose(BufsOf(n), "nomem")
    BY <1>2 DEF ClassifyNoMemory, workVars, threadVars, queueVars
  <2>2. BufsOf(n) \subseteq StackBufs /\ StackBufs' = StackBufs \ BufsOf(n)
    BY <2>1, StackDrops
  <2>3. /\ WorkBufs' = WorkBufs /\ WorkerBufs' = WorkerBufs
        /\ QueueBufs' = QueueBufs /\ ServiceBufs' = ServiceBufs
    BY <2>1, SamePlaces
  <2>4. Tally(BufsOf(n), "lost")
    BY <2>1 DEF Tally, Reasons
  <2> DEFINE S == BufsOf(n)
  <2> HIDE DEF S
  <2>5. /\ S \in SUBSET Bufs /\ Tally(S, "lost")
        /\ S \subseteq StackBufs /\ StackBufs' = StackBufs \ S
    BY <1>0, <2>2, <2>4 DEF S
  <2> QED BY <2>3, <2>5, TransferStep DEF Moved, Part, Placed, Kinds
<1>3. CASE ClassifyQueue(n)
  <2>0. /\ UNCHANGED <<rest, packet_queue, pkt, read, sent>>
        /\ cls[n] = "matched"
    BY <1>3 DEF ClassifyQueue, threadVars, queueVars
  <2>1. /\ WorkerBufs' = WorkerBufs
        /\ QueueBufs' = QueueBufs /\ ServiceBufs' = ServiceBufs
    BY <2>0, SamePlaces
  <2>2. CASE cls' = [cls EXCEPT ![n] = "continued"] /\ UNCHANGED <<workVars, lost>>
    <3>1. \A m \in NBLs : cls'[m] = "blocked" <=> cls[m] = "blocked"
      BY <1>0, <2>0, <2>2
    <3> QED BY <2>0, <2>2, <3>1, StaysStep DEF workVars
  <2>3. CASE /\ cls' = [cls EXCEPT ![n] = "blocked"] /\ lost' = lost
             /\ work_queue' = Append(work_queue, n)
    <3>1. BufsOf(n) \subseteq StackBufs /\ StackBufs' = StackBufs \ BufsOf(n)
      BY <2>0, <2>3, StackDrops
    <3>2. n \notin Range(work_queue)
      BY <2>0 DEF HeldBlocked
    <3>3. Range(work_queue') = Range(work_queue) \cup {n}
      BY <1>0, <2>3, <3>2, AppendToInjective
    <3>4. WorkBufs' = WorkBufs \cup BufsOf(n)
      BY <1>0, <3>3 DEF WorkBufs
    <3>5. Tally(BufsOf(n), "work")
      BY <2>0, <2>3 DEF Tally
    <3> DEFINE S == BufsOf(n)
    <3> HIDE DEF S
    <3>6. /\ S \in SUBSET Bufs /\ Tally(S, "work") /\ S \subseteq StackBufs
          /\ StackBufs' = StackBufs \ S /\ WorkBufs' = WorkBufs \cup S
      BY <1>0, <3>1, <3>4, <3>5 DEF S
    <3> QED BY <2>1, <3>6, TransferStep DEF Moved, Part, Placed, Kinds
  <2>4. CASE /\ cls' = [cls EXCEPT ![n] = "blocked"] /\ WorkFull
             /\ work_queue' = Append(Tail(work_queue), n)
             /\ Lose(BufsOf(Head(work_queue)), "overflow")
    <3> DEFINE h == Head(work_queue)
    <3>1. BufsOf(n) \subseteq StackBufs /\ StackBufs' = StackBufs \ BufsOf(n)
      BY <2>0, <2>4, StackDrops
    <3>2. /\ h \in NBLs /\ BufsOf(h) \subseteq WorkBufs
          /\ WorkBufs' = (WorkBufs \ BufsOf(h)) \cup BufsOf(n)
      BY <2>0, <2>4, WorkOverflows
    <3>3. Lose(BufsOf(h), "overflow")
      BY <2>4
    <3> HIDE DEF h
    <3>4. Tally(BufsOf(h), "lost")
      BY <2>0, <3>3 DEF Tally, Reasons
    <3>5. Overflows(n, h)
      BY <2>1, <3>1, <3>2, <3>4 DEF Overflows, Part, Placed
    <3> QED BY <3>2, <3>5 DEF FateStep
  <2> QED BY <1>3, <2>2, <2>3, <2>4 DEF ClassifyQueue
<1> QED BY <1>1, <1>2, <1>3 DEF Classify

(***************************************************************************)
(* A worker's first buffer, or the oldest packet of the queue, is sent or  *)
(* lost.                                                                   *)
(***************************************************************************)
LEMMA HeadMeetsFate ==
  ASSUME TypeInv, OneHolder, RestOwned, NEW w \in Workers, rest[w] # <<>>,
         rest' = [rest EXCEPT ![w] = Tail(@)],
         UNCHANGED <<cls, work_queue, packet_queue, pkt>>,
         NEW l \in {"sent", "lost"}, Tally({Head(rest[w])}, l)
  PROVE  FateStep
<1> DEFINE S == {Head(rest[w])}
<1>1. /\ S \in SUBSET Bufs /\ S \subseteq WorkerBufs /\ WorkerBufs' = WorkerBufs \ S
  BY RestDropsHead
<1>2. Tally(S, l) /\ l \in Kinds /\ l \notin Placed
  BY DEF Kinds, Placed
<1> HIDE DEF S
<1>3. /\ StackBufs' = StackBufs /\ WorkBufs' = WorkBufs
      /\ QueueBufs' = QueueBufs /\ ServiceBufs' = ServiceBufs
  BY SamePlaces
<1> QED BY <1>1, <1>2, <1>3, TransferStep DEF Moved, Part, Placed

(***************************************************************************)
(* The oldest packet of the queue is sent or lost.                         *)
(***************************************************************************)
LEMMA PacketMeetsFate ==
  ASSUME TypeInv, QueuedOnce, packet_queue # <<>>, RemoveHead,
         UNCHANGED <<cls, work_queue, rest, pkt>>,
         NEW l \in {"sent", "lost"}, Tally({Head(packet_queue)}, l)
  PROVE  FateStep
<1> DEFINE S == {Head(packet_queue)}
<1>1. /\ S \in SUBSET Bufs /\ S \subseteq QueueBufs /\ QueueBufs' = QueueBufs \ S
  BY QueueDropsHead
<1>2. Tally(S, l) /\ l \in Kinds /\ l \notin Placed
  BY DEF Kinds, Placed
<1> HIDE DEF S
<1>3. /\ StackBufs' = StackBufs /\ WorkBufs' = WorkBufs
      /\ WorkerBufs' = WorkerBufs /\ ServiceBufs' = ServiceBufs
  BY SamePlaces
<1> QED BY <1>1, <1>2, <1>3, TransferStep DEF Moved, Part, Placed

(***************************************************************************)
(* The steps of windivert_worker and windivert_queue_packet move buffers   *)
(* from the work queue to the worker, and on from there.                   *)
(***************************************************************************)
LEMMA WorkerFates ==
  ASSUME TypeInv, OneHolder, BetweenWorks, HeldOnce, Fates,
         NEW w \in Workers, Worker(w)
  PROVE  FateStep
<1>0. /\ rest \in [Workers -> Seq(Bufs)] /\ rest[w] \in Seq(Bufs)
      /\ RestOwned /\ QueuedOnce /\ HoldsPacket /\ SniffFirst
      /\ w \in Threads
  BY DEF TypeInv, TypeOK, ThreadsTyped, HeldOnce, Threads
<1>1. CASE WorkerStart(w) \/ WorkerReturn(w) \/ QueueRefuse(w) \/ QueueCopy(w)
           \/ InsertRefuse(w)
  <2>1. UNCHANGED <<cls, work_queue, rest, packet_queue, pkt, read, sent, lost>>
    BY <1>1 DEF WorkerStart, WorkerReturn, QueueRefuse, QueueCopy,
       InsertRefuse, workVars, nblVars, queueVars, fateVars
  <2> QED BY <2>1, StaysStep
<1>2. CASE WorkerTake(w)
  <2> DEFINE n == Head(work_queue)
  <2>1. /\ work_queue # <<>> /\ work_queue' = Tail(work_queue) /\ pc[w] = "work"
        /\ rest' = [rest EXCEPT ![w] = Buffers[n]]
        /\ UNCHANGED <<cls, packet_queue, pkt, read, sent, lost>>
    BY <1>2 DEF WorkerTake, queueVars, fateVars
  <2>2. /\ n \in NBLs /\ BufsOf(n) \subseteq WorkBufs
        /\ WorkBufs' = WorkBufs \ BufsOf(n)
    BY <2>1, WorkDropsHead
  <2>3. rest[w] = <<>>
    <3>1. \A b \in Range(rest[w]) : FALSE
      BY <1>0, <2>1, ContextAssumption DEF RestOwned, BetweenWorks
    <3>2. rest[w] # <<>> => Head(rest[w]) \in Range(rest[w])
      BY <1>0, TailOfInjective DEF RestOwned
    <3> QED BY <3>1, <3>2
  <2> HIDE DEF n
  <2>4. WorkerBufs' = WorkerBufs \cup BufsOf(n) /\ BufsOf(n) \in SUBSET Bufs
    BY <2>1, <2>2, <2>3, RestStarts, BuffersOwned
  <2>5. /\ StackBufs' = StackBufs /\ QueueBufs' = QueueBufs
        /\ ServiceBufs' = ServiceBufs
    BY <2>1, SamePlaces
  <2>6. Tally(BufsOf(n), "worker")
    BY <2>1 DEF Tally
  <2> DEFINE S == BufsOf(n)
  <2>7. /\ S \in SUBSET Bufs /\ S \subseteq WorkBufs /\ WorkBufs' = WorkBufs \ S
        /\ WorkerBufs' = WorkerBufs \cup S /\ Tally(S, "worker")
    BY <2>2, <2>4, <2>6
  <2> HIDE DEF S
  <2> QED BY <2>5, <2>7, TransferStep DEF Moved, Part, Placed, Kinds
<1>3. CASE WorkerSniff(w)
  <2>1. IsSniff /\ UNCHANGED <<cls, work_queue, rest, packet_queue, pkt, read>>
    BY <1>0, <1>3 DEF WorkerSniff, SniffFirst, workVars, queueVars, fateVars
  <2> QED BY <2>1, StaysStep
<1>4. CASE WorkerNext(w)
  <2>1. UNCHANGED <<cls, work_queue, packet_queue, pkt, read>>
    BY <1>4 DEF WorkerNext, workVars, queueVars, fateVars
  <2>2. CASE UNCHANGED <<rest, fateVars>>
    BY <2>1, <2>2, StaysStep DEF fateVars
  <2>3. CASE /\ rest[w] # <<>> /\ rest' = [rest EXCEPT ![w] = Tail(@)]
             /\ ~IsSniff => Put({Head(rest[w])}, work[w])
    <3>1. Tally({Head(rest[w])}, "sent") \/ Tally({Head(rest[w])}, "lost")
      BY <2>1, <2>3 DEF Tally, Put, PutSucceeds, PutIsRefused, Reasons
    <3> QED BY <1>0, <2>1, <2>3, <3>1, HeadMeetsFate
  <2> QED BY <1>4, <2>2, <2>3 DEF WorkerNext
<1>5. CASE WorkerFinish(w)
  <2> DEFINE S == Range(rest[w])
  <2>1. /\ UNCHANGED <<cls, work_queue, packet_queue, pkt, read, sent>>
        /\ rest' = [rest EXCEPT ![w] = <<>>] /\ Lose(S, "abandoned")
    BY <1>5 DEF WorkerFinish, workVars, queueVars
  <2>2. S \subseteq WorkerBufs /\ WorkerBufs' = WorkerBufs \ S
    BY <1>0, <2>1, RestDropsAll
  <2>3. S \in SUBSET Bufs
    BY <1>0 DEF Range
  <2> HIDE DEF S
  <2>4. Tally(S, "lost")
    BY <2>1 DEF Tally, Reasons
  <2>5. /\ StackBufs' = StackBufs /\ WorkBufs' = WorkBufs
        /\ QueueBufs' = QueueBufs /\ ServiceBufs' = ServiceBufs
    BY <2>1, SamePlaces
  <2> QED BY <2>2, <2>3, <2>4, <2>5, TransferStep DEF Moved, Part, Placed, Kinds
<1>6. CASE QueueDrop(w) \/ InsertDrop(w)
  <2>1. /\ rest[w] # <<>>
        /\ UNCHANGED <<cls, work_queue, packet_queue, pkt, read, sent>>
    BY <1>6 DEF QueueDrop, InsertDrop, workVars, queueVars, nblVars, TypeInv, HasBuffer
  <2>2. /\ rest' = [rest EXCEPT ![w] = Tail(@)]
        /\ \E why \in Reasons : Lose({Head(rest[w])}, why)
    BY <1>6 DEF QueueDrop, InsertDrop, Skip, Reasons
  <2>3. Tally({Head(rest[w])}, "lost")
    BY <2>1, <2>2 DEF Tally
  <2> QED BY <1>0, <2>1, <2>2, <2>3, HeadMeetsFate
<1>7. CASE QueueFast(w)
  <2> DEFINE b == Head(rest[w])
  <2>1. /\ rest[w] # <<>> /\ rest' = [rest EXCEPT ![w] = Tail(@)]
        /\ pkt' = [pkt EXCEPT ![w] = b] /\ pc[w] = "queue"
        /\ UNCHANGED <<cls, work_queue, packet_queue, read, sent, lost>>
    BY <1>7 DEF QueueFast, workVars, queueVars, nblVars, fateVars, TypeInv, HasBuffer
  <2>2. b \in Bufs /\ b \in WorkerBufs /\ WorkerBufs' = WorkerBufs \ {b}
    BY <1>0, <2>1, RestDropsHead
  <2>3. pkt[w] = Nil
    BY <1>0, <2>1 DEF HoldsPacket
  <2> HIDE DEF b
  <2>4. ServiceBufs' = ServiceBufs \cup {b}
    BY <1>0, <2>1, <2>2, <2>3, ServiceGains
  <2>5. StackBufs' = StackBufs /\ WorkBufs' = WorkBufs /\ QueueBufs' = QueueBufs
    BY <2>1, SamePlaces
  <2>6. Tally({b}, "service")
    BY <2>1 DEF Tally
  <2> DEFINE S == {b}
  <2>7. /\ S \in SUBSET Bufs /\ S \subseteq WorkerBufs /\ Tally(S, "service")
        /\ WorkerBufs' = WorkerBufs \ S /\ ServiceBufs' = ServiceBufs \cup S
    BY <2>2, <2>4, <2>6
  <2> HIDE DEF S
  <2> QED BY <2>5, <2>7, TransferStep DEF Moved, Part, Placed, Kinds
<1>8. CASE InsertEvict(w)
  <2>1. /\ packet_queue # <<>> /\ RemoveHead /\ Lose({Head(packet_queue)}, "evicted")
        /\ UNCHANGED <<cls, work_queue, rest, pkt, read, sent>>
    BY <1>8, VictimExists DEF InsertEvict, EvictionHasVictim, workVars, nblVars,
       threadVars
  <2>2. Tally({Head(packet_queue)}, "lost")
    BY <2>1 DEF Tally, Reasons
  <2> QED BY <1>0, <2>1, <2>2, PacketMeetsFate
<1>9. CASE Insert(w)
  <2> DEFINE b == Head(rest[w])
  <2>1. /\ rest[w] # <<>> /\ rest' = [rest EXCEPT ![w] = Tail(@)]
        /\ packet_queue' = Append(packet_queue, b)
        /\ UNCHANGED <<cls, work_queue, pkt, read, sent, lost>>
    BY <1>9 DEF Insert, InsertThen, workVars, nblVars, fateVars, TypeInv, HasBuffer
  <2>2. b \in Bufs /\ b \in WorkerBufs /\ WorkerBufs' = WorkerBufs \ {b}
    BY <1>0, <2>1, RestDropsHead
  <2>3. b \notin QueueBufs
    BY <2>2, PlacesApart
  <2> HIDE DEF b
  <2>4. QueueBufs' = QueueBufs \cup {b}
    BY <1>0, <2>1, <2>2, <2>3, QueueGains
  <2>5. StackBufs' = StackBufs /\ WorkBufs' = WorkBufs /\ ServiceBufs' = ServiceBufs
    BY <2>1, SamePlaces
  <2>6. Tally({b}, "queue")
    BY <2>1 DEF Tally
  <2> DEFINE S == {b}
  <2>7. /\ S \in SUBSET Bufs /\ S \subseteq WorkerBufs /\ Tally(S, "queue")
        /\ WorkerBufs' = WorkerBufs \ S /\ QueueBufs' = QueueBufs \cup S
    BY <2>2, <2>4, <2>6
  <2> HIDE DEF S
  <2> QED BY <2>5, <2>7, TransferStep DEF Moved, Part, Placed, Kinds
<1> QED BY <1>1, <1>2, <1>3, <1>4, <1>5, <1>6, <1>7, <1>8, <1>9 DEF Worker

(***************************************************************************)
(* windivert_read_service moves packets from the queue to a thread, and    *)
(* from there to the reader.                                               *)
(***************************************************************************)
LEMMA ServiceFates ==
  ASSUME TypeInv, HeldOnce, NEW t \in Threads, Service(t)
  PROVE  FateStep
<1>0. QueuedOnce /\ HoldsPacket
  BY DEF HeldOnce
<1>1. CASE ServiceReturn(t)
  <2>1. UNCHANGED <<cls, work_queue, rest, packet_queue, pkt, read, sent, lost>>
    BY <1>1 DEF ServiceReturn, workVars, nblVars, queueVars, fateVars
  <2> QED BY <2>1, StaysStep
<1>2. CASE ServiceExpire(t)
  <2>1. /\ packet_queue # <<>> /\ RemoveHead /\ Lose({Head(packet_queue)}, "timeout")
        /\ UNCHANGED <<cls, work_queue, rest, pkt, read, sent>>
    BY <1>2 DEF ServiceExpire, workVars, nblVars, threadVars
  <2>2. Tally({Head(packet_queue)}, "lost")
    BY <2>1 DEF Tally, Reasons
  <2> QED BY <1>0, <2>1, <2>2, PacketMeetsFate
<1>3. CASE ServicePair(t)
  <2> DEFINE b == Head(packet_queue)
  <2>1. /\ packet_queue # <<>> /\ RemoveHead /\ pc[t] = "svc"
        /\ pkt' = [pkt EXCEPT ![t] = b]
        /\ UNCHANGED <<cls, work_queue, rest, read, sent, lost>>
    BY <1>3 DEF ServicePair, workVars, nblVars, fateVars
  <2>2. b \in Bufs /\ b \in QueueBufs /\ QueueBufs' = QueueBufs \ {b}
    BY <1>0, <2>1, QueueDropsHead
  <2>3. pkt[t] = Nil
    BY <1>0, <2>1 DEF HoldsPacket
  <2> HIDE DEF b
  <2>4. ServiceBufs' = ServiceBufs \cup {b}
    BY <1>0, <2>1, <2>2, <2>3, ServiceGains
  <2>5. StackBufs' = StackBufs /\ WorkBufs' = WorkBufs /\ WorkerBufs' = WorkerBufs
    BY <2>1, SamePlaces
  <2>6. Tally({b}, "service")
    BY <2>1 DEF Tally
  <2> DEFINE S == {b}
  <2>7. /\ S \in SUBSET Bufs /\ S \subseteq QueueBufs /\ Tally(S, "service")
        /\ QueueBufs' = QueueBufs \ S /\ ServiceBufs' = ServiceBufs \cup S
    BY <2>2, <2>4, <2>6
  <2> HIDE DEF S
  <2> QED BY <2>5, <2>7, TransferStep DEF Moved, Part, Placed, Kinds
<1>4. CASE Serve(t)
  <2> DEFINE S == {pkt[t]}
  <2>1. /\ pc[t] \in {"fast", "serve"} /\ pkt' = [pkt EXCEPT ![t] = Nil]
        /\ \/ read' = Count(read, S) /\ lost' = lost
           \/ read' = read /\ Lose(S, "service")
        /\ UNCHANGED <<cls, work_queue, rest, packet_queue, sent>>
    BY <1>4 DEF Serve, workVars, nblVars, queueVars
  <2>2. /\ S \in SUBSET Bufs /\ S \subseteq ServiceBufs
        /\ ServiceBufs' = ServiceBufs \ S
    BY <1>0, <2>1, ServiceDrops DEF HoldsPacket
  <2> HIDE DEF S
  <2>3. Tally(S, "read") \/ Tally(S, "lost")
    BY <2>1 DEF Tally, Reasons
  <2>4. /\ StackBufs' = StackBufs /\ WorkBufs' = WorkBufs
        /\ WorkerBufs' = WorkerBufs /\ QueueBufs' = QueueBufs
    BY <2>1, SamePlaces
  <2>5. CASE Tally(S, "read")
    BY <2>2, <2>4, <2>5, TransferStep DEF Moved, Part, Placed, Kinds
  <2>6. CASE Tally(S, "lost")
    BY <2>2, <2>4, <2>6, TransferStep DEF Moved, Part, Placed, Kinds
  <2> QED BY <2>3, <2>5, <2>6
<1> QED BY <1>1, <1>2, <1>3, <1>4 DEF Service

(***************************************************************************)
(* windivert_cleanup sends or loses what is left in the two queues.        *)
(***************************************************************************)
LEMMA CleanupFates ==
  ASSUME TypeInv, OneHolder, HeldOnce, CleanupBegin \/ Cleanup
  PROVE  FateStep
<1>0. QueuedOnce
  BY DEF HeldOnce
<1>1. CASE CleanupPacket
  <2>1. /\ packet_queue # <<>> /\ RemoveHead
        /\ UNCHANGED <<cls, work_queue, rest, pkt, read>>
    BY <1>1 DEF CleanupPacket, workVars, nblVars, threadVars
  <2>2. \/ sent' = sent /\ \E why \in Reasons : Lose({Head(packet_queue)}, why)
        \/ ~IsSniff /\ sent' = Count(sent, {Head(packet_queue)}) /\ lost' = lost
    BY <1>1 DEF CleanupPacket, AlreadySent, Reasons
  <2>3. Tally({Head(packet_queue)}, "lost") \/ Tally({Head(packet_queue)}, "sent")
    BY <2>1, <2>2 DEF Tally
  <2> QED BY <1>0, <2>1, <2>3, PacketMeetsFate
<1>2. CASE CleanupWork
  <2> DEFINE S == BufsOf(Head(work_queue))
  <2>1. /\ work_queue # <<>> /\ work_queue' = Tail(work_queue)
        /\ UNCHANGED <<cls, rest, packet_queue, pkt, read>>
    BY <1>2 DEF CleanupWork, queueVars, threadVars
  <2>2. \/ sent' = sent /\ \E why \in Reasons : Lose(S, why)
        \/ sent' = Count(sent, S) /\ lost' = lost
    BY <1>2 DEF CleanupWork, Reasons
  <2>3. S \subseteq WorkBufs /\ WorkBufs' = WorkBufs \ S /\ S \in SUBSET Bufs
    BY <2>1, WorkDropsHead, BuffersOwned
  <2> HIDE DEF S
  <2>4. Tally(S, "lost") \/ Tally(S, "sent")
    BY <2>1, <2>2 DEF Tally
  <2>5. /\ StackBufs' = StackBufs /\ WorkerBufs' = WorkerBufs
        /\ QueueBufs' = QueueBufs /\ ServiceBufs' = ServiceBufs
    BY <2>1, SamePlaces
  <2>6. CASE Tally(S, "lost")
    BY <2>3, <2>5, <2>6, TransferStep DEF Moved, Part, Placed, Kinds
  <2>7. CASE Tally(S, "sent")
    BY <2>3, <2>5, <2>7, TransferStep DEF Moved, Part, Placed, Kinds
  <2> QED BY <2>4, <2>6, <2>7
<1>3. CASE CleanupBegin \/ (Cleanup /\ ~CleanupPacket /\ ~CleanupWork)
  <2>1. UNCHANGED <<cls, work_queue, rest, packet_queue, pkt, read, sent, lost>>
    BY <1>3 DEF CleanupBegin, Cleanup, CleanupPacketsDone, CleanupPurge,
       CleanupFlush, CleanupUninstall, Close, Destroy, workVars, nblVars,
       threadVars, queueVars, fateVars
  <2> QED BY <2>1, StaysStep
<1> QED BY <1>1, <1>2, <1>3

(***************************************************************************)
(* Every step of the driver moves buffers in one of the ways of FateStep.  *)
(***************************************************************************)
LEMMA NextFateStep ==
  TypeInv /\ ListsInv /\ HeldOnce /\ Fates /\ [Next]_vars => FateStep
<1> SUFFICES ASSUME TypeInv, ListsInv, HeldOnce, Fates, [Next]_vars PROVE FateStep
  OBVIOUS
<1>0. OneHolder /\ HeldBlocked /\ BetweenWorks
  BY DEF ListsInv
<1>1. ASSUME NEW n \in NBLs, ClassifyEnter(n) \/ Classify(n) \/ InjectComplete(n)
      PROVE  FateStep
  BY <1>0, <1>1, ClassifyFates
<1>2. ASSUME NEW w \in Workers, Worker(w) PROVE FateStep
  BY <1>0, <1>2, WorkerFates
<1>3. ASSUME NEW t \in Threads, Service(t) PROVE FateStep
  BY <1>3, ServiceFates
<1>4. ASSUME NEW r \in Reqs, Read(r) \/ Cancel(r) PROVE FateStep
  <2>1. UNCHANGED <<cls, work_queue, rest, packet_queue, pkt, read, sent, lost>>
    BY <1>4 DEF Read, Cancel, workVars, nblVars, threadVars, queueVars, fateVars
  <2> QED BY <2>1, StaysStep
<1>5. CASE CleanupBegin \/ Cleanup
  BY <1>0, <1>5, CleanupFates
<1>6. CASE SetParam \/ Terminated \/ UNCHANGED vars
  <2>1. UNCHANGED <<cls, work_queue, rest, packet_queue, pkt, read, sent, lost>>
    BY <1>6 DEF SetParam, Terminated, vars, workVars, nblVars, threadVars,
       queueVars, fateVars
  <2> QED BY <2>1, StaysStep
<1> QED BY <1>1, <1>2, <1>3, <1>4, <1>5, <1>6 DEF Next

-----------------------------------------------------------------------------
(***************************************************************************)
(* The flags of a handle do not change while it is open.                   *)
(***************************************************************************)
LEMMA NextMode == [Next]_vars => mode' = mode
<1> SUFFICES ASSUME [Next]_vars PROVE mode' = mode
  OBVIOUS
<1> USE DEF paramVars
<1>1. ASSUME NEW n \in NBLs, ClassifyEnter(n) \/ Classify(n) \/ InjectComplete(n)
      PROVE  mode' = mode
  BY <1>1 DEF ClassifyEnter, Classify, ClassifyFilter, ClassifyNoMemory,
     ClassifyQueue, InjectComplete
<1>2. ASSUME NEW w \in Workers, Worker(w) PROVE mode' = mode
  BY <1>2 DEF Worker, WorkerStart, WorkerReturn, WorkerTake, WorkerSniff,
     WorkerNext, WorkerFinish, QueueRefuse, QueueDrop, QueueFast, QueueCopy,
     InsertRefuse, InsertDrop, InsertEvict, Insert, InsertThen
<1>3. ASSUME NEW t \in Threads, Service(t) PROVE mode' = mode
  BY <1>3 DEF Service, ServiceExpire, ServicePair, ServiceReturn, Serve
<1>4. ASSUME NEW r \in Reqs, Read(r) \/ Cancel(r) PROVE mode' = mode
  BY <1>4 DEF Read, Cancel
<1>5. CASE SetParam \/ CleanupBegin \/ Cleanup
  BY <1>5 DEF SetParam, CleanupBegin, Cleanup, CleanupPacket,
     CleanupPacketsDone, CleanupWork, CleanupPurge, CleanupFlush,
     CleanupUninstall, Close, Destroy
<1>6. CASE Terminated \/ UNCHANGED vars
  BY <1>6 DEF Terminated, vars
<1> QED BY <1>1, <1>2, <1>3, <1>4, <1>5, <1>6 DEF Next

(***************************************************************************)
(* The buffers a worker still has are always those of the list it has.     *)
(***************************************************************************)
LEMMA NextRestOwned == TypeInv /\ RestOwned /\ [Next]_vars => RestOwned'
<1> SUFFICES ASSUME TypeInv, RestOwned, [Next]_vars, NEW v \in Workers
             PROVE  /\ IsInjective(rest'[v])
                    /\ \A b \in Range(rest'[v]) : work'[v] \in NBLs /\ b \in BufsOf(work'[v])
  BY DEF RestOwned
<1> DEFINE Owned == /\ IsInjective(rest'[v])
                    /\ \A b \in Range(rest'[v]) : work'[v] \in NBLs /\ b \in BufsOf(work'[v])
<1>0. /\ rest \in [Workers -> Seq(Bufs)] /\ work \in [Workers -> NBLs \cup {Nil}]
      /\ IsInjective(rest[v])
      /\ \A b \in Range(rest[v]) : work[v] \in NBLs /\ b \in BufsOf(work[v])
  BY DEF TypeInv, TypeOK, ThreadsTyped, RestOwned
<1>1. rest'[v] = rest[v] /\ work'[v] = work[v] => Owned
  BY <1>0
<1>2. ASSUME NEW w \in Workers, Worker(w) PROVE Owned
  <2>1. CASE v # w
    <3>1. Moves(w)
      BY <1>2, WorkerMoves
    <3> QED BY <1>0, <1>1, <2>1, <3>1 DEF Moves
  <2>2. CASE v = w /\ WorkerTake(w)
    <3> DEFINE n == Head(work_queue)
    <3>1. n \in NBLs
      BY <2>2 DEF WorkerTake, TypeInv, TypeOK, WorkTyped
    <3>2. rest'[v] = Buffers[n] /\ work'[v] = n
      BY <1>0, <2>2 DEF WorkerTake
    <3> HIDE DEF n
    <3> QED BY <3>1, <3>2, BuffersOwned DEF BufsOf
  <2>3. CASE v = w /\ WorkerFinish(w)
    <3>1. rest'[v] = <<>>
      BY <1>0, <2>3 DEF WorkerFinish
    <3>2. DOMAIN rest'[v] = {}
      BY <3>1
    <3> QED BY <3>2 DEF Range, IsInjective
  <2>4. CASE v = w /\ ~WorkerTake(w) /\ ~WorkerFinish(w)
    <3>1. work'[v] = work[v]
      BY <1>2, <2>4 DEF Worker, WorkerStart, WorkerReturn, WorkerSniff,
         WorkerNext, QueueRefuse, QueueDrop, QueueFast, QueueCopy,
         InsertRefuse, InsertDrop, InsertEvict, Insert, InsertThen, threadVars
    <3>2. \/ rest'[v] = rest[v]
          \/ rest[v] # <<>> /\ rest'[v] = Tail(rest[v])
      BY <1>0, <1>2, <2>4 DEF Worker, WorkerStart, WorkerReturn, WorkerSniff,
         WorkerNext, QueueRefuse, QueueDrop, QueueFast, QueueCopy,
         InsertRefuse, InsertDrop, InsertEvict, Insert, InsertThen, Skip,
         threadVars, TypeInv, HasBuffer
    <3>3. rest[v] # <<>> => /\ IsInjective(Tail(rest[v]))
                            /\ Range(Tail(rest[v])) \subseteq Range(rest[v])
      BY <1>0, TailOfInjective
    <3> QED BY <1>0, <1>1, <3>1, <3>2, <3>3
  <2> QED BY <2>1, <2>2, <2>3, <2>4
<1>3. ASSUME NEW n \in NBLs, ClassifyEnter(n) \/ Classify(n) \/ InjectComplete(n)
      PROVE  Owned
  BY <1>1, <1>3 DEF ClassifyEnter, Classify, ClassifyFilter, ClassifyNoMemory,
     ClassifyQueue, InjectComplete, threadVars
<1>4. ASSUME NEW t \in Threads, Service(t) PROVE Owned
  BY <1>1, <1>4 DEF Service, ServiceExpire, ServicePair, ServiceReturn, Serve,
     threadVars
<1>5. ASSUME NEW r \in Reqs, Read(r) \/ Cancel(r) PROVE Owned
  BY <1>1, <1>5 DEF Read, Cancel, threadVars
<1>6. CASE SetParam \/ CleanupBegin \/ Cleanup
  BY <1>1, <1>6 DEF SetParam, CleanupBegin, Cleanup, CleanupPacket,
     CleanupPacketsDone, CleanupWork, CleanupPurge, CleanupFlush,
     CleanupUninstall, Close, Destroy, threadVars
<1>7. CASE Terminated \/ UNCHANGED vars
  BY <1>1, <1>7 DEF Terminated, vars, threadVars
<1> QED BY <1>2, <1>3, <1>4, <1>5, <1>6, <1>7 DEF Next

(***************************************************************************)
(* A packet enters the packet queue from the hands of a worker, so it is   *)
(* not there yet.                                                          *)
(***************************************************************************)
LEMMA NextQueuedOnce ==
  TypeInv /\ OneHolder /\ HeldOnce /\ Fates /\ [Next]_vars => QueuedOnce'
<1> SUFFICES ASSUME TypeInv, OneHolder, HeldOnce, Fates, [Next]_vars
             PROVE  QueuedOnce'
  OBVIOUS
<1>0. QueuedOnce /\ RestOwned
  BY DEF HeldOnce
<1>1. CASE UNCHANGED queueVars
  BY <1>0, <1>1 DEF queueVars, QueuedOnce
<1>2. CASE packet_queue # <<>> /\ RemoveHead
  BY <1>0, <1>2, QueueDropsHead
<1>3. ASSUME NEW w \in Workers, Insert(w) PROVE QueuedOnce'
  <2> DEFINE b == Head(rest[w])
  <2>1. /\ rest[w] # <<>> /\ rest' = [rest EXCEPT ![w] = Tail(@)]
        /\ packet_queue' = Append(packet_queue, b)
    BY <1>3 DEF Insert, InsertThen, TypeInv, HasBuffer
  <2>2. b \in Bufs /\ b \notin QueueBufs
    BY <1>0, <2>1, RestDropsHead, PlacesApart
  <2> HIDE DEF b
  <2> QED BY <1>0, <2>1, <2>2, QueueGains
<1> QED BY <1>1, <1>2, <1>3, OnlyInsertAdds DEF NoLonger

(***************************************************************************)
(* A packet a thread takes to service it is in no other thread's hands.    *)
(***************************************************************************)
LEMMA NextHoldsPacket ==
  TypeInv /\ OneHolder /\ HeldOnce /\ Fates /\ [Next]_vars => HoldsPacket'
<1> SUFFICES ASSUME TypeInv, OneHolder, HeldOnce, Fates, [Next]_vars
             PROVE  HoldsPacket'
  OBVIOUS
<1>0. /\ HoldsPacket /\ QueuedOnce /\ RestOwned
      /\ pkt \in [Threads -> Bufs \cup {Nil}] /\ Nil \notin Bufs
      /\ pc \in [Threads -> WorkerPCs \cup ReaderPCs]
      /\ Workers \subseteq Threads /\ Reqs \subseteq Threads
  BY ContextAssumption DEF TypeInv, TypeOK, ThreadsTyped, HeldOnce, Threads
<1>1. ASSUME UNCHANGED pkt,
             \A t \in Threads : pc'[t] \in {"fast", "serve"} <=> pc[t] \in {"fast", "serve"}
      PROVE  HoldsPacket'
  BY <1>0, <1>1 DEF HoldsPacket
<1>2. ASSUME NEW t \in Threads, pkt[t] = Nil, NEW b \in Bufs \ ServiceBufs,
             pkt' = [pkt EXCEPT ![t] = b],
             NEW p \in {"fast", "serve"}, pc' = [pc EXCEPT ![t] = p]
      PROVE  HoldsPacket'
  <2>1. /\ pkt'[t] = b /\ \A u \in Threads \ {t} : pkt'[u] = pkt[u] /\ pkt[u] # b
        /\ pc'[t] \in {"fast", "serve"} /\ \A u \in Threads \ {t} : pc'[u] = pc[u]
    BY <1>0, <1>2 DEF ServiceBufs
  <2> QED BY <1>0, <2>1 DEF HoldsPacket
<1>3. ASSUME NEW w \in Workers, Worker(w) PROVE HoldsPacket'
  <2>1. CASE QueueFast(w)
    <3> DEFINE b == Head(rest[w])
    <3>1. /\ rest[w] # <<>> /\ rest' = [rest EXCEPT ![w] = Tail(@)]
          /\ pkt' = [pkt EXCEPT ![w] = b] /\ pc[w] = "queue"
          /\ pc' = [pc EXCEPT ![w] = "fast"]
      BY <2>1 DEF QueueFast, TypeInv, HasBuffer, Goto
    <3>2. b \in Bufs \ ServiceBufs
      BY <1>0, <3>1, RestDropsHead, PlacesApart
    <3>3. w \in Threads /\ pkt[w] = Nil
      BY <1>0, <3>1 DEF HoldsPacket
    <3> HIDE DEF b
    <3> QED BY <1>2, <3>1, <3>2, <3>3
  <2>2. CASE ~QueueFast(w)
    <3>1. UNCHANGED pkt
      BY <1>3, <2>2 DEF Worker, WorkerStart, WorkerReturn, WorkerTake,
         WorkerSniff, WorkerNext, WorkerFinish, QueueRefuse, QueueDrop,
         QueueCopy, InsertRefuse, InsertDrop, InsertEvict, Insert, InsertThen,
         threadVars
    <3>2. pc[w] \notin {"fast", "serve"} /\ pc'[w] \notin {"fast", "serve"}
      BY <1>0, <1>3, <2>2 DEF Worker, WorkerStart, WorkerReturn, WorkerTake,
         WorkerSniff, WorkerNext, WorkerFinish, QueueRefuse, QueueDrop,
         QueueCopy, InsertRefuse, InsertDrop, InsertEvict, Evicts, Insert,
         InsertThen, Skip, Goto, threadVars
    <3>3. \A u \in Threads \ {w} : pc'[u] = pc[u]
      BY <1>0, <1>3, WorkerMoves DEF Moves
    <3> QED BY <1>1, <3>1, <3>2, <3>3
  <2> QED BY <2>1, <2>2
<1>4. ASSUME NEW t \in Threads, Service(t) PROVE HoldsPacket'
  <2>1. CASE ServicePair(t)
    <3> DEFINE b == Head(packet_queue)
    <3>1. /\ packet_queue # <<>> /\ RemoveHead /\ pc[t] = "svc"
          /\ pkt' = [pkt EXCEPT ![t] = b] /\ pc' = [pc EXCEPT ![t] = "serve"]
      BY <2>1 DEF ServicePair, Goto
    <3>2. b \in Bufs \ ServiceBufs
      BY <1>0, <3>1, QueueDropsHead, PlacesApart
    <3>3. pkt[t] = Nil
      BY <1>0, <3>1 DEF HoldsPacket
    <3> HIDE DEF b
    <3> QED BY <1>2, <3>1, <3>2, <3>3
  <2>2. CASE Serve(t)
    <3>1. /\ pkt'[t] = Nil /\ \A u \in Threads \ {t} : pkt'[u] = pkt[u]
          /\ pc'[t] \in {"next", "svc"} /\ \A u \in Threads \ {t} : pc'[u] = pc[u]
      BY <1>0, <2>2 DEF Serve, Goto
    <3> QED BY <1>0, <3>1 DEF HoldsPacket
  <2>3. CASE ServiceExpire(t) \/ ServiceReturn(t)
    <3>1. UNCHANGED pkt /\ \A u \in Threads : pc'[u] # pc[u] =>
                              pc[u] = "svc" /\ pc'[u] \in {"next", "done"}
      BY <1>0, <2>3 DEF ServiceExpire, ServiceReturn, Goto, Caller, threadVars
    <3> QED BY <1>1, <3>1
  <2> QED BY <1>4, <2>1, <2>2, <2>3 DEF Service
<1>5. ASSUME NEW r \in Reqs, Read(r) \/ Cancel(r) PROVE HoldsPacket'
  <2>1. UNCHANGED pkt /\ \A u \in Threads : pc'[u] # pc[u] =>
                            pc[u] = "idle" /\ pc'[u] \in {"svc", "done"}
    BY <1>0, <1>5 DEF Read, Cancel, Goto, threadVars
  <2> QED BY <1>1, <2>1
<1>6. ASSUME NEW n \in NBLs, ClassifyEnter(n) \/ Classify(n) \/ InjectComplete(n)
      PROVE  HoldsPacket'
  BY <1>1, <1>6 DEF ClassifyEnter, Classify, ClassifyFilter, ClassifyNoMemory,
     ClassifyQueue, InjectComplete, threadVars
<1>7. CASE SetParam \/ CleanupBegin \/ Cleanup
  BY <1>1, <1>7 DEF SetParam, CleanupBegin, Cleanup, CleanupPacket,
     CleanupPacketsDone, CleanupWork, CleanupPurge, CleanupFlush,
     CleanupUninstall, Close, Destroy, threadVars
<1>8. CASE Terminated \/ UNCHANGED vars
  BY <1>1, <1>8 DEF Terminated, vars, threadVars
<1> QED BY <1>3, <1>4, <1>5, <1>6, <1>7, <1>8 DEF Next

(***************************************************************************)
(* Only in SNIFF mode does a worker put the list back first; it has not    *)
(* visited any of its buffers yet.                                         *)
(***************************************************************************)
LEMMA NextSniffFirst == TypeInv /\ SniffFirst /\ [Next]_vars => SniffFirst'
<1> SUFFICES ASSUME TypeInv, SniffFirst, [Next]_vars, NEW v \in Workers,
                    pc'[v] = "sniff"
             PROVE  IsSniff /\ rest'[v] = Buffers[work'[v]]
  BY NextMode DEF SniffFirst, IsSniff
<1>0. /\ pc \in [Threads -> WorkerPCs \cup ReaderPCs] /\ v \in Threads
      /\ work \in [Workers -> NBLs \cup {Nil}] /\ rest \in [Workers -> Seq(Bufs)]
      /\ Workers \subseteq Threads /\ Reqs \subseteq Threads /\ Reqs \cap Workers = {}
  BY ContextAssumption DEF TypeInv, TypeOK, ThreadsTyped, Threads
<1> DEFINE Same == pc'[v] = pc[v] /\ work'[v] = work[v] /\ rest'[v] = rest[v]
           Whole == IsSniff /\ rest'[v] = Buffers[work'[v]]
<1>1. Same => Whole
  BY DEF SniffFirst
<1>2. ASSUME NEW w \in Workers, Worker(w) PROVE Same \/ Whole
  <2>1. CASE v # w
    BY <1>0, <1>2, <2>1, WorkerMoves DEF Moves
  <2>2. CASE v = w /\ WorkerTake(w)
    BY <1>0, <2>2 DEF WorkerTake, Goto
  <2>3. CASE v = w /\ InsertEvict(w)
    BY <2>3 DEF InsertEvict, threadVars
  <2>4. CASE v = w /\ ~WorkerTake(w) /\ ~InsertEvict(w)
    <3>1. pc'[w] # "sniff" \/ (WorkerNext(w) /\ pc' = pc)
      BY <1>0, <1>2, <2>4 DEF Worker, WorkerStart, WorkerReturn, WorkerSniff,
         WorkerNext, WorkerFinish, QueueRefuse, QueueDrop, QueueFast, QueueCopy,
         InsertRefuse, InsertDrop, Insert, InsertThen, Skip, Goto
    <3>2. WorkerNext(w) => pc[w] = "next"
      BY DEF WorkerNext
    <3> QED BY <2>4, <3>1, <3>2
  <2> QED BY <2>1, <2>2, <2>3, <2>4
<1>3. ASSUME NEW t \in Threads, Service(t) PROVE Same
  BY <1>0, <1>3 DEF Service, ServiceExpire, ServicePair, ServiceReturn, Serve,
     Goto, Caller, threadVars
<1>4. ASSUME NEW r \in Reqs, Read(r) \/ Cancel(r) PROVE Same
  BY <1>0, <1>4 DEF Read, Cancel, Goto, threadVars
<1>5. ASSUME NEW n \in NBLs, ClassifyEnter(n) \/ Classify(n) \/ InjectComplete(n)
      PROVE  Same
  BY <1>5 DEF ClassifyEnter, Classify, ClassifyFilter, ClassifyNoMemory,
     ClassifyQueue, InjectComplete, threadVars
<1>6. CASE SetParam \/ CleanupBegin \/ Cleanup
  <2>1. Same
    BY <1>6 DEF SetParam, CleanupBegin, Cleanup, CleanupPacket,
       CleanupPacketsDone, CleanupWork, CleanupPurge, CleanupFlush,
       CleanupUninstall, Close, Destroy, threadVars
  <2> QED BY <1>1, <2>1
<1>7. CASE Terminated \/ UNCHANGED vars
  <2>1. Same
    BY <1>7 DEF Terminated, vars, threadVars
  <2> QED BY <1>1, <2>1
<1> QED BY <1>1, <1>2, <1>3, <1>4, <1>5, <1>6, <1>7 DEF Next

-----------------------------------------------------------------------------
(***************************************************************************)
(* Nothing comes back to the stack, and only what was on the stack enters  *)
(* the work queue.                                                         *)
(***************************************************************************)
LEMMA ListStepBufs ==
  ASSUME TypeInv, OneHolder, HeldBlocked, ListStep
  PROVE  StackBufs' \cup WorkBufs' \subseteq StackBufs \cup WorkBufs
<1>0. /\ cls \in [NBLs -> {"new", "entered", "matched", "continued", "blocked"}]
      /\ work_queue \in Seq(NBLs) /\ IsInjective(work_queue)
  BY DEF TypeInv, TypeOK, ListsTyped, WorkTyped, OneHolder
<1>1. (\A n \in NBLs : cls[n] = "blocked" => cls'[n] = "blocked")
        => StackBufs' \subseteq StackBufs
  BY DEF StackBufs
<1>2. work_queue' = work_queue => WorkBufs' = WorkBufs
  BY SamePlaces
<1>3. work_queue # <<>> /\ work_queue' = Tail(work_queue) => WorkBufs' \subseteq WorkBufs
  BY WorkDropsHead
<1>4. CASE NothingHappens
  BY <1>1, <1>2, <1>4 DEF NothingHappens, SameHolders
<1>5. ASSUME NEW n \in NBLs, CopyInjected(n) \/ CopyCompleted(n)
      PROVE  StackBufs' \cup WorkBufs' \subseteq StackBufs \cup WorkBufs
  BY <1>1, <1>2, <1>5 DEF CopyInjected, CopyCompleted, SameHolders
<1>6. ASSUME NEW w \in Workers, ListTaken(w) \/ ListReleased(w)
      PROVE  StackBufs' \cup WorkBufs' \subseteq StackBufs \cup WorkBufs
  BY <1>1, <1>2, <1>3, <1>6 DEF ListTaken, ListReleased
<1>7. CASE ListDrained
  BY <1>1, <1>3, <1>7 DEF ListDrained
<1>8. ASSUME NEW n \in NBLs, ListQueued(n)
      PROVE  StackBufs' \cup WorkBufs' \subseteq StackBufs \cup WorkBufs
  <2>1. cls[n] # "blocked" /\ cls' = [cls EXCEPT ![n] = "blocked"]
    BY <1>8 DEF ListQueued
  <2>2. BufsOf(n) \subseteq StackBufs /\ StackBufs' \subseteq StackBufs
    BY <2>1, StackDrops
  <2>3. n \notin Range(work_queue)
    BY <2>1 DEF HeldBlocked
  <2>4. Range(work_queue)' \subseteq Range(work_queue) \cup {n}
    <3>1. CASE work_queue' = Append(work_queue, n)
      BY <1>0, <2>3, <3>1, AppendToInjective
    <3>2. CASE work_queue # <<>> /\ work_queue' = Append(Tail(work_queue), n)
      <4> DEFINE t == Tail(work_queue)
      <4>1. /\ t \in Seq(NBLs) /\ IsInjective(t)
            /\ Range(t) \subseteq Range(work_queue) /\ work_queue' = Append(t, n)
        BY <1>0, <3>2, TailOfInjective
      <4> HIDE DEF t
      <4>2. Range(Append(t, n)) = Range(t) \cup {n}
        BY <2>3, <4>1, AppendToInjective
      <4> QED BY <4>1, <4>2
    <3> QED BY <1>8, <3>1, <3>2 DEF ListQueued
  <2>5. WorkBufs' \subseteq WorkBufs \cup BufsOf(n)
    BY <2>4 DEF WorkBufs
  <2> QED BY <2>2, <2>5
<1> QED BY <1>4, <1>5, <1>6, <1>7, <1>8 DEF ListStep

(***************************************************************************)
(* The only steps that send in SNIFF mode are WorkerSniff, for the list    *)
(* the worker has just taken, and CleanupWork, for a list no worker took.  *)
(***************************************************************************)
LEMMA OtherStepsDoNotSniff ==
  ASSUME TypeInv, BetweenWorks, IsSniff, [Next]_vars,
         \A w \in Workers : ~WorkerTake(w) /\ ~WorkerSniff(w), ~CleanupWork
  PROVE  SniffingBufs' \subseteq SniffingBufs /\ sent' = sent
<1> DEFINE Keeps == /\ sent' = sent
                    /\ \A v \in Workers : pc'[v] = "sniff" =>
                                            pc[v] = "sniff" /\ work'[v] = work[v]
<1> SUFFICES Keeps
  BY DEF SniffingBufs
<1>0. /\ pc \in [Threads -> WorkerPCs \cup ReaderPCs]
      /\ work \in [Workers -> NBLs \cup {Nil}]
      /\ Workers \subseteq Threads /\ Reqs \subseteq Threads
  BY DEF TypeInv, TypeOK, ThreadsTyped, Threads
<1>1. pc' = pc /\ work' = work /\ sent' = sent => Keeps
  OBVIOUS
<1>2. ASSUME NEW w \in Workers, Worker(w) PROVE Keeps
  <2>1. sent' = sent
    BY <1>2 DEF IsSniff, Worker, WorkerStart, WorkerReturn, WorkerNext,
       WorkerFinish, QueueRefuse, QueueDrop, QueueFast, QueueCopy,
       InsertRefuse, InsertDrop, InsertEvict, Insert, InsertThen, fateVars
  <2>2. pc'[w] # "sniff" \/ pc' = pc
    BY <1>0, <1>2 DEF Worker, WorkerStart, WorkerReturn, WorkerNext,
       WorkerFinish, QueueRefuse, QueueDrop, QueueFast, QueueCopy,
       InsertRefuse, InsertDrop, InsertEvict, Insert, InsertThen, Skip, Goto,
       threadVars
  <2>3. \A v \in Workers \ {w} : pc'[v] = pc[v] /\ work'[v] = work[v]
    BY <1>0, <1>2, WorkerMoves DEF Moves
  <2>4. pc'[w] = "sniff" => work'[w] = work[w]
    BY <1>0, <1>2 DEF Worker, WorkerStart, WorkerReturn, WorkerNext,
       WorkerFinish, QueueRefuse, QueueDrop, QueueFast, QueueCopy,
       InsertRefuse, InsertDrop, InsertEvict, Insert, InsertThen, Goto,
       threadVars
  <2> QED BY <2>1, <2>2, <2>3, <2>4
<1>3. ASSUME NEW t \in Threads, Service(t) PROVE Keeps
  <2>1. sent' = sent /\ work' = work
    BY <1>3 DEF Service, ServiceExpire, ServicePair, ServiceReturn, Serve,
       fateVars, threadVars
  <2>2. \A v \in Workers : pc'[v] = pc[v] \/ pc'[v] # "sniff"
    BY <1>0, <1>3 DEF Service, ServiceExpire, ServicePair, ServiceReturn, Serve,
       Goto, Caller, threadVars
  <2> QED BY <2>1, <2>2
<1>4. ASSUME NEW r \in Reqs, Read(r) \/ Cancel(r) PROVE Keeps
  <2>1. sent' = sent /\ work' = work
    BY <1>4 DEF Read, Cancel, fateVars, threadVars
  <2>2. \A v \in Workers : pc'[v] = pc[v] \/ pc'[v] # "sniff"
    BY <1>0, <1>4 DEF Read, Cancel, Goto, threadVars
  <2> QED BY <2>1, <2>2
<1>5. ASSUME NEW n \in NBLs, ClassifyEnter(n) \/ Classify(n) \/ InjectComplete(n)
      PROVE  Keeps
  BY <1>1, <1>5 DEF ClassifyEnter, Classify, ClassifyFilter, ClassifyNoMemory,
     ClassifyQueue, InjectComplete, threadVars, fateVars
<1>6. CASE SetParam \/ CleanupBegin \/ Cleanup
  BY <1>1, <1>6 DEF SetParam, CleanupBegin, Cleanup, CleanupPacket, AlreadySent,
     CleanupPacketsDone, CleanupPurge, CleanupFlush, CleanupUninstall, Close,
     Destroy, threadVars, fateVars
<1>7. CASE Terminated \/ UNCHANGED vars
  BY <1>1, <1>7 DEF Terminated, vars, threadVars, fateVars
<1> HIDE DEF Keeps
<1> QED BY <1>2, <1>3, <1>4, <1>5, <1>6, <1>7 DEF Next

(***************************************************************************)
(* A step that sends only buffers not sent before, and no longer counts    *)
(* them as unsent, keeps SniffSent.                                        *)
(***************************************************************************)
LEMMA SendingOnce ==
  ASSUME TypeInv, SniffSent, mode' = mode, NEW S, S \subseteq Unsent,
         sent' = sent \/ sent' = Count(sent, S), Unsent' \subseteq Unsent \ S
  PROVE  SniffSent'
<1>1. SUFFICES ASSUME IsSniff
               PROVE  /\ \A b \in Bufs : sent'[b] <= 1
                      /\ \A b \in Unsent' : sent'[b] = 0
  BY DEF SniffSent, IsSniff
<1>2. sent \in [Bufs -> Nat] /\ Unsent' \subseteq Bufs
  BY DEF TypeInv, TypeOK, FatesTyped, Unsent, StackBufs, WorkBufs, SniffingBufs
<1>3. (\A b \in Bufs : sent[b] <= 1) /\ (\A b \in Unsent : sent[b] = 0)
  BY <1>1 DEF SniffSent
<1>4. CASE sent' = sent
  BY <1>3, <1>4
<1>5. CASE sent' = Count(sent, S)
  <2>1. \A b \in Bufs : sent'[b] = IF b \in S THEN sent[b] + 1 ELSE sent[b]
    BY <1>5 DEF Count
  <2>2. \A b \in Bufs : b \in S => sent'[b] = 1
    BY <1>2, <1>3, <2>1
  <2>3. \A b \in Bufs : b \notin S => sent'[b] = sent[b]
    BY <2>1
  <2>4. \A b \in Unsent' : b \in Bufs /\ b \notin S /\ b \in Unsent
    BY <1>2
  <2>5. \A b \in Bufs : sent'[b] <= 1
    BY <1>3, <2>2, <2>3
  <2> QED BY <1>3, <2>3, <2>4, <2>5
<1> QED BY <1>4, <1>5

(***************************************************************************)
(* The buffers of a list that a worker has, or that waits as work, are not *)
(* on the stack; and no other worker is putting them back.                 *)
(***************************************************************************)
LEMMA HeldBuffers ==
  ASSUME TypeInv, HeldBlocked, OneHolder, NEW n \in NBLs
  PROVE  /\ cls[n] = "blocked" => StackBufs \cap BufsOf(n) = {}
         /\ n \notin Range(work_queue) => WorkBufs \cap BufsOf(n) = {}
         /\ \A b \in SniffingBufs \cap BufsOf(n) :
              \E w \in Workers : pc[w] = "sniff" /\ work[w] = n
<1>1. cls[n] = "blocked" => StackBufs \cap BufsOf(n) = {}
  BY DEF StackBufs
<1>2. Range(work_queue) \subseteq NBLs
  BY DEF TypeInv, TypeOK, WorkTyped, Range
<1>3. n \notin Range(work_queue) => WorkBufs \cap BufsOf(n) = {}
  BY <1>2, BuffersOwned DEF WorkBufs
<1>4. \A w \in Workers : pc[w] = "sniff" => work[w] \in NBLs
  BY DEF TypeInv, HasList
<1>5. ASSUME NEW b \in SniffingBufs, b \in BufsOf(n)
      PROVE  \E w \in Workers : pc[w] = "sniff" /\ work[w] = n
  BY <1>4, <1>5, BuffersOwned DEF SniffingBufs
<1> QED BY <1>1, <1>3, <1>5

(***************************************************************************)
(* In SNIFF mode no packet is put back on the network twice.               *)
(***************************************************************************)
LEMMA NextSniffSent ==
  TypeInv /\ ListsInv /\ SniffSent /\ [Next]_vars => SniffSent'
<1> SUFFICES ASSUME TypeInv, ListsInv, SniffSent, [Next]_vars PROVE SniffSent'
  OBVIOUS
<1>0. OneHolder /\ HeldBlocked /\ BetweenWorks /\ mode' = mode
  BY NextMode DEF ListsInv
<1>1. StackBufs' \cup WorkBufs' \subseteq StackBufs \cup WorkBufs
  BY <1>0, NextListStep, ListStepBufs
<1>2. /\ pc \in [Threads -> WorkerPCs \cup ReaderPCs] /\ Workers \subseteq Threads
      /\ work \in [Workers -> NBLs \cup {Nil}]
      /\ \A w \in Workers : pc[w] = "sniff" => work[w] \in NBLs
  BY DEF TypeInv, TypeOK, ThreadsTyped, Threads, HasList
<1>3. ASSUME NEW w \in Workers, WorkerTake(w) PROVE SniffSent'
  <2> DEFINE n == Head(work_queue)
  <2>1. BufsOf(n) \subseteq WorkBufs
    BY <1>0, <1>3, WorkDropsHead DEF WorkerTake
  <2>2. /\ work'[w] = n
        /\ \A v \in Workers \ {w} : pc'[v] = pc[v] /\ work'[v] = work[v]
    BY <1>2, <1>3 DEF WorkerTake, Goto
  <2> HIDE DEF n
  <2>3. SniffingBufs' \subseteq SniffingBufs \cup BufsOf(n)
    BY <2>2 DEF SniffingBufs
  <2>4. sent' = sent
    BY <1>3 DEF WorkerTake, fateVars
  <2>5. Unsent' \subseteq Unsent \ {}
    BY <1>1, <2>1, <2>3 DEF Unsent
  <2> QED BY <1>0, <2>4, <2>5, SendingOnce
<1>4. ASSUME NEW w \in Workers, WorkerSniff(w) PROVE SniffSent'
  <2> DEFINE n == work[w]
  <2>1. pc[w] = "sniff" /\ n \in NBLs /\ n # Nil
    BY <1>2, <1>4, ContextAssumption DEF WorkerSniff
  <2>2. /\ pc'[w] # "sniff" /\ \A v \in Workers \ {w} : pc'[v] = pc[v]
        /\ work' = work /\ work_queue' = work_queue /\ cls' = cls
    BY <1>2, <1>4 DEF WorkerSniff, Goto, workVars
  <2>3. sent' = sent \/ sent' = Count(sent, BufsOf(n))
    BY <1>4 DEF WorkerSniff, Put, PutSucceeds, PutIsRefused, fateVars
  <2>4. n \notin Range(work_queue) /\ cls[n] = "blocked"
    BY <1>0, <2>1 DEF OneHolder, HeldBlocked
  <2>5. BufsOf(n) \subseteq SniffingBufs
    BY <2>1, BuffersOwned DEF SniffingBufs
  <2>6. StackBufs \cap BufsOf(n) = {} /\ WorkBufs \cap BufsOf(n) = {}
    BY <1>0, <2>1, <2>4, HeldBuffers
  <2>7. ASSUME NEW b \in SniffingBufs' PROVE b \in SniffingBufs /\ b \notin BufsOf(n)
    <3>1. PICK v \in Workers : pc'[v] = "sniff" /\ b \in BufsOf(work'[v])
      BY DEF SniffingBufs
    <3>2. v # w /\ pc[v] = "sniff" /\ b \in BufsOf(work[v]) /\ work[v] \in NBLs
      BY <1>2, <2>2, <3>1
    <3>3. work[v] # n
      BY <1>0, <2>1, <3>2 DEF OneHolder
    <3>4. b \in Bufs /\ b \notin BufsOf(n)
      BY <2>1, <3>2, <3>3, BuffersOwned
    <3> QED BY <3>2, <3>4 DEF SniffingBufs
  <2> HIDE DEF n
  <2>8. StackBufs' = StackBufs /\ WorkBufs' = WorkBufs
    BY <2>2, SamePlaces
  <2>9. BufsOf(n) \subseteq Unsent /\ Unsent' \subseteq Unsent \ BufsOf(n)
    BY <2>5, <2>6, <2>7, <2>8 DEF Unsent
  <2> QED BY <1>0, <2>3, <2>9, SendingOnce
<1>5. CASE CleanupWork
  <2> DEFINE n == Head(work_queue)
  <2>1. n \in NBLs /\ BufsOf(n) \subseteq WorkBufs /\ WorkBufs' = WorkBufs \ BufsOf(n)
    BY <1>0, <1>5, WorkDropsHead DEF CleanupWork
  <2>2. n \in Range(work_queue)
    <3>1. work_queue \in Seq(NBLs) /\ work_queue # <<>> /\ IsInjective(work_queue)
      BY <1>0, <1>5 DEF CleanupWork, TypeInv, TypeOK, WorkTyped, OneHolder
    <3> QED BY <3>1, TailOfInjective
  <2>3. sent' = sent \/ sent' = Count(sent, BufsOf(n))
    BY <1>5 DEF CleanupWork
  <2>4. pc' = pc /\ work' = work /\ cls' = cls
    BY <1>5 DEF CleanupWork, threadVars
  <2> HIDE DEF n
  <2>5. StackBufs' = StackBufs /\ SniffingBufs' = SniffingBufs
    BY <2>4, SamePlaces DEF SniffingBufs
  <2>6. StackBufs \cap BufsOf(n) = {} /\ SniffingBufs \cap BufsOf(n) = {}
    BY <1>0, <2>1, <2>2, HeldBuffers DEF OneHolder, HeldBlocked
  <2>7. BufsOf(n) \subseteq Unsent /\ Unsent' \subseteq Unsent \ BufsOf(n)
    BY <2>1, <2>5, <2>6 DEF Unsent
  <2> QED BY <1>0, <2>3, <2>7, SendingOnce
<1>6. CASE (\A w \in Workers : ~WorkerTake(w) /\ ~WorkerSniff(w)) /\ ~CleanupWork
  <2>1. CASE IsSniff
    <3>1. SniffingBufs' \subseteq SniffingBufs /\ sent' = sent
      BY <1>0, <1>6, <2>1, OtherStepsDoNotSniff
    <3>2. Unsent' \subseteq Unsent \ {}
      BY <1>1, <3>1 DEF Unsent
    <3> QED BY <1>0, <3>1, <3>2, SendingOnce
  <2>2. CASE ~IsSniff
    BY <1>0, <2>2 DEF SniffSent, IsSniff
  <2> QED BY <2>1, <2>2
<1> QED BY <1>3, <1>4, <1>5, <1>6

-----------------------------------------------------------------------------
(***************************************************************************)
(* When the handle has just been opened every buffer is on the stack.      *)
(***************************************************************************)
LEMMA InitFateInv == Init => FateInv
<1> SUFFICES ASSUME Init PROVE FateInv
  OBVIOUS
<1>0. DOMAIN <<>> = {}
  OBVIOUS
<1>1. /\ \A w \in Workers : rest[w] = <<>> /\ pc[w] = "idle"
      /\ \A t \in Threads : pkt[t] = Nil /\ pc[t] = "idle"
      /\ packet_queue = <<>> /\ work_queue = <<>>
      /\ \A n \in NBLs : cls[n] = "new"
      /\ \A b \in Bufs : read[b] = 0 /\ sent[b] = 0 /\ lost[b] = {} /\ b # Nil
  BY ContextAssumption DEF Init, Threads
<1>2. Range(<<>>) = {} /\ IsInjective(<<>>)
  BY <1>0 DEF Range, IsInjective
<1>3. HeldOnce
  BY <1>1, <1>2 DEF HeldOnce, RestOwned, QueuedOnce, HoldsPacket, SniffFirst
<1>4. /\ StackBufs = Bufs /\ WorkBufs = {} /\ WorkerBufs = {} /\ QueueBufs = {}
      /\ ServiceBufs = {} /\ ReadBufs = {} /\ SentBufs = {} /\ LostBufs = {}
  BY <1>1, <1>2 DEF StackBufs, WorkBufs, WorkerBufs, QueueBufs, ServiceBufs,
     ReadBufs, SentBufs, LostBufs
<1>5. Part.stack = Bufs /\ \A k \in Kinds \ {"stack"} : Part[k] = {}
  BY <1>4 DEF Part, Kinds
<1>6. "stack" \in Kinds /\ Tracked \subseteq Kinds
  BY DEF Kinds, Tracked
<1>7. Apart(Part, Tracked)
  BY <1>5, <1>6 DEF Apart
<1>8. Covers(Part, Kinds)
  BY <1>5, <1>6 DEF Covers
<1>9. Fates /\ SniffSent
  BY <1>1, <1>7, <1>8 DEF Fates, Once, SniffSent, Unsent, StackBufs, WorkBufs,
     SniffingBufs
<1> QED BY <1>3, <1>9 DEF FateInv

(***************************************************************************)
(* The places a buffer can be in stay apart, each holds a packet once, and *)
(* no packet is sent twice.                                                *)
(***************************************************************************)
THEOREM FateInvariance == Spec => []FateInv
<1>1. Init => FateInv
  BY InitFateInv
<1>2. TypeInv /\ ListsInv /\ FateInv /\ [Next]_vars => FateInv'
  <2> SUFFICES ASSUME TypeInv, ListsInv, HeldOnce, Fates, SniffSent, [Next]_vars
               PROVE  FateInv'
    BY DEF FateInv
  <2>1. HeldOnce'
    <3>1. RestOwned /\ SniffFirst /\ OneHolder
      BY DEF HeldOnce, ListsInv
    <3>2. RestOwned'
      BY <3>1, NextRestOwned
    <3>3. QueuedOnce'
      BY <3>1, NextQueuedOnce
    <3>4. HoldsPacket'
      BY <3>1, NextHoldsPacket
    <3>5. SniffFirst'
      BY <3>1, NextSniffFirst
    <3> QED BY <3>2, <3>3, <3>4, <3>5 DEF HeldOnce
  <2>2. Fates'
    BY NextFateStep, NextMode, FateStepFates
  <2>3. SniffSent'
    BY NextSniffSent
  <2> QED BY <2>1, <2>2, <2>3 DEF FateInv
<1> QED BY <1>1, <1>2, TypeInvariance, ListsInvariance, PTL DEF Spec

(***************************************************************************)
(* A buffer of a blocked list that is in one of the places is at one point *)
(* of it: one index of the queue, one worker, one thread, one reason.      *)
(***************************************************************************)
LEMMA PointOfPlace ==
  ASSUME TypeInv, OneHolder, FateInv, ~IsSniff,
         NEW n \in NBLs, NEW b \in BufsOf(n)
  PROVE  LET works == {"work" : i \in {j \in DOMAIN work_queue : work_queue[j] = n}}
             workers == {<<"worker", w>> : w \in {v \in Workers : b \in Range(rest[v])}}
             queued == {<<"queue", i>> : i \in {j \in DOMAIN packet_queue :
                                                   packet_queue[j] = b}}
             served == {<<"service", t>> : t \in {u \in Threads : pkt[u] = b}}
             reads == {<<"read", i>> : i \in 1..read[b]}
             sends == {<<"sent", i>> : i \in 1..sent[b]}
             losses == {<<"lost", why>> : why \in lost[b]}
         IN  /\ IF b \in WorkBufs THEN \E p : works = {p} ELSE works = {}
             /\ IF b \in WorkerBufs THEN \E p : workers = {p} ELSE workers = {}
             /\ IF b \in QueueBufs THEN \E p : queued = {p} ELSE queued = {}
             /\ IF b \in ServiceBufs THEN \E p : served = {p} ELSE served = {}
             /\ IF b \in ReadBufs THEN \E p : reads = {p} ELSE reads = {}
             /\ IF b \in SentBufs THEN \E p : sends = {p} ELSE sends = {}
             /\ IF b \in LostBufs THEN \E p : losses = {p} ELSE losses = {}
<1>0. /\ b \in Bufs /\ b # Nil
      /\ RestOwned /\ QueuedOnce /\ HoldsPacket /\ Once
      /\ read \in [Bufs -> Nat] /\ sent \in [Bufs -> Nat]
      /\ work_queue \in Seq(NBLs) /\ packet_queue \in Seq(Bufs)
  BY BuffersOwned, ContextAssumption DEF FateInv, HeldOnce, Fates, TypeInv, TypeOK,
     FatesTyped, WorkTyped, QueueTyped
<1>1. LET works == {"work" : i \in {j \in DOMAIN work_queue : work_queue[j] = n}}
      IN  IF b \in WorkBufs THEN \E p : works = {p} ELSE works = {}
  <2>1. Range(work_queue) \subseteq NBLs
    BY <1>0 DEF Range
  <2>2. b \in WorkBufs <=> n \in Range(work_queue)
    BY <1>0, <2>1, BuffersOwned DEF WorkBufs
  <2>3. n \in Range(work_queue) <=> \E j \in DOMAIN work_queue : work_queue[j] = n
    BY DEF Range
  <2> QED BY <2>2, <2>3
<1>2. LET workers == {<<"worker", w>> : w \in {v \in Workers : b \in Range(rest[v])}}
      IN  IF b \in WorkerBufs THEN \E p : workers = {p} ELSE workers = {}
  <2>1. CASE b \in WorkerBufs
    <3>1. PICK w \in Workers : b \in Range(rest[w])
      BY <2>1 DEF WorkerBufs
    <3>2. {v \in Workers : b \in Range(rest[v])} = {w}
      BY <1>0, <3>1, RestApart
    <3>3. {<<"worker", u>> : u \in {v \in Workers : b \in Range(rest[v])}}
             = {<<"worker", w>>}
      BY <3>2
    <3> QED BY <2>1, <3>3
  <2>2. CASE b \notin WorkerBufs
    BY <1>0, <2>2 DEF WorkerBufs
  <2> QED BY <2>1, <2>2
<1>3. LET queued == {<<"queue", i>> : i \in {j \in DOMAIN packet_queue :
                                                packet_queue[j] = b}}
      IN  IF b \in QueueBufs THEN \E p : queued = {p} ELSE queued = {}
  <2>1. CASE b \in QueueBufs
    <3>1. PICK i \in DOMAIN packet_queue : packet_queue[i] = b
      BY <2>1 DEF QueueBufs, Range
    <3>2. {j \in DOMAIN packet_queue : packet_queue[j] = b} = {i}
      BY <1>0, <3>1 DEF QueuedOnce, IsInjective
    <3>3. {<<"queue", l>> : l \in {j \in DOMAIN packet_queue : packet_queue[j] = b}}
             = {<<"queue", i>>}
      BY <3>2
    <3> QED BY <2>1, <3>3
  <2>2. CASE b \notin QueueBufs
    BY <2>2 DEF QueueBufs, Range
  <2> QED BY <2>1, <2>2
<1>4. LET served == {<<"service", t>> : t \in {u \in Threads : pkt[u] = b}}
      IN  IF b \in ServiceBufs THEN \E p : served = {p} ELSE served = {}
  <2>1. CASE b \in ServiceBufs
    <3>1. PICK t \in Threads : pkt[t] = b
      BY <2>1 DEF ServiceBufs
    <3>2. {u \in Threads : pkt[u] = b} = {t}
      BY <1>0, <3>1 DEF HoldsPacket
    <3>3. {<<"service", v>> : v \in {u \in Threads : pkt[u] = b}} = {<<"service", t>>}
      BY <3>2
    <3> QED BY <2>1, <3>3
  <2>2. CASE b \notin ServiceBufs
    BY <1>0, <2>2 DEF ServiceBufs
  <2> QED BY <2>1, <2>2
<1>5. ASSUME NEW i \in Nat, i <= 1
      PROVE  IF i # 0 THEN 1..i = {1} ELSE 1..i = {}
  BY <1>5
<1>6. LET reads == {<<"read", i>> : i \in 1..read[b]}
      IN  IF b \in ReadBufs THEN \E p : reads = {p} ELSE reads = {}
  <2>1. IF b \in ReadBufs THEN 1..read[b] = {1} ELSE 1..read[b] = {}
    BY <1>0, <1>5 DEF ReadBufs, Once
  <2>2. b \in ReadBufs => {<<"read", i>> : i \in 1..read[b]} = {<<"read", 1>>}
    BY <2>1
  <2>3. b \notin ReadBufs => {<<"read", i>> : i \in 1..read[b]} = {}
    BY <2>1
  <2> QED BY <2>2, <2>3
<1>7. LET sends == {<<"sent", i>> : i \in 1..sent[b]}
      IN  IF b \in SentBufs THEN \E p : sends = {p} ELSE sends = {}
  <2>1. IF b \in SentBufs THEN 1..sent[b] = {1} ELSE 1..sent[b] = {}
    BY <1>0, <1>5 DEF SentBufs, Once
  <2>2. b \in SentBufs => {<<"sent", i>> : i \in 1..sent[b]} = {<<"sent", 1>>}
    BY <2>1
  <2>3. b \notin SentBufs => {<<"sent", i>> : i \in 1..sent[b]} = {}
    BY <2>1
  <2> QED BY <2>2, <2>3
<1>8. LET losses == {<<"lost", why>> : why \in lost[b]}
      IN  IF b \in LostBufs THEN \E p : losses = {p} ELSE losses = {}
  <2>1. CASE b \in LostBufs
    <3>1. PICK why : why \in lost[b]
      BY <2>1 DEF LostBufs
    <3>2. lost[b] = {why}
      BY <1>0, <3>1 DEF Once
    <3>3. {<<"lost", x>> : x \in lost[b]} = {<<"lost", why>>}
      BY <3>2
    <3> QED BY <2>1, <3>3
  <2>2. CASE b \notin LostBufs
    BY <1>0, <2>2 DEF LostBufs
  <2> QED BY <2>1, <2>2
<1> QED BY <1>1, <1>2, <1>3, <1>4, <1>6, <1>7, <1>8

(***************************************************************************)
(* Every buffer of a blocked list has one fate, for any number of lists,   *)
(* threads and requests, whatever the environment does: what a callout     *)
(* took from the stack waits in one place, or was read, sent or discarded  *)
(* exactly once.                                                           *)
(***************************************************************************)
THEOREM OneFateHolds == Spec => []OneFate
<1>1. TypeInv /\ ListsInv /\ FateInv => OneFate
  <2> SUFFICES ASSUME TypeInv, ListsInv, FateInv, ~IsSniff, NEW n \in NBLs,
                      cls[n] = "blocked", NEW b \in BufsOf(n)
               PROVE  \E p \in Places(n, b) : Places(n, b) = {p}
    BY DEF OneFate
  <2> DEFINE works == {"work" : i \in {j \in DOMAIN work_queue : work_queue[j] = n}}
             workers == {<<"worker", w>> : w \in {v \in Workers : b \in Range(rest[v])}}
             queued == {<<"queue", i>> : i \in {j \in DOMAIN packet_queue :
                                                   packet_queue[j] = b}}
             served == {<<"service", t>> : t \in {u \in Threads : pkt[u] = b}}
             reads == {<<"read", i>> : i \in 1..read[b]}
             sends == {<<"sent", i>> : i \in 1..sent[b]}
             losses == {<<"lost", why>> : why \in lost[b]}
  <2>1. /\ IF b \in WorkBufs THEN \E p : works = {p} ELSE works = {}
        /\ IF b \in WorkerBufs THEN \E p : workers = {p} ELSE workers = {}
        /\ IF b \in QueueBufs THEN \E p : queued = {p} ELSE queued = {}
        /\ IF b \in ServiceBufs THEN \E p : served = {p} ELSE served = {}
        /\ IF b \in ReadBufs THEN \E p : reads = {p} ELSE reads = {}
        /\ IF b \in SentBufs THEN \E p : sends = {p} ELSE sends = {}
        /\ IF b \in LostBufs THEN \E p : losses = {p} ELSE losses = {}
    <3>1. OneHolder
      BY DEF ListsInv
    <3> QED BY <3>1, PointOfPlace
  <2>2. Places(n, b) = works \cup workers \cup queued \cup served \cup reads
                         \cup sends \cup losses
    BY DEF Places
  <2> HIDE DEF works, workers, queued, served, reads, sends, losses
  <2>3. b \in Bufs /\ b \notin StackBufs
    BY BuffersOwned DEF StackBufs
  <2>4. Apart(Part, Kinds) /\ \E k \in Kinds : b \in Part[k]
    BY <2>3 DEF FateInv, Fates, Tracked, Covers
  <2>5. PICK k \in Kinds : b \in Part[k] /\ \A j \in Kinds : j # k => b \notin Part[j]
    BY <2>4 DEF Apart
  <2>6. /\ b \in WorkBufs <=> k = "work"
        /\ b \in WorkerBufs <=> k = "worker"
        /\ b \in QueueBufs <=> k = "queue"
        /\ b \in ServiceBufs <=> k = "service"
        /\ b \in ReadBufs <=> k = "read"
        /\ b \in SentBufs <=> k = "sent"
        /\ b \in LostBufs <=> k = "lost"
        /\ k # "stack"
    BY <2>3, <2>5 DEF Kinds, Part
  <2>7. \E p : Places(n, b) = {p}
    BY <2>1, <2>2, <2>6 DEF Kinds
  <2> QED BY <2>7
<1> QED BY <1>1, TypeInvariance, ListsInvariance, FateInvariance, PTL

(***************************************************************************)
(* In SNIFF mode no packet is put back on the network twice, nor given to  *)
(* two readers, not even by the cleanup of a handle with copies queued.    *)
(***************************************************************************)
THEOREM SniffOnceHolds == Spec => []SniffOnce
<1>1. FateInv => SniffOnce
  BY DEF FateInv, Fates, Once, SniffSent, SniffOnce
<1> QED BY <1>1, FateInvariance, PTL

-----------------------------------------------------------------------------
(***************************************************************************)
(* The packets of a list are handed out in its order, because the buffers  *)
(* a worker still has are the last ones of its list: whatever comes after  *)
(* a packet it queues or gives away is still in its own hands.             *)
(***************************************************************************)
RestIsLast ==
  \A w \in Workers : rest[w] # <<>> =>
    \E k \in Nat :
      /\ Len(Buffers[work[w]]) = Len(rest[w]) + k
      /\ \A i \in 1..Len(rest[w]) : rest[w][i] = Buffers[work[w]][i + k]

(***************************************************************************)
(* Every step keeps the buffers of the workers the last of their lists.    *)
(***************************************************************************)
LEMMA NextRestIsLast == TypeInv /\ RestIsLast /\ [Next]_vars => RestIsLast'
<1> SUFFICES ASSUME TypeInv, RestIsLast, [Next]_vars, NEW v \in Workers,
                    rest'[v] # <<>>
             PROVE  \E k \in Nat :
                      /\ Len(Buffers[work'[v]]) = Len(rest'[v]) + k
                      /\ \A i \in 1..Len(rest'[v]) : rest'[v][i] = Buffers[work'[v]][i + k]
  BY DEF RestIsLast
<1> DEFINE Last(s, n) ==
      \E k \in Nat : /\ Len(Buffers[n]) = Len(s) + k
                     /\ \A i \in 1..Len(s) : s[i] = Buffers[n][i + k]
<1>0. /\ rest \in [Workers -> Seq(Bufs)] /\ work \in [Workers -> NBLs \cup {Nil}]
      /\ rest[v] # <<>> => Last(rest[v], work[v])
  BY DEF TypeInv, TypeOK, ThreadsTyped, RestIsLast
<1> SUFFICES Last(rest'[v], work'[v])
  OBVIOUS
<1>1. rest'[v] = rest[v] /\ work'[v] = work[v] => Last(rest'[v], work'[v])
  BY <1>0
<1>2. ASSUME NEW w \in Workers, Worker(w) PROVE Last(rest'[v], work'[v])
  <2>1. CASE v # w
    <3>1. Moves(w)
      BY <1>2, WorkerMoves
    <3>2. rest'[v] = rest[v] /\ work'[v] = work[v]
      BY <1>0, <2>1, <3>1 DEF Moves
    <3> QED BY <1>1, <3>2
  <2>2. CASE v = w /\ WorkerTake(w)
    <3> DEFINE n == Head(work_queue)
    <3>1. n \in NBLs
      BY <2>2 DEF WorkerTake, TypeInv, TypeOK, WorkTyped
    <3>2. rest'[v] = Buffers[n] /\ work'[v] = n
      BY <1>0, <2>2 DEF WorkerTake
    <3> HIDE DEF n
    <3>3. Buffers[n] \in Seq(Bufs)
      BY <3>1, BuffersOwned
    <3>4. /\ Len(Buffers[n]) = Len(Buffers[n]) + 0
          /\ \A i \in 1..Len(Buffers[n]) : Buffers[n][i] = Buffers[n][i + 0]
      BY <3>3
    <3> QED BY <3>2, <3>4
  <2>3. CASE v = w /\ WorkerFinish(w)
    BY <1>0, <2>3 DEF WorkerFinish
  <2>4. CASE v = w /\ ~WorkerTake(w) /\ ~WorkerFinish(w)
    <3>1. work'[v] = work[v]
      BY <1>2, <2>4 DEF Worker, WorkerStart, WorkerReturn, WorkerSniff,
         WorkerNext, QueueRefuse, QueueDrop, QueueFast, QueueCopy,
         InsertRefuse, InsertDrop, InsertEvict, Insert, InsertThen, threadVars
    <3>2. \/ rest'[v] = rest[v]
          \/ rest[v] # <<>> /\ rest'[v] = Tail(rest[v])
      BY <1>0, <1>2, <2>4 DEF Worker, WorkerStart, WorkerReturn, WorkerSniff,
         WorkerNext, QueueRefuse, QueueDrop, QueueFast, QueueCopy,
         InsertRefuse, InsertDrop, InsertEvict, Insert, InsertThen, Skip,
         threadVars, TypeInv, HasBuffer
    <3>3. ASSUME rest[v] # <<>>, rest'[v] = Tail(rest[v])
          PROVE  Last(rest'[v], work'[v])
      <4> DEFINE s == rest[v]
                 t == Buffers[work[v]]
      <4>1. s \in Seq(Bufs) /\ s # <<>>
        BY <1>0, <3>3
      <4>2. PICK k \in Nat : /\ Len(t) = Len(s) + k
                             /\ \A i \in 1..Len(s) : s[i] = t[i + k]
        BY <1>0, <3>3
      <4> DEFINE u == Tail(s)
      <4> HIDE DEF s, t
      <4>3. /\ Len(u) = Len(s) - 1 /\ Len(s) \in Nat
            /\ \A i \in 1..Len(s) - 1 : u[i] = s[i + 1]
        BY <4>1
      <4> HIDE DEF u
      <4>4. k + 1 \in Nat /\ Len(t) = Len(u) + (k + 1)
        BY <4>2, <4>3
      <4>5. ASSUME NEW i \in 1..Len(u) PROVE u[i] = t[i + (k + 1)]
        <5>1. i + 1 \in 1..Len(s) /\ (i + 1) + k = i + (k + 1) /\ i \in 1..Len(s) - 1
          BY <4>3
        <5> QED BY <4>2, <4>3, <5>1
      <4> QED BY <3>1, <3>3, <4>4, <4>5 DEF s, t, u
    <3> QED BY <1>1, <3>1, <3>2, <3>3
  <2> QED BY <2>1, <2>2, <2>3, <2>4
<1>3. ASSUME NEW n \in NBLs, ClassifyEnter(n) \/ Classify(n) \/ InjectComplete(n)
      PROVE  Last(rest'[v], work'[v])
  <2>1. rest'[v] = rest[v] /\ work'[v] = work[v]
    BY <1>3 DEF ClassifyEnter, Classify, ClassifyFilter, ClassifyNoMemory,
       ClassifyQueue, InjectComplete, threadVars
  <2> QED BY <1>1, <2>1
<1>4. ASSUME NEW t \in Threads, Service(t) PROVE Last(rest'[v], work'[v])
  <2>1. rest'[v] = rest[v] /\ work'[v] = work[v]
    BY <1>4 DEF Service, ServiceExpire, ServicePair, ServiceReturn, Serve,
       threadVars
  <2> QED BY <1>1, <2>1
<1>5. ASSUME NEW r \in Reqs, Read(r) \/ Cancel(r) PROVE Last(rest'[v], work'[v])
  <2>1. rest'[v] = rest[v] /\ work'[v] = work[v]
    BY <1>5 DEF Read, Cancel, threadVars
  <2> QED BY <1>1, <2>1
<1>6. CASE SetParam \/ CleanupBegin \/ Cleanup \/ Terminated \/ UNCHANGED vars
  <2>1. rest'[v] = rest[v] /\ work'[v] = work[v]
    BY <1>6 DEF SetParam, CleanupBegin, Cleanup, CleanupPacket,
       CleanupPacketsDone, CleanupWork, CleanupPurge, CleanupFlush,
       CleanupUninstall, Close, Destroy, Terminated, vars, threadVars
  <2> QED BY <1>1, <2>1
<1> HIDE DEF Last
<1> QED BY <1>2, <1>3, <1>4, <1>5, <1>6 DEF Next

(***************************************************************************)
(* What comes after the first buffer a worker has, the worker has too: it  *)
(* is neither in the packet queue nor given to a reader.                   *)
(***************************************************************************)
LEMMA LaterStillHeld ==
  ASSUME TypeInv, HeldOnce, Fates, RestIsLast, NEW w \in Workers,
         rest[w] # <<>>, NEW c \in Bufs, Before(Head(rest[w]), c)
  PROVE  c \notin QueueBufs /\ ~Given(c)
<1>1. PICK n \in NBLs : \E i, j \in DOMAIN Buffers[n] :
        i < j /\ Buffers[n][i] = Head(rest[w]) /\ Buffers[n][j] = c
  BY DEF Before
<1>2. PICK i \in DOMAIN Buffers[n], j \in DOMAIN Buffers[n] :
        i < j /\ Buffers[n][i] = Head(rest[w]) /\ Buffers[n][j] = c
  BY <1>1
<1>3. /\ rest[w] \in Seq(Bufs) /\ Buffers[n] \in Seq(Bufs)
      /\ rest[w] # <<>> /\ Head(rest[w]) = rest[w][1] /\ 1 \in 1..Len(rest[w])
      /\ Len(rest[w]) \in Nat
  BY BuffersOwned DEF TypeInv, TypeOK, ThreadsTyped
<1>4. Head(rest[w]) \in Range(rest[w])
  BY <1>3 DEF Range
<1>5. work[w] \in NBLs
  BY <1>4 DEF HeldOnce, RestOwned
<1>6. PICK k \in Nat :
        /\ Len(Buffers[work[w]]) = Len(rest[w]) + k
        /\ \A l \in 1..Len(rest[w]) : rest[w][l] = Buffers[work[w]][l + k]
  BY DEF RestIsLast
<1>7. Buffers[work[w]] \in Seq(Bufs) /\ 1 + k \in DOMAIN Buffers[work[w]]
      /\ Buffers[work[w]][1 + k] = Buffers[n][i]
  BY <1>2, <1>3, <1>5, <1>6, BuffersOwned
<1>8. work[w] = n /\ 1 + k = i
  BY <1>2, <1>5, <1>7, BufferAssumption
<1>9. j - k \in 1..Len(rest[w]) /\ (j - k) + k = j
  BY <1>2, <1>3, <1>6, <1>8
<1>10. rest[w][j - k] = c
  BY <1>2, <1>6, <1>8, <1>9
<1>11. c \in WorkerBufs
  BY <1>3, <1>9, <1>10 DEF WorkerBufs, Range
<1>12. c \notin QueueBufs /\ c \notin ServiceBufs
  BY <1>11, PlacesApart
<1>13. c \notin ReadBufs
  <2>1. {"worker", "read"} \subseteq Tracked
    BY DEF Tracked, Kinds
  <2>2. Part["worker"] = WorkerBufs /\ Part["read"] = ReadBufs
    BY DEF Part
  <2>3. \A a, b \in Tracked : a # b => Part[a] \cap Part[b] = {}
    BY DEF Fates, Apart
  <2> QED BY <1>11, <2>1, <2>2, <2>3
<1>14. read[c] = 0
  BY <1>13 DEF ReadBufs
<1> QED BY <1>12, <1>14 DEF Given, ServiceBufs

(***************************************************************************)
(* A packet is given to a reader when the queue is empty, or from its head.*)
(***************************************************************************)
GivesInTurn ==
  \A c \in Bufs : Given(c)' =>
    \/ Given(c)
    \/ packet_queue' = <<>>
    \/ /\ packet_queue # <<>> /\ c = Head(packet_queue)
       /\ packet_queue' = Tail(packet_queue)

(***************************************************************************)
(* Only the fast path and windivert_read_service give packets to readers.  *)
(***************************************************************************)
LEMMA NextGivesInTurn == TypeInv /\ HoldsPacket /\ [Next]_vars => GivesInTurn
<1> SUFFICES ASSUME TypeInv, HoldsPacket, [Next]_vars, NEW c \in Bufs, Given(c)'
             PROVE  \/ Given(c)
                    \/ packet_queue' = <<>>
                    \/ /\ packet_queue # <<>> /\ c = Head(packet_queue)
                       /\ packet_queue' = Tail(packet_queue)
  BY DEF GivesInTurn
<1> DEFINE Turn == \/ Given(c)
                   \/ packet_queue' = <<>>
                   \/ /\ packet_queue # <<>> /\ c = Head(packet_queue)
                      /\ packet_queue' = Tail(packet_queue)
<1>0. /\ pkt \in [Threads -> Bufs \cup {Nil}] /\ read \in [Bufs -> Nat]
      /\ Nil \notin Bufs /\ Workers \subseteq Threads
  BY ContextAssumption DEF TypeInv, TypeOK, ThreadsTyped, FatesTyped, Threads
<1>1. UNCHANGED <<read, pkt>> => Turn
  BY DEF Given
<1>2. ASSUME NEW w \in Workers, Worker(w) PROVE Turn
  <2>1. CASE QueueFast(w)
    BY <2>1 DEF QueueFast, ReaderWaits, queueVars
  <2>2. CASE ~QueueFast(w)
    <3>1. UNCHANGED <<read, pkt>>
      BY <1>2, <2>2 DEF Worker, WorkerStart, WorkerReturn, WorkerTake,
         WorkerSniff, WorkerNext, WorkerFinish, QueueRefuse, QueueDrop,
         QueueCopy, InsertRefuse, InsertDrop, InsertEvict, Insert, InsertThen,
         threadVars, fateVars
    <3> QED BY <1>1, <3>1
  <2> QED BY <2>1, <2>2
<1>3. ASSUME NEW t \in Threads, Service(t) PROVE Turn
  <2>1. CASE ServicePair(t)
    <3>1. /\ packet_queue # <<>> /\ packet_queue' = Tail(packet_queue)
          /\ read' = read /\ pkt' = [pkt EXCEPT ![t] = Head(packet_queue)]
      BY <2>1 DEF ServicePair, RemoveHead, fateVars
    <3>2. Given(c) \/ c = Head(packet_queue)
      BY <1>0, <3>1 DEF Given
    <3> QED BY <3>1, <3>2
  <2>2. CASE Serve(t)
    <3>1. /\ pkt' = [pkt EXCEPT ![t] = Nil]
          /\ read' = read \/ read' = Count(read, {pkt[t]})
      BY <2>2 DEF Serve
    <3>2. read'[c] > 0 => read[c] > 0 \/ c = pkt[t]
      BY <1>0, <3>1 DEF Count
    <3> QED BY <1>0, <3>1, <3>2 DEF Given
  <2>3. CASE ServiceExpire(t) \/ ServiceReturn(t)
    BY <1>1, <2>3 DEF ServiceExpire, ServiceReturn, threadVars, fateVars
  <2> QED BY <1>3, <2>1, <2>2, <2>3 DEF Service
<1>4. ASSUME NEW n \in NBLs, ClassifyEnter(n) \/ Classify(n) \/ InjectComplete(n)
      PROVE  Turn
  BY <1>1, <1>4 DEF ClassifyEnter, Classify, ClassifyFilter, ClassifyNoMemory,
     ClassifyQueue, InjectComplete, threadVars, fateVars
<1>5. ASSUME NEW r \in Reqs, Read(r) \/ Cancel(r) PROVE Turn
  BY <1>1, <1>5 DEF Read, Cancel, threadVars, fateVars
<1>6. CASE SetParam \/ CleanupBegin \/ Cleanup \/ Terminated \/ UNCHANGED vars
  BY <1>1, <1>6 DEF SetParam, CleanupBegin, Cleanup, CleanupPacket,
     CleanupPacketsDone, CleanupWork, CleanupPurge, CleanupFlush,
     CleanupUninstall, Close, Destroy, Terminated, vars, threadVars, fateVars
<1> QED BY <1>2, <1>3, <1>4, <1>5, <1>6 DEF Next

(***************************************************************************)
(* A step that adds nothing to the queue, and gives packets in turn, keeps *)
(* the order.                                                              *)
(***************************************************************************)
LEMMA NoLongerInOrder ==
  TypeInv /\ ReadInOrder /\ NoLonger /\ GivesInTurn => ReadInOrder'
<1> SUFFICES ASSUME TypeInv, ReadInOrder, NoLonger, GivesInTurn,
                    NEW b \in Bufs, NEW c \in Bufs, Before(b, c)
             PROVE  /\ Given(c)' => b \notin Range(packet_queue')
                    /\ \A i, j \in DOMAIN packet_queue' :
                         packet_queue'[i] = b /\ packet_queue'[j] = c => i < j
  BY DEF ReadInOrder, Before
<1> DEFINE q == packet_queue
<1>1. q \in Seq(Bufs) /\ DOMAIN q = 1..Len(q) /\ Len(q) \in Nat
  BY DEF TypeInv, TypeOK, QueueTyped
<1>2. /\ Given(c) => b \notin Range(q)
      /\ \A i, j \in DOMAIN q : q[i] = b /\ q[j] = c => i < j
  BY DEF ReadInOrder
<1>3. q' = q \/ (q # <<>> /\ q' = Tail(q))
  BY DEF NoLonger, queueVars, RemoveHead
<1>4. \/ Given(c)' => Given(c) \/ q' = <<>>
      \/ q # <<>> /\ c = Head(q) /\ q' = Tail(q)
  BY DEF GivesInTurn
<1> HIDE DEF q
<1>5. CASE q' = q
  <2>1. q' = <<>> => Range(q') = {}
    <3>1. DOMAIN <<>> = {}
      OBVIOUS
    <3> QED BY <3>1 DEF Range
  <2>2. ~(q # <<>> /\ c = Head(q) /\ q' = Tail(q))
    <3> DEFINE u == Tail(q)
    <3>1. q \in Seq(Bufs) /\ q # <<>> => Len(u) = Len(q) - 1
      OBVIOUS
    <3> HIDE DEF u
    <3>2. q # <<>> => Len(u) # Len(q)
      BY <1>1, <3>1
    <3>3. ~(q # <<>> /\ u = q)
      BY <3>2
    <3> QED BY <1>5, <3>3 DEF u
  <2> QED BY <1>2, <1>4, <1>5, <2>1, <2>2 DEF q
<1>6. CASE q # <<>> /\ q' = Tail(q)
  <2>1. /\ DOMAIN q' = 1..Len(q) - 1
        /\ \A i \in 1..Len(q) - 1 : i + 1 \in DOMAIN q /\ q'[i] = q[i + 1]
    BY <1>1, <1>6
  <2>2. \A x \in Range(q') : \E i \in 1..Len(q) - 1 : x = q[i + 1] /\ i + 1 \in DOMAIN q
    BY <2>1 DEF Range
  <2>3. Range(q') \subseteq Range(q)
    BY <2>2 DEF Range
  <2>4. q' = <<>> => Range(q') = {}
    <3>1. DOMAIN <<>> = {}
      OBVIOUS
    <3> QED BY <3>1 DEF Range
  <2>5. c = Head(q) => b \notin Range(q')
    <3> SUFFICES ASSUME c = Head(q), b \in Range(q') PROVE FALSE
      OBVIOUS
    <3>1. PICK i \in 1..Len(q) - 1 : b = q[i + 1] /\ i + 1 \in DOMAIN q
      BY <2>2
    <3>2. 1 \in DOMAIN q /\ q[1] = c
      BY <1>1, <1>6
    <3>3. i + 1 < 1
      BY <1>2, <3>1, <3>2
    <3> QED BY <3>3
  <2>6. Given(c)' => b \notin Range(q')
    BY <1>2, <1>4, <2>3, <2>4, <2>5
  <2>7. ASSUME NEW i \in DOMAIN q', NEW j \in DOMAIN q', q'[i] = b, q'[j] = c
        PROVE  i < j
    <3>1. i + 1 < j + 1
      BY <1>2, <2>1, <2>7
    <3>2. i \in Int /\ j \in Int
      BY <1>1, <2>1
    <3> QED BY <3>1, <3>2
  <2> QED BY <2>6, <2>7 DEF q
<1> QED BY <1>3, <1>5, <1>6

(***************************************************************************)
(* A packet is inserted behind those of its list that were before it, and  *)
(* the later ones are still with the worker.                               *)
(***************************************************************************)
LEMMA InsertInOrder ==
  ASSUME TypeInv, HeldOnce, Fates, RestIsLast, ReadInOrder,
         NEW w \in Workers, Insert(w)
  PROVE  ReadInOrder'
<1> SUFFICES ASSUME NEW b \in Bufs, NEW c \in Bufs, Before(b, c)
             PROVE  /\ Given(c)' => b \notin Range(packet_queue')
                    /\ \A i, j \in DOMAIN packet_queue' :
                         packet_queue'[i] = b /\ packet_queue'[j] = c => i < j
  BY DEF ReadInOrder, Before
<1> DEFINE q == packet_queue
           h == Head(rest[w])
<1>1. /\ rest[w] # <<>> /\ q' = Append(q, h) /\ Given(c)' = Given(c)
      /\ q \in Seq(Bufs) /\ DOMAIN q = 1..Len(q) /\ Len(q) \in Nat /\ h \in Bufs
  BY DEF Insert, InsertThen, TypeInv, HasBuffer, TypeOK, ThreadsTyped,
     QueueTyped, Given, fateVars
<1>2. /\ Given(c) => b \notin Range(q)
      /\ \A i, j \in DOMAIN q : q[i] = b /\ q[j] = c => i < j
  BY DEF ReadInOrder
<1>3. b = h => c \notin Range(q) /\ ~Given(c)
  BY <1>1, LaterStillHeld DEF QueueBufs
<1>4. b # c
  <2>1. PICK n \in NBLs : \E i, j \in DOMAIN Buffers[n] :
          i < j /\ Buffers[n][i] = b /\ Buffers[n][j] = c
    BY DEF Before
  <2>2. Buffers[n] \in Seq(Bufs)
    BY BuffersOwned
  <2> QED BY <2>1, <2>2, BufferAssumption
<1> HIDE DEF q, h
<1>5. /\ DOMAIN q' = 1..Len(q) + 1 /\ q'[Len(q) + 1] = h
      /\ \A i \in 1..Len(q) : q'[i] = q[i]
  BY <1>1
<1>6. \A i \in DOMAIN q' : i \in DOMAIN q \/ i = Len(q) + 1
  BY <1>1, <1>5
<1>7. Given(c)' => b \notin Range(q')
  <2> SUFFICES ASSUME Given(c), b \in Range(q') PROVE FALSE
    BY <1>1
  <2>1. PICK i \in DOMAIN q' : q'[i] = b
    BY DEF Range
  <2>2. b = h \/ b \in Range(q)
    BY <1>1, <1>5, <1>6, <2>1 DEF Range
  <2> QED BY <1>2, <1>3, <2>2
<1>8. ASSUME NEW i \in DOMAIN q', NEW j \in DOMAIN q', q'[i] = b, q'[j] = c
      PROVE  i < j
  <2>1. CASE i \in DOMAIN q /\ j \in DOMAIN q
    BY <1>1, <1>2, <1>5, <1>8, <2>1
  <2>2. CASE i \in DOMAIN q /\ j = Len(q) + 1
    BY <1>1, <2>2
  <2>3. CASE i = Len(q) + 1 /\ j \in DOMAIN q
    <3>1. b = h /\ c \in Range(q)
      BY <1>1, <1>5, <1>8, <2>3 DEF Range
    <3> QED BY <1>3, <3>1
  <2>4. CASE i = Len(q) + 1 /\ j = Len(q) + 1
    BY <1>4, <1>8, <2>4
  <2> QED BY <1>6, <2>1, <2>2, <2>3, <2>4
<1> QED BY <1>7, <1>8 DEF q

(***************************************************************************)
(* The packets of one list reach the readers in the order of the list, and *)
(* none overtakes one that waits in the packet queue, for any number of    *)
(* workers, readers and packets.                                           *)
(***************************************************************************)
THEOREM ReadInOrderHolds == Spec => []ReadInOrder
<1>1. Init => RestIsLast /\ ReadInOrder
  <2> SUFFICES ASSUME Init PROVE RestIsLast /\ ReadInOrder
    OBVIOUS
  <2>1. DOMAIN <<>> = {}
    OBVIOUS
  <2>2. packet_queue = <<>> /\ \A w \in Workers : rest[w] = <<>>
    BY DEF Init
  <2>3. Range(packet_queue) = {}
    BY <2>1, <2>2 DEF Range
  <2> QED BY <2>1, <2>2, <2>3 DEF RestIsLast, ReadInOrder
<1>2. TypeInv /\ FateInv /\ RestIsLast /\ ReadInOrder /\ [Next]_vars
        => (RestIsLast /\ ReadInOrder)'
  <2> SUFFICES ASSUME TypeInv, HeldOnce, Fates, RestIsLast, ReadInOrder, [Next]_vars
               PROVE  (RestIsLast /\ ReadInOrder)'
    BY DEF FateInv
  <2>1. RestIsLast'
    BY NextRestIsLast
  <2>2. GivesInTurn
    BY NextGivesInTurn DEF HeldOnce
  <2>3. ReadInOrder'
    BY <2>2, OnlyInsertAdds, NoLongerInOrder, InsertInOrder
  <2> QED BY <2>1, <2>3
<1> QED BY <1>1, <1>2, TypeInvariance, FateInvariance, PTL DEF Spec

-----------------------------------------------------------------------------
(***************************************************************************)
(* An open handle behaves like Handle.  First the steps in which no packet *)
(* leaves the stack or reaches a reader, no request is submitted or        *)
(* completed, and the handle is neither opened nor closed.                 *)
(***************************************************************************)
Quiet ==
  /\ \A n \in NBLs : cls'[n] = "blocked" <=> cls[n] = "blocked"
  /\ \A r \in Reqs : SameIdle(r)
  /\ UNCHANGED <<read, completions, state, filter>>

HandleStep == [H!Next]_(H!handleVars)

(***************************************************************************)
(* Which steps are quiet: all but blocking a list, a thread giving a       *)
(* packet to a reader, the requests' coming and going, and closing.        *)
(***************************************************************************)
Loud ==
  \/ \E n \in NBLs : ClassifyNoMemory(n) \/ ClassifyQueue(n)
  \/ \E t \in Threads : Serve(t)
  \/ \E r \in Reqs : Read(r) \/ Cancel(r)
  \/ CleanupBegin \/ CleanupPurge \/ Close \/ Destroy

(***************************************************************************)
(* Every step is quiet or loud.                                            *)
(***************************************************************************)
LEMMA QuietSteps ==
  TypeInv /\ [Next]_vars => Quiet \/ Loud
<1> SUFFICES ASSUME TypeInv, [Next]_vars, ~Loud PROVE Quiet
  OBVIOUS
<1>0. /\ cls \in [NBLs -> {"new", "entered", "matched", "continued", "blocked"}]
      /\ pc \in [Threads -> WorkerPCs \cup ReaderPCs]
      /\ Workers \subseteq Threads /\ Reqs \subseteq Threads /\ Reqs \cap Workers = {}
  BY ContextAssumption DEF TypeInv, TypeOK, ListsTyped, ThreadsTyped, Threads
<1>1. UNCHANGED <<cls, pc, read, completions, state, filter>> => Quiet
  BY DEF Quiet, SameIdle
<1>2. ASSUME NEW n \in NBLs, ClassifyEnter(n) \/ Classify(n) \/ InjectComplete(n)
      PROVE  Quiet
  <2>1. ClassifyEnter(n) \/ ClassifyFilter(n) \/ InjectComplete(n)
    BY <1>2 DEF Classify, Loud
  <2>2. UNCHANGED <<pc, read, completions, state, filter>>
    BY <2>1 DEF ClassifyEnter, ClassifyFilter, InjectComplete, lifeVars,
       threadVars, reqVars, fateVars
  <2>3. \A m \in NBLs : cls'[m] = "blocked" <=> cls[m] = "blocked"
    BY <1>0, <2>1 DEF ClassifyEnter, ClassifyFilter, InjectComplete
  <2> QED BY <2>2, <2>3 DEF Quiet, SameIdle
<1>3. ASSUME NEW w \in Workers, Worker(w) PROVE Quiet
  <2>1. UNCHANGED <<cls, read, completions, state, filter>>
    BY <1>3 DEF Worker, WorkerStart, WorkerReturn, WorkerTake, WorkerSniff,
       WorkerNext, WorkerFinish, QueueRefuse, QueueDrop, QueueFast, QueueCopy,
       InsertRefuse, InsertDrop, InsertEvict, Insert, InsertThen, lifeVars,
       nblVars, reqVars, fateVars
  <2>2. \A r \in Reqs : pc'[r] = pc[r]
    BY <1>0, <1>3, WorkerMoves DEF Moves
  <2> QED BY <2>1, <2>2 DEF Quiet, SameIdle
<1>4. ASSUME NEW t \in Threads, Service(t) PROVE Quiet
  <2>1. ServiceExpire(t) \/ ServicePair(t) \/ ServiceReturn(t)
    BY <1>4 DEF Service, Loud
  <2>2. UNCHANGED <<cls, read, completions, state, filter>>
    BY <2>1 DEF ServiceExpire, ServicePair, ServiceReturn, lifeVars, nblVars,
       reqVars, fateVars
  <2>3. \A r \in Reqs : SameIdle(r)
    BY <1>0, <2>1 DEF ServiceExpire, ServicePair, ServiceReturn, Goto, Caller,
       threadVars, SameIdle
  <2> QED BY <2>2, <2>3 DEF Quiet
<1>5. CASE SetParam \/ Cleanup
  <2>1. \/ SetParam \/ CleanupPacket \/ CleanupPacketsDone \/ CleanupWork
        \/ CleanupFlush \/ CleanupUninstall
    BY <1>5 DEF Cleanup, Loud
  <2> QED BY <1>1, <2>1 DEF SetParam, CleanupPacket, CleanupPacketsDone,
             CleanupWork, CleanupFlush, CleanupUninstall, lifeVars, nblVars,
             threadVars, reqVars, fateVars
<1>6. CASE Terminated \/ UNCHANGED vars
  BY <1>1, <1>6 DEF Terminated, vars, lifeVars, nblVars, threadVars, reqVars,
     fateVars
<1> QED BY <1>2, <1>3, <1>4, <1>5, <1>6 DEF Next, Loud

(***************************************************************************)
(* The reads of Handle change only with the requests.                      *)
(***************************************************************************)
LEMMA SameReads ==
  ASSUME completions' = completions, \A r \in Reqs : SameIdle(r)
  PROVE  WaitingReqs' = WaitingReqs /\ AnsweredReqs' = AnsweredReqs
BY DEF WaitingReqs, AnsweredReqs, Outstanding, SameIdle

(***************************************************************************)
(* The places of the packets that the handle has are apart, and apart from *)
(* the stack and the readers; so are, unless they were sniffed, the        *)
(* packets that were sent.                                                 *)
(***************************************************************************)
LEMMA HeldApart ==
  ASSUME Fates
  PROVE  /\ WorkBufs \cap WorkerBufs = {} /\ WorkBufs \cap QueueBufs = {}
         /\ WorkBufs \cap ServiceBufs = {}
         /\ StackBufs \cap HeldBufs = {} /\ HeldBufs \cap ReadBufs = {}
         /\ ~IsSniff => HeldBufs \cap SentBufs = {}
<1>1. /\ {"stack", "work", "worker", "queue", "service", "read"} \subseteq Tracked
      /\ ~IsSniff => "sent" \in Tracked
  BY DEF Tracked, Kinds
<1>2. /\ Part["stack"] = StackBufs /\ Part["work"] = WorkBufs
      /\ Part["worker"] = WorkerBufs /\ Part["queue"] = QueueBufs
      /\ Part["service"] = ServiceBufs /\ Part["read"] = ReadBufs
      /\ Part["sent"] = SentBufs
  BY DEF Part
<1>3. \A j, k \in Tracked : j # k => Part[j] \cap Part[k] = {}
  BY DEF Fates, Apart
<1>4. /\ WorkBufs \cap WorkerBufs = {} /\ WorkBufs \cap QueueBufs = {}
      /\ WorkBufs \cap ServiceBufs = {}
  BY <1>1, <1>2, <1>3
<1>5. /\ StackBufs \cap WorkBufs = {} /\ StackBufs \cap WorkerBufs = {}
      /\ StackBufs \cap QueueBufs = {} /\ StackBufs \cap ServiceBufs = {}
  BY <1>1, <1>2, <1>3
<1>6. /\ ReadBufs \cap WorkBufs = {} /\ ReadBufs \cap WorkerBufs = {}
      /\ ReadBufs \cap QueueBufs = {} /\ ReadBufs \cap ServiceBufs = {}
  BY <1>1, <1>2, <1>3
<1>7. ~IsSniff =>
        /\ SentBufs \cap WorkBufs = {} /\ SentBufs \cap WorkerBufs = {}
        /\ SentBufs \cap QueueBufs = {} /\ SentBufs \cap ServiceBufs = {}
  BY <1>1, <1>2, <1>3
<1> QED BY <1>4, <1>5, <1>6, <1>7 DEF HeldBufs

(***************************************************************************)
(* In a quiet step the handle gets no packet; those that leave it were     *)
(* sent, unless they were lost.                                            *)
(***************************************************************************)
LEMMA QuietHeld ==
  ASSUME TypeInv, Fates, FateStep, Quiet
  PROVE  \E S \in SUBSET Bufs :
           /\ S \subseteq HeldBufs /\ HeldBufs' = HeldBufs \ S
           /\ ~IsSniff => SentBufs' = SentBufs \/ SentBufs' = SentBufs \cup S
<1> DEFINE Leave(S) == /\ S \subseteq HeldBufs /\ HeldBufs' = HeldBufs \ S
                       /\ ~IsSniff => \/ SentBufs' = SentBufs
                                      \/ SentBufs' = SentBufs \cup S
<1> SUFFICES \E S \in SUBSET Bufs : Leave(S)
  OBVIOUS
<1>0. /\ StackBufs' = StackBufs /\ ReadBufs' = ReadBufs /\ read' = read
      /\ sent \in [Bufs -> Nat] /\ read \in [Bufs -> Nat]
  BY SamePlaces DEF Quiet, ReadBufs, TypeInv, TypeOK, FatesTyped
<1>1. /\ Part["stack"] = StackBufs /\ Part["work"] = WorkBufs
      /\ Part["worker"] = WorkerBufs /\ Part["queue"] = QueueBufs
      /\ Part["service"] = ServiceBufs
      /\ Part'["stack"] = StackBufs' /\ Part'["work"] = WorkBufs'
      /\ Part'["worker"] = WorkerBufs' /\ Part'["queue"] = QueueBufs'
      /\ Part'["service"] = ServiceBufs'
  BY DEF Part
<1>2. CASE Stays
  <2>1. /\ WorkBufs' = WorkBufs /\ WorkerBufs' = WorkerBufs
        /\ QueueBufs' = QueueBufs /\ ServiceBufs' = ServiceBufs
    BY <1>1, <1>2 DEF Stays, Placed
  <2>2. ~IsSniff => SentBufs' = SentBufs
    BY <1>2 DEF Stays, SentBufs
  <2>3. Leave({})
    BY <2>1, <2>2 DEF HeldBufs
  <2> QED BY <2>3
<1>3. ASSUME NEW S \in SUBSET Bufs, NEW k \in Kinds, NEW l \in Kinds, Transfer(S, k, l)
      PROVE  \E T \in SUBSET Bufs : Leave(T)
  <2>1. /\ k \in Placed /\ k # l /\ S \subseteq Part[k] /\ Tally(S, l)
        /\ StackBufs' = Moved(Part, S, k, l, "stack")
        /\ WorkBufs' = Moved(Part, S, k, l, "work")
        /\ WorkerBufs' = Moved(Part, S, k, l, "worker")
        /\ QueueBufs' = Moved(Part, S, k, l, "queue")
        /\ ServiceBufs' = Moved(Part, S, k, l, "service")
    BY <1>1, <1>3 DEF Transfer, Placed
  <2>2. ~IsSniff => \/ SentBufs' = SentBufs
                    \/ l = "sent" /\ SentBufs' = SentBufs \cup S
    BY <1>0, <2>1 DEF Tally, Count, SentBufs
  <2>3. /\ WorkBufs \cap WorkerBufs = {} /\ WorkBufs \cap QueueBufs = {}
        /\ WorkBufs \cap ServiceBufs = {} /\ StackBufs \cap HeldBufs = {}
        /\ WorkerBufs \cap QueueBufs = {} /\ WorkerBufs \cap ServiceBufs = {}
        /\ QueueBufs \cap ServiceBufs = {}
    BY HeldApart, PlacesApart
  <2>4. CASE k = "stack" \/ l = "stack"
    <3>1. S = {}
      <4>1. CASE k = "stack"
        BY <1>0, <1>1, <2>1, <4>1 DEF Moved
      <4>2. CASE l = "stack" /\ k # "stack"
        <5>1. S \subseteq HeldBufs
          BY <1>1, <2>1, <4>2 DEF Placed, HeldBufs
        <5>2. S \subseteq StackBufs
          BY <1>0, <1>1, <2>1, <4>2 DEF Moved
        <5> QED BY <2>3, <5>1, <5>2
      <4> QED BY <2>4, <4>1, <4>2
    <3>2. HeldBufs' = HeldBufs
      BY <1>1, <2>1, <3>1 DEF Moved, HeldBufs
    <3>3. Leave({})
      BY <2>2, <3>1, <3>2
    <3> QED BY <3>3
  <2>5. CASE k # "stack" /\ l # "stack" /\ l \in Placed
    <3>1. S \subseteq HeldBufs
      BY <1>1, <2>1, <2>5 DEF Placed, HeldBufs
    <3>2. HeldBufs' = HeldBufs
      BY <1>1, <2>1, <2>5 DEF Moved, Placed, HeldBufs
    <3>3. SentBufs' = SentBufs \/ IsSniff
      BY <2>2, <2>5 DEF Placed
    <3>4. Leave({})
      BY <3>2, <3>3
    <3> QED BY <3>4
  <2>6. CASE k # "stack" /\ l \notin Placed
    <3>1. S \subseteq HeldBufs
      BY <1>1, <2>1, <2>6 DEF Placed, HeldBufs
    <3>2. HeldBufs' = HeldBufs \ S
      <4>1. CASE k = "work"
        BY <1>1, <2>1, <2>3, <2>6, <4>1 DEF Moved, Placed, HeldBufs
      <4>2. CASE k = "worker"
        BY <1>1, <2>1, <2>3, <2>6, <4>2 DEF Moved, Placed, HeldBufs
      <4>3. CASE k = "queue"
        BY <1>1, <2>1, <2>3, <2>6, <4>3 DEF Moved, Placed, HeldBufs
      <4>4. CASE k = "service"
        BY <1>1, <2>1, <2>3, <2>6, <4>4 DEF Moved, Placed, HeldBufs
      <4> QED BY <2>1, <2>6, <4>1, <4>2, <4>3, <4>4 DEF Placed
    <3>3. Leave(S)
      BY <2>2, <3>1, <3>2
    <3> QED BY <3>3
  <2> QED BY <2>4, <2>5, <2>6
<1>4. ASSUME NEW n \in NBLs, NEW h \in NBLs, Overflows(n, h)
      PROVE  \E T \in SUBSET Bufs : Leave(T)
  <2> DEFINE A == BufsOf(n)
             B == BufsOf(h)
  <2>1. /\ StackBufs' = StackBufs \ A /\ A \subseteq StackBufs
        /\ WorkBufs' = (WorkBufs \ B) \cup A /\ B \subseteq WorkBufs
        /\ WorkerBufs' = WorkerBufs /\ QueueBufs' = QueueBufs
        /\ ServiceBufs' = ServiceBufs
    BY <1>1, <1>4 DEF Overflows, Placed
  <2>2. B \in SUBSET Bufs /\ (~IsSniff => SentBufs' = SentBufs)
    BY <1>4, BuffersOwned DEF Overflows, Tally, SentBufs
  <2> HIDE DEF A, B
  <2>3. A = {}
    BY <1>0, <2>1
  <2>4. B \subseteq HeldBufs /\ HeldBufs' = HeldBufs \ B
    BY <2>1, <2>3, HeldApart DEF HeldBufs
  <2>5. Leave(B)
    BY <2>2, <2>4
  <2> QED BY <2>2, <2>5
<1> QED BY <1>2, <1>3, <1>4 DEF FateStep

(***************************************************************************)
(* The steps of Handle in which packets leave it, as steps of its          *)
(* implementation.                                                         *)
(***************************************************************************)
LEMMA LeavesHandle ==
  ASSUME UNCHANGED <<Life, IsSniff, StackBufs, ReadBufs, WaitingReqs, AnsweredReqs>>,
         NEW S \in SUBSET Bufs, S \subseteq HeldBufs,
         \/ HeldBufs' = HeldBufs \ S /\ SentBufs' = SentBufs
         \/ /\ SentBufs' = SentBufs \cup S /\ S \cap SentBufs = {}
            /\ HeldBufs' = HeldBufs \ S \/ (IsSniff /\ HeldBufs' = HeldBufs)
  PROVE  HandleStep
<1>1. CASE HeldBufs' = HeldBufs \ S /\ SentBufs' = SentBufs
  <2>1. H!Lose(S)
    BY <1>1 DEF H!Lose, H!readVars
  <2> QED BY <2>1 DEF HandleStep, H!Next
<1>2. CASE /\ SentBufs' = SentBufs \cup S /\ S \cap SentBufs = {}
           /\ HeldBufs' = HeldBufs \ S \/ (IsSniff /\ HeldBufs' = HeldBufs)
  <2>1. H!Return(S)
    BY <1>2 DEF H!Return, H!readVars
  <2> QED BY <2>1 DEF HandleStep, H!Next
<1> QED BY <1>1, <1>2

(***************************************************************************)
(* In a quiet step packets leave the handle, if anything.  A sniffing      *)
(* handle puts a list back once: before its worker visits the buffers, or  *)
(* at cleanup if no worker has taken it.                                   *)
(***************************************************************************)
LEMMA QuietHandle ==
  ASSUME TypeInv, ListsInv, FateInv, [Next]_vars, Quiet
  PROVE  HandleStep
<1>0. /\ HeldOnce /\ Fates /\ SniffSent /\ FateStep /\ SniffFirst
      /\ OneHolder /\ HeldBlocked /\ BetweenWorks /\ sent \in [Bufs -> Nat]
  BY NextFateStep DEF FateInv, HeldOnce, ListsInv, TypeInv, TypeOK, FatesTyped
<1>1. /\ Life' = Life /\ IsSniff' = IsSniff
      /\ StackBufs' = StackBufs /\ ReadBufs' = ReadBufs
      /\ WaitingReqs' = WaitingReqs /\ AnsweredReqs' = AnsweredReqs
  BY NextMode, SamePlaces, SameReads DEF Quiet, Life, IsSniff, ReadBufs
<1>2. PICK S \in SUBSET Bufs :
        /\ S \subseteq HeldBufs /\ HeldBufs' = HeldBufs \ S
        /\ ~IsSniff => SentBufs' = SentBufs \/ SentBufs' = SentBufs \cup S
  BY <1>0, QuietHeld
<1>3. ASSUME NEW n \in NBLs, IsSniff, BufsOf(n) \subseteq Unsent,
             sent' = sent \/ sent' = Count(sent, BufsOf(n))
      PROVE  \/ SentBufs' = SentBufs
             \/ /\ SentBufs' = SentBufs \cup BufsOf(n)
                /\ BufsOf(n) \cap SentBufs = {}
  <2>1. BufsOf(n) \cap SentBufs = {} /\ BufsOf(n) \subseteq Bufs
    BY <1>0, <1>3, BuffersOwned DEF SniffSent, SentBufs
  <2>2. sent' = sent => SentBufs' = SentBufs
    BY DEF SentBufs
  <2>3. sent' = Count(sent, BufsOf(n)) => SentBufs' = SentBufs \cup BufsOf(n)
    <3> DEFINE A == BufsOf(n)
    <3>1. sent' = Count(sent, A) /\ A \subseteq Bufs => SentBufs' = SentBufs \cup A
      <4> HIDE DEF A
      <4> QED BY <1>0 DEF Count, SentBufs
    <3> QED BY <2>1, <3>1
  <2> QED BY <1>3, <2>1, <2>2, <2>3
<1>4. CASE ~IsSniff
  <2>1. S \cap SentBufs = {}
    BY <1>0, <1>2, <1>4, HeldApart
  <2> QED BY <1>1, <1>2, <1>4, <2>1, LeavesHandle
<1>5. ASSUME IsSniff, NEW w \in Workers, WorkerSniff(w) PROVE HandleStep
  <2> DEFINE n == work[w]
             A == BufsOf(n)
  <2>1. pc[w] = "sniff" /\ n \in NBLs /\ rest[w] = Buffers[n]
    BY <1>0, <1>5 DEF WorkerSniff, TypeInv, HasList, SniffFirst
  <2>2. UNCHANGED <<work_queue, rest, packet_queue, pkt>>
    BY <1>5 DEF WorkerSniff, workVars, queueVars
  <2>3. sent' = sent \/ sent' = Count(sent, A)
    BY <1>5 DEF WorkerSniff, Put, PutSucceeds, PutIsRefused, fateVars
  <2>4. HeldBufs' = HeldBufs
    BY <2>2, SamePlaces DEF HeldBufs
  <2>5. A \subseteq Bufs /\ A \subseteq WorkerBufs /\ A \subseteq Unsent
    BY <2>1, BuffersOwned DEF BufsOf, WorkerBufs, Unsent, SniffingBufs
  <2> HIDE DEF n
  <2>6. \/ SentBufs' = SentBufs
        \/ SentBufs' = SentBufs \cup A /\ A \cap SentBufs = {}
    BY <1>3, <1>5, <2>1, <2>3, <2>5
  <2> HIDE DEF A
  <2>7. A \in SUBSET Bufs /\ A \subseteq HeldBufs
    BY <2>5 DEF HeldBufs
  <2>8. CASE SentBufs' = SentBufs
    <3>1. {} \in SUBSET Bufs /\ HeldBufs' = HeldBufs \ {}
      BY <2>4
    <3> QED BY <1>1, <2>8, <3>1, LeavesHandle
  <2>9. CASE SentBufs' = SentBufs \cup A /\ A \cap SentBufs = {}
    BY <1>1, <1>5, <2>4, <2>7, <2>9, LeavesHandle
  <2> QED BY <2>6, <2>8, <2>9
<1>6. CASE IsSniff /\ CleanupWork
  <2> DEFINE n == Head(work_queue)
             A == BufsOf(n)
  <2>1. n \in NBLs /\ A \subseteq WorkBufs /\ WorkBufs' = WorkBufs \ A
    BY <1>0, <1>6, WorkDropsHead DEF CleanupWork
  <2>2. UNCHANGED <<rest, packet_queue, pkt>>
    BY <1>6 DEF CleanupWork, threadVars, queueVars
  <2>3. sent' = sent \/ sent' = Count(sent, A)
    BY <1>6 DEF CleanupWork
  <2> HIDE DEF n
  <2>4. \/ SentBufs' = SentBufs
        \/ SentBufs' = SentBufs \cup A /\ A \cap SentBufs = {}
    BY <1>3, <1>6, <2>1, <2>3 DEF Unsent
  <2>5. A \in SUBSET Bufs
    BY <2>1, BuffersOwned
  <2> HIDE DEF A
  <2>6. A \subseteq HeldBufs /\ HeldBufs' = HeldBufs \ A
    BY <1>0, <2>1, <2>2, SamePlaces, HeldApart DEF HeldBufs
  <2> QED BY <1>1, <2>4, <2>5, <2>6, LeavesHandle
<1>7. CASE IsSniff /\ ~CleanupWork /\ \A w \in Workers : ~WorkerSniff(w)
  <2>1. sent' = sent
    <3>1. CASE \E w \in Workers : WorkerTake(w)
      BY <3>1 DEF WorkerTake, fateVars
    <3>2. CASE \A w \in Workers : ~WorkerTake(w)
      BY <1>0, <1>7, <3>2, OtherStepsDoNotSniff
    <3> QED BY <3>1, <3>2
  <2>2. SentBufs' = SentBufs
    BY <2>1 DEF SentBufs
  <2> QED BY <1>1, <1>2, <2>2, LeavesHandle
<1> QED BY <1>4, <1>5, <1>6, <1>7

(***************************************************************************)
(* The second critical section of windivert_classify_callout takes a list  *)
(* from the stack, if the handle is still open; for want of memory a list  *)
(* is lost whatever the state, but the reference that the callout holds    *)
(* keeps the handle from being freed.                                      *)
(***************************************************************************)
LEMMA ClassifyHandle ==
  ASSUME TypeInv, CleanupInv, RefInv, ListsInv, FateInv, mode' = mode,
         NEW n \in NBLs, ClassifyNoMemory(n) \/ ClassifyQueue(n)
  PROVE  HandleStep
<1> DEFINE A == BufsOf(n)
           L == {BufsOf(m) : m \in NBLs}
<1>0. /\ OneHolder /\ HeldBlocked /\ Fates /\ A \in SUBSET Bufs /\ A \in L
      /\ cls \in [NBLs -> {"new", "entered", "matched", "continued", "blocked"}]
      /\ work_queue \in Seq(NBLs) /\ IsInjective(work_queue)
      /\ Range(work_queue) \subseteq NBLs /\ WorkCounter
  BY BuffersOwned DEF TypeInv, TypeOK, ListsTyped, WorkTyped, ListsInv, FateInv,
     OneHolder, Range
<1>1. /\ cls[n] = "matched"
      /\ UNCHANGED <<pc, completions, state, filter, rest, packet_queue, pkt, read, sent>>
  BY DEF ClassifyNoMemory, ClassifyQueue, threadVars, reqVars, queueVars
<1>2. /\ WorkerBufs' = WorkerBufs /\ QueueBufs' = QueueBufs
      /\ ServiceBufs' = ServiceBufs /\ ReadBufs' = ReadBufs /\ SentBufs' = SentBufs
      /\ WaitingReqs' = WaitingReqs /\ AnsweredReqs' = AnsweredReqs
      /\ Life' = Life /\ IsSniff' = IsSniff
  BY <1>1, SamePlaces, SameReads DEF ReadBufs, SentBufs, Life, IsSniff, SameIdle
<1>3. filter = "on"
  BY <1>1 DEF RefInv, FreedLast, Classifying, TypeInv, TypeOK, LifeTyped
<1>4. cls' = [cls EXCEPT ![n] = "blocked"]
        => A \subseteq StackBufs /\ StackBufs' = StackBufs \ A
  BY <1>1, StackDrops
<1>5. CASE ClassifyNoMemory(n)
  <2>1. work_queue' = work_queue /\ cls' = [cls EXCEPT ![n] = "blocked"]
    BY <1>5 DEF ClassifyNoMemory, workVars
  <2>2. HeldBufs' = HeldBufs
    BY <1>2, <2>1, SamePlaces DEF HeldBufs
  <2>3. Life # "FREED"
    BY <1>3 DEF Life, TypeInv, TypeOK, LifeTyped
  <2>4. A \subseteq StackBufs /\ StackBufs' = StackBufs \ A
    BY <1>4, <2>1
  <2> HIDE DEF A
  <2>5. H!Miss(A)
    BY <1>2, <2>2, <2>3, <2>4 DEF H!Miss, H!readVars
  <2>6. H!Next
    BY <1>0, <2>5 DEF H!Next
  <2> QED BY <2>6 DEF HandleStep
<1>6. ASSUME StillOpen, cls' = [cls EXCEPT ![n] = "blocked"],
             NEW D \in L \cup {{}}, D \subseteq WorkBufs,
             WorkBufs' = (WorkBufs \ D) \cup A
      PROVE  HandleStep
  <2>1. A \subseteq StackBufs /\ StackBufs' = StackBufs \ A /\ Life = "OPEN"
    BY <1>3, <1>4, <1>6 DEF Life, StillOpen
  <2> HIDE DEF A, L
  <2>2. D \subseteq HeldBufs /\ HeldBufs' = (HeldBufs \ D) \cup A
    BY <1>0, <1>2, <1>6, HeldApart DEF HeldBufs
  <2>3. H!Take(A)
    BY <1>2, <1>6, <2>1, <2>2 DEF H!Take, H!readVars, L
  <2>4. H!Next
    BY <1>0, <2>3 DEF H!Next, L
  <2> QED BY <2>4 DEF HandleStep
<1>7. CASE ClassifyQueue(n)
  <2>1. CASE cls' = [cls EXCEPT ![n] = "continued"] /\ UNCHANGED workVars
    <3>1. StackBufs' = StackBufs /\ WorkBufs' = WorkBufs
      BY <1>0, <1>1, <2>1, SamePlaces DEF workVars
    <3>2. UNCHANGED H!handleVars
      BY <1>2, <3>1 DEF H!handleVars, H!packetVars, H!readVars, HeldBufs
    <3> QED BY <3>2 DEF HandleStep
  <2>2. CASE /\ StillOpen /\ cls' = [cls EXCEPT ![n] = "blocked"]
             /\ work_queue' = Append(work_queue, n)
    <3>1. n \notin Range(work_queue)
      BY <1>0, <1>1 DEF HeldBlocked
    <3>2. Range(work_queue') = Range(work_queue) \cup {n}
      BY <1>0, <2>2, <3>1, AppendToInjective
    <3>3. WorkBufs' = (WorkBufs \ {}) \cup A
      BY <1>0, <3>2 DEF WorkBufs
    <3> QED BY <1>6, <2>2, <3>3
  <2>3. CASE /\ StillOpen /\ cls' = [cls EXCEPT ![n] = "blocked"] /\ WorkFull
             /\ work_queue' = Append(Tail(work_queue), n)
    <3> DEFINE h == Head(work_queue)
    <3>1. /\ h \in NBLs /\ BufsOf(h) \subseteq WorkBufs
          /\ WorkBufs' = (WorkBufs \ BufsOf(h)) \cup A
      BY <1>0, <1>1, <2>3, WorkOverflows
    <3> QED BY <1>6, <2>3, <3>1
  <2> QED BY <1>7, <2>1, <2>2, <2>3 DEF ClassifyQueue
<1> QED BY <1>5, <1>7

(***************************************************************************)
(* Completing some of the requests that wait answers these reads.          *)
(***************************************************************************)
LEMMA AnswersReads ==
  ASSUME TypeInv, NEW R, R \subseteq WaitingReqs, CompleteAll(R),
         \A r \in Reqs : SameIdle(r)
  PROVE  H!Answer(R)
<1>1. completions \in [Reqs -> Nat] /\ R \subseteq Reqs
  BY DEF TypeInv, TypeOK, FatesTyped, WaitingReqs
<1>2. \A r \in Reqs : /\ (r \in R) => completions'[r] # 0
                      /\ (r \notin R) => completions'[r] = completions[r]
  BY <1>1 DEF CompleteAll
<1>3. \A r \in Reqs : pc'[r] = "idle" <=> pc[r] = "idle"
  BY DEF SameIdle
<1>4. WaitingReqs' = WaitingReqs \ R
  BY <1>2, <1>3 DEF WaitingReqs, Outstanding
<1>5. AnsweredReqs' = AnsweredReqs \cup R
  BY <1>1, <1>2 DEF AnsweredReqs
<1> QED BY <1>4, <1>5 DEF H!Answer

(***************************************************************************)
(* A step that leaves the lists, the queues and the fates alone.           *)
(***************************************************************************)
LEMMA SamePackets ==
  ASSUME UNCHANGED <<cls, work_queue, rest, packet_queue, pkt, read, sent>>
  PROVE  UNCHANGED <<StackBufs, HeldBufs, ReadBufs, SentBufs>>
BY SamePlaces DEF HeldBufs, ReadBufs, SentBufs

(***************************************************************************)
(* windivert_read_service_request gives a packet to a read that waits.     *)
(***************************************************************************)
LEMMA ServeHandle ==
  ASSUME TypeInv, RequestInv, FateInv, mode' = mode, NEW t \in Threads, Serve(t)
  PROVE  HandleStep
<1> DEFINE p == pkt[t]
           r == req[t]
<1>0. /\ Fates /\ HoldsPacket /\ HoldsRequest /\ RequestCompletedOnce
      /\ pc \in [Threads -> WorkerPCs \cup ReaderPCs]
      /\ completions \in [Reqs -> Nat] /\ read \in [Bufs -> Nat]
      /\ req \in [Threads -> Reqs \cup {Nil}] /\ Reqs \subseteq Threads
  BY DEF FateInv, HeldOnce, RequestInv, TypeInv, TypeOK, ThreadsTyped, FatesTyped,
     Threads
<1>1. /\ pc[t] \in {"fast", "serve"} /\ pkt' = [pkt EXCEPT ![t] = Nil]
      /\ read' = Count(read, {p}) \/ read' = read
      /\ completions' = [completions EXCEPT ![r] = @ + 1]
      /\ UNCHANGED <<cls, work_queue, rest, packet_queue, sent, state, filter>>
  BY DEF Serve, queueVars, workVars, lifeVars, nblVars
<1>2. p \in Bufs /\ p \in ServiceBufs /\ ServiceBufs' = ServiceBufs \ {p}
  BY <1>0, <1>1, ServiceDrops DEF HoldsPacket
<1>3. r \in Reqs /\ r \in WaitingReqs
  <2>1. r \in Reqs
    BY <1>0, <1>1 DEF HoldsRequest
  <2>2. Holders(r) # {}
    BY DEF Holders
  <2> QED BY <1>0, <2>1, <2>2 DEF RequestCompletedOnce, WaitingReqs
<1>4. \A q \in Reqs : SameIdle(q)
  BY <1>0, <1>1 DEF Serve, Goto, SameIdle
<1> HIDE DEF p, r
<1>5. CompleteAll({r})
  BY <1>0, <1>1, <1>3 DEF CompleteAll
<1>6. H!Answer({r})
  BY <1>3, <1>4, <1>5, AnswersReads
<1>7. /\ StackBufs' = StackBufs /\ WorkBufs' = WorkBufs
      /\ WorkerBufs' = WorkerBufs /\ QueueBufs' = QueueBufs /\ SentBufs' = SentBufs
  BY <1>1, SamePlaces DEF SentBufs
<1>8. p \in HeldBufs \ ReadBufs /\ HeldBufs' = HeldBufs \ {p}
  BY <1>0, <1>2, <1>7, HeldApart, PlacesApart DEF HeldBufs
<1>9. ReadBufs' = ReadBufs \cup {p} \/ ReadBufs' = ReadBufs
  BY <1>0, <1>1, <1>2 DEF ReadBufs, Count
<1>10. Life' = Life /\ IsSniff' = IsSniff
  BY <1>1 DEF Life, IsSniff
<1>11. H!Give(p, r)
  BY <1>6, <1>7, <1>8, <1>9, <1>10 DEF H!Give
<1>12. H!Next
  BY <1>2, <1>3, <1>11 DEF H!Next
<1> QED BY <1>12 DEF HandleStep

(***************************************************************************)
(* windivert_read asks for a packet, or fails the request itself;          *)
(* cancellation and the purge at cleanup fail those in the read queue.     *)
(***************************************************************************)
LEMMA ReadsHandle ==
  ASSUME TypeInv, RequestInv, RefInv, mode' = mode,
         CleanupPurge \/ \E r \in Reqs : Read(r) \/ Cancel(r)
  PROVE  HandleStep
<1>0. /\ NotSubmitted /\ RequestCompletedOnce
      /\ pc \in [Threads -> WorkerPCs \cup ReaderPCs] /\ Reqs \subseteq Threads
      /\ completions \in [Reqs -> Nat] /\ read_queue \subseteq Reqs
      /\ state \in {"OPEN", "CLOSING", "CLOSED"}
  BY DEF RequestInv, TypeInv, TypeOK, LifeTyped, ThreadsTyped, ParamsTyped,
     FatesTyped, Threads
<1>1. /\ UNCHANGED <<cls, work_queue, rest, packet_queue, pkt, read, sent>>
      /\ UNCHANGED <<state, filter>>
  BY DEF CleanupPurge, Read, Cancel, queueVars, workVars, lifeVars, nblVars,
     threadVars, fateVars
<1>2. UNCHANGED <<Life, IsSniff, StackBufs, HeldBufs, ReadBufs, SentBufs>>
  BY <1>1, SamePackets DEF Life, IsSniff
<1>3. ASSUME NEW R \in SUBSET read_queue, CompleteAll(R), pc' = pc
      PROVE  HandleStep
  <2>1. R \subseteq WaitingReqs /\ R \in SUBSET Reqs
    BY <1>0, <1>3 DEF RequestCompletedOnce, WaitingReqs
  <2>2. H!Answer(R)
    BY <1>3, <2>1, AnswersReads DEF SameIdle
  <2>3. H!Fail(R)
    BY <1>2, <2>2 DEF H!Fail, H!packetVars
  <2> QED BY <2>1, <2>3 DEF HandleStep, H!Next
<1>4. CASE CleanupPurge
  BY <1>3, <1>4 DEF CleanupPurge, threadVars
<1>5. ASSUME NEW r \in Reqs, Cancel(r) PROVE HandleStep
  <2>1. r \in read_queue /\ completions' = [completions EXCEPT ![r] = @ + 1] /\ pc' = pc
    BY <1>5 DEF Cancel, threadVars
  <2>2. CompleteAll({r})
    BY <1>0, <2>1 DEF CompleteAll
  <2> QED BY <1>3, <2>1, <2>2
<1>6. ASSUME NEW r \in Reqs, Read(r) PROVE HandleStep
  <2>1. pc[r] = "idle" /\ pc'[r] # "idle" /\ \A q \in Reqs \ {r} : pc'[q] = pc[q]
    BY <1>0, <1>6 DEF Read, Goto
  <2>2. r \notin WaitingReqs \cup AnsweredReqs /\ completions[r] = 0
    BY <1>0, <2>1 DEF NotSubmitted, WaitingReqs, AnsweredReqs, Outstanding
  <2>3. Life = state /\ state # "CLOSED"
    BY <1>6 DEF Read, Life, RefInv, FreedLast
  <2>4. CASE state = "OPEN" /\ completions' = completions
    <3>1. WaitingReqs' = WaitingReqs \cup {r} /\ AnsweredReqs' = AnsweredReqs
      BY <2>1, <2>2, <2>4 DEF WaitingReqs, AnsweredReqs, Outstanding
    <3>2. H!Ask(r)
      BY <1>2, <2>2, <2>3, <2>4, <3>1 DEF H!Ask, H!packetVars
    <3> QED BY <3>2 DEF HandleStep, H!Next
  <2>5. CASE completions' = [completions EXCEPT ![r] = @ + 1]
    <3>1. completions'[r] # 0 /\ \A q \in Reqs \ {r} : completions'[q] = completions[q]
      BY <1>0, <2>2, <2>5
    <3>2. WaitingReqs' = WaitingReqs /\ AnsweredReqs' = AnsweredReqs \cup {r}
      BY <2>1, <2>2, <3>1 DEF WaitingReqs, AnsweredReqs, Outstanding
    <3>3. H!Ask(r)
      BY <1>0, <1>2, <2>2, <2>3, <3>2 DEF H!Ask, H!packetVars
    <3> QED BY <3>3 DEF HandleStep, H!Next
  <2> QED BY <1>6, <2>4, <2>5 DEF Read
<1> QED BY <1>4, <1>5, <1>6

(***************************************************************************)
(* When windivert_close can run, the handle has no packet any more: the    *)
(* queues are empty, no worker runs, and a thread that services a packet   *)
(* would hold a request.                                                   *)
(***************************************************************************)
LEMMA NothingHeld ==
  ASSUME TypeInv, CleanupInv, RequestInv, BetweenWorks, HeldOnce,
         cleanup = "done", \A r \in Reqs : ~Outstanding(r)
  PROVE  HeldBufs = {}
<1>1. work_queue = <<>> /\ packet_queue = <<>> /\ \A w \in Workers : pc[w] = "idle"
  BY DEF CleanupInv, Drained, Quiesced, WorkerIdle
<1>2. WorkBufs = {} /\ QueueBufs = {}
  <2>1. Range(<<>>) = {}
    <3>1. DOMAIN <<>> = {}
      OBVIOUS
    <3> QED BY <3>1 DEF Range
  <2> QED BY <1>1, <2>1 DEF WorkBufs, QueueBufs
<1>3. WorkerBufs = {}
  <2>1. \A w \in Workers : work[w] \notin NBLs
    BY <1>1, ContextAssumption DEF BetweenWorks
  <2> QED BY <2>1 DEF WorkerBufs, HeldOnce, RestOwned
<1>4. ServiceBufs = {}
  <2> SUFFICES ASSUME NEW t \in Threads, pkt[t] \in Bufs PROVE FALSE
    BY DEF ServiceBufs
  <2>1. req[t] # Nil /\ req[t] \in Reqs \cup {Nil}
    BY ContextAssumption DEF HeldOnce, HoldsPacket, RequestInv, HoldsRequest,
       TypeInv, TypeOK, ThreadsTyped
  <2>2. Holders(req[t]) # {}
    BY DEF Holders
  <2> QED BY <2>1, <2>2 DEF RequestInv, RequestCompletedOnce
<1> QED BY <1>2, <1>3, <1>4 DEF HeldBufs

(***************************************************************************)
(* windivert_cleanup begins to close the handle, windivert_close closes it *)
(* and windivert_destroy frees it, in this order.                          *)
(***************************************************************************)
LEMMA CloseHandle ==
  ASSUME TypeInv, CleanupInv, RequestInv, RefInv, BetweenWorks, HeldOnce,
         mode' = mode, CleanupBegin \/ Close \/ Destroy
  PROVE  HandleStep
<1>0. filter \in {"on", "freed"} /\ (filter = "freed" => state = "CLOSED")
  BY DEF TypeInv, TypeOK, LifeTyped, RefInv, FreedLast
<1>1. UNCHANGED <<cls, work_queue, rest, packet_queue, pkt, read, sent, pc, completions>>
  BY DEF CleanupBegin, Close, Destroy, queueVars, workVars, nblVars, threadVars,
     reqVars, fateVars
<1>2. UNCHANGED <<IsSniff, StackBufs, HeldBufs, ReadBufs, SentBufs>>
  BY <1>1, SamePackets DEF IsSniff
<1>3. UNCHANGED <<WaitingReqs, AnsweredReqs>>
  BY <1>1, SameReads DEF SameIdle
<1>4. CleanupBegin => H!BeginClose
  BY <1>0 DEF CleanupBegin, Life, H!BeginClose
<1>5. ASSUME Close PROVE H!EndClose
  <2>1. HeldBufs = {} /\ WaitingReqs = {}
    BY <1>5, NothingHeld DEF Close, WaitingReqs
  <2> QED BY <1>0, <1>5, <2>1 DEF Close, Life, H!EndClose
<1>6. Destroy => H!Free
  BY DEF Destroy, Life, H!Free
<1>7. H!Close
  BY <1>2, <1>3, <1>4, <1>5, <1>6 DEF H!Close, H!packetVars, H!readVars
<1> QED BY <1>7 DEF HandleStep, H!Next

(***************************************************************************)
(* An open handle implements Handle, for any number of lists, requests and *)
(* threads and whatever the environment does: each step of a callout, a    *)
(* worker, a reader or the cleanup is a step of Handle, or changes nothing *)
(* that the application or the network can see.                            *)
(***************************************************************************)
THEOREM HandleImplemented == Spec => ImplementsHandle
<1>1. Init => H!Init
  <2> SUFFICES ASSUME Init PROVE H!Init
    OBVIOUS
  <2>1. DOMAIN <<>> = {}
    OBVIOUS
  <2>2. /\ \A w \in Workers : rest[w] = <<>>
        /\ \A t \in Threads : pkt[t] = Nil /\ pc[t] = "idle"
        /\ packet_queue = <<>> /\ work_queue = <<>>
        /\ \A n \in NBLs : cls[n] = "new"
        /\ \A b \in Bufs : read[b] = 0 /\ sent[b] = 0 /\ b # Nil
        /\ \A r \in Reqs : completions[r] = 0 /\ r \in Threads
    BY ContextAssumption DEF Init, Threads
  <2>3. Range(<<>>) = {}
    BY <2>1 DEF Range
  <2>4. /\ StackBufs = Bufs /\ WorkBufs = {} /\ WorkerBufs = {} /\ QueueBufs = {}
        /\ ServiceBufs = {} /\ ReadBufs = {} /\ SentBufs = {}
    BY <2>2, <2>3 DEF StackBufs, WorkBufs, WorkerBufs, QueueBufs, ServiceBufs,
       ReadBufs, SentBufs
  <2>5. WaitingReqs = {} /\ AnsweredReqs = {}
    BY <2>2 DEF WaitingReqs, AnsweredReqs, Outstanding
  <2>6. Life = "OPEN" /\ IsSniff \in BOOLEAN
    BY DEF Init, Life, IsSniff
  <2> QED BY <2>4, <2>5, <2>6 DEF H!Init, HeldBufs
<1>2. TypeInv /\ CleanupInv /\ RefInv /\ RequestInv /\ ListsInv /\ FateInv /\ [Next]_vars
        => [H!Next]_(H!handleVars)
  <2> SUFFICES ASSUME TypeInv, CleanupInv, RefInv, RequestInv, ListsInv, FateInv,
                      [Next]_vars
               PROVE  HandleStep
    BY DEF HandleStep
  <2>0. mode' = mode /\ BetweenWorks /\ HeldOnce
    BY NextMode DEF ListsInv, FateInv
  <2>1. CASE Quiet
    BY <2>1, QuietHandle
  <2>2. ASSUME NEW n \in NBLs, ClassifyNoMemory(n) \/ ClassifyQueue(n)
        PROVE  HandleStep
    BY <2>0, <2>2, ClassifyHandle
  <2>3. ASSUME NEW t \in Threads, Serve(t) PROVE HandleStep
    BY <2>0, <2>3, ServeHandle
  <2>4. CASE CleanupPurge \/ \E r \in Reqs : Read(r) \/ Cancel(r)
    BY <2>0, <2>4, ReadsHandle
  <2>5. CASE CleanupBegin \/ Close \/ Destroy
    BY <2>0, <2>5, CloseHandle
  <2> QED BY <2>1, <2>2, <2>3, <2>4, <2>5, QuietSteps DEF Loud
<1> QED BY <1>1, <1>2, TypeInvariance, CleanupInvariance, RefInvariance,
        RequestInvariance, ListsInvariance, FateInvariance, PTL
        DEF Spec, ImplementsHandle, H!Spec

(***************************************************************************)
(* What Handle promises holds of its implementation: a packet that was     *)
(* diverted is never both with the application and on the network, nothing *)
(* is given or put back that was not taken, and a closed handle has        *)
(* neither packets nor reads.                                              *)
(***************************************************************************)
THEOREM HandleKeepsItsPromises == Spec => [](H!Exclusive /\ H!Emptied)
<1> DEFINE Promise == H!Exclusive /\ H!Emptied
<1>1. H!Init => Promise
  BY DEF H!Init, H!Exclusive, H!Emptied
<1>2. Promise /\ [H!Next]_(H!handleVars) => Promise'
  <2> SUFFICES ASSUME H!Exclusive, H!Emptied, [H!Next]_(H!handleVars) PROVE Promise'
    OBVIOUS
  <2> USE DEF H!Exclusive, H!Emptied, H!readVars, H!packetVars
  <2>1. ASSUME NEW A, H!Take(A) \/ H!Miss(A) PROVE Promise'
    BY <2>1 DEF H!Take, H!Miss
  <2>2. ASSUME NEW S, H!Return(S) PROVE Promise'
    BY <2>2 DEF H!Return
  <2>3. ASSUME NEW S, H!Lose(S) PROVE Promise'
    BY <2>3 DEF H!Lose
  <2>4. ASSUME NEW r, H!Ask(r) PROVE Promise'
    BY <2>4 DEF H!Ask
  <2>5. ASSUME NEW p, NEW r, H!Give(p, r) PROVE Promise'
    BY <2>5 DEF H!Give, H!Answer
  <2>6. ASSUME NEW R, H!Fail(R) PROVE Promise'
    BY <2>6 DEF H!Fail, H!Answer
  <2>7. CASE H!Close
    BY <2>7 DEF H!Close, H!BeginClose, H!EndClose, H!Free
  <2>8. CASE UNCHANGED H!handleVars
    BY <2>8 DEF H!handleVars
  <2> HIDE DEF Promise
  <2> QED BY <2>1, <2>2, <2>3, <2>4, <2>5, <2>6, <2>7, <2>8 DEF H!Next
<1> QED BY <1>1, <1>2, HandleImplemented, PTL DEF ImplementsHandle, H!Spec
=============================================================================
