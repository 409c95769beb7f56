---------------------------- MODULE DivertHandle ----------------------------
(***************************************************************************)
(* The packet path as an implementation of Handle.  A buffer is on the     *)
(* stack as long as no callout has blocked its list.  The handle has those *)
(* of the lists that wait as work, those a worker has still to visit, the  *)
(* packets in the packet queue and those a thread is giving to a read.     *)
(***************************************************************************)
EXTENDS DivertContext

StackBufs == {b \in Bufs : \A n \in NBLs : b \in BufsOf(n) => cls[n] # "blocked"}
WorkBufs == {b \in Bufs : \E n \in Range(work_queue) : b \in BufsOf(n)}
WorkerBufs == {b \in Bufs : \E w \in Workers : b \in Range(rest[w])}
QueueBufs == Range(packet_queue)
ServiceBufs == {b \in Bufs : \E t \in Threads : pkt[t] = b}
HeldBufs == WorkBufs \cup WorkerBufs \cup QueueBufs \cup ServiceBufs

ReadBufs == {b \in Bufs : read[b] # 0}
SentBufs == {b \in Bufs : sent[b] # 0}

WaitingReqs == {r \in Reqs : Outstanding(r)}
AnsweredReqs == {r \in Reqs : completions[r] # 0}

Life == IF filter = "freed" THEN "FREED" ELSE state

H == INSTANCE Handle WITH
       Packets <- Bufs, Lists <- {BufsOf(n) : n \in NBLs}, Reads <- Reqs,
       life <- Life, sniff <- IsSniff,
       stack <- StackBufs, held <- HeldBufs, given <- ReadBufs, back <- SentBufs,
       waiting <- WaitingReqs, answered <- AnsweredReqs

(***************************************************************************)
(* Whatever its threads do, an open handle behaves like Handle.            *)
(***************************************************************************)
ImplementsHandle == H!Spec
=============================================================================
