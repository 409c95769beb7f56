--------------------------- MODULE DivertContext ---------------------------
(***************************************************************************)
(* The packet path of one open WinDivert handle (context_t of              *)
(* sys/windivert.c): WFP classify callbacks, the out-of-band worker, the   *)
(* packet queue, the pending read requests, and the cleanup that runs when *)
(* the handle is closed.                                                   *)
(*                                                                         *)
(* Grain of atomicity.  Every access to the context's shared fields is     *)
(* made under context->lock, so one action is one critical section,        *)
(* together with the thread-private code that follows it up to the next    *)
(* acquisition of the lock.  Between two critical sections of one thread   *)
(* every other thread may run.                                             *)
(*                                                                         *)
(* Data.  A NET_BUFFER_LIST is a member of NBLs, Buffers gives its         *)
(* NET_BUFFERs, Match the buffers the handle's filter accepts.  A packet_t *)
(* is named by the buffer it copies.  Elapsed time is not modelled: each   *)
(* WINDIVERT_TIMEOUT test may come out either way.                         *)
(***************************************************************************)
EXTENDS Integers, Sequences, Functions

CONSTANTS
  NBLs,        \* NET_BUFFER_LISTs indicated to the handle's callouts
  Bufs,        \* NET_BUFFERs
  Reqs,        \* read requests; each is also the thread that submits it
  Workers,     \* system threads that can run the work item's callback
  Buffers,     \* the NET_BUFFERs of each list, in order
  Match,       \* buffers accepted by the filter
  Inbound,     \* lists indicated with data starting after the IP header
  DataLen,     \* NET_BUFFER_DATA_LENGTH
  LenParams,   \* QUEUE_LEN values the application sets, the first one included
  SizeParams,  \* QUEUE_SIZE values, likewise
  WorkMax,     \* WINDIVERT_WORK_QUEUE_LEN_MAX
  Modes,       \* the flags a handle may have: "DIVERT", "SNIFF", "DROP"
  May,         \* what the environment may do to the driver: see Mays
  Nil          \* no packet, no request, no work

(***************************************************************************)
(* Failures, elapsed time and application calls that a model may include.  *)
(***************************************************************************)
Mays == {"nomem", "retreat", "inject", "forward", "service", "timeout",
         "cancel", "setparam"}

ASSUME ContextAssumption ==
  /\ Reqs \cap Workers = {}
  /\ Nil \notin NBLs \cup Bufs \cup Reqs
  /\ Buffers \in [NBLs -> Seq(Bufs)]
  /\ Match \subseteq Bufs
  /\ Inbound \subseteq NBLs
  /\ DataLen \in [Bufs -> Nat \ {0}]
  /\ LenParams \subseteq Nat \ {0} /\ LenParams # {}
  /\ SizeParams \subseteq Nat /\ SizeParams # {}
  /\ WorkMax \in Nat \ {0}
  /\ Modes \subseteq {"DIVERT", "SNIFF", "DROP"} /\ Modes # {}
  /\ May \subseteq Mays

(***************************************************************************)
(* A buffer belongs to one list, at one place in it, and an inbound list   *)
(* has exactly one buffer (comment at windivert_classify_callout).         *)
(***************************************************************************)
ASSUME BufferAssumption ==
  /\ \A m, n \in NBLs : \A i \in DOMAIN Buffers[m], j \in DOMAIN Buffers[n] :
       Buffers[m][i] = Buffers[n][j] => m = n /\ i = j
  /\ \A n \in Inbound : Len(Buffers[n]) = 1

VARIABLES
  state,                   \* context->state, from OPEN on
  filter,                  \* context->filter: "on" or "freed"
  objects,                 \* framework objects not yet deleted
  objrefs,                 \* references that classify callbacks hold
  work_queue, work_queue_length,
  packet_queue, packet_queue_length, packet_queue_size,
  packet_queue_maxlength, packet_queue_maxsize,
  mode,                    \* context->flags, which do not change once it is on
  read_queue,              \* requests pending in the manual WDF queue
  enqueued,                \* the work item waits for a system thread
  cls,                     \* progress of the classify callback of each list
  pc,                      \* control point of each worker and reader thread
  work,                    \* work item held by a worker
  rest,                    \* its buffers from buffer_itr on
  pkt, req,                \* packet and request a thread is servicing
  cleanup, cleanup_ok,     \* control point and `ok' of windivert_cleanup
  atip,                    \* does the list's data start at the IP header?
  refs,                    \* references the driver holds on each list
  inflight,                \* injected copies of each list not yet completed
  completions,             \* how often each request was completed
  read,                    \* how often each buffer was given to the user
  sent,                    \* how often each buffer was (re)injected
  lost,                    \* why each buffer, or its copy, was discarded
  malformed                \* buffers injected without their IP header

queueVars  == <<packet_queue, packet_queue_length, packet_queue_size>>
paramVars  == <<packet_queue_maxlength, packet_queue_maxsize, mode>>
workVars   == <<work_queue, work_queue_length, enqueued>>
lifeVars   == <<state, filter, objects, objrefs, cleanup, cleanup_ok>>
threadVars == <<pc, work, rest, pkt, req>>
nblVars    == <<cls, atip, refs, inflight>>
reqVars    == <<read_queue, completions>>
fateVars   == <<read, sent, lost, malformed>>

vars == <<queueVars, paramVars, workVars, lifeVars, threadVars, nblVars,
          reqVars, fateVars>>

Threads == Workers \cup Reqs
AllObjects == {"read_queue", "worker", "callouts"}
IsSniff == mode = "SNIFF"

Reasons == {"nomem", "overflow", "timeout", "dropped", "large", "evicted",
            "closed", "inject", "service", "abandoned"}

BufsOf(n) == Range(Buffers[n])
Matches(n) == BufsOf(n) \cap Match # {}

(***************************************************************************)
(* Bookkeeping of what became of the buffers in S.                         *)
(***************************************************************************)
Count(f, S) == [b \in Bufs |-> IF b \in S THEN f[b] + 1 ELSE f[b]]
Lose(S, why) ==
  lost' = [b \in Bufs |-> IF b \in S THEN lost[b] \cup {why} ELSE lost[b]]

Goto(t, p) == pc' = [pc EXCEPT ![t] = p]

(***************************************************************************)
(* The state check repeated each time a routine takes the lock again after *)
(* having released it.  (Mutant: the first check is thought to suffice.)   *)
(***************************************************************************)
StillOpenStale == TRUE
StillOpen == state = "OPEN"

(***************************************************************************)
(* windivert_create, the SET_* ioctls and START_FILTER have run.           *)
(***************************************************************************)
Init ==
  /\ state = "OPEN" /\ filter = "on"
  /\ objects = AllObjects /\ objrefs = 0
  /\ work_queue = <<>> /\ work_queue_length = 0
  /\ packet_queue = <<>> /\ packet_queue_length = 0 /\ packet_queue_size = 0
  /\ packet_queue_maxlength \in LenParams
  /\ packet_queue_maxsize \in SizeParams
  /\ mode \in Modes
  /\ read_queue = {} /\ enqueued = FALSE
  /\ cls = [n \in NBLs |-> "new"]
  /\ pc = [t \in Threads |-> "idle"]
  /\ work = [w \in Workers |-> Nil] /\ rest = [w \in Workers |-> <<>>]
  /\ pkt = [t \in Threads |-> Nil] /\ req = [t \in Threads |-> Nil]
  /\ cleanup = "idle" /\ cleanup_ok = TRUE
  /\ atip = [n \in NBLs |-> n \notin Inbound]
  /\ refs = [n \in NBLs |-> 0] /\ inflight = [n \in NBLs |-> 0]
  /\ completions = [r \in Reqs |-> 0]
  /\ read = [b \in Bufs |-> 0] /\ sent = [b \in Bufs |-> 0]
  /\ lost = [b \in Bufs |-> {}] /\ malformed = {}

-----------------------------------------------------------------------------
(***************************************************************************)
(* Re-injection (windivert_reinject_packet).  Put(S, n) injects a copy of  *)
(* the buffers S of list n; the copy holds a reference on n until its      *)
(* completion routine runs.  If the injection itself fails the copy is     *)
(* freed and the buffers are lost, yet the routine reports success.  If    *)
(* memory for the copy is short it reports FALSE, without any effect.      *)
(***************************************************************************)
PutSucceeds(S, n) ==
  /\ sent' = Count(sent, S)
  /\ refs' = [refs EXCEPT ![n] = @ + 1]
  /\ inflight' = [inflight EXCEPT ![n] = @ + 1]
  /\ malformed' = IF atip[n] THEN malformed ELSE malformed \cup S
  /\ UNCHANGED lost

PutIsRefused(S) ==
  /\ "inject" \in May
  /\ Lose(S, "inject")
  /\ UNCHANGED <<sent, refs, inflight, malformed>>

Put(S, n) == PutSucceeds(S, n) \/ PutIsRefused(S)

(***************************************************************************)
(* Completion of an injected copy (windivert_reinject_complete and         *)
(* windivert_reinject_clone_complete).                                     *)
(***************************************************************************)
(* FwpsDereferenceNetBufferList. *)
ReleaseList(n) == refs' = [refs EXCEPT ![n] = @ - 1]

InjectComplete(n) ==
  /\ inflight[n] > 0
  /\ inflight' = [inflight EXCEPT ![n] = @ - 1]
  /\ ReleaseList(n)
  /\ UNCHANGED <<queueVars, paramVars, workVars, lifeVars, threadVars, cls,
                 atip, reqVars, fateVars>>

-----------------------------------------------------------------------------
(***************************************************************************)
(* WdfObjectReference on the file object.                                  *)
(***************************************************************************)
Reference == objrefs' = objrefs + 1

(***************************************************************************)
(* windivert_classify_callout: first critical section.  The callout lets   *)
(* the list pass unless the handle is open, else it takes a reference on   *)
(* the file object and leaves the lock with a pointer to the filter.       *)
(***************************************************************************)
ClassifyEnter(n) ==
  /\ cls[n] = "new" /\ "callouts" \in objects
  /\ \/ /\ state # "OPEN"
        /\ cls' = [cls EXCEPT ![n] = "continued"]
        /\ UNCHANGED objrefs
     \/ /\ state = "OPEN"
        /\ cls' = [cls EXCEPT ![n] = "entered"]
        /\ Reference
  /\ UNCHANGED <<queueVars, paramVars, workVars, state, filter, objects,
                 cleanup, cleanup_ok, threadVars, atip, refs, inflight,
                 reqVars, fateVars>>

(***************************************************************************)
(* Outside the lock: retreat to the IP header, look for a matching buffer, *)
(* advance again.  A list that the loopback and priority checks let pass   *)
(* is treated like one without a match.                                    *)
(***************************************************************************)
ClassifyFilter(n) ==
  /\ cls[n] = "entered"
  /\ \/ /\ ~Matches(n) \/ (n \in Inbound /\ "retreat" \in May)
        /\ cls' = [cls EXCEPT ![n] = "continued"]
        /\ objrefs' = objrefs - 1
     \/ /\ Matches(n)
        /\ cls' = [cls EXCEPT ![n] = "matched"]
        /\ UNCHANGED objrefs
  /\ UNCHANGED <<queueVars, paramVars, workVars, state, filter, objects,
                 cleanup, cleanup_ok, threadVars, atip, refs, inflight,
                 reqVars, fateVars>>

(***************************************************************************)
(* No memory for the work structure: the list is blocked all the same.     *)
(***************************************************************************)
ClassifyNoMemory(n) ==
  /\ cls[n] = "matched" /\ "nomem" \in May
  /\ cls' = [cls EXCEPT ![n] = "blocked"]
  /\ objrefs' = objrefs - 1
  /\ Lose(BufsOf(n), "nomem")
  /\ UNCHANGED <<queueVars, paramVars, workVars, state, filter, objects,
                 cleanup, cleanup_ok, threadVars, atip, refs, inflight,
                 reqVars, read, sent, malformed>>

(***************************************************************************)
(* Second critical section: hand the list to the worker, making room by    *)
(* discarding the oldest work if there is too much of it.                  *)
(***************************************************************************)
WorkFull == work_queue_length + 1 > WorkMax

(* WdfWorkItemEnqueue.  (Mutant: the call is forgotten.) *)
WakeWorkerNot == UNCHANGED enqueued
WakeWorker == enqueued' = TRUE

ClassifyQueue(n) ==
  /\ cls[n] = "matched"
  /\ objrefs' = objrefs - 1
  /\ \/ /\ ~StillOpen
        /\ cls' = [cls EXCEPT ![n] = "continued"]
        /\ UNCHANGED <<workVars, refs, lost>>
     \/ /\ StillOpen /\ ~WorkFull
        /\ cls' = [cls EXCEPT ![n] = "blocked"]
        /\ work_queue' = Append(work_queue, n)
        /\ work_queue_length' = work_queue_length + 1
        /\ WakeWorker
        /\ refs' = [refs EXCEPT ![n] = @ + 1]
        /\ UNCHANGED lost
     \/ /\ StillOpen /\ WorkFull
        /\ cls' = [cls EXCEPT ![n] = "blocked"]
        /\ work_queue' = Append(Tail(work_queue), n)
        /\ WakeWorker
        /\ refs' = [refs EXCEPT ![n] = @ + 1, ![Head(work_queue)] = @ - 1]
        /\ Lose(BufsOf(Head(work_queue)), "overflow")
        /\ UNCHANGED work_queue_length
  /\ UNCHANGED <<queueVars, paramVars, state, filter, objects, cleanup,
                 cleanup_ok, threadVars, atip, inflight, reqVars, read, sent,
                 malformed>>

-----------------------------------------------------------------------------
(***************************************************************************)
(* The framework runs the work item's callback.  The item can be enqueued  *)
(* again while its callback runs, and AutomaticSerialization is off, so    *)
(* several threads can be in windivert_worker at once.                     *)
(***************************************************************************)
WorkerStart(w) ==
  /\ pc[w] = "idle" /\ enqueued
  /\ enqueued' = FALSE
  /\ Goto(w, "work")
  /\ UNCHANGED <<queueVars, paramVars, work_queue, work_queue_length,
                 lifeVars, work, rest, pkt, req, nblVars, reqVars, fateVars>>

(***************************************************************************)
(* windivert_worker: return, or take the next work item and, outside the   *)
(* lock, retreat its list to the IP header.  Nothing is done with a list   *)
(* that cannot be retreated.                                               *)
(***************************************************************************)
(* NdisRetreatNetBufferDataStart, NdisAdvanceNetBufferDataStart.
   (Mutants: either is forgotten.) *)
LeaveAsIs(n) == UNCHANGED atip
Retreat(n) == atip' = [atip EXCEPT ![n] = TRUE]
Advance(n) == atip' = [atip EXCEPT ![n] = n \notin Inbound]

WorkerReturn(w) ==
  /\ pc[w] = "work"
  /\ state # "OPEN" \/ work_queue = <<>>
  /\ Goto(w, "idle")
  /\ UNCHANGED <<queueVars, paramVars, workVars, lifeVars, work, rest, pkt,
                 req, nblVars, reqVars, fateVars>>

WorkerTake(w) ==
  /\ pc[w] = "work" /\ state = "OPEN" /\ work_queue # <<>>
  /\ LET n == Head(work_queue) IN
     /\ work' = [work EXCEPT ![w] = n]
     /\ rest' = [rest EXCEPT ![w] = Buffers[n]]
     /\ \/ /\ Retreat(n)
           /\ Goto(w, IF IsSniff THEN "sniff" ELSE "next")
        \/ /\ n \in Inbound /\ "retreat" \in May
           /\ UNCHANGED atip
           /\ Goto(w, "finish")
  /\ work_queue' = Tail(work_queue)
  /\ work_queue_length' = work_queue_length - 1
  /\ UNCHANGED <<queueVars, paramVars, enqueued, lifeVars, pkt, req, cls,
                 refs, inflight, reqVars, fateVars>>

(***************************************************************************)
(* In SNIFF mode the whole list is put back on the network first.          *)
(***************************************************************************)
WorkerSniff(w) ==
  /\ pc[w] = "sniff"
  /\ \/ /\ Put(BufsOf(work[w]), work[w])
        /\ Goto(w, "next")
        /\ UNCHANGED read
     \/ /\ "nomem" \in May
        /\ Goto(w, "finish")
        /\ UNCHANGED <<refs, inflight, fateVars>>
  /\ UNCHANGED <<queueVars, paramVars, workVars, lifeVars, work, rest, pkt,
                 req, cls, atip, reqVars>>

(***************************************************************************)
(* The buffer loop of windivert_worker: a matching buffer goes to          *)
(* windivert_queue_packet, any other is put back on the network (in SNIFF  *)
(* mode it already is); a FALSE result abandons the rest of the list.      *)
(***************************************************************************)
WorkerNext(w) ==
  /\ pc[w] = "next"
  /\ \/ /\ rest[w] = <<>>
        /\ Goto(w, "finish")
        /\ UNCHANGED <<rest, refs, inflight, fateVars>>
     \/ /\ rest[w] # <<>> /\ Head(rest[w]) \in Match
        /\ Goto(w, "queue")
        /\ UNCHANGED <<rest, refs, inflight, fateVars>>
     \/ /\ rest[w] # <<>> /\ Head(rest[w]) \notin Match
        /\ \/ /\ ~IsSniff
              /\ Put({Head(rest[w])}, work[w])
              /\ rest' = [rest EXCEPT ![w] = Tail(@)]
              /\ UNCHANGED <<pc, read>>
           \/ /\ ~IsSniff /\ "nomem" \in May
              /\ Goto(w, "finish")
              /\ UNCHANGED <<rest, refs, inflight, fateVars>>
           \/ /\ IsSniff
              /\ rest' = [rest EXCEPT ![w] = Tail(@)]
              /\ UNCHANGED <<pc, refs, inflight, fateVars>>
  /\ UNCHANGED <<queueVars, paramVars, workVars, lifeVars, work, pkt, req,
                 cls, atip, reqVars>>

(***************************************************************************)
(* windivert_worker_complete: advance past the IP header again, release    *)
(* the list.  Buffers not yet dealt with are gone.                         *)
(***************************************************************************)
WorkerFinish(w) ==
  /\ pc[w] = "finish"
  /\ Advance(work[w])
  /\ ReleaseList(work[w])
  /\ Lose(Range(rest[w]), "abandoned")
  /\ work' = [work EXCEPT ![w] = Nil]
  /\ rest' = [rest EXCEPT ![w] = <<>>]
  /\ Goto(w, "work")
  /\ UNCHANGED <<queueVars, paramVars, workVars, lifeVars, pkt, req, cls,
                 inflight, reqVars, read, sent, malformed>>

-----------------------------------------------------------------------------
(***************************************************************************)
(* windivert_queue_packet: the first critical section decides whether the  *)
(* packet is refused (handle closing), dropped, given to a waiting reader  *)
(* at once (fast path), or copied for the queue (slow path).               *)
(***************************************************************************)
(* A packet is discarded and the loop goes on.  (Mutant: the loop's cursor
   is not moved.) *)
SkipTwice(w, why) ==
  /\ Lose({Head(rest[w])}, why)
  /\ Goto(w, "next")
  /\ UNCHANGED rest

Skip(w, why) ==
  /\ Lose({Head(rest[w])}, why)
  /\ rest' = [rest EXCEPT ![w] = Tail(@)]
  /\ Goto(w, "next")

(* (Mutant: packets that wait already are not considered.) *)
ReaderWaitsAny == read_queue # {}
ReaderWaits == packet_queue = <<>> /\ read_queue # {}

(* WdfIoQueueRetrieveNextRequest.  (Mutant: the request is found but not
   taken out of the queue.) *)
PeekRequest(t) ==
  /\ \E r \in read_queue : req' = [req EXCEPT ![t] = r]
  /\ UNCHANGED read_queue

TakeRequest(t) ==
  \E r \in read_queue :
    /\ read_queue' = read_queue \ {r}
    /\ req' = [req EXCEPT ![t] = r]

QueueRefuse(w) ==
  /\ pc[w] = "queue"
  /\ \/ state # "OPEN"
     \/ "nomem" \in May /\ mode # "DROP" /\ ~ReaderWaits
  /\ Goto(w, "finish")
  /\ UNCHANGED <<queueVars, paramVars, workVars, lifeVars, work, rest, pkt,
                 req, nblVars, reqVars, fateVars>>

QueueDrop(w) ==
  /\ pc[w] = "queue" /\ state = "OPEN"
  /\ \/ mode = "DROP" /\ Skip(w, "dropped")
     \/ mode # "DROP" /\ "timeout" \in May /\ Skip(w, "timeout")
  /\ UNCHANGED <<queueVars, paramVars, workVars, lifeVars, work, pkt, req,
                 nblVars, reqVars, read, sent, malformed>>

QueueFast(w) ==
  /\ pc[w] = "queue" /\ state = "OPEN" /\ mode # "DROP"
  /\ ReaderWaits
  /\ TakeRequest(w)
  /\ pkt' = [pkt EXCEPT ![w] = Head(rest[w])]
  /\ rest' = [rest EXCEPT ![w] = Tail(@)]
  /\ Goto(w, "fast")
  /\ UNCHANGED <<queueVars, paramVars, workVars, lifeVars, work, nblVars,
                 completions, fateVars>>

QueueCopy(w) ==
  /\ pc[w] = "queue" /\ state = "OPEN" /\ mode # "DROP"
  /\ ~ReaderWaits
  /\ Goto(w, "insert")
  /\ UNCHANGED <<queueVars, paramVars, workVars, lifeVars, work, rest, pkt,
                 req, nblVars, reqVars, fateVars>>

(***************************************************************************)
(* The slow path's loop: each turn is a critical section that refuses,     *)
(* drops or inserts the packet, or evicts the oldest one and tries again.  *)
(***************************************************************************)
(* (Mutant: the corner case is not considered.) *)
NeverTooLarge(b) == FALSE
TooLarge(b) == DataLen[b] > packet_queue_maxsize
QueueFull(b) == \/ packet_queue_size + DataLen[b] > packet_queue_maxsize
                \/ packet_queue_length + 1 > packet_queue_maxlength

InsertRefuse(w) ==
  /\ pc[w] = "insert" /\ ~StillOpen
  /\ Goto(w, "finish")
  /\ UNCHANGED <<queueVars, paramVars, workVars, lifeVars, work, rest, pkt,
                 req, nblVars, reqVars, fateVars>>

InsertDrop(w) ==
  /\ pc[w] = "insert" /\ StillOpen
  /\ \/ TooLarge(Head(rest[w])) /\ Skip(w, "large")
     \/ /\ ~TooLarge(Head(rest[w])) /\ "timeout" \in May
        /\ Skip(w, "timeout")
  /\ UNCHANGED <<queueVars, paramVars, workVars, lifeVars, work, pkt, req,
                 nblVars, reqVars, read, sent, malformed>>

(***************************************************************************)
(* The head of the packet queue leaves it.  (Mutants: its size stays       *)
(* counted; it is not unlinked.)                                           *)
(***************************************************************************)
RemoveHeadKeepSize ==
  /\ packet_queue' = Tail(packet_queue)
  /\ packet_queue_length' = packet_queue_length - 1
  /\ UNCHANGED packet_queue_size

PeekHead == UNCHANGED queueVars

RemoveHead ==
  /\ packet_queue' = Tail(packet_queue)
  /\ packet_queue_length' = packet_queue_length - 1
  /\ packet_queue_size' = packet_queue_size - DataLen[Head(packet_queue)]

Evicts(w) ==
  /\ pc[w] = "insert" /\ StillOpen
  /\ ~TooLarge(Head(rest[w])) /\ QueueFull(Head(rest[w]))

InsertEvict(w) ==
  /\ Evicts(w)
  /\ RemoveHead
  /\ Lose({Head(packet_queue)}, "evicted")
  /\ UNCHANGED <<paramVars, workVars, lifeVars, threadVars, nblVars, reqVars,
                 read, sent, malformed>>

InsertThen(w, p) ==
  /\ pc[w] = "insert" /\ StillOpen
  /\ ~TooLarge(Head(rest[w])) /\ ~QueueFull(Head(rest[w]))
  /\ packet_queue' = Append(packet_queue, Head(rest[w]))
  /\ packet_queue_length' = packet_queue_length + 1
  /\ packet_queue_size' = packet_queue_size + DataLen[Head(rest[w])]
  /\ rest' = [rest EXCEPT ![w] = Tail(@)]
  /\ Goto(w, p)
  /\ UNCHANGED <<paramVars, workVars, lifeVars, work, pkt, req, nblVars,
                 reqVars, fateVars>>

(* (Mutant: the pending requests are not serviced afterwards.) *)
InsertOnly(w) == InsertThen(w, "next")
Insert(w) == InsertThen(w, "svc")

-----------------------------------------------------------------------------
(***************************************************************************)
(* windivert_read: forward the request to the read queue under the lock;   *)
(* if the handle is not open, or the framework refuses the request, the    *)
(* ioctl handler fails it.                                                 *)
(***************************************************************************)
Read(r) ==
  /\ pc[r] = "idle" /\ state # "CLOSED"
  /\ \/ /\ state = "OPEN"
        /\ read_queue' = read_queue \cup {r}
        /\ Goto(r, "svc")
        /\ UNCHANGED completions
     \/ /\ state # "OPEN" \/ "forward" \in May
        /\ completions' = [completions EXCEPT ![r] = @ + 1]
        /\ Goto(r, "done")
        /\ UNCHANGED read_queue
  /\ UNCHANGED <<queueVars, paramVars, workVars, lifeVars, work, rest, pkt,
                 req, nblVars, fateVars>>

(***************************************************************************)
(* windivert_read_service, run by readers and by workers: each turn of its *)
(* loop discards an expired packet, or pairs the oldest packet with a      *)
(* pending request, or ends the loop.                                      *)
(***************************************************************************)
ServiceExpire(t) ==
  /\ pc[t] = "svc" /\ state = "OPEN" /\ packet_queue # <<>>
  /\ "timeout" \in May
  /\ RemoveHead
  /\ Lose({Head(packet_queue)}, "timeout")
  /\ UNCHANGED <<paramVars, workVars, lifeVars, threadVars, nblVars, reqVars,
                 read, sent, malformed>>

ServicePair(t) ==
  /\ pc[t] = "svc" /\ state = "OPEN" /\ packet_queue # <<>>
  /\ TakeRequest(t)
  /\ pkt' = [pkt EXCEPT ![t] = Head(packet_queue)]
  /\ RemoveHead
  /\ Goto(t, "serve")
  /\ UNCHANGED <<paramVars, workVars, lifeVars, work, rest, nblVars,
                 completions, fateVars>>

(* The caller the loop returns to.  (Mutant: only workers are thought of.) *)
ToWorker(t) == "next"
Caller(t) == IF t \in Workers THEN "next" ELSE "done"

ServiceReturn(t) ==
  /\ pc[t] = "svc"
  /\ state # "OPEN" \/ packet_queue = <<>> \/ read_queue = {}
  /\ Goto(t, Caller(t))
  /\ UNCHANGED <<queueVars, paramVars, workVars, lifeVars, work, rest, pkt,
                 req, nblVars, reqVars, fateVars>>

(***************************************************************************)
(* windivert_read_service_request: outside the lock, copy the packet into  *)
(* the request and complete it.  If the request's buffer cannot be mapped, *)
(* or the packet's hop limit is used up, the request fails and the packet  *)
(* is gone.                                                                *)
(***************************************************************************)
Serve(t) ==
  /\ pc[t] \in {"fast", "serve"}
  /\ \/ /\ read' = Count(read, {pkt[t]})
        /\ UNCHANGED lost
     \/ /\ "service" \in May
        /\ Lose({pkt[t]}, "service")
        /\ UNCHANGED read
  /\ completions' = [completions EXCEPT ![req[t]] = @ + 1]
  /\ pkt' = [pkt EXCEPT ![t] = Nil]
  /\ req' = [req EXCEPT ![t] = Nil]
  /\ Goto(t, IF pc[t] = "fast" THEN "next" ELSE "svc")
  /\ UNCHANGED <<queueVars, paramVars, workVars, lifeVars, work, rest,
                 nblVars, read_queue, sent, malformed>>

(***************************************************************************)
(* The application cancels a pending read: the framework removes it from   *)
(* the read queue and completes it.                                        *)
(***************************************************************************)
Cancel(r) ==
  /\ "cancel" \in May /\ r \in read_queue
  /\ read_queue' = read_queue \ {r}
  /\ completions' = [completions EXCEPT ![r] = @ + 1]
  /\ UNCHANGED <<queueVars, paramVars, workVars, lifeVars, threadVars,
                 nblVars, fateVars>>

(***************************************************************************)
(* IOCTL_WINDIVERT_SET_PARAM, QUEUE_LEN and QUEUE_SIZE.                    *)
(***************************************************************************)
SetParam ==
  /\ "setparam" \in May /\ state = "OPEN"
  /\ \/ packet_queue_maxlength' \in LenParams /\ UNCHANGED packet_queue_maxsize
     \/ packet_queue_maxsize' \in SizeParams /\ UNCHANGED packet_queue_maxlength
  /\ UNCHANGED <<queueVars, mode, workVars, lifeVars, threadVars, nblVars,
                 reqVars, fateVars>>

-----------------------------------------------------------------------------
(***************************************************************************)
(* windivert_cleanup, called when the last handle is closed.               *)
(***************************************************************************)
CleanupBegin ==
  /\ cleanup = "idle" /\ state = "OPEN"
  /\ state' = "CLOSING"
  /\ cleanup' = "packets"
  /\ UNCHANGED <<queueVars, paramVars, workVars, filter, objects, objrefs,
                 cleanup_ok, threadVars, nblVars, reqVars, fateVars>>

(***************************************************************************)
(* The first loop empties the packet queue.  A packet goes back on the     *)
(* network unless it has expired, it never left it (SNIFF), or a copy of   *)
(* this or an earlier one could not be allocated.                          *)
(***************************************************************************)
(* (Mutant: sniffed packets are not told apart.) *)
NeverSent == FALSE
AlreadySent == IsSniff

CleanupPacket ==
  /\ cleanup = "packets" /\ packet_queue # <<>>
  /\ RemoveHead
  /\ LET b == Head(packet_queue) IN
     \/ /\ ~cleanup_ok \/ AlreadySent
        /\ Lose({b}, "closed")
        /\ UNCHANGED <<sent, cleanup_ok>>
     \/ /\ "timeout" \in May
        /\ Lose({b}, "timeout")
        /\ UNCHANGED <<sent, cleanup_ok>>
     \/ /\ cleanup_ok /\ ~AlreadySent
        /\ sent' = Count(sent, {b})
        /\ UNCHANGED <<lost, cleanup_ok>>
     \/ /\ cleanup_ok /\ ~AlreadySent /\ "inject" \in May
        /\ Lose({b}, "inject")
        /\ UNCHANGED <<sent, cleanup_ok>>
     \/ /\ cleanup_ok /\ ~AlreadySent /\ "nomem" \in May
        /\ Lose({b}, "nomem")
        /\ cleanup_ok' = FALSE
        /\ UNCHANGED sent
  /\ UNCHANGED <<paramVars, workVars, state, filter, objects, objrefs,
                 cleanup, threadVars, nblVars, reqVars, read, malformed>>

CleanupPacketsDone ==
  /\ cleanup = "packets" /\ packet_queue = <<>>
  /\ cleanup' = "works"
  /\ UNCHANGED <<queueVars, paramVars, workVars, state, filter, objects,
                 objrefs, cleanup_ok, threadVars, nblVars, reqVars, fateVars>>

(***************************************************************************)
(* The second loop empties the work queue: each list is put back whole, as *)
(* it is (it is not retreated to the IP header first), and released.       *)
(***************************************************************************)
CleanupWork ==
  /\ cleanup = "works" /\ work_queue # <<>>
  /\ work_queue' = Tail(work_queue)
  /\ work_queue_length' = work_queue_length - 1
  /\ LET n == Head(work_queue) IN
     \/ /\ \/ ~cleanup_ok /\ Lose(BufsOf(n), "closed")
           \/ "timeout" \in May /\ Lose(BufsOf(n), "timeout")
           \/ cleanup_ok /\ "inject" \in May /\ Lose(BufsOf(n), "inject")
        /\ ReleaseList(n)
        /\ UNCHANGED <<sent, malformed, inflight, cleanup_ok>>
     \/ /\ cleanup_ok /\ "nomem" \in May
        /\ Lose(BufsOf(n), "nomem")
        /\ ReleaseList(n)
        /\ cleanup_ok' = FALSE
        /\ UNCHANGED <<sent, malformed, inflight>>
     \/ /\ cleanup_ok
        /\ sent' = Count(sent, BufsOf(n))
        /\ inflight' = [inflight EXCEPT ![n] = @ + 1]
        /\ malformed' = IF atip[n] THEN malformed ELSE malformed \cup BufsOf(n)
        /\ UNCHANGED <<lost, refs, cleanup_ok>>
  /\ UNCHANGED <<queueVars, paramVars, enqueued, state, filter, objects,
                 objrefs, cleanup, threadVars, cls, atip, reqVars, read>>

(***************************************************************************)
(* With both queues empty, purge the read queue (every pending request is  *)
(* completed) and delete it.                                               *)
(***************************************************************************)
(* WdfIoQueuePurge.  (Mutant: the requests are dropped on the floor.) *)
ForgetAll(S) == UNCHANGED completions
CompleteAll(S) ==
  completions' = [r \in Reqs |-> IF r \in S THEN completions[r] + 1
                                           ELSE completions[r]]

CleanupPurge ==
  /\ cleanup = "works" /\ work_queue = <<>>
  /\ CompleteAll(read_queue)
  /\ read_queue' = {}
  /\ objects' = objects \ {"read_queue"}
  /\ cleanup' = "flush"
  /\ UNCHANGED <<queueVars, paramVars, workVars, state, filter, objrefs,
                 cleanup_ok, threadVars, nblVars, fateVars>>

(***************************************************************************)
(* WdfWorkItemFlush returns once no callback is queued or running.         *)
(* (Mutant: it is not called.)                                             *)
(***************************************************************************)
WorkerIdle == ~enqueued /\ \A w \in Workers : pc[w] = "idle"

FlushNot == TRUE
Flush == WorkerIdle

CleanupFlush ==
  /\ cleanup = "flush" /\ Flush
  /\ objects' = objects \ {"worker"}
  /\ cleanup' = "uninstall"
  /\ UNCHANGED <<queueVars, paramVars, workVars, state, filter, objrefs,
                 cleanup_ok, threadVars, nblVars, reqVars, fateVars>>

CleanupUninstall ==
  /\ cleanup = "uninstall"
  /\ objects' = objects \ {"callouts"}
  /\ cleanup' = "done"
  /\ UNCHANGED <<queueVars, paramVars, workVars, state, filter, objrefs,
                 cleanup_ok, threadVars, nblVars, reqVars, fateVars>>

(***************************************************************************)
(* windivert_close, once cleanup is over and no request is outstanding.    *)
(***************************************************************************)
Outstanding(r) == pc[r] # "idle" /\ completions[r] = 0

Close ==
  /\ cleanup = "done" /\ state = "CLOSING"
  /\ \A r \in Reqs : ~Outstanding(r)
  /\ state' = "CLOSED"
  /\ UNCHANGED <<queueVars, paramVars, workVars, filter, objects, objrefs,
                 cleanup, cleanup_ok, threadVars, nblVars, reqVars, fateVars>>

(***************************************************************************)
(* windivert_destroy, when the last reference to the file object is gone.  *)
(***************************************************************************)
Destroy ==
  /\ state = "CLOSED" /\ objrefs = 0 /\ filter = "on"
  /\ filter' = "freed"
  /\ UNCHANGED <<queueVars, paramVars, workVars, state, objects, objrefs,
                 cleanup, cleanup_ok, threadVars, nblVars, reqVars, fateVars>>

(***************************************************************************)
(* The handle is gone and nothing is left to do.                           *)
(***************************************************************************)
Terminated ==
  /\ filter = "freed"
  /\ \A r \in Reqs : pc[r] \in {"idle", "done"}
  /\ \A n \in NBLs : inflight[n] = 0
  /\ UNCHANGED vars

-----------------------------------------------------------------------------
Classify(n) ==
  ClassifyFilter(n) \/ ClassifyNoMemory(n) \/ ClassifyQueue(n)

Service(t) ==
  ServiceExpire(t) \/ ServicePair(t) \/ ServiceReturn(t) \/ Serve(t)

Worker(w) ==
  \/ WorkerStart(w) \/ WorkerReturn(w) \/ WorkerTake(w) \/ WorkerSniff(w)
  \/ WorkerNext(w) \/ WorkerFinish(w)
  \/ QueueRefuse(w) \/ QueueDrop(w) \/ QueueFast(w) \/ QueueCopy(w)
  \/ InsertRefuse(w) \/ InsertDrop(w) \/ InsertEvict(w) \/ Insert(w)

Cleanup ==
  \/ CleanupPacket \/ CleanupPacketsDone \/ CleanupWork \/ CleanupPurge
  \/ CleanupFlush \/ CleanupUninstall \/ Close \/ Destroy

Next ==
  \/ \E n \in NBLs : ClassifyEnter(n) \/ Classify(n) \/ InjectComplete(n)
  \/ \E w \in Workers : Worker(w)
  \/ \E t \in Threads : Service(t)
  \/ \E r \in Reqs : Read(r) \/ Cancel(r)
  \/ SetParam \/ CleanupBegin \/ Cleanup \/ Terminated

Spec == Init /\ [][Next]_vars

(***************************************************************************)
(* A classify callback, worker, reader, cleanup or completion routine that *)
(* has started keeps running: nothing in them waits except for the         *)
(* context's lock, whose queued spin locks are first-come first-served,    *)
(* and the flush.  The network and the application owe no step.            *)
(***************************************************************************)
Fairness ==
  /\ \A n \in NBLs : WF_vars(Classify(n)) /\ WF_vars(InjectComplete(n))
  /\ \A w \in Workers : WF_vars(Worker(w) \/ Service(w))
  /\ \A r \in Reqs : WF_vars(Service(r))
  /\ WF_vars(Cleanup)

FairSpec == Spec /\ Fairness

-----------------------------------------------------------------------------
(***************************************************************************)
(* Types of all variables.                                                 *)
(***************************************************************************)
WorkerPCs == {"idle", "work", "sniff", "next", "queue", "fast", "insert",
              "svc", "serve", "finish"}
ReaderPCs == {"idle", "svc", "serve", "done"}
CleanupPCs == {"idle", "packets", "works", "flush", "uninstall", "done"}

LifeTyped ==
  /\ state \in {"OPEN", "CLOSING", "CLOSED"}
  /\ filter \in {"on", "freed"}
  /\ objects \subseteq AllObjects
  /\ objrefs \in Int
  /\ cleanup \in CleanupPCs /\ cleanup_ok \in BOOLEAN

WorkTyped ==
  work_queue \in Seq(NBLs) /\ work_queue_length \in Int /\ enqueued \in BOOLEAN

QueueTyped ==
  /\ packet_queue \in Seq(Bufs)
  /\ packet_queue_length \in Int /\ packet_queue_size \in Int

ParamsTyped ==
  /\ packet_queue_maxlength \in LenParams /\ packet_queue_maxsize \in SizeParams
  /\ mode \in Modes
  /\ read_queue \subseteq Reqs

ThreadsTyped ==
  /\ pc \in [Threads -> WorkerPCs \cup ReaderPCs]
  /\ \A r \in Reqs : pc[r] \in ReaderPCs
  /\ \A w \in Workers : pc[w] \in WorkerPCs
  /\ work \in [Workers -> NBLs \cup {Nil}]
  /\ rest \in [Workers -> Seq(Bufs)]
  /\ pkt \in [Threads -> Bufs \cup {Nil}]
  /\ req \in [Threads -> Reqs \cup {Nil}]

ListsTyped ==
  /\ cls \in [NBLs -> {"new", "entered", "matched", "continued", "blocked"}]
  /\ atip \in [NBLs -> BOOLEAN]
  /\ refs \in [NBLs -> Int] /\ inflight \in [NBLs -> Nat]

FatesTyped ==
  /\ completions \in [Reqs -> Nat]
  /\ read \in [Bufs -> Nat] /\ sent \in [Bufs -> Nat]
  /\ lost \in [Bufs -> SUBSET Reasons]
  /\ malformed \subseteq Bufs

TypeOK ==
  /\ LifeTyped /\ WorkTyped /\ QueueTyped /\ ParamsTyped
  /\ ThreadsTyped /\ ListsTyped /\ FatesTyped

-----------------------------------------------------------------------------
(***************************************************************************)
(* No lost wakeup.  A diverted packet and a pending read never sit in the  *)
(* two queues of an open handle with nobody about to pair them: some       *)
(* thread is inside windivert_read_service and will take the lock again.   *)
(* (windivert_read queues first and services second, and so does           *)
(* windivert_queue_packet after its fast path saw no request.)             *)
(***************************************************************************)
NoLostWakeup ==
  state = "OPEN" /\ packet_queue # <<>> /\ read_queue # {}
    => \E t \in Threads : pc[t] \in {"svc", "serve"}

(***************************************************************************)
(* A read request is never completed twice and never forgotten, whoever    *)
(* gets to it first: a worker's fast path, any thread's read service,      *)
(* cancellation, the purge at cleanup, or the error path of the ioctl.     *)
(* A submitted request that is not completed is in the read queue or held  *)
(* by exactly one thread.                                                  *)
(***************************************************************************)
Holders(r) == {t \in Threads : req[t] = r}

RequestCompletedOnce ==
  \A r \in Reqs :
    /\ completions[r] \in {0, 1}
    /\ Outstanding(r) <=> (r \in read_queue \/ Holders(r) # {})
    /\ r \in read_queue => Holders(r) = {}
    /\ \A t, u \in Holders(r) : t = u

(***************************************************************************)
(* Unless it is sniffed, every buffer of a blocked list is in exactly one  *)
(* place: waiting as work, held by one worker, queued, being given to a    *)
(* reader, read, re-injected, or discarded for one reason.                 *)
(***************************************************************************)
Places(n, b) ==
  {"work" : i \in {j \in DOMAIN work_queue : work_queue[j] = n}}
    \cup {<<"worker", w>> : w \in {v \in Workers : b \in Range(rest[v])}}
    \cup {<<"queue", i>> : i \in {j \in DOMAIN packet_queue :
                                     packet_queue[j] = b}}
    \cup {<<"service", t>> : t \in {u \in Threads : pkt[u] = b}}
    \cup {<<"read", i>> : i \in 1..read[b]}
    \cup {<<"sent", i>> : i \in 1..sent[b]}
    \cup {<<"lost", why>> : why \in lost[b]}

OneFate ==
  ~IsSniff =>
    \A n \in NBLs : cls[n] = "blocked" =>
      \A b \in BufsOf(n) : \E p \in Places(n, b) : Places(n, b) = {p}

(***************************************************************************)
(* In SNIFF mode a packet is put back on the network at most once and read *)
(* at most once, also when the handle is closed with copies still queued.  *)
(***************************************************************************)
SniffOnce == IsSniff => \A b \in Bufs : sent[b] <= 1 /\ read[b] <= 1

(***************************************************************************)
(* The counters kept beside the two lists agree with them: the lengths,    *)
(* and the number of bytes in the packet queue.                            *)
(***************************************************************************)
TotalLen(q) ==
  LET sum[i \in 0..Len(q)] ==
        IF i = 0 THEN 0 ELSE sum[i - 1] + DataLen[q[i]]
  IN  sum[Len(q)]

CountersAgree ==
  /\ work_queue_length = Len(work_queue)
  /\ packet_queue_length = Len(packet_queue)
  /\ packet_queue_size = TotalLen(packet_queue)

(***************************************************************************)
(* When windivert_queue_packet removes the oldest packet because the queue *)
(* is full, there is one: RemoveHeadList is never applied to an empty      *)
(* list, whatever SET_PARAM did to the limits in the meantime.             *)
(***************************************************************************)
EvictionHasVictim == \A w \in Workers : Evicts(w) => packet_queue # <<>>

(***************************************************************************)
(* The packets of one list are handed out in the order of the list: no     *)
(* packet is given to a reader, by the fast path or from the queue, while  *)
(* an earlier one of its list still waits in the packet queue, and in the  *)
(* queue they stand in that order.  A reader that arrives while a worker   *)
(* is between two packets, a service loop in another thread, evictions and *)
(* expiry do not change it; it is why the fast path is taken only when the *)
(* queue is empty (windivert_queue_packet).                                *)
(***************************************************************************)
Before(b, c) ==
  \E n \in NBLs : \E i, j \in DOMAIN Buffers[n] :
    i < j /\ Buffers[n][i] = b /\ Buffers[n][j] = c

Given(c) == read[c] > 0 \/ \E t \in Threads : pkt[t] = c

ReadInOrder ==
  \A b, c \in Bufs : Before(b, c) =>
    /\ Given(c) => b \notin Range(packet_queue)
    /\ \A i, j \in DOMAIN packet_queue :
         packet_queue[i] = b /\ packet_queue[j] = c => i < j

(***************************************************************************)
(* What cleanup and destroy delete is no longer used: no pending request   *)
(* in a deleted read queue, no callback of a deleted work item, and no     *)
(* filter freed under a classify callback that is evaluating it without    *)
(* the lock, or under a worker.  Nothing is deleted while the handle is    *)
(* open.                                                                   *)
(***************************************************************************)
FilterInUse ==
  \/ \E n \in NBLs : cls[n] = "entered"
  \/ \E w \in Workers : pc[w] # "idle"

NoUseAfterDelete ==
  /\ state = "OPEN" => objects = AllObjects
  /\ read_queue # {} => "read_queue" \in objects
  /\ ~WorkerIdle => "worker" \in objects
  /\ FilterInUse => filter = "on"

(***************************************************************************)
(* Each list is referenced once by its work item, if it has one, and once  *)
(* by each injected copy; when the driver holds no work item for it, its   *)
(* data starts where the stack left it.                                    *)
(***************************************************************************)
IsWork(n) == n \in Range(work_queue) \/ \E w \in Workers : work[w] = n

ListsBalanced ==
  \A n \in NBLs :
    /\ refs[n] = inflight[n] + (IF IsWork(n) THEN 1 ELSE 0)
    /\ (\A w \in Workers : work[w] # n) => (atip[n] <=> n \notin Inbound)

(***************************************************************************)
(* While the handle is open nothing is injected without its IP header.     *)
(***************************************************************************)
IntactWhileOpen == state = "OPEN" => malformed = {}

(***************************************************************************)
(* After cleanup nothing is left behind in any queue: no thread inserted   *)
(* work, a packet or a request behind the loops that empty them.           *)
(***************************************************************************)
NothingLeftBehind ==
  cleanup \in {"flush", "uninstall", "done"} =>
    work_queue = <<>> /\ packet_queue = <<>> /\ read_queue = {}

-----------------------------------------------------------------------------
(***************************************************************************)
(* Closing a handle finishes, however many workers and readers are active. *)
(***************************************************************************)
CloseTerminates == state = "CLOSING" ~> filter = "freed"

(***************************************************************************)
(* Every list the driver keeps from the network stack is given back.       *)
(***************************************************************************)
ListsReturned == \A n \in NBLs : (refs[n] > 0) ~> (refs[n] = 0)

(***************************************************************************)
(* A packet in the queue and a reader in the read queue do not wait for    *)
(* one another for ever.                                                   *)
(***************************************************************************)
ReadersServed ==
  (packet_queue # <<>> /\ read_queue # {})
     ~> (packet_queue = <<>> \/ read_queue = {})

-----------------------------------------------------------------------------
(***************************************************************************)
(* CHANGELOG, 1.4.0: internally queued packets are reinjected when the     *)
(* handle is closed.  So, if no limit, failure or timeout interferes, no   *)
(* packet of a blocked list is lost.                                       *)
(***************************************************************************)
QueuedPacketsSurviveClose == \A b \in Bufs : lost[b] = {}
=============================================================================
