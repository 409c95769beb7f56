------------------------------ MODULE Requests ------------------------------
(***************************************************************************)
(* The SEND requests of a handle, from windivert_caller_context to the     *)
(* completion routine of the injection, together with the START_FILTER,    *)
(* SET_LAYER, SET_FLAGS requests and the close that they race with.        *)
(*                                                                         *)
(* A SEND copies the application's packet into memory of its own (data, an *)
(* MDL, a NET_BUFFER_LIST) and hands it to the filtering platform, which   *)
(* calls windivert_inject_complete later, on another thread.  Normally the *)
(* request is completed at once; if the handle has the DEBUG flag, by that *)
(* routine.  Either the thread of the request or the routine frees the     *)
(* memory.                                                                 *)
(***************************************************************************)
EXTENDS Callouts

CONSTANTS
  Senders,     \* SEND requests; each is also its thread
  Offers,      \* what the application may pass with one: see OfferType
  MayFail      \* calls that may fail on the way: see SendCalls

SendCalls == {"caller", "map", "data", "mdl", "nbl", "inject"}

(***************************************************************************)
(* The ioctl header and the address as windivert_caller_context sees them, *)
(* and the packet: its length, its version and the length in its header.   *)
(***************************************************************************)
OfferType ==
  [header : BOOLEAN, addr : BOOLEAN, direction : {"in", "out", "other"},
   len : Nat, version : {4, 6, 0}, length : Nat]

ASSUME RequestsAssumption ==
  /\ Offers \subseteq OfferType
  /\ MayFail \subseteq SendCalls

Memory == {"data", "mdl", "nbl"}

VARIABLES
  offer,       \* what the application passes with each SEND, Nil before
  debug,       \* does context->flags have WINDIVERT_FLAG_DEBUG?
  at,          \* control point of each SEND
  mem,         \* its memory: "none", "live", "freed" or "twice" (freed)
  waits,       \* is the request to be completed by the completion routine?
  good,        \* is its `status' a success?
  flight,      \* "no", "flying" in the platform's hands, or "landed"
  completed    \* how often the request has been completed

sendVars == <<offer, at, mem, waits, good, flight, completed>>
requestVars == <<debug, sendVars>>

SendInit ==
  /\ offer = [r \in Senders |-> Nil]
  /\ debug = FALSE
  /\ at = [r \in Senders |-> "new"]
  /\ mem = [r \in Senders |-> [x \in Memory |-> "none"]]
  /\ waits = [r \in Senders |-> FALSE]
  /\ good = [r \in Senders |-> FALSE]
  /\ flight = [r \in Senders |-> "no"]
  /\ completed = [r \in Senders |-> 0]

At(r, p) == at' = [at EXCEPT ![r] = p]
Good(r, v) == good' = [good EXCEPT ![r] = v]
Complete(r) == completed' = [completed EXCEPT ![r] = @ + 1]
Sooner(m) == IF m = "none" THEN "none" ELSE IF m = "live" THEN "freed" ELSE "twice"
Free(r, X) ==
  mem' = [mem EXCEPT ![r] =
            [x \in Memory |-> IF x \in X THEN Sooner(@[x]) ELSE @[x]]]

(***************************************************************************)
(* IOCTL_WINDIVERT_SET_FLAGS.                                              *)
(***************************************************************************)
SetFlags ==
  /\ Settable
  /\ debug' \in BOOLEAN
  /\ UNCHANGED <<vars, sendVars>>

(***************************************************************************)
(* windivert_caller_context: a request with a bad header or address fails  *)
(* before it gets to the queue.                                            *)
(***************************************************************************)
CallerContext(r) ==
  /\ at[r] = "new" /\ state # "CLOSED"
  /\ \E o \in Offers :
       /\ offer' = [offer EXCEPT ![r] = o]
       /\ \/ /\ ~o.header \/ ~o.addr \/ "caller" \in MayFail
             /\ Complete(r) /\ At(r, "done")
          \/ /\ o.header /\ o.addr
             /\ At(r, "queued") /\ UNCHANGED completed
  /\ UNCHANGED <<vars, debug, mem, waits, good, flight>>

(***************************************************************************)
(* The checks of windivert_write: before and after the data is allocated.  *)
(***************************************************************************)
IPv4Header == 20
IPv6Header == 40
UINT16_MAX == 65535

Sendable(o) ==
  o.direction \in {"in", "out"} /\ o.len \in IPv4Header..UINT16_MAX

WellFormed(o) ==
  \/ o.version = 4 /\ o.len = o.length
  \/ o.version = 6 /\ o.len >= IPv6Header /\ o.len = o.length + IPv6Header

(***************************************************************************)
(* windivert_write up to the check of the handle: what it has allocated    *)
(* when it fails, or everything.                                           *)
(***************************************************************************)
FailsWith(r, X) ==
  LET o == offer[r]
  IN \/ X = {} /\ (~Sendable(o) \/ "map" \in MayFail \/ "data" \in MayFail)
     \/ X = {"data"} /\ Sendable(o) /\ (~WellFormed(o) \/ "mdl" \in MayFail)
     \/ X = {"data", "mdl"} /\ Sendable(o) /\ WellFormed(o) /\ "nbl" \in MayFail

Allocate(r, X) ==
  mem' = [mem EXCEPT ![r] = [x \in Memory |-> IF x \in X THEN "live" ELSE @[x]]]

WritePrepare(r) ==
  /\ at[r] = "queued"
  /\ \/ /\ Sendable(offer[r]) /\ WellFormed(offer[r])
        /\ Allocate(r, Memory) /\ At(r, "check")
     \/ \E X \in SUBSET Memory :
          FailsWith(r, X) /\ Allocate(r, X) /\ At(r, "exit")
  /\ UNCHANGED <<vars, offer, debug, waits, good, flight, completed>>

(***************************************************************************)
(* windivert_write reads the configuration under the lock.                 *)
(***************************************************************************)
WriteCheck(r) ==
  /\ at[r] = "check"
  /\ \/ /\ state # "OPEN"
        /\ At(r, "exit") /\ UNCHANGED waits
     \/ /\ state = "OPEN"
        /\ waits' = [waits EXCEPT ![r] = debug]
        /\ At(r, "inject")
  /\ UNCHANGED <<vars, offer, debug, mem, good, flight, completed>>

(***************************************************************************)
(* The injection, into the forward, send or receive path of the stack; the *)
(* handle may have been closed meanwhile.                                  *)
(***************************************************************************)
WriteInject(r) ==
  /\ at[r] = "inject"
  /\ \/ flight' = [flight EXCEPT ![r] = "flying"] /\ Good(r, TRUE)
     \/ "inject" \in MayFail /\ UNCHANGED <<flight, good>>
  /\ At(r, "exit")
  /\ UNCHANGED <<vars, offer, debug, mem, waits, completed>>

(***************************************************************************)
(* windivert_write_exit, and the end of windivert_ioctl, which completes a *)
(* request that failed.  (Mutants: the request is completed whatever its   *)
(* flags; the data is not freed.)                                          *)
(***************************************************************************)
AnswerAlways(r) == Complete(r)
Answer(r) == IF good[r] /\ waits[r] THEN UNCHANGED completed ELSE Complete(r)

OwnedBut == {"mdl", "nbl"}
Owned == Memory

WriteExit(r) ==
  /\ at[r] = "exit"
  /\ IF good[r] THEN UNCHANGED mem ELSE Free(r, Owned)
  /\ Answer(r)
  /\ At(r, "done")
  /\ UNCHANGED <<vars, offer, debug, waits, good, flight>>

(***************************************************************************)
(* windivert_inject_complete, at any time after the injection; the         *)
(* platform tells whether it worked.                                       *)
(***************************************************************************)
Completes(r) == IF waits[r] THEN Complete(r) ELSE UNCHANGED completed

InjectComplete(r) ==
  /\ flight[r] = "flying"
  /\ flight' = [flight EXCEPT ![r] = "landed"]
  /\ Completes(r)
  /\ Free(r, Memory)
  /\ UNCHANGED <<vars, offer, debug, at, waits, good>>

-----------------------------------------------------------------------------
(***************************************************************************)
(* The handle is closed when every request has been completed.             *)
(***************************************************************************)
SendsDone ==
  \A r \in Senders : at[r] = "new" \/ (at[r] = "done" /\ completed[r] > 0)

CloseHandle == SendsDone /\ Close /\ UNCHANGED requestVars

Write(r) == WritePrepare(r) \/ WriteCheck(r) \/ WriteInject(r) \/ WriteExit(r)

Others ==
  /\ \/ SetLayer
     \/ \E t \in Starters : StartRefused(t) \/ Start(t) \/ Starter(t)
     \/ Undo(Cleaner) \/ CleanupBegin \/ CloseEngine
  /\ UNCHANGED requestVars

Done ==
  /\ state = "CLOSED" /\ \A r \in Senders : flight[r] # "flying"
  /\ UNCHANGED <<vars, requestVars>>

SystemNext ==
  \/ Others \/ CloseHandle \/ SetFlags
  \/ \E r \in Senders : CallerContext(r) \/ Write(r) \/ InjectComplete(r)
  \/ Done

allVars == <<vars, requestVars>>

SystemInit == Init /\ SendInit

System == SystemInit /\ [][SystemNext]_allVars

(***************************************************************************)
(* Requests that have been queued, and the cleanup, keep running; the      *)
(* platform calls the completion routine of every injection.               *)
(***************************************************************************)
FairSystem ==
  /\ System
  /\ \A t \in Starters : WF_allVars(Starter(t) /\ UNCHANGED requestVars)
  /\ WF_allVars((Undo(Cleaner) \/ CloseEngine) /\ UNCHANGED requestVars)
  /\ WF_allVars(CloseHandle)
  /\ \A r \in Senders : WF_allVars(Write(r)) /\ WF_allVars(InjectComplete(r))

-----------------------------------------------------------------------------
(***************************************************************************)
(* Every SEND is answered exactly once, by its own thread or by the        *)
(* completion routine, however the two interleave and whatever SET_FLAGS   *)
(* does in between; and its answer is the truth: a success means that the  *)
(* packet was handed to the platform, a failure that it was not.           *)
(***************************************************************************)
Over(r) == at[r] = "done" /\ flight[r] # "flying"

AnsweredOnce ==
  \A r \in Senders :
    /\ completed[r] <= 1
    /\ Over(r) => completed[r] = 1
    /\ at[r] = "done" => (good[r] <=> flight[r] # "no")

(***************************************************************************)
(* The copy of the packet, its MDL and its NET_BUFFER_LIST are freed, each *)
(* of them once, and never while the platform still has them.              *)
(***************************************************************************)
MemoryFreedOnce ==
  \A r \in Senders : \A x \in Memory :
    /\ mem[r][x] # "twice"
    /\ Over(r) => mem[r][x] # "live"
    /\ flight[r] = "flying" => mem[r][x] = "live"

(***************************************************************************)
(* Only a packet as long as its own header says is ever injected (the      *)
(* network stack trusts the driver on that).                               *)
(***************************************************************************)
InjectedWellFormed ==
  \A r \in Senders : flight[r] # "no" =>
    LET o == offer[r]
    IN o.len = o.length + (IF o.version = 6 THEN IPv6Header ELSE 0)
=============================================================================
