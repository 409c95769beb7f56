------------------------------ MODULE Callouts ------------------------------
(***************************************************************************)
(* Starting a WinDivert handle: the SET_LAYER and START_FILTER ioctls,     *)
(* which register the handle's callouts with the Windows Filtering         *)
(* Platform one after the other, and the cleanup that takes them out again *)
(* when the handle is closed, perhaps while a START_FILTER is under way.   *)
(*                                                                         *)
(* Grain of atomicity.  One action is one critical section of              *)
(* context->lock, or one call of the filtering platform, together with     *)
(* what the same thread does before the next of either.  Two exceptions,   *)
(* where no other thread can tell the difference: the calls that add a     *)
(* callout and its filter belong to one transaction, of which nothing is   *)
(* seen before it commits; and a call that takes a callout back            *)
(* (FwpsCalloutUnregisterByKey0) is part of the step that decides on it,   *)
(* since the request that makes it keeps the context from being destroyed. *)
(***************************************************************************)
EXTENDS Integers, Sequences, FiniteSets, Functions

CONSTANTS
  Starters,    \* START_FILTER requests; each is also its thread
  Analysis,    \* what windivert_filter_analyze says of each one's filter
  May,         \* calls of the filtering platform that may fail: see Mays
  Nil          \* no thread

CONSTANT Cleaner  \* the thread that runs windivert_cleanup

(***************************************************************************)
(* Calls that may fail: in the routine that installs a callout, and in the *)
(* one that takes all of them out.                                         *)
(***************************************************************************)
Mays == {"register", "begin", "add", "commit",
         "undo_begin", "undo_delete", "undo_commit"}

Analyses ==
  [inbound : BOOLEAN, outbound : BOOLEAN, ipv4 : BOOLEAN, ipv6 : BOOLEAN]

ASSUME CalloutsAssumption ==
  /\ Cleaner \notin Starters
  /\ Nil \notin Starters \cup {Cleaner}
  /\ Analysis \in [Starters -> Analyses]
  /\ May \subseteq Mays

VARIABLES
  state,       \* context->state, from OPEN on
  on,          \* context->on
  starter,     \* the request that set it, or Nil
  layer,       \* context->layer
  installed,   \* the indices i with context->installed[i]
  chosen,      \* the WFP layers of the callouts of this handle, in order
  engine,      \* the WFP session of the handle: "open" or "closed"
  txn,         \* the thread with a transaction in this session, or Nil
  deleted,     \* what that transaction deletes
  callouts,    \* indices of the callouts registered with the kernel
  filters,     \* indices of the filters in the platform's store
  pc,          \* control point of each thread
  idx,         \* loop counter of each thread
  ok           \* is `status' of each thread a success?

vars == <<state, on, starter, layer, installed, chosen, engine, txn, deleted,
          callouts, filters, pc, idx, ok>>

handleVars == <<state, on, starter, layer, chosen>>
platformVars == <<engine, txn, deleted, callouts, filters>>

MaxLayers == 4
Indices == 1..MaxLayers
Threads == Starters \cup {Cleaner}

Goto(t, p) == pc' = [pc EXCEPT ![t] = p]
Status(t, v) == ok' = [ok EXCEPT ![t] = v]

(***************************************************************************)
(* The WFP layers that need a callout (first half of                       *)
(* windivert_install_callouts).                                            *)
(***************************************************************************)
When(cond, name) == IF cond THEN <<name>> ELSE <<>>

Select(lay, a) ==
  IF lay = "NETWORK"
    THEN When(a.inbound /\ a.ipv4, "in4") \o When(a.outbound /\ a.ipv4, "out4")
      \o When(a.inbound /\ a.ipv6, "in6") \o When(a.outbound /\ a.ipv6, "out6")
    ELSE When(a.ipv4, "forward4") \o When(a.ipv6, "forward6")

Init ==
  /\ state = "OPEN" /\ on = FALSE /\ starter = Nil /\ layer = "NETWORK"
  /\ installed = {} /\ chosen = <<>>
  /\ engine = "open" /\ txn = Nil /\ deleted = {}
  /\ callouts = {} /\ filters = {}
  /\ pc = [t \in Threads |-> "idle"]
  /\ idx = [t \in Threads |-> 1]
  /\ ok = [t \in Threads |-> TRUE]

-----------------------------------------------------------------------------
(***************************************************************************)
(* IOCTL_WINDIVERT_SET_LAYER.  (Mutant: the handle may be started.)        *)
(***************************************************************************)
SettableAlways == state = "OPEN"
Settable == state = "OPEN" /\ ~on

SetLayer ==
  /\ Settable
  /\ layer' \in {"NETWORK", "NETWORK_FORWARD"}
  /\ UNCHANGED <<state, on, starter, installed, chosen, platformVars, pc, idx, ok>>

(***************************************************************************)
(* IOCTL_WINDIVERT_START_FILTER: one request gets the handle, every other  *)
(* one fails.  If no WFP layer is selected, windivert_install_callouts     *)
(* returns a status that was never assigned.                               *)
(***************************************************************************)
StartRefused(t) ==
  /\ pc[t] = "idle" /\ state # "CLOSED"
  /\ state # "OPEN" \/ on
  /\ Status(t, FALSE) /\ Goto(t, "done")
  /\ UNCHANGED <<handleVars, installed, platformVars, idx>>

Start(t) ==
  /\ pc[t] = "idle" /\ state = "OPEN" /\ ~on
  /\ on' = TRUE /\ starter' = t
  /\ chosen' = Select(layer, Analysis[t])
  /\ \/ /\ chosen' = <<>>
        /\ \E v \in BOOLEAN : Status(t, v)
        /\ Goto(t, "exit")
     \/ /\ chosen' # <<>>
        /\ Goto(t, "install")
        /\ UNCHANGED ok
  /\ UNCHANGED <<state, layer, installed, platformVars, idx>>

(***************************************************************************)
(* windivert_install_callout for chosen[idx[t]].                           *)
(***************************************************************************)
InstallFails(t) == Status(t, FALSE) /\ Goto(t, "exit")

InstallCheck(t) ==
  /\ pc[t] = "install"
  /\ \/ state # "OPEN" /\ InstallFails(t)
     \/ state = "OPEN" /\ Goto(t, "register") /\ UNCHANGED ok
  /\ UNCHANGED <<handleVars, installed, platformVars, idx>>

InstallRegister(t) ==
  /\ pc[t] = "register"
  /\ \/ /\ "register" \in May
        /\ InstallFails(t)
        /\ UNCHANGED callouts
     \/ /\ callouts' = callouts \cup {idx[t]}
        /\ Goto(t, "begin")
        /\ UNCHANGED ok
  /\ UNCHANGED <<handleVars, installed, engine, txn, deleted, filters, idx>>

(***************************************************************************)
(* FwpmTransactionBegin0 and FwpmTransactionAbort0: a session has at most  *)
(* one transaction, and none once it is closed.  (Mutant of Abort: the     *)
(* call is forgotten.)                                                     *)
(***************************************************************************)
CanBegin == engine = "open" /\ txn = Nil
Begin(t) == txn' = t /\ deleted' = {}

AbortNot(t) == UNCHANGED <<txn, deleted>>
Abort(t) ==
  /\ txn' = IF txn = t THEN Nil ELSE txn
  /\ deleted' = IF txn = t THEN {} ELSE deleted

(***************************************************************************)
(* FwpsCalloutUnregisterByKey0 on the way out of windivert_install_callout.*)
(***************************************************************************)
Unregister(t) == callouts' = callouts \ {idx[t]}

InstallBegin(t) ==
  /\ pc[t] = "begin"
  /\ \/ /\ ~CanBegin \/ "begin" \in May
        /\ Unregister(t)
        /\ InstallFails(t)
        /\ UNCHANGED <<txn, deleted>>
     \/ /\ CanBegin
        /\ Begin(t)
        /\ Goto(t, "add")
        /\ UNCHANGED <<callouts, ok>>
  /\ UNCHANGED <<handleVars, installed, engine, filters, idx>>

(***************************************************************************)
(* FwpmCalloutAdd0 and FwpmFilterAdd0.                                     *)
(***************************************************************************)
InstallAdd(t) ==
  /\ pc[t] = "add"
  /\ \/ /\ engine = "closed" \/ "add" \in May
        /\ Abort(t)
        /\ Unregister(t)
        /\ InstallFails(t)
     \/ /\ engine = "open"
        /\ Goto(t, "commit")
        /\ UNCHANGED <<txn, deleted, callouts, ok>>
  /\ UNCHANGED <<handleVars, installed, engine, filters, idx>>

InstallCommit(t) ==
  /\ pc[t] = "commit"
  /\ Abort(t)          \* succeed or fail, the transaction is over
  /\ \/ /\ engine = "closed" \/ "commit" \in May
        /\ Unregister(t)
        /\ InstallFails(t)
        /\ UNCHANGED filters
     \/ /\ engine = "open"
        /\ filters' = filters \cup {idx[t]}
        /\ Goto(t, "mark")
        /\ UNCHANGED <<callouts, ok>>
  /\ UNCHANGED <<handleVars, installed, engine, idx>>

(***************************************************************************)
(* The handle may have been closed since the first check.  (Mutant: it is  *)
(* not looked at again.)                                                   *)
(***************************************************************************)
StillOpenStale == TRUE
StillOpen == state = "OPEN"

InstallMark(t) ==
  /\ pc[t] = "mark"
  /\ \/ /\ ~StillOpen
        /\ Unregister(t)
        /\ InstallFails(t)
        /\ UNCHANGED <<installed, idx>>
     \/ /\ StillOpen
        /\ installed' = installed \cup {idx[t]}
        /\ IF idx[t] < Len(chosen)
             THEN idx' = [idx EXCEPT ![t] = @ + 1] /\ Goto(t, "install")
             ELSE Goto(t, "exit") /\ UNCHANGED idx
        /\ UNCHANGED <<callouts, ok>>
  /\ UNCHANGED <<handleVars, engine, txn, deleted, filters>>

(***************************************************************************)
(* windivert_install_callouts_exit.  (Mutant: a failure is not undone.)    *)
(***************************************************************************)
UndoNever(t) == FALSE
MustUndo(t) == ~ok[t]

StartExit(t) ==
  /\ pc[t] = "exit"
  /\ Goto(t, IF MustUndo(t) THEN "undo" ELSE "done")
  /\ UNCHANGED <<handleVars, installed, platformVars, idx, ok>>

-----------------------------------------------------------------------------
(***************************************************************************)
(* windivert_uninstall_callouts(context, Expected(t)).                     *)
(***************************************************************************)
Expected(t) == IF t = Cleaner THEN "CLOSING" ELSE "OPEN"
Caller(t) == IF t = Cleaner THEN "close" ELSE "done"

UndoCheck(t) ==
  /\ pc[t] = "undo"
  /\ Goto(t, IF state = Expected(t) THEN "undo_begin" ELSE Caller(t))
  /\ UNCHANGED <<handleVars, installed, platformVars, idx, ok>>

UndoBegin(t) ==
  /\ pc[t] = "undo_begin"
  /\ idx' = [idx EXCEPT ![t] = 1]
  /\ \/ /\ ~CanBegin \/ "undo_begin" \in May
        /\ Goto(t, "undo_unregister")
        /\ UNCHANGED <<txn, deleted>>
     \/ /\ CanBegin
        /\ Begin(t)
        /\ Goto(t, "undo_delete")
  /\ UNCHANGED <<handleVars, installed, engine, callouts, filters, ok>>

(***************************************************************************)
(* The loops over the layers.  (Mutant: a `continue' that does not move    *)
(* on.)                                                                    *)
(***************************************************************************)
NextIndexStuck(t, p, q) == UNCHANGED idx /\ Goto(t, p)

NextIndex(t, p, q) ==
  IF idx[t] < MaxLayers
    THEN idx' = [idx EXCEPT ![t] = @ + 1] /\ Goto(t, p)
    ELSE idx' = [idx EXCEPT ![t] = 1] /\ Goto(t, q)

(***************************************************************************)
(* One turn of the loop that deletes the filters.                          *)
(***************************************************************************)
UndoDelete(t) ==
  /\ pc[t] = "undo_delete"
  /\ \/ /\ state # Expected(t)
        /\ Abort(t)
        /\ Goto(t, Caller(t))
        /\ UNCHANGED idx
     \/ /\ state = Expected(t) /\ idx[t] \notin installed
        /\ NextIndex(t, "undo_delete", "undo_commit")
        /\ UNCHANGED <<txn, deleted>>
     \/ /\ state = Expected(t) /\ idx[t] \in installed
        /\ engine = "closed" \/ "undo_delete" \in May
        /\ Abort(t)
        /\ idx' = [idx EXCEPT ![t] = 1]
        /\ Goto(t, "undo_unregister")
     \/ /\ state = Expected(t) /\ idx[t] \in installed
        /\ engine = "open"
        /\ deleted' = deleted \cup {idx[t]}
        /\ NextIndex(t, "undo_delete", "undo_commit")
        /\ UNCHANGED txn
  /\ UNCHANGED <<handleVars, installed, engine, callouts, filters, ok>>

(* FwpmTransactionCommit0. *)
Commit == filters' = filters \ deleted

UndoCommit(t) ==
  /\ pc[t] = "undo_commit"
  /\ \/ engine = "open" /\ Commit
     \/ (engine = "closed" \/ "undo_commit" \in May) /\ UNCHANGED filters
  /\ Abort(t)
  /\ Goto(t, "undo_unregister")
  /\ UNCHANGED <<handleVars, installed, engine, callouts, idx, ok>>

(***************************************************************************)
(* One turn of the loop that unregisters the callouts.                     *)
(***************************************************************************)
UndoUnregister(t) ==
  /\ pc[t] = "undo_unregister"
  /\ \/ /\ state # Expected(t)
        /\ Goto(t, Caller(t))
        /\ UNCHANGED <<installed, callouts, idx>>
     \/ /\ state = Expected(t)
        /\ installed' = installed \ {idx[t]}
        /\ callouts' = callouts \ (installed \cap {idx[t]})
        /\ NextIndex(t, "undo_unregister", Caller(t))
  /\ UNCHANGED <<handleVars, engine, txn, deleted, filters, ok>>

-----------------------------------------------------------------------------
(***************************************************************************)
(* windivert_cleanup, as far as the callouts are concerned; closing the    *)
(* dynamic session takes everything it added out of the platform's store   *)
(* and ends its transaction.                                               *)
(***************************************************************************)
CleanupBegin ==
  /\ pc[Cleaner] = "idle" /\ state = "OPEN"
  /\ state' = "CLOSING"
  /\ Goto(Cleaner, "undo")
  /\ UNCHANGED <<on, starter, layer, chosen, installed, platformVars, idx, ok>>

CloseEngine ==
  /\ pc[Cleaner] = "close"
  /\ engine' = "closed" /\ txn' = Nil /\ deleted' = {} /\ filters' = {}
  /\ Goto(Cleaner, "done")
  /\ UNCHANGED <<handleVars, installed, callouts, idx, ok>>

(***************************************************************************)
(* windivert_close and windivert_destroy, once no request is outstanding.  *)
(***************************************************************************)
RequestsDone == \A t \in Starters : pc[t] \in {"idle", "done"}

Close ==
  /\ state = "CLOSING" /\ pc[Cleaner] = "done" /\ RequestsDone
  /\ state' = "CLOSED"
  /\ UNCHANGED <<on, starter, layer, chosen, installed, platformVars, pc, idx, ok>>

Terminated == state = "CLOSED" /\ UNCHANGED vars

Undo(t) ==
  \/ UndoCheck(t) \/ UndoBegin(t) \/ UndoDelete(t) \/ UndoCommit(t)
  \/ UndoUnregister(t)

Starter(t) ==
  \/ InstallCheck(t) \/ InstallRegister(t) \/ InstallBegin(t) \/ InstallAdd(t)
  \/ InstallCommit(t) \/ InstallMark(t) \/ StartExit(t) \/ Undo(t)

Next ==
  \/ SetLayer
  \/ \E t \in Starters : StartRefused(t) \/ Start(t) \/ Starter(t)
  \/ Undo(Cleaner) \/ CleanupBegin \/ CloseEngine \/ Close \/ Terminated

Spec == Init /\ [][Next]_vars

-----------------------------------------------------------------------------
(***************************************************************************)
(* No callout outlives the handle.  A callout is registered with a pointer *)
(* to the context, so one still registered when the context is destroyed   *)
(* would be called with a dangling pointer.  This must hold whatever calls *)
(* of the platform fail, and wherever in START_FILTER the close falls.     *)
(***************************************************************************)
NoCalloutOutlivesHandle == state = "CLOSED" => callouts = {} /\ filters = {}

(***************************************************************************)
(* A thread leaves no transaction open behind it: the handle's session     *)
(* could not begin another one.                                            *)
(***************************************************************************)
TransactionsEnd ==
  txn # Nil => pc[txn] \in {"add", "commit", "undo_delete", "undo_commit"}

(***************************************************************************)
(* A START_FILTER that fails on a handle that stays open leaves no callout *)
(* behind, whichever of its callouts failed and at which call.             *)
(***************************************************************************)
Answered(t) == t # Nil /\ pc[t] = "done" /\ state = "OPEN"

FailureUndone ==
  Answered(starter) /\ ~ok[starter] => callouts = {} /\ installed = {}

(***************************************************************************)
(* A START_FILTER that succeeds has a callout and a filter at exactly the  *)
(* WFP layers that the handle's layer and the request's filter call for,   *)
(* whatever SET_LAYER and other START_FILTERs did meanwhile.               *)
(***************************************************************************)
StartedAsConfigured ==
  \A t \in Starters :
    Answered(t) /\ ok[t] =>
      /\ chosen = Select(layer, Analysis[t])
      /\ callouts = DOMAIN chosen /\ filters = DOMAIN chosen

(***************************************************************************)
(* A handle that is being closed gets closed, also during a START_FILTER.  *)
(***************************************************************************)
CloseTerminates == state = "CLOSING" ~> state = "CLOSED"

-----------------------------------------------------------------------------
(***************************************************************************)
(* The documentation's example "divert no traffic": a filter that needs no *)
(* callout can be started.                                                 *)
(***************************************************************************)
EmptyFilterStarts ==
  Answered(starter) /\ chosen = <<>> => ok[starter]
=============================================================================
