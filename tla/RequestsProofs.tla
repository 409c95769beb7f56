--------------------------- MODULE RequestsProofs ---------------------------
(***************************************************************************)
(* Proofs about Callouts and Requests, for any number of START_FILTER and  *)
(* SEND requests, any filters, and whatever calls of the filtering         *)
(* platform fail.  The theorems about Callouts come first.                 *)
(***************************************************************************)
EXTENDS Requests, TLAPS

(***************************************************************************)
(* Types of all variables.                                                 *)
(***************************************************************************)
InstallPoints == {"install", "register", "begin", "add", "commit", "mark"}
RegisteredPoints == {"begin", "add", "commit", "mark"}
UndoPoints == {"undo", "undo_begin", "undo_delete", "undo_commit", "undo_unregister"}
TxnPoints == {"add", "commit", "undo_delete", "undo_commit"}
ThreadPoints == {"idle", "exit", "close", "done"} \cup InstallPoints \cup UndoPoints

WfpLayers == {"in4", "out4", "in6", "out6", "forward4", "forward6"}

CalloutsTypeOK ==
  /\ state \in {"OPEN", "CLOSING", "CLOSED"}
  /\ on \in BOOLEAN /\ starter \in Starters \cup {Nil}
  /\ layer \in {"NETWORK", "NETWORK_FORWARD"}
  /\ installed \subseteq Indices
  /\ chosen \in Seq(WfpLayers) /\ Len(chosen) <= MaxLayers
  /\ engine \in {"open", "closed"} /\ txn \in Threads \cup {Nil}
  /\ deleted \subseteq Indices
  /\ callouts \subseteq Indices /\ filters \subseteq Indices
  /\ pc \in [Threads -> ThreadPoints]
  /\ idx \in [Threads -> Indices]
  /\ ok \in [Threads -> BOOLEAN]

(***************************************************************************)
(* One START_FILTER at most gets the handle; the others never get past the *)
(* check.  What it is to install is settled when it gets the handle.       *)
(***************************************************************************)
Bystander(t) ==
  /\ pc[t] \in {"idle", "done"}
  /\ pc[t] = "idle" => ok[t] = TRUE /\ idx[t] = 1
  /\ pc[t] = "done" => ok[t] = FALSE

Roles ==
  /\ on <=> starter # Nil
  /\ \A t \in Starters \ {starter} : Bystander(t)
  /\ starter = Nil => chosen = <<>> /\ installed = {} /\ callouts = {} /\ filters = {}
  /\ starter # Nil => /\ pc[starter] \notin {"idle", "close"}
                      /\ chosen = Select(layer, Analysis[starter])

(***************************************************************************)
(* How far the close has come.                                             *)
(***************************************************************************)
Closing ==
  /\ pc[Cleaner] \in {"idle", "close", "done"} \cup UndoPoints
  /\ state = "OPEN" <=> pc[Cleaner] = "idle"
  /\ state = "CLOSED" => pc[Cleaner] = "done" /\ RequestsDone
  /\ engine = "closed" <=> pc[Cleaner] = "done"
  /\ engine = "closed" => filters = {} /\ txn = Nil
  /\ pc[Cleaner] \in {"close", "done"} => installed = {}

(***************************************************************************)
(* A callout that is registered is marked installed, but for the one that  *)
(* the START_FILTER is at work on.                                         *)
(***************************************************************************)
Pending ==
  IF starter # Nil /\ pc[starter] \in RegisteredPoints THEN {idx[starter]} ELSE {}

Registered == callouts = installed \cup Pending

(***************************************************************************)
(* While the START_FILTER installs: the layers before the one it is at     *)
(* are installed, all of them unless the close has begun to take them out. *)
(***************************************************************************)
Installing ==
  starter # Nil /\ pc[starter] \in InstallPoints =>
    /\ ok[starter] /\ idx[starter] <= Len(chosen)
    /\ installed \subseteq 1..idx[starter] - 1
    /\ state = "OPEN" =>
         /\ installed = 1..idx[starter] - 1
         /\ filters = IF pc[starter] = "mark" THEN 1..idx[starter] ELSE installed

(***************************************************************************)
(* After it, on a handle that is open: all layers are there, or it failed  *)
(* and the undoing has come so far.                                        *)
(***************************************************************************)
Finished ==
  starter # Nil =>
    /\ pc[starter] \in UndoPoints => ~ok[starter]
    /\ pc[starter] \in {"exit", "done"} /\ ok[starter] /\ state = "OPEN" =>
         installed = 1..Len(chosen) /\ filters = 1..Len(chosen)
    /\ pc[starter] = "done" /\ ~ok[starter] /\ state = "OPEN" => installed = {}

Swept ==
  \A t \in Threads :
    /\ pc[t] = "undo_commit" => idx[t] = 1
    /\ pc[t] = "undo_unregister" /\ state = Expected(t) =>
         installed \cap (1..idx[t] - 1) = {}

CalloutsInv ==
  /\ CalloutsTypeOK /\ Roles /\ Closing /\ Registered /\ Installing /\ Finished
  /\ Swept /\ TransactionsEnd

-----------------------------------------------------------------------------
(***************************************************************************)
(* windivert_install_callouts never selects more WFP layers than there is  *)
(* room for.                                                               *)
(***************************************************************************)
LEMMA SelectFits ==
  ASSUME NEW lay, NEW a
  PROVE  Select(lay, a) \in Seq(WfpLayers) /\ Len(Select(lay, a)) <= MaxLayers
<1>1. ASSUME NEW c, NEW w \in WfpLayers
      PROVE  When(c, w) \in Seq(WfpLayers) /\ Len(When(c, w)) <= 1
  BY <1>1 DEF When
<1>2. ASSUME NEW s \in Seq(WfpLayers), NEW u \in Seq(WfpLayers)
      PROVE  s \o u \in Seq(WfpLayers) /\ Len(s \o u) = Len(s) + Len(u)
  OBVIOUS
<1>0. ASSUME NEW s \in Seq(WfpLayers), NEW u \in Seq(WfpLayers), NEW m \in Nat,
             NEW n \in Nat, Len(s) <= m, Len(u) <= n
      PROVE  s \o u \in Seq(WfpLayers) /\ Len(s \o u) <= m + n
  BY <1>0, <1>2
<1> DEFINE q1 == When(a.inbound /\ a.ipv4, "in4")
           q2 == When(a.outbound /\ a.ipv4, "out4")
           q3 == When(a.inbound /\ a.ipv6, "in6")
           q4 == When(a.outbound /\ a.ipv6, "out6")
           f1 == When(a.ipv4, "forward4")
           f2 == When(a.ipv6, "forward6")
<1>3. /\ q1 \in Seq(WfpLayers) /\ Len(q1) <= 1
      /\ q2 \in Seq(WfpLayers) /\ Len(q2) <= 1
      /\ q3 \in Seq(WfpLayers) /\ Len(q3) <= 1
      /\ q4 \in Seq(WfpLayers) /\ Len(q4) <= 1
      /\ f1 \in Seq(WfpLayers) /\ Len(f1) <= 1
      /\ f2 \in Seq(WfpLayers) /\ Len(f2) <= 1
  BY <1>1 DEF WfpLayers
<1>4. Select(lay, a) = IF lay = "NETWORK" THEN q1 \o q2 \o q3 \o q4 ELSE f1 \o f2
  BY DEF Select
<1> HIDE DEF q1, q2, q3, q4, f1, f2
<1>5. q1 \o q2 \in Seq(WfpLayers) /\ Len(q1 \o q2) <= 1 + 1
  BY <1>0, <1>3
<1>6. q1 \o q2 \o q3 \in Seq(WfpLayers) /\ Len(q1 \o q2 \o q3) <= (1 + 1) + 1
  BY <1>0, <1>3, <1>5
<1>7. /\ q1 \o q2 \o q3 \o q4 \in Seq(WfpLayers)
      /\ Len(q1 \o q2 \o q3 \o q4) <= ((1 + 1) + 1) + 1
  BY <1>0, <1>3, <1>6
<1>8. f1 \o f2 \in Seq(WfpLayers) /\ Len(f1 \o f2) <= 1 + 1
  BY <1>0, <1>3
<1> QED BY <1>4, <1>7, <1>8 DEF MaxLayers

(***************************************************************************)
(* The start: nothing is installed and nobody is at work.                  *)
(***************************************************************************)
LEMMA InitCallouts == Init => CalloutsInv
<1> SUFFICES ASSUME Init PROVE CalloutsInv
  OBVIOUS
<1>1. CalloutsTypeOK
  <2>1. ok \in [Threads -> BOOLEAN] /\ on \in BOOLEAN
    BY DEF Init
  <2>2. idx \in [Threads -> Indices] /\ pc \in [Threads -> ThreadPoints]
    BY DEF Init, ThreadPoints, Indices, MaxLayers
  <2> QED BY <2>1, <2>2 DEF Init, CalloutsTypeOK, MaxLayers
<1>2. Cleaner \in Threads /\ Starters \subseteq Threads
  BY DEF Threads
<1> QED BY <1>1, <1>2, CalloutsAssumption DEF Init, CalloutsInv, Roles, Bystander,
     Closing, Registered, Pending, Installing, Finished, Swept, TransactionsEnd,
     Threads

(***************************************************************************)
(* What a step of one thread leaves alone.                                 *)
(***************************************************************************)
Moves(t, p) == pc'[t] = p /\ \A u \in Threads \ {t} : pc'[u] = pc[u]

(***************************************************************************)
(* Goto moves one thread.                                                  *)
(***************************************************************************)
LEMMA GotoMoves ==
  ASSUME CalloutsTypeOK, NEW t \in Threads, NEW p \in ThreadPoints, Goto(t, p)
  PROVE  pc' \in [Threads -> ThreadPoints] /\ Moves(t, p)
BY DEF CalloutsTypeOK, Goto, Moves

(***************************************************************************)
(* The START_FILTER that has the handle is the only one at work.           *)
(***************************************************************************)
LEMMA OneStarter ==
  ASSUME CalloutsInv, NEW t \in Starters, pc[t] \notin {"idle", "done"}
  PROVE  /\ starter = t /\ t # Nil /\ t # Cleaner /\ t \in Threads
         /\ Cleaner \in Threads /\ state # "CLOSED"
         /\ Expected(t) = "OPEN" /\ Caller(t) = "done"
BY CalloutsAssumption DEF CalloutsInv, Roles, Bystander, Closing, RequestsDone,
   Threads, Expected, Caller

(***************************************************************************)
(* What the steps of the START_FILTER that has the handle have in common:  *)
(* t moves to p, the handle's own state is left alone, a transaction that  *)
(* t has is one that it is at work on, and once the close has begun        *)
(* nothing is marked installed or taken back any more.                     *)
(***************************************************************************)
StarterStep(t, p) ==
  /\ p \notin {"idle", "close"}
  /\ pc' \in [Threads -> ThreadPoints] /\ Moves(t, p)
  /\ UNCHANGED <<handleVars, engine>>
  /\ ok' \in [Threads -> BOOLEAN] /\ idx' \in [Threads -> Indices]
  /\ \A u \in Threads \ {t} : ok'[u] = ok[u] /\ idx'[u] = idx[u]
  /\ installed' \subseteq Indices /\ callouts' \subseteq Indices
  /\ deleted' \subseteq Indices /\ filters' \subseteq Indices
  /\ state # "OPEN" => installed' = installed
  /\ engine = "closed" => filters' = filters
  /\ \/ txn' = txn /\ (txn = t => p \in TxnPoints)
     \/ txn' = Nil
     \/ txn' = t /\ p \in TxnPoints /\ engine = "open"
  /\ p = "undo_commit" => idx'[t] = 1
  /\ p = "undo_unregister" /\ state = "OPEN" => installed' \cap (1..idx'[t] - 1) = {}

(***************************************************************************)
(* A step of a START_FILTER keeps CalloutsInv, if it keeps the parts about *)
(* what is registered, installed and finished.                             *)
(***************************************************************************)
LEMMA StarterStepInv ==
  ASSUME CalloutsInv, NEW t \in Starters, pc[t] \notin {"idle", "done"}, NEW p,
         StarterStep(t, p), Registered', Installing', Finished'
  PROVE  CalloutsInv'
<1>1. /\ starter = t /\ t # Nil /\ t # Cleaner /\ t \in Threads
      /\ Cleaner \in Threads /\ state # "CLOSED" /\ Expected(t) = "OPEN"
  BY OneStarter
<1> USE <1>1 DEF CalloutsInv, handleVars, StarterStep
<1>2. CalloutsTypeOK'
  BY DEF CalloutsTypeOK
<1>3. Roles'
  BY DEF Roles, Bystander, Moves, Threads
<1>4. Closing'
  BY DEF Closing, RequestsDone, Moves
<1>5. Swept'
  <2>1. ASSUME NEW u \in Threads, pc'[u] = "undo_unregister", state' = Expected(u)'
        PROVE  installed' \cap (1..idx'[u] - 1) = {}
    <3>1. CASE u = t
      BY <2>1, <3>1 DEF Moves, Expected
    <3>2. CASE u # t
      <4>1. pc[u] = "undo_unregister" /\ idx'[u] = idx[u] /\ state = Expected(u)
        BY <2>1, <3>2 DEF Moves, Expected
      <4>2. u = Cleaner
        BY <3>2, <4>1 DEF Roles, Bystander, Threads
      <4>3. state # "OPEN"
        BY <4>1, <4>2 DEF Closing
      <4> QED BY <4>1, <4>3 DEF Swept
    <3> QED BY <3>1, <3>2
  <2>2. ASSUME NEW u \in Threads, pc'[u] = "undo_commit" PROVE idx'[u] = 1
    BY <2>2 DEF Moves, Swept
  <2> QED BY <2>1, <2>2 DEF Swept
<1>6. TransactionsEnd'
  BY DEF TransactionsEnd, Moves, CalloutsTypeOK, TxnPoints
<1> QED BY <1>2, <1>3, <1>4, <1>5, <1>6

(***************************************************************************)
(* The steps of windivert_install_callout.                                 *)
(***************************************************************************)
LEMMA InstallCheckInv ==
  ASSUME CalloutsInv, NEW t \in Starters, InstallCheck(t)
  PROVE  CalloutsInv'
<1>1. /\ pc[t] = "install" /\ starter = t /\ t # Nil /\ t \in Threads
      /\ UNCHANGED <<handleVars, installed, platformVars, idx>>
  BY OneStarter DEF InstallCheck
<1>2. PICK p \in {"exit", "register"} :
        /\ StarterStep(t, p)
        /\ p = "exit" => state # "OPEN" /\ ok'[t] = FALSE
        /\ p = "register" => ok' = ok
  BY <1>1 DEF CalloutsInv, CalloutsTypeOK, InstallCheck, InstallFails, Goto, Status,
     Moves, ThreadPoints, InstallPoints, StarterStep, handleVars, platformVars,
     TransactionsEnd
<1>3. Registered' /\ Installing' /\ Finished'
  BY <1>1, <1>2 DEF CalloutsInv, handleVars, platformVars, StarterStep,
     Registered, Pending, Installing, Finished, Moves, InstallPoints,
     RegisteredPoints, UndoPoints
<1> QED BY <1>1, <1>2, <1>3, StarterStepInv

(***************************************************************************)
(* FwpsCalloutRegister, failing or not, keeps CalloutsInv.                 *)
(***************************************************************************)
LEMMA InstallRegisterInv ==
  ASSUME CalloutsInv, NEW t \in Starters, InstallRegister(t)
  PROVE  CalloutsInv'
<1>1. /\ pc[t] = "register" /\ starter = t /\ t # Nil /\ t \in Threads
      /\ UNCHANGED <<handleVars, installed, engine, txn, deleted, filters, idx>>
  BY OneStarter DEF InstallRegister
<1>2. PICK p \in {"exit", "begin"} :
        /\ StarterStep(t, p)
        /\ p = "exit" => ok'[t] = FALSE /\ UNCHANGED callouts
        /\ p = "begin" => ok' = ok /\ callouts' = callouts \cup {idx[t]}
  BY <1>1 DEF CalloutsInv, CalloutsTypeOK, InstallRegister, InstallFails, Goto, Status,
     Moves, ThreadPoints, InstallPoints, StarterStep, handleVars, TransactionsEnd
<1>3. Registered' /\ Installing' /\ Finished'
  BY <1>1, <1>2 DEF CalloutsInv, handleVars, StarterStep,
     Registered, Pending, Installing, Finished, Moves, InstallPoints,
     RegisteredPoints, UndoPoints
<1> QED BY <1>1, <1>2, <1>3, StarterStepInv

(***************************************************************************)
(* On the way out, the callout that is not installed is taken back.        *)
(***************************************************************************)
LEMMA UnregisterPending ==
  ASSUME CalloutsInv, NEW t \in Starters, pc[t] \in RegisteredPoints, Unregister(t)
  PROVE  callouts' = installed /\ callouts' \subseteq Indices
<1>1. starter = t /\ t # Nil
  BY OneStarter DEF RegisteredPoints
<1>2. /\ callouts = installed \cup {idx[t]} /\ installed \subseteq 1..idx[t] - 1
      /\ idx[t] \in Int /\ installed \subseteq Indices
  BY <1>1 DEF CalloutsInv, Registered, Pending, Installing, InstallPoints,
     RegisteredPoints, CalloutsTypeOK, Indices, MaxLayers, Threads
<1>3. idx[t] \notin installed
  BY <1>2
<1> QED BY <1>2, <1>3 DEF Unregister

(***************************************************************************)
(* FwpmTransactionBegin in the installation keeps CalloutsInv.             *)
(***************************************************************************)
LEMMA InstallBeginInv ==
  ASSUME CalloutsInv, NEW t \in Starters, InstallBegin(t)
  PROVE  CalloutsInv'
<1>1. /\ pc[t] = "begin" /\ starter = t /\ t # Nil /\ t \in Threads
      /\ UNCHANGED <<handleVars, installed, engine, filters, idx>>
  BY OneStarter DEF InstallBegin
<1>2. PICK p \in {"exit", "add"} :
        /\ StarterStep(t, p)
        /\ p = "exit" => ok'[t] = FALSE /\ callouts' = installed
        /\ p = "add" => ok' = ok /\ UNCHANGED callouts
  BY <1>1, UnregisterPending DEF CalloutsInv, CalloutsTypeOK, InstallBegin, InstallFails,
     Goto, Status, Moves, ThreadPoints, InstallPoints, StarterStep, handleVars,
     TransactionsEnd, Begin, CanBegin, RegisteredPoints, TxnPoints
<1>3. Registered' /\ Installing' /\ Finished'
  BY <1>1, <1>2 DEF CalloutsInv, handleVars, StarterStep,
     Registered, Pending, Installing, Finished, Moves, InstallPoints,
     RegisteredPoints, UndoPoints
<1> QED BY <1>1, <1>2, <1>3, StarterStepInv

(***************************************************************************)
(* FwpmCalloutAdd and FwpmFilterAdd keep CalloutsInv.                      *)
(***************************************************************************)
LEMMA InstallAddInv ==
  ASSUME CalloutsInv, NEW t \in Starters, InstallAdd(t)
  PROVE  CalloutsInv'
<1>1. /\ pc[t] = "add" /\ starter = t /\ t # Nil /\ t \in Threads
      /\ UNCHANGED <<handleVars, installed, engine, filters, idx>>
  BY OneStarter DEF InstallAdd
<1>2. PICK p \in {"exit", "commit"} :
        /\ StarterStep(t, p)
        /\ p = "exit" => ok'[t] = FALSE /\ callouts' = installed
        /\ p = "commit" => ok' = ok /\ UNCHANGED callouts
  BY <1>1, UnregisterPending DEF CalloutsInv, CalloutsTypeOK, InstallAdd, InstallFails,
     Goto, Status, Moves, ThreadPoints, InstallPoints, StarterStep, handleVars,
     TransactionsEnd, Abort, RegisteredPoints, TxnPoints
<1>3. Registered' /\ Installing' /\ Finished'
  BY <1>1, <1>2 DEF CalloutsInv, handleVars, StarterStep,
     Registered, Pending, Installing, Finished, Moves, InstallPoints,
     RegisteredPoints, UndoPoints
<1> QED BY <1>1, <1>2, <1>3, StarterStepInv

(***************************************************************************)
(* FwpmTransactionCommit in the installation keeps CalloutsInv.            *)
(***************************************************************************)
LEMMA InstallCommitInv ==
  ASSUME CalloutsInv, NEW t \in Starters, InstallCommit(t)
  PROVE  CalloutsInv'
<1>1. /\ pc[t] = "commit" /\ starter = t /\ t # Nil /\ t \in Threads
      /\ UNCHANGED <<handleVars, installed, engine, idx>>
  BY OneStarter DEF InstallCommit
<1>2. PICK p \in {"exit", "mark"} :
        /\ StarterStep(t, p)
        /\ p = "exit" => ok'[t] = FALSE /\ callouts' = installed /\ UNCHANGED filters
        /\ p = "mark" => /\ ok' = ok /\ UNCHANGED callouts
                         /\ filters' = filters \cup {idx[t]}
  BY <1>1, UnregisterPending DEF CalloutsInv, CalloutsTypeOK, InstallCommit, InstallFails,
     Goto, Status, Moves, ThreadPoints, InstallPoints, StarterStep, handleVars,
     TransactionsEnd, Abort, RegisteredPoints, TxnPoints
<1>3. Registered' /\ Finished'
  BY <1>1, <1>2 DEF CalloutsInv, handleVars, StarterStep,
     Registered, Pending, Installing, Finished, Moves, InstallPoints,
     RegisteredPoints, UndoPoints
<1>4. idx[t] \in Int /\ idx[t] >= 1
  BY <1>1 DEF CalloutsInv, CalloutsTypeOK, Indices, MaxLayers
<1>5. Installing'
  <2>1. /\ ok[t] /\ idx[t] <= Len(chosen) /\ installed \subseteq 1..idx[t] - 1
        /\ state = "OPEN" => installed = 1..idx[t] - 1 /\ filters = 1..idx[t] - 1
    BY <1>1 DEF CalloutsInv, Installing, InstallPoints
  <2>2. (1..idx[t] - 1) \cup {idx[t]} = 1..idx[t]
    BY <1>4
  <2>3. CASE p = "mark"
    BY <1>1, <1>2, <2>1, <2>2, <2>3 DEF handleVars, StarterStep, Installing, Moves
  <2>4. CASE p = "exit"
    BY <1>1, <1>2, <2>4 DEF handleVars, StarterStep, Installing, Moves, InstallPoints
  <2> QED BY <2>3, <2>4
<1> QED BY <1>1, <1>2, <1>3, <1>5, StarterStepInv

(***************************************************************************)
(* Marking the layer installed, under the lock, keeps CalloutsInv.         *)
(***************************************************************************)
LEMMA InstallMarkInv ==
  ASSUME CalloutsInv, NEW t \in Starters, InstallMark(t)
  PROVE  CalloutsInv'
<1>1. /\ pc[t] = "mark" /\ starter = t /\ t # Nil /\ t \in Threads
      /\ UNCHANGED <<handleVars, engine, txn, deleted, filters>>
      /\ ok[t] /\ idx[t] <= Len(chosen) /\ installed \subseteq 1..idx[t] - 1
      /\ state = "OPEN" => installed = 1..idx[t] - 1 /\ filters = 1..idx[t]
  BY OneStarter DEF InstallMark, CalloutsInv, Installing, InstallPoints
<1>2. /\ idx[t] \in Nat /\ idx[t] >= 1 /\ idx[t] <= 4 /\ Len(chosen) \in Nat
      /\ Len(chosen) <= 4 /\ Indices = 1..4
  BY <1>1 DEF CalloutsInv, CalloutsTypeOK, Indices, MaxLayers
<1>3. CASE ~StillOpen
  <2>1. /\ StarterStep(t, "exit") /\ ok'[t] = FALSE /\ callouts' = installed
        /\ UNCHANGED installed
    BY <1>1, <1>3, UnregisterPending DEF CalloutsInv, CalloutsTypeOK, InstallMark,
       InstallFails, Goto, Status, Moves, ThreadPoints, InstallPoints, StarterStep,
       handleVars, TransactionsEnd, RegisteredPoints, TxnPoints
  <2>2. Registered' /\ Installing' /\ Finished'
    BY <1>1, <2>1 DEF CalloutsInv, handleVars, StarterStep,
       Registered, Pending, Installing, Finished, Moves, InstallPoints,
       RegisteredPoints, UndoPoints
  <2> QED BY <1>1, <2>1, <2>2, StarterStepInv
<1>4. CASE StillOpen /\ idx[t] < Len(chosen)
  <2>1. /\ idx' = [idx EXCEPT ![t] = @ + 1] /\ Goto(t, "install")
        /\ installed' = installed \cup {idx[t]} /\ UNCHANGED <<callouts, ok>>
    BY <1>4 DEF InstallMark
  <2>2. idx'[t] = idx[t] + 1 /\ idx' \in [Threads -> Indices] /\ idx[t] \in Indices
    BY <1>1, <1>2, <1>4, <2>1 DEF CalloutsInv, CalloutsTypeOK
  <2>3. StarterStep(t, "install")
    BY <1>1, <1>4, <2>1, <2>2 DEF CalloutsInv, CalloutsTypeOK, Goto, StillOpen,
       Moves, ThreadPoints, InstallPoints, StarterStep, handleVars, TransactionsEnd
  <2>4. installed' = 1..idx'[t] - 1 /\ filters' = installed'
    BY <1>1, <1>2, <1>4, <2>1, <2>2 DEF StillOpen
  <2>5. Registered' /\ Installing' /\ Finished'
    BY <1>1, <1>2, <1>4, <2>1, <2>2, <2>3, <2>4 DEF CalloutsInv, handleVars,
       StarterStep, Registered, Pending, Installing, Finished, Moves,
       InstallPoints, RegisteredPoints, UndoPoints
  <2> QED BY <1>1, <2>3, <2>5, StarterStepInv
<1>5. CASE StillOpen /\ ~(idx[t] < Len(chosen))
  <2>1. /\ Goto(t, "exit") /\ UNCHANGED <<idx, callouts, ok>>
        /\ installed' = installed \cup {idx[t]} /\ idx[t] \in Indices
    BY <1>2, <1>5 DEF InstallMark
  <2>2. StarterStep(t, "exit")
    BY <1>1, <1>5, <2>1 DEF CalloutsInv, CalloutsTypeOK, Goto, StillOpen,
       Moves, ThreadPoints, InstallPoints, StarterStep, handleVars, TransactionsEnd
  <2>3. installed' = 1..Len(chosen) /\ filters' = 1..Len(chosen)
    BY <1>1, <1>2, <1>5, <2>1 DEF StillOpen
  <2>4. Registered' /\ Installing' /\ Finished'
    BY <1>1, <2>1, <2>2, <2>3 DEF CalloutsInv, handleVars, StarterStep,
       Registered, Pending, Installing, Finished, Moves, InstallPoints,
       RegisteredPoints, UndoPoints
  <2> QED BY <1>1, <2>2, <2>4, StarterStepInv
<1> QED BY <1>3, <1>4, <1>5

(***************************************************************************)
(* Completing the START_FILTER keeps CalloutsInv.                          *)
(***************************************************************************)
LEMMA StartExitInv ==
  ASSUME CalloutsInv, NEW t \in Starters, StartExit(t)
  PROVE  CalloutsInv'
<1>1. /\ pc[t] = "exit" /\ starter = t /\ t # Nil /\ t \in Threads
      /\ UNCHANGED <<handleVars, installed, platformVars, idx, ok>>
  BY OneStarter DEF StartExit
<1>2. PICK p \in {"undo", "done"} : StarterStep(t, p) /\ (p = "undo" <=> ~ok[t])
  BY <1>1 DEF CalloutsInv, CalloutsTypeOK, StartExit, Goto, MustUndo, Moves, ThreadPoints,
     UndoPoints, StarterStep, handleVars, platformVars, TransactionsEnd
<1>3. Registered' /\ Installing' /\ Finished'
  BY <1>1, <1>2 DEF CalloutsInv, handleVars, platformVars, StarterStep,
     Registered, Pending, Installing, Finished, Moves, InstallPoints,
     RegisteredPoints, UndoPoints
<1> QED BY <1>1, <1>2, <1>3, StarterStepInv

-----------------------------------------------------------------------------
(***************************************************************************)
(* windivert_uninstall_callouts, whoever runs it: it leaves what is        *)
(* installed alone or takes one layer out and goes on to the next.         *)
(***************************************************************************)
UndoStep(t, p) ==
  /\ pc' \in [Threads -> ThreadPoints] /\ Moves(t, p)
  /\ UNCHANGED <<handleVars, engine, ok>>
  /\ idx' \in [Threads -> Indices]
  /\ \A u \in Threads \ {t} : idx'[u] = idx[u]
  /\ deleted' \subseteq Indices /\ filters' \subseteq filters
  /\ engine = "closed" => filters' = filters
  /\ \/ txn' = txn /\ (txn = t => p \in TxnPoints)
     \/ txn' = Nil
     \/ txn' = t /\ p \in TxnPoints /\ engine = "open"
  /\ p = "undo_commit" => idx'[t] = 1
  /\ \/ /\ UNCHANGED <<installed, callouts>>
        /\ p = "undo_unregister" => idx'[t] = 1
        /\ p = Caller(t) => state # Expected(t)
     \/ /\ state = Expected(t) /\ pc[t] = "undo_unregister"
        /\ installed' = installed \ {idx[t]}
        /\ callouts' = callouts \ (installed \cap {idx[t]})
        /\ \/ p = "undo_unregister" /\ idx'[t] = idx[t] + 1
           \/ p = Caller(t) /\ idx[t] = MaxLayers

(***************************************************************************)
(* What NextIndex does: on to the next layer, or past the last one.        *)
(***************************************************************************)
LEMMA NextIndexStep ==
  ASSUME CalloutsTypeOK, NEW t \in Threads, NEW p \in ThreadPoints, NEW q \in ThreadPoints,
         NextIndex(t, p, q)
  PROVE  /\ idx' \in [Threads -> Indices]
         /\ \A u \in Threads \ {t} : idx'[u] = idx[u]
         /\ pc' \in [Threads -> ThreadPoints]
         /\ \/ idx[t] < MaxLayers /\ idx'[t] = idx[t] + 1 /\ Moves(t, p)
            \/ idx[t] = MaxLayers /\ idx'[t] = 1 /\ Moves(t, q)
<1>1. idx[t] \in 1..4 /\ MaxLayers = 4 /\ Indices = 1..4
  BY DEF CalloutsTypeOK, Indices, MaxLayers
<1>2. CASE idx[t] < MaxLayers
  <2>1. idx' = [idx EXCEPT ![t] = @ + 1] /\ Goto(t, p) /\ idx[t] + 1 \in Indices
    BY <1>1, <1>2 DEF NextIndex
  <2> QED BY <1>2, <2>1, GotoMoves DEF CalloutsTypeOK
<1>3. CASE ~(idx[t] < MaxLayers)
  <2>1. idx' = [idx EXCEPT ![t] = 1] /\ Goto(t, q) /\ 1 \in Indices /\ idx[t] = MaxLayers
    BY <1>1, <1>3 DEF NextIndex
  <2> QED BY <2>1, GotoMoves DEF CalloutsTypeOK
<1> QED BY <1>2, <1>3

(***************************************************************************)
(* A step of the undoing goes to a point of the undoing, or back to its    *)
(* caller.                                                                 *)
(***************************************************************************)
LEMMA UndoSteps ==
  ASSUME CalloutsInv, NEW t \in Threads, Undo(t)
  PROVE  /\ pc[t] \in UndoPoints
         /\ \E p \in UndoPoints \cup {Caller(t)} : UndoStep(t, p)
<1>1. /\ Caller(t) \in ThreadPoints /\ UndoPoints \subseteq ThreadPoints /\ 1 \in Indices
      /\ Caller(t) \notin UndoPoints
  BY DEF Caller, ThreadPoints, UndoPoints, Indices, MaxLayers
<1>2. CalloutsTypeOK /\ Swept /\ Closing
  BY DEF CalloutsInv
<1> USE DEF UndoStep
<1>3. CASE UndoCheck(t)
  <2>1. PICK p \in {"undo_begin", Caller(t)} :
          Goto(t, p) /\ (p = Caller(t) => state # Expected(t))
    BY <1>1, <1>3 DEF UndoCheck, UndoPoints
  <2>2. /\ pc[t] = "undo"
        /\ UNCHANGED <<handleVars, installed, platformVars, idx, ok>>
    BY <1>3 DEF UndoCheck
  <2>3. pc' \in [Threads -> ThreadPoints] /\ Moves(t, p)
    BY <1>1, <1>2, <2>1, GotoMoves DEF UndoPoints
  <2>4. UndoStep(t, p)
    BY <1>1, <1>2, <2>1, <2>2, <2>3 DEF CalloutsTypeOK, platformVars, UndoPoints,
       CalloutsInv, TransactionsEnd
  <2> QED BY <2>1, <2>2, <2>4 DEF UndoPoints
<1>4. CASE UndoBegin(t)
  <2>1. PICK p \in {"undo_unregister", "undo_delete"} :
          /\ Goto(t, p)
          /\ \/ p = "undo_unregister" /\ UNCHANGED <<txn, deleted>>
             \/ p = "undo_delete" /\ CanBegin /\ Begin(t)
    BY <1>4 DEF UndoBegin
  <2>2. /\ pc[t] = "undo_begin" /\ idx' = [idx EXCEPT ![t] = 1]
        /\ UNCHANGED <<handleVars, installed, engine, callouts, filters, ok>>
    BY <1>4 DEF UndoBegin
  <2>3. pc' \in [Threads -> ThreadPoints] /\ Moves(t, p)
    BY <1>1, <1>2, <2>1, GotoMoves DEF UndoPoints
  <2>4. UndoStep(t, p)
    BY <1>1, <1>2, <2>1, <2>2, <2>3 DEF CalloutsTypeOK, UndoPoints, TxnPoints,
       CalloutsInv, TransactionsEnd, CanBegin, Begin
  <2> QED BY <2>2, <2>4 DEF UndoPoints
<1>5. CASE UndoDelete(t)
  <2>1. /\ pc[t] = "undo_delete"
        /\ UNCHANGED <<handleVars, installed, engine, callouts, filters, ok>>
    BY <1>5 DEF UndoDelete
  <2>2. CASE Abort(t) /\ Goto(t, Caller(t)) /\ UNCHANGED idx /\ state # Expected(t)
    <3>1. pc' \in [Threads -> ThreadPoints] /\ Moves(t, Caller(t))
      BY <1>1, <1>2, <2>2, GotoMoves
    <3>2. UndoStep(t, Caller(t))
      BY <1>1, <1>2, <2>1, <2>2, <3>1 DEF CalloutsTypeOK, Abort, UndoPoints
    <3> QED BY <2>1, <3>2 DEF UndoPoints
  <2>3. CASE /\ Abort(t) /\ idx' = [idx EXCEPT ![t] = 1]
             /\ Goto(t, "undo_unregister")
    <3>1. pc' \in [Threads -> ThreadPoints] /\ Moves(t, "undo_unregister")
      BY <1>1, <1>2, <2>3, GotoMoves DEF UndoPoints
    <3>2. UndoStep(t, "undo_unregister")
      BY <1>1, <1>2, <2>1, <2>3, <3>1 DEF CalloutsTypeOK, Abort, UndoPoints
    <3> QED BY <2>1, <3>2 DEF UndoPoints
  <2>4. CASE /\ NextIndex(t, "undo_delete", "undo_commit") /\ UNCHANGED txn
             /\ deleted' = deleted \/ deleted' = deleted \cup {idx[t]}
    <3>1. PICK p \in {"undo_delete", "undo_commit"} :
            /\ pc' \in [Threads -> ThreadPoints] /\ Moves(t, p)
            /\ idx' \in [Threads -> Indices]
            /\ \A u \in Threads \ {t} : idx'[u] = idx[u]
            /\ p = "undo_commit" => idx'[t] = 1
      BY <1>1, <1>2, <2>4, NextIndexStep DEF UndoPoints
    <3>2. deleted' \subseteq Indices /\ p \in TxnPoints
      BY <1>2, <2>4 DEF CalloutsTypeOK, TxnPoints
    <3>3. UndoStep(t, p)
      BY <1>1, <1>2, <2>1, <2>4, <3>1, <3>2 DEF CalloutsTypeOK, UndoPoints
    <3> QED BY <2>1, <3>3 DEF UndoPoints
  <2> QED BY <1>5, <2>2, <2>3, <2>4 DEF UndoDelete
<1>6. CASE UndoCommit(t)
  <2>1. /\ pc[t] = "undo_commit" /\ Abort(t) /\ Goto(t, "undo_unregister")
        /\ UNCHANGED <<handleVars, installed, engine, callouts, idx, ok>>
        /\ UNCHANGED filters \/ (engine = "open" /\ filters' = filters \ deleted)
    BY <1>6 DEF UndoCommit, Commit
  <2>2. pc' \in [Threads -> ThreadPoints] /\ Moves(t, "undo_unregister") /\ idx'[t] = 1
    BY <1>1, <1>2, <2>1, GotoMoves DEF UndoPoints, Swept
  <2>3. UndoStep(t, "undo_unregister")
    BY <1>1, <1>2, <2>1, <2>2 DEF CalloutsTypeOK, Abort, UndoPoints
  <2> QED BY <2>1, <2>3 DEF UndoPoints
<1>7. CASE UndoUnregister(t)
  <2>1. /\ pc[t] = "undo_unregister"
        /\ UNCHANGED <<handleVars, engine, txn, deleted, filters, ok>>
    BY <1>7 DEF UndoUnregister
  <2>2. txn # t
    BY <1>2, <2>1, CalloutsAssumption DEF CalloutsInv, TransactionsEnd, CalloutsTypeOK, Threads
  <2>3. CASE /\ state # Expected(t) /\ Goto(t, Caller(t))
             /\ UNCHANGED <<installed, callouts, idx>>
    <3>1. pc' \in [Threads -> ThreadPoints] /\ Moves(t, Caller(t))
      BY <1>1, <1>2, <2>3, GotoMoves
    <3>2. UndoStep(t, Caller(t))
      BY <1>1, <1>2, <2>1, <2>2, <2>3, <3>1 DEF CalloutsTypeOK, UndoPoints
    <3> QED BY <2>1, <3>2 DEF UndoPoints
  <2>4. CASE /\ state = Expected(t)
             /\ installed' = installed \ {idx[t]}
             /\ callouts' = callouts \ (installed \cap {idx[t]})
             /\ NextIndex(t, "undo_unregister", Caller(t))
    <3>1. PICK p \in {"undo_unregister", Caller(t)} :
            /\ pc' \in [Threads -> ThreadPoints] /\ Moves(t, p)
            /\ idx' \in [Threads -> Indices]
            /\ \A u \in Threads \ {t} : idx'[u] = idx[u]
            /\ \/ p = "undo_unregister" /\ idx'[t] = idx[t] + 1
               \/ p = Caller(t) /\ idx[t] = MaxLayers
      BY <1>1, <1>2, <2>4, NextIndexStep DEF UndoPoints
    <3>2. UndoStep(t, p)
      BY <1>1, <1>2, <2>1, <2>2, <2>4, <3>1 DEF CalloutsTypeOK, UndoPoints
    <3> QED BY <2>1, <3>1, <3>2 DEF UndoPoints
  <2> QED BY <1>7, <2>3, <2>4 DEF UndoUnregister
<1> QED BY <1>3, <1>4, <1>5, <1>6, <1>7 DEF Undo

(***************************************************************************)
(* Taking one layer out keeps the callouts and the marks in step.          *)
(***************************************************************************)
LEMMA UndoKeepsRegistered ==
  ASSUME CalloutsInv, NEW t \in Threads, NEW p, UndoStep(t, p), pc[t] \in UndoPoints,
         p \notin RegisteredPoints
  PROVE  /\ installed' \subseteq installed /\ callouts' \subseteq callouts
         /\ t = Cleaner \/ t = starter => Registered'
         /\ p = "undo_unregister" /\ state = Expected(t) =>
              installed' \cap (1..idx'[t] - 1) = {}
         /\ p = Caller(t) /\ state = Expected(t) => installed' = {}
<1>1. /\ installed' \subseteq installed /\ callouts' \subseteq callouts
  BY DEF UndoStep
<1>2. idx[t] \in Nat /\ Indices = 1..4 /\ MaxLayers = 4 /\ installed \subseteq Indices
      /\ idx[t] >= 1 /\ idx'[t] \in Nat
  BY DEF CalloutsInv, CalloutsTypeOK, Indices, MaxLayers, UndoStep
<1>3. ASSUME t = Cleaner \/ t = starter PROVE Registered'
  <2>1. UNCHANGED starter
    BY DEF UndoStep, handleVars
  <2>2. starter # Nil => starter \in Threads
    BY DEF CalloutsInv, CalloutsTypeOK, Threads
  <2>3. Pending' = Pending /\ (t = starter => Pending = {})
    BY <2>1, <2>2, <1>3 DEF Pending, UndoStep, Moves, UndoPoints, RegisteredPoints
  <2>4. CASE UNCHANGED <<installed, callouts>>
    BY <2>3, <2>4 DEF CalloutsInv, Registered
  <2>5. CASE /\ state = Expected(t)
             /\ installed' = installed \ {idx[t]}
             /\ callouts' = callouts \ (installed \cap {idx[t]})
    <3>1. Pending \cap installed = {}
      <4>1. CASE starter # Nil /\ pc[starter] \in RegisteredPoints
        <5>1. installed \subseteq 1..idx[starter] - 1 /\ Pending = {idx[starter]}
          BY <4>1 DEF CalloutsInv, Installing, Pending, InstallPoints, RegisteredPoints
        <5>2. idx[starter] \in Nat
          BY <2>2, <4>1 DEF CalloutsInv, CalloutsTypeOK, Indices
        <5> QED BY <5>1, <5>2
      <4>2. CASE ~(starter # Nil /\ pc[starter] \in RegisteredPoints)
        BY <4>2 DEF Pending
      <4> QED BY <4>1, <4>2
    <3>2. callouts = installed \cup Pending
      BY DEF CalloutsInv, Registered
    <3>3. callouts' = installed' \cup Pending
      BY <2>5, <3>1, <3>2
    <3> QED BY <2>3, <3>3 DEF Registered
  <2> QED BY <2>4, <2>5 DEF UndoStep
<1>4. ASSUME p = "undo_unregister", state = Expected(t)
      PROVE  installed' \cap (1..idx'[t] - 1) = {}
  <2>1. CASE idx'[t] = 1
    BY <2>1
  <2>2. CASE /\ pc[t] = "undo_unregister" /\ idx'[t] = idx[t] + 1
             /\ installed' = installed \ {idx[t]}
    <3>1. installed \cap (1..idx[t] - 1) = {}
      BY <1>4, <2>2 DEF CalloutsInv, Swept
    <3> QED BY <1>2, <2>2, <3>1
  <2> QED BY <1>4, <2>1, <2>2 DEF UndoStep, Caller
<1>5. ASSUME p = Caller(t), state = Expected(t) PROVE installed' = {}
  <2>1. /\ pc[t] = "undo_unregister" /\ idx[t] = MaxLayers
        /\ installed' = installed \ {idx[t]}
    BY <1>5 DEF UndoStep, Caller
  <2>2. installed \cap (1..idx[t] - 1) = {}
    BY <1>5, <2>1 DEF CalloutsInv, Swept
  <2> QED BY <1>2, <2>1, <2>2
<1> QED BY <1>1, <1>3, <1>4, <1>5

(***************************************************************************)
(* The failed START_FILTER undoes what it did.                             *)
(***************************************************************************)
LEMMA UndoStarterInv ==
  ASSUME CalloutsInv, NEW t \in Starters, Undo(t)
  PROVE  CalloutsInv'
<1>1. t \in Threads
  BY DEF Threads
<1>2. PICK p \in UndoPoints \cup {Caller(t)} : UndoStep(t, p)
  BY <1>1, UndoSteps
<1>3. pc[t] \in UndoPoints
  BY <1>1, UndoSteps
<1>4. /\ starter = t /\ t # Nil /\ t # Cleaner /\ Expected(t) = "OPEN"
      /\ Caller(t) = "done" /\ pc[t] \notin {"idle", "done"}
  BY <1>3, OneStarter DEF UndoPoints
<1>5. p \in UndoPoints \cup {"done"} /\ p \notin RegisteredPoints
      /\ p \notin InstallPoints
  BY <1>4 DEF UndoPoints, RegisteredPoints, InstallPoints
<1>6. /\ installed' \subseteq installed /\ callouts' \subseteq callouts /\ Registered'
      /\ p = "undo_unregister" /\ state = "OPEN" => installed' \cap (1..idx'[t] - 1) = {}
      /\ p = "done" /\ state = "OPEN" => installed' = {}
  BY <1>1, <1>2, <1>3, <1>4, <1>5, UndoKeepsRegistered
<1>7. state # "OPEN" => installed' = installed
  BY <1>2, <1>4 DEF UndoStep
<1>8. StarterStep(t, p)
  BY <1>2, <1>4, <1>5, <1>6, <1>7 DEF UndoStep, StarterStep, CalloutsInv, CalloutsTypeOK,
     UndoPoints
<1>9. ok[t] = FALSE
  BY <1>1, <1>3, <1>4 DEF CalloutsInv, Finished, CalloutsTypeOK
<1>10. Installing' /\ Finished'
  BY <1>2, <1>4, <1>5, <1>6, <1>9 DEF UndoStep, Installing, Finished, handleVars, Moves
<1> QED BY <1>4, <1>6, <1>8, <1>10, StarterStepInv

(***************************************************************************)
(* The close takes out what is installed, whatever the START_FILTER does.  *)
(***************************************************************************)
LEMMA UndoCleanerInv ==
  ASSUME CalloutsInv, Undo(Cleaner)
  PROVE  CalloutsInv'
<1> DEFINE t == Cleaner
<1>1. t \in Threads /\ Caller(t) = "close" /\ Expected(t) = "CLOSING"
      /\ Nil \notin Threads /\ Starters = Threads \ {t}
  BY CalloutsAssumption DEF Threads, Caller, Expected
<1>2. PICK p \in UndoPoints \cup {"close"} : UndoStep(t, p)
  BY <1>1, UndoSteps
<1>3. pc[t] \in UndoPoints
  BY <1>1, UndoSteps
<1> HIDE DEF t
<1>4. state = "CLOSING" /\ engine = "open"
  BY <1>3 DEF CalloutsInv, Closing, CalloutsTypeOK, UndoPoints, t
<1>5. p \notin RegisteredPoints /\ p \notin {"idle", "done"}
  BY DEF UndoPoints, RegisteredPoints
<1>6. /\ installed' \subseteq installed /\ callouts' \subseteq callouts /\ Registered'
      /\ p = "undo_unregister" => installed' \cap (1..idx'[t] - 1) = {}
      /\ p = "close" => installed' = {}
  BY <1>1, <1>2, <1>3, <1>4, <1>5, UndoKeepsRegistered DEF t
<1>7. /\ UNCHANGED <<state, on, starter, layer, chosen, engine, ok>>
      /\ pc'[t] = p
      /\ \A u \in Starters : pc'[u] = pc[u] /\ idx'[u] = idx[u]
  BY <1>1, <1>2 DEF UndoStep, handleVars, Moves
<1>8. CalloutsTypeOK'
  BY <1>1, <1>2, <1>6, <1>7 DEF CalloutsInv, CalloutsTypeOK, UndoStep
<1>9. starter # Nil => starter \in Starters
  BY DEF CalloutsInv, CalloutsTypeOK
<1>10. Roles'
  <2>1. starter = Nil => filters' = {}
    BY <1>2 DEF CalloutsInv, Roles, UndoStep
  <2> QED BY <1>6, <1>7, <1>9, <2>1 DEF CalloutsInv, Roles, Bystander
<1>11. Closing'
  BY <1>4, <1>5, <1>6, <1>7 DEF CalloutsInv, Closing, t
<1>12. Installing' /\ Finished'
  BY <1>4, <1>6, <1>7, <1>9 DEF CalloutsInv, Installing, Finished
<1>13. Swept'
  <2>1. \A u \in Starters : Expected(u)' # state'
    BY <1>1, <1>4, <1>7, CalloutsAssumption DEF Expected
  <2>2. \A u \in Starters : pc'[u] = "undo_commit" => idx'[u] = 1
    BY <1>1, <1>7 DEF CalloutsInv, Swept
  <2>3. pc'[t] = "undo_commit" => idx'[t] = 1
    BY <1>2, <1>7 DEF UndoStep
  <2> QED BY <1>1, <1>6, <1>7, <2>1, <2>2, <2>3 DEF Swept
<1>14. TransactionsEnd'
  BY <1>1, <1>2, <1>7 DEF CalloutsInv, TransactionsEnd, CalloutsTypeOK, UndoStep, TxnPoints
<1> QED BY <1>6, <1>8, <1>10, <1>11, <1>12, <1>13, <1>14 DEF CalloutsInv

-----------------------------------------------------------------------------
(***************************************************************************)
(* The ioctls and the close.                                               *)
(***************************************************************************)
LEMMA StartInv ==
  ASSUME CalloutsInv, NEW t \in Starters, StartRefused(t) \/ Start(t)
  PROVE  CalloutsInv'
<1>1. /\ t \in Threads /\ t # Nil /\ t # Cleaner /\ pc[t] = "idle" /\ t # starter
      /\ Cleaner \in Threads /\ Nil \notin Threads
      /\ UNCHANGED <<state, layer, installed, platformVars, idx>>
      /\ state # "CLOSED" /\ ok[t] = TRUE /\ idx[t] = 1
  BY CalloutsAssumption DEF Threads, StartRefused, Start, CalloutsInv, Roles,
     handleVars, Bystander
<1>2. CASE StartRefused(t)
  <2>1. /\ ok' \in [Threads -> BOOLEAN] /\ ok'[t] = FALSE
        /\ \A u \in Threads \ {t} : ok'[u] = ok[u]
        /\ pc' \in [Threads -> ThreadPoints] /\ Moves(t, "done")
        /\ UNCHANGED <<on, starter, chosen>>
    BY <1>1, <1>2 DEF StartRefused, Status, Goto, Moves, CalloutsInv, CalloutsTypeOK,
       handleVars, ThreadPoints
  <2> USE <1>1, <2>1 DEF CalloutsInv, platformVars
  <2>2. CalloutsTypeOK'
    BY DEF CalloutsTypeOK
  <2>3. Roles'
    BY DEF Roles, Bystander, Moves, Threads, CalloutsTypeOK
  <2>4. Closing'
    BY DEF Closing, RequestsDone, Moves
  <2>5. Registered' /\ Installing' /\ Finished'
    BY DEF Registered, Pending, Installing, Finished, Moves, CalloutsTypeOK, Threads
  <2>6. Swept'
    BY DEF Swept, Moves, Expected
  <2>7. TransactionsEnd'
    BY DEF TransactionsEnd, Moves, CalloutsTypeOK
  <2> QED BY <2>2, <2>3, <2>4, <2>5, <2>6, <2>7
<1>3. CASE Start(t)
  <2>1. /\ state = "OPEN" /\ on = FALSE /\ on' = TRUE /\ starter' = t
        /\ chosen' = Select(layer, Analysis[t]) /\ starter = Nil
        /\ installed = {} /\ callouts = {} /\ filters = {}
    BY <1>3 DEF Start, CalloutsInv, Roles, CalloutsTypeOK
  <2>2. chosen' \in Seq(WfpLayers) /\ Len(chosen') <= MaxLayers
    BY <2>1, SelectFits
  <2>3. PICK p \in {"exit", "install"} :
          /\ pc' \in [Threads -> ThreadPoints] /\ Moves(t, p)
          /\ ok' \in [Threads -> BOOLEAN]
          /\ \A u \in Threads \ {t} : ok'[u] = ok[u]
          /\ p = "exit" => Len(chosen') = 0
          /\ p = "install" => Len(chosen') >= 1 /\ ok'[t] = TRUE
    <3>1. CASE /\ chosen' = <<>> /\ Goto(t, "exit")
               /\ \E v \in BOOLEAN : Status(t, v)
      <4>1. pc' \in [Threads -> ThreadPoints] /\ Moves(t, "exit")
        BY <1>1, <3>1, GotoMoves DEF CalloutsInv, ThreadPoints
      <4>2. ok' \in [Threads -> BOOLEAN] /\ \A u \in Threads \ {t} : ok'[u] = ok[u]
        BY <1>1, <3>1 DEF CalloutsInv, CalloutsTypeOK, Status
      <4> QED BY <3>1, <4>1, <4>2
    <3>2. CASE chosen' # <<>> /\ Goto(t, "install") /\ UNCHANGED ok
      <4>1. pc' \in [Threads -> ThreadPoints] /\ Moves(t, "install")
        BY <1>1, <3>2, GotoMoves DEF CalloutsInv, ThreadPoints, InstallPoints
      <4>2. Len(chosen') \in Nat /\ Len(chosen') # 0
        BY <2>2, <3>2
      <4> QED BY <1>1, <3>2, <4>1, <4>2 DEF CalloutsInv, CalloutsTypeOK
    <3> QED BY <1>3, <3>1, <3>2 DEF Start
  <2> USE <1>1, <2>1, <2>2, <2>3 DEF CalloutsInv, platformVars
  <2>4. CalloutsTypeOK'
    BY DEF CalloutsTypeOK
  <2>5. Roles'
    BY DEF Roles, Bystander, Moves, Threads, CalloutsTypeOK
  <2>6. Closing'
    BY DEF Closing, Moves
  <2>7. Registered' /\ Installing' /\ Finished'
    BY DEF Registered, Pending, Installing, Finished, Moves, CalloutsTypeOK,
       RegisteredPoints, UndoPoints, InstallPoints
  <2>8. Swept'
    BY DEF Swept, Moves, Expected
  <2>9. TransactionsEnd'
    BY DEF TransactionsEnd, Moves, CalloutsTypeOK
  <2> QED BY <2>4, <2>5, <2>6, <2>7, <2>8, <2>9
<1> QED BY <1>2, <1>3

(***************************************************************************)
(* SET_LAYER and the other steps of the close keep CalloutsInv.            *)
(***************************************************************************)
LEMMA OtherStepsInv ==
  ASSUME CalloutsInv,
         SetLayer \/ CleanupBegin \/ CloseEngine \/ Close \/ Terminated \/ UNCHANGED vars
  PROVE  CalloutsInv'
<1>0. /\ Cleaner \in Threads /\ Nil \notin Threads /\ Starters = Threads \ {Cleaner}
      /\ starter # Nil => starter \in Starters
  BY CalloutsAssumption DEF Threads, CalloutsInv, CalloutsTypeOK
<1>1. CASE SetLayer
  BY <1>0, <1>1 DEF SetLayer, Settable, platformVars, CalloutsInv, CalloutsTypeOK, Roles,
     Bystander, Closing, RequestsDone, Registered, Pending, Installing, Finished,
     Swept, Expected, TransactionsEnd
<1>2. CASE CleanupBegin
  <2>1. /\ pc' \in [Threads -> ThreadPoints] /\ Moves(Cleaner, "undo")
        /\ pc[Cleaner] = "idle" /\ state = "OPEN" /\ state' = "CLOSING"
        /\ UNCHANGED <<on, starter, layer, chosen, installed, platformVars, idx, ok>>
    BY <1>0, <1>2, GotoMoves DEF CleanupBegin, CalloutsInv, ThreadPoints, UndoPoints
  <2> USE <1>0, <2>1 DEF CalloutsInv, platformVars
  <2>2. CalloutsTypeOK'
    BY DEF CalloutsTypeOK
  <2>3. Roles'
    BY DEF Roles, Bystander, Moves
  <2>4. Closing'
    BY DEF Closing, Moves, UndoPoints
  <2>5. Registered' /\ Installing' /\ Finished'
    BY DEF Registered, Pending, Installing, Finished, Moves
  <2>6. Swept'
    BY CalloutsAssumption DEF Swept, Moves, Expected
  <2>7. TransactionsEnd'
    BY DEF TransactionsEnd, Moves, CalloutsTypeOK
  <2> QED BY <2>2, <2>3, <2>4, <2>5, <2>6, <2>7
<1>3. CASE CloseEngine
  <2>1. /\ pc' \in [Threads -> ThreadPoints] /\ Moves(Cleaner, "done")
        /\ pc[Cleaner] = "close" /\ state = "CLOSING"
        /\ engine' = "closed" /\ txn' = Nil /\ deleted' = {} /\ filters' = {}
        /\ UNCHANGED <<handleVars, installed, callouts, idx, ok>>
    BY <1>0, <1>3, GotoMoves DEF CloseEngine, CalloutsInv, CalloutsTypeOK, Closing, ThreadPoints
  <2> USE <1>0, <2>1 DEF CalloutsInv, handleVars
  <2>2. CalloutsTypeOK'
    BY DEF CalloutsTypeOK
  <2>3. Roles'
    BY DEF Roles, Bystander, Moves
  <2>4. Closing'
    BY DEF Closing, Moves
  <2>5. Registered' /\ Installing' /\ Finished'
    BY DEF Registered, Pending, Installing, Finished, Moves
  <2>6. Swept'
    BY DEF Swept, Moves, Expected
  <2>7. TransactionsEnd'
    BY DEF TransactionsEnd
  <2> QED BY <2>2, <2>3, <2>4, <2>5, <2>6, <2>7
<1>4. CASE Close
  BY <1>0, <1>4, CalloutsAssumption DEF Close, platformVars, CalloutsInv, CalloutsTypeOK,
     Roles, Bystander, Closing, RequestsDone, Registered, Pending, Installing,
     Finished, Swept, Expected, TransactionsEnd
<1>5. CASE Terminated \/ UNCHANGED vars
  BY <1>5 DEF Terminated, vars, CalloutsInv, CalloutsTypeOK, Roles, Bystander, Closing,
     RequestsDone, Registered, Pending, Installing, Finished, Swept, Expected,
     TransactionsEnd
<1> QED BY <1>1, <1>2, <1>3, <1>4, <1>5

(***************************************************************************)
(* The invariant holds throughout.                                         *)
(***************************************************************************)
THEOREM CalloutsInvariance == Spec => []CalloutsInv
<1>1. CalloutsInv /\ [Next]_vars => CalloutsInv'
  BY StartInv, InstallCheckInv, InstallRegisterInv, InstallBeginInv, InstallAddInv,
     InstallCommitInv, InstallMarkInv, StartExitInv, UndoStarterInv, UndoCleanerInv,
     OtherStepsInv DEF Next, Starter
<1> QED BY <1>1, InitCallouts, PTL DEF Spec

(***************************************************************************)
(* No callout is registered, and no filter is left, once the handle's      *)
(* context is gone, wherever in START_FILTER the close falls and whatever  *)
(* calls of the platform fail.                                             *)
(***************************************************************************)
THEOREM NoCalloutLeft == Spec => []NoCalloutOutlivesHandle
<1>1. CalloutsInv => NoCalloutOutlivesHandle
  <2> SUFFICES ASSUME CalloutsInv, state = "CLOSED"
               PROVE  callouts = {} /\ filters = {}
    BY DEF NoCalloutOutlivesHandle
  <2>1. installed = {} /\ filters = {} /\ RequestsDone
    BY DEF CalloutsInv, Closing
  <2>2. Pending = {}
    BY <2>1 DEF CalloutsInv, CalloutsTypeOK, Pending, RequestsDone, RegisteredPoints
  <2> QED BY <2>1, <2>2 DEF CalloutsInv, Registered
<1> QED BY <1>1, CalloutsInvariance, PTL

(***************************************************************************)
(* No thread leaves a transaction open in the handle's session.            *)
(***************************************************************************)
THEOREM NoTransactionLeft == Spec => []TransactionsEnd
<1>1. CalloutsInv => TransactionsEnd
  BY DEF CalloutsInv
<1> QED BY <1>1, CalloutsInvariance, PTL

(***************************************************************************)
(* A START_FILTER that fails on an open handle leaves nothing behind.      *)
(***************************************************************************)
THEOREM StartFailureUndone == Spec => []FailureUndone
<1>1. CalloutsInv => FailureUndone
  BY DEF CalloutsInv, FailureUndone, Answered, Finished, Registered, Pending,
     RegisteredPoints
<1> QED BY <1>1, CalloutsInvariance, PTL

(***************************************************************************)
(* A START_FILTER that succeeds has a callout and a filter at exactly the  *)
(* WFP layers it asked for.                                                *)
(***************************************************************************)
THEOREM StartInstallsAll == Spec => []StartedAsConfigured
<1>1. CalloutsInv => StartedAsConfigured
  <2> SUFFICES ASSUME CalloutsInv, NEW t \in Starters, Answered(t), ok[t]
               PROVE  /\ chosen = Select(layer, Analysis[t])
                      /\ callouts = DOMAIN chosen /\ filters = DOMAIN chosen
    BY DEF StartedAsConfigured
  <2>1. t = starter /\ t # Nil
    BY DEF Answered, CalloutsInv, Roles, Bystander
  <2>2. /\ chosen = Select(layer, Analysis[t]) /\ DOMAIN chosen = 1..Len(chosen)
        /\ installed = 1..Len(chosen) /\ filters = 1..Len(chosen) /\ Pending = {}
    BY <2>1 DEF Answered, CalloutsInv, CalloutsTypeOK, Roles, Finished, Pending,
       RegisteredPoints
  <2> QED BY <2>2 DEF CalloutsInv, Registered
<1> QED BY <1>1, CalloutsInvariance, PTL

-----------------------------------------------------------------------------
(***************************************************************************)
(* The requests of a handle do not disturb how its callouts are installed: *)
(* what holds of Callouts alone holds of the system.                       *)
(***************************************************************************)
THEOREM SystemImplementsCallouts == System => Spec
<1>1. [SystemNext]_allVars => [Next]_vars
  BY DEF SystemNext, allVars, Others, CloseHandle, SetFlags, CallerContext,
         Write, WritePrepare, WriteCheck, WriteInject, WriteExit,
         InjectComplete, Done, Next
<1>. QED BY <1>1, PTL DEF System, SystemInit, Spec

(***************************************************************************)
(* So SENDs in progress do not delay or break the undoing of callouts: no  *)
(* callout outlives the handle, no transaction is left open, a START_FILTER*)
(* that fails leaves nothing and one that succeeds has installed it all.   *)
(***************************************************************************)
THEOREM CalloutsOfSystem ==
  System => [](/\ NoCalloutOutlivesHandle /\ TransactionsEnd
               /\ FailureUndone /\ StartedAsConfigured)
BY SystemImplementsCallouts, NoCalloutLeft, NoTransactionLeft, StartFailureUndone,
   StartInstallsAll, PTL

-----------------------------------------------------------------------------
(***************************************************************************)
(* Types of the variables of Requests.                                     *)
(***************************************************************************)
Points == {"new", "queued", "check", "inject", "exit", "done"}

SendTypeOK ==
  /\ offer \in [Senders -> Offers \cup {Nil}]
  /\ at \in [Senders -> Points]
  /\ mem \in [Senders -> [Memory -> {"none", "live", "freed"}]]
  /\ debug \in BOOLEAN
  /\ waits \in [Senders -> BOOLEAN] /\ good \in [Senders -> BOOLEAN]
  /\ flight \in [Senders -> {"no", "flying", "landed"}]
  /\ completed \in [Senders -> 0..1]

(***************************************************************************)
(* Who owns the memory of a SEND and who is to answer it, at each of its   *)
(* control points.                                                         *)
(***************************************************************************)
All(r, m) == \A x \in Memory : mem[r][x] = m
None(r, m) == \A x \in Memory : mem[r][x] # m

Unsent(r) == ~good[r] /\ flight[r] = "no"
Sent(r) == good[r] /\ flight[r] # "no"

Ownership(r) ==
  /\ at[r] \in {"new", "queued"} =>
       All(r, "none") /\ Unsent(r) /\ completed[r] = 0
  /\ at[r] \in {"check", "inject"} =>
       All(r, "live") /\ Unsent(r) /\ completed[r] = 0
  /\ at[r] \in {"exit", "done"} => Unsent(r) \/ Sent(r)
  /\ Sent(r) => at[r] \in {"exit", "done"}
  /\ at[r] = "exit" /\ Unsent(r) => None(r, "freed") /\ completed[r] = 0
  /\ at[r] = "done" /\ Unsent(r) => None(r, "live") /\ completed[r] = 1
  /\ flight[r] = "flying" =>
       /\ All(r, "live")
       /\ completed[r] = IF at[r] = "done" /\ ~waits[r] THEN 1 ELSE 0
  /\ flight[r] = "landed" =>
       /\ All(r, "freed")
       /\ completed[r] = IF at[r] = "done" \/ waits[r] THEN 1 ELSE 0

Checked(r) ==
  /\ at[r] # "new" => offer[r] \in Offers
  /\ at[r] \in {"check", "inject"} \/ flight[r] # "no" => WellFormed(offer[r])

SendInv ==
  SendTypeOK /\ \A r \in Senders : Ownership(r) /\ Checked(r)

(***************************************************************************)
(* SendInv holds initially.                                                *)
(***************************************************************************)
LEMMA InitSend == SendInit => SendInv
<1>. SUFFICES ASSUME SendInit PROVE SendInv
  OBVIOUS
<1>1. SendTypeOK
  <2>1. [x \in Memory |-> "none"] \in [Memory -> {"none", "live", "freed"}]
    OBVIOUS
  <2>2. mem \in [Senders -> [Memory -> {"none", "live", "freed"}]]
    BY <2>1 DEF SendInit
  <2>3. debug \in BOOLEAN
        /\ waits \in [Senders -> BOOLEAN] /\ good \in [Senders -> BOOLEAN]
    BY DEF SendInit
  <2>4. /\ offer \in [Senders -> Offers \cup {Nil}]
        /\ at \in [Senders -> Points]
        /\ flight \in [Senders -> {"no", "flying", "landed"}]
        /\ completed \in [Senders -> 0..1]
    BY DEF SendInit, Points
  <2>. QED BY <2>2, <2>3, <2>4 DEF SendTypeOK
<1>2. ASSUME NEW r \in Senders PROVE Ownership(r) /\ Checked(r)
  BY DEF SendInit, Ownership, All, Unsent, Sent, Checked
<1>. QED BY <1>1, <1>2 DEF SendInv

(***************************************************************************)
(* What the actions of a SEND have in common.                              *)
(***************************************************************************)
SendStep(r) ==
  /\ SendTypeOK'
  /\ \A q \in Senders \ {r} :
       /\ offer'[q] = offer[q] /\ at'[q] = at[q] /\ mem'[q] = mem[q]
       /\ waits'[q] = waits[q] /\ good'[q] = good[q]
       /\ flight'[q] = flight[q] /\ completed'[q] = completed[q]

(***************************************************************************)
(* A step of one SEND keeps SendInv, if that SEND owns what it should and  *)
(* has checked what it should.                                             *)
(***************************************************************************)
LEMMA OtherSends ==
  ASSUME SendInv, NEW r \in Senders, SendStep(r), Ownership(r)', Checked(r)'
  PROVE  SendInv'
<1>1. ASSUME NEW q \in Senders \ {r} PROVE Ownership(q)' /\ Checked(q)'
  BY DEF SendInv, SendStep, Ownership, All, None, Unsent, Sent, Checked
<1>. QED BY <1>1 DEF SendInv, SendStep

-----------------------------------------------------------------------------
(***************************************************************************)
(* Each action of a SEND keeps the invariant of that SEND.                 *)
(***************************************************************************)
LEMMA CallerContextInv ==
  ASSUME SendInv, NEW r \in Senders, CallerContext(r)
  PROVE  SendInv'
<1>. USE DEF SendInv
<1>1. PICK o \in Offers :
        /\ offer' = [offer EXCEPT ![r] = o]
        /\ \/ Complete(r) /\ At(r, "done")
           \/ At(r, "queued") /\ UNCHANGED completed
  BY DEF CallerContext
<1>2. at[r] = "new" /\ UNCHANGED <<debug, mem, waits, good, flight>>
  BY DEF CallerContext
<1>3. Ownership(r) /\ completed[r] = 0
  BY <1>2 DEF Ownership
<1>4. SendStep(r)
  <2>1. /\ completed' \in [Senders -> 0..1]
        /\ \A q \in Senders \ {r} : completed'[q] = completed[q]
    BY <1>1, <1>3 DEF SendTypeOK, Complete
  <2>2. /\ at' \in [Senders -> Points]
        /\ \A q \in Senders \ {r} : at'[q] = at[q]
    BY <1>1 DEF SendTypeOK, At, Points
  <2>3. /\ offer' \in [Senders -> Offers \cup {Nil}]
        /\ \A q \in Senders \ {r} : offer'[q] = offer[q]
    BY <1>1 DEF SendTypeOK
  <2>. QED BY <1>2, <2>1, <2>2, <2>3 DEF SendStep, SendTypeOK
<1>5. Ownership(r)'
  BY <1>1, <1>2, <1>3 DEF Ownership, All, None, Unsent, Sent, Complete, At,
     SendTypeOK
<1>6. Checked(r)'
  BY <1>1, <1>2, <1>3 DEF Ownership, Unsent, Checked, At, SendTypeOK
<1>. QED BY <1>4, <1>5, <1>6, OtherSends

(***************************************************************************)
(* windivert_write up to its checks keeps SendInv.                         *)
(***************************************************************************)
LEMMA WritePrepareInv ==
  ASSUME SendInv, NEW r \in Senders, WritePrepare(r)
  PROVE  SendInv'
<1>. USE DEF SendInv
<1>1. PICK X \in SUBSET Memory :
        /\ Allocate(r, X)
        /\ \/ X = Memory /\ At(r, "check") /\ WellFormed(offer[r])
           \/ At(r, "exit")
  BY DEF WritePrepare
<1>2. /\ at[r] = "queued"
      /\ UNCHANGED <<offer, debug, waits, good, flight, completed>>
  BY DEF WritePrepare
<1>3. Ownership(r) /\ All(r, "none") /\ Unsent(r) /\ completed[r] = 0
  BY <1>2 DEF Ownership
<1>4. mem'[r] = [x \in Memory |-> IF x \in X THEN "live" ELSE mem[r][x]]
      /\ \A q \in Senders \ {r} : mem'[q] = mem[q]
  BY <1>1 DEF Allocate, SendTypeOK
<1>5. mem' \in [Senders -> [Memory -> {"none", "live", "freed"}]]
  <2>1. mem'[r] \in [Memory -> {"none", "live", "freed"}]
    BY <1>4 DEF SendTypeOK
  <2>. QED BY <1>1, <2>1 DEF Allocate, SendTypeOK
<1>6. SendStep(r)
  BY <1>1, <1>2, <1>4, <1>5 DEF SendStep, SendTypeOK, Points, At
<1>7. at'[r] \in {"check", "exit"} /\ (at'[r] = "check" => X = Memory)
  BY <1>1 DEF At, SendTypeOK
<1>8. None(r, "freed")' /\ (at'[r] = "check" => All(r, "live")')
  BY <1>3, <1>4, <1>7 DEF None, All
<1>9. Unsent(r)' /\ completed'[r] = 0
  BY <1>2, <1>3 DEF Unsent
<1>10. Ownership(r)'
  BY <1>7, <1>8, <1>9 DEF Ownership, Unsent, Sent
<1>11. Checked(r)'
  BY <1>1, <1>2, <1>9 DEF Checked, At, SendTypeOK, Unsent
<1>. QED BY <1>6, <1>10, <1>11, OtherSends

(***************************************************************************)
(* The check of the state and the injection keep SendInv.                  *)
(***************************************************************************)
LEMMA WriteCheckInv ==
  ASSUME SendInv, NEW r \in Senders, WriteCheck(r) \/ WriteInject(r)
  PROVE  SendInv'
<1>. USE DEF SendInv
<1>1. /\ at[r] \in {"check", "inject"} /\ at'[r] \in {"inject", "exit"}
      /\ UNCHANGED <<offer, debug, mem, completed>>
      /\ \/ UNCHANGED <<good, flight>>
         \/ at'[r] = "exit" /\ good'[r] /\ flight'[r] = "flying"
  BY DEF WriteCheck, WriteInject, At, Good, SendTypeOK
<1>2. SendStep(r)
  BY DEF SendStep, SendTypeOK, Points, WriteCheck, WriteInject, At, Good
<1>3. All(r, "live") /\ Unsent(r) /\ completed[r] = 0 /\ WellFormed(offer[r])
  BY <1>1 DEF Ownership, Checked
<1>4. Ownership(r)'
  BY <1>1, <1>3 DEF Ownership, All, None, Unsent, Sent
<1>5. Checked(r)'
  BY <1>1, <1>3 DEF Checked
<1>. QED BY <1>2, <1>4, <1>5, OtherSends

(***************************************************************************)
(* Freeing memory that has not been freed.                                 *)
(***************************************************************************)
LEMMA FreeMemory ==
  ASSUME SendTypeOK, NEW r \in Senders, None(r, "freed"), Free(r, Memory)
  PROVE  /\ mem' \in [Senders -> [Memory -> {"none", "live", "freed"}]]
         /\ \A q \in Senders \ {r} : mem'[q] = mem[q]
         /\ None(r, "live")' /\ (All(r, "live") => All(r, "freed")')
<1>1. mem'[r] = [x \in Memory |-> Sooner(mem[r][x])]
  BY DEF Free, SendTypeOK
<1>2. \A x \in Memory : mem[r][x] \in {"none", "live"}
  BY DEF SendTypeOK, None
<1>3. mem'[r] \in [Memory -> {"none", "live", "freed"}]
  BY <1>1, <1>2 DEF Sooner
<1>4. mem' \in [Senders -> [Memory -> {"none", "live", "freed"}]]
  BY <1>3 DEF Free, SendTypeOK
<1>. QED BY <1>1, <1>2, <1>4 DEF Sooner, None, All, Free, SendTypeOK

(***************************************************************************)
(* The exit of windivert_write keeps SendInv.                              *)
(***************************************************************************)
LEMMA WriteExitInv ==
  ASSUME SendInv, NEW r \in Senders, WriteExit(r)
  PROVE  SendInv'
<1>. USE DEF SendInv
<1>1. /\ at[r] = "exit" /\ at' = [at EXCEPT ![r] = "done"]
      /\ UNCHANGED <<offer, debug, waits, good, flight>>
  BY DEF WriteExit, At
<1>2. CASE Sent(r)
  <2>1. UNCHANGED mem
    BY <1>2 DEF WriteExit, Sent
  <2>2. completed' = IF waits[r] THEN completed
                     ELSE [completed EXCEPT ![r] = @ + 1]
    BY <1>2 DEF WriteExit, Sent, Answer, Complete
  <2>3. ~waits[r] => completed[r] = 0
    BY <1>1, <1>2 DEF Ownership, Sent, SendTypeOK
  <2>4. SendStep(r)
    <3>1. /\ completed' \in [Senders -> 0..1]
          /\ \A q \in Senders \ {r} : completed'[q] = completed[q]
      <4>1. CASE waits[r]
        BY <2>2, <4>1 DEF SendTypeOK
      <4>2. CASE ~waits[r]
        BY <2>2, <2>3, <4>2 DEF SendTypeOK
      <4>. QED BY <4>1, <4>2
    <3>2. /\ at' \in [Senders -> Points]
          /\ \A q \in Senders \ {r} : at'[q] = at[q]
      BY <1>1 DEF SendTypeOK, Points
    <3>. QED BY <1>1, <2>1, <3>1, <3>2 DEF SendStep, SendTypeOK
  <2>5. Ownership(r)'
    BY <1>1, <1>2, <2>1, <2>2, <2>3 DEF Ownership, All, Sent, Unsent, SendTypeOK
  <2>6. Checked(r)'
    BY <1>1 DEF Checked, SendTypeOK
  <2>. QED BY <2>4, <2>5, <2>6, OtherSends
<1>3. CASE Unsent(r)
  <2>1. Free(r, Memory) /\ completed' = [completed EXCEPT ![r] = @ + 1]
    BY <1>3 DEF WriteExit, Unsent, Answer, Complete, Owned
  <2>2. None(r, "freed") /\ completed[r] = 0
    BY <1>1, <1>3 DEF Ownership
  <2>3. /\ mem' \in [Senders -> [Memory -> {"none", "live", "freed"}]]
        /\ \A q \in Senders \ {r} : mem'[q] = mem[q]
        /\ None(r, "live")'
    BY <2>1, <2>2, FreeMemory
  <2>4. SendStep(r)
    <3>1. /\ completed' \in [Senders -> 0..1]
          /\ \A q \in Senders \ {r} : completed'[q] = completed[q]
      BY <2>1, <2>2 DEF SendTypeOK
    <3>2. /\ at' \in [Senders -> Points]
          /\ \A q \in Senders \ {r} : at'[q] = at[q]
      BY <1>1 DEF SendTypeOK, Points
    <3>. QED BY <1>1, <2>3, <3>1, <3>2 DEF SendStep, SendTypeOK
  <2>5. completed'[r] = 1 /\ at'[r] = "done" /\ Unsent(r)'
    BY <1>1, <1>3, <2>1, <2>2 DEF SendTypeOK, Unsent
  <2>6. Ownership(r)'
    BY <2>3, <2>5 DEF Ownership, Sent, Unsent
  <2>7. Checked(r)'
    BY <1>1, <2>5 DEF Checked, Unsent
  <2>. QED BY <2>4, <2>6, <2>7, OtherSends
<1>. QED BY <1>1, <1>2, <1>3 DEF Ownership

(***************************************************************************)
(* windivert_inject_complete keeps SendInv.                                *)
(***************************************************************************)
LEMMA InjectCompleteInv ==
  ASSUME SendInv, NEW r \in Senders, InjectComplete(r)
  PROVE  SendInv'
<1>. USE DEF SendInv
<1>1. /\ flight[r] = "flying" /\ flight' = [flight EXCEPT ![r] = "landed"]
      /\ Free(r, Memory) /\ UNCHANGED <<offer, debug, at, waits, good>>
      /\ completed' = IF waits[r] THEN [completed EXCEPT ![r] = @ + 1]
                      ELSE completed
  BY DEF InjectComplete, Completes, Complete
<1>2. /\ All(r, "live") /\ None(r, "freed") /\ Sent(r)
      /\ at[r] \in {"exit", "done"}
      /\ completed[r] = IF at[r] = "done" /\ ~waits[r] THEN 1 ELSE 0
  BY <1>1 DEF Ownership, All, None, Sent, Unsent, SendTypeOK, Points
<1>3. /\ mem' \in [Senders -> [Memory -> {"none", "live", "freed"}]]
      /\ \A q \in Senders \ {r} : mem'[q] = mem[q]
      /\ All(r, "freed")'
  BY <1>1, <1>2, FreeMemory
<1>4. completed'[r] = IF at[r] = "done" \/ waits[r] THEN 1 ELSE 0
  BY <1>1, <1>2 DEF SendTypeOK
<1>5. SendStep(r)
  <2>1. /\ completed' \in [Senders -> 0..1]
        /\ \A q \in Senders \ {r} : completed'[q] = completed[q]
    <3>1. CASE waits[r]
      BY <1>1, <1>2, <3>1 DEF SendTypeOK
    <3>2. CASE ~waits[r]
      BY <1>1, <3>2 DEF SendTypeOK
    <3>. QED BY <3>1, <3>2
  <2>2. /\ flight' \in [Senders -> {"no", "flying", "landed"}]
        /\ \A q \in Senders \ {r} : flight'[q] = flight[q]
    BY <1>1 DEF SendTypeOK
  <2>. QED BY <1>1, <1>3, <2>1, <2>2 DEF SendStep, SendTypeOK
<1>6. Sent(r)' /\ flight'[r] = "landed" /\ at'[r] = at[r] /\ waits'[r] = waits[r]
  BY <1>1, <1>2 DEF Sent, SendTypeOK
<1>7. Ownership(r)'
  BY <1>2, <1>3, <1>4, <1>6 DEF Ownership, Sent, Unsent
<1>8. Checked(r)'
  BY <1>1 DEF Checked
<1>. QED BY <1>5, <1>7, <1>8, OtherSends

(***************************************************************************)
(* Every step of the system keeps SendInv.                                 *)
(***************************************************************************)
LEMMA NextSend == SendInv /\ [SystemNext]_allVars => SendInv'
<1>. SUFFICES ASSUME SendInv, [SystemNext]_allVars PROVE SendInv'
  OBVIOUS
<1>1. ASSUME UNCHANGED requestVars PROVE SendInv'
  BY <1>1 DEF requestVars, sendVars, SendInv, SendTypeOK, Ownership, Checked,
              All, None, Sent, Unsent
<1>2. CASE SetFlags
  BY <1>2 DEF SetFlags, sendVars, SendInv, SendTypeOK, Ownership, Checked,
              All, None, Sent, Unsent
<1>3. CASE Others \/ CloseHandle \/ Done \/ UNCHANGED allVars
  BY <1>1, <1>3 DEF Others, CloseHandle, Done, allVars
<1>4. ASSUME NEW r \in Senders,
             CallerContext(r) \/ Write(r) \/ InjectComplete(r)
      PROVE  SendInv'
  BY <1>4, CallerContextInv, WritePrepareInv, WriteCheckInv, WriteExitInv,
     InjectCompleteInv DEF Write
<1>. QED BY <1>2, <1>3, <1>4 DEF SystemNext

(***************************************************************************)
(* The invariant of the SENDs holds throughout.                            *)
(***************************************************************************)
THEOREM SendInvariance == System => []SendInv
BY InitSend, NextSend, PTL DEF System, SystemInit

(***************************************************************************)
(* Every SEND is answered exactly once, and truly.                         *)
(***************************************************************************)
THEOREM SendsAnswered == System => []AnsweredOnce
<1>1. SendInv => AnsweredOnce
  BY DEF SendInv, SendTypeOK, Points, Ownership, AnsweredOnce, Over, Sent,
         Unsent
<1>. QED BY <1>1, SendInvariance, PTL

(***************************************************************************)
(* The memory of a SEND is freed exactly once, and not while the platform  *)
(* has it.                                                                 *)
(***************************************************************************)
THEOREM SendsFreed == System => []MemoryFreedOnce
<1>1. SendInv => MemoryFreedOnce
  BY DEF SendInv, SendTypeOK, Points, Ownership, MemoryFreedOnce, Over, Sent,
         Unsent, All, None
<1>. QED BY <1>1, SendInvariance, PTL

(***************************************************************************)
(* What is injected is as long as its header says.                         *)
(***************************************************************************)
THEOREM SendsWellFormed == System => []InjectedWellFormed
<1>1. SendInv => InjectedWellFormed
  <2>. SUFFICES ASSUME SendInv, NEW r \in Senders, flight[r] # "no"
                PROVE  LET o == offer[r]
                       IN o.len = o.length + (IF o.version = 6 THEN IPv6Header
                                              ELSE 0)
    BY DEF InjectedWellFormed
  <2>1. WellFormed(offer[r]) /\ at[r] # "new"
    BY DEF SendInv, Ownership, Checked, Sent, Unsent, SendTypeOK, Points
  <2>2. offer[r].length \in Nat /\ offer[r].len \in Nat
    BY <2>1, RequestsAssumption DEF SendInv, Checked, OfferType
  <2>. QED BY <2>1, <2>2 DEF WellFormed, IPv6Header
<1>. QED BY <1>1, SendInvariance, PTL
=============================================================================
