------------------------------- MODULE Route -------------------------------
(***************************************************************************)
(* What the driver guarantees about a packet that several handles can      *)
(* divert: it is handed to handles of higher priority before handles of    *)
(* lower priority, and to no handle twice.  A packet that another driver   *)
(* copies is new again.                                                    *)
(*                                                                         *)
(* The documentation promises more (doc/windivert.html 508): "A packet is  *)
(* only diverted once per priority level".  The driver keeps that as long  *)
(* as the handles do not share their levels, which the documentation       *)
(* advises against; handles that share one may all get the packet.         *)
(***************************************************************************)
EXTENDS Integers

CONSTANTS Packets, Handles, Levels

VARIABLES
  where,   \* "out", "stack", "held" by a handle, or "done"
  holder,  \* the handles that have held the packet so far
  level    \* the priority level of the last of them, or -1

routeVars == <<where, holder, level>>

Init ==
  /\ where = [p \in Packets |-> "out"]
  /\ holder = [p \in Packets |-> {}]
  /\ level = [p \in Packets |-> -1]

Move(p, w) == where' = [where EXCEPT ![p] = w]

Arrive(p) ==
  /\ where[p] = "out" /\ Move(p, "stack")
  /\ UNCHANGED <<holder, level>>

Copied(p) ==
  /\ where[p] = "stack" /\ UNCHANGED where
  /\ holder' = [holder EXCEPT ![p] = {}]
  /\ level' = [level EXCEPT ![p] = -1]

(***************************************************************************)
(* The levels at which a packet is diverted next: a lower priority, as the *)
(* documentation has it, or once more the same one, which is then that of  *)
(* two handles.                                                            *)
(***************************************************************************)
LowerPriority(p, l) == l > level[p]
SharedPriority(p, l) == l = level[p]

Divert(p) ==
  /\ where[p] = "stack" /\ Move(p, "held")
  /\ \E h \in Handles \ holder[p] :
       holder' = [holder EXCEPT ![p] = @ \cup {h}]
  /\ \E l \in Levels :
       /\ LowerPriority(p, l) \/ SharedPriority(p, l)
       /\ level' = [level EXCEPT ![p] = l]

Return(p) ==
  /\ where[p] = "held" /\ Move(p, "stack")
  /\ UNCHANGED <<holder, level>>

Finish(p) ==
  /\ where[p] \in {"stack", "held"} /\ Move(p, "done")
  /\ UNCHANGED <<holder, level>>

Next ==
  \E p \in Packets :
    Arrive(p) \/ Copied(p) \/ Divert(p) \/ Return(p) \/ Finish(p)

Spec == Init /\ [][Next]_routeVars
=============================================================================
