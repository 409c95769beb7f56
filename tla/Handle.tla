------------------------------- MODULE Handle -------------------------------
(***************************************************************************)
(* What a WinDivert handle promises to the application and to the network, *)
(* without the queues and threads that keep the promise.  Lists of packets *)
(* are taken off the network stack while the handle is open.  A packet     *)
(* that was taken is given to one read, put back on the network, or lost;  *)
(* a sniffing handle puts it back and may give a copy of it to a read.  A  *)
(* read is answered once, with a packet or with an error.  A handle is     *)
(* closed when it has nothing left: no packet and no read.                 *)
(***************************************************************************)
CONSTANTS
  Packets,   \* packets the network stack indicates
  Lists,     \* the sets of packets that are indicated together
  Reads      \* reads the application may issue

VARIABLES
  life,      \* "OPEN", "CLOSING", "CLOSED" or "FREED"
  sniff,     \* does the handle only copy packets?
  stack,     \* packets that were not taken
  held,      \* packets, or copies, the handle has
  given,     \* packets that answered a read
  back,      \* packets that were put back on the network
  waiting,   \* reads that were issued and not answered
  answered   \* reads that were answered

packetVars == <<stack, held, given, back>>
readVars   == <<waiting, answered>>
handleVars == <<life, sniff, packetVars, readVars>>

Init ==
  /\ life = "OPEN" /\ sniff \in BOOLEAN
  /\ stack = Packets /\ held = {} /\ given = {} /\ back = {}
  /\ waiting = {} /\ answered = {}

-----------------------------------------------------------------------------
(***************************************************************************)
(* An open handle takes a list.  If it has too much already, it loses one  *)
(* that it took earlier.                                                   *)
(***************************************************************************)
Take(L) ==
  /\ life = "OPEN" /\ L \subseteq stack
  /\ stack' = stack \ L
  /\ \E D \in Lists \cup {{}} :
       D \subseteq held /\ held' = (held \ D) \cup L
  /\ UNCHANGED <<life, sniff, given, back, readVars>>

(***************************************************************************)
(* A list is lost at once, for want of memory; a callout that began while  *)
(* the handle was open may be that late.                                   *)
(***************************************************************************)
Miss(L) ==
  /\ life # "FREED" /\ L \subseteq stack
  /\ stack' = stack \ L
  /\ UNCHANGED <<life, sniff, held, given, back, readVars>>

(***************************************************************************)
(* Packets go back, which they can only once; a sniffing handle may keep   *)
(* the copies.                                                             *)
(***************************************************************************)
Return(S) ==
  /\ S \subseteq held \ back
  /\ back' = back \cup S
  /\ held' = held \ S \/ (sniff /\ held' = held)
  /\ UNCHANGED <<life, sniff, stack, given, readVars>>

Lose(S) ==
  /\ S \subseteq held /\ held' = held \ S
  /\ UNCHANGED <<life, sniff, stack, given, back, readVars>>

-----------------------------------------------------------------------------
Answer(R) ==
  /\ R \subseteq waiting
  /\ waiting' = waiting \ R /\ answered' = answered \cup R

(***************************************************************************)
(* A read is issued: it waits for a packet, or fails at once, as it does   *)
(* when the handle is being closed.                                        *)
(***************************************************************************)
Ask(r) ==
  /\ r \notin waiting \cup answered
  /\ \/ /\ life = "OPEN"
        /\ waiting' = waiting \cup {r} /\ UNCHANGED answered
     \/ /\ life \in {"OPEN", "CLOSING"}
        /\ answered' = answered \cup {r} /\ UNCHANGED waiting
  /\ UNCHANGED <<life, sniff, packetVars>>

(***************************************************************************)
(* A packet answers a read, or is lost with the read's failure.            *)
(***************************************************************************)
Give(p, r) ==
  /\ p \in held \ given /\ held' = held \ {p}
  /\ given' = given \cup {p} \/ UNCHANGED given
  /\ Answer({r})
  /\ UNCHANGED <<life, sniff, stack, back>>

(***************************************************************************)
(* Reads are cancelled, one by one or all of them by the close.            *)
(***************************************************************************)
Fail(R) == Answer(R) /\ UNCHANGED <<life, sniff, packetVars>>

-----------------------------------------------------------------------------
BeginClose == life = "OPEN" /\ life' = "CLOSING"
EndClose == life = "CLOSING" /\ held = {} /\ waiting = {} /\ life' = "CLOSED"
Free == life = "CLOSED" /\ life' = "FREED"

Close ==
  /\ BeginClose \/ EndClose \/ Free
  /\ UNCHANGED <<sniff, packetVars, readVars>>

Next ==
  \/ \E L \in Lists : Take(L) \/ Miss(L)
  \/ \E S \in SUBSET Packets : Return(S) \/ Lose(S)
  \/ \E r \in Reads : Ask(r) \/ \E p \in Packets : Give(p, r)
  \/ \E R \in SUBSET Reads : Fail(R)
  \/ Close

Spec == Init /\ [][Next]_handleVars

-----------------------------------------------------------------------------
(***************************************************************************)
(* No packet that was given to the application is also on the network,     *)
(* unless it was sniffed, and what was given or put back was taken before. *)
(***************************************************************************)
Exclusive ==
  /\ stack \cap (held \cup given \cup back) = {}
  /\ held \cap given = {}
  /\ ~sniff => back \cap (held \cup given) = {}

(***************************************************************************)
(* A closed handle has no packet and no read.                              *)
(***************************************************************************)
Emptied == life \in {"CLOSED", "FREED"} => held = {} /\ waiting = {}
=============================================================================
