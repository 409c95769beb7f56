---------------------------- MODULE MCPriorities ----------------------------
(***************************************************************************)
(* A small instance of Priorities for TLC.  Packets do not influence each  *)
(* other, so one is enough; two levels and two serial numbers make handles *)
(* with the same level, and with the same priority, meet.                  *)
(***************************************************************************)
EXTENDS Priorities, TLC

CONSTANTS h1, h2

With(m1, s1, m2, s2) ==
  [mode |-> (h1 :> m1) @@ (h2 :> m2), matches |-> (h1 :> s1) @@ (h2 :> s2)]

(***************************************************************************)
(* Both handles divert the packet; one sniffs it; one only meets it in a   *)
(* list with others; one drops what the other sniffs.                      *)
(***************************************************************************)
FourSetups ==
  {With("divert", Packets, "divert", Packets),
   With("sniff", Packets, "divert", Packets),
   With("divert", {}, "divert", Packets),
   With("sniff", {}, "drop", Packets)}
=============================================================================
