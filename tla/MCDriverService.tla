-------------------------- MODULE MCDriverService --------------------------
(***************************************************************************)
(* Instances of DriverService for TLC.                                     *)
(***************************************************************************)
EXTENDS DriverService, TLC

CONSTANTS p1, p2

(***************************************************************************)
(* One opener asks for the defaults, one for nothing of them.              *)
(***************************************************************************)
MCOpeners == {p1, p2}
MCAsked ==
  (p1 :> [layer |-> "default", flags |-> "default", priority |-> "default"]) @@
  (p2 :> [layer |-> "other", flags |-> "other", priority |-> "other"])

(***************************************************************************)
(* The filter of the first has no callout; that of the second is about     *)
(* forwarded IPv6 packets.  Every call may fail; the sub-layers are all    *)
(* removed, or the one that DriverEntry adds last stays.                   *)
(***************************************************************************)
MCUses == (p1 :> {}) @@ (p2 :> {"forward6"})
MCStay == {{}, {"forward6"}}
=============================================================================
