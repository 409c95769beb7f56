-------------------------- MODULE MCDivertContext --------------------------
(***************************************************************************)
(* Small instances of DivertContext for TLC.                               *)
(***************************************************************************)
EXTENDS DivertHandle, TLC

(***************************************************************************)
(* Two lists of one matching buffer each; the second list is inbound.      *)
(***************************************************************************)
SingleNBLs == {1, 2}
SingleBufs == {11, 21}
SingleBuffers == (1 :> <<11>>) @@ (2 :> <<21>>)
SingleInbound == {2}
UnitLen == [b \in SingleBufs |-> 1]

(***************************************************************************)
(* A list of three buffers of which the filter accepts the first and the   *)
(* last, and an inbound list of one accepted buffer.  Packet 13 is larger  *)
(* than the smallest queue.                                                *)
(***************************************************************************)
BatchBufs == {11, 12, 13, 21}
BatchBuffers == (1 :> <<11, 12, 13>>) @@ (2 :> <<21>>)
BatchMatch == {11, 13, 21}
BatchLen == [b \in BatchBufs |-> IF b = 13 THEN 2 ELSE 1]

(***************************************************************************)
(* Three lists of one buffer, so that the work queue can overflow.  The    *)
(* packets do not all have the same length.                                *)
(***************************************************************************)
TripleNBLs == {1, 2, 3}
TripleBufs == {11, 21, 31}
TripleBuffers == (1 :> <<11>>) @@ (2 :> <<21>>) @@ (3 :> <<31>>)
TripleMatch == {11, 21}
TripleLen == [b \in TripleBufs |-> IF b = 21 THEN 2 ELSE 1]

Symmetry == Permutations(Reqs) \cup Permutations(Workers)
=============================================================================
