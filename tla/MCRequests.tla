---------------------------- MODULE MCRequests ------------------------------
(***************************************************************************)
(* Small instances of Requests, and of Callouts alone, for TLC.            *)
(***************************************************************************)
EXTENDS Requests, TLC

CONSTANTS s1, s2, w1

(***************************************************************************)
(* Two START_FILTERs: one for inbound traffic, one for inbound IPv6; or    *)
(* one for nothing at all.                                                 *)
(***************************************************************************)
Inbound == [inbound |-> TRUE, outbound |-> FALSE, ipv4 |-> TRUE, ipv6 |-> TRUE]
OnlyIPv6 == [inbound |-> TRUE, outbound |-> FALSE, ipv4 |-> FALSE, ipv6 |-> TRUE]
Nothing == [inbound |-> FALSE, outbound |-> FALSE, ipv4 |-> FALSE, ipv6 |-> FALSE]

TwoFilters == (s1 :> Inbound) @@ (s2 :> OnlyIPv6)
OneEmpty == (s1 :> Inbound) @@ (s2 :> Nothing)

(***************************************************************************)
(* A packet of the smallest size of either version, one whose IPv6 header  *)
(* counts itself, and a bad address.                                       *)
(***************************************************************************)
Packet(d, n, v, l) ==
  [header |-> TRUE, addr |-> TRUE, direction |-> d, len |-> n, version |-> v,
   length |-> l]

SomeOffers ==
  {Packet("out", 20, 4, 20), Packet("in", 40, 6, 0), Packet("in", 60, 6, 60),
   [Packet("out", 20, 4, 20) EXCEPT !.addr = FALSE]}
=============================================================================
