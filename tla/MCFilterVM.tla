----------------------------- MODULE MCFilterVM -----------------------------
(***************************************************************************)
(* Small instances of FilterVM for TLC.                                    *)
(***************************************************************************)
EXTENDS FilterVM, TLC

Offer(f, t, n) == [field |-> f, test |-> t, arg |-> Number(n)]

Packet(outbound, isipv4, transport, value) ==
  [sound |-> TRUE, strict |-> TRUE, outbound |-> outbound,
   isipv4 |-> isipv4, transport |-> transport, hop |-> FALSE,
   checksums |-> ChecksumFields, value |-> value]

(***************************************************************************)
(* Programs about directions and IP versions, which the analysis looks at, *)
(* and one field that it does not, with instructions that are not valid    *)
(* among them; packets with every pair of answers to the tests.            *)
(***************************************************************************)
LayerOffers ==
  {Offer("INBOUND", "EQ", 1), Offer("OUTBOUND", "NEQ", 0),
   Offer("IP", "LT", 1), Offer("TCP", "GEQ", 1),
   Offer("INBOUND", "EQ", 2), Offer("BOGUS", "EQ", 0)}

(***************************************************************************)
(* An instruction that no check would let pass.                            *)
(***************************************************************************)
LayerRewrites ==
  {[field |-> "OUTBOUND", test |-> "EQ", arg |-> Number(1),
    success |-> 0, failure |-> MaxLen]}

LayerPackets ==
  {Packet(out, v4, IF out = v4 THEN "TCP" ELSE "UDP", <<>>) :
     out \in BOOLEAN, v4 \in BOOLEAN}

(***************************************************************************)
(* The flags of the IPv4 header.                                           *)
(***************************************************************************)
FlagOffers == {Offer("IP_DF", "NEQ", 0), Offer("IP_DF", "EQ", 1)}
FlagPackets == {Packet(TRUE, TRUE, "NONE", "IP_DF" :> Number(n)) : n \in {0, 1}}

(***************************************************************************)
(* Packets with a checksum in the IPv4 header, from the network and        *)
(* injected by another driver.                                             *)
(***************************************************************************)
ChecksumOffers == {Offer("IP", "EQ", 1)}
ChecksumPackets ==
  {[Packet(FALSE, TRUE, "TCP", ("IP_TTL" :> Number(8)) @@ ("IP_CHECKSUM" :> Number(5)))
      EXCEPT !.hop = hop,
             !.checksums = ChecksumsPresent(FALSE, FALSE, TRUE, hop, {})] :
     hop \in BOOLEAN}
=============================================================================
