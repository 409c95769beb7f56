-------------------------- MODULE MCFilterPipeline --------------------------
(***************************************************************************)
(* Filter strings and packets for TLC.                                     *)
(***************************************************************************)
EXTENDS FilterLanguage, TLC

Num(n) == [kind |-> "NUMBER", val |-> Number(n)]
Word(kind) == <<Token(kind)>>
Compare(f, test, n) == <<Token(f), Token(test), Num(n)>>
Paren(s) == Word("OPEN") \o s \o Word("CLOSE")
Question(a, b, c) == Paren(a \o Word("QUESTION") \o b \o Word("COLON") \o c)

(***************************************************************************)
(* Tests: two that the packets decide, a negated one, and one that the     *)
(* range of its field decides.                                             *)
(***************************************************************************)
Leaves ==
  {Word("TCP"), Compare("TCP_DSTPORT", "GEQ", 8080), Word("NOT") \o Word("OUTBOUND"),
   Compare("INBOUND", "LEQ", 1)}

Ops == {Word("AND"), Word("OR")}

(* Expressions of up to three tests in every arrangement, and some of four. *)
Expressions ==
  Leaves
    \cup {a \o o \o b : a \in Leaves, b \in Leaves, o \in Ops}
    \cup {a \o o \o b \o q \o c :
            a \in Leaves, b \in Leaves, c \in Leaves, o \in Ops, q \in Ops}
    \cup {a \o o \o Paren(b \o q \o c) :
            a \in Leaves, b \in Leaves, c \in Leaves, o \in Ops, q \in Ops}
    \cup {Paren(a \o o \o b) \o q \o c :
            a \in Leaves, b \in Leaves, c \in Leaves, o \in Ops, q \in Ops}
    \cup {Question(a, b, c) : a \in Leaves, b \in Leaves, c \in Leaves}
    \cup {Question(a, b, Question(c, a, b)) : a \in Leaves, b \in Leaves, c \in Leaves}
    \cup {Question(a, b, c) \o o \o Word("TCP") :
            a \in Leaves, b \in Leaves, c \in Leaves, o \in Ops}

(***************************************************************************)
(* Comparisons of fields of each kind with numbers at the ends of their    *)
(* ranges and beyond.                                                      *)
(***************************************************************************)
Edges ==
  {<<"INBOUND", 1>>, <<"TRUE", 1>>, <<"FALSE", 0>>, <<"IPV6", 0>>,
   <<"IP_TTL", 254>>, <<"IP_CHECKSUM", 3>>, <<"IP_TOS", 255>>, <<"IP_FRAGOFF", 8191>>,
   <<"ICMPV6_TYPE", 8>>, <<"UDP_CHECKSUM", 7>>, <<"IPV6_FLOWLABEL", 1048575>>,
   <<"TCP_SEQNUM", 0>>, <<"UDP_DSTPORT", 65535>>, <<"IFIDX", 5>>, <<"TCP_DSTPORT", 65535>>}

Comparisons ==
  {Compare(e[1], t, n) : e \in Edges, t \in Tests, n \in {0, 1, 2}}
    \cup {Compare(e[1], t, e[2] + d) : e \in Edges, t \in Tests, d \in {0, 1}}
    \cup {Word("NOT") \o Compare(e[1], t, e[2]) : e \in Edges, t \in Tests}
    \cup {<<Token(f), Token(t), [kind |-> "NUMBER", val |-> n]>> :
            f \in {"IPV6_SRCADDR", "IP_SRCADDR"}, t \in Tests,
            n \in {<<1, 2, 1, 1>>, <<0, 3, 0, 1>>, Number(9)}}

(***************************************************************************)
(* Strings that are nearly filters: filters with a token left out or       *)
(* replaced, all strings of up to four tokens, and some that are too long *)
(* for the tokens, with and without a fault.                               *)
(***************************************************************************)
Kinds == {"OPEN", "CLOSE", "AND", "OR", "NOT", "QUESTION", "COLON", "EQ", "TCP",
          "BAD"}
Tokens == {Token(k) : k \in Kinds} \cup {Num(1)}

Bases ==
  LET a == Word("TCP") b == Compare("INBOUND", "LT", 1) IN
  {Paren(a \o Word("OR") \o b) \o Word("AND") \o a, Question(a, b, a),
   Question(a, b, Paren(a)) \o Word("OR") \o a, Paren(Paren(Word("NOT") \o b))}

NearlyFilters ==
  UNION {{Before(s, i) \o After(s, i) : i \in DOMAIN s} : s \in Bases}
    \cup UNION {{[s EXCEPT ![i] = t] : i \in DOMAIN s, t \in Tokens} : s \in Bases}
    \cup UNION {[1..n -> Tokens] : n \in 0..4}

Long(n) == [i \in 1..2 * n - 1 |-> Token(IF i % 2 = 1 THEN "TCP" ELSE "OR")]
Deep(n) == [i \in 1..2 * n + 1 |->
              Token(IF i <= n THEN "OPEN" ELSE IF i = n + 1 THEN "UDP" ELSE "CLOSE")]

AllStrings ==
  Expressions \cup Comparisons \cup NearlyFilters
    \cup {Long(n) : n \in 1..12} \cup {Deep(n) : n \in 1..12}
    \cup {Append(Long(10), Token("OUTBOUND"))}

(***************************************************************************)
(* Packets with headers and values of each kind.                           *)
(***************************************************************************)
Packet(outbound, isipv4, transport, value) ==
  [sound |-> TRUE, strict |-> TRUE, outbound |-> outbound,
   isipv4 |-> isipv4, transport |-> transport, hop |-> FALSE,
   checksums |-> ChecksumsPresent(FALSE, outbound, isipv4, FALSE, {}), value |-> value]

(* The same packet injected by another driver, or with checksums left to   *)
(* the hardware or looped back.                                            *)
Injected(p) ==
  [p EXCEPT !.hop = TRUE,
            !.checksums = ChecksumsPresent(FALSE, p.outbound, p.isipv4, TRUE, {})]
Offloaded(p) ==
  [p EXCEPT !.checksums = ChecksumsPresent(~p.outbound, p.outbound, p.isipv4, FALSE,
                                           {"TCP_CHECKSUM", "UDP_CHECKSUM"})]

SomePackets ==
  {Packet(TRUE, TRUE, "UDP", ("IP_TTL" :> Number(2)) @@ ("UDP_CHECKSUM" :> Number(7))
                              @@ ("IFIDX" :> Number(5)) @@ ("IP_SRCADDR" :> Number(9))),
   Packet(FALSE, TRUE, "TCP", ("IP_TTL" :> Number(255))
                               @@ ("TCP_DSTPORT" :> Number(8080))
                               @@ ("TCP_SEQNUM" :> Number(1))),
   Packet(TRUE, FALSE, "TCP", ("TCP_DSTPORT" :> Number(443))
                               @@ ("IPV6_SRCADDR" :> <<0, 3, 1, 1>>)),
   Packet(TRUE, FALSE, "ICMPV6", ("ICMPV6_TYPE" :> Number(8))
                                  @@ ("IPV6_SRCADDR" :> <<2, 1, 1, 1>>)),
   Packet(FALSE, TRUE, "NONE", "IP_TTL" :> Number(1))}

AllPackets ==
  SomePackets \cup {Injected(p) : p \in SomePackets}
    \cup {Offloaded(p) : p \in SomePackets}
    \cup {[p EXCEPT !.strict = FALSE, !.sound = p.outbound] : p \in SomePackets}
=============================================================================
