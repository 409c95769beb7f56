--------------------------- MODULE FilterProgram ---------------------------
(***************************************************************************)
(* Filter programs and what they mean: the instructions that the DLL       *)
(* emits and the driver compiles, the checks of windivert_filter_compile,  *)
(* the value of a field of a packet, the analysis of a whole program, and  *)
(* the evaluator of the DLL.  FilterVM runs programs in the driver, and    *)
(* FilterCompiler produces them.                                           *)
(*                                                                         *)
(* Programs are indexed from 0 as in the code: instruction i is the        *)
(* element i + 1 of the sequence.  A number is a sequence of four words,   *)
(* least significant first.  A packet is abstracted to what the parsing of *)
(* its headers finds.                                                      *)
(***************************************************************************)
EXTENDS Integers, Sequences

CONSTANT MaxLen   \* WINDIVERT_FILTER_MAXLEN

Accept == MaxLen + 1
Reject == MaxLen + 2
Labels == 0..Reject

Zero == <<0, 0, 0, 0>>
Number(n) == <<n, 0, 0, 0>>
Bit(b) == Number(IF b THEN 1 ELSE 0)
Words == [1..4 -> Nat]

Tests == {"EQ", "NEQ", "LT", "LEQ", "GT", "GEQ"}

(***************************************************************************)
(* The fields, by the header they belong to (protocol selection in         *)
(* windivert_filter_compile).                                              *)
(***************************************************************************)
FieldsOf == [
  NONE   |-> {"ZERO", "INBOUND", "OUTBOUND", "IFIDX", "SUBIFIDX", "IP", "IPV6",
              "ICMP", "ICMPV6", "TCP", "UDP"},
  IP     |-> {"IP_HDRLENGTH", "IP_TOS", "IP_LENGTH", "IP_ID", "IP_DF", "IP_MF",
              "IP_FRAGOFF", "IP_TTL", "IP_PROTOCOL", "IP_CHECKSUM",
              "IP_SRCADDR", "IP_DSTADDR"},
  IPV6   |-> {"IPV6_TRAFFICCLASS", "IPV6_FLOWLABEL", "IPV6_LENGTH",
              "IPV6_NEXTHDR", "IPV6_HOPLIMIT", "IPV6_SRCADDR",
              "IPV6_DSTADDR"},
  ICMP   |-> {"ICMP_TYPE", "ICMP_CODE", "ICMP_CHECKSUM", "ICMP_BODY"},
  ICMPV6 |-> {"ICMPV6_TYPE", "ICMPV6_CODE", "ICMPV6_CHECKSUM", "ICMPV6_BODY"},
  TCP    |-> {"TCP_SRCPORT", "TCP_DSTPORT", "TCP_SEQNUM", "TCP_ACKNUM",
              "TCP_HDRLENGTH", "TCP_URG", "TCP_ACK", "TCP_PSH", "TCP_RST",
              "TCP_SYN", "TCP_FIN", "TCP_WINDOW", "TCP_CHECKSUM",
              "TCP_URGPTR", "TCP_PAYLOADLENGTH"},
  UDP    |-> {"UDP_SRCPORT", "UDP_DSTPORT", "UDP_LENGTH", "UDP_CHECKSUM",
              "UDP_PAYLOADLENGTH"}]

Protocols == {"NONE", "IP", "IPV6", "ICMP", "ICMPV6", "TCP", "UDP"}
Fields == UNION {FieldsOf[q] : q \in Protocols}

HeaderOf(f) == CHOOSE q \in Protocols : f \in FieldsOf[q]
Protocol(f) == HeaderOf(f)

(***************************************************************************)
(* The largest argument of a field ("enforce size limits").                *)
(***************************************************************************)
ArgFits(f, n) ==
  /\ f \in (FieldsOf.NONE \ {"IFIDX", "SUBIFIDX"})
             \cup {"IP_DF", "IP_MF", "TCP_URG", "TCP_ACK", "TCP_PSH",
                   "TCP_RST", "TCP_SYN", "TCP_FIN"} => n <= 1
  /\ f \in {"IP_HDRLENGTH", "TCP_HDRLENGTH"} => n <= 15
  /\ f \in {"IP_TOS", "IP_TTL", "IP_PROTOCOL", "IPV6_TRAFFICCLASS",
            "IPV6_NEXTHDR", "IPV6_HOPLIMIT", "ICMP_TYPE", "ICMP_CODE",
            "ICMPV6_TYPE", "ICMPV6_CODE"} => n <= 255
  /\ f = "IP_FRAGOFF" => n <= 8191
  /\ f \in {"IP_LENGTH", "IP_ID", "IP_CHECKSUM", "IPV6_LENGTH",
            "ICMP_CHECKSUM", "ICMPV6_CHECKSUM"} \cup FieldsOf.UDP
             \cup {"TCP_SRCPORT", "TCP_DSTPORT", "TCP_WINDOW", "TCP_CHECKSUM",
                   "TCP_URGPTR", "TCP_PAYLOADLENGTH"} => n <= 65535
  /\ f = "IPV6_FLOWLABEL" => n <= 1048575

ValidArg(o) ==
  /\ o.field \notin {"IPV6_SRCADDR", "IPV6_DSTADDR"} =>
       o.arg[2] = 0 /\ o.arg[3] = 0 /\ o.arg[4] = 0
  /\ ArgFits(o.field, o.arg[1])

(***************************************************************************)
(* A jump goes forward and stays inside the program, or ends it.           *)
(* (Mutant: one past the end.)                                             *)
(***************************************************************************)
ValidJumpPast(j, i, n) == j \in {Accept, Reject} \/ (i < j /\ j <= n)
ValidJump(j, i, n) == j \in {Accept, Reject} \/ (i < j /\ j < n)

Valid(o, i, n) ==
  /\ o.field \in Fields /\ o.test \in Tests
  /\ ValidJump(o.success, i, n) /\ ValidJump(o.failure, i, n)
  /\ ValidArg(o)

-----------------------------------------------------------------------------
(***************************************************************************)
(* Comparison of two numbers (windivert_big_num_compare) and the tests.    *)
(***************************************************************************)
Sign(m, n) == IF m < n THEN -1 ELSE IF m > n THEN 1 ELSE 0

BigNumCompare(a, b) ==
  IF a[4] # b[4] THEN Sign(a[4], b[4])
  ELSE IF a[3] # b[3] THEN Sign(a[3], b[3])
  ELSE IF a[2] # b[2] THEN Sign(a[2], b[2])
  ELSE Sign(a[1], b[1])

Holds(test, cmp) ==
  \/ test = "EQ"  /\ cmp = 0
  \/ test = "NEQ" /\ cmp # 0
  \/ test = "LT"  /\ cmp < 0
  \/ test = "LEQ" /\ cmp <= 0
  \/ test = "GT"  /\ cmp > 0
  \/ test = "GEQ" /\ cmp >= 0

(***************************************************************************)
(* What the parsing of the headers finds: is the header there?             *)
(***************************************************************************)
Present(p, q) ==
  \/ q = "NONE"
  \/ q = "IP" /\ p.isipv4
  \/ q = "IPV6" /\ ~p.isipv4
  \/ q \notin {"NONE", "IP", "IPV6"} /\ q = p.transport

Property(p, f) ==
  CASE f = "ZERO"     -> Zero
    [] f = "INBOUND"  -> Bit(~p.outbound)
    [] f = "OUTBOUND" -> Bit(p.outbound)
    [] f \in Protocols \ {"NONE"} -> Bit(Present(p, f))
    [] OTHER -> IF f \in DOMAIN p.value THEN p.value[f] ELSE Zero

(***************************************************************************)
(* The value windivert_filter tests: a packet injected by another driver   *)
(* counts as one hop further, a checksum that is not present as zero, and  *)
(* DF and MF are the bits of the header as they stand in its word.         *)
(***************************************************************************)
FieldValue(p, f) ==
  CASE f \in {"IP_TTL", "IPV6_HOPLIMIT"} /\ p.hop /\ Property(p, f) # Zero ->
         Number(Property(p, f)[1] - 1)
    [] f \in {"IP_CHECKSUM", "TCP_CHECKSUM", "UDP_CHECKSUM"}
         /\ f \notin p.checksums -> Zero
    [] f = "IP_DF" -> Number(64 * Property(p, f)[1])
    [] f = "IP_MF" -> Number(32 * Property(p, f)[1])
    [] OTHER -> Property(p, f)

(***************************************************************************)
(* One test of windivert_filter.  A test on a missing header fails.        *)
(***************************************************************************)
Passes(p, o) ==
  /\ Present(p, o.protocol)
  /\ Holds(o.test, BigNumCompare(FieldValue(p, o.field), o.arg))

Target(p, o) == IF Passes(p, o) THEN o.success ELSE o.failure

-----------------------------------------------------------------------------
(***************************************************************************)
(* windivert_filter_test: can the program, from its instruction j on,      *)
(* accept a packet that has this value in this field?  A test on another   *)
(* field may go either way.  The routine follows the labels of a compiled  *)
(* program.  (Mutant: a test on another field is taken to succeed.)        *)
(***************************************************************************)
Known(o, f) == o.protocol = "NONE" /\ o.field = f

BranchesFirst(o, yes, no) == yes
Branches(o, yes, no) == yes \/ no

TestStep(prog, f, n, T, j) ==
  LET o == prog[j + 1] IN
  IF Known(o, f)
    THEN IF Holds(o.test, Sign(n, o.arg[1])) THEN T[o.success] ELSE T[o.failure]
    ELSE Branches(o, T[o.success], T[o.failure])

LabelsOf(prog) == (0..Len(prog) - 1) \cup {Accept, Reject}

FilterTest(prog, f, n) ==
  LET T[j \in LabelsOf(prog)] ==
        \/ j = Accept
        \/ j <= MaxLen /\ TestStep(prog, f, n, T, j)
  IN T[0]

(***************************************************************************)
(* windivert_filter_analyze: the traffic that needs a callout.             *)
(***************************************************************************)
Analyze(prog) ==
  LET test(f, n) == FilterTest(prog, f, n)
      some == test("ZERO", 0) IN
  [inbound  |-> some /\ test("INBOUND", 1)  /\ test("OUTBOUND", 0),
   outbound |-> some /\ test("OUTBOUND", 1) /\ test("INBOUND", 0),
   ipv4     |-> some /\ test("IP", 1)       /\ test("IPV6", 0),
   ipv6     |-> some /\ test("IPV6", 1)     /\ test("IP", 0)]

(***************************************************************************)
(* The checksums that windivert_classify_callout takes for present: all of *)
(* those of an inbound packet, none of a loopback one; outbound, those     *)
(* whose computation is not left to the hardware; never the IPv4 one of a  *)
(* packet that another driver injected, since its TTL will change.         *)
(***************************************************************************)
ChecksumFields == {"IP_CHECKSUM", "TCP_CHECKSUM", "UDP_CHECKSUM"}

ChecksumsPresent(loopback, outbound, isipv4, hop, offload) ==
  (IF loopback THEN {}
   ELSE IF outbound
     THEN ChecksumFields \ (offload \cup (IF isipv4 THEN {"IP_CHECKSUM"} ELSE {}))
   ELSE ChecksumFields)
    \ (IF hop /\ isipv4 THEN {"IP_CHECKSUM"} ELSE {})

(***************************************************************************)
(* windivert_finalize_packet: the packet as the application reads it.  An  *)
(* injected packet has one hop less, transport checksums that are not      *)
(* present are zeroed, and so is the IPv4 one if it is present.  (Mutant:  *)
(* a present transport checksum is zeroed too.)                            *)
(***************************************************************************)
ClearedTransportAll(p) == {"TCP_CHECKSUM", "UDP_CHECKSUM"}
ClearedTransport(p) == {"TCP_CHECKSUM", "UDP_CHECKSUM"} \ p.checksums
ClearedIP(p) == IF p.isipv4 THEN p.checksums \cap {"IP_CHECKSUM"} ELSE {}

Finalize(p) ==
  LET untouched == p.checksums = ChecksumFields /\ ~p.hop
      after(f) ==
        IF f \in {"IP_TTL", "IPV6_HOPLIMIT"} /\ p.hop /\ p.value[f] # Zero
          THEN Number(p.value[f][1] - 1)
        ELSE IF f \in ClearedTransport(p) \cup ClearedIP(p) THEN Zero
        ELSE p.value[f]
  IN IF untouched THEN p
     ELSE [p EXCEPT !.hop = FALSE, !.value = [f \in DOMAIN @ |-> after(f)]]

(***************************************************************************)
(* WinDivertHelperEvalFilter, on a packet that the application has.  Its   *)
(* parser finds no header in a packet that is not sound, and no transport  *)
(* header that fails the further checks of WinDivertHelperParsePacket.     *)
(***************************************************************************)
EvalPresent(p, q) ==
  /\ Present(p, q)
  /\ q # "NONE" => p.sound
  /\ q \notin {"NONE", "IP", "IPV6"} => p.strict

EvalValue(p, f) ==
  IF f \in Protocols \ {"NONE"} THEN Bit(EvalPresent(p, f)) ELSE Property(p, f)

EvalPasses(p, o) ==
  /\ EvalPresent(p, HeaderOf(o.field))
  /\ Holds(o.test, BigNumCompare(EvalValue(p, o.field), o.arg))

EvalFilter(prog, p) ==
  LET E[j \in Labels] ==
        \/ j = Accept
        \/ /\ j < Len(prog)
           /\ IF EvalPasses(p, prog[j + 1]) THEN E[prog[j + 1].success]
                                            ELSE E[prog[j + 1].failure]
  IN E[0]
=============================================================================
