--------------------------- MODULE FilterLanguage ---------------------------
(***************************************************************************)
(* The filter language as the documentation defines it, for comparison     *)
(* with what the compiler and the driver make of a string.                 *)
(***************************************************************************)
EXTENDS FilterPipeline, FiniteSetsExt

(***************************************************************************)
(* Values(s, p) holds the value of the string s for the packet p, and      *)
(* nothing if s is not a filter: "or" binds weakest, then "and"; a         *)
(* conditional stands in parentheses.                                      *)
(***************************************************************************)
Nesting(s, i) ==
  Cardinality({j \in 1..i - 1 : s[j].kind = "OPEN"})
    - Cardinality({j \in 1..i - 1 : s[j].kind = "CLOSE"})

Top(s, kind) == {i \in DOMAIN s : s[i].kind = kind /\ Nesting(s, i) = 0}
Before(s, i) == SubSeq(s, 1, i - 1)
After(s, i) == SubSeq(s, i + 1, Len(s))

(***************************************************************************)
(* A test fails if the field is missing, negated or not.                   *)
(***************************************************************************)
PacketValue(p, f) == IF f \in {"TRUE", "FALSE"} THEN Bit(f = "TRUE") ELSE Property(p, f)
HasField(p, f) == f \in {"TRUE", "FALSE"} \/ Present(p, HeaderOf(f))

TestValue(p, f, test, n, not) ==
  HasField(p, f) /\ Holds(test, BigNumCompare(PacketValue(p, f), n)) # not

TestValues(s, p) ==
  LET nots == Cardinality({i \in DOMAIN s : \A j \in 1..i : s[j].kind = "NOT"})
      core == After(s, nots)
      not == nots % 2 = 1
  IN IF core = <<>> \/ core[1].kind \notin Variables THEN {}
     ELSE CASE Len(core) = 1 -> {TestValue(p, core[1].kind, "NEQ", Zero, not)}
            [] Len(core) = 3 /\ core[2].kind \in Tests /\ core[3].kind = "NUMBER" ->
                 {TestValue(p, core[1].kind, core[2].kind, core[3].val, not)}
            [] OTHER -> {}

RECURSIVE Values(_, _)
Values(s, p) ==
  CASE Top(s, "OR") # {} ->
         LET i == Max(Top(s, "OR")) IN
         {a \/ b : a \in Values(Before(s, i), p), b \in Values(After(s, i), p)}
    [] Top(s, "OR") = {} /\ Top(s, "AND") # {} ->
         LET i == Max(Top(s, "AND")) IN
         {a /\ b : a \in Values(Before(s, i), p), b \in Values(After(s, i), p)}
    [] Top(s, "OR") \cup Top(s, "AND") = {} /\ Len(s) > 2
         /\ s[1].kind = "OPEN" /\ s[Len(s)].kind = "CLOSE" ->
         LET t == SubSeq(s, 2, Len(s) - 1)
             parts == {<<i, j>> \in Top(t, "QUESTION") \X Top(t, "COLON") : i < j} IN
         IF Top(t, "QUESTION") = {} THEN Values(t, p)
         ELSE UNION {{IF a THEN b ELSE c : a \in Values(Before(t, q[1]), p),
                        b \in Values(SubSeq(t, q[1] + 1, q[2] - 1), p),
                        c \in Values(After(t, q[2]), p)} : q \in parts}
    [] OTHER -> TestValues(s, p)

ForLayer(s) ==
  layer = "NETWORK_FORWARD" => \A i \in DOMAIN s : s[i].kind \notin {"INBOUND", "OUTBOUND"}

(***************************************************************************)
(* The compiler takes exactly the filters of the language, for the layer   *)
(* they are for, up to the limits on tokens and tests.  A filter that fits *)
(* in the tokens exhausts neither the memory pool nor the recursion.       *)
(***************************************************************************)
TakesTheLanguage ==
  LET code == result.error.code
      proper == Values(str, packet) # {} /\ ForLayer(str)
  IN /\ code = "NONE" => proper
     /\ code \notin {"NONE", "NOT_YET", "TOO_LONG", "HEAP"} => ~proper
     /\ code = "TOO_LONG" =>
          \/ Len(str) + 1 >= TokensMax
          \/ Cardinality({i \in DOMAIN str : str[i].kind \in Variables}) > MaxLen

(***************************************************************************)
(* A diverted packet matches: the driver's verdict on a packet it finds    *)
(* sound is the value that the filter string has for the packet as the     *)
(* application reads it (with the exceptions of EvalAgrees).               *)
(* Not so if WinDivertEvalTest settles a test by the range of a field that *)
(* the packet does not have: then the test does not fail.                  *)
(***************************************************************************)
SettledWithoutField(s, p) ==
  \E i \in DOMAIN s :
    /\ s[i].kind \in Variables /\ ~HasField(p, s[i].kind)
    /\ i + 2 \in DOMAIN s /\ s[i + 1].kind \in Tests
    /\ EvalTest([var |-> s[i].kind, kind |-> s[i + 1].kind, val |-> s[i + 2].val])
         # BOOLEAN

VerdictIsValue ==
  Comparable /\ TestsNone({"IP_DF", "IP_MF", "IP_CHECKSUM"})
    /\ ~SettledWithoutField(str, packet)
    => Values(str, Finalize(packet)) = {verdict = "accept"}
=============================================================================
