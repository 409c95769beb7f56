--------------------------- MODULE FilterCompiler ---------------------------
(***************************************************************************)
(* The filter compiler of the DLL (WinDivertCompileFilter): a filter       *)
(* string is cut into tokens, parsed into an expression, flattened into    *)
(* tests that jump to one another, and emitted as a program.               *)
(*                                                                         *)
(* A string is a sequence of lexemes, each with the kind WinDivertToken-   *)
(* Lookup finds for it, or the four words a number or an address has, or   *)
(* "BAD".  Positions count lexemes, not characters.  A field is named as   *)
(* in FilterProgram; "TRUE" and "FALSE" are fields that only the compiler  *)
(* has.                                                                    *)
(***************************************************************************)
EXTENDS FilterProgram

CONSTANTS
  TokensMax,   \* tokens of a filter, the one that ends it included
  PoolMax,     \* EXPRs that fit in the compiler's memory pool
  MaxDepth,    \* of the parser's recursion
  WordMax      \* the largest word

(***************************************************************************)
(* As in the code: 383 tokens, 382 EXPRs, and a depth of 1024, which the   *)
(* three calls that a parenthesis takes must not exhaust.                  *)
(***************************************************************************)
ASSUME CompilerAssumption ==
  /\ TokensMax \in Nat /\ PoolMax \in Nat /\ MaxDepth \in Nat /\ WordMax \in Nat
  /\ PoolMax = TokensMax - 1
  /\ 2 * MaxDepth >= 5 * TokensMax
  /\ WordMax >= 1048575

Variables == (Fields \ {"ZERO"}) \cup {"TRUE", "FALSE"}
Token(kind) == [kind |-> kind, val |-> Zero]
End == Token("END")

Lexemes ==
  [kind : Variables \cup Tests \cup {"NOT", "AND", "OR", "OPEN", "CLOSE", "QUESTION",
                                    "COLON", "NUMBER", "BAD"},
   val : Words]

(***************************************************************************)
(* WinDivertTokenizeFilter: the tokens, or the first error.                *)
(***************************************************************************)
Codes == {"NONE", "TOO_LONG", "BAD_TOKEN", "BAD_TOKEN_FOR_LAYER", "UNEXPECTED_TOKEN",
          "TOO_DEEP", "NO_MEMORY"}
Error(code, pos) == [code |-> code, pos |-> pos]
NoError == Error("NONE", 0)

TokenError(tok, i, layer) ==
  IF i >= TokensMax THEN "TOO_LONG"
  ELSE IF tok.kind = "BAD" THEN "BAD_TOKEN"
  ELSE IF layer = "NETWORK_FORWARD" /\ tok.kind \in {"INBOUND", "OUTBOUND"}
    THEN "BAD_TOKEN_FOR_LAYER"
  ELSE "NONE"

Tokenize(str, layer) ==
  LET toks == Append(str, End)
      wrong == {i \in DOMAIN toks : TokenError(toks[i], i, layer) # "NONE"}
      first == CHOOSE i \in wrong : \A j \in wrong : i <= j
  IN [toks  |-> toks,
      error |-> IF wrong = {} THEN NoError
                ELSE Error(TokenError(toks[first], first, layer), first)]

-----------------------------------------------------------------------------
(***************************************************************************)
(* The parser.  Its state is the position in the tokens, the expression    *)
(* that the last call returned, the error and the EXPRs in the pool.  An   *)
(* expression is its place in the pool, and its arguments are the places   *)
(* of others; a test has its field and its number.                         *)
(***************************************************************************)
Null == 0

Exprs ==
  [kind : {"NUMBER"}, val : Words]
    \cup [kind : Tests, var : Variables, val : Words]
    \cup [kind : {"AND", "OR"}, arg : Nat \X Nat]
    \cup [kind : {"QUESTION"}, arg : Nat \X Nat \X Nat]

States ==
  [i : Nat, expr : Nat, error : [code : Codes, pos : Nat], pool : Seq(Exprs)]

Fail(st, code) == [st EXCEPT !.expr = Null, !.error = Error(code, st.i)]
Skip(st) == [st EXCEPT !.i = @ + 1]

Alloc(st, expr) ==
  IF Len(st.pool) >= PoolMax
    THEN [st EXCEPT !.expr = Null, !.error = Error("NO_MEMORY", 0)]
    ELSE [st EXCEPT !.expr = Len(st.pool) + 1, !.pool = Append(@, expr)]

MakeNumber(st, val) == Alloc(st, [kind |-> "NUMBER", val |-> val])

MakeTest(st, kind, var, val) == Alloc(st, [kind |-> kind, var |-> var, val |-> val])

MakeBinOp(st, kind, arg0, arg1) ==
  IF Null \in {arg0, arg1} THEN [st EXCEPT !.expr = Null]
  ELSE Alloc(st, [kind |-> kind, arg |-> <<arg0, arg1>>])

MakeIfThenElse(st, cond, th, el) ==
  Alloc(st, [kind |-> "QUESTION", arg |-> <<cond, th, el>>])

(***************************************************************************)
(* WinDivertParseTest: nots, a field, and possibly a comparison with a     *)
(* number.  A not turns the test round.  A constant zero is not taken from *)
(* the pool, a number is.  (Mutant: zero is taken from it too.)            *)
(***************************************************************************)
Negation ==
  [EQ |-> "NEQ", NEQ |-> "EQ", LT |-> "GEQ", LEQ |-> "GT", GT |-> "LEQ",
   GEQ |-> "LT"]

MakeZeroAlloc(st) == MakeNumber(st, Zero)
MakeZero(st) == st

IsFirst(toks, i, j) ==
  /\ j \in i..Len(toks) /\ toks[j].kind # "NOT"
  /\ \A m \in i..j - 1 : toks[m].kind = "NOT"

ParseTest(toks, st) ==
  LET j == CHOOSE n \in st.i..Len(toks) : IsFirst(toks, st.i, n)
      not == (j - st.i) % 2 = 1
      var == toks[j].kind
      kind == toks[j + 1].kind
      at(n) == [st EXCEPT !.i = n]
      num == MakeNumber(at(j + 3), toks[j + 2].val)
  IN CASE var \notin Variables -> Fail(at(j), "UNEXPECTED_TOKEN")
       [] var \in Variables /\ kind \notin Tests ->
            MakeTest(MakeZero(at(j + 1)), IF not THEN "EQ" ELSE "NEQ", var, Zero)
       [] var \in Variables /\ kind \in Tests /\ toks[j + 2].kind # "NUMBER" ->
            Fail(at(j + 2), "UNEXPECTED_TOKEN")
       [] OTHER ->
            IF num.expr = Null THEN num
            ELSE MakeTest(num, IF not THEN Negation[kind] ELSE kind, var,
                          toks[j + 2].val)

(***************************************************************************)
(* The functions below get as "parse" what the calls do that they make: a  *)
(* call of WinDivertParseArg is parse["arg"][st], one of                   *)
(* WinDivertParseFilter is parse["and"][st] or, without "and",             *)
(* parse["filter"][st].                                                    *)
(*                                                                         *)
(* WinDivertParseArg: a test, a filter in parentheses, or a conditional.   *)
(* The condition of a conditional is not looked at when it failed to       *)
(* parse; its branches are.                                                *)
(***************************************************************************)
ParseElse(toks, parse, cond, th) ==
  LET el == parse["filter"][Skip(th)] IN
  IF el.expr = Null THEN el
  ELSE IF toks[el.i].kind # "CLOSE" THEN Fail(el, "UNEXPECTED_TOKEN")
  ELSE MakeIfThenElse(Skip(el), cond.expr, th.expr, el.expr)

ParseThen(toks, parse, cond) ==
  LET th == parse["filter"][Skip(cond)] IN
  IF th.expr = Null THEN th
  ELSE IF toks[th.i].kind # "COLON" THEN Fail(th, "UNEXPECTED_TOKEN")
  ELSE ParseElse(toks, parse, cond, th)

ParseArg(toks, parse, st) ==
  IF toks[st.i].kind # "OPEN" THEN ParseTest(toks, st)
  ELSE LET cond == parse["filter"][Skip(st)] IN
  CASE toks[cond.i].kind = "CLOSE" -> Skip(cond)
    [] toks[cond.i].kind = "QUESTION" -> ParseThen(toks, parse, cond)
    [] OTHER -> Fail(cond, "UNEXPECTED_TOKEN")

(***************************************************************************)
(* WinDivertParseFilter: an argument, or what "and" joins, and rounds of   *)
(* its loop over "and" and "or".  Each round takes a token, so there are   *)
(* not more of them than tokens.  (Mutant: what follows an "or" is one     *)
(* argument, so that a later "and" takes the whole expression so far.)     *)
(***************************************************************************)
OrArgSingle(parse, st) == parse["arg"][st]
OrArg(parse, st) == parse["and"][st]

Joins(toks, st) == st.expr # Null /\ toks[st.i].kind \in {"AND", "OR"}

ParseRound(toks, parse, st) ==
  LET kind == toks[st.i].kind
      arg == IF kind = "AND" THEN parse["arg"][Skip(st)] ELSE OrArg(parse, Skip(st))
  IN MakeBinOp(arg, kind, st.expr, arg.expr)

ParseRest(toks, parse, st) ==
  LET rest[n \in 0..Len(toks)] ==
        [s \in States |->
           IF n > 0 /\ Joins(toks, s) THEN rest[n - 1][ParseRound(toks, parse, s)]
                                      ELSE s]
  IN rest[Len(toks)][st]

ParseCall(toks, parse, call, st) ==
  CASE call = "arg" -> ParseArg(toks, parse, st)
    [] call = "and" -> ParseRest(toks, parse, parse["arg"][st])
    [] call = "filter" -> ParseRest(toks, parse, parse["and"][st])

(***************************************************************************)
(* The calls that may be made at a depth; below 0 they are refused.        *)
(***************************************************************************)
Calls == {"arg", "and", "filter"}

ParseAt(toks) ==
  LET parse[depth \in -1..MaxDepth] ==
        [call \in Calls |-> [st \in States |->
           IF depth < 0 THEN Fail(st, "TOO_DEEP")
           ELSE ParseCall(toks, parse[depth - 1], call, st)]]
  IN parse

ParseString(toks) ==
  ParseAt(toks)[MaxDepth]["filter"][
    [i |-> 1, expr |-> Null, error |-> NoError, pool |-> <<>>]]

-----------------------------------------------------------------------------
(***************************************************************************)
(* WinDivertEvalTest: the results that a test can have, given the range of *)
(* its field.  IPv6 addresses are not looked at.  (Mutant: every field is  *)
(* taken for a byte.)                                                      *)
(***************************************************************************)
UpperBoundByte(f) == 255
UpperBound(f) ==
  CASE f = "FALSE" -> 0
    [] f \in {"TRUE", "INBOUND", "OUTBOUND", "IP", "IPV6", "ICMP", "ICMPV6", "TCP",
              "UDP", "IP_DF", "IP_MF", "TCP_URG", "TCP_ACK", "TCP_PSH",
              "TCP_RST", "TCP_SYN", "TCP_FIN"} -> 1
    [] f \in {"IP_HDRLENGTH", "TCP_HDRLENGTH"} -> 15
    [] f \in {"IP_TTL", "IP_PROTOCOL", "IPV6_TRAFFICCLASS", "IPV6_NEXTHDR",
              "IPV6_HOPLIMIT", "ICMP_TYPE", "ICMP_CODE", "ICMPV6_TYPE",
              "ICMPV6_CODE"} -> 255
    [] f = "IP_FRAGOFF" -> 8191
    [] f \in {"IP_TOS", "IP_LENGTH", "IP_ID", "IP_CHECKSUM", "IPV6_LENGTH",
              "ICMP_CHECKSUM", "ICMPV6_CHECKSUM", "TCP_SRCPORT", "TCP_DSTPORT",
              "TCP_WINDOW", "TCP_CHECKSUM", "TCP_URGPTR",
              "TCP_PAYLOADLENGTH"} \cup FieldsOf.UDP -> 65535
    [] f = "IPV6_FLOWLABEL" -> 1048575
    [] OTHER -> WordMax

LowerBound(f) == IF f = "TRUE" THEN 1 ELSE 0

Outcomes(kind, lb, ub, big, n) ==
  CASE kind = "EQ"  -> IF big \/ n < lb \/ n > ub THEN {FALSE}
                       ELSE IF lb = ub THEN {TRUE} ELSE BOOLEAN
    [] kind = "NEQ" -> IF big \/ n < lb \/ n > ub THEN {TRUE}
                       ELSE IF lb = ub THEN {FALSE} ELSE BOOLEAN
    [] kind = "LT"  -> IF big \/ n > ub THEN {TRUE}
                       ELSE IF n <= lb THEN {FALSE} ELSE BOOLEAN
    [] kind = "LEQ" -> IF big \/ n >= ub THEN {TRUE}
                       ELSE IF n < lb THEN {FALSE} ELSE BOOLEAN
    [] kind = "GT"  -> IF big \/ n >= ub THEN {FALSE}
                       ELSE IF n < lb THEN {TRUE} ELSE BOOLEAN
    [] kind = "GEQ" -> IF big \/ n > ub THEN {FALSE}
                       ELSE IF n <= lb THEN {TRUE} ELSE BOOLEAN

EvalTest(test) ==
  IF test.var \in {"IPV6_SRCADDR", "IPV6_DSTADDR"} THEN BOOLEAN
  ELSE Outcomes(test.kind, LowerBound(test.var), UpperBound(test.var),
                \E w \in 2..4 : test.val[w] # 0, test.val[1])

(***************************************************************************)
(* WinDivertFlattenExpr, on the tests placed so far: it returns the label  *)
(* at which the expression starts, or -1 when a test finds no place.  The  *)
(* number of a label is its test's place in the stack; a test only jumps   *)
(* to tests below it.  A missing expression is dereferenced ("fault").     *)
(***************************************************************************)
NoLabel == -1

PlaceTest(test, fl, succ, fail) ==
  LET res == EvalTest(test) IN
  CASE res = {TRUE}  -> [fl EXCEPT !.label = succ]
    [] res = {FALSE} -> [fl EXCEPT !.label = fail]
    [] res = BOOLEAN /\ Len(fl.stack) >= MaxLen -> [fl EXCEPT !.label = NoLabel]
    [] OTHER -> [fl EXCEPT !.label = Len(fl.stack),
                           !.stack = Append(@, [test |-> test, succ |-> succ,
                                                fail |-> fail])]

FlattenExpr(pool, flatten, k, fl, succ, fail) ==
  IF NoLabel \in {succ, fail} THEN [fl EXCEPT !.label = NoLabel]
  ELSE IF k = Null THEN [fl EXCEPT !.fault = TRUE, !.label = NoLabel]
  ELSE LET expr == pool[k] IN
  CASE expr.kind = "AND" ->
         LET r == flatten[expr.arg[2]][<<fl, succ, fail>>]
         IN flatten[expr.arg[1]][<<r, r.label, fail>>]
    [] expr.kind = "OR" ->
         LET r == flatten[expr.arg[2]][<<fl, succ, fail>>]
         IN flatten[expr.arg[1]][<<r, succ, r.label>>]
    [] expr.kind = "QUESTION" ->
         LET el == flatten[expr.arg[3]][<<fl, succ, fail>>]
             th == flatten[expr.arg[2]][<<el, succ, fail>>]
         IN flatten[expr.arg[1]][<<th, th.label, el.label>>]
    [] OTHER -> PlaceTest(expr, fl, succ, fail)

Flats ==
  [stack : Seq([test : Exprs, succ : Labels, fail : Labels]),
   label : NoLabel..Reject, fault : BOOLEAN]

Flatten(pool) ==
  LET flatten[k \in 0..Len(pool)] ==
        [c \in Flats \X (NoLabel..Reject) \X (NoLabel..Reject) |->
           FlattenExpr(pool, flatten, k, c[1], c[2], c[3])]
  IN flatten

(***************************************************************************)
(* WinDivertEmitTest and WinDivertEmitFilter: the stack from the label of  *)
(* the whole expression downwards.  (Mutant: the jumps change places.)     *)
(***************************************************************************)
EmitLabel(t, label) == IF t \in {Accept, Reject} THEN t ELSE label - t

EmitTestSwapped(s, label) ==
  [field |-> s.test.var, test |-> s.test.kind, arg |-> s.test.val,
   success |-> EmitLabel(s.fail, label), failure |-> EmitLabel(s.succ, label)]
EmitTest(s, label) ==
  [field |-> s.test.var, test |-> s.test.kind, arg |-> s.test.val,
   success |-> EmitLabel(s.succ, label), failure |-> EmitLabel(s.fail, label)]

EmitTests(stack, label) ==
  [i \in 1..label + 1 |-> EmitTest(stack[label - i + 2], label)]

EmitFilter(stack, label) ==
  IF label \in {Accept, Reject}
    THEN <<[field |-> "ZERO", test |-> IF label = Accept THEN "EQ" ELSE "NEQ",
            arg |-> Zero, success |-> Accept, failure |-> Reject]>>
    ELSE EmitTests(stack, label)

(***************************************************************************)
(* WinDivertCompileFilter: an error and a program.  The code "FAULT"       *)
(* stands for the missing expression that the code would dereference, and  *)
(* "HEAP" for the pool, which may not be had.                              *)
(***************************************************************************)
Refused(error) == [error |-> error, object |-> <<>>]

CompileFilter(str, layer) ==
  LET tok  == Tokenize(str, layer)
      st   == ParseString(tok.toks)
      flat == Flatten(st.pool)[st.expr][
                <<[stack |-> <<>>, label |-> 0, fault |-> FALSE], Accept, Reject>>]
  IN IF tok.error # NoError THEN Refused(tok.error)
     ELSE IF st.expr = Null THEN Refused(st.error)
     ELSE IF tok.toks[st.i] # End THEN Refused(Error("UNEXPECTED_TOKEN", st.i))
     ELSE IF flat.fault THEN Refused(Error("FAULT", 0))
     ELSE IF flat.label = NoLabel THEN Refused(Error("TOO_LONG", 0))
     ELSE [error |-> NoError, object |-> EmitFilter(flat.stack, flat.label)]
=============================================================================
