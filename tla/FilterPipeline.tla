--------------------------- MODULE FilterPipeline ---------------------------
(***************************************************************************)
(* The way of a filter from its string to a verdict on a packet:           *)
(* WinDivertCompileFilter in the DLL, the program sent with START_FILTER,  *)
(* windivert_filter_compile and windivert_filter in the driver.            *)
(***************************************************************************)
EXTENDS FilterCompiler, FilterVM

CONSTANTS
  Strings,     \* filter strings an application uses
  Layers       \* layers it opens: "NETWORK", "NETWORK_FORWARD"

ASSUME PipelineAssumption == Strings \subseteq Seq(Lexemes)

VARIABLES
  str, layer,  \* arguments of WinDivertOpen, WinDivertHelperCheckFilter
  result       \* of WinDivertCompileFilter

pvars == <<str, layer, result>>

NotYet == Refused(Error("NOT_YET", 0))

PipelineInit ==
  /\ str \in Strings /\ layer \in Layers /\ result = NotYet
  /\ phase = "idle" /\ length = 1 /\ filter = <<>> /\ rewritten = FALSE
  /\ packet \in Packets /\ ip = 0 /\ ttl = Ttl /\ verdict = "none"

(***************************************************************************)
(* The compilation; a filter that it takes is sent to the driver.  The     *)
(* pool may not be had: then the code is NO_MEMORY too, here "HEAP".       *)
(***************************************************************************)
Compile ==
  /\ phase = "idle"
  /\ \/ result' = CompileFilter(str, layer)
     \/ /\ Tokenize(str, layer).error = NoError
        /\ result' = Refused(Error("HEAP", 0))
  /\ \/ result'.error # NoError /\ phase' = "refused" /\ UNCHANGED length
     \/ result'.error = NoError /\ phase' = "compile" /\ length' = Len(result'.object)
  /\ UNCHANGED <<str, layer, filter, rewritten, packet, ip, ttl, verdict>>

(***************************************************************************)
(* What the driver does with the instructions it is sent.  WinDivertOpen   *)
(* sends an array of its own stack frame and waits: it is not written to.  *)
(***************************************************************************)
Receive ==
  /\ phase = "compile" /\ Len(filter) < length
  /\ LET o == result.object[Len(filter) + 1] IN CompileOne(o, o, o)
  /\ UNCHANGED pvars

Driver ==
  /\ Refuse \/ CompileDone \/ Parse \/ Execute
  /\ UNCHANGED pvars

Finished == phase \in {"refused", "invalid", "done"} /\ UNCHANGED <<vars, pvars>>

PipelineNext == Compile \/ Receive \/ Driver \/ Finished

PipelineSpec == PipelineInit /\ [][PipelineNext]_<<vars, pvars>>

-----------------------------------------------------------------------------
(***************************************************************************)
(* What the DLL emits, the driver accepts, except for the longest program  *)
(* the DLL can emit, which is one instruction too long for the driver, and *)
(* for ip.TOS compared with more than a byte, which the DLL alone allows.  *)
(* A filter that is not refused has a program: the parser never gives up   *)
(* without an error.                                                       *)
(***************************************************************************)
DriverTakes ==
  result.error = NoError =>
    /\ Len(result.object) \in 1..MaxLen
    /\ \A i \in DOMAIN result.object :
         LET o == result.object[i] IN
         \/ Valid(o, i - 1, Len(result.object))
         \/ o.field = "IP_TOS" /\ o.arg[1] > 255

(***************************************************************************)
(* What an expression in the pool means for a packet.  A test has the      *)
(* result that WinDivertEvalTest settles, or else that of windivert_filter *)
(* on the packet.                                                          *)
(***************************************************************************)
TestPasses(p, e) ==
  Passes(p, [field |-> e.var, test |-> e.kind, arg |-> e.val,
             protocol |-> Protocol(e.var)])

TestResult(p, e) ==
  IF EvalTest(e) = BOOLEAN THEN TestPasses(p, e) ELSE EvalTest(e) = {TRUE}

ExprValue(p, pool, value, k) ==
  IF k = Null THEN FALSE
  ELSE LET e == pool[k] IN
  CASE e.kind = "AND" -> value[e.arg[1]] /\ value[e.arg[2]]
    [] e.kind = "OR" -> value[e.arg[1]] \/ value[e.arg[2]]
    [] e.kind = "QUESTION" ->
         IF value[e.arg[1]] THEN value[e.arg[2]] ELSE value[e.arg[3]]
    [] OTHER -> TestResult(p, e)

Value(p, pool) ==
  LET value[k \in 0..Len(pool)] == ExprValue(p, pool, value, k) IN value

(***************************************************************************)
(* The labels of the flattened and emitted program lead where the          *)
(* connectives of the parsed expression say: the driver accepts a packet   *)
(* that it finds sound exactly if the expression has the value true.       *)
(***************************************************************************)
VerdictIsParsed ==
  phase = "done" /\ packet.sound =>
    LET st == ParseString(Tokenize(str, layer).toks)
    IN verdict = "accept" <=> Value(packet, st.pool)[st.expr]
=============================================================================
