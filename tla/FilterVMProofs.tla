--------------------------- MODULE FilterVMProofs ---------------------------
(***************************************************************************)
(* Theorems about FilterVM, for programs of any length and any packets.    *)
(***************************************************************************)
EXTENDS FilterVM, TLAPS

(***************************************************************************)
(* What windivert_filter_compile has checked of the program so far.        *)
(***************************************************************************)
Checked(o, i) ==
  /\ ValidJump(o.success, i, length) /\ ValidJump(o.failure, i, length)
  /\ ValidArg(o)

CheckedAll == \A k \in 1..Len(filter) : Checked(filter[k], k - 1)

(***************************************************************************)
(* windivert_filter starts at the first instruction with a full counter.   *)
(***************************************************************************)
NotStarted ==
  phase \in {"compile", "invalid", "ready"} =>
    ip = 0 /\ ttl = Ttl /\ verdict = "none"

WholeProgram ==
  phase \in {"ready", "run", "done"} => Len(filter) = length /\ length < MaxLen

(***************************************************************************)
(* Each turn takes one from the counter and moves forward by one or more.  *)
(***************************************************************************)
Progress ==
  phase = "run" => ip < Len(filter) /\ ttl + ip >= MaxLen + 1 /\ verdict = "none"

FilterInv ==
  ~rewritten /\ TypeOK /\ CheckedAll /\ NotStarted /\ WholeProgram /\ Progress /\ NeverExpires

(***************************************************************************)
(* All that is lost once an instruction was copied otherwise than it was   *)
(* checked.                                                                *)
(***************************************************************************)
InvUnlessRewritten == rewritten \/ FilterInv

(***************************************************************************)
(* The counter has turns left as long as windivert_filter runs.            *)
(***************************************************************************)
TurnsLeft == phase \in {"compile", "ready", "run"} => ttl > 0

-----------------------------------------------------------------------------
(***************************************************************************)
(* Every field belongs to a header.                                        *)
(***************************************************************************)
LEMMA ProtocolType == \A f \in Fields : Protocol(f) \in Protocols
<1> SUFFICES ASSUME NEW f \in Fields PROVE Protocol(f) \in Protocols
  OBVIOUS
<1>1. \E q \in Protocols : f \in FieldsOf[q]
  BY DEF Fields
<1> QED BY <1>1 DEF Protocol, HeaderOf

(***************************************************************************)
(* A valid instruction is compiled to one of the right type.               *)
(***************************************************************************)
LEMMA CompileStep ==
  ASSUME FilterInv, NEW o, NEW c, NEW d, CompileOne(o, c, d), ~rewritten',
         o.arg \in Words, o.success \in Labels, o.failure \in Labels
  PROVE  FilterInv'
<1>0. MaxLen \in Nat \ {0}
  BY FilterAssumption
<1>1. /\ filter \in Seq(Compiled) /\ Len(filter) <= length /\ Len(filter) \in Nat
      /\ length \in 1..MaxLen
      /\ phase = "compile" /\ Len(filter) < length
      /\ UNCHANGED <<length, packet, ip, ttl, verdict>>
  BY DEF FilterInv, TypeOK, CompileOne
<1>2. CASE phase' = "invalid" /\ UNCHANGED <<filter, rewritten>>
  BY <1>1, <1>2 DEF FilterInv, TypeOK, CheckedAll, Checked, NotStarted,
     WholeProgram, Progress, NeverExpires
<1>3. ASSUME NEW e, e = Instruction(o, o), Valid(o, Len(filter), length),
             filter' = Append(filter, e), UNCHANGED phase
      PROVE  FilterInv'
  <2>1. e \in Compiled
    BY <1>0, <1>3, ProtocolType DEF Instruction, Compiled, Copied, Valid
  <2>2. Checked(e, Len(filter))
    BY <1>3 DEF Instruction, Checked, Valid, ValidArg
  <2>3. /\ filter' \in Seq(Compiled) /\ Len(filter') = Len(filter) + 1
        /\ filter'[Len(filter) + 1] = e
        /\ \A k \in 1..Len(filter) : filter'[k] = filter[k]
    BY <1>1, <1>3, <2>1
  <2>4. TypeOK'
    <3>1. Compiled \subseteq Readable
      BY DEF Compiled, Readable, Copied
    <3>2. filter' \in Seq(Readable)
      BY <2>3, <3>1
    <3>3. rewritten' \in BOOLEAN
      BY DEF CompileOne, FilterInv, TypeOK
    <3> QED BY <1>1, <1>3, <2>3, <3>2, <3>3 DEF FilterInv, TypeOK
  <2>5. CheckedAll'
    <3> SUFFICES ASSUME NEW k \in 1..Len(filter')
                 PROVE  Checked(filter'[k], k - 1)
      BY <1>1 DEF CheckedAll, Checked
    <3>1. CASE k = Len(filter) + 1
      <4>1. filter'[k] = e /\ k - 1 = Len(filter)
        BY <1>1, <2>3, <3>1
      <4> QED BY <2>2, <4>1
    <3>2. CASE k # Len(filter) + 1
      <4>1. k \in 1..Len(filter) /\ filter'[k] = filter[k]
        BY <1>1, <2>3, <3>2
      <4> QED BY <4>1 DEF FilterInv, CheckedAll
    <3> QED BY <3>1, <3>2
  <2> QED BY <1>1, <1>3, <2>4, <2>5 DEF FilterInv, NotStarted, WholeProgram,
     Progress, NeverExpires
<1>4. Instruction(c, d) = Instruction(o, o) \/ phase' = "invalid"
  BY DEF CompileOne
<1> QED BY <1>2, <1>3, <1>4 DEF CompileOne

(***************************************************************************)
(* Execution moves to a checked continuation of the current instruction.   *)
(***************************************************************************)
LEMMA ExecuteJumps ==
  ASSUME FilterInv, Execute
  PROVE  /\ ip + 1 \in 1..Len(filter) /\ At(ip) \in Compiled
         /\ Checked(At(ip), ip)
         /\ ip' = Target(packet, At(ip))
         /\ ip' \in {Accept, Reject} \/ (ip < ip' /\ ip' < length)
         /\ ip' \in Labels
<1>1. /\ filter \in Seq(Compiled) /\ Len(filter) \in Nat /\ ip \in Labels
      /\ ip < Len(filter) /\ MaxLen \in Nat /\ ip \in Int /\ ip >= 0
  BY FilterAssumption DEF FilterInv, TypeOK, Progress, Execute, Labels
<1>2. ip + 1 \in 1..Len(filter)
  BY <1>1
<1>3. At(ip) \in Compiled
  BY <1>1, <1>2 DEF At
<1>4. Checked(At(ip), ip)
  <2>1. Checked(filter[ip + 1], (ip + 1) - 1) /\ (ip + 1) - 1 = ip
    BY <1>1, <1>2 DEF FilterInv, CheckedAll
  <2> QED BY <2>1 DEF At
<1>5. ip' = Target(packet, At(ip)) /\ ip' \in {At(ip).success, At(ip).failure}
  BY <1>1 DEF Execute, Target
<1> QED BY <1>2, <1>3, <1>4, <1>5 DEF Checked, ValidJump, Compiled, Copied

(***************************************************************************)
(* One turn of the loop of windivert_filter keeps the invariant.           *)
(***************************************************************************)
LEMMA ExecuteStep ==
  ASSUME FilterInv, Execute
  PROVE  FilterInv'
<1>1. /\ MaxLen \in Nat \ {0} /\ length \in 1..MaxLen /\ ip \in Int /\ ip >= 0
      /\ ttl \in 0..MaxLen + 1 /\ phase = "run"
      /\ ttl + ip >= MaxLen + 1 /\ ip < Len(filter) /\ Len(filter) = length
      /\ length < MaxLen /\ ttl' = ttl - 1
      /\ UNCHANGED <<length, filter, rewritten, packet>>
  BY FilterAssumption DEF FilterInv, TypeOK, Progress, WholeProgram, Execute, Labels
<1>2. /\ ip' \in Labels /\ ip' \in Int
      /\ ip' \in {Accept, Reject} \/ (ip < ip' /\ ip' < length)
  BY <1>1, ExecuteJumps DEF Labels
<1>3. ttl > 0 /\ ttl' \in 0..MaxLen + 1
  BY <1>1
<1>4. ip' \notin {Accept, Reject} => ttl' + ip' >= MaxLen + 1 /\ ttl' > 0
  <2> SUFFICES ASSUME ip < ip', ip' < length
               PROVE  ttl' + ip' >= MaxLen + 1 /\ ttl' > 0
    BY <1>2
  <2>1. /\ ttl \in Int /\ length \in Int /\ MaxLen \in Int /\ ip \in Int
        /\ ip' \in Int /\ ttl' = ttl - 1 /\ ttl + ip >= MaxLen + 1
        /\ ip < ip' /\ ip' < length /\ length < MaxLen
    BY <1>1, <1>2
  <2>2. ASSUME NEW t \in Int, NEW l \in Int, NEW m \in Int, NEW i \in Int,
               NEW j \in Int, t + i >= m + 1, i < j, j < l, l < m
        PROVE  (t - 1) + j >= m + 1 /\ t - 1 > 0
    BY <2>2
  <2> QED BY <2>1, <2>2
<1>5. /\ verdict' \in {"none", "accept", "reject"}
      /\ phase' = IF verdict' = "none" THEN "run" ELSE "done"
      /\ verdict' = "none" => ip' \notin {Accept, Reject}
  BY <1>3, <1>4 DEF Execute, Verdict
<1>6. TypeOK'
  BY <1>1, <1>2, <1>3, <1>5 DEF FilterInv, TypeOK
<1>7. CheckedAll' /\ ~rewritten'
  BY <1>1 DEF FilterInv, CheckedAll, Checked
<1>8. NotStarted' /\ WholeProgram'
  BY <1>1, <1>5 DEF NotStarted, WholeProgram
<1>9. Progress' /\ NeverExpires'
  BY <1>1, <1>2, <1>4, <1>5 DEF Progress, NeverExpires
<1> QED BY <1>6, <1>7, <1>8, <1>9 DEF FilterInv

(***************************************************************************)
(* No step forgets that an instruction was rewritten, and every other step *)
(* keeps the invariant.                                                    *)
(***************************************************************************)
LEMMA NextFilterInv ==
  FilterInv /\ [Next]_vars /\ ~rewritten' => FilterInv'
<1> SUFFICES ASSUME FilterInv, [Next]_vars, ~rewritten' PROVE FilterInv'
  OBVIOUS
<1>0. /\ MaxLen \in Nat \ {0} /\ length \in 1..MaxLen /\ Len(filter) \in Nat
  BY FilterAssumption DEF FilterInv, TypeOK
<1>5. ASSUME NEW o \in Instructions, NEW c, NEW d, CompileOne(o, c, d)
      PROVE  FilterInv'
  <2>1. o.arg \in Words /\ o.success \in Labels /\ o.failure \in Labels
    BY FilterAssumption DEF Instructions
  <2> QED BY <1>5, <2>1, CompileStep
<1> USE DEF FilterInv, TypeOK, CheckedAll, Checked, NotStarted, WholeProgram,
     Progress, NeverExpires
<1>1. CASE Refuse
  BY <1>0, <1>1 DEF Refuse
<1>2. CASE CompileDone
  BY <1>0, <1>2 DEF CompileDone, TooLong
<1>3. CASE Parse
  BY <1>0, <1>3 DEF Parse, Ttl
<1>4. CASE Terminated \/ UNCHANGED vars
  BY <1>4 DEF Terminated, vars
<1> QED BY <1>1, <1>2, <1>3, <1>4, <1>5, ExecuteStep DEF Next

LEMMA RewrittenStays ==
  [Next]_vars /\ rewritten => rewritten'
BY DEF Next, Refuse, CompileDone, CompileOne, Parse, Execute, Terminated, vars

(***************************************************************************)
(* The invariant holds of every program copied as it was checked.          *)
(***************************************************************************)
THEOREM FilterInvariance == Spec => []InvUnlessRewritten
<1>1. Init => InvUnlessRewritten
  <2> SUFFICES ASSUME Init PROVE FilterInv
    BY DEF InvUnlessRewritten
  <2>1. filter \in Seq(Readable) /\ filter \in Seq(Compiled) /\ Len(filter) = 0
    BY DEF Init
  <2>2. ~rewritten /\ rewritten \in BOOLEAN
    BY DEF Init
  <2>3. TypeOK
    BY <2>1, <2>2, FilterAssumption DEF Init, Ttl, TypeOK, Labels, Reject
  <2>4. CheckedAll
    BY <2>1 DEF CheckedAll
  <2>5. NotStarted /\ WholeProgram /\ Progress /\ NeverExpires
    BY DEF Init, NotStarted, WholeProgram, Progress, NeverExpires
  <2> QED BY <2>2, <2>3, <2>4, <2>5 DEF FilterInv
<1>2. InvUnlessRewritten /\ [Next]_vars => InvUnlessRewritten'
  BY NextFilterInv, RewrittenStays DEF InvUnlessRewritten
<1> QED BY <1>1, <1>2, PTL DEF Spec

(***************************************************************************)
(* windivert_filter never reads an instruction outside a program that was  *)
(* copied as it was checked, and no evaluation of one is cut off by its    *)
(* counter.                                                                *)
(***************************************************************************)
THEOREM EvaluationIsSafe == Spec => []EvaluationSafe
<1>1. FilterInv => InBounds
  BY DEF FilterInv, Progress, InBounds
<1>2. FilterInv => NeverExpires
  BY DEF FilterInv
<1>3. InvUnlessRewritten => EvaluationSafe
  BY <1>1, <1>2 DEF InvUnlessRewritten, EvaluationSafe
<1> QED BY <1>3, FilterInvariance, PTL

(***************************************************************************)
(* A rewritten instruction is copied too: it has the type of what may be   *)
(* read.                                                                   *)
(***************************************************************************)
LEMMA CopiedType ==
  ASSUME TypeOK, NEW o \in Instructions, NEW c \in {o} \cup Rewrites,
         NEW d, CompileOne(o, c, d)
  PROVE  TypeOK'
<1>1. MaxLen \in Nat \ {0} /\ o.arg \in Words /\ o.success \in Labels
      /\ o.failure \in Labels
      /\ \A r \in Rewrites : r.arg \in Words /\ r.success \in Labels
                                             /\ r.failure \in Labels
  BY FilterAssumption DEF Instructions
<1>2. /\ filter \in Seq(Readable) /\ Len(filter) \in Nat /\ length \in 1..MaxLen
      /\ UNCHANGED <<length, packet, ip, ttl, verdict>> /\ Len(filter) < length
  BY DEF TypeOK, CompileOne
<1>3. CASE phase' = "invalid" /\ UNCHANGED <<filter, rewritten>>
  BY <1>2, <1>3 DEF TypeOK
<1>4. ASSUME Valid(o, Len(filter), length), d.field \in Fields, UNCHANGED phase,
             filter' = Append(filter, Instruction(c, d)),
             rewritten' = (rewritten \/ Instruction(c, d) # Instruction(o, o))
      PROVE  TypeOK'
  <2>1. c.arg \in Words /\ c.success \in Labels /\ c.failure \in Labels
    BY <1>1
  <2>2. /\ c.field \in Fields \cup {r.field : r \in Rewrites}
        /\ c.test \in Tests \cup {r.test : r \in Rewrites}
    BY <1>4 DEF Valid
  <2>3. Instruction(c, d) \in Readable
    BY <1>4, <2>1, <2>2, ProtocolType DEF Instruction, Readable, Copied
  <2>4. filter' \in Seq(Readable) /\ Len(filter') = Len(filter) + 1
    BY <1>2, <1>4, <2>3
  <2>5. rewritten' \in BOOLEAN
    BY <1>4 DEF TypeOK
  <2>6. ~rewritten' => filter' \in Seq(Compiled)
    <3> SUFFICES ASSUME ~rewritten' PROVE filter' \in Seq(Compiled)
      OBVIOUS
    <3>1. ~rewritten /\ Instruction(c, d) = Instruction(o, o)
      BY <1>4
    <3>2. Instruction(o, o) \in Compiled
      BY <1>1, <1>4, ProtocolType DEF Instruction, Compiled, Copied, Valid
    <3>3. filter \in Seq(Compiled)
      BY <3>1 DEF TypeOK
    <3> QED BY <1>4, <3>1, <3>2, <3>3
  <2> QED BY <1>2, <1>4, <2>4, <2>5, <2>6 DEF TypeOK
<1> QED BY <1>3, <1>4 DEF CompileOne

(***************************************************************************)
(* Types are kept for every program, rewritten or not, and the counter of  *)
(* windivert_filter never passes zero: it bounds the turns of the loop     *)
(* even where the jumps of a rewritten instruction go back.                *)
(***************************************************************************)
THEOREM FilterTypeOK == Spec => [](TypeOK /\ TurnsLeft)
<1>1. Init => TypeOK /\ TurnsLeft
  <2> SUFFICES ASSUME Init PROVE TypeOK /\ TurnsLeft
    OBVIOUS
  <2>1. filter \in Seq(Readable) /\ filter \in Seq(Compiled) /\ Len(filter) = 0
    BY DEF Init
  <2>2. ~rewritten /\ rewritten \in BOOLEAN
    BY DEF Init
  <2> QED BY <2>1, <2>2, FilterAssumption
        DEF Init, Ttl, TypeOK, TurnsLeft, Labels, Reject
<1>2. TypeOK /\ TurnsLeft /\ [Next]_vars => TypeOK' /\ TurnsLeft'
  <2> SUFFICES ASSUME TypeOK, TurnsLeft, [Next]_vars PROVE TypeOK' /\ TurnsLeft'
    OBVIOUS
  <2>1. CASE Refuse \/ CompileDone \/ Parse \/ Terminated \/ UNCHANGED vars
    BY <2>1 DEF Refuse, CompileDone, Parse, Terminated, vars, TypeOK, TurnsLeft
  <2>2. ASSUME NEW o \in Instructions, NEW c \in {o} \cup Rewrites, NEW d,
               CompileOne(o, c, d)
        PROVE  TypeOK' /\ TurnsLeft'
    BY <2>2, CopiedType DEF CompileOne, TurnsLeft
  <2>3. CASE Execute
    <3>1. /\ MaxLen \in Nat /\ phase = "run" /\ ttl \in 0..MaxLen + 1 /\ ttl > 0
          /\ UNCHANGED <<length, filter, rewritten, packet>>
          /\ verdict' = Verdict(ip', ttl')
          /\ phase' = IF verdict' = "none" THEN "run" ELSE "done"
      BY <2>3, FilterAssumption DEF Execute, TypeOK, TurnsLeft
    <3>2. ttl' \in 0..MaxLen + 1 /\ (verdict' = "none" => ttl' > 0)
      BY <2>3, <3>1 DEF Execute, Verdict
    <3>3. ip' \in Labels
      <4>1. Accept \in Labels /\ Reject \in Labels
        BY <3>1 DEF Labels, Accept, Reject
      <4>2. CASE ip < Len(filter)
        <5>1. ip + 1 \in 1..Len(filter)
          BY <3>1, <4>2 DEF TypeOK, Labels, Reject
        <5>2. At(ip) \in Readable
          BY <5>1 DEF At, TypeOK
        <5> QED BY <2>3, <4>2, <5>2 DEF Execute, Target, Readable, Copied
      <4> QED BY <2>3, <4>1, <4>2 DEF Execute
    <3>4. verdict' \in {"none", "accept", "reject", "expired"}
      BY <3>1 DEF Verdict
    <3> QED BY <3>1, <3>2, <3>3, <3>4 DEF TypeOK, TurnsLeft
  <2> QED BY <2>1, <2>2, <2>3 DEF Next
<1> QED BY <1>1, <1>2, PTL DEF Spec

-----------------------------------------------------------------------------
(***************************************************************************)
(* The routines that follow a program from a label answer whether a can be *)
(* reached from it by the continuations G: there is such an answer, the    *)
(* least set that has a and whatever continues in it.                      *)
(***************************************************************************)
LEMMA Reachable ==
  ASSUME NEW L, NEW a \in L, NEW G \in [L -> SUBSET L]
  PROVE  \E T \in [L -> BOOLEAN] :
           \A j \in L : T[j] <=> (j = a \/ \E k \in G[j] : T[k])
<1> DEFINE Closed(X) == a \in X /\ \A j \in L : \A k \in G[j] : k \in X => j \in X
           M == {j \in L : \A X \in SUBSET L : Closed(X) => j \in X}
           T == [j \in L |-> j \in M]
<1>1. Closed(M)
  OBVIOUS
<1>2. ASSUME NEW j \in M, j # a PROVE \E k \in G[j] : k \in M
  <2>1. SUFFICES ASSUME \A k \in G[j] : k \notin M PROVE FALSE
    OBVIOUS
  <2> DEFINE X == M \ {j}
  <2>2. Closed(X) /\ X \in SUBSET L
    BY <1>1, <1>2, <2>1
  <2> QED BY <2>2
<1>3. ASSUME NEW j \in L PROVE j \in M <=> (j = a \/ \E k \in G[j] : k \in M)
  BY <1>1, <1>2
<1>4. \A j \in L : G[j] \subseteq L
  OBVIOUS
<1> HIDE DEF M
<1>5. ASSUME NEW j \in L PROVE T[j] <=> (j = a \/ \E k \in G[j] : T[k])
  <2>1. \A k \in G[j] : T[k] <=> k \in M
    BY <1>4
  <2>2. T[j] <=> j \in M
    OBVIOUS
  <2> QED BY <1>3, <2>1, <2>2
<1>6. T \in [L -> BOOLEAN]
  OBVIOUS
<1> HIDE DEF T
<1> QED BY <1>5, <1>6

(***************************************************************************)
(* A complete program that was checked continues at its own labels.        *)
(***************************************************************************)
LEMMA Continuations ==
  ASSUME FilterInv, phase \in {"run", "done"}
  PROVE  /\ 0 \in LabelsOf(filter) /\ 0 \in 0..Len(filter) - 1
         /\ Accept \in LabelsOf(filter) /\ Reject \in LabelsOf(filter)
         /\ Accept > MaxLen /\ Reject > MaxLen /\ Accept # Reject
         /\ LabelsOf(filter) \subseteq Labels
         /\ \A j \in 0..Len(filter) - 1 :
              /\ j \in LabelsOf(filter) /\ j < MaxLen /\ j # Accept /\ j # Reject
              /\ filter[j + 1] \in Compiled
              /\ filter[j + 1].success \in LabelsOf(filter)
              /\ filter[j + 1].failure \in LabelsOf(filter)
<1>1. /\ MaxLen \in Nat /\ length \in Nat /\ length >= 1 /\ length < MaxLen
      /\ Len(filter) = length /\ filter \in Seq(Compiled)
  BY FilterAssumption DEF FilterInv, TypeOK, WholeProgram
<1>2. ASSUME NEW j \in 0..Len(filter) - 1
      PROVE  /\ j \in LabelsOf(filter) /\ j < MaxLen /\ j # Accept /\ j # Reject
             /\ filter[j + 1] \in Compiled
             /\ filter[j + 1].success \in LabelsOf(filter)
             /\ filter[j + 1].failure \in LabelsOf(filter)
  <2> DEFINE o == filter[j + 1]
  <2>1. j + 1 \in 1..Len(filter) /\ (j + 1) - 1 = j /\ j \in Nat /\ j < MaxLen
    BY <1>1
  <2>2. Checked(o, j) /\ o \in Compiled
    BY <1>1, <2>1 DEF FilterInv, CheckedAll
  <2>3. o.success \in Labels /\ o.failure \in Labels
    BY <2>2 DEF Compiled, Copied
  <2> HIDE DEF o
  <2>4. o.success \in LabelsOf(filter) /\ o.failure \in LabelsOf(filter)
    BY <1>1, <2>1, <2>2, <2>3 DEF Checked, ValidJump, LabelsOf, Labels
  <2> QED BY <1>1, <2>1, <2>2, <2>4 DEF LabelsOf, Accept, Reject, o
<1> QED BY <1>1, <1>2 DEF LabelsOf, Labels, Accept, Reject

-----------------------------------------------------------------------------
(***************************************************************************)
(* T is a result of windivert_filter_test for field f and value n: it      *)
(* satisfies the equations by which the routine calls itself.              *)
(***************************************************************************)
IsTest(T, f, n) ==
  /\ T \in [LabelsOf(filter) -> BOOLEAN]
  /\ T[Accept] = TRUE /\ T[Reject] = FALSE
  /\ \A j \in 0..Len(filter) - 1 : T[j] = TestStep(filter, f, n, T, j)

(***************************************************************************)
(* The fields that windivert_filter_analyze asks about, with the value     *)
(* that the packet has there.                                              *)
(***************************************************************************)
Asked == {"ZERO", "INBOUND", "OUTBOUND", "IP", "IPV6"}
Has(f, n) == f \in Asked /\ n \in Nat /\ Property(packet, f) = Number(n)

(***************************************************************************)
(* If the packet has value n in field f, a negative answer for f and n     *)
(* means that the program does not accept the packet.                      *)
(***************************************************************************)
TestsSound ==
  \A T, f, n : IsTest(T, f, n) /\ Has(f, n) /\ verdict = "accept" => T[0]

(***************************************************************************)
(* Until then: what is reached has the answer of the beginning.            *)
(***************************************************************************)
TestsFollow ==
  \A T, f, n : IsTest(T, f, n) /\ Has(f, n) /\ phase = "run" => (T[ip] => T[0])

(***************************************************************************)
(* The driver tests these fields on the values that the analysis assumes.  *)
(***************************************************************************)
LEMMA KnownDecides ==
  ASSUME NEW o \in Compiled, ValidArg(o), NEW f, NEW n, Has(f, n), Known(o, f)
  PROVE  Passes(packet, o) <=> Holds(o.test, Sign(n, o.arg[1]))
<1>1. o.protocol = "NONE" /\ o.field = f /\ f \in Asked
  BY DEF Known, Has
<1>2. Present(packet, o.protocol)
  BY <1>1 DEF Present
<1>3. FieldValue(packet, f) = Number(n)
  BY <1>1 DEF FieldValue, Has, Asked
<1>4. o.arg[2] = 0 /\ o.arg[3] = 0 /\ o.arg[4] = 0
  BY <1>1 DEF ValidArg, Asked
<1>5. BigNumCompare(Number(n), o.arg) = Sign(n, o.arg[1])
  BY <1>4 DEF BigNumCompare, Number
<1> QED BY <1>1, <1>2, <1>3, <1>5 DEF Passes

(***************************************************************************)
(* A turn of windivert_filter leads from an instruction with a negative    *)
(* answer to another one.                                                  *)
(***************************************************************************)
LEMMA ExecuteFollows ==
  ASSUME FilterInv, Execute, NEW T, NEW f, NEW n, IsTest(T, f, n), Has(f, n)
  PROVE  T[ip'] => T[ip]
<1> DEFINE o == At(ip)
<1>1. o \in Compiled /\ ValidArg(o) /\ ip \in 0..Len(filter) - 1
  <2>1. ip \in Int /\ Len(filter) \in Int
    BY FilterAssumption DEF FilterInv, TypeOK, Labels
  <2> QED BY <2>1, ExecuteJumps DEF Checked
<1>2. T[ip] = TestStep(filter, f, n, T, ip)
  BY <1>1 DEF IsTest
<1>3. ip' = IF Passes(packet, o) THEN o.success ELSE o.failure
  BY ExecuteJumps DEF Target
<1>4. T[o.success] \in BOOLEAN /\ T[o.failure] \in BOOLEAN
  BY <1>1, Continuations DEF IsTest, At, Execute
<1>5. CASE Known(o, f)
  <2>1. Passes(packet, o) <=> Holds(o.test, Sign(n, o.arg[1]))
    BY <1>1, <1>5, KnownDecides
  <2>2. T[ip] = IF Holds(o.test, Sign(n, o.arg[1])) THEN T[o.success]
                                                    ELSE T[o.failure]
    BY <1>2, <1>5 DEF TestStep, At
  <2> HIDE DEF o
  <2> QED BY <1>3, <2>1, <2>2
<1>6. CASE ~Known(o, f)
  <2>1. T[ip] = (T[o.success] \/ T[o.failure])
    BY <1>2, <1>6 DEF TestStep, At, Branches
  <2> HIDE DEF o
  <2> QED BY <1>3, <1>4, <2>1
<1> QED BY <1>5, <1>6

(***************************************************************************)
(* The driver's steps keep both facts: the program and the packet do not   *)
(* change while it runs.                                                   *)
(***************************************************************************)
LEMMA NextTestsSound ==
  FilterInv /\ TestsFollow /\ TestsSound /\ [Next]_vars
    => TestsFollow' /\ TestsSound'
<1> SUFFICES ASSUME FilterInv, TestsFollow, TestsSound, [Next]_vars
             PROVE  TestsFollow' /\ TestsSound'
  OBVIOUS
<1>1. CASE Execute
  <2>1. UNCHANGED <<filter, packet>> /\ phase = "run"
    BY <1>1 DEF Execute
  <2>2. ASSUME NEW T, NEW f, NEW n
        PROVE  (IsTest(T, f, n)' <=> IsTest(T, f, n)) /\ (Has(f, n)' <=> Has(f, n))
    BY <2>1 DEF IsTest, Has
  <2>3. ASSUME NEW T, NEW f, NEW n, IsTest(T, f, n), Has(f, n)
        PROVE  T[ip'] => T[0]
    BY <1>1, <2>1, <2>3, ExecuteFollows DEF TestsFollow
  <2>4. verdict' = "accept" => ip' = Accept
    BY <1>1 DEF Execute, Verdict
  <2>5. TestsFollow'
    BY <2>2, <2>3 DEF TestsFollow
  <2>6. TestsSound'
    <3> SUFFICES ASSUME NEW T, NEW f, NEW n, IsTest(T, f, n)', Has(f, n)',
                        verdict' = "accept"
                 PROVE  T[0]
      BY DEF TestsSound
    <3>1. IsTest(T, f, n) /\ Has(f, n)
      BY <2>2
    <3>2. T[ip'] = TRUE
      BY <2>4, <3>1 DEF IsTest
    <3> QED BY <2>3, <3>1, <3>2
  <2> QED BY <2>5, <2>6
<1>2. CASE ~Execute
  <2>1. \/ verdict' # "accept" /\ phase' # "run"
        \/ phase' = "run" /\ ip' = 0 /\ verdict' = "none"
        \/ UNCHANGED vars
    BY <1>2 DEF Next, Refuse, CompileDone, CompileOne, Parse, Terminated,
       FilterInv, NotStarted, vars
  <2>2. CASE verdict' # "accept" /\ phase' # "run"
    BY <2>2 DEF TestsFollow, TestsSound
  <2>3. CASE phase' = "run" /\ ip' = 0 /\ verdict' = "none"
    BY <2>3 DEF TestsFollow, TestsSound
  <2>4. CASE UNCHANGED vars
    BY <2>4 DEF TestsFollow, TestsSound, IsTest, Has, vars
  <2> QED BY <2>1, <2>2, <2>3, <2>4
<1> QED BY <1>1, <1>2

(***************************************************************************)
(* The tests behind windivert_filter_analyze are sound: a program that     *)
(* accepts a packet is not found unable to accept packets of its kind.     *)
(***************************************************************************)
THEOREM AnalysisTestsSound == Spec => [](rewritten \/ TestsSound)
<1> DEFINE Both == rewritten \/ (TestsFollow /\ TestsSound)
<1>1. Init => Both
  BY DEF Init, TestsFollow, TestsSound
<1>2. InvUnlessRewritten /\ Both /\ [Next]_vars => Both'
  BY NextTestsSound, RewrittenStays DEF InvUnlessRewritten
<1>3. Both => rewritten \/ TestsSound
  OBVIOUS
<1> HIDE DEF Both
<1> QED BY <1>1, <1>2, <1>3, FilterInvariance, PTL DEF Spec

-----------------------------------------------------------------------------
(***************************************************************************)
(* The equations of windivert_filter_test have a solution, and FilterTest  *)
(* is the answer of one.                                                   *)
(***************************************************************************)
LEMMA TestExists ==
  ASSUME FilterInv, phase \in {"run", "done"}, NEW f, NEW n
  PROVE  \E T : IsTest(T, f, n) /\ FilterTest(filter, f, n) = T[0]
<1> DEFINE L == LabelsOf(filter)
           passes(o) == Holds(o.test, Sign(n, o.arg[1]))
           next(o) == IF Known(o, f)
                        THEN IF passes(o) THEN {o.success} ELSE {o.failure}
                        ELSE {o.success, o.failure}
           G == [j \in L |-> IF j \in {Accept, Reject} THEN {}
                             ELSE next(filter[j + 1])]
<1>1. /\ Accept \in L /\ Reject \in L /\ Accept # Reject
      /\ Accept > MaxLen /\ Reject > MaxLen /\ 0 \in L
      /\ L = (0..Len(filter) - 1) \cup {Accept, Reject}
      /\ \A j \in 0..Len(filter) - 1 :
           /\ j \in L /\ j <= MaxLen /\ j # Accept /\ j # Reject
           /\ filter[j + 1].success \in L /\ filter[j + 1].failure \in L
  <2>1. MaxLen \in Int /\ Len(filter) \in Int
    BY FilterAssumption DEF FilterInv, TypeOK
  <2> QED BY <2>1, Continuations DEF LabelsOf
<1>2. MaxLen \in Nat /\ Accept \in Int /\ Reject \in Int
  BY FilterAssumption DEF Accept, Reject
<1> HIDE DEF L, passes
<1>3. G \in [L -> SUBSET L]
  <2>1. ASSUME NEW j \in L PROVE G[j] \subseteq L
    BY <1>1
  <2> QED BY <2>1
<1>4. PICK T \in [L -> BOOLEAN] :
        \A j \in L : T[j] <=> (j = Accept \/ \E k \in G[j] : T[k])
  <2>1. Accept \in L
    BY <1>1
  <2> HIDE DEF G
  <2>2. \A A : \A b \in A : \A H \in [A -> SUBSET A] :
          \E T \in [A -> BOOLEAN] :
            \A j \in A : T[j] <=> (j = b \/ \E k \in H[j] : T[k])
    BY Reachable
  <2>3. \A b \in L : \A H \in [L -> SUBSET L] :
          \E T \in [L -> BOOLEAN] :
            \A j \in L : T[j] <=> (j = b \/ \E k \in H[j] : T[k])
    BY <2>2
  <2>4. \A H \in [L -> SUBSET L] :
          \E T \in [L -> BOOLEAN] :
            \A j \in L : T[j] <=> (j = Accept \/ \E k \in H[j] : T[k])
    BY <2>1, <2>3
  <2> QED BY <1>3, <2>4
<1>5. T[Accept] = TRUE /\ T[Reject] = FALSE
  BY <1>1, <1>4
<1>6. ASSUME NEW j \in 0..Len(filter) - 1
      PROVE  T[j] = TestStep(filter, f, n, T, j)
  <2> DEFINE o == filter[j + 1]
  <2>1. /\ j \in L /\ j # Accept /\ G[j] = next(o)
        /\ o.success \in L /\ o.failure \in L
    BY <1>1
  <2>2. T[j] <=> \E k \in next(o) : T[k]
    BY <1>4, <2>1
  <2>3. T[j] \in BOOLEAN /\ T[o.success] \in BOOLEAN /\ T[o.failure] \in BOOLEAN
    BY <2>1
  <2>4. TestStep(filter, f, n, T, j) =
          IF Known(o, f) THEN IF passes(o) THEN T[o.success] ELSE T[o.failure]
                         ELSE (T[o.success] \/ T[o.failure])
    BY DEF TestStep, Branches, passes
  <2> HIDE DEF o
  <2> QED BY <2>2, <2>3, <2>4
<1> DEFINE Solves(S) ==
      S = [j \in L |-> (j = Accept \/ (j <= MaxLen /\ TestStep(filter, f, n, S, j)))]
<1>7. Solves(T)
  <2> DEFINE S == [j \in L |->
                     (j = Accept \/ (j <= MaxLen /\ TestStep(filter, f, n, T, j)))]
  <2>1. ASSUME NEW j \in L PROVE T[j] = S[j]
    <3>1. CASE j \in 0..Len(filter) - 1
      <4>1. T[j] = TestStep(filter, f, n, T, j) /\ j <= MaxLen /\ j # Accept
        BY <1>1, <1>6, <3>1
      <4>2. T[j] \in BOOLEAN
        OBVIOUS
      <4>3. S[j] = (j = Accept \/ (j <= MaxLen /\ TestStep(filter, f, n, T, j)))
        OBVIOUS
      <4> HIDE DEF S
      <4> QED BY <4>1, <4>2, <4>3
    <3>2. CASE j = Accept
      BY <1>1, <1>5, <3>2
    <3>3. CASE j = Reject
      <4>1. ~(j <= MaxLen) /\ j # Accept
        BY <1>1, <1>2, <3>3
      <4> QED BY <1>5, <3>3, <4>1
    <3> QED BY <1>1, <3>1, <3>2, <3>3
  <2>2. T = [j \in L |-> T[j]] /\ S = [j \in L |-> S[j]]
    OBVIOUS
  <2> HIDE DEF S
  <2>3. T = S
    BY <2>1, <2>2
  <2> QED BY <2>3 DEF S
<1>8. PICK S : Solves(S) /\ FilterTest(filter, f, n) = S[0]
  <2> HIDE DEF Solves
  <2>1. Solves(CHOOSE S : Solves(S))
    BY <1>7
  <2>2. FilterTest(filter, f, n) = (CHOOSE S : Solves(S))[0]
    BY DEF FilterTest, Solves, L
  <2> QED BY <2>1, <2>2
<1>9. IsTest(S, f, n)
  <2>1. \A j \in L : S[j] = (j = Accept \/ (j <= MaxLen /\ TestStep(filter, f, n, S, j)))
    BY <1>8
  <2>2. S \in [L -> BOOLEAN]
    BY <1>8
  <2>3. S[Accept] = TRUE
    BY <1>1, <2>1
  <2>4. S[Reject] = FALSE
    <3>1. ~(Reject <= MaxLen)
      BY <1>1, <1>2
    <3> QED BY <1>1, <2>1, <3>1
  <2>5. ASSUME NEW j \in 0..Len(filter) - 1
        PROVE  S[j] = TestStep(filter, f, n, S, j)
    <3>1. /\ j \in L /\ j <= MaxLen /\ j # Accept
          /\ filter[j + 1].success \in L /\ filter[j + 1].failure \in L
      BY <1>1
    <3>2. S[filter[j + 1].success] \in BOOLEAN /\ S[filter[j + 1].failure] \in BOOLEAN
      BY <2>2, <3>1
    <3>3. TestStep(filter, f, n, S, j) \in BOOLEAN
      BY <3>2 DEF TestStep, Branches
    <3> QED BY <2>1, <3>1, <3>3
  <2> QED BY <2>2, <2>3, <2>4, <2>5 DEF IsTest, L
<1> QED BY <1>8, <1>9

(***************************************************************************)
(* windivert_filter_analyze is sound: a packet that the program accepts is *)
(* of a direction and an IP version that the analysis finds.               *)
(***************************************************************************)
THEOREM AnalysisSoundHolds == Spec => []AnalysisSound
<1>1. FilterInv /\ TestsSound => AnalysisSound
  <2> SUFFICES ASSUME FilterInv, TestsSound, verdict = "accept"
               PROVE  LET a == Analyze(filter) IN
                      /\ IF packet.outbound THEN a.outbound ELSE a.inbound
                      /\ IF packet.isipv4 THEN a.ipv4 ELSE a.ipv6
    BY DEF AnalysisSound
  <2>1. phase = "done"
    BY DEF FilterInv, TypeOK, NotStarted, Progress
  <2>2. packet.outbound \in BOOLEAN /\ packet.isipv4 \in BOOLEAN
    BY FilterAssumption DEF FilterInv, TypeOK, IsPacket
  <2>3. ASSUME NEW f, NEW n, Has(f, n) PROVE FilterTest(filter, f, n)
    <3>1. PICK T : IsTest(T, f, n) /\ FilterTest(filter, f, n) = T[0]
      BY <2>1, TestExists
    <3>2. T[0]
      BY <2>3, <3>1 DEF TestsSound
    <3> QED BY <3>1, <3>2
  <2>4. Has("ZERO", 0)
    BY DEF Has, Asked, Property, Zero, Number, Protocols
  <2>5. IF packet.outbound THEN Has("OUTBOUND", 1) /\ Has("INBOUND", 0)
                           ELSE Has("OUTBOUND", 0) /\ Has("INBOUND", 1)
    BY <2>2 DEF Has, Asked, Property, Number, Bit, Protocols
  <2>6. IF packet.isipv4 THEN Has("IP", 1) /\ Has("IPV6", 0)
                         ELSE Has("IP", 0) /\ Has("IPV6", 1)
    BY <2>2 DEF Has, Asked, Property, Number, Bit, Present, Protocols
  <2> QED BY <2>2, <2>3, <2>4, <2>5, <2>6 DEF Analyze
<1>2. InvUnlessRewritten /\ (rewritten \/ TestsSound) => AnalysisSound
  BY <1>1 DEF InvUnlessRewritten, AnalysisSound
<1> QED BY <1>2, FilterInvariance, AnalysisTestsSound, PTL

-----------------------------------------------------------------------------
(***************************************************************************)
(* The three fields on which the driver and the DLL are known to differ.   *)
(***************************************************************************)
Differing == {"IP_DF", "IP_MF", "IP_CHECKSUM"}

(***************************************************************************)
(* windivert_finalize_packet changes values, never which headers are       *)
(* there; the DLL finds all headers of a sound packet.                     *)
(***************************************************************************)
LEMMA FinalizeKeepsHeaders ==
  ASSUME NEW p, IsPacket(p), p.sound, p.strict
  PROVE  /\ Finalize(p).outbound = p.outbound
         /\ \A q : Present(Finalize(p), q) <=> Present(p, q)
         /\ \A q : EvalPresent(Finalize(p), q) <=> Present(p, q)
<1>1. /\ Finalize(p).outbound = p.outbound /\ Finalize(p).isipv4 = p.isipv4
      /\ Finalize(p).transport = p.transport /\ Finalize(p).sound = p.sound
      /\ Finalize(p).strict = p.strict
  BY DEF Finalize, IsPacket
<1>2. ASSUME NEW q PROVE Present(Finalize(p), q) <=> Present(p, q)
  BY <1>1 DEF Present
<1> QED BY <1>1, <1>2 DEF EvalPresent

(***************************************************************************)
(* A value of the packet that the application reads.                       *)
(***************************************************************************)
LEMMA FinalizedValue ==
  ASSUME NEW p, IsPacket(p), NEW f \in Fields \ Differing,
         f \notin FieldsOf.NONE \ {"IFIDX", "SUBIFIDX"}
  PROVE  Property(Finalize(p), f) = FieldValue(p, f)
<1> DEFINE v(r) == IF f \in DOMAIN r.value THEN r.value[f] ELSE Zero
<1>1. \A r : Property(r, f) = v(r)
  BY DEF Property, Protocols, FieldsOf
<1>2. f \notin Differing
  OBVIOUS
<1>3. CASE p.checksums = ChecksumFields /\ ~p.hop
  <2>1. Finalize(p) = p
    BY <1>3 DEF Finalize
  <2>2. FieldValue(p, f) = Property(p, f)
    BY <1>2, <1>3 DEF FieldValue, ChecksumFields, Differing
  <2> QED BY <2>1, <2>2
<1>4. CASE ~(p.checksums = ChecksumFields /\ ~p.hop)
  <2> DEFINE after(g) ==
        IF g \in {"IP_TTL", "IPV6_HOPLIMIT"} /\ p.hop /\ p.value[g] # Zero
          THEN Number(p.value[g][1] - 1)
        ELSE IF g \in ClearedTransport(p) \cup ClearedIP(p) THEN Zero
        ELSE p.value[g]
  <2>1. Finalize(p).value = [g \in DOMAIN p.value |-> after(g)]
    BY <1>4 DEF Finalize, IsPacket
  <2>2. v(Finalize(p)) = IF f \in DOMAIN p.value THEN after(f) ELSE Zero
    BY <2>1
  <2>3. f \in ClearedTransport(p) \cup ClearedIP(p)
          <=> f \in {"TCP_CHECKSUM", "UDP_CHECKSUM"} /\ f \notin p.checksums
    BY <1>2 DEF ClearedTransport, ClearedIP, Differing
  <2>4. FieldValue(p, f) =
          IF f \in {"IP_TTL", "IPV6_HOPLIMIT"} /\ p.hop /\ v(p) # Zero
            THEN Number(v(p)[1] - 1)
          ELSE IF f \in {"TCP_CHECKSUM", "UDP_CHECKSUM"} /\ f \notin p.checksums
            THEN Zero ELSE v(p)
    <3>1. Property(p, f) = v(p)
      BY <1>1
    <3> HIDE DEF v
    <3> QED BY <1>2, <3>1 DEF FieldValue, Differing
  <2> QED BY <1>1, <2>2, <2>3, <2>4
<1> QED BY <1>3, <1>4

(***************************************************************************)
(* The driver and the DLL agree on one test.                               *)
(***************************************************************************)
LEMMA PassesAgree ==
  ASSUME NEW p, IsPacket(p), p.sound, p.strict, NEW o,
         o.field \in Fields \ Differing, o.protocol = HeaderOf(o.field)
  PROVE  Passes(p, o) <=> EvalPasses(Finalize(p), o)
<1> DEFINE f == o.field
           q == Finalize(p)
<1>1. q.outbound = p.outbound
  BY FinalizeKeepsHeaders
<1>2. \A h : EvalPresent(q, h) <=> Present(p, h)
  BY FinalizeKeepsHeaders
<1> HIDE DEF q
<1>3. FieldValue(p, f) = EvalValue(q, f)
  <2>1. CASE f \in Protocols \ {"NONE"}
    <3>1. EvalValue(q, f) = Bit(Present(p, f))
      BY <1>2, <2>1 DEF EvalValue, Bit
    <3>2. FieldValue(p, f) = Bit(Present(p, f))
      BY <2>1 DEF FieldValue, Property, Protocols
    <3> QED BY <3>1, <3>2
  <2>2. CASE f \in {"ZERO", "INBOUND", "OUTBOUND"}
    BY <1>1, <2>2 DEF FieldValue, EvalValue, Property, Protocols
  <2>3. CASE f \notin (Protocols \ {"NONE"}) \cup {"ZERO", "INBOUND", "OUTBOUND"}
    <3>1. f \notin FieldsOf.NONE \ {"IFIDX", "SUBIFIDX"}
      BY <2>3 DEF FieldsOf, Protocols
    <3>2. Property(q, f) = FieldValue(p, f)
      BY <3>1, FinalizedValue DEF q
    <3> QED BY <2>3, <3>2 DEF EvalValue
  <2> QED BY <2>1, <2>2, <2>3
<1>4. Present(p, o.protocol) <=> EvalPresent(q, HeaderOf(f))
  BY <1>2
<1> QED BY <1>3, <1>4 DEF Passes, EvalPasses, q

(***************************************************************************)
(* windivert_filter_compile finds the header of every field it compiles.   *)
(***************************************************************************)
HeadersFound == \A k \in 1..Len(filter) : filter[k].protocol = HeaderOf(filter[k].field)

(***************************************************************************)
(* E is a result of WinDivertHelperEvalFilter on the finalized packet, by  *)
(* label.                                                                  *)
(***************************************************************************)
IsEval(E) ==
  /\ E \in [Labels -> BOOLEAN]
  /\ E[Accept] = TRUE /\ E[Reject] = FALSE
  /\ \A j \in 0..Len(filter) - 1 :
       E[j] = IF EvalPasses(Finalize(packet), filter[j + 1])
                THEN E[filter[j + 1].success] ELSE E[filter[j + 1].failure]

(***************************************************************************)
(* The driver follows the DLL's evaluation label by label.                 *)
(***************************************************************************)
Alike == packet.sound /\ packet.strict /\ TestsNone(Differing)

EvalsFollow == \A E : IsEval(E) /\ Alike /\ phase = "run" => E[ip] = E[0]
EvalsEnd ==
  \A E : IsEval(E) /\ Alike /\ phase = "done" => (verdict = "accept") = E[0]

EvalInv == HeadersFound /\ EvalsFollow /\ EvalsEnd

(***************************************************************************)
(* One turn of windivert_filter goes where the DLL's evaluation goes.      *)
(***************************************************************************)
LEMMA ExecuteEvaluates ==
  ASSUME FilterInv, HeadersFound, Execute, NEW E, IsEval(E), Alike
  PROVE  E[ip'] = E[ip]
<1> DEFINE o == At(ip)
<1>1. o \in Compiled /\ ip \in 0..Len(filter) - 1 /\ ip + 1 \in DOMAIN filter
  <2>1. ip \in Int /\ Len(filter) \in Int /\ DOMAIN filter = 1..Len(filter)
    BY FilterAssumption DEF FilterInv, TypeOK, Labels
  <2> QED BY <2>1, ExecuteJumps
<1>2. E[ip] = IF EvalPasses(Finalize(packet), o) THEN E[o.success] ELSE E[o.failure]
  BY <1>1 DEF IsEval, At
<1>3. ip' = IF Passes(packet, o) THEN o.success ELSE o.failure
  BY ExecuteJumps DEF Target
<1>4. IsPacket(packet)
  BY FilterAssumption DEF FilterInv, TypeOK
<1>5. o.field \in Fields \ Differing /\ o.protocol = HeaderOf(o.field)
  <2>1. o.field \in Fields
    BY <1>1 DEF Compiled, Copied
  <2>2. o.field \notin Differing
    BY <1>1 DEF Alike, TestsNone, At
  <2>3. ip + 1 \in 1..Len(filter)
    BY ExecuteJumps
  <2>4. o.protocol = HeaderOf(o.field)
    BY <2>3 DEF HeadersFound, At
  <2> QED BY <2>1, <2>2, <2>4
<1>6. Passes(packet, o) <=> EvalPasses(Finalize(packet), o)
  BY <1>4, <1>5, PassesAgree DEF Alike
<1> HIDE DEF o
<1> QED BY <1>2, <1>3, <1>6

(***************************************************************************)
(* Compiling an instruction keeps the agreement: nothing has run yet.      *)
(***************************************************************************)
LEMMA CompileEvaluates ==
  ASSUME FilterInv, EvalInv, NEW o, NEW c, NEW d, CompileOne(o, c, d), ~rewritten'
  PROVE  EvalInv'
<1>1. phase' \in {"compile", "invalid"}
  BY DEF CompileOne
<1>2. HeadersFound'
  <2>1. CASE UNCHANGED filter
    BY <2>1 DEF EvalInv, HeadersFound
  <2>2. ASSUME NEW e, e.protocol = HeaderOf(e.field), filter' = Append(filter, e)
        PROVE  HeadersFound'
    <3>1. filter \in Seq(Compiled) /\ Len(filter) \in Nat
      BY DEF FilterInv, TypeOK
    <3>2. Len(filter') = Len(filter) + 1
      BY <2>2, <3>1
    <3>3. ASSUME NEW k \in 1..Len(filter')
          PROVE  filter'[k].protocol = HeaderOf(filter'[k].field)
      <4>1. CASE k = Len(filter) + 1
        <5>1. filter'[k] = e
          BY <2>2, <3>1, <4>1
        <5> QED BY <2>2, <5>1
      <4>2. CASE k # Len(filter) + 1
        <5>1. k \in 1..Len(filter)
          BY <3>1, <3>2, <3>3, <4>2
        <5>2. filter'[k] = filter[k]
          BY <2>2, <3>1, <5>1
        <5> QED BY <5>1, <5>2 DEF EvalInv, HeadersFound
      <4> QED BY <4>1, <4>2
    <3> QED BY <3>3 DEF HeadersFound
  <2>3. Instruction(o, o).protocol = HeaderOf(Instruction(o, o).field)
    BY DEF Instruction, Protocol
  <2>4. UNCHANGED filter \/ filter' = Append(filter, Instruction(o, o))
    BY DEF CompileOne
  <2> QED BY <2>1, <2>2, <2>3, <2>4
<1> QED BY <1>1, <1>2 DEF EvalInv, EvalsFollow, EvalsEnd

(***************************************************************************)
(* Every step keeps the agreement.                                         *)
(***************************************************************************)
LEMMA NextEvalInv == FilterInv /\ FilterInv' /\ EvalInv /\ [Next]_vars => EvalInv'
<1> SUFFICES ASSUME FilterInv, FilterInv', EvalInv, [Next]_vars PROVE EvalInv'
  OBVIOUS
<1>1. CASE Execute
  <2>1. UNCHANGED <<filter, packet>> /\ phase = "run" /\ phase' \in {"run", "done"}
    BY <1>1 DEF Execute
  <2>2. ASSUME NEW E PROVE (IsEval(E)' <=> IsEval(E)) /\ (Alike' <=> Alike)
    BY <2>1 DEF IsEval, Alike, TestsNone
  <2>3. ASSUME NEW E, IsEval(E), Alike PROVE E[ip'] = E[0]
    BY <1>1, <2>1, <2>3, ExecuteEvaluates DEF EvalInv, EvalsFollow
  <2>4. HeadersFound' /\ EvalsFollow'
    BY <2>1, <2>2, <2>3 DEF EvalInv, HeadersFound, EvalsFollow
  <2>5. EvalsEnd'
    <3> SUFFICES ASSUME NEW E, IsEval(E)', Alike', phase' = "done"
                 PROVE  (verdict' = "accept") = E[0]
      BY DEF EvalsEnd
    <3>1. IsEval(E) /\ Alike
      BY <2>2
    <3>2. \/ verdict' = "accept" /\ ip' = Accept
          \/ verdict' = "reject" /\ ip' = Reject
      BY <1>1 DEF Execute, Verdict, FilterInv, NeverExpires
    <3>3. E[ip'] = (verdict' = "accept")
      BY <3>1, <3>2 DEF IsEval
    <3> QED BY <2>3, <3>1, <3>3
  <2> QED BY <2>4, <2>5 DEF EvalInv
<1>2. ASSUME NEW o, NEW c, NEW d, CompileOne(o, c, d) PROVE EvalInv'
  BY <1>2, CompileEvaluates DEF FilterInv
<1>3. CASE Refuse \/ CompileDone
  BY <1>3 DEF EvalInv, HeadersFound, EvalsFollow, EvalsEnd, Refuse, CompileDone
<1>4. CASE Parse
  <2>1. /\ UNCHANGED <<filter, packet>> /\ ip' = 0
        /\ phase' = "run" \/ (phase' = "done" /\ ~packet.sound)
    BY <1>4 DEF Parse, FilterInv, NotStarted
  <2> QED BY <2>1 DEF EvalInv, HeadersFound, EvalsFollow, EvalsEnd, Alike
<1>5. CASE Terminated \/ UNCHANGED vars
  <2>1. UNCHANGED vars
    BY <1>5 DEF Terminated
  <2> QED BY <2>1 DEF EvalInv, HeadersFound, EvalsFollow, EvalsEnd, IsEval,
       Alike, TestsNone, vars
<1> QED BY <1>1, <1>2, <1>3, <1>4, <1>5 DEF Next

(***************************************************************************)
(* The equations of WinDivertHelperEvalFilter have a solution, and         *)
(* EvalFilter is its answer for the first instruction.                     *)
(***************************************************************************)
LEMMA EvalExists ==
  ASSUME FilterInv, phase = "done"
  PROVE  \E E : IsEval(E) /\ EvalFilter(filter, Finalize(packet)) = E[0]
<1> DEFINE passes(o) == EvalPasses(Finalize(packet), o)
           next(o) == IF passes(o) THEN o.success ELSE o.failure
           G == [j \in Labels |-> IF j < Len(filter) THEN {next(filter[j + 1])} ELSE {}]
<1>1. /\ MaxLen \in Nat /\ Len(filter) \in Nat /\ Len(filter) < MaxLen
      /\ 0 \in Labels /\ Labels = 0..Reject
      /\ Accept \in Labels /\ Reject \in Labels /\ Accept # Reject
      /\ ~(Accept < Len(filter)) /\ ~(Reject < Len(filter))
  BY FilterAssumption DEF FilterInv, TypeOK, WholeProgram, Labels, Accept, Reject
<1>2. ASSUME NEW j \in Labels, j < Len(filter)
      PROVE  /\ j \in 0..Len(filter) - 1 /\ j # Accept
             /\ filter[j + 1].success \in Labels /\ filter[j + 1].failure \in Labels
  <2>1. j \in 0..Len(filter) - 1 /\ j # Accept
    BY <1>1, <1>2 DEF Labels
  <2>2. filter[j + 1] \in Compiled
    BY <2>1, Continuations
  <2> QED BY <2>1, <2>2 DEF Compiled, Copied
<1>3. 0..Len(filter) - 1 \subseteq {j \in Labels : j < Len(filter)}
  BY <1>1 DEF Labels, Reject
<1> HIDE DEF passes
<1>4. G \in [Labels -> SUBSET Labels]
  <2>1. ASSUME NEW j \in Labels PROVE G[j] \subseteq Labels
    BY <1>2
  <2> QED BY <2>1
<1>5. PICK T \in [Labels -> BOOLEAN] :
        \A j \in Labels : T[j] <=> (j = Accept \/ \E k \in G[j] : T[k])
  <2> HIDE DEF G
  <2>1. \A A : \A b \in A : \A H \in [A -> SUBSET A] :
          \E T \in [A -> BOOLEAN] :
            \A j \in A : T[j] <=> (j = b \/ \E k \in H[j] : T[k])
    BY Reachable
  <2>2. \A b \in Labels : \A H \in [Labels -> SUBSET Labels] :
          \E T \in [Labels -> BOOLEAN] :
            \A j \in Labels : T[j] <=> (j = b \/ \E k \in H[j] : T[k])
    BY <2>1
  <2>3. \A H \in [Labels -> SUBSET Labels] :
          \E T \in [Labels -> BOOLEAN] :
            \A j \in Labels : T[j] <=> (j = Accept \/ \E k \in H[j] : T[k])
    BY <1>1, <2>2
  <2> QED BY <1>4, <2>3
<1> DEFINE Step(S, j) ==
             \/ j = Accept
             \/ /\ j < Len(filter)
                /\ IF passes(filter[j + 1]) THEN S[filter[j + 1].success]
                                            ELSE S[filter[j + 1].failure]
           Solves(S) == S = [j \in Labels |-> Step(S, j)]
<1>6. Solves(T)
  <2>1. ASSUME NEW j \in Labels PROVE T[j] = Step(T, j)
    <3>1. T[j] \in BOOLEAN /\ (T[j] <=> (j = Accept \/ \E k \in G[j] : T[k]))
      <4> HIDE DEF G
      <4> QED BY <1>5
    <3>2. CASE j < Len(filter)
      <4>1. G[j] = {next(filter[j + 1])}
        BY <3>2
      <4>2. T[j] <=> (j = Accept \/ T[next(filter[j + 1])])
        BY <3>1, <4>1
      <4> HIDE DEF G
      <4> QED BY <3>1, <3>2, <4>2
    <3>3. CASE ~(j < Len(filter))
      <4>1. G[j] = {}
        BY <3>3
      <4> HIDE DEF G
      <4> QED BY <3>1, <3>3, <4>1
    <3> QED BY <3>2, <3>3
  <2>2. T = [j \in Labels |-> T[j]]
    OBVIOUS
  <2> HIDE DEF Step
  <2> QED BY <2>1, <2>2
<1>7. PICK S : Solves(S) /\ EvalFilter(filter, Finalize(packet)) = S[0]
  <2> HIDE DEF Solves
  <2>1. Solves(CHOOSE S : Solves(S))
    BY <1>6
  <2>2. EvalFilter(filter, Finalize(packet)) = (CHOOSE S : Solves(S))[0]
    BY DEF EvalFilter, Solves, passes
  <2> QED BY <2>1, <2>2
<1>8. IsEval(S)
  <2>1. ASSUME NEW j \in Labels PROVE S[j] = Step(S, j)
    <3> HIDE DEF Step
    <3> QED BY <1>7
  <2>2. S \in [Labels -> BOOLEAN]
    <3>1. ASSUME NEW j \in Labels PROVE S[j] \in BOOLEAN
      BY <2>1
    <3> HIDE DEF Step
    <3> QED BY <1>7, <3>1
  <2>3. S[Accept] = TRUE /\ S[Reject] = FALSE
    BY <1>1, <2>1
  <2>4. ASSUME NEW j \in 0..Len(filter) - 1
        PROVE  S[j] = IF passes(filter[j + 1]) THEN S[filter[j + 1].success]
                                               ELSE S[filter[j + 1].failure]
    <3>1. j \in Labels /\ j < Len(filter)
      BY <1>3
    <3>2. /\ j # Accept /\ S[filter[j + 1].success] \in BOOLEAN
          /\ S[filter[j + 1].failure] \in BOOLEAN
      BY <1>2, <2>2, <3>1
    <3> QED BY <2>1, <3>1, <3>2
  <2> QED BY <2>2, <2>3, <2>4 DEF IsEval, passes
<1> QED BY <1>7, <1>8

(***************************************************************************)
(* What is diverted is what the application sees match: for a packet with  *)
(* sound headers and a program that tests none of the three fields, the    *)
(* driver's verdict is that of the DLL on the finalized packet.            *)
(***************************************************************************)
THEOREM EvalAgreesHolds == Spec => []EvalAgrees
<1> DEFINE EvalUnlessRewritten == rewritten \/ EvalInv
<1>1. Init => EvalUnlessRewritten
  BY DEF Init, EvalInv, HeadersFound, EvalsFollow, EvalsEnd
<1>2. FilterInv /\ EvalInv => EvalAgrees
  <2> SUFFICES ASSUME FilterInv, EvalInv, Comparable, TestsNone(Differing)
               PROVE  Agree
    BY DEF EvalAgrees, Differing
  <2>1. PICK E : IsEval(E) /\ EvalFilter(filter, Finalize(packet)) = E[0]
    BY EvalExists DEF Comparable
  <2> QED BY <2>1 DEF EvalInv, EvalsEnd, Alike, Comparable, Agree
<1>3. InvUnlessRewritten /\ EvalUnlessRewritten => EvalAgrees
  BY <1>2 DEF InvUnlessRewritten, EvalAgrees, Comparable
<1>4. /\ InvUnlessRewritten /\ InvUnlessRewritten'
      /\ EvalUnlessRewritten /\ [Next]_vars
      => EvalUnlessRewritten'
  BY NextEvalInv, RewrittenStays DEF InvUnlessRewritten
<1> HIDE DEF EvalUnlessRewritten
<1> QED BY <1>1, <1>3, <1>4, FilterInvariance, PTL DEF Spec
=============================================================================
