------------------------------ MODULE FilterVM ------------------------------
(***************************************************************************)
(* The driver's packet filter: windivert_filter_compile checks and copies  *)
(* the program an application sends with START_FILTER,                     *)
(* windivert_filter_analyze finds out which traffic the program can accept *)
(* (callouts are installed for that traffic only), and windivert_filter    *)
(* runs it on a packet.  WinDivertHelperEvalFilter of the DLL runs the     *)
(* same programs in user mode.                                             *)
(***************************************************************************)
EXTENDS FilterProgram

CONSTANTS
  Offers,      \* the field, test and arg of instructions an application sends
  Rewrites,    \* instructions it may write into the buffer while it is compiled
  Packets      \* packets indicated to the handle

(***************************************************************************)
(* An application sends numbers, and a packet has them.                    *)
(***************************************************************************)
IsPacket(p) ==
  /\ p = [sound |-> p.sound, strict |-> p.strict, outbound |-> p.outbound,
          isipv4 |-> p.isipv4, transport |-> p.transport, hop |-> p.hop,
          checksums |-> p.checksums, value |-> p.value]
  /\ p.outbound \in BOOLEAN /\ p.isipv4 \in BOOLEAN /\ p.hop \in BOOLEAN
  /\ p.checksums \subseteq ChecksumFields
  /\ p.value \in [DOMAIN p.value -> Words]

ASSUME FilterAssumption ==
  /\ MaxLen \in Nat \ {0}
  /\ \A o \in Offers : o.arg \in Words
  /\ \A r \in Rewrites :
       r.arg \in Words /\ r.success \in Labels /\ r.failure \in Labels
  /\ \A p \in Packets : IsPacket(p)

VARIABLES
  phase,       \* "compile", "invalid", "ready", "run" or "done"
  length,      \* of the program the application sent
  filter,      \* the instructions compiled so far
  rewritten,   \* some of them were copied otherwise than they were checked
  packet,      \* the packet being filtered
  ip, ttl,     \* locals of windivert_filter
  verdict      \* its result: "accept", "reject", or "expired" (ttl)

vars == <<phase, length, filter, rewritten, packet, ip, ttl, verdict>>

(***************************************************************************)
(* The step counter of windivert_filter ("additional safety").  (Mutant:   *)
(* one turn per instruction but the last.)                                 *)
(***************************************************************************)
TtlShort == length - 1
Ttl == MaxLen + 1

Init ==
  /\ phase = "compile" /\ length \in 1..MaxLen /\ filter = <<>>
  /\ rewritten = FALSE /\ packet \in Packets
  /\ ip = 0 /\ ttl = Ttl /\ verdict = "none"

-----------------------------------------------------------------------------
(***************************************************************************)
(* windivert_filter_compile.  It also gives up when a buffer for the       *)
(* program cannot be allocated, before or after the loop, or the size of   *)
(* the request is not that of a whole number of instructions.              *)
(***************************************************************************)
TooLong == length >= MaxLen

Refuse ==
  /\ phase = "compile"
  /\ TooLong \/ filter = <<>> \/ Len(filter) = length
  /\ phase' = "invalid"
  /\ UNCHANGED <<length, filter, rewritten, packet, ip, ttl, verdict>>

(***************************************************************************)
(* One turn of its loop.  The instruction is in a buffer of the            *)
(* application (METHOD_IN_DIRECT), which may write to it at any time: the  *)
(* driver checks what it reads (o), reads it again to copy it (c), and     *)
(* once more to select the protocol (d).                                   *)
(***************************************************************************)
Instruction(c, d) ==
  [field |-> c.field, test |-> c.test, arg |-> c.arg, success |-> c.success,
   failure |-> c.failure, protocol |-> Protocol(d.field)]

CompileOne(o, c, d) ==
  /\ phase = "compile" /\ ~TooLong /\ Len(filter) < length
  /\ \/ /\ ~Valid(o, Len(filter), length) \/ d.field \notin Fields
        /\ phase' = "invalid"
        /\ UNCHANGED <<filter, rewritten>>
     \/ /\ Valid(o, Len(filter), length) /\ d.field \in Fields
        /\ filter' = Append(filter, Instruction(c, d))
        /\ rewritten' = (rewritten \/ Instruction(c, d) # Instruction(o, o))
        /\ UNCHANGED phase
  /\ UNCHANGED <<length, packet, ip, ttl, verdict>>

CompileDone ==
  /\ phase = "compile" /\ ~TooLong /\ Len(filter) = length
  /\ phase' = "ready"
  /\ UNCHANGED <<length, filter, rewritten, packet, ip, ttl, verdict>>

-----------------------------------------------------------------------------
(***************************************************************************)
(* windivert_filter: a packet whose IP header is not sound is rejected.    *)
(***************************************************************************)
Parse ==
  /\ phase = "ready"
  /\ \/ ~packet.sound /\ verdict' = "reject" /\ phase' = "done"
     \/ packet.sound /\ phase' = "run" /\ UNCHANGED verdict
  /\ UNCHANGED <<length, filter, rewritten, packet, ip, ttl>>

(***************************************************************************)
(* One turn of its loop.  A test on a missing header fails.  Outside the   *)
(* program, it takes for instructions whatever is in the memory, and comes *)
(* to either verdict (after how many turns makes no difference here).      *)
(***************************************************************************)
At(j) == filter[j + 1]

Verdict(j, left) ==
  IF j = Accept THEN "accept"
  ELSE IF j = Reject THEN "reject"
  ELSE IF left = 0 THEN "expired" ELSE "none"

Execute ==
  /\ phase = "run"
  /\ ip' \in IF ip < Len(filter) THEN {Target(packet, At(ip))}
                               ELSE {Accept, Reject}
  /\ ttl' = ttl - 1
  /\ verdict' = Verdict(ip', ttl')
  /\ phase' = IF verdict' = "none" THEN "run" ELSE "done"
  /\ UNCHANGED <<length, filter, rewritten, packet>>

Terminated == phase \in {"invalid", "done"} /\ UNCHANGED vars

-----------------------------------------------------------------------------
Instructions ==
  {[field |-> o.field, test |-> o.test, arg |-> o.arg,
    success |-> s, failure |-> f] : o \in Offers, s \in Labels, f \in Labels}

Next ==
  \/ Refuse \/ CompileDone
  \/ \E o \in Instructions : \E c, d \in {o} \cup Rewrites : CompileOne(o, c, d)
  \/ Parse \/ Execute \/ Terminated

Spec == Init /\ [][Next]_vars

-----------------------------------------------------------------------------
(***************************************************************************)
(* Types of all variables.                                                 *)
(***************************************************************************)
Copied(fields, tests) ==
  [field : fields, test : tests, arg : Words, success : Labels,
   failure : Labels, protocol : Protocols]

Compiled == Copied(Fields, Tests)
Readable == Copied(Fields \cup {r.field : r \in Rewrites},
                   Tests \cup {r.test : r \in Rewrites})

TypeOK ==
  /\ phase \in {"compile", "invalid", "ready", "run", "done"}
  /\ length \in 1..MaxLen
  /\ filter \in Seq(Readable) /\ Len(filter) <= length
  /\ rewritten \in BOOLEAN /\ (~rewritten => filter \in Seq(Compiled))
  /\ packet \in Packets
  /\ ip \in Labels /\ ttl \in 0..MaxLen + 1
  /\ verdict \in {"none", "accept", "reject", "expired"}

(***************************************************************************)
(* windivert_filter has no bounds check: the program must never make it    *)
(* read an instruction outside the program.                                *)
(***************************************************************************)
InBounds == phase = "run" => ip < Len(filter)

(***************************************************************************)
(* Every evaluation ends with a verdict of the program.  The counter in    *)
(* windivert_filter, which its comment calls additional safety, is never   *)
(* what ends it.                                                           *)
(***************************************************************************)
NeverExpires == verdict # "expired"

(***************************************************************************)
(* So the length of the program, the limits of its jumps and the counter   *)
(* of windivert_filter fit together, for every program of which the driver *)
(* copied what it had checked.  It is not so for one that the application  *)
(* changed in between: nothing looks at the copy again.                    *)
(***************************************************************************)
EvaluationSafe == rewritten \/ (InBounds /\ NeverExpires)

(***************************************************************************)
(* The analysis is sound.  Callouts are installed only for the directions  *)
(* and IP versions that windivert_filter_analyze finds, so a packet that   *)
(* the program accepts must belong to them.  (The analysis follows the     *)
(* labels as the checks leave them, with no limit of its own, so this too  *)
(* is about programs not changed after they were checked.)                 *)
(***************************************************************************)
AnalysisSound ==
  verdict = "accept" /\ ~rewritten =>
    LET a == Analyze(filter) IN
    /\ IF packet.outbound THEN a.outbound ELSE a.inbound
    /\ IF packet.isipv4 THEN a.ipv4 ELSE a.ipv6

(***************************************************************************)
(* What is diverted is what the application sees match.  The driver's      *)
(* verdict, reached with another driver's hop counted off and with absent  *)
(* checksums as zero, is the one of the DLL's evaluator on the packet that *)
(* windivert_finalize_packet hands to the application, whichever fields    *)
(* the program tests, except for DF, MF and the IPv4 checksum.             *)
(***************************************************************************)
Comparable == phase = "done" /\ ~rewritten /\ packet.sound /\ packet.strict
Agree == (verdict = "accept") = EvalFilter(filter, Finalize(packet))
TestsNone(fields) == \A j \in DOMAIN filter : filter[j].field \notin fields

EvalAgrees ==
  Comparable /\ TestsNone({"IP_DF", "IP_MF", "IP_CHECKSUM"}) => Agree

(***************************************************************************)
(* The documentation of WinDivertHelperEvalFilter: TRUE iff the packet     *)
(* matches the filter, whatever its flags.                                 *)
(***************************************************************************)
EvalTellsMatch == Comparable /\ TestsNone({"IP_CHECKSUM"}) => Agree

(***************************************************************************)
(* The release notes: absent checksum fields of a packet that the          *)
(* application reads are zero.                                             *)
(***************************************************************************)
AbsentChecksumsZero ==
  verdict = "accept" =>
    \A f \in ChecksumFields \ packet.checksums :
      Present(packet, HeaderOf(f)) => Property(Finalize(packet), f) = Zero
=============================================================================
