------------------------ MODULE FilterCompilerProofs ------------------------
(***************************************************************************)
(* Theorems about the filter compiler of the DLL and what the driver does  *)
(* with its programs, for every filter string.                             *)
(***************************************************************************)
EXTENDS FilterPipeline, FilterVMProofs, TLAPS, WellFoundedInduction

-----------------------------------------------------------------------------
(***************************************************************************)
(* A set of natural numbers has a least element: what holds of all depths, *)
(* rounds or places is proved by looking at the first exception.           *)
(***************************************************************************)
LEMMA LeastNumber ==
  ASSUME NEW T, T \subseteq Nat, T # {}
  PROVE  \E x \in T : \A y \in T : x <= y
<1> DEFINE R == {ss \in Nat \X Nat : ss[1] < ss[2]}
<1>1. IsWellFoundedOn(R, Nat)
  <2>1. R = OpToRel(<, Nat)
    BY DEF OpToRel
  <2> QED BY <2>1, NatLessThanWellFounded, Zenon
<1>2. \A y, x \in Nat : <<y, x>> \in R <=> y < x
  OBVIOUS
<1> HIDE DEF R
<1>3. PICK x \in T : \A y \in T : ~ (<<y, x>> \in R)
  BY <1>1, WFMin
<1>4. x \in Nat /\ \A y \in T : y \in Nat /\ ~(y < x)
  BY <1>2, <1>3
<1>5. \A y \in T : x <= y
  BY <1>4
<1> QED BY <1>5

(***************************************************************************)
(* Induction up to N, for a set S of numbers.                              *)
(***************************************************************************)
LEMMA InductionUpTo ==
  ASSUME NEW N \in Nat, NEW S, 0 \in S,
         \A n \in 1..N : n - 1 \in S => n \in S
  PROVE  \A n \in 0..N : n \in S
<1> DEFINE T == (0..N) \ S
<1>1. T \subseteq Nat
  OBVIOUS
<1>2. ASSUME T # {} PROVE FALSE
  <2> HIDE DEF T
  <2>1. PICK x \in T : \A y \in T : x <= y
    BY <1>1, <1>2, LeastNumber
  <2>2. x \in 0..N /\ x \notin S
    BY DEF T
  <2>3. x # 0
    BY <2>2
  <2>4. x \in 1..N /\ x - 1 \in 0..N /\ ~(x <= x - 1)
    BY <2>2, <2>3
  <2>5. x - 1 \in S
    BY <2>1, <2>4 DEF T
  <2> QED BY <2>2, <2>4, <2>5
<1> QED BY <1>2

(***************************************************************************)
(* Course-of-values induction up to N.                                     *)
(***************************************************************************)
LEMMA StrongInductionUpTo ==
  ASSUME NEW N \in Nat, NEW S,
         \A n \in 0..N : (\A m \in 0..n - 1 : m \in S) => n \in S
  PROVE  \A n \in 0..N : n \in S
<1> DEFINE T == (0..N) \ S
<1>1. T \subseteq Nat
  OBVIOUS
<1>2. ASSUME T # {} PROVE FALSE
  <2> HIDE DEF T
  <2>1. PICK x \in T : \A y \in T : x <= y
    BY <1>1, <1>2, LeastNumber
  <2>2. x \in 0..N /\ x \notin S
    BY DEF T
  <2>3. ASSUME NEW m \in 0..x - 1 PROVE m \in S
    <3>1. m \in 0..N /\ ~(x <= m)
      BY <2>2
    <3> QED BY <2>1, <3>1 DEF T
  <2> QED BY <2>2, <2>3
<1> QED BY <1>2


-----------------------------------------------------------------------------
(***************************************************************************)
(* What the tokenizer hands to the parser.                                 *)
(***************************************************************************)
IsTokens(toks) ==
  /\ toks \in Seq(Lexemes \cup {End}) /\ Len(toks) \in 1..PoolMax
  /\ toks[Len(toks)].kind = "END"

(***************************************************************************)
(* An expression is not the number in a test.                              *)
(***************************************************************************)
IsExpr(pool, k) == k \in 1..Len(pool) /\ pool[k].kind # "NUMBER"

(***************************************************************************)
(* The arguments of an expression were made before it; the condition of a  *)
(* conditional may be missing.                                             *)
(***************************************************************************)
ArgsMade(pool, k) ==
  LET e == pool[k] IN
  /\ e.kind \in {"AND", "OR"} =>
       /\ e.arg[1] \in 1..k - 1 /\ e.arg[2] \in 1..k - 1
       /\ IsExpr(pool, e.arg[1]) /\ IsExpr(pool, e.arg[2])
  /\ e.kind = "QUESTION" =>
       /\ e.arg[1] \in 0..k - 1 /\ e.arg[2] \in 1..k - 1 /\ e.arg[3] \in 1..k - 1
       /\ e.arg[1] = Null \/ IsExpr(pool, e.arg[1])
       /\ IsExpr(pool, e.arg[2]) /\ IsExpr(pool, e.arg[3])

IsPool(pool) == pool \in Seq(Exprs) /\ \A k \in 1..Len(pool) : ArgsMade(pool, k)

(***************************************************************************)
(* The states of the parser.  It has taken a token for every EXPR.         *)
(***************************************************************************)
Sound(toks, st) ==
  /\ st \in States /\ IsPool(st.pool)
  /\ st.i \in 1..Len(toks) /\ Len(st.pool) <= st.i - 1
  /\ st.expr = Null \/ IsExpr(st.pool, st.expr)
  /\ st.error.code # "NO_MEMORY"

(***************************************************************************)
(* What a call does to the state: it takes tokens, and adds not more EXPRs *)
(* than these.                                                             *)
(***************************************************************************)
Grows(st, r) ==
  /\ Len(st.pool) <= Len(r.pool) /\ st.i <= r.i
  /\ Len(r.pool) - Len(st.pool) <= r.i - st.i
  /\ \A k \in 1..Len(st.pool) : r.pool[k] = st.pool[k]

(***************************************************************************)
(* A call that returns no expression has set an error.                     *)
(***************************************************************************)
Tells(r) == r.expr = Null => r.error.code # "NONE"

(***************************************************************************)
(* Calls that are right.                                                   *)
(***************************************************************************)
Returns(toks, st, r) == Sound(toks, r) /\ Grows(st, r) /\ Tells(r)

IsParse(toks, parse) ==
  \A call \in Calls, st \in States :
    Sound(toks, st) => Returns(toks, st, parse[call][st])

(***************************************************************************)
(* Assumptions on the limits, in the form the proofs use them.             *)
(***************************************************************************)
LEMMA Limits ==
  /\ TokensMax \in Nat /\ PoolMax \in Nat /\ MaxDepth \in Nat /\ WordMax \in Nat
  /\ PoolMax = TokensMax - 1 /\ MaxLen \in Nat \ {0}
BY CompilerAssumption, FilterAssumption

(***************************************************************************)
(* Growing is transitive, and keeps expressions.                           *)
(***************************************************************************)
LEMMA GrowsOn ==
  ASSUME NEW a \in States, NEW b \in States, NEW c \in States,
         Grows(a, b), Grows(b, c)
  PROVE  Grows(a, c)
<1>1. /\ Len(a.pool) \in Nat /\ Len(b.pool) \in Nat /\ Len(c.pool) \in Nat
      /\ a.i \in Nat /\ b.i \in Nat /\ c.i \in Nat
  BY DEF States
<1>2. /\ Len(a.pool) <= Len(c.pool) /\ a.i <= c.i
      /\ Len(c.pool) - Len(a.pool) <= c.i - a.i
  <2> DEFINE la == Len(a.pool)  lb == Len(b.pool)  lc == Len(c.pool)
             ia == a.i  ib == b.i  ic == c.i
  <2>1. /\ la <= lb /\ ia <= ib /\ lb - la <= ib - ia
        /\ lb <= lc /\ ib <= ic /\ lc - lb <= ic - ib
    BY DEF Grows
  <2>2. la \in Nat /\ lb \in Nat /\ lc \in Nat /\ ia \in Nat /\ ib \in Nat /\ ic \in Nat
    BY <1>1
  <2> HIDE DEF la, lb, lc, ia, ib, ic
  <2>3. la <= lc /\ ia <= ic /\ lc - la <= ic - ia
    BY <2>1, <2>2
  <2> QED BY <2>3 DEF la, lc, ia, ic
<1>3. ASSUME NEW k \in 1..Len(a.pool) PROVE c.pool[k] = a.pool[k]
  <2>1. k \in 1..Len(b.pool)
    BY <1>1 DEF Grows
  <2> QED BY <2>1 DEF Grows
<1> QED BY <1>2, <1>3 DEF Grows

(***************************************************************************)
(* A place of the pool keeps its expression while the parser goes on:      *)
(* WinDivertAlloc only adds.                                               *)
(***************************************************************************)
LEMMA KeepsExpr ==
  ASSUME NEW a \in States, NEW b \in States, Grows(a, b), NEW k, IsExpr(a.pool, k)
  PROVE  IsExpr(b.pool, k)
<1>1. Len(a.pool) \in Nat /\ Len(b.pool) \in Nat
  BY DEF States
<1> QED BY <1>1 DEF Grows, IsExpr

(***************************************************************************)
(* Failing keeps a state sound, and so does going past a token that is not *)
(* the last.                                                               *)
(***************************************************************************)
LEMMA FailSound ==
  ASSUME NEW toks, Len(toks) \in Nat, NEW st, Sound(toks, st),
         NEW code \in Codes, code # "NO_MEMORY", code # "NONE"
  PROVE  Returns(toks, st, Fail(st, code))
<1>1. st \in States
  BY DEF Sound
<1>2. /\ Fail(st, code) \in States
      /\ Fail(st, code).i = st.i /\ Fail(st, code).pool = st.pool
      /\ Fail(st, code).expr = Null /\ Fail(st, code).error.code = code
  BY <1>1 DEF Fail, States, Error, Null
<1>3. st.i \in Nat /\ Len(st.pool) \in Nat
  BY <1>1 DEF States
<1> QED BY <1>2, <1>3 DEF Returns, Tells, Sound, Grows

(***************************************************************************)
(* Moving the parser to a later token keeps its state sound.               *)
(***************************************************************************)
LEMMA MoveSound ==
  ASSUME NEW toks, Len(toks) \in Nat, NEW st, Sound(toks, st), NEW n \in st.i..Len(toks)
  PROVE  LET r == [st EXCEPT !.i = n]
         IN Sound(toks, r) /\ Grows(st, r) /\ r.pool = st.pool /\ r.i = n /\ r.expr = st.expr
<1> DEFINE r == [st EXCEPT !.i = n]
<1>1. st \in States /\ st.i \in 1..Len(toks)
  BY DEF Sound
<1>2. st.i \in Nat /\ Len(st.pool) \in Nat /\ n \in Nat /\ st.i <= n
  BY <1>1 DEF States
<1>3. /\ r \in States /\ r.i = n /\ r.pool = st.pool /\ r.expr = st.expr
      /\ r.error = st.error
  BY <1>1, <1>2 DEF States
<1> HIDE DEF r
<1>4. Sound(toks, r) /\ Grows(st, r)
  BY <1>2, <1>3 DEF Sound, Grows
<1> QED BY <1>3, <1>4 DEF r

(***************************************************************************)
(* Skipping the current token, which is not the last one, keeps the state  *)
(* sound and the pool, the expression and the error as they are.           *)
(***************************************************************************)
LEMMA SkipSound ==
  ASSUME NEW toks, IsTokens(toks), NEW st, Sound(toks, st), toks[st.i].kind # "END"
  PROVE  /\ Sound(toks, Skip(st)) /\ Grows(st, Skip(st)) /\ Skip(st).pool = st.pool
         /\ Skip(st).i = st.i + 1 /\ Skip(st).expr = st.expr /\ Skip(st).error = st.error
<1>1. Len(toks) \in Nat /\ st.i \in 1..Len(toks) /\ st.i # Len(toks) /\ st \in States
  BY DEF IsTokens, Sound
<1>2. st.i + 1 \in st.i..Len(toks) /\ Skip(st) = [st EXCEPT !.i = st.i + 1]
  BY <1>1 DEF Skip, States
<1>3. Skip(st).error = st.error
  BY <1>1 DEF Skip, States
<1> QED BY <1>1, <1>2, <1>3, MoveSound


(***************************************************************************)
(* The pool is not exhausted: a new EXPR finds its place if the parser has *)
(* gone past one more token than there are EXPRs.                          *)
(***************************************************************************)
LEMMA AllocSound ==
  ASSUME NEW toks, IsTokens(toks), NEW st, Sound(toks, st),
         Len(st.pool) + 1 <= st.i - 1, NEW e \in Exprs,
         ArgsMade(Append(st.pool, e), Len(st.pool) + 1)
  PROVE  LET r == Alloc(st, e) IN
         /\ r \in States /\ IsPool(r.pool) /\ r.i = st.i /\ r.error = st.error
         /\ r.expr = Len(st.pool) + 1 /\ Len(r.pool) = Len(st.pool) + 1
         /\ r.pool = Append(st.pool, e)
         /\ \A k \in 1..Len(st.pool) : r.pool[k] = st.pool[k]
         /\ e.kind # "NUMBER" => Sound(toks, r)
<1> DEFINE r == Alloc(st, e)
           n == Len(st.pool)
<1>1. /\ st \in States /\ st.pool \in Seq(Exprs) /\ n \in Nat /\ st.i \in Nat
      /\ st.i <= Len(toks) /\ Len(toks) \in 1..PoolMax
  BY DEF Sound, States, IsTokens
<1>2. ~(Len(st.pool) >= PoolMax)
  BY <1>1, Limits
<1>3. /\ r = [st EXCEPT !.expr = n + 1, !.pool = Append(st.pool, e)]
  BY <1>1, <1>2 DEF Alloc, States
<1>4. /\ Append(st.pool, e) \in Seq(Exprs) /\ Len(Append(st.pool, e)) = n + 1
      /\ Append(st.pool, e)[n + 1] = e
      /\ \A k \in 1..n : Append(st.pool, e)[k] = st.pool[k]
  BY <1>1
<1>5. /\ r \in States /\ r.i = st.i /\ r.error = st.error /\ r.expr = n + 1
      /\ r.pool = Append(st.pool, e)
  <2> DEFINE q == Append(st.pool, e)
             m == n + 1
  <2>1. q \in Seq(Exprs) /\ m \in Nat /\ r = [st EXCEPT !.expr = m, !.pool = q]
    BY <1>1, <1>3, <1>4
  <2> HIDE DEF q, m, r
  <2>2. /\ r \in States /\ r.i = st.i /\ r.error = st.error /\ r.expr = m /\ r.pool = q
    BY <1>1, <2>1 DEF States
  <2> QED BY <2>2 DEF q, m
<1> HIDE DEF r
<1>6. IsPool(r.pool)
  <2> SUFFICES ASSUME NEW k \in 1..n + 1 PROVE ArgsMade(r.pool, k)
    BY <1>4, <1>5 DEF IsPool
  <2>1. CASE k = n + 1
    BY <2>1, <1>5
  <2>2. CASE k \in 1..n
    <3>1. ArgsMade(st.pool, k)
      BY <2>2 DEF Sound, IsPool
    <3>2. r.pool[k] = st.pool[k]
      BY <1>4, <1>5, <2>2
    <3>3. \A m : IsExpr(st.pool, m) => IsExpr(r.pool, m)
      BY <1>1, <1>4, <1>5 DEF IsExpr
    <3> QED BY <3>1, <3>2, <3>3 DEF ArgsMade
  <2> QED BY <1>1, <2>1, <2>2
<1>7. e.kind # "NUMBER" => Sound(toks, r)
  <2> SUFFICES ASSUME e.kind # "NUMBER" PROVE Sound(toks, r)
    OBVIOUS
  <2>1. IsExpr(r.pool, r.expr)
    BY <1>1, <1>4, <1>5 DEF IsExpr
  <2> QED BY <1>1, <1>4, <1>5, <1>6, <2>1 DEF Sound
<1> QED BY <1>4, <1>5, <1>6, <1>7 DEF r

(***************************************************************************)
(* A test, a connective and a conditional are made so.                     *)
(***************************************************************************)
LEMMA MakeTestSound ==
  ASSUME NEW toks, IsTokens(toks), NEW st, Sound(toks, st),
         Len(st.pool) + 1 <= st.i - 1,
         NEW kind \in Tests, NEW var \in Variables, NEW val \in Words
  PROVE  LET r == MakeTest(st, kind, var, val) IN
         /\ Sound(toks, r) /\ Tells(r) /\ r.i = st.i /\ Len(r.pool) = Len(st.pool) + 1
         /\ \A k \in 1..Len(st.pool) : r.pool[k] = st.pool[k]
<1> DEFINE e == [kind |-> kind, var |-> var, val |-> val]
<1>1. e \in Exprs /\ e.kind = kind
  BY DEF Exprs
<1>2. kind \notin {"AND", "OR", "QUESTION", "NUMBER"}
  BY DEF Tests
<1> HIDE DEF e
<1>3. st.pool \in Seq(Exprs) /\ Append(st.pool, e)[Len(st.pool) + 1] = e
  BY DEF Sound, IsPool
<1>4. ArgsMade(Append(st.pool, e), Len(st.pool) + 1)
  BY <1>1, <1>2, <1>3 DEF ArgsMade
<1>5. MakeTest(st, kind, var, val) = Alloc(st, e)
  BY DEF MakeTest, e
<1>6. Len(st.pool) + 1 # Null
  BY <1>3 DEF Null
<1> QED BY <1>1, <1>2, <1>4, <1>5, <1>6, AllocSound DEF Tells

(***************************************************************************)
(* WinDivertMakeNumber adds one number to a pool that has room for it.     *)
(***************************************************************************)
LEMMA MakeNumberSound ==
  ASSUME NEW toks, IsTokens(toks), NEW st, Sound(toks, st),
         Len(st.pool) + 1 <= st.i - 1, NEW val \in Words
  PROVE  LET r == MakeNumber(st, val) IN
         /\ r \in States /\ IsPool(r.pool) /\ r.i = st.i /\ r.error = st.error
         /\ r.expr # Null /\ Len(r.pool) = Len(st.pool) + 1
         /\ \A k \in 1..Len(st.pool) : r.pool[k] = st.pool[k]
<1> DEFINE e == [kind |-> "NUMBER", val |-> val]
<1>1. e \in Exprs /\ e.kind = "NUMBER"
  BY DEF Exprs
<1> HIDE DEF e
<1>3. st.pool \in Seq(Exprs) /\ Append(st.pool, e)[Len(st.pool) + 1] = e
      /\ Len(st.pool) \in Nat
  BY DEF Sound, IsPool
<1>4. ArgsMade(Append(st.pool, e), Len(st.pool) + 1)
  BY <1>1, <1>3 DEF ArgsMade
<1>5. MakeNumber(st, val) = Alloc(st, e)
  BY DEF MakeNumber, e
<1>6. Len(st.pool) + 1 # Null
  BY <1>3 DEF Null
<1> QED BY <1>1, <1>4, <1>5, <1>6, AllocSound

(***************************************************************************)
(* WinDivertMakeBinOp for "and" and "or" adds at most one place, and       *)
(* nothing for an argument that failed to parse, whose error is set.       *)
(***************************************************************************)
LEMMA MakeBinOpSound ==
  ASSUME NEW toks, IsTokens(toks), NEW st, Sound(toks, st),
         Len(st.pool) + 1 <= st.i - 1, NEW kind \in {"AND", "OR"},
         NEW a, IsExpr(st.pool, a), NEW b, b = Null \/ IsExpr(st.pool, b),
         b = Null => st.error.code # "NONE"
  PROVE  LET r == MakeBinOp(st, kind, a, b) IN
         /\ Sound(toks, r) /\ Tells(r) /\ r.i = st.i
         /\ Len(r.pool) \in {Len(st.pool), Len(st.pool) + 1}
         /\ \A k \in 1..Len(st.pool) : r.pool[k] = st.pool[k]
<1> DEFINE r == MakeBinOp(st, kind, a, b)
           n == Len(st.pool)
<1>0. st \in States /\ st.pool \in Seq(Exprs) /\ n \in Nat
  BY DEF Sound, IsPool
<1>1. a # Null
  BY <1>0 DEF IsExpr, Null
<1>2. CASE b = Null
  <2>1. r = [st EXCEPT !.expr = Null]
    BY <1>2 DEF MakeBinOp
  <2>2. /\ r \in States /\ r.i = st.i /\ r.pool = st.pool /\ r.error = st.error
        /\ r.expr = Null
    BY <1>0, <2>1 DEF States, Null
  <2> HIDE DEF r
  <2>3. Sound(toks, r) /\ Tells(r)
    BY <1>2, <2>2 DEF Sound, Tells
  <2> QED BY <2>2, <2>3 DEF r
<1>3. CASE b # Null
  <2> DEFINE e == [kind |-> kind, arg |-> <<a, b>>]
  <2>1. r = Alloc(st, e)
    BY <1>1, <1>3 DEF MakeBinOp
  <2>2. a \in 1..n /\ b \in 1..n /\ IsExpr(st.pool, b)
    BY <1>3 DEF IsExpr
  <2>3. e \in Exprs /\ e.kind = kind /\ e.arg[1] = a /\ e.arg[2] = b
    BY <1>0, <2>2 DEF Exprs
  <2> HIDE DEF e, r
  <2>4. /\ Append(st.pool, e)[n + 1] = e /\ Len(Append(st.pool, e)) = n + 1
        /\ \A k \in 1..n : Append(st.pool, e)[k] = st.pool[k]
    BY <1>0
  <2>5. IsExpr(Append(st.pool, e), a) /\ IsExpr(Append(st.pool, e), b)
    BY <1>0, <2>2, <2>4 DEF IsExpr
  <2>6. a \in 1..(n + 1) - 1 /\ b \in 1..(n + 1) - 1
    BY <1>0, <2>2
  <2>7. ArgsMade(Append(st.pool, e), n + 1)
    BY <2>3, <2>4, <2>5, <2>6 DEF ArgsMade
  <2>8. e.kind # "NUMBER"
    BY <2>3
  <2>9. n + 1 # Null
    BY <1>0 DEF Null
  <2> QED BY <2>1, <2>3, <2>7, <2>8, <2>9, AllocSound DEF r, Tells
<1> QED BY <1>2, <1>3

(***************************************************************************)
(* WinDivertMakeIfThenElse adds one place, over arguments that are there.  *)
(***************************************************************************)
LEMMA MakeIfThenElseSound ==
  ASSUME NEW toks, IsTokens(toks), NEW st, Sound(toks, st),
         Len(st.pool) + 1 <= st.i - 1,
         NEW c, c = Null \/ IsExpr(st.pool, c),
         NEW a, IsExpr(st.pool, a), NEW b, IsExpr(st.pool, b)
  PROVE  LET r == MakeIfThenElse(st, c, a, b) IN
         /\ Sound(toks, r) /\ Tells(r) /\ r.i = st.i /\ Len(r.pool) = Len(st.pool) + 1
         /\ \A k \in 1..Len(st.pool) : r.pool[k] = st.pool[k]
<1> DEFINE e == [kind |-> "QUESTION", arg |-> <<c, a, b>>]
           n == Len(st.pool)
<1>0. st \in States /\ st.pool \in Seq(Exprs) /\ n \in Nat
  BY DEF Sound, IsPool
<1>1. MakeIfThenElse(st, c, a, b) = Alloc(st, e)
  BY DEF MakeIfThenElse
<1>2. c \in 0..n /\ a \in 1..n /\ b \in 1..n
  BY <1>0 DEF IsExpr, Null
<1>3. /\ e \in Exprs /\ e.kind = "QUESTION"
      /\ e.arg[1] = c /\ e.arg[2] = a /\ e.arg[3] = b
  BY <1>0, <1>2 DEF Exprs
<1> HIDE DEF e
<1>4. /\ Append(st.pool, e)[n + 1] = e /\ Len(Append(st.pool, e)) = n + 1
      /\ \A k \in 1..n : Append(st.pool, e)[k] = st.pool[k]
  BY <1>0
<1>5. /\ IsExpr(Append(st.pool, e), a) /\ IsExpr(Append(st.pool, e), b)
      /\ c = Null \/ IsExpr(Append(st.pool, e), c)
  BY <1>0, <1>2, <1>4 DEF IsExpr
<1>6. c \in 0..(n + 1) - 1 /\ a \in 1..(n + 1) - 1 /\ b \in 1..(n + 1) - 1
  BY <1>0, <1>2
<1>7. ArgsMade(Append(st.pool, e), n + 1)
  BY <1>3, <1>4, <1>5, <1>6 DEF ArgsMade
<1>8. n + 1 # Null
  BY <1>0 DEF Null
<1> QED BY <1>1, <1>3, <1>7, <1>8, AllocSound DEF Tells


-----------------------------------------------------------------------------
(***************************************************************************)
(* The nots end, at the last token at the latest.                          *)
(***************************************************************************)
LEMMA FirstExists ==
  ASSUME NEW toks, IsTokens(toks), NEW i \in 1..Len(toks)
  PROVE  \E n \in i..Len(toks) : IsFirst(toks, i, n)
<1> DEFINE T == {n \in i..Len(toks) : toks[n].kind # "NOT"}
<1>0. Len(toks) \in Nat /\ i \in Nat /\ i <= Len(toks)
  BY DEF IsTokens
<1>1. Len(toks) \in T
  BY <1>0 DEF IsTokens
<1>2. T \subseteq Nat /\ T # {}
  BY <1>0, <1>1
<1> HIDE DEF T
<1>3. PICK n \in T : \A m \in T : n <= m
  BY <1>2, LeastNumber
<1>4. n \in i..Len(toks) /\ toks[n].kind # "NOT"
  BY DEF T
<1>5. ASSUME NEW m \in i..n - 1 PROVE toks[m].kind = "NOT"
  <2>1. m \in i..Len(toks) /\ ~(n <= m)
    BY <1>0, <1>4
  <2> QED BY <1>3, <2>1 DEF T
<1> QED BY <1>4, <1>5 DEF IsFirst

(***************************************************************************)
(* The error of the parser's own checks is not that of the pool.           *)
(***************************************************************************)
LEMMA UnexpectedCode ==
  /\ "UNEXPECTED_TOKEN" \in Codes /\ "UNEXPECTED_TOKEN" \notin {"NO_MEMORY", "NONE"}
  /\ "TOO_DEEP" \in Codes /\ "TOO_DEEP" \notin {"NO_MEMORY", "NONE"}
BY DEF Codes

(***************************************************************************)
(* What the connectives, tests and brackets are not.                       *)
(***************************************************************************)
LEMMA KindsApart ==
  /\ "END" \notin Variables \cup Tests \cup {"NUMBER"}
  /\ Variables \cap Tests = {}
BY DEF Variables, Fields, FieldsOf, Protocols, Tests

(***************************************************************************)
(* A test is parsed within the tokens, and adds an EXPR for its number and *)
(* one for itself.                                                         *)
(***************************************************************************)
LEMMA ParseTestSound ==
  ASSUME NEW toks, IsTokens(toks), NEW st, Sound(toks, st)
  PROVE  Returns(toks, st, ParseTest(toks, st))
<1> DEFINE j == CHOOSE n \in st.i..Len(toks) : IsFirst(toks, st.i, n)
           not == (j - st.i) % 2 = 1
           var == toks[j].kind
           kind == toks[j + 1].kind
           at(n) == [st EXCEPT !.i = n]
           num == MakeNumber(at(j + 3), toks[j + 2].val)
           r == ParseTest(toks, st)
<1>0. /\ Len(toks) \in Nat /\ toks \in Seq(Lexemes \cup {End}) /\ toks[Len(toks)].kind = "END"
      /\ st.i \in 1..Len(toks) /\ st \in States /\ Len(st.pool) \in Nat
      /\ Len(st.pool) <= st.i - 1
  BY DEF IsTokens, Sound, States
<1>1. j \in st.i..Len(toks)
  BY <1>0, FirstExists
<1>2. r = CASE var \notin Variables -> Fail(at(j), "UNEXPECTED_TOKEN")
            [] var \in Variables /\ kind \notin Tests ->
                 MakeTest(MakeZero(at(j + 1)), IF not THEN "EQ" ELSE "NEQ", var, Zero)
            [] var \in Variables /\ kind \in Tests /\ toks[j + 2].kind # "NUMBER" ->
                 Fail(at(j + 2), "UNEXPECTED_TOKEN")
            [] OTHER ->
                 IF num.expr = Null THEN num
                 ELSE MakeTest(num, IF not THEN Negation[kind] ELSE kind, var,
                               toks[j + 2].val)
  BY DEF ParseTest
<1> HIDE DEF j, r
<1>3. \A n \in st.i..Len(toks) :
        /\ Sound(toks, at(n)) /\ Grows(st, at(n)) /\ at(n).pool = st.pool
        /\ at(n).i = n /\ at(n) \in States
  BY <1>0, MoveSound DEF Sound
<1> HIDE DEF at
<1>4. var \in Variables => j + 1 \in st.i..Len(toks)
  BY <1>0, <1>1, KindsApart
<1>5. var \in Variables /\ kind \in Tests => j + 2 \in st.i..Len(toks)
  <2> SUFFICES ASSUME var \in Variables, kind \in Tests PROVE j + 2 \in st.i..Len(toks)
    OBVIOUS
  <2>1. j + 1 # Len(toks)
    BY <1>0, KindsApart
  <2> QED BY <1>0, <1>1, <1>4, <2>1
<1>6. CASE var \notin Variables
  <2>1. r = Fail(at(j), "UNEXPECTED_TOKEN")
    BY <1>2, <1>6
  <2>2. Returns(toks, at(j), Fail(at(j), "UNEXPECTED_TOKEN"))
    <3>1. Sound(toks, at(j))
      BY <1>1, <1>3
    <3> QED BY <1>0, <3>1, UnexpectedCode, FailSound
  <2> QED BY <1>0, <1>1, <1>3, <2>1, <2>2, GrowsOn DEF r, Sound, Returns
<1>7. CASE var \in Variables /\ kind \notin Tests
  <2> DEFINE neg == IF not THEN "EQ" ELSE "NEQ"
  <2>1. r = MakeTest(at(j + 1), neg, var, Zero)
    BY <1>2, <1>7 DEF MakeZero
  <2>2. neg \in Tests /\ Zero \in Words
    BY DEF Tests, Zero, Words
  <2> HIDE DEF neg
  <2>3. Len(at(j + 1).pool) + 1 <= at(j + 1).i - 1
    BY <1>0, <1>1, <1>3, <1>4, <1>7
  <2>4. /\ Sound(toks, r) /\ Tells(r) /\ r.i = at(j + 1).i /\ Len(r.pool) = Len(at(j + 1).pool) + 1
        /\ \A k \in 1..Len(at(j + 1).pool) : r.pool[k] = at(j + 1).pool[k]
    BY <1>3, <1>4, <1>7, <2>1, <2>2, <2>3, MakeTestSound
  <2>5. /\ r.i = j + 1 /\ Len(r.pool) = Len(st.pool) + 1
        /\ \A k \in 1..Len(st.pool) : r.pool[k] = st.pool[k]
    BY <1>3, <1>4, <1>7, <2>4
  <2>6. Grows(st, r)
    BY <1>0, <1>1, <2>5 DEF Grows
  <2> QED BY <2>4, <2>6 DEF r, Returns
<1>8. CASE var \in Variables /\ kind \in Tests /\ toks[j + 2].kind # "NUMBER"
  <2>1. r = Fail(at(j + 2), "UNEXPECTED_TOKEN")
    BY <1>2, <1>8
  <2>2. Returns(toks, at(j + 2), Fail(at(j + 2), "UNEXPECTED_TOKEN"))
    <3>1. Sound(toks, at(j + 2))
      BY <1>3, <1>5, <1>8
    <3> QED BY <1>0, <3>1, UnexpectedCode, FailSound
  <2> QED BY <1>0, <1>3, <1>5, <1>8, <2>1, <2>2, GrowsOn DEF r, Sound, Returns
<1>9. CASE var \in Variables /\ kind \in Tests /\ toks[j + 2].kind = "NUMBER"
  <2> DEFINE neg == IF not THEN Negation[kind] ELSE kind
             val == toks[j + 2].val
  <2>1. j + 3 \in st.i..Len(toks)
    <3>1. j + 2 # Len(toks)
      BY <1>0, <1>9
    <3> QED BY <1>0, <1>1, <1>5, <1>9, <3>1
  <2>2. j + 2 \in 1..Len(toks)
    BY <1>0, <1>5, <1>9
  <2>3. val \in Words
    <3>1. toks[j + 2] \in Lexemes \cup {End} /\ Zero \in Words
      BY <1>0, <2>2 DEF Zero, Words
    <3> QED BY <3>1 DEF Lexemes, End, Token
  <2>4. neg \in Tests
    BY <1>9 DEF Tests, Negation
  <2>5. Len(at(j + 3).pool) + 1 <= at(j + 3).i - 1
    BY <1>0, <1>1, <1>3, <2>1
  <2>6. /\ num \in States /\ IsPool(num.pool) /\ num.i = j + 3
        /\ num.error = at(j + 3).error
        /\ num.expr # Null /\ Len(num.pool) = Len(st.pool) + 1
        /\ \A k \in 1..Len(st.pool) : num.pool[k] = st.pool[k]
    BY <1>3, <2>1, <2>3, <2>5, MakeNumberSound
  <2>7. r = MakeTest(num, neg, var, val)
    BY <1>2, <1>9, <2>6
  <2> HIDE DEF num, neg, val
  <2>8. r = MakeTest([num EXCEPT !.expr = Null], neg, var, val)
    BY <2>6, <2>7 DEF MakeTest, Alloc, States
  <2> DEFINE z == [num EXCEPT !.expr = Null]
  <2>9. /\ z \in States /\ z.i = num.i /\ z.pool = num.pool /\ z.error = num.error
        /\ z.expr = Null
    BY <2>6 DEF States, Null
  <2> HIDE DEF z
  <2>10. Sound(toks, at(j + 3))
    BY <1>3, <2>1
  <2>11. Sound(toks, z) /\ Len(z.pool) + 1 <= z.i - 1
    BY <1>0, <1>1, <2>1, <2>6, <2>9, <2>10 DEF Sound
  <2>12. /\ Sound(toks, r) /\ Tells(r) /\ r.i = z.i /\ Len(r.pool) = Len(z.pool) + 1
         /\ \A k \in 1..Len(z.pool) : r.pool[k] = z.pool[k]
    <3>1. r = MakeTest(z, neg, var, val)
      BY <2>8 DEF z
    <3> QED BY <1>9, <2>3, <2>4, <2>11, <3>1, MakeTestSound
  <2>13. /\ r.i = j + 3 /\ Len(r.pool) = Len(st.pool) + 2
    BY <1>0, <2>6, <2>9, <2>12
  <2>14. ASSUME NEW k \in 1..Len(st.pool) PROVE r.pool[k] = st.pool[k]
    <3>1. k \in 1..Len(z.pool)
      BY <1>0, <2>6, <2>9
    <3> QED BY <2>6, <2>9, <2>12, <3>1
  <2>15. Grows(st, r)
    BY <1>0, <1>1, <2>13, <2>14 DEF Grows
  <2> QED BY <2>12, <2>15 DEF r, Returns
<1> QED BY <1>6, <1>7, <1>8, <1>9


(***************************************************************************)
(* A call in a state that grew out of another one.                         *)
(***************************************************************************)
LEMMA CallSound ==
  ASSUME NEW toks, NEW parse, IsParse(toks, parse), NEW call \in Calls,
         NEW st, Sound(toks, st), NEW s, Sound(toks, s), Grows(st, s)
  PROVE  /\ Returns(toks, s, parse[call][s])
         /\ Returns(toks, st, parse[call][s])
<1>1. st \in States /\ s \in States
  BY DEF Sound
<1>2. Returns(toks, s, parse[call][s])
  BY <1>1 DEF IsParse
<1>3. parse[call][s] \in States
  BY <1>2 DEF Sound, Returns
<1> QED BY <1>1, <1>2, <1>3, GrowsOn DEF Returns

(***************************************************************************)
(* Skipping a token after a sound continuation of st is one of st.         *)
(***************************************************************************)
LEMMA SkipOn ==
  ASSUME NEW toks, IsTokens(toks), NEW st, Sound(toks, st), NEW s, Sound(toks, s),
         Grows(st, s), toks[s.i].kind # "END"
  PROVE  Sound(toks, Skip(s)) /\ Grows(st, Skip(s))
<1>1. Sound(toks, Skip(s)) /\ Grows(s, Skip(s))
  BY SkipSound
<1> QED BY <1>1, GrowsOn DEF Sound

(***************************************************************************)
(* Failing with UNEXPECTED_TOKEN after a sound continuation of st is a     *)
(* sound way to return from it.                                            *)
(***************************************************************************)
LEMMA FailOn ==
  ASSUME NEW toks, IsTokens(toks), NEW st, Sound(toks, st), NEW s, Sound(toks, s),
         Grows(st, s)
  PROVE  LET r == Fail(s, "UNEXPECTED_TOKEN") IN Returns(toks, st, r)
<1> DEFINE r == Fail(s, "UNEXPECTED_TOKEN")
<1>0. Len(toks) \in Nat
  BY DEF IsTokens
<1>1. Returns(toks, s, r)
  BY <1>0, UnexpectedCode, FailSound
<1> HIDE DEF r
<1>2. Returns(toks, st, r)
  BY <1>1, GrowsOn DEF Sound, Returns
<1> QED BY <1>2 DEF r

(***************************************************************************)
(* Parentheses and conditionals.                                           *)
(***************************************************************************)
LEMMA ParseElseSound ==
  ASSUME NEW toks, IsTokens(toks), NEW parse, IsParse(toks, parse),
         NEW st, Sound(toks, st), NEW cond, Sound(toks, cond), Grows(st, cond),
         NEW th, Sound(toks, th), Grows(cond, th), IsExpr(th.pool, th.expr),
         toks[th.i].kind = "COLON"
  PROVE  Returns(toks, st, ParseElse(toks, parse, cond, th))
<1> DEFINE s == Skip(th)
           el == parse["filter"][s]
           r == ParseElse(toks, parse, cond, th)
<1>0. st \in States /\ cond \in States /\ th \in States /\ "filter" \in Calls
  BY DEF Sound, Calls
<1>1. Grows(st, th)
  BY <1>0, GrowsOn
<1>2. /\ Sound(toks, s) /\ Grows(th, s) /\ Grows(st, s)
  BY <1>1, SkipSound, SkipOn
<1>3. /\ Sound(toks, el) /\ Grows(st, el) /\ Grows(th, el) /\ Tells(el)
  BY <1>0, <1>2, CallSound DEF Returns
<1>4. r = IF el.expr = Null THEN el
          ELSE IF toks[el.i].kind # "CLOSE" THEN Fail(el, "UNEXPECTED_TOKEN")
          ELSE MakeIfThenElse(Skip(el), cond.expr, th.expr, el.expr)
  BY DEF ParseElse
<1> HIDE DEF r, el
<1>5. CASE el.expr = Null
  BY <1>3, <1>4, <1>5 DEF r, Returns
<1>6. CASE el.expr # Null /\ toks[el.i].kind # "CLOSE"
  <2>1. r = Fail(el, "UNEXPECTED_TOKEN")
    BY <1>4, <1>6
  <2> QED BY <1>3, <2>1, FailOn DEF r
<1>7. CASE el.expr # Null /\ toks[el.i].kind = "CLOSE"
  <2> DEFINE q == Skip(el)
  <2>0. el \in States /\ Len(el.pool) \in Nat /\ el.i \in Nat /\ Len(el.pool) <= el.i - 1
        /\ Len(st.pool) \in Nat /\ st.i \in Nat
    <3>1. el \in States /\ Len(el.pool) <= el.i - 1
      BY <1>3 DEF Sound
    <3> QED BY <1>0, <3>1 DEF States
  <2>1. Sound(toks, q) /\ Grows(st, q) /\ q.pool = el.pool /\ q.i = el.i + 1
    BY <1>3, <1>7, SkipSound, SkipOn
  <2>2. Grows(cond, el)
    BY <1>0, <1>3, <2>0, GrowsOn
  <2>3. cond.expr = Null \/ IsExpr(el.pool, cond.expr)
    BY <1>0, <2>0, <2>2, KeepsExpr DEF Sound
  <2>4. IsExpr(el.pool, th.expr) /\ IsExpr(el.pool, el.expr)
    BY <1>0, <1>3, <1>7, <2>0, KeepsExpr DEF Sound
  <2>5. r = MakeIfThenElse(q, cond.expr, th.expr, el.expr)
    BY <1>4, <1>7
  <2> HIDE DEF q
  <2>6. Len(q.pool) + 1 <= q.i - 1
    <3> DEFINE a == Len(el.pool)  i == el.i
    <3>1. a \in Nat /\ i \in Nat /\ a <= i - 1 /\ Len(q.pool) = a /\ q.i = i + 1
      BY <2>0, <2>1
    <3> HIDE DEF a, i
    <3> QED BY <3>1
  <2>7. /\ Sound(toks, r) /\ Tells(r) /\ r.i = q.i /\ Len(r.pool) = Len(q.pool) + 1
        /\ \A k \in 1..Len(q.pool) : r.pool[k] = q.pool[k]
    <3>1. /\ cond.expr = Null \/ IsExpr(q.pool, cond.expr)
          /\ IsExpr(q.pool, th.expr) /\ IsExpr(q.pool, el.expr) /\ Sound(toks, q)
      BY <2>1, <2>3, <2>4
    <3> QED BY <2>5, <2>6, <3>1, MakeIfThenElseSound
  <2>8. Grows(el, r)
    <3>1. r.i = el.i + 1 /\ Len(r.pool) = Len(el.pool) + 1
          /\ \A k \in 1..Len(el.pool) : r.pool[k] = el.pool[k]
      BY <2>1, <2>7
    <3>2. /\ Len(el.pool) <= Len(r.pool) /\ el.i <= r.i
          /\ Len(r.pool) - Len(el.pool) <= r.i - el.i
      BY <2>0, <3>1
    <3> QED BY <3>1, <3>2 DEF Grows
  <2>9. r \in States
    BY <2>7 DEF Sound
  <2> QED BY <1>0, <1>3, <2>0, <2>7, <2>8, <2>9, GrowsOn DEF r, Returns
<1> QED BY <1>5, <1>6, <1>7

(***************************************************************************)
(* The arms of a conditional are parsed soundly, given that calls of       *)
(* WinDivertParseFilter are.                                               *)
(***************************************************************************)
LEMMA ParseThenSound ==
  ASSUME NEW toks, IsTokens(toks), NEW parse, IsParse(toks, parse),
         NEW st, Sound(toks, st), NEW cond, Sound(toks, cond), Grows(st, cond),
         toks[cond.i].kind = "QUESTION"
  PROVE  Returns(toks, st, ParseThen(toks, parse, cond))
<1> DEFINE s == Skip(cond)
           th == parse["filter"][s]
           r == ParseThen(toks, parse, cond)
<1>0. st \in States /\ cond \in States /\ "filter" \in Calls
  BY DEF Sound, Calls
<1>1. Sound(toks, s) /\ Grows(cond, s) /\ Grows(st, s)
  BY SkipSound, SkipOn
<1>2. Sound(toks, th) /\ Grows(st, th) /\ Grows(cond, th) /\ Tells(th)
  BY <1>0, <1>1, CallSound DEF Returns
<1>3. r = IF th.expr = Null THEN th
          ELSE IF toks[th.i].kind # "COLON" THEN Fail(th, "UNEXPECTED_TOKEN")
          ELSE ParseElse(toks, parse, cond, th)
  BY DEF ParseThen
<1> HIDE DEF r, th
<1>4. CASE th.expr = Null
  BY <1>2, <1>3, <1>4 DEF r, Returns
<1>5. CASE th.expr # Null /\ toks[th.i].kind # "COLON"
  <2>1. r = Fail(th, "UNEXPECTED_TOKEN")
    BY <1>3, <1>5
  <2> QED BY <1>2, <2>1, FailOn DEF r
<1>6. CASE th.expr # Null /\ toks[th.i].kind = "COLON"
  <2>1. IsExpr(th.pool, th.expr)
    BY <1>2, <1>6 DEF Sound
  <2>2. r = ParseElse(toks, parse, cond, th)
    BY <1>3, <1>6
  <2> QED BY <1>2, <1>6, <2>1, <2>2, ParseElseSound DEF r
<1> QED BY <1>4, <1>5, <1>6

(***************************************************************************)
(* WinDivertParseArg is sound, given that the calls of                     *)
(* WinDivertParseFilter it makes are.                                      *)
(***************************************************************************)
LEMMA ParseArgSound ==
  ASSUME NEW toks, IsTokens(toks), NEW parse, IsParse(toks, parse),
         NEW st, Sound(toks, st)
  PROVE  Returns(toks, st, ParseArg(toks, parse, st))
<1> DEFINE s == Skip(st)
           cond == parse["filter"][s]
           r == ParseArg(toks, parse, st)
<1>1. CASE toks[st.i].kind # "OPEN"
  BY <1>1, ParseTestSound DEF ParseArg
<1>2. CASE toks[st.i].kind = "OPEN"
  <2>0. st \in States /\ "filter" \in Calls
    BY DEF Sound, Calls
  <2>1. Sound(toks, s) /\ Grows(st, s)
    BY <1>2, SkipSound
  <2>2. Sound(toks, cond) /\ Grows(st, cond) /\ Tells(cond)
    BY <2>0, <2>1, CallSound DEF Returns
  <2>3. r = CASE toks[cond.i].kind = "CLOSE" -> Skip(cond)
              [] toks[cond.i].kind = "QUESTION" -> ParseThen(toks, parse, cond)
              [] OTHER -> Fail(cond, "UNEXPECTED_TOKEN")
    BY <1>2 DEF ParseArg
  <2> HIDE DEF r, cond
  <2>4. CASE toks[cond.i].kind = "CLOSE"
    <3>1. r = Skip(cond)
      BY <2>3, <2>4
    <3>2. Skip(cond).expr = cond.expr /\ Skip(cond).error = cond.error
      BY <2>2, <2>4, SkipSound
    <3> QED BY <2>2, <2>4, <3>1, <3>2, SkipOn DEF r, Returns, Tells
  <2>5. CASE toks[cond.i].kind = "QUESTION"
    <3>1. r = ParseThen(toks, parse, cond)
      BY <2>3, <2>5
    <3> QED BY <2>2, <2>5, <3>1, ParseThenSound DEF r
  <2>6. CASE toks[cond.i].kind \notin {"CLOSE", "QUESTION"}
    <3>1. r = Fail(cond, "UNEXPECTED_TOKEN")
      BY <2>3, <2>6
    <3> QED BY <2>2, <3>1, FailOn DEF r
  <2> QED BY <2>4, <2>5, <2>6
<1> QED BY <1>1, <1>2

(***************************************************************************)
(* A round of the loop over "and" and "or".                                *)
(***************************************************************************)
LEMMA ParseRoundSound ==
  ASSUME NEW toks, IsTokens(toks), NEW parse, IsParse(toks, parse),
         NEW st, Sound(toks, st), Joins(toks, st)
  PROVE  Returns(toks, st, ParseRound(toks, parse, st))
<1> DEFINE s == Skip(st)
           kind == toks[st.i].kind
           arg == IF kind = "AND" THEN parse["arg"][s] ELSE OrArg(parse, s)
           r == ParseRound(toks, parse, st)
<1>0. /\ st \in States /\ "arg" \in Calls /\ "and" \in Calls /\ kind \in {"AND", "OR"}
      /\ IsExpr(st.pool, st.expr)
  BY DEF Sound, Calls, Joins
<1>1. Sound(toks, s) /\ Grows(st, s) /\ s.i = st.i + 1 /\ s.pool = st.pool
  BY <1>0, SkipSound
<1>2. Sound(toks, arg) /\ Grows(s, arg) /\ Grows(st, arg) /\ Tells(arg)
  BY <1>0, <1>1, CallSound DEF OrArg, Returns
<1>3. r = MakeBinOp(arg, kind, st.expr, arg.expr)
  BY DEF ParseRound
<1> HIDE DEF r, arg, s, kind
<1>4. arg \in States /\ Len(arg.pool) \in Nat /\ arg.i \in Nat
      /\ Len(st.pool) \in Nat /\ st.i \in Nat /\ Len(st.pool) <= st.i - 1
  <2>1. arg \in States /\ Len(st.pool) <= st.i - 1
    BY <1>2 DEF Sound
  <2> QED BY <1>0, <2>1 DEF States
<1>5. Len(arg.pool) - Len(st.pool) <= arg.i - (st.i + 1)
  BY <1>1, <1>2 DEF Grows
<1>6. Len(arg.pool) + 1 <= arg.i - 1
  <2> DEFINE a == Len(st.pool)  b == Len(arg.pool)  i == st.i  j == arg.i
  <2>1. /\ a \in Nat /\ b \in Nat /\ i \in Nat /\ j \in Nat
        /\ a <= i - 1 /\ b - a <= j - (i + 1)
    BY <1>4, <1>5
  <2> HIDE DEF a, b, i, j
  <2>2. b + 1 <= j - 1
    BY <2>1
  <2> QED BY <2>2 DEF b, j
<1>7. /\ IsExpr(arg.pool, st.expr) /\ (arg.expr = Null \/ IsExpr(arg.pool, arg.expr))
      /\ arg.expr = Null => arg.error.code # "NONE"
  BY <1>0, <1>2, <1>4, KeepsExpr DEF Sound, Tells
<1>8. /\ Sound(toks, r) /\ Tells(r) /\ r.i = arg.i
      /\ Len(r.pool) \in {Len(arg.pool), Len(arg.pool) + 1}
      /\ \A k \in 1..Len(arg.pool) : r.pool[k] = arg.pool[k]
  BY <1>0, <1>2, <1>3, <1>6, <1>7, MakeBinOpSound
<1>9. /\ Len(st.pool) <= Len(r.pool) /\ st.i <= r.i
      /\ Len(r.pool) - Len(st.pool) <= r.i - st.i
  <2>1. Len(st.pool) <= Len(arg.pool) /\ st.i <= arg.i
    BY <1>2 DEF Grows
  <2> DEFINE a == Len(st.pool)  b == Len(arg.pool)  c == Len(r.pool)
             i == st.i  j == arg.i
  <2>2. /\ a \in Nat /\ b \in Nat /\ i \in Nat /\ j \in Nat /\ c \in {b, b + 1}
        /\ a <= b /\ i <= j /\ b - a <= j - (i + 1) /\ r.i = j
    BY <1>4, <1>5, <1>8, <2>1
  <2> HIDE DEF a, b, c, i, j
  <2>3. a <= c /\ c - a <= j - i
    BY <2>2
  <2> QED BY <2>2, <2>3 DEF a, c, i
<1>10. ASSUME NEW k \in 1..Len(st.pool) PROVE r.pool[k] = st.pool[k]
  <2>1. k \in 1..Len(arg.pool) /\ arg.pool[k] = st.pool[k]
    BY <1>2, <1>4 DEF Grows
  <2> QED BY <1>8, <2>1
<1> QED BY <1>8, <1>9, <1>10 DEF Grows, r, Returns


-----------------------------------------------------------------------------
(***************************************************************************)
(* The loop, of which each round calls the next: there is such a function. *)
(***************************************************************************)
RestRound(toks, parse, n, next) ==
  [s \in States |->
     IF n > 0 /\ Joins(toks, s) THEN next[ParseRound(toks, parse, s)] ELSE s]

IsRest(toks, parse, rest, N) ==
  rest = [n \in 0..N |-> RestRound(toks, parse, n, rest[n - 1])]

(***************************************************************************)
(* The loop of WinDivertParseFilter, as a recursive function of the rounds *)
(* left, exists for every number of rounds.                                *)
(***************************************************************************)
LEMMA RestExists ==
  ASSUME NEW toks, NEW parse, NEW N \in Nat
  PROVE  \E rest : IsRest(toks, parse, rest, N)
<1> DEFINE B(n, next) == RestRound(toks, parse, n, next)
           S == {n \in 0..N : \E f : f = [m \in 0..n |-> B(m, f[m - 1])]}
<1>1. \A g, h : B(0, g) = B(0, h)
  BY DEF RestRound
<1> HIDE DEF B
<1>2. 0 \in S
  <2> DEFINE f == [m \in 0..0 |-> B(0, 0)]
  <2>1. f = [m \in 0..0 |-> B(m, f[m - 1])]
    <3>1. \A m \in 0..0 : m = 0
      OBVIOUS
    <3>2. \A m \in 0..0 : B(0, 0) = B(m, f[m - 1])
      BY <1>1, <3>1
    <3> QED BY <3>2
  <2> HIDE DEF f
  <2> QED BY <2>1
<1>3. ASSUME NEW n \in 1..N, n - 1 \in S PROVE n \in S
  <2>1. PICK f : f = [m \in 0..n - 1 |-> B(m, f[m - 1])]
    BY <1>3
  <2> DEFINE g == [m \in 0..n |-> IF m = n THEN B(n, f[n - 1]) ELSE f[m]]
  <2>2. ASSUME NEW m \in 0..n PROVE g[m] = B(m, g[m - 1])
    <3>1. CASE m = n
      <4>1. g[n - 1] = f[n - 1] /\ g[n] = B(n, f[n - 1])
        OBVIOUS
      <4> HIDE DEF g
      <4> QED BY <3>1, <4>1
    <3>2. CASE m # n /\ m # 0
      <4>1. m \in 0..n - 1 /\ m - 1 \in 0..n /\ m - 1 # n
        BY <3>2
      <4>2. f[m] = B(m, f[m - 1])
        BY <2>1, <4>1
      <4>3. g[m] = f[m] /\ g[m - 1] = f[m - 1]
        BY <3>2, <4>1
      <4> HIDE DEF g
      <4> QED BY <4>2, <4>3
    <3>3. CASE m = 0
      <4>1. 0 \in 0..n - 1 /\ 0 # n
        OBVIOUS
      <4>2. f[0] = B(0, f[0 - 1])
        BY <2>1, <4>1
      <4>3. g[0] = f[0]
        BY <4>1
      <4> HIDE DEF g
      <4> QED BY <1>1, <3>3, <4>2, <4>3
    <3> QED BY <3>1, <3>2, <3>3
  <2>3. g = [m \in 0..n |-> g[m]]
    OBVIOUS
  <2> HIDE DEF g
  <2>4. g = [m \in 0..n |-> B(m, g[m - 1])]
    BY <2>2, <2>3
  <2> QED BY <2>4
<1>4. N \in S
  <2> HIDE DEF S
  <2> QED BY <1>2, <1>3, InductionUpTo
<1> QED BY <1>4 DEF IsRest, B

(***************************************************************************)
(* ParseRest applies such a function, with a round for every token.        *)
(***************************************************************************)
LEMMA RestIs ==
  ASSUME NEW toks, IsTokens(toks), NEW parse, NEW st
  PROVE  \E rest : /\ IsRest(toks, parse, rest, Len(toks))
                   /\ ParseRest(toks, parse, st) = rest[Len(toks)][st]
<1> DEFINE rest == CHOOSE f : IsRest(toks, parse, f, Len(toks))
<1>1. Len(toks) \in Nat
  BY DEF IsTokens
<1>2. IsRest(toks, parse, rest, Len(toks))
  BY <1>1, RestExists
<1>3. ParseRest(toks, parse, st) = rest[Len(toks)][st]
  BY DEF ParseRest, IsRest, RestRound
<1> QED BY <1>2, <1>3

(***************************************************************************)
(* All rounds together are right if each is.                               *)
(***************************************************************************)
LEMMA ParseRestSound ==
  ASSUME NEW toks, IsTokens(toks), NEW parse, IsParse(toks, parse),
         NEW st, Sound(toks, st), Tells(st)
  PROVE  Returns(toks, st, ParseRest(toks, parse, st))
<1>0. Len(toks) \in Nat
  BY DEF IsTokens
<1>1. PICK rest : /\ IsRest(toks, parse, rest, Len(toks))
                  /\ ParseRest(toks, parse, st) = rest[Len(toks)][st]
  BY RestIs
<1> DEFINE S == {n \in 0..Len(toks) :
                   \A s \in States :
                     Sound(toks, s) /\ Tells(s) => Returns(toks, s, rest[n][s])}
<1>2. ASSUME NEW n \in 0..Len(toks), NEW s \in States
      PROVE  rest[n][s] = IF n > 0 /\ Joins(toks, s)
                            THEN rest[n - 1][ParseRound(toks, parse, s)] ELSE s
  <2>1. rest[n] = RestRound(toks, parse, n, rest[n - 1])
    BY <1>1 DEF IsRest
  <2> QED BY <2>1 DEF RestRound
<1>3. ASSUME NEW s \in States PROVE Grows(s, s)
  <2>1. Len(s.pool) \in Nat /\ s.i \in Nat
    BY DEF States
  <2> QED BY <2>1 DEF Grows
<1>4. 0 \in S
  BY <1>0, <1>2, <1>3 DEF Returns
<1>5. ASSUME NEW n \in 1..Len(toks), n - 1 \in S PROVE n \in S
  <2> SUFFICES ASSUME NEW s \in States, Sound(toks, s), Tells(s)
               PROVE  Returns(toks, s, rest[n][s])
    BY <1>0
  <2>1. CASE ~Joins(toks, s)
    BY <1>2, <1>3, <2>1 DEF Returns
  <2>2. CASE Joins(toks, s)
    <3> DEFINE q == ParseRound(toks, parse, s)
    <3>1. Sound(toks, q) /\ Grows(s, q) /\ Tells(q) /\ q \in States
      BY <2>2, ParseRoundSound DEF Sound, Returns
    <3>2. rest[n][s] = rest[n - 1][q]
      BY <1>0, <1>2, <2>2
    <3> HIDE DEF q
    <3>3. Returns(toks, q, rest[n - 1][q])
      BY <1>5, <3>1
    <3>4. rest[n - 1][q] \in States
      BY <3>3 DEF Sound, Returns
    <3>5. Grows(s, rest[n - 1][q])
      BY <3>1, <3>3, <3>4, GrowsOn DEF Returns
    <3> QED BY <3>2, <3>3, <3>5 DEF Returns
  <2> QED BY <2>1, <2>2
<1>6. \A n \in 0..Len(toks) : n \in S
  <2> HIDE DEF S
  <2> QED BY <1>0, <1>4, <1>5, InductionUpTo
<1>7. Len(toks) \in S
  BY <1>0, <1>6
<1>8. st \in States
  BY DEF Sound
<1> QED BY <1>1, <1>7, <1>8


(***************************************************************************)
(* One call, and the calls of every depth.                                 *)
(***************************************************************************)
LEMMA ParseCallSound ==
  ASSUME NEW toks, IsTokens(toks), NEW parse, IsParse(toks, parse),
         NEW call \in Calls, NEW st, Sound(toks, st)
  PROVE  Returns(toks, st, ParseCall(toks, parse, call, st))
<1>1. CASE call = "arg"
  BY <1>1, ParseArgSound DEF ParseCall
<1>2. ASSUME NEW c \in Calls
      PROVE  Returns(toks, st, ParseRest(toks, parse, parse[c][st]))
  <2> DEFINE s == parse[c][st]
             r == ParseRest(toks, parse, s)
  <2>1. Sound(toks, s) /\ Grows(st, s) /\ Tells(s)
    BY DEF IsParse, Sound, Returns
  <2> HIDE DEF s
  <2>2. Returns(toks, s, r)
    BY <2>1, ParseRestSound
  <2> HIDE DEF r
  <2>3. st \in States /\ s \in States /\ r \in States
    BY <2>1, <2>2 DEF Sound, Returns
  <2>4. Grows(st, r)
    BY <2>1, <2>2, <2>3, GrowsOn DEF Returns
  <2> QED BY <2>2, <2>4 DEF r, s, Returns
<1>3. "arg" \in Calls /\ "and" \in Calls
  BY DEF Calls
<1>4. CASE call = "and"
  <2>1. ParseCall(toks, parse, call, st) = ParseRest(toks, parse, parse["arg"][st])
    BY <1>4 DEF ParseCall
  <2> QED BY <1>2, <1>3, <2>1
<1>5. CASE call = "filter"
  <2>1. ParseCall(toks, parse, call, st) = ParseRest(toks, parse, parse["and"][st])
    BY <1>5 DEF ParseCall
  <2> QED BY <1>2, <1>3, <2>1
<1> QED BY <1>1, <1>4, <1>5 DEF Calls

ParseLevel(toks, depth, below) ==
  [call \in Calls |-> [st \in States |->
     IF depth < 0 THEN Fail(st, "TOO_DEEP") ELSE ParseCall(toks, below, call, st)]]

IsParseAt(toks, parse, N) ==
  parse = [depth \in -1..N |-> ParseLevel(toks, depth, parse[depth - 1])]

(***************************************************************************)
(* The parser as a recursive function of the depth left exists for every   *)
(* depth.                                                                  *)
(***************************************************************************)
LEMMA ParseAtExists ==
  ASSUME NEW toks, NEW N \in Nat
  PROVE  \E parse : IsParseAt(toks, parse, N)
<1> DEFINE B(d, below) == ParseLevel(toks, d, below)
           S == {n \in 0..N + 1 : \E f : f = [d \in -1..n - 1 |-> B(d, f[d - 1])]}
<1>1. \A g, h : B(-1, g) = B(-1, h)
  BY DEF ParseLevel
<1> HIDE DEF B
<1>2. 0 \in S
  <2> DEFINE f == [d \in -1..0 - 1 |-> B(-1, 0)]
  <2>1. f = [d \in -1..0 - 1 |-> B(d, f[d - 1])]
    <3>1. \A d \in -1..0 - 1 : d = -1
      OBVIOUS
    <3>2. \A d \in -1..0 - 1 : B(-1, 0) = B(d, f[d - 1])
      BY <1>1, <3>1
    <3> QED BY <3>2
  <2> HIDE DEF f
  <2> QED BY <2>1
<1>3. ASSUME NEW n \in 1..N + 1, n - 1 \in S PROVE n \in S
  <2>1. PICK f : f = [d \in -1..(n - 1) - 1 |-> B(d, f[d - 1])]
    BY <1>3
  <2> DEFINE g == [d \in -1..n - 1 |-> IF d = n - 1 THEN B(n - 1, f[n - 2]) ELSE f[d]]
  <2>2. ASSUME NEW d \in -1..n - 1 PROVE g[d] = B(d, g[d - 1])
    <3>1. CASE d = n - 1
      <4>1. g[n - 2] = f[n - 2] /\ g[n - 1] = B(n - 1, f[n - 2]) /\ d - 1 = n - 2
        BY <3>1
      <4> HIDE DEF g
      <4> QED BY <3>1, <4>1
    <3>2. CASE d # n - 1 /\ d # -1
      <4>1. d \in -1..(n - 1) - 1 /\ d - 1 \in -1..n - 1 /\ d - 1 # n - 1
        BY <3>2
      <4>2. f[d] = B(d, f[d - 1])
        BY <2>1, <4>1
      <4>3. g[d] = f[d] /\ g[d - 1] = f[d - 1]
        BY <3>2, <4>1
      <4> HIDE DEF g
      <4> QED BY <4>2, <4>3
    <3>3. CASE d = -1
      <4>1. -1 \in -1..(n - 1) - 1 /\ -1 # n - 1
        OBVIOUS
      <4>2. f[-1] = B(-1, f[(-1) - 1])
        BY <2>1, <4>1
      <4>3. g[-1] = f[-1]
        BY <4>1
      <4> HIDE DEF g
      <4> QED BY <1>1, <3>3, <4>2, <4>3
    <3> QED BY <3>1, <3>2, <3>3
  <2>3. g = [d \in -1..n - 1 |-> g[d]]
    OBVIOUS
  <2> HIDE DEF g
  <2>4. g = [d \in -1..n - 1 |-> B(d, g[d - 1])]
    BY <2>2, <2>3
  <2>5. n \in 0..N + 1
    OBVIOUS
  <2> QED BY <2>4, <2>5
<1>4. N + 1 \in S
  <2>1. N + 1 \in Nat
    OBVIOUS
  <2> HIDE DEF S
  <2> QED BY <1>2, <1>3, <2>1, InductionUpTo
<1>5. PICK f : f = [d \in -1..(N + 1) - 1 |-> B(d, f[d - 1])]
  BY <1>4
<1>6. (N + 1) - 1 = N
  OBVIOUS
<1> QED BY <1>5, <1>6 DEF IsParseAt, B

(***************************************************************************)
(* ParseAt is that function.                                               *)
(***************************************************************************)
LEMMA ParseAtIs ==
  ASSUME NEW toks PROVE IsParseAt(toks, ParseAt(toks), MaxDepth)
<1> DEFINE parse == CHOOSE f : IsParseAt(toks, f, MaxDepth)
<1>1. IsParseAt(toks, parse, MaxDepth)
  BY Limits, ParseAtExists
<1>2. ParseAt(toks) = parse
  BY DEF ParseAt, IsParseAt, ParseLevel
<1> QED BY <1>1, <1>2

(***************************************************************************)
(* At every depth the parser is sound: the least depth at which it is not  *)
(* would have a sound one below it.                                        *)
(***************************************************************************)
LEMMA ParseAtSound ==
  ASSUME NEW toks, IsTokens(toks), NEW depth \in -1..MaxDepth
  PROVE  IsParse(toks, ParseAt(toks)[depth])
<1> DEFINE parse == ParseAt(toks)
           S == {n \in 0..MaxDepth + 1 : IsParse(toks, parse[n - 1])}
<1>0. Len(toks) \in Nat
  BY DEF IsTokens
<1>1. ASSUME NEW d \in -1..MaxDepth, NEW call \in Calls, NEW st \in States
      PROVE  parse[d][call][st] =
               IF d < 0 THEN Fail(st, "TOO_DEEP") ELSE ParseCall(toks, parse[d - 1], call, st)
  <2>1. parse[d] = ParseLevel(toks, d, parse[d - 1])
    BY ParseAtIs DEF IsParseAt
  <2> QED BY <2>1 DEF ParseLevel
<1> HIDE DEF parse
<1>2. 0 \in S
  <2>1. IsParse(toks, parse[-1])
    <3> SUFFICES ASSUME NEW call \in Calls, NEW st \in States, Sound(toks, st)
                 PROVE  Returns(toks, st, parse[-1][call][st])
      BY DEF IsParse
    <3>1. parse[-1][call][st] = Fail(st, "TOO_DEEP")
      <4>1. -1 \in -1..MaxDepth
        BY Limits
      <4> QED BY <1>1, <4>1
    <3> QED BY <1>0, <3>1, UnexpectedCode, FailSound
  <2>2. 0 - 1 = -1 /\ 0 \in 0..MaxDepth + 1
    BY Limits
  <2> QED BY <2>1, <2>2
<1>3. ASSUME NEW n \in 1..MaxDepth + 1, n - 1 \in S PROVE n \in S
  <2>1. n - 1 \in -1..MaxDepth /\ ~(n - 1 < 0) /\ n \in 0..MaxDepth + 1
    BY Limits
  <2>2. IsParse(toks, parse[(n - 1) - 1])
    BY <1>3
  <2>3. IsParse(toks, parse[n - 1])
    <3> SUFFICES ASSUME NEW call \in Calls, NEW st \in States, Sound(toks, st)
                 PROVE  Returns(toks, st, parse[n - 1][call][st])
      BY DEF IsParse
    <3>1. parse[n - 1][call][st] = ParseCall(toks, parse[(n - 1) - 1], call, st)
      BY <1>1, <2>1
    <3> QED BY <2>2, <3>1, ParseCallSound
  <2> QED BY <2>1, <2>3
<1>4. \A n \in 0..MaxDepth + 1 : n \in S
  <2>1. MaxDepth + 1 \in Nat
    BY Limits
  <2> HIDE DEF S
  <2> QED BY <1>2, <1>3, <2>1, InductionUpTo
<1>5. depth + 1 \in 0..MaxDepth + 1 /\ (depth + 1) - 1 = depth
  BY Limits
<1> QED BY <1>4, <1>5 DEF parse


(***************************************************************************)
(* What the parser returns for the tokens of a string: it stays within the *)
(* tokens and the pool, and its expression, if there is one, is a tree.    *)
(***************************************************************************)
LEMMA ParseStringSound ==
  ASSUME NEW toks, IsTokens(toks)
  PROVE  Sound(toks, ParseString(toks)) /\ Tells(ParseString(toks))
<1> DEFINE st == [i |-> 1, expr |-> Null, error |-> NoError, pool |-> <<>>]
<1>0. Len(toks) \in Nat /\ 1 \in 1..Len(toks)
  BY DEF IsTokens
<1>1. /\ st \in States /\ st.i = 1 /\ st.expr = Null /\ Len(st.pool) = 0
      /\ st.error.code = "NONE" /\ st.pool = <<>>
  BY DEF States, Null, NoError, Error, Codes
<1> HIDE DEF st
<1>2. IsPool(st.pool)
  BY <1>1 DEF IsPool
<1>3. Sound(toks, st)
  BY <1>0, <1>1, <1>2 DEF Sound
<1>4. MaxDepth \in -1..MaxDepth /\ "filter" \in Calls
  BY Limits DEF Calls
<1>5. Returns(toks, st, ParseAt(toks)[MaxDepth]["filter"][st])
  BY <1>1, <1>3, <1>4, ParseAtSound DEF IsParse
<1> QED BY <1>5 DEF ParseString, st, Returns


-----------------------------------------------------------------------------
(***************************************************************************)
(* Flattening.  The functions for the arguments of an expression are those *)
(* at lower places in the pool, so there is such a function.               *)
(***************************************************************************)
FlatCalls == Flats \X (NoLabel..Reject) \X (NoLabel..Reject)

FlatLevel(pool, flatten, k) ==
  [c \in FlatCalls |-> FlattenExpr(pool, flatten, k, c[1], c[2], c[3])]

IsFlatten(pool, flatten, N) ==
  flatten = [k \in 0..N |-> FlatLevel(pool, flatten, k)]

(***************************************************************************)
(* Flattening the place k looks only at places before k.                   *)
(***************************************************************************)
LEMMA FlattenLocal ==
  ASSUME NEW pool, IsPool(pool), NEW k \in 0..Len(pool), NEW f, NEW g,
         \A j \in 0..k - 1 : f[j] = g[j]
  PROVE  FlatLevel(pool, f, k) = FlatLevel(pool, g, k)
<1> SUFFICES ASSUME NEW fl, NEW succ, NEW fail
             PROVE  FlattenExpr(pool, f, k, fl, succ, fail)
                      = FlattenExpr(pool, g, k, fl, succ, fail)
  BY DEF FlatLevel
<1>0. Len(pool) \in Nat
  BY DEF IsPool
<1>1. CASE NoLabel \in {succ, fail} \/ k = Null
  BY <1>1 DEF FlattenExpr
<1>2. CASE NoLabel \notin {succ, fail} /\ k # Null
  <2>1. k \in 1..Len(pool) /\ ArgsMade(pool, k)
    BY <1>0, <1>2 DEF IsPool, Null
  <2> DEFINE e == pool[k]
  <2>2. CASE e.kind = "AND"
    <3>1. e.arg[1] \in 0..k - 1 /\ e.arg[2] \in 0..k - 1
      BY <2>1, <2>2 DEF ArgsMade
    <3>2. f[e.arg[1]] = g[e.arg[1]] /\ f[e.arg[2]] = g[e.arg[2]]
      BY <3>1
    <3> QED BY <2>2, <3>2 DEF FlattenExpr
  <2>3. CASE e.kind = "OR"
    <3>1. e.arg[1] \in 0..k - 1 /\ e.arg[2] \in 0..k - 1
      BY <2>1, <2>3 DEF ArgsMade
    <3>2. f[e.arg[1]] = g[e.arg[1]] /\ f[e.arg[2]] = g[e.arg[2]]
      BY <3>1
    <3> QED BY <2>3, <3>2 DEF FlattenExpr
  <2>4. CASE e.kind = "QUESTION"
    <3>1. e.arg[1] \in 0..k - 1 /\ e.arg[2] \in 0..k - 1 /\ e.arg[3] \in 0..k - 1
      BY <2>1, <2>4 DEF ArgsMade
    <3>2. /\ f[e.arg[1]] = g[e.arg[1]] /\ f[e.arg[2]] = g[e.arg[2]]
          /\ f[e.arg[3]] = g[e.arg[3]]
      BY <3>1
    <3> QED BY <2>4, <3>2 DEF FlattenExpr
  <2>5. CASE e.kind \notin {"AND", "OR", "QUESTION"}
    BY <1>2, <2>5 DEF FlattenExpr
  <2> QED BY <2>2, <2>3, <2>4, <2>5
<1> QED BY <1>1, <1>2

(***************************************************************************)
(* The flattening of a pool, as a recursive function of the place, exists. *)
(***************************************************************************)
LEMMA FlattenExists ==
  ASSUME NEW pool, IsPool(pool), NEW N \in Nat, N = Len(pool)
  PROVE  \E flatten : IsFlatten(pool, flatten, N)
<1> DEFINE B(f, k) == FlatLevel(pool, f, k)
           S == {n \in 0..N : \E f : f = [k \in 0..n |-> B(f, k)]}
<1>1. ASSUME NEW k \in 0..N, NEW f, NEW g, \A j \in 0..k - 1 : f[j] = g[j]
      PROVE  B(f, k) = B(g, k)
  BY <1>1, FlattenLocal
<1> HIDE DEF B
<1>2. 0 \in S
  <2> DEFINE f == [k \in 0..0 |-> B(0, 0)]
  <2>1. \A k \in 0..0 : k = 0 /\ B(0, 0) = B(f, k)
    <3>1. \A k \in 0..0 : k = 0
      OBVIOUS
    <3>2. 0 \in 0..N /\ \A j \in 0..0 - 1 : FALSE
      OBVIOUS
    <3>3. B(0, 0) = B(f, 0)
      <4> HIDE DEF f
      <4> QED BY <1>1, <3>2
    <3> HIDE DEF f
    <3> QED BY <3>1, <3>3
  <2>2. f = [k \in 0..0 |-> B(f, k)]
    BY <2>1
  <2> HIDE DEF f
  <2> QED BY <2>2
<1>3. ASSUME NEW n \in 1..N, n - 1 \in S PROVE n \in S
  <2>1. PICK f : f = [k \in 0..n - 1 |-> B(f, k)]
    BY <1>3
  <2> DEFINE g == [k \in 0..n |-> IF k = n THEN B(f, n) ELSE f[k]]
  <2>2. \A j \in 0..n - 1 : f[j] = g[j]
    OBVIOUS
  <2>3. ASSUME NEW k \in 0..n PROVE g[k] = B(g, k)
    <3>1. B(f, k) = B(g, k)
      <4>1. \A j \in 0..k - 1 : j \in 0..n - 1
        OBVIOUS
      <4>2. k \in 0..N
        OBVIOUS
      <4> HIDE DEF g
      <4> QED BY <1>1, <2>2, <4>1, <4>2
    <3>2. CASE k = n
      <4>1. g[k] = B(f, n)
        BY <3>2
      <4> HIDE DEF g
      <4> QED BY <3>1, <3>2, <4>1
    <3>3. CASE k # n
      <4>1. k \in 0..n - 1 /\ g[k] = f[k]
        BY <3>3
      <4>2. f[k] = B(f, k)
        BY <2>1, <4>1
      <4> HIDE DEF g
      <4> QED BY <3>1, <4>1, <4>2
    <3> QED BY <3>2, <3>3
  <2>4. g = [k \in 0..n |-> g[k]]
    OBVIOUS
  <2> HIDE DEF g
  <2>5. g = [k \in 0..n |-> B(g, k)]
    BY <2>3, <2>4
  <2> QED BY <2>5
<1>4. \A n \in 0..N : n \in S
  <2> HIDE DEF S
  <2> QED BY <1>2, <1>3, InductionUpTo
<1>5. N \in S
  BY <1>4
<1> QED BY <1>5 DEF IsFlatten, B

(***************************************************************************)
(* Flatten is that function.                                               *)
(***************************************************************************)
LEMMA FlattenIs ==
  ASSUME NEW pool, IsPool(pool)
  PROVE  IsFlatten(pool, Flatten(pool), Len(pool))
<1> DEFINE f == CHOOSE h : IsFlatten(pool, h, Len(pool))
<1>1. IsFlatten(pool, f, Len(pool))
  <2>1. Len(pool) \in Nat
    BY DEF IsPool
  <2> QED BY <2>1, FlattenExists
<1>2. Flatten(pool) = f
  BY DEF Flatten, IsFlatten, FlatLevel, FlatCalls
<1> QED BY <1>1, <1>2

(***************************************************************************)
(* What Flatten gives at a place, from a stack and two targets.            *)
(***************************************************************************)
LEMMA FlattenAt ==
  ASSUME NEW pool, IsPool(pool), NEW k \in 0..Len(pool), NEW fl \in Flats,
         NEW succ \in NoLabel..Reject, NEW fail \in NoLabel..Reject
  PROVE  Flatten(pool)[k][<<fl, succ, fail>>]
           = FlattenExpr(pool, Flatten(pool), k, fl, succ, fail)
<1>1. Flatten(pool)[k] = FlatLevel(pool, Flatten(pool), k)
  BY FlattenIs DEF IsFlatten
<1>2. <<fl, succ, fail>> \in FlatCalls
  BY DEF FlatCalls
<1> QED BY <1>1, <1>2 DEF FlatLevel


-----------------------------------------------------------------------------
(***************************************************************************)
(* A test that is placed has two results, and goes on to tests below it.   *)
(***************************************************************************)
TestExprs == [kind : Tests, var : Variables, val : Words]

IsTarget(t, n) == t \in {Accept, Reject} \cup (0..n - 1)
MayTarget(t, n) == t = NoLabel \/ IsTarget(t, n)

Placed(s, n) ==
  /\ s.test \in TestExprs /\ EvalTest(s.test) = BOOLEAN
  /\ IsTarget(s.succ, n) /\ IsTarget(s.fail, n)

FlatSound(fl) ==
  /\ fl \in Flats /\ Len(fl.stack) <= MaxLen
  /\ \A m \in 1..Len(fl.stack) : Placed(fl.stack[m], m - 1)

FlatGrows(fl, r) ==
  /\ Len(fl.stack) <= Len(r.stack)
  /\ \A m \in 1..Len(fl.stack) : r.stack[m] = fl.stack[m]

FlatDone(fl, r) ==
  FlatSound(r) /\ FlatGrows(fl, r) /\ MayTarget(r.label, Len(r.stack))

(***************************************************************************)
(* Targets stay targets when the stack grows, and are labels.              *)
(***************************************************************************)
LEMMA TargetTypes ==
  ASSUME NEW n \in 0..MaxLen, NEW t, MayTarget(t, n)
  PROVE  /\ t \in NoLabel..Reject
         /\ t # NoLabel => t \in Labels /\ IsTarget(t, n)
         /\ \A m \in n..MaxLen : MayTarget(t, m)
BY Limits DEF MayTarget, IsTarget, NoLabel, Accept, Reject, Labels

(***************************************************************************)
(* Types of a sound state of the flattening.                               *)
(***************************************************************************)
LEMMA FlatTypes ==
  ASSUME NEW fl, FlatSound(fl)
  PROVE  /\ fl \in Flats /\ Len(fl.stack) \in 0..MaxLen
         /\ fl.stack \in Seq([test : Exprs, succ : Labels, fail : Labels])
         /\ fl.fault \in BOOLEAN
<1>1. fl \in Flats
  BY DEF FlatSound
<1>2. /\ fl.stack \in Seq([test : Exprs, succ : Labels, fail : Labels])
      /\ fl.fault \in BOOLEAN
  BY <1>1 DEF Flats
<1>3. Len(fl.stack) \in Nat
  BY <1>2
<1> QED BY <1>1, <1>2, <1>3, Limits DEF FlatSound

(***************************************************************************)
(* A stack that grew twice has grown.                                      *)
(***************************************************************************)
LEMMA FlatGrowsOn ==
  ASSUME NEW a, FlatSound(a), NEW b, FlatSound(b), NEW c, FlatSound(c),
         FlatGrows(a, b), FlatGrows(b, c)
  PROVE  FlatGrows(a, c)
<1>1. /\ Len(a.stack) \in 0..MaxLen /\ Len(b.stack) \in 0..MaxLen
      /\ Len(c.stack) \in 0..MaxLen
  BY FlatTypes
<1>2. Len(a.stack) <= Len(c.stack)
  <2> DEFINE x == Len(a.stack)  y == Len(b.stack)  z == Len(c.stack)
  <2>1. x \in 0..MaxLen /\ y \in 0..MaxLen /\ z \in 0..MaxLen /\ x <= y /\ y <= z
    BY <1>1 DEF FlatGrows
  <2> HIDE DEF x, y, z
  <2>2. x <= z
    BY <2>1, Limits
  <2> QED BY <2>2 DEF x, z
<1>3. ASSUME NEW m \in 1..Len(a.stack) PROVE c.stack[m] = a.stack[m]
  <2>1. m \in 1..Len(b.stack)
    BY <1>1, Limits DEF FlatGrows
  <2> QED BY <2>1 DEF FlatGrows
<1> QED BY <1>2, <1>3 DEF FlatGrows

(***************************************************************************)
(* Only the label is set.                                                  *)
(***************************************************************************)
LEMMA LabelSet ==
  ASSUME NEW fl, FlatSound(fl), NEW t, MayTarget(t, Len(fl.stack)), NEW b \in BOOLEAN
  PROVE  /\ FlatDone(fl, [fl EXCEPT !.label = t])
         /\ FlatDone(fl, [fl EXCEPT !.fault = b, !.label = t])
         /\ [fl EXCEPT !.label = t].label = t
         /\ [fl EXCEPT !.label = t].stack = fl.stack
<1>0. fl \in Flats /\ Len(fl.stack) \in 0..MaxLen
  BY FlatTypes
<1>1. fl \in Flats /\ Len(fl.stack) \in 0..MaxLen /\ t \in NoLabel..Reject
  BY <1>0, TargetTypes
<1>2. ASSUME NEW r, r \in Flats, r.stack = fl.stack, r.label = t
      PROVE  FlatDone(fl, r)
  <2>1. Len(fl.stack) <= Len(fl.stack)
    BY <1>1, Limits
  <2> QED BY <1>2, <2>1 DEF FlatDone, FlatSound, FlatGrows
<1>3. LET r == [fl EXCEPT !.label = t] IN r \in Flats /\ r.stack = fl.stack /\ r.label = t
  BY <1>1 DEF Flats
<1>4. LET r == [fl EXCEPT !.fault = b, !.label = t]
      IN r \in Flats /\ r.stack = fl.stack /\ r.label = t
  BY <1>1 DEF Flats
<1> QED BY <1>2, <1>3, <1>4

(***************************************************************************)
(* A test has one result or both.                                          *)
(***************************************************************************)
LEMMA EvalTestCases ==
  ASSUME NEW e \in TestExprs
  PROVE  EvalTest(e) \in {{TRUE}, {FALSE}, BOOLEAN}
<1>1. e.kind \in Tests
  BY DEF TestExprs
<1>2. ASSUME NEW kind \in Tests, NEW lb, NEW ub, NEW big, NEW n
      PROVE  Outcomes(kind, lb, ub, big, n) \in {{TRUE}, {FALSE}, BOOLEAN}
  BY DEF Outcomes, Tests
<1> QED BY <1>1, <1>2 DEF EvalTest

(***************************************************************************)
(* The three results of WinDivertEvalTest are different.                   *)
(***************************************************************************)
LEMMA ResultsApart == {TRUE} # {FALSE} /\ {TRUE} # BOOLEAN /\ {FALSE} # BOOLEAN
<1>1. TRUE \in {TRUE} /\ TRUE \notin {FALSE} /\ FALSE \notin {TRUE}
  OBVIOUS
<1>2. TRUE \in BOOLEAN /\ FALSE \in BOOLEAN
  OBVIOUS
<1> QED BY <1>1, <1>2, Zenon

(***************************************************************************)
(* A test that is settled, left out or pushed leaves a sound stack and a   *)
(* label that leads to an earlier place, to accept or to reject.           *)
(***************************************************************************)
LEMMA PlaceTestSound ==
  ASSUME NEW fl, FlatSound(fl), NEW e \in TestExprs,
         NEW succ, IsTarget(succ, Len(fl.stack)), NEW fail, IsTarget(fail, Len(fl.stack))
  PROVE  FlatDone(fl, PlaceTest(e, fl, succ, fail))
<1> DEFINE r == PlaceTest(e, fl, succ, fail)
           n == Len(fl.stack)
           s == [test |-> e, succ |-> succ, fail |-> fail]
<1>0. /\ fl \in Flats /\ n \in 0..MaxLen
      /\ fl.stack \in Seq([test : Exprs, succ : Labels, fail : Labels])
  BY FlatTypes
<1>1. MayTarget(succ, n) /\ MayTarget(fail, n) /\ MayTarget(NoLabel, n)
  BY DEF MayTarget
<1> USE ResultsApart
<1>2. CASE EvalTest(e) = {TRUE}
  <2>1. r = [fl EXCEPT !.label = succ]
    BY <1>2 DEF PlaceTest
  <2> QED BY <1>1, <2>1, LabelSet
<1>3. CASE EvalTest(e) = {FALSE}
  <2>1. r = [fl EXCEPT !.label = fail]
    BY <1>3 DEF PlaceTest
  <2> QED BY <1>1, <2>1, LabelSet
<1>4. CASE EvalTest(e) = BOOLEAN /\ n >= MaxLen
  <2>1. r = [fl EXCEPT !.label = NoLabel]
    BY <1>4 DEF PlaceTest
  <2> QED BY <1>1, <2>1, LabelSet
<1>5. CASE EvalTest(e) = BOOLEAN /\ ~(n >= MaxLen)
  <2>1. r = [fl EXCEPT !.label = n, !.stack = Append(fl.stack, s)]
    BY <1>0, <1>5 DEF PlaceTest, Flats
  <2>2. succ \in Labels /\ fail \in Labels
    BY <1>0, Limits DEF IsTarget, Labels, Accept, Reject
  <2>3. e \in Exprs
    BY DEF TestExprs, Exprs
  <2>4. /\ s \in [test : Exprs, succ : Labels, fail : Labels]
        /\ s.test = e /\ s.succ = succ /\ s.fail = fail
    BY <2>2, <2>3
  <2> HIDE DEF s
  <2> DEFINE q == Append(fl.stack, s)
  <2>5. /\ q \in Seq([test : Exprs, succ : Labels, fail : Labels])
        /\ Len(q) = n + 1 /\ q[n + 1] = s /\ \A m \in 1..n : q[m] = fl.stack[m]
    BY <1>0, <2>4
  <2>6. n \in NoLabel..Reject /\ n + 1 <= MaxLen /\ n \in Nat
    BY <1>0, <1>5, Limits DEF NoLabel, Accept, Reject
  <2> HIDE DEF q, r, n
  <2>7. r \in Flats /\ r.stack = q /\ r.label = n
    BY <1>0, <2>1, <2>5, <2>6 DEF Flats, q
  <2>8. Placed(s, n)
    BY <1>5, <2>4 DEF Placed, n
  <2>9. ASSUME NEW m \in 1..n + 1 PROVE Placed(q[m], m - 1)
    <3>1. CASE m = n + 1
      <4>1. m - 1 = n
        BY <2>6, <3>1
      <4> QED BY <2>5, <2>8, <3>1, <4>1
    <3>2. CASE m \in 1..n
      BY <2>5, <3>2 DEF FlatSound, n
    <3> QED BY <2>6, <3>1, <3>2
  <2>10. FlatSound(r)
    BY <2>5, <2>6, <2>7, <2>9 DEF FlatSound
  <2>11. FlatGrows(fl, r)
    BY <2>5, <2>6, <2>7 DEF FlatGrows, n
  <2>12. MayTarget(r.label, Len(r.stack))
    BY <2>5, <2>6, <2>7 DEF MayTarget, IsTarget
  <2> QED BY <2>10, <2>11, <2>12 DEF FlatDone, r
<1> QED BY <1>2, <1>3, <1>4, <1>5, EvalTestCases


(***************************************************************************)
(* So is a whole expression: by induction on its place in the pool.        *)
(***************************************************************************)
IsFlatAt(flatten, k) ==
  \A fl, succ, fail :
    /\ FlatSound(fl)
    /\ MayTarget(succ, Len(fl.stack)) /\ MayTarget(fail, Len(fl.stack))
    => FlatDone(fl, flatten[k][<<fl, succ, fail>>])

(***************************************************************************)
(* After a step of the flattening its label, and every target from before, *)
(* may be a target.                                                        *)
(***************************************************************************)
LEMMA FlatOn ==
  ASSUME NEW fl, FlatSound(fl), NEW s, FlatDone(fl, s),
         NEW t, MayTarget(t, Len(fl.stack))
  PROVE  FlatSound(s) /\ MayTarget(s.label, Len(s.stack)) /\ MayTarget(t, Len(s.stack))
<1>1. /\ FlatSound(s) /\ MayTarget(s.label, Len(s.stack))
      /\ Len(fl.stack) <= Len(s.stack)
  BY DEF FlatDone, FlatGrows
<1>2. Len(fl.stack) \in 0..MaxLen /\ Len(s.stack) \in 0..MaxLen
  BY <1>1, FlatTypes
<1>3. Len(s.stack) \in Len(fl.stack)..MaxLen
  BY <1>1, <1>2, Limits
<1> QED BY <1>1, <1>2, <1>3, TargetTypes

(***************************************************************************)
(* Two steps of the flattening in a row are one.                           *)
(***************************************************************************)
LEMMA FlatDoneOn ==
  ASSUME NEW fl, FlatSound(fl), NEW s, FlatDone(fl, s), NEW r, FlatDone(s, r)
  PROVE  FlatDone(fl, r)
BY FlatGrowsOn DEF FlatDone

(***************************************************************************)
(* WinDivertFlattenExpr is sound at a place, given that it is at every     *)
(* place before it.                                                        *)
(***************************************************************************)
LEMMA FlattenExprSound ==
  ASSUME NEW pool, IsPool(pool), NEW flatten, NEW k, k = Null \/ IsExpr(pool, k),
         k \in 1..Len(pool) => \A j \in 0..k - 1 :
           j = Null \/ IsExpr(pool, j) => IsFlatAt(flatten, j),
         NEW fl, FlatSound(fl), NEW succ, MayTarget(succ, Len(fl.stack)),
         NEW fail, MayTarget(fail, Len(fl.stack))
  PROVE  FlatDone(fl, FlattenExpr(pool, flatten, k, fl, succ, fail))
<1> DEFINE r == FlattenExpr(pool, flatten, k, fl, succ, fail)
           e == pool[k]
<1>0. MayTarget(NoLabel, Len(fl.stack)) /\ Len(pool) \in Nat
  BY DEF MayTarget, IsPool
<1>1. CASE NoLabel \in {succ, fail}
  <2>1. r = [fl EXCEPT !.label = NoLabel]
    BY <1>1 DEF FlattenExpr
  <2> QED BY <1>0, <2>1, LabelSet
<1>2. CASE NoLabel \notin {succ, fail} /\ k = Null
  <2>1. r = [fl EXCEPT !.fault = TRUE, !.label = NoLabel]
    BY <1>2 DEF FlattenExpr
  <2> QED BY <1>0, <2>1, LabelSet
<1>3. CASE NoLabel \notin {succ, fail} /\ k # Null
  <2>1. /\ k \in 1..Len(pool) /\ IsExpr(pool, k) /\ ArgsMade(pool, k)
        /\ e \in Exprs /\ e.kind # "NUMBER"
    BY <1>3 DEF IsExpr, IsPool
  <2>2. \A j \in 0..k - 1 : j = Null \/ IsExpr(pool, j) => IsFlatAt(flatten, j)
    BY <2>1
  <2>3. CASE e.kind = "AND"
    <3> DEFINE s == flatten[e.arg[2]][<<fl, succ, fail>>]
               q == flatten[e.arg[1]][<<s, s.label, fail>>]
    <3>1. IsFlatAt(flatten, e.arg[1]) /\ IsFlatAt(flatten, e.arg[2])
      BY <2>1, <2>2, <2>3 DEF ArgsMade
    <3>2. r = q
      BY <1>3, <2>3 DEF FlattenExpr
    <3>3. FlatDone(fl, s)
      BY <3>1 DEF IsFlatAt
    <3> HIDE DEF s, r
    <3>4. FlatSound(s) /\ MayTarget(s.label, Len(s.stack)) /\ MayTarget(fail, Len(s.stack))
      BY <3>3, FlatOn
    <3>5. FlatDone(s, q)
      BY <3>1, <3>4 DEF IsFlatAt
    <3> HIDE DEF q
    <3> QED BY <3>2, <3>3, <3>5, FlatDoneOn DEF r
  <2>4. CASE e.kind = "OR"
    <3> DEFINE s == flatten[e.arg[2]][<<fl, succ, fail>>]
               q == flatten[e.arg[1]][<<s, succ, s.label>>]
    <3>1. IsFlatAt(flatten, e.arg[1]) /\ IsFlatAt(flatten, e.arg[2])
      BY <2>1, <2>2, <2>4 DEF ArgsMade
    <3>2. r = q
      BY <1>3, <2>4 DEF FlattenExpr
    <3>3. FlatDone(fl, s)
      BY <3>1 DEF IsFlatAt
    <3> HIDE DEF s, r
    <3>4. FlatSound(s) /\ MayTarget(s.label, Len(s.stack)) /\ MayTarget(succ, Len(s.stack))
      BY <3>3, FlatOn
    <3>5. FlatDone(s, q)
      BY <3>1, <3>4 DEF IsFlatAt
    <3> HIDE DEF q
    <3> QED BY <3>2, <3>3, <3>5, FlatDoneOn DEF r
  <2>5. CASE e.kind = "QUESTION"
    <3> DEFINE s == flatten[e.arg[3]][<<fl, succ, fail>>]
               u == flatten[e.arg[2]][<<s, succ, fail>>]
               q == flatten[e.arg[1]][<<u, u.label, s.label>>]
    <3>1. /\ IsFlatAt(flatten, e.arg[1]) /\ IsFlatAt(flatten, e.arg[2])
          /\ IsFlatAt(flatten, e.arg[3])
      BY <2>1, <2>2, <2>5 DEF ArgsMade
    <3>2. r = q
      BY <1>3, <2>5 DEF FlattenExpr
    <3>3. FlatDone(fl, s)
      BY <3>1 DEF IsFlatAt
    <3> HIDE DEF s, r
    <3>4. /\ FlatSound(s) /\ MayTarget(s.label, Len(s.stack))
          /\ MayTarget(succ, Len(s.stack)) /\ MayTarget(fail, Len(s.stack))
      BY <3>3, FlatOn
    <3>5. FlatDone(s, u)
      BY <3>1, <3>4 DEF IsFlatAt
    <3> HIDE DEF u
    <3>6. /\ FlatSound(u) /\ MayTarget(u.label, Len(u.stack))
          /\ MayTarget(s.label, Len(u.stack))
      BY <3>4, <3>5, FlatOn
    <3>7. FlatDone(u, q)
      BY <3>1, <3>6 DEF IsFlatAt
    <3> HIDE DEF q
    <3>8. FlatDone(s, q)
      BY <3>4, <3>5, <3>7, FlatDoneOn
    <3> QED BY <3>2, <3>3, <3>8, FlatDoneOn DEF r
  <2>6. CASE e.kind \notin {"AND", "OR", "QUESTION"}
    <3>1. r = PlaceTest(e, fl, succ, fail)
      BY <1>3, <2>6 DEF FlattenExpr
    <3>2. e \in TestExprs
      BY <2>1, <2>6 DEF Exprs, TestExprs
    <3>3. IsTarget(succ, Len(fl.stack)) /\ IsTarget(fail, Len(fl.stack))
      BY <1>3 DEF MayTarget
    <3> QED BY <3>1, <3>2, <3>3, PlaceTestSound
  <2> QED BY <2>3, <2>4, <2>5, <2>6
<1> QED BY <1>1, <1>2, <1>3

(***************************************************************************)
(* WinDivertFlattenExpr is sound at every place: the least place where it  *)
(* is not would have sound ones before it.                                 *)
(***************************************************************************)
LEMMA FlattenSound ==
  ASSUME NEW pool, IsPool(pool), NEW k, k = Null \/ IsExpr(pool, k)
  PROVE  IsFlatAt(Flatten(pool), k)
<1> DEFINE N == Len(pool)
           S == {n \in 0..N : n = Null \/ IsExpr(pool, n) => IsFlatAt(Flatten(pool), n)}
<1>0. N \in Nat
  BY DEF IsPool
<1>1. ASSUME NEW n \in 0..N, \A m \in 0..n - 1 : m \in S PROVE n \in S
  <2> SUFFICES ASSUME n = Null \/ IsExpr(pool, n),
                      NEW fl, FlatSound(fl), NEW succ, MayTarget(succ, Len(fl.stack)),
                      NEW fail, MayTarget(fail, Len(fl.stack))
               PROVE  FlatDone(fl, Flatten(pool)[n][<<fl, succ, fail>>])
    BY DEF IsFlatAt
  <2>1. /\ fl \in Flats /\ Len(fl.stack) \in 0..MaxLen
    BY FlatTypes
  <2>2. succ \in NoLabel..Reject /\ fail \in NoLabel..Reject
    BY <2>1, TargetTypes
  <2>3. Flatten(pool)[n][<<fl, succ, fail>>]
          = FlattenExpr(pool, Flatten(pool), n, fl, succ, fail)
    BY <2>1, <2>2, FlattenAt
  <2>4. \A j \in 0..n - 1 : j = Null \/ IsExpr(pool, j) => IsFlatAt(Flatten(pool), j)
    BY <1>1
  <2> QED BY <2>3, <2>4, FlattenExprSound
<1>2. \A n \in 0..N : n \in S
  <2> HIDE DEF S, N
  <2> QED BY <1>0, <1>1, StrongInductionUpTo
<1>3. k \in 0..N
  BY <1>0 DEF IsExpr, Null
<1> QED BY <1>2, <1>3


-----------------------------------------------------------------------------
(***************************************************************************)
(* The ranges of the DLL are those of the driver, except that of ip.TOS.   *)
(***************************************************************************)
LEMMA UpperBounds ==
  ASSUME NEW f, NEW n \in Nat, n <= UpperBound(f), f # "IP_TOS" \/ n <= 255
  PROVE  f = "ZERO" \/ ArgFits(f, n)
<1> SUFFICES ASSUME f # "ZERO" PROVE ArgFits(f, n)
  OBVIOUS
<1>1. ASSUME f \in (FieldsOf.NONE \ {"IFIDX", "SUBIFIDX"})
             \cup {"IP_DF", "IP_MF", "TCP_URG", "TCP_ACK", "TCP_PSH",
                   "TCP_RST", "TCP_SYN", "TCP_FIN"}
      PROVE  n <= 1
  <2>1. f \in {"INBOUND", "OUTBOUND", "IP", "IPV6", "ICMP", "ICMPV6", "TCP",
               "UDP", "IP_DF", "IP_MF", "TCP_URG", "TCP_ACK", "TCP_PSH",
               "TCP_RST", "TCP_SYN", "TCP_FIN"}
    BY <1>1 DEF FieldsOf
  <2>2. UpperBound(f) = 1
    BY <2>1 DEF UpperBound, FieldsOf
  <2> QED BY <2>2
<1>2. ASSUME f \in {"IP_HDRLENGTH", "TCP_HDRLENGTH"} PROVE n <= 15
  <2>1. UpperBound(f) = 15
    BY <1>2 DEF UpperBound, FieldsOf
  <2> QED BY <2>1
<1>3. ASSUME f \in {"IP_TOS", "IP_TTL", "IP_PROTOCOL", "IPV6_TRAFFICCLASS",
            "IPV6_NEXTHDR", "IPV6_HOPLIMIT", "ICMP_TYPE", "ICMP_CODE",
            "ICMPV6_TYPE", "ICMPV6_CODE"}
      PROVE n <= 255
  <2>1. f # "IP_TOS" => UpperBound(f) = 255
    BY <1>3 DEF UpperBound, FieldsOf
  <2> QED BY <2>1
<1>4. ASSUME f = "IP_FRAGOFF" PROVE n <= 8191
  <2>1. UpperBound(f) = 8191
    BY <1>4 DEF UpperBound, FieldsOf
  <2> QED BY <2>1
<1>5. ASSUME f \in {"IP_LENGTH", "IP_ID", "IP_CHECKSUM", "IPV6_LENGTH",
            "ICMP_CHECKSUM", "ICMPV6_CHECKSUM"} \cup FieldsOf.UDP
             \cup {"TCP_SRCPORT", "TCP_DSTPORT", "TCP_WINDOW", "TCP_CHECKSUM",
                   "TCP_URGPTR", "TCP_PAYLOADLENGTH"}
      PROVE n <= 65535
  <2>1. UpperBound(f) = 65535
    BY <1>5 DEF UpperBound, FieldsOf
  <2> QED BY <2>1
<1>6. ASSUME f = "IPV6_FLOWLABEL" PROVE n <= 1048575
  <2>1. UpperBound(f) = 1048575
    BY <1>6 DEF UpperBound, FieldsOf
  <2> QED BY <2>1
<1> QED BY <1>1, <1>2, <1>3, <1>4, <1>5, <1>6 DEF ArgFits

(***************************************************************************)
(* A test with two results is on a field of the driver, and its number is  *)
(* within the range of the field.                                          *)
(***************************************************************************)
LEMMA TwoResults ==
  ASSUME NEW kind \in Tests, NEW lb \in Int, NEW ub \in Int, NEW n \in Int,
         NEW big \in BOOLEAN, Outcomes(kind, lb, ub, big, n) = BOOLEAN
  PROVE  ~big /\ n <= ub /\ lb # ub
<1>0. ASSUME NEW c \in BOOLEAN, NEW d \in BOOLEAN, NEW r, NEW s,
             r \in {{TRUE}, {FALSE}}, s \in {{TRUE}, {FALSE}},
             (IF c THEN r ELSE IF d THEN s ELSE BOOLEAN) = BOOLEAN
      PROVE  ~c /\ ~d
  <2>1. r # BOOLEAN /\ s # BOOLEAN
    BY <1>0, ResultsApart, Zenon
  <2> QED BY <1>0, <2>1, Zenon
<1> DEFINE O == Outcomes(kind, lb, ub, big, n)
           out == big \/ n < lb \/ n > ub
           same == lb = ub
           above == big \/ n > ub
           atub == big \/ n >= ub
           atlb == n <= lb
           below == n < lb
<1>00. /\ out \in BOOLEAN /\ same \in BOOLEAN /\ above \in BOOLEAN
       /\ atub \in BOOLEAN /\ atlb \in BOOLEAN /\ below \in BOOLEAN
  OBVIOUS
<1>000. {TRUE} \in {{TRUE}, {FALSE}} /\ {FALSE} \in {{TRUE}, {FALSE}}
  BY Zenon
<1>1. CASE kind = "EQ"
  <2>1. O = IF out THEN {FALSE} ELSE IF same THEN {TRUE} ELSE BOOLEAN
    BY <1>1 DEF Outcomes
  <2> HIDE DEF out, same, O
  <2>2. ~out /\ ~same
    BY <1>0, <1>00, <1>000, <2>1, Zenon DEF O
  <2> QED BY <2>2 DEF out, same
<1>2. CASE kind = "NEQ"
  <2>1. O = IF out THEN {TRUE} ELSE IF same THEN {FALSE} ELSE BOOLEAN
    BY <1>2 DEF Outcomes
  <2> HIDE DEF out, same, O
  <2>2. ~out /\ ~same
    BY <1>0, <1>00, <1>000, <2>1, Zenon DEF O
  <2> QED BY <2>2 DEF out, same
<1>3. CASE kind = "LT"
  <2>1. O = IF above THEN {TRUE} ELSE IF atlb THEN {FALSE} ELSE BOOLEAN
    BY <1>3 DEF Outcomes
  <2> HIDE DEF above, atlb, O
  <2>2. ~above /\ ~atlb
    BY <1>0, <1>00, <1>000, <2>1, Zenon DEF O
  <2> QED BY <2>2 DEF above, atlb
<1>4. CASE kind = "LEQ"
  <2>1. O = IF atub THEN {TRUE} ELSE IF below THEN {FALSE} ELSE BOOLEAN
    BY <1>4 DEF Outcomes
  <2> HIDE DEF atub, below, O
  <2>2. ~atub /\ ~below
    BY <1>0, <1>00, <1>000, <2>1, Zenon DEF O
  <2> QED BY <2>2 DEF atub, below
<1>5. CASE kind = "GT"
  <2>1. O = IF atub THEN {FALSE} ELSE IF below THEN {TRUE} ELSE BOOLEAN
    BY <1>5 DEF Outcomes
  <2> HIDE DEF atub, below, O
  <2>2. ~atub /\ ~below
    BY <1>0, <1>00, <1>000, <2>1, Zenon DEF O
  <2> QED BY <2>2 DEF atub, below
<1>6. CASE kind = "GEQ"
  <2>1. O = IF above THEN {FALSE} ELSE IF atlb THEN {TRUE} ELSE BOOLEAN
    BY <1>6 DEF Outcomes
  <2> HIDE DEF above, atlb, O
  <2>2. ~above /\ ~atlb
    BY <1>0, <1>00, <1>000, <2>1, Zenon DEF O
  <2> QED BY <2>2 DEF above, atlb
<1> QED BY <1>1, <1>2, <1>3, <1>4, <1>5, <1>6 DEF Tests

(***************************************************************************)
(* What WinDivertEvalTest settles is right: if it finds that a test has    *)
(* one result only, then that is the result of the comparison for every    *)
(* value in the range of the field.  So a test that the compiler leaves    *)
(* out of the program would have told the packets with the field nothing.  *)
(***************************************************************************)
THEOREM SettledTests ==
  ASSUME NEW e \in TestExprs, EvalTest(e) # BOOLEAN,
         NEW n \in LowerBound(e.var)..UpperBound(e.var)
  PROVE  EvalTest(e) = {Holds(e.kind, BigNumCompare(Number(n), e.val))}
<1> DEFINE big == \E w \in 2..4 : e.val[w] # 0
           lb  == LowerBound(e.var)
           ub  == UpperBound(e.var)
           m   == e.val[1]
           cmp == BigNumCompare(Number(n), e.val)
<1>1. e.kind \in Tests /\ e.val \in [1..4 -> Nat]
  BY DEF TestExprs, Words
<1>2. EvalTest(e) = Outcomes(e.kind, lb, ub, big, m)
  BY DEF EvalTest
<1>3. lb \in Nat /\ ub \in Int /\ m \in Nat
  BY <1>1, Limits DEF LowerBound, UpperBound
<1>4. n \in Int /\ lb <= n /\ n <= ub /\ n \in Nat
  BY <1>3
<1>5. cmp = IF big THEN -1 ELSE IF n < m THEN -1 ELSE IF n > m THEN 1 ELSE 0
  <2>1. /\ Number(n)[1] = n /\ Number(n)[2] = 0 /\ Number(n)[3] = 0
        /\ Number(n)[4] = 0
    BY DEF Number
  <2>2. \A k \in Nat : k # 0 => Sign(0, k) = -1
    BY DEF Sign
  <2>3. big <=> e.val[4] # 0 \/ e.val[3] # 0 \/ e.val[2] # 0
    OBVIOUS
  <2>4. e.val[4] \in Nat /\ e.val[3] \in Nat /\ e.val[2] \in Nat
    BY <1>1
  <2> HIDE DEF big
  <2>5. CASE big
    BY <2>1, <2>2, <2>3, <2>4, <2>5 DEF BigNumCompare
  <2>6. CASE ~big
    BY <1>3, <1>4, <2>1, <2>3, <2>6 DEF BigNumCompare, Sign
  <2> QED BY <2>5, <2>6
<1> HIDE DEF big, lb, ub, m, cmp
<1>6. ASSUME NEW b \in BOOLEAN, EvalTest(e) = {b}
      PROVE  Holds(e.kind, cmp) <=> b
  <2>1. Outcomes(e.kind, lb, ub, big, m) = {b}
    BY <1>2, <1>6
  <2>2. big \in BOOLEAN
    BY DEF big
  <2>0. b = TRUE \/ b = FALSE
    OBVIOUS
  <2>3. ASSUME NEW c \in BOOLEAN, NEW d \in BOOLEAN,
               (IF c THEN {FALSE} ELSE IF d THEN {TRUE} ELSE BOOLEAN) = {b}
        PROVE  (c /\ ~b) \/ (~c /\ d /\ b)
    BY <2>3, <2>0, ResultsApart, Zenon
  <2>4. ASSUME NEW c \in BOOLEAN, NEW d \in BOOLEAN,
               (IF c THEN {TRUE} ELSE IF d THEN {FALSE} ELSE BOOLEAN) = {b}
        PROVE  (c /\ b) \/ (~c /\ d /\ ~b)
    BY <2>4, <2>0, ResultsApart, Zenon
  <2> DEFINE O == Outcomes(e.kind, lb, ub, big, m)
             out == big \/ m < lb \/ m > ub
             same == lb = ub
             above == big \/ m > ub
             atub == big \/ m >= ub
             atlb == m <= lb
             below == m < lb
  <2>5. /\ out \in BOOLEAN /\ same \in BOOLEAN /\ above \in BOOLEAN
        /\ atub \in BOOLEAN /\ atlb \in BOOLEAN /\ below \in BOOLEAN
    OBVIOUS
  <2>6. CASE e.kind = "EQ"
    <3>1. O = IF out THEN {FALSE} ELSE IF same THEN {TRUE} ELSE BOOLEAN
      BY <2>6 DEF Outcomes
    <3> HIDE DEF out, same, O
    <3>2. (out /\ ~b) \/ (~out /\ same /\ b)
      BY <2>1, <2>3, <2>5, <3>1, Zenon DEF O
    <3> QED BY <1>3, <1>4, <1>5, <2>2, <2>6, <3>2 DEF out, same, Holds
  <2>7. CASE e.kind = "NEQ"
    <3>1. O = IF out THEN {TRUE} ELSE IF same THEN {FALSE} ELSE BOOLEAN
      BY <2>7 DEF Outcomes
    <3> HIDE DEF out, same, O
    <3>2. (out /\ b) \/ (~out /\ same /\ ~b)
      BY <2>1, <2>4, <2>5, <3>1, Zenon DEF O
    <3> QED BY <1>3, <1>4, <1>5, <2>2, <2>7, <3>2 DEF out, same, Holds
  <2>8. CASE e.kind = "LT"
    <3>1. O = IF above THEN {TRUE} ELSE IF atlb THEN {FALSE} ELSE BOOLEAN
      BY <2>8 DEF Outcomes
    <3> HIDE DEF above, atlb, O
    <3>2. (above /\ b) \/ (~above /\ atlb /\ ~b)
      BY <2>1, <2>4, <2>5, <3>1, Zenon DEF O
    <3> QED BY <1>3, <1>4, <1>5, <2>2, <2>8, <3>2 DEF above, atlb, Holds
  <2>9. CASE e.kind = "LEQ"
    <3>1. O = IF atub THEN {TRUE} ELSE IF below THEN {FALSE} ELSE BOOLEAN
      BY <2>9 DEF Outcomes
    <3> HIDE DEF atub, below, O
    <3>2. (atub /\ b) \/ (~atub /\ below /\ ~b)
      BY <2>1, <2>4, <2>5, <3>1, Zenon DEF O
    <3> QED BY <1>3, <1>4, <1>5, <2>2, <2>9, <3>2 DEF atub, below, Holds
  <2>10. CASE e.kind = "GT"
    <3>1. O = IF atub THEN {FALSE} ELSE IF below THEN {TRUE} ELSE BOOLEAN
      BY <2>10 DEF Outcomes
    <3> HIDE DEF atub, below, O
    <3>2. (atub /\ ~b) \/ (~atub /\ below /\ b)
      BY <2>1, <2>3, <2>5, <3>1, Zenon DEF O
    <3> QED BY <1>3, <1>4, <1>5, <2>2, <2>10, <3>2 DEF atub, below, Holds
  <2>11. CASE e.kind = "GEQ"
    <3>1. O = IF above THEN {FALSE} ELSE IF atlb THEN {TRUE} ELSE BOOLEAN
      BY <2>11 DEF Outcomes
    <3> HIDE DEF above, atlb, O
    <3>2. (above /\ ~b) \/ (~above /\ atlb /\ b)
      BY <2>1, <2>3, <2>5, <3>1, Zenon DEF O
    <3> QED BY <1>3, <1>4, <1>5, <2>2, <2>11, <3>2 DEF above, atlb, Holds
  <2> QED BY <1>1, <2>6, <2>7, <2>8, <2>9, <2>10, <2>11 DEF Tests
<1>7. EvalTest(e) \in {{TRUE}, {FALSE}}
  BY <1>1, <1>2 DEF Outcomes, Tests
<1>8. PICK b \in BOOLEAN : EvalTest(e) = {b}
  BY <1>7
<1>9. Holds(e.kind, cmp) = b
  <2>1. Holds(e.kind, cmp) \in BOOLEAN
    BY DEF Holds
  <2> QED BY <1>6, <1>8, <2>1
<1> QED BY <1>8, <1>9 DEF cmp

(***************************************************************************)
(* A test that WinDivertEvalTest leaves to the driver compares a field     *)
(* other than ZERO with a value in its range.                              *)
(***************************************************************************)
LEMMA PlacedInRange ==
  ASSUME NEW e \in TestExprs, EvalTest(e) = BOOLEAN
  PROVE  /\ e.var \in Fields \ {"ZERO"}
         /\ e.var \notin {"IPV6_SRCADDR", "IPV6_DSTADDR"} =>
              /\ e.val[2] = 0 /\ e.val[3] = 0 /\ e.val[4] = 0
              /\ e.val[1] <= UpperBound(e.var)
<1>0. e.kind \in Tests /\ e.var \in Variables /\ e.val \in [1..4 -> Nat]
  BY DEF TestExprs, Words
<1> DEFINE big == \E w \in 2..4 : e.val[w] # 0
<1>1. ASSUME e.var \notin {"IPV6_SRCADDR", "IPV6_DSTADDR"}
      PROVE  ~big /\ e.val[1] <= UpperBound(e.var) /\ LowerBound(e.var) # UpperBound(e.var)
  <2>1. Outcomes(e.kind, LowerBound(e.var), UpperBound(e.var), big, e.val[1]) = BOOLEAN
    BY <1>1 DEF EvalTest
  <2>2. LowerBound(e.var) \in Int /\ UpperBound(e.var) \in Int
    BY Limits DEF LowerBound, UpperBound
  <2>3. e.val[1] \in Int
    BY <1>0
  <2>4. big \in BOOLEAN
    OBVIOUS
  <2> HIDE DEF big
  <2> QED BY <1>0, <2>1, <2>2, <2>3, <2>4, TwoResults
<1>2. e.var \notin {"TRUE", "FALSE"}
  <2>1. LowerBound("TRUE") = 1 /\ UpperBound("TRUE") = 1
    BY DEF LowerBound, UpperBound, FieldsOf
  <2>2. LowerBound("FALSE") = 0 /\ UpperBound("FALSE") = 0
    BY DEF LowerBound, UpperBound, FieldsOf
  <2> QED BY <1>1, <2>1, <2>2
<1>3. e.var \in Fields \ {"ZERO"}
  BY <1>0, <1>2 DEF Variables
<1> QED BY <1>1, <1>3

-----------------------------------------------------------------------------
(***************************************************************************)
(* The tokenizer, when it finds no error: the tokens fit, so that the pool *)
(* has room for an EXPR per token.                                         *)
(***************************************************************************)
LEMMA TokenizeSound ==
  ASSUME NEW s \in Seq(Lexemes), NEW l, Tokenize(s, l).error = NoError
  PROVE  IsTokens(Tokenize(s, l).toks)
<1> DEFINE toks == Append(s, End)
           wrong == {i \in DOMAIN toks : TokenError(toks[i], i, l) # "NONE"}
           first == CHOOSE i \in wrong : \A j \in wrong : i <= j
<1>1. /\ toks \in Seq(Lexemes \cup {End}) /\ Len(toks) = Len(s) + 1
      /\ toks[Len(toks)] = End /\ DOMAIN toks = 1..Len(toks) /\ Len(s) \in Nat
  <2> HIDE DEF End
  <2>1. s \in Seq(Lexemes \cup {End}) /\ End \in Lexemes \cup {End}
    OBVIOUS
  <2> HIDE DEF Lexemes
  <2> QED BY <2>1
<1>2. Tokenize(s, l).toks = toks
  BY DEF Tokenize
<1>3. Tokenize(s, l).error = IF wrong = {} THEN NoError
                             ELSE Error(TokenError(toks[first], first, l), first)
  BY DEF Tokenize
<1> HIDE DEF toks
<1>4. wrong = {}
  <2> SUFFICES ASSUME wrong # {} PROVE FALSE
    OBVIOUS
  <2>1. wrong \subseteq Nat
    BY <1>1
  <2>2. \E i \in wrong : \A j \in wrong : i <= j
    <3> HIDE DEF wrong
    <3> QED BY <2>1, LeastNumber
  <2>3. first \in wrong
    <3> HIDE DEF wrong
    <3> QED BY <2>2
  <2>4. TokenError(toks[first], first, l) # "NONE"
    BY <2>3
  <2>5. Error(TokenError(toks[first], first, l), first) = NoError
    BY <1>3
  <2> HIDE DEF first
  <2> QED BY <2>4, <2>5 DEF Error, NoError
<1>5. TokenError(toks[Len(toks)], Len(toks), l) = "NONE"
  BY <1>1, <1>4
<1>6. ~(Len(toks) >= TokensMax)
  BY <1>5 DEF TokenError
<1>7. Len(toks) \in 1..PoolMax
  BY <1>1, <1>6, Limits
<1> QED BY <1>1, <1>2, <1>7 DEF IsTokens, End, Token

(***************************************************************************)
(* An instruction that is emitted for a test of the stack.                 *)
(***************************************************************************)
Takes(o, i, n) ==
  \/ Valid(o, i, n)
  \/ o.field = "IP_TOS" /\ o.arg[1] > 255

Typed(o) == o.arg \in Words /\ o.success \in Labels /\ o.failure \in Labels

(***************************************************************************)
(* A label below that of a test is emitted as a jump forward.              *)
(***************************************************************************)
LEMMA EmitLabelSound ==
  ASSUME NEW label \in 0..MaxLen - 1, NEW m \in 1..label + 1,
         NEW t, IsTarget(t, m - 1)
  PROVE  /\ ValidJump(EmitLabel(t, label), label - m + 1, label + 1)
         /\ EmitLabel(t, label) \in Labels
<1>1. CASE t \in {Accept, Reject}
  BY <1>1, Limits DEF EmitLabel, ValidJump, Labels, Accept, Reject
<1>2. CASE t \notin {Accept, Reject}
  <2>1. t \in 0..m - 2
    BY <1>2, Limits DEF IsTarget
  <2>2. EmitLabel(t, label) = label - t
    BY <1>2 DEF EmitLabel
  <2>3. /\ label - m + 1 < label - t /\ label - t < label + 1
        /\ label - t \in Labels
    BY <2>1, Limits DEF Labels, Reject
  <2> QED BY <2>2, <2>3 DEF ValidJump
<1> QED BY <1>1, <1>2

(***************************************************************************)
(* The instruction emitted for a placed test jumps forward only, and       *)
(* windivert_filter_compile takes it, unless it compares ip.TOS with more  *)
(* than a byte.                                                            *)
(***************************************************************************)
LEMMA EmitTestSound ==
  ASSUME NEW label \in 0..MaxLen - 1, NEW m \in 1..label + 1, NEW s, Placed(s, m - 1)
  PROVE  /\ Takes(EmitTest(s, label), label - m + 1, label + 1)
         /\ Typed(EmitTest(s, label))
<1> DEFINE o == EmitTest(s, label)
           e == s.test
<1> SUFFICES Takes(o, label - m + 1, label + 1) /\ Typed(o)
  OBVIOUS
<1>0. /\ e \in TestExprs /\ EvalTest(e) = BOOLEAN
      /\ IsTarget(s.succ, m - 1) /\ IsTarget(s.fail, m - 1)
  BY DEF Placed
<1>1. /\ o.field = e.var /\ o.test = e.kind /\ o.arg = e.val
      /\ o.success = EmitLabel(s.succ, label) /\ o.failure = EmitLabel(s.fail, label)
  BY DEF EmitTest
<1> HIDE DEF o, e
<1>2. ValidJump(o.success, label - m + 1, label + 1)
      /\ ValidJump(o.failure, label - m + 1, label + 1)
      /\ o.success \in Labels /\ o.failure \in Labels
  BY <1>0, <1>1, EmitLabelSound
<1>3. e.kind \in Tests /\ e.val \in [1..4 -> Nat]
  BY <1>0 DEF TestExprs, Words
<1>4. /\ e.var \in Fields \ {"ZERO"}
      /\ e.var \notin {"IPV6_SRCADDR", "IPV6_DSTADDR"} =>
           /\ e.val[2] = 0 /\ e.val[3] = 0 /\ e.val[4] = 0
           /\ e.val[1] <= UpperBound(e.var)
  BY <1>0, PlacedInRange
<1>5. e.val[1] \in Nat /\ Typed(o)
  BY <1>1, <1>2, <1>3 DEF Typed, Words
<1>6. CASE e.var \in {"IPV6_SRCADDR", "IPV6_DSTADDR"}
  <2>1. ArgFits(e.var, e.val[1])
    BY <1>6 DEF ArgFits, FieldsOf
  <2>2. ValidArg(o)
    BY <1>1, <1>6, <2>1 DEF ValidArg
  <2> QED BY <1>1, <1>5, <1>2, <1>3, <1>4, <2>2 DEF Takes, Valid
<1>7. CASE e.var \notin {"IPV6_SRCADDR", "IPV6_DSTADDR"} /\ ~(e.var = "IP_TOS" /\ e.val[1] > 255)
  <2>1. e.var # "IP_TOS" \/ e.val[1] <= 255
    BY <1>5, <1>7
  <2>2. ArgFits(e.var, e.val[1])
    BY <1>4, <1>5, <1>7, <2>1, UpperBounds
  <2>3. ValidArg(o)
    BY <1>1, <1>4, <1>7, <2>2 DEF ValidArg
  <2> QED BY <1>1, <1>5, <1>2, <1>3, <1>4, <2>3 DEF Takes, Valid
<1>8. CASE e.var = "IP_TOS" /\ e.val[1] > 255
  BY <1>1, <1>5, <1>8 DEF Takes
<1> QED BY <1>5, <1>6, <1>7, <1>8

(***************************************************************************)
(* A whole program: at least one instruction, at most MaxLen.              *)
(***************************************************************************)
IsObject(object) ==
  /\ Len(object) \in 1..MaxLen /\ DOMAIN object = 1..Len(object)
  /\ \A i \in 1..Len(object) : Takes(object[i], i - 1, Len(object)) /\ Typed(object[i])

(***************************************************************************)
(* WinDivertEmitFilter emits an object that is not empty, not longer than  *)
(* MaxLen, and whose instructions are as EmitTestSound says.               *)
(***************************************************************************)
LEMMA EmitFilterSound ==
  ASSUME NEW fl, FlatSound(fl), NEW label, IsTarget(label, Len(fl.stack))
  PROVE  IsObject(EmitFilter(fl.stack, label))
<1> DEFINE object == EmitFilter(fl.stack, label)
<1>0. Len(fl.stack) \in 0..MaxLen
  BY FlatTypes
<1>1. CASE label \in {Accept, Reject}
  <2> DEFINE o == [field |-> "ZERO", test |-> IF label = Accept THEN "EQ" ELSE "NEQ",
                   arg |-> Zero, success |-> Accept, failure |-> Reject]
  <2>1. object = <<o>>
    BY <1>1 DEF EmitFilter
  <2>2. /\ o.field = "ZERO" /\ o.test \in Tests /\ o.arg = <<0, 0, 0, 0>>
        /\ o.success = Accept /\ o.failure = Reject
    BY DEF Zero, Tests
  <2> HIDE DEF o, object
  <2>3. "ZERO" \in Fields
    <3>1. "ZERO" \in FieldsOf["NONE"] /\ "NONE" \in Protocols
      BY DEF FieldsOf, Protocols
    <3> HIDE DEF FieldsOf
    <3> QED BY <3>1 DEF Fields
  <2>4. ValidArg(o)
    <3>1. o.arg[1] = 0 /\ o.arg[2] = 0 /\ o.arg[3] = 0 /\ o.arg[4] = 0
      BY <2>2
    <3>2. ArgFits(o.field, 0)
      BY DEF ArgFits
    <3> QED BY <3>1, <3>2 DEF ValidArg
  <2>5. Valid(o, 0, 1)
    BY <2>2, <2>3, <2>4 DEF Valid, ValidJump
  <2>6. Len(object) = 1 /\ DOMAIN object = 1..1 /\ object[1] = o
    BY <2>1
  <2>8. Typed(o)
    BY <2>2, Limits DEF Typed, Words, Labels, Accept, Reject
  <2>7. \A i \in 1..1 : i = 1 /\ i - 1 = 0
    OBVIOUS
  <2> QED BY <2>5, <2>6, <2>7, <2>8, Limits DEF IsObject, Takes, object
<1>2. CASE label \notin {Accept, Reject}
  <2>1. label \in 0..Len(fl.stack) - 1 /\ label \in 0..MaxLen - 1
    BY <1>0, <1>2, Limits DEF IsTarget
  <2>2. object = [i \in 1..label + 1 |-> EmitTest(fl.stack[label - i + 2], label)]
    BY <1>2 DEF EmitFilter, EmitTests
  <2> HIDE DEF object
  <2>3. DOMAIN object = 1..label + 1 /\ label + 1 \in Nat
    BY <2>1, <2>2
  <2>4. Len(object) = label + 1
    BY <2>3
  <2>5. ASSUME NEW i \in 1..label + 1
        PROVE  Takes(object[i], i - 1, label + 1) /\ Typed(object[i])
    <3> DEFINE m == label - i + 2
    <3>1. m \in 1..label + 1 /\ m \in 1..Len(fl.stack) /\ label - m + 1 = i - 1
      BY <1>0, <2>1
    <3>2. object[i] = EmitTest(fl.stack[m], label)
      BY <2>2
    <3> HIDE DEF m
    <3>3. Placed(fl.stack[m], m - 1)
      BY <3>1 DEF FlatSound
    <3>4. /\ Takes(EmitTest(fl.stack[m], label), label - m + 1, label + 1)
          /\ Typed(EmitTest(fl.stack[m], label))
      BY <2>1, <3>1, <3>3, EmitTestSound
    <3> QED BY <3>1, <3>2, <3>4
  <2>6. label + 1 \in 1..MaxLen
    BY <2>1, Limits
  <2> QED BY <2>3, <2>4, <2>5, <2>6 DEF IsObject, object
<1> QED BY <1>1, <1>2

(***************************************************************************)
(* The compilation of a string: it is refused, though never for a want of  *)
(* EXPRs, or there is a program that the driver takes.                     *)
(***************************************************************************)
LEMMA CompileFilterSound ==
  ASSUME NEW s \in Seq(Lexemes), NEW l
  PROVE  LET c == CompileFilter(s, l) IN
         /\ c.error.code # "NO_MEMORY"
         /\ \/ c.error.code # "NONE" /\ c.object = <<>>
            \/ c.error = NoError /\ IsObject(c.object)
<1> DEFINE tok  == Tokenize(s, l)
           st   == ParseString(tok.toks)
           fl   == [stack |-> <<>>, label |-> 0, fault |-> FALSE]
           flat == Flatten(st.pool)[st.expr][<<fl, Accept, Reject>>]
           c    == CompileFilter(s, l)
<1>1. c = IF tok.error # NoError THEN Refused(tok.error)
          ELSE IF st.expr = Null THEN Refused(st.error)
          ELSE IF tok.toks[st.i] # End THEN Refused(Error("UNEXPECTED_TOKEN", st.i))
          ELSE IF flat.fault THEN Refused(Error("FAULT", 0))
          ELSE IF flat.label = NoLabel THEN Refused(Error("TOO_LONG", 0))
          ELSE [error |-> NoError, object |-> EmitFilter(flat.stack, flat.label)]
  BY DEF CompileFilter
<1>2. /\ tok.error.code # "NO_MEMORY"
      /\ tok.error # NoError => tok.error.code # "NONE"
  <2> DEFINE t == Append(s, End)
             w == {i \in DOMAIN t : TokenError(t[i], i, l) # "NONE"}
             a == CHOOSE i \in w : \A j \in w : i <= j
  <2>1. tok.error = IF w = {} THEN NoError ELSE Error(TokenError(t[a], a, l), a)
    BY DEF Tokenize
  <2> HIDE DEF w, a, t, tok
  <2>2. TokenError(t[a], a, l) # "NO_MEMORY"
    BY DEF TokenError
  <2>3. w # {} => TokenError(t[a], a, l) # "NONE"
    <3> SUFFICES ASSUME w # {} PROVE a \in w
      BY DEF w
    <3>1. w \subseteq Nat
      BY DEF w, t
    <3>2. \E i \in w : \A j \in w : i <= j
      BY <3>1, LeastNumber
    <3> QED BY <3>2 DEF a
  <2> QED BY <2>1, <2>2, <2>3 DEF NoError, Error
<1>3. ASSUME NEW e, e.code \notin {"NO_MEMORY", "NONE"}, c = Refused(e)
      PROVE  c.error.code \notin {"NO_MEMORY", "NONE"} /\ c.object = <<>>
  BY <1>3 DEF Refused
<1>4. CASE tok.error # NoError
  <2>1. c = Refused(tok.error)
    BY <1>1, <1>4
  <2> HIDE DEF c, tok
  <2> QED BY <1>2, <1>3, <1>4, <2>1 DEF c
<1>5. CASE tok.error = NoError
  <2>1. IsTokens(tok.toks)
    BY <1>5, TokenizeSound
  <2>2. Sound(tok.toks, st) /\ Tells(st)
    <3> HIDE DEF tok
    <3> QED BY <2>1, ParseStringSound
  <2>3. FlatSound(fl) /\ Len(fl.stack) = 0
    <3>1. fl \in Flats /\ fl.stack = <<>>
      BY Limits DEF Flats, NoLabel, Reject
    <3> QED BY <3>1, Limits DEF FlatSound
  <2>4. MayTarget(Accept, Len(fl.stack)) /\ MayTarget(Reject, Len(fl.stack))
    BY DEF MayTarget, IsTarget
  <2> HIDE DEF st, fl, tok
  <2>5. FlatDone(fl, flat)
    <3>1. IsPool(st.pool) /\ (st.expr = Null \/ IsExpr(st.pool, st.expr))
      BY <2>2 DEF Sound
    <3>2. IsFlatAt(Flatten(st.pool), st.expr)
      BY <3>1, FlattenSound
    <3> QED BY <2>3, <2>4, <3>2 DEF IsFlatAt
  <2>6. FlatSound(flat) /\ MayTarget(flat.label, Len(flat.stack))
    BY <2>5 DEF FlatDone
  <2>7. st.expr = Null => st.error.code \notin {"NO_MEMORY", "NONE"}
    BY <2>2 DEF Sound, Tells
  <2> HIDE DEF flat, c
  <2>8. CASE st.expr = Null
    <3>1. c = Refused(st.error)
      BY <1>1, <1>5, <2>8
    <3> QED BY <1>3, <2>7, <2>8, <3>1 DEF c
  <2>9. CASE st.expr # Null /\ tok.toks[st.i] # End
    <3>1. c = Refused(Error("UNEXPECTED_TOKEN", st.i))
      BY <1>1, <1>5, <2>9
    <3>2. Error("UNEXPECTED_TOKEN", st.i).code \notin {"NO_MEMORY", "NONE"}
      BY DEF Error
    <3> QED BY <1>3, <3>1, <3>2 DEF c
  <2>10. CASE st.expr # Null /\ tok.toks[st.i] = End /\ flat.fault
    <3>1. c = Refused(Error("FAULT", 0))
      BY <1>1, <1>5, <2>10
    <3>2. Error("FAULT", 0).code \notin {"NO_MEMORY", "NONE"}
      BY DEF Error
    <3> QED BY <1>3, <3>1, <3>2 DEF c
  <2>11. CASE st.expr # Null /\ tok.toks[st.i] = End /\ ~flat.fault /\ flat.label = NoLabel
    <3>1. c = Refused(Error("TOO_LONG", 0))
      BY <1>1, <1>5, <2>11
    <3>2. Error("TOO_LONG", 0).code \notin {"NO_MEMORY", "NONE"}
      BY DEF Error
    <3> QED BY <1>3, <3>1, <3>2 DEF c
  <2>12. CASE st.expr # Null /\ tok.toks[st.i] = End /\ ~flat.fault /\ flat.label # NoLabel
    <3>1. c = [error |-> NoError, object |-> EmitFilter(flat.stack, flat.label)]
      BY <1>1, <1>5, <2>12
    <3>2. IsTarget(flat.label, Len(flat.stack))
      BY <2>6, <2>12 DEF MayTarget
    <3>3. IsObject(EmitFilter(flat.stack, flat.label))
      BY <2>6, <3>2, EmitFilterSound
    <3>4. c.error = NoError /\ IsObject(c.object)
      BY <3>1, <3>3
    <3> QED BY <3>4 DEF c, NoError, Error
  <2> QED BY <2>8, <2>9, <2>10, <2>11, <2>12
<1> QED BY <1>4, <1>5

-----------------------------------------------------------------------------
(***************************************************************************)
(* The result in the pipeline is the one of the compilation.               *)
(***************************************************************************)
PipelineInv ==
  /\ str \in Strings
  /\ result.error.code \in {"NOT_YET", "HEAP"} \/ result = CompileFilter(str, layer)

(***************************************************************************)
(* What is sent to the driver is always the object of the string.          *)
(***************************************************************************)
LEMMA PipelineInvariance == PipelineSpec => []PipelineInv
<1>1. PipelineInit => PipelineInv
  BY DEF PipelineInit, PipelineInv, NotYet, Refused, Error
<1>2. PipelineInv /\ [PipelineNext]_<<vars, pvars>> => PipelineInv'
  <2> SUFFICES ASSUME PipelineInv, [PipelineNext]_<<vars, pvars>> PROVE PipelineInv'
    OBVIOUS
  <2>1. CASE Compile
    <3>1. str' = str /\ layer' = layer
      BY <2>1 DEF Compile
    <3>2. CASE result' = CompileFilter(str, layer)
      BY <3>1, <3>2 DEF PipelineInv
    <3>3. CASE result' = Refused(Error("HEAP", 0))
      BY <3>1, <3>3 DEF PipelineInv, Refused, Error
    <3> QED BY <2>1, <3>2, <3>3 DEF Compile
  <2>2. CASE UNCHANGED pvars
    BY <2>2 DEF PipelineInv, pvars
  <2>3. Receive \/ Driver \/ Finished \/ UNCHANGED <<vars, pvars>> => UNCHANGED pvars
    BY DEF Receive, Driver, Finished
  <2> QED BY <2>1, <2>2, <2>3 DEF PipelineNext
<1> QED BY <1>1, <1>2, PTL DEF PipelineSpec

(***************************************************************************)
(* For every filter string: what WinDivertCompileFilter emits,             *)
(* windivert_filter_compile takes, except for a test of ip.TOS with more   *)
(* than a byte.                                                            *)
(***************************************************************************)
THEOREM DriverTakesHolds == PipelineSpec => []DriverTakes
<1>1. PipelineInv => DriverTakes
  <2> SUFFICES ASSUME PipelineInv, result.error = NoError
               PROVE  IsObject(result.object)
    BY DEF DriverTakes, Takes, IsObject
  <2>1. result.error.code = "NONE"
    BY DEF NoError, Error
  <2>2. result = CompileFilter(str, layer) /\ str \in Seq(Lexemes)
    BY <2>1, PipelineAssumption DEF PipelineInv
  <2> QED BY <2>1, <2>2, CompileFilterSound
<1> QED BY <1>1, PipelineInvariance, PTL

(***************************************************************************)
(* For every filter string, compiling it does not exhaust the pool of      *)
(* EXPRs, which WinDivertCompileFilter sizes by the number of tokens: the  *)
(* code NO_MEMORY is only that of a pool that could not be had.            *)
(***************************************************************************)
THEOREM PoolSuffices ==
  \A s \in Seq(Lexemes), l \in Layers : CompileFilter(s, l).error.code # "NO_MEMORY"
BY CompileFilterSound

-----------------------------------------------------------------------------
(***************************************************************************)
(* The value of an expression.  It depends on those at lower places in the *)
(* pool, so there is such a function.                                      *)
(***************************************************************************)
IsValue(p, pool, value, N) == value = [k \in 0..N |-> ExprValue(p, pool, value, k)]

(***************************************************************************)
(* The value at a place, by those below it.                                *)
(***************************************************************************)
LEMMA ValueLocal ==
  ASSUME NEW p, NEW pool, IsPool(pool), NEW k \in 0..Len(pool), NEW f, NEW g,
         \A j \in 0..k - 1 : f[j] = g[j]
  PROVE  ExprValue(p, pool, f, k) = ExprValue(p, pool, g, k)
<1>0. Len(pool) \in Nat
  BY DEF IsPool
<1>1. CASE k = Null
  BY <1>1 DEF ExprValue
<1>2. CASE k # Null
  <2>1. k \in 1..Len(pool) /\ ArgsMade(pool, k)
    BY <1>0, <1>2 DEF IsPool, Null
  <2> DEFINE e == pool[k]
  <2>2. CASE e.kind = "AND"
    <3>1. e.arg[1] \in 0..k - 1 /\ e.arg[2] \in 0..k - 1
      BY <2>1, <2>2 DEF ArgsMade
    <3>2. f[e.arg[1]] = g[e.arg[1]] /\ f[e.arg[2]] = g[e.arg[2]]
      BY <3>1
    <3> QED BY <2>2, <3>2 DEF ExprValue
  <2>3. CASE e.kind = "OR"
    <3>1. e.arg[1] \in 0..k - 1 /\ e.arg[2] \in 0..k - 1
      BY <2>1, <2>3 DEF ArgsMade
    <3>2. f[e.arg[1]] = g[e.arg[1]] /\ f[e.arg[2]] = g[e.arg[2]]
      BY <3>1
    <3> QED BY <2>3, <3>2 DEF ExprValue
  <2>4. CASE e.kind = "QUESTION"
    <3>1. e.arg[1] \in 0..k - 1 /\ e.arg[2] \in 0..k - 1 /\ e.arg[3] \in 0..k - 1
      BY <2>1, <2>4 DEF ArgsMade
    <3>2. /\ f[e.arg[1]] = g[e.arg[1]] /\ f[e.arg[2]] = g[e.arg[2]]
          /\ f[e.arg[3]] = g[e.arg[3]]
      BY <3>1
    <3> QED BY <2>4, <3>2 DEF ExprValue
  <2>5. CASE e.kind \notin {"AND", "OR", "QUESTION"}
    BY <1>2, <2>5 DEF ExprValue
  <2> QED BY <2>2, <2>3, <2>4, <2>5
<1> QED BY <1>1, <1>2

(***************************************************************************)
(* There is a function with these values, place by place.                  *)
(***************************************************************************)
LEMMA ValueExists ==
  ASSUME NEW p, NEW pool, IsPool(pool), NEW N \in Nat, N = Len(pool)
  PROVE  \E value : IsValue(p, pool, value, N)
<1> DEFINE B(f, k) == ExprValue(p, pool, f, k)
           S == {n \in 0..N : \E f : f = [k \in 0..n |-> B(f, k)]}
<1>1. ASSUME NEW k \in 0..N, NEW f, NEW g, \A j \in 0..k - 1 : f[j] = g[j]
      PROVE  B(f, k) = B(g, k)
  BY <1>1, ValueLocal
<1> HIDE DEF B
<1>2. 0 \in S
  <2> DEFINE f == [k \in 0..0 |-> B(0, 0)]
  <2>1. \A k \in 0..0 : k = 0 /\ B(0, 0) = B(f, k)
    <3>1. \A k \in 0..0 : k = 0
      OBVIOUS
    <3>2. 0 \in 0..N /\ \A j \in 0..0 - 1 : FALSE
      OBVIOUS
    <3>3. B(0, 0) = B(f, 0)
      <4> HIDE DEF f
      <4> QED BY <1>1, <3>2
    <3> HIDE DEF f
    <3> QED BY <3>1, <3>3
  <2>2. f = [k \in 0..0 |-> B(f, k)]
    BY <2>1
  <2> HIDE DEF f
  <2> QED BY <2>2
<1>3. ASSUME NEW n \in 1..N, n - 1 \in S PROVE n \in S
  <2>1. PICK f : f = [k \in 0..n - 1 |-> B(f, k)]
    BY <1>3
  <2> DEFINE g == [k \in 0..n |-> IF k = n THEN B(f, n) ELSE f[k]]
  <2>2. \A j \in 0..n - 1 : f[j] = g[j]
    OBVIOUS
  <2>3. ASSUME NEW k \in 0..n PROVE g[k] = B(g, k)
    <3>1. B(f, k) = B(g, k)
      <4>1. \A j \in 0..k - 1 : j \in 0..n - 1
        OBVIOUS
      <4>2. k \in 0..N
        OBVIOUS
      <4> HIDE DEF g
      <4> QED BY <1>1, <2>2, <4>1, <4>2
    <3>2. CASE k = n
      <4>1. g[k] = B(f, n)
        BY <3>2
      <4> HIDE DEF g
      <4> QED BY <3>1, <3>2, <4>1
    <3>3. CASE k # n
      <4>1. k \in 0..n - 1 /\ g[k] = f[k]
        BY <3>3
      <4>2. f[k] = B(f, k)
        BY <2>1, <4>1
      <4> HIDE DEF g
      <4> QED BY <3>1, <4>1, <4>2
    <3> QED BY <3>2, <3>3
  <2>4. g = [k \in 0..n |-> g[k]]
    OBVIOUS
  <2> HIDE DEF g
  <2>5. g = [k \in 0..n |-> B(g, k)]
    BY <2>3, <2>4
  <2> QED BY <2>5
<1>4. \A n \in 0..N : n \in S
  <2> HIDE DEF S
  <2> QED BY <1>2, <1>3, InductionUpTo
<1>5. N \in S
  BY <1>4
<1> QED BY <1>5 DEF IsValue, B

(***************************************************************************)
(* Value is that function.                                                 *)
(***************************************************************************)
LEMMA ValueAt ==
  ASSUME NEW p, NEW pool, IsPool(pool), NEW k \in 0..Len(pool)
  PROVE  Value(p, pool)[k] = ExprValue(p, pool, Value(p, pool), k)
<1> DEFINE f == CHOOSE h : IsValue(p, pool, h, Len(pool))
<1>1. IsValue(p, pool, f, Len(pool))
  <2>1. Len(pool) \in Nat
    BY DEF IsPool
  <2> QED BY <2>1, ValueExists
<1>2. Value(p, pool) = f
  BY DEF Value, IsValue
<1> HIDE DEF f
<1> QED BY <1>1, <1>2 DEF IsValue

-----------------------------------------------------------------------------
(***************************************************************************)
(* W tells where windivert_filter ends on the packet p when it starts at a *)
(* label of the stack: in acceptance or not.                               *)
(***************************************************************************)
IsRun(p, stack, W) ==
  /\ W[Accept] = TRUE /\ W[Reject] = FALSE
  /\ \A m \in 1..Len(stack) :
       W[m - 1] = IF TestPasses(p, stack[m].test) THEN W[stack[m].succ]
                                                  ELSE W[stack[m].fail]

(***************************************************************************)
(* A stack that grew has the runs of the one it grew from.                 *)
(***************************************************************************)
LEMMA RunOn ==
  ASSUME NEW p, NEW fl, FlatSound(fl), NEW r, FlatSound(r), FlatGrows(fl, r),
         NEW W, IsRun(p, r.stack, W)
  PROVE  IsRun(p, fl.stack, W)
<1>1. Len(fl.stack) \in 0..MaxLen /\ Len(r.stack) \in 0..MaxLen
  BY FlatTypes
<1>2. \A m \in 1..Len(fl.stack) : m \in 1..Len(r.stack) /\ r.stack[m] = fl.stack[m]
  BY <1>1, Limits DEF FlatGrows
<1> QED BY <1>2 DEF IsRun

(***************************************************************************)
(* The label at which an expression starts leads to the label for its      *)
(* value.                                                                  *)
(***************************************************************************)
Means(p, v, r, succ, fail) ==
  r.label # NoLabel =>
    /\ NoLabel \notin {succ, fail}
    /\ \A W : IsRun(p, r.stack, W) => W[r.label] = IF v THEN W[succ] ELSE W[fail]

MeansAt(p, pool, k) ==
  \A fl, succ, fail :
    /\ FlatSound(fl)
    /\ MayTarget(succ, Len(fl.stack)) /\ MayTarget(fail, Len(fl.stack))
    => Means(p, Value(p, pool)[k], Flatten(pool)[k][<<fl, succ, fail>>], succ, fail)

(***************************************************************************)
(* A test that is settled, left out or placed.                             *)
(***************************************************************************)
LEMMA PlaceTestMeans ==
  ASSUME NEW p, NEW fl, FlatSound(fl), NEW e \in TestExprs,
         NEW succ, IsTarget(succ, Len(fl.stack)), NEW fail, IsTarget(fail, Len(fl.stack))
  PROVE  Means(p, TestResult(p, e), PlaceTest(e, fl, succ, fail), succ, fail)
<1> DEFINE r == PlaceTest(e, fl, succ, fail)
           n == Len(fl.stack)
           s == [test |-> e, succ |-> succ, fail |-> fail]
<1>0. /\ fl \in Flats /\ n \in 0..MaxLen
      /\ fl.stack \in Seq([test : Exprs, succ : Labels, fail : Labels])
  BY FlatTypes
<1>1. NoLabel \notin {succ, fail}
  BY <1>0, Limits DEF IsTarget, NoLabel, Accept, Reject
<1> USE ResultsApart
<1>2. CASE EvalTest(e) = {TRUE}
  <2>1. r = [fl EXCEPT !.label = succ]
    BY <1>2 DEF PlaceTest
  <2>2. r.label = succ
    BY <1>0, <2>1 DEF Flats
  <2>3. TestResult(p, e) = TRUE
    BY <1>2 DEF TestResult
  <2> HIDE DEF r
  <2> QED BY <1>1, <2>2, <2>3 DEF Means, r
<1>3. CASE EvalTest(e) = {FALSE}
  <2>1. r = [fl EXCEPT !.label = fail]
    BY <1>3 DEF PlaceTest
  <2>2. r.label = fail
    BY <1>0, <2>1 DEF Flats
  <2>3. TestResult(p, e) = FALSE
    BY <1>3 DEF TestResult
  <2> HIDE DEF r
  <2> QED BY <1>1, <2>2, <2>3 DEF Means, r
<1>4. CASE EvalTest(e) = BOOLEAN /\ n >= MaxLen
  <2>1. r = [fl EXCEPT !.label = NoLabel]
    BY <1>4 DEF PlaceTest
  <2>2. r.label = NoLabel
    BY <1>0, <2>1 DEF Flats
  <2> QED BY <2>2 DEF Means
<1>5. CASE EvalTest(e) = BOOLEAN /\ ~(n >= MaxLen)
  <2>1. r = [fl EXCEPT !.label = n, !.stack = Append(fl.stack, s)]
    BY <1>0, <1>5 DEF PlaceTest, Flats
  <2>2. r.label = n /\ r.stack = Append(fl.stack, s)
    BY <1>0, <2>1 DEF Flats
  <2>3. s.test = e /\ s.succ = succ /\ s.fail = fail
    OBVIOUS
  <2> HIDE DEF s, r
  <2>4. Len(r.stack) = n + 1 /\ r.stack[n + 1] = s /\ n + 1 \in 1..n + 1 /\ (n + 1) - 1 = n
    BY <1>0, <2>2
  <2>5. TestResult(p, e) = TestPasses(p, e)
    BY <1>5 DEF TestResult
  <2>6. ASSUME NEW W, IsRun(p, r.stack, W)
        PROVE  W[n] = IF TestPasses(p, e) THEN W[succ] ELSE W[fail]
    <3> HIDE DEF n
    <3> QED BY <2>3, <2>4, <2>6 DEF IsRun
  <2> QED BY <1>1, <2>2, <2>5, <2>6 DEF Means, r
<1> QED BY <1>2, <1>3, <1>4, <1>5, EvalTestCases

(***************************************************************************)
(* An expression of which the arguments mean what they should.             *)
(***************************************************************************)
LEMMA FlattenExprMeans ==
  ASSUME NEW p, NEW pool, IsPool(pool), NEW k, k = Null \/ IsExpr(pool, k),
         k \in 1..Len(pool) => \A j \in 0..k - 1 :
           j = Null \/ IsExpr(pool, j) =>
             IsFlatAt(Flatten(pool), j) /\ MeansAt(p, pool, j),
         NEW fl, FlatSound(fl), NEW succ, MayTarget(succ, Len(fl.stack)),
         NEW fail, MayTarget(fail, Len(fl.stack))
  PROVE  Means(p, ExprValue(p, pool, Value(p, pool), k),
               FlattenExpr(pool, Flatten(pool), k, fl, succ, fail), succ, fail)
<1> DEFINE F == Flatten(pool)
           V == Value(p, pool)
           r == FlattenExpr(pool, F, k, fl, succ, fail)
           v == ExprValue(p, pool, V, k)
           e == pool[k]
<1>0. fl \in Flats /\ Len(pool) \in Nat
  BY FlatTypes DEF IsPool
<1> HIDE DEF F, V
<1>1. CASE NoLabel \in {succ, fail}
  <2>1. r = [fl EXCEPT !.label = NoLabel]
    BY <1>1 DEF FlattenExpr
  <2>2. r.label = NoLabel
    BY <1>0, <2>1 DEF Flats
  <2> QED BY <2>2 DEF Means, F, V
<1>2. CASE NoLabel \notin {succ, fail} /\ k = Null
  <2>1. r = [fl EXCEPT !.fault = TRUE, !.label = NoLabel]
    BY <1>2 DEF FlattenExpr
  <2>2. r.label = NoLabel
    BY <1>0, <2>1 DEF Flats
  <2> QED BY <2>2 DEF Means, F, V
<1>3. CASE NoLabel \notin {succ, fail} /\ k # Null
  <2>1. /\ k \in 1..Len(pool) /\ IsExpr(pool, k) /\ ArgsMade(pool, k)
        /\ e \in Exprs /\ e.kind # "NUMBER"
    BY <1>3 DEF IsExpr, IsPool
  <2>2. \A j \in 0..k - 1 : j = Null \/ IsExpr(pool, j) => IsFlatAt(F, j)
    BY <2>1 DEF F
  <2>3. ASSUME NEW j \in 0..k - 1, j = Null \/ IsExpr(pool, j),
               NEW a, FlatSound(a), NEW b, MayTarget(b, Len(a.stack)),
               NEW c, MayTarget(c, Len(a.stack))
        PROVE  Means(p, V[j], F[j][<<a, b, c>>], b, c)
    <3>1. MeansAt(p, pool, j)
      BY <2>1, <2>3
    <3> QED BY <2>3, <3>1 DEF MeansAt, F, V
  <2>4. CASE e.kind = "AND"
    <3> DEFINE x == e.arg[1]
               y == e.arg[2]
               s == F[y][<<fl, succ, fail>>]
               q == F[x][<<s, s.label, fail>>]
    <3>1. /\ x \in 0..k - 1 /\ y \in 0..k - 1 /\ IsExpr(pool, x) /\ IsExpr(pool, y)
          /\ IsFlatAt(F, x) /\ IsFlatAt(F, y)
      BY <2>1, <2>2, <2>4 DEF ArgsMade
    <3>2. r = q /\ v = (V[x] /\ V[y])
      BY <1>3, <2>4 DEF FlattenExpr, ExprValue
    <3> HIDE DEF x, y, r, v
    <3>3. FlatDone(fl, s) /\ Means(p, V[y], s, succ, fail)
      BY <2>3, <3>1 DEF IsFlatAt
    <3> HIDE DEF s
    <3>4. FlatSound(s) /\ MayTarget(s.label, Len(s.stack)) /\ MayTarget(fail, Len(s.stack))
      BY <3>3, FlatOn
    <3>5. FlatDone(s, q) /\ Means(p, V[x], q, s.label, fail)
      BY <2>3, <3>1, <3>4 DEF IsFlatAt
    <3> HIDE DEF q
    <3>6. ASSUME q.label # NoLabel, NEW W, IsRun(p, q.stack, W)
          PROVE  W[q.label] = IF V[x] /\ V[y] THEN W[succ] ELSE W[fail]
      <4>1. s.label # NoLabel /\ W[q.label] = IF V[x] THEN W[s.label] ELSE W[fail]
        BY <3>5, <3>6 DEF Means
      <4>2. W[s.label] = IF V[y] THEN W[succ] ELSE W[fail]
        <5>1. IsRun(p, s.stack, W)
          BY <3>4, <3>5, <3>6, RunOn DEF FlatDone
        <5> QED BY <3>3, <4>1, <5>1 DEF Means
      <4> QED BY <4>1, <4>2
    <3>7. Means(p, v, r, succ, fail)
      BY <1>3, <3>2, <3>6 DEF Means
    <3> QED BY <3>7 DEF r, v, F, V
  <2>5. CASE e.kind = "OR"
    <3> DEFINE x == e.arg[1]
               y == e.arg[2]
               s == F[y][<<fl, succ, fail>>]
               q == F[x][<<s, succ, s.label>>]
    <3>1. /\ x \in 0..k - 1 /\ y \in 0..k - 1 /\ IsExpr(pool, x) /\ IsExpr(pool, y)
          /\ IsFlatAt(F, x) /\ IsFlatAt(F, y)
      BY <2>1, <2>2, <2>5 DEF ArgsMade
    <3>2. r = q /\ v = (V[x] \/ V[y])
      BY <1>3, <2>5 DEF FlattenExpr, ExprValue
    <3> HIDE DEF x, y, r, v
    <3>3. FlatDone(fl, s) /\ Means(p, V[y], s, succ, fail)
      BY <2>3, <3>1 DEF IsFlatAt
    <3> HIDE DEF s
    <3>4. FlatSound(s) /\ MayTarget(s.label, Len(s.stack)) /\ MayTarget(succ, Len(s.stack))
      BY <3>3, FlatOn
    <3>5. FlatDone(s, q) /\ Means(p, V[x], q, succ, s.label)
      BY <2>3, <3>1, <3>4 DEF IsFlatAt
    <3> HIDE DEF q
    <3>6. ASSUME q.label # NoLabel, NEW W, IsRun(p, q.stack, W)
          PROVE  W[q.label] = IF V[x] \/ V[y] THEN W[succ] ELSE W[fail]
      <4>1. s.label # NoLabel /\ W[q.label] = IF V[x] THEN W[succ] ELSE W[s.label]
        BY <3>5, <3>6 DEF Means
      <4>2. W[s.label] = IF V[y] THEN W[succ] ELSE W[fail]
        <5>1. IsRun(p, s.stack, W)
          BY <3>4, <3>5, <3>6, RunOn DEF FlatDone
        <5> QED BY <3>3, <4>1, <5>1 DEF Means
      <4> QED BY <4>1, <4>2
    <3>7. Means(p, v, r, succ, fail)
      BY <1>3, <3>2, <3>6 DEF Means
    <3> QED BY <3>7 DEF r, v, F, V
  <2>6. CASE e.kind = "QUESTION"
    <3> DEFINE x == e.arg[1]
               y == e.arg[2]
               z == e.arg[3]
               s == F[z][<<fl, succ, fail>>]
               u == F[y][<<s, succ, fail>>]
               q == F[x][<<u, u.label, s.label>>]
    <3>1. /\ x \in 0..k - 1 /\ y \in 0..k - 1 /\ z \in 0..k - 1
          /\ x = Null \/ IsExpr(pool, x)
          /\ IsExpr(pool, y) /\ IsExpr(pool, z)
          /\ IsFlatAt(F, x) /\ IsFlatAt(F, y) /\ IsFlatAt(F, z)
      BY <2>1, <2>2, <2>6 DEF ArgsMade
    <3>2. r = q /\ v = IF V[x] THEN V[y] ELSE V[z]
      BY <1>3, <2>6 DEF FlattenExpr, ExprValue
    <3> HIDE DEF x, y, z, r, v
    <3>3. FlatDone(fl, s) /\ Means(p, V[z], s, succ, fail)
      BY <2>3, <3>1 DEF IsFlatAt
    <3> HIDE DEF s
    <3>4. /\ FlatSound(s) /\ MayTarget(s.label, Len(s.stack))
          /\ MayTarget(succ, Len(s.stack)) /\ MayTarget(fail, Len(s.stack))
      BY <3>3, FlatOn
    <3>5. FlatDone(s, u) /\ Means(p, V[y], u, succ, fail)
      BY <2>3, <3>1, <3>4 DEF IsFlatAt
    <3> HIDE DEF u
    <3>6. /\ FlatSound(u) /\ MayTarget(u.label, Len(u.stack))
          /\ MayTarget(s.label, Len(u.stack))
      BY <3>4, <3>5, FlatOn
    <3>7. FlatDone(u, q) /\ Means(p, V[x], q, u.label, s.label)
      BY <2>3, <3>1, <3>6 DEF IsFlatAt
    <3> HIDE DEF q
    <3>8. FlatDone(s, q)
      BY <3>4, <3>5, <3>7, FlatDoneOn
    <3>9. ASSUME q.label # NoLabel, NEW W, IsRun(p, q.stack, W)
          PROVE  W[q.label] = IF v THEN W[succ] ELSE W[fail]
      <4>1. /\ s.label # NoLabel /\ u.label # NoLabel
            /\ W[q.label] = IF V[x] THEN W[u.label] ELSE W[s.label]
        BY <3>7, <3>9 DEF Means
      <4>2. W[s.label] = IF V[z] THEN W[succ] ELSE W[fail]
        <5>1. IsRun(p, s.stack, W)
          BY <3>4, <3>8, <3>9, RunOn DEF FlatDone
        <5> QED BY <3>3, <4>1, <5>1 DEF Means
      <4>3. W[u.label] = IF V[y] THEN W[succ] ELSE W[fail]
        <5>1. IsRun(p, u.stack, W)
          BY <3>6, <3>7, <3>9, RunOn DEF FlatDone
        <5> QED BY <3>5, <4>1, <5>1 DEF Means
      <4> QED BY <3>2, <4>1, <4>2, <4>3
    <3>10. Means(p, v, r, succ, fail)
      BY <1>3, <3>2, <3>9 DEF Means
    <3> QED BY <3>10 DEF r, v, F, V
  <2>7. CASE e.kind \notin {"AND", "OR", "QUESTION"}
    <3>1. r = PlaceTest(e, fl, succ, fail) /\ v = TestResult(p, e)
      BY <1>3, <2>7 DEF FlattenExpr, ExprValue
    <3>2. e \in TestExprs
      BY <2>1, <2>7 DEF Exprs, TestExprs
    <3>3. IsTarget(succ, Len(fl.stack)) /\ IsTarget(fail, Len(fl.stack))
      BY <1>3 DEF MayTarget
    <3> HIDE DEF r, v
    <3>4. Means(p, v, r, succ, fail)
      BY <3>1, <3>2, <3>3, PlaceTestMeans
    <3> QED BY <3>4 DEF r, v, F, V
  <2> QED BY <2>4, <2>5, <2>6, <2>7
<1> QED BY <1>1, <1>2, <1>3

(***************************************************************************)
(* Flattening keeps the meaning of every expression, by induction on its   *)
(* place in the pool.                                                      *)
(***************************************************************************)
LEMMA FlattenMeans ==
  ASSUME NEW p, NEW pool, IsPool(pool), NEW k, k = Null \/ IsExpr(pool, k)
  PROVE  MeansAt(p, pool, k)
<1> DEFINE N == Len(pool)
           S == {n \in 0..N : n = Null \/ IsExpr(pool, n) => MeansAt(p, pool, n)}
<1>0. N \in Nat
  BY DEF IsPool
<1>1. ASSUME NEW n \in 0..N, \A m \in 0..n - 1 : m \in S PROVE n \in S
  <2> SUFFICES ASSUME n = Null \/ IsExpr(pool, n),
                      NEW fl, FlatSound(fl), NEW succ, MayTarget(succ, Len(fl.stack)),
                      NEW fail, MayTarget(fail, Len(fl.stack))
               PROVE  Means(p, Value(p, pool)[n], Flatten(pool)[n][<<fl, succ, fail>>],
                            succ, fail)
    BY DEF MeansAt
  <2>1. /\ fl \in Flats /\ Len(fl.stack) \in 0..MaxLen
    BY FlatTypes
  <2>2. succ \in NoLabel..Reject /\ fail \in NoLabel..Reject
    BY <2>1, TargetTypes
  <2>3. Flatten(pool)[n][<<fl, succ, fail>>]
          = FlattenExpr(pool, Flatten(pool), n, fl, succ, fail)
    BY <2>1, <2>2, FlattenAt
  <2>4. Value(p, pool)[n] = ExprValue(p, pool, Value(p, pool), n)
    BY ValueAt
  <2>5. \A j \in 0..n - 1 : j = Null \/ IsExpr(pool, j) =>
          IsFlatAt(Flatten(pool), j) /\ MeansAt(p, pool, j)
    BY <1>1, FlattenSound
  <2> QED BY <2>3, <2>4, <2>5, FlattenExprMeans
<1>2. \A n \in 0..N : n \in S
  <2> HIDE DEF S, N
  <2> QED BY <1>0, <1>1, StrongInductionUpTo
<1>3. k \in 0..N
  BY <1>0 DEF IsExpr, Null
<1> QED BY <1>2, <1>3

-----------------------------------------------------------------------------
(***************************************************************************)
(* A stack has a run: a test only goes on to tests below it.               *)
(***************************************************************************)
LEMMA RunExists ==
  ASSUME NEW p, NEW fl, FlatSound(fl)
  PROVE  \E W \in [Labels -> BOOLEAN] : IsRun(p, fl.stack, W)
<1> DEFINE N == Len(fl.stack)
           next(W, m) == IF TestPasses(p, fl.stack[m].test) THEN W[fl.stack[m].succ]
                                                            ELSE W[fl.stack[m].fail]
           UpTo(W, n) == /\ W[Accept] = TRUE /\ W[Reject] = FALSE
                         /\ \A m \in 1..n : W[m - 1] = next(W, m)
           S == {n \in 0..N : \E W \in [Labels -> BOOLEAN] : UpTo(W, n)}
<1>0. N \in 0..MaxLen /\ N \in Nat
  BY FlatTypes
<1>1. ASSUME NEW m \in 1..N
      PROVE  /\ m - 1 \in Labels /\ m - 1 \notin {Accept, Reject}
             /\ fl.stack[m].succ \in Labels /\ fl.stack[m].fail \in Labels
             /\ \A n \in m..N : n - 1 \notin {fl.stack[m].succ, fl.stack[m].fail}
  <2>1. IsTarget(fl.stack[m].succ, m - 1) /\ IsTarget(fl.stack[m].fail, m - 1)
    BY DEF FlatSound, Placed
  <2> DEFINE a == fl.stack[m].succ
             b == fl.stack[m].fail
  <2>2. /\ a \in {Accept, Reject} \cup (0..m - 2) /\ b \in {Accept, Reject} \cup (0..m - 2)
    <3>1. (m - 1) - 1 = m - 2
      OBVIOUS
    <3> QED BY <2>1, <3>1 DEF IsTarget
  <2> HIDE DEF a, b, N
  <2>3. /\ m - 1 \in Labels /\ m - 1 \notin {Accept, Reject}
        /\ a \in Labels /\ b \in Labels /\ \A n \in m..N : n - 1 \notin {a, b}
    BY <1>0, <2>2, Limits DEF Labels, Accept, Reject
  <2> QED BY <2>3 DEF a, b, N
<1>2. Accept \in Labels /\ Reject \in Labels /\ Accept # Reject
  BY Limits DEF Labels, Accept, Reject
<1>3. 0 \in S
  <2> DEFINE W == [t \in Labels |-> t = Accept]
  <2>1. W \in [Labels -> BOOLEAN] /\ W[Accept] = TRUE /\ W[Reject] = FALSE
    BY <1>2
  <2> HIDE DEF W
  <2>2. UpTo(W, 0)
    BY <2>1
  <2> HIDE DEF UpTo
  <2> QED BY <1>0, <2>1, <2>2
<1>4. ASSUME NEW n \in 1..N, n - 1 \in S PROVE n \in S
  <2>1. PICK W \in [Labels -> BOOLEAN] : UpTo(W, n - 1)
    <3> HIDE DEF UpTo
    <3> QED BY <1>4
  <2> DEFINE X == [W EXCEPT ![n - 1] = next(W, n)]
  <2>2. next(W, n) \in BOOLEAN
    BY <1>1
  <2>3. /\ X \in [Labels -> BOOLEAN] /\ X[n - 1] = next(W, n)
        /\ \A t \in Labels : t # n - 1 => X[t] = W[t]
    <3>1. n - 1 \in Labels
      BY <1>1
    <3> HIDE DEF next
    <3> QED BY <2>2, <3>1
  <2> HIDE DEF X
  <2>4. X[Accept] = TRUE /\ X[Reject] = FALSE
    BY <1>1, <1>2, <2>1, <2>3
  <2>5. ASSUME NEW m \in 1..n PROVE X[m - 1] = next(X, m)
    <3>1. m \in 1..N /\ n \in m..N
      BY <1>0
    <3>2. /\ fl.stack[m].succ \in Labels /\ fl.stack[m].fail \in Labels
          /\ n - 1 \notin {fl.stack[m].succ, fl.stack[m].fail}
      BY <1>1, <3>1
    <3>3. next(X, m) = next(W, m)
      BY <2>3, <3>2
    <3>4. CASE m = n
      <4> HIDE DEF next
      <4> QED BY <2>3, <3>3, <3>4
    <3>5. CASE m # n
      <4>1. m \in 1..n - 1 /\ m - 1 # n - 1
        BY <3>5
      <4>2. W[m - 1] = next(W, m)
        <5> HIDE DEF next
        <5> QED BY <2>1, <4>1
      <4>3. X[m - 1] = W[m - 1]
        BY <1>1, <2>3, <3>1, <4>1
      <4> HIDE DEF next
      <4> QED BY <3>3, <4>2, <4>3
    <3> QED BY <3>4, <3>5
  <2>6. UpTo(X, n)
    <3> HIDE DEF next
    <3> QED BY <2>4, <2>5
  <2>7. n \in 0..N
    BY <1>0
  <2> HIDE DEF UpTo
  <2> QED BY <2>3, <2>6, <2>7
<1>5. N \in S
  <2> HIDE DEF S
  <2>1. \A n \in 0..N : n \in S
    <3> HIDE DEF N
    <3> QED BY <1>0, <1>3, <1>4, InductionUpTo
  <2> QED BY <1>0, <2>1
<1>6. PICK W \in [Labels -> BOOLEAN] : UpTo(W, N)
  <2> HIDE DEF UpTo, N
  <2> QED BY <1>5
<1> QED BY <1>6 DEF IsRun

(***************************************************************************)
(* E tells the same of the labels of a program.                            *)
(***************************************************************************)
IsProgRun(p, prog, E) ==
  /\ E[Accept] = TRUE /\ E[Reject] = FALSE
  /\ \A j \in 0..Len(prog) - 1 :
       E[j] = IF Passes(p, prog[j + 1]) THEN E[prog[j + 1].success]
                                        ELSE E[prog[j + 1].failure]

(***************************************************************************)
(* windivert_filter_compile keeps an instruction, and finds its header.    *)
(***************************************************************************)
CompiledFrom(o) ==
  [field |-> o.field, test |-> o.test, arg |-> o.arg, success |-> o.success,
   failure |-> o.failure, protocol |-> Protocol(o.field)]

AreCompiled(prog, object) ==
  Len(prog) = Len(object) /\ \A j \in 1..Len(prog) : prog[j] = CompiledFrom(object[j])

HasRun(p, prog, value) == \E E : IsProgRun(p, prog, E) /\ E[0] = value

(***************************************************************************)
(* The emitted program has the runs of the stack: its first instruction is *)
(* the test at the label.                                                  *)
(***************************************************************************)
LEMMA EmitRuns ==
  ASSUME NEW p, NEW fl, FlatSound(fl), NEW label, IsTarget(label, Len(fl.stack)),
         NEW W \in [Labels -> BOOLEAN], IsRun(p, fl.stack, W),
         NEW prog, AreCompiled(prog, EmitFilter(fl.stack, label))
  PROVE  HasRun(p, prog, W[label])
<1> SUFFICES \E E : IsProgRun(p, prog, E) /\ E[0] = W[label]
  BY DEF HasRun
<1> DEFINE object == EmitFilter(fl.stack, label)
<1>0. /\ Len(fl.stack) \in 0..MaxLen /\ Accept \in Labels /\ Reject \in Labels
      /\ Accept # Reject /\ 0 \in Labels /\ 0 \notin {Accept, Reject}
  BY FlatTypes, Limits DEF Labels, Accept, Reject
<1>1. CASE label \in {Accept, Reject}
  <2> DEFINE test == IF label = Accept THEN "EQ" ELSE "NEQ"
             o == [field |-> "ZERO", test |-> test,
                   arg |-> Zero, success |-> Accept, failure |-> Reject]
             E == [j \in Labels |-> j = Accept \/ (j = 0 /\ label = Accept)]
             c == prog[1]
  <2>1. object = <<o>>
    BY <1>1 DEF EmitFilter
  <2>2. Len(prog) = 1 /\ c = CompiledFrom(o)
    <3>1. Len(object) = 1 /\ object[1] = o
      BY <2>1
    <3> HIDE DEF object, o
    <3>2. Len(prog) = 1 /\ \A j \in 1..1 : prog[j] = CompiledFrom(object[j])
      BY <3>1 DEF AreCompiled, object
    <3> QED BY <3>1, <3>2
  <2>3. /\ c.field = "ZERO" /\ c.test = test /\ c.arg = Zero /\ c.success = Accept
        /\ c.failure = Reject /\ c.protocol = Protocol("ZERO")
    BY <2>2 DEF CompiledFrom
  <2> HIDE DEF c, o, object, test
  <2>4. Protocol("ZERO") = "NONE"
    <3>1. "ZERO" \in FieldsOf["NONE"] /\ "NONE" \in Protocols
      BY DEF FieldsOf, Protocols
    <3>2. \A q \in Protocols \ {"NONE"} : "ZERO" \notin FieldsOf[q]
      BY DEF FieldsOf, Protocols
    <3> HIDE DEF FieldsOf, Protocols
    <3> QED BY <3>1, <3>2 DEF Protocol, HeaderOf
  <2>5. FieldValue(p, "ZERO") = Zero
    BY DEF FieldValue, Property, Protocols
  <2>6. BigNumCompare(Zero, Zero) = 0
    BY DEF BigNumCompare, Zero, Sign
  <2>7. Passes(p, c) <=> label = Accept
    <3>1. Passes(p, c) <=> Holds(test, 0)
      BY <2>3, <2>4, <2>5, <2>6 DEF Passes, Present
    <3>2. Holds(test, 0) <=> label = Accept
      BY DEF Holds, test
    <3> QED BY <3>1, <3>2
  <2>8. E[Accept] = TRUE /\ E[Reject] = FALSE /\ E[0] = (label = Accept)
    BY <1>0
  <2> HIDE DEF E
  <2>9. E[0] = IF Passes(p, c) THEN E[c.success] ELSE E[c.failure]
    BY <2>3, <2>7, <2>8
  <2>10. IsProgRun(p, prog, E)
    <3>1. \A j \in 0..Len(prog) - 1 : j = 0 /\ prog[j + 1] = c
      BY <2>2 DEF c
    <3> QED BY <2>8, <2>9, <3>1 DEF IsProgRun
  <2>11. W[label] = (label = Accept)
    BY <1>0, <1>1 DEF IsRun
  <2> QED BY <2>8, <2>10, <2>11
<1>2. CASE label \notin {Accept, Reject}
  <2>1. label \in 0..Len(fl.stack) - 1 /\ label \in 0..MaxLen - 1
    BY <1>0, <1>2, Limits DEF IsTarget
  <2>2. object = [i \in 1..label + 1 |-> EmitTest(fl.stack[label - i + 2], label)]
    BY <1>2 DEF EmitFilter, EmitTests
  <2> HIDE DEF object
  <2>3. DOMAIN object = 1..label + 1 /\ label + 1 \in Nat
    BY <2>1, <2>2
  <2>4. Len(object) = label + 1
    BY <2>3
  <2> DEFINE E == [j \in Labels |-> IF j \in {Accept, Reject} THEN W[j] ELSE W[label - j]]
  <2>5. /\ E[Accept] = TRUE /\ E[Reject] = FALSE
        /\ \A j \in 0..label : E[j] = W[label - j]
    <3>1. \A j \in 0..label : j \in Labels /\ j \notin {Accept, Reject}
      BY <2>1, Limits DEF Labels, Accept, Reject
    <3>2. W[Accept] = TRUE /\ W[Reject] = FALSE
      BY DEF IsRun
    <3> QED BY <1>0, <3>1, <3>2
  <2> HIDE DEF E
  <2>6. ASSUME NEW m \in 1..label + 1, NEW t, IsTarget(t, m - 1)
        PROVE  E[EmitLabel(t, label)] = W[t]
    <3>1. CASE t \in {Accept, Reject}
      <4>1. EmitLabel(t, label) = t
        BY <3>1 DEF EmitLabel
      <4>2. W[Accept] = TRUE /\ W[Reject] = FALSE
        BY DEF IsRun
      <4> QED BY <2>5, <3>1, <4>1, <4>2
    <3>2. CASE t \notin {Accept, Reject}
      <4>1. t \in 0..m - 2 /\ EmitLabel(t, label) = label - t
        BY <2>6, <3>2, Limits DEF IsTarget, EmitLabel
      <4>2. label - t \in 0..label /\ label - (label - t) = t
        BY <2>1, <4>1
      <4> QED BY <2>5, <4>1, <4>2
    <3> QED BY <3>1, <3>2
  <2>7. ASSUME NEW j \in 0..label
        PROVE  E[j] = IF Passes(p, prog[j + 1]) THEN E[prog[j + 1].success]
                                                ELSE E[prog[j + 1].failure]
    <3> DEFINE m == label - j + 1
               s == fl.stack[m]
               c == prog[j + 1]
    <3>1. /\ m \in 1..label + 1 /\ m \in 1..Len(fl.stack) /\ m - 1 = label - j
          /\ j + 1 \in 1..label + 1 /\ label - (j + 1) + 2 = m
      BY <1>0, <2>1
    <3> HIDE DEF m
    <3>2. object[j + 1] = EmitTest(s, label)
      BY <2>2, <3>1
    <3>3. c = CompiledFrom(EmitTest(s, label))
      <4>1. j + 1 \in 1..Len(prog)
        BY <2>4, <3>1 DEF AreCompiled, object
      <4>2. c = CompiledFrom(object[j + 1])
        BY <4>1 DEF AreCompiled, object
      <4> QED BY <3>2, <4>2
    <3>4. /\ c.field = s.test.var /\ c.test = s.test.kind /\ c.arg = s.test.val
          /\ c.protocol = Protocol(s.test.var)
          /\ c.success = EmitLabel(s.succ, label) /\ c.failure = EmitLabel(s.fail, label)
      BY <3>3 DEF CompiledFrom, EmitTest
    <3> HIDE DEF c
    <3>5. Passes(p, c) <=> TestPasses(p, s.test)
      BY <3>4 DEF Passes, TestPasses
    <3>6. IsTarget(s.succ, m - 1) /\ IsTarget(s.fail, m - 1)
      BY <3>1 DEF FlatSound, Placed
    <3>7. W[m - 1] = IF TestPasses(p, s.test) THEN W[s.succ] ELSE W[s.fail]
      BY <3>1 DEF IsRun
    <3> HIDE DEF s
    <3>8. E[c.success] = W[s.succ] /\ E[c.failure] = W[s.fail]
      BY <2>6, <3>1, <3>4, <3>6
    <3>9. E[j] = W[m - 1]
      BY <2>5, <3>1
    <3> QED BY <3>5, <3>7, <3>8, <3>9 DEF c
  <2>8. Len(prog) - 1 = label
    BY <2>1, <2>4 DEF AreCompiled, object
  <2>9. IsProgRun(p, prog, E)
    BY <2>5, <2>7, <2>8 DEF IsProgRun
  <2>10. E[0] = W[label]
    BY <2>1, <2>5
  <2> QED BY <2>9, <2>10
<1> QED BY <1>1, <1>2

(***************************************************************************)
(* The compilation of a string keeps the meaning of what was parsed.       *)
(***************************************************************************)
Parsed(s, l) == ParseString(Tokenize(s, l).toks)

(***************************************************************************)
(* A compiled program has a run that ends in accept exactly if the parsed  *)
(* expression is true of the packet.                                       *)
(***************************************************************************)
LEMMA CompileFilterMeans ==
  ASSUME NEW s \in Seq(Lexemes), NEW l, CompileFilter(s, l).error = NoError,
         NEW p, NEW prog, AreCompiled(prog, CompileFilter(s, l).object)
  PROVE  \E E : /\ IsProgRun(p, prog, E)
                /\ E[0] <=> Value(p, Parsed(s, l).pool)[Parsed(s, l).expr]
<1> DEFINE tok  == Tokenize(s, l)
           st   == ParseString(tok.toks)
           fl   == [stack |-> <<>>, label |-> 0, fault |-> FALSE]
           flat == Flatten(st.pool)[st.expr][<<fl, Accept, Reject>>]
           c    == CompileFilter(s, l)
           v    == Value(p, st.pool)[st.expr]
<1>1. c = IF tok.error # NoError THEN Refused(tok.error)
          ELSE IF st.expr = Null THEN Refused(st.error)
          ELSE IF tok.toks[st.i] # End THEN Refused(Error("UNEXPECTED_TOKEN", st.i))
          ELSE IF flat.fault THEN Refused(Error("FAULT", 0))
          ELSE IF flat.label = NoLabel THEN Refused(Error("TOO_LONG", 0))
          ELSE [error |-> NoError, object |-> EmitFilter(flat.stack, flat.label)]
  BY DEF CompileFilter
<1>2. \A e : Refused(e).error = e /\ Refused(e).object = <<>>
  BY DEF Refused
<1>3. c.object # <<>>
  <2>1. c.error.code = "NONE"
    BY DEF NoError, Error
  <2>2. IsObject(c.object)
    <3> HIDE DEF c
    <3> QED BY <2>1, CompileFilterSound DEF c
  <2>3. Len(c.object) # 0 /\ Len(<<>>) = 0
    BY <2>2 DEF IsObject
  <2> HIDE DEF c
  <2> QED BY <2>3
<1> HIDE DEF flat, c, st, tok, v
<1>4. /\ tok.error = NoError /\ flat.label # NoLabel
      /\ c.object = EmitFilter(flat.stack, flat.label)
  BY <1>1, <1>2, <1>3
<1>5. IsTokens(tok.toks)
  BY <1>4, TokenizeSound DEF tok
<1>6. Sound(tok.toks, st)
  BY <1>5, ParseStringSound DEF st
<1>7. IsPool(st.pool) /\ (st.expr = Null \/ IsExpr(st.pool, st.expr))
  BY <1>6 DEF Sound
<1>8. FlatSound(fl) /\ Len(fl.stack) = 0
  <2>1. fl \in Flats /\ fl.stack = <<>>
    BY Limits DEF Flats, NoLabel, Reject
  <2> QED BY <2>1, Limits DEF FlatSound
<1>9. MayTarget(Accept, Len(fl.stack)) /\ MayTarget(Reject, Len(fl.stack))
  BY DEF MayTarget, IsTarget
<1> HIDE DEF fl
<1>10. FlatDone(fl, flat)
  <2>1. IsFlatAt(Flatten(st.pool), st.expr)
    BY <1>7, FlattenSound
  <2> QED BY <1>8, <1>9, <2>1 DEF IsFlatAt, flat
<1>11. Means(p, v, flat, Accept, Reject)
  <2>1. MeansAt(p, st.pool, st.expr)
    BY <1>7, FlattenMeans
  <2> QED BY <1>8, <1>9, <2>1 DEF MeansAt, flat, v
<1>12. FlatSound(flat) /\ IsTarget(flat.label, Len(flat.stack))
  BY <1>4, <1>10 DEF FlatDone, MayTarget
<1>13. PICK W \in [Labels -> BOOLEAN] : IsRun(p, flat.stack, W)
  BY <1>12, RunExists
<1>14. W[flat.label] <=> v
  <2>1. W[Accept] = TRUE /\ W[Reject] = FALSE
    BY <1>13 DEF IsRun
  <2>2. W[flat.label] = IF v THEN W[Accept] ELSE W[Reject]
    BY <1>4, <1>11, <1>13 DEF Means
  <2>3. CASE v
    BY <2>1, <2>2, <2>3
  <2>4. CASE ~v
    BY <2>1, <2>2, <2>4
  <2> QED BY <2>3, <2>4
<1>15. PICK E : IsProgRun(p, prog, E) /\ E[0] = W[flat.label]
  <2>1. c.object = CompileFilter(s, l).object
    BY DEF c
  <2>2. AreCompiled(prog, EmitFilter(flat.stack, flat.label))
    BY <1>4, <2>1
  <2>3. HasRun(p, prog, W[flat.label])
    BY <1>12, <1>13, <2>2, EmitRuns
  <2> QED BY <2>3 DEF HasRun
<1>16. E[0] <=> v
  BY <1>14, <1>15, Zenon
<1> QED BY <1>15, <1>16 DEF Parsed, v, st, tok

-----------------------------------------------------------------------------
(***************************************************************************)
(* The driver in the pipeline.  It compiles the program of the string, and *)
(* the invariants of FilterVM hold; windivert_filter follows the runs of   *)
(* the program.                                                            *)
(***************************************************************************)
Sent ==
  /\ result = CompileFilter(str, layer) /\ result.error = NoError
  /\ length = Len(result.object)
  /\ \A k \in 1..Len(filter) : filter[k] = CompiledFrom(result.object[k])

RunsFollow == \A E : IsProgRun(packet, filter, E) /\ phase = "run" => E[ip] = E[0]
RunsEnd ==
  \A E : IsProgRun(packet, filter, E) /\ phase = "done" /\ packet.sound =>
    (verdict = "accept" <=> E[0])

DriverInv == FilterInv /\ EvalInv /\ Sent /\ RunsFollow /\ RunsEnd

NotSent ==
  /\ filter = <<>> /\ rewritten = FALSE /\ packet \in Packets /\ ip = 0 /\ ttl = Ttl /\ verdict = "none"

WholeInv ==
  /\ str \in Strings
  /\ IF phase \in {"idle", "refused"} THEN NotSent ELSE DriverInv

(***************************************************************************)
(* The program that is sent has the types of an application's program.     *)
(***************************************************************************)
LEMMA SentSound ==
  ASSUME str \in Strings, Sent
  PROVE  str \in Seq(Lexemes) /\ IsObject(result.object)
<1>1. str \in Seq(Lexemes) /\ result.error.code = "NONE"
  BY PipelineAssumption DEF Sent, NoError, Error
<1> QED BY <1>1, CompileFilterSound DEF Sent

(***************************************************************************)
(* The compilation starts the driver, or nothing is sent.                  *)
(***************************************************************************)
LEMMA CompileKeeps ==
  ASSUME WholeInv, Compile
  PROVE  WholeInv'
<1>1. /\ NotSent /\ str \in Strings
      /\ UNCHANGED <<str, layer, filter, rewritten, packet, ip, ttl, verdict>>
  BY DEF WholeInv, Compile
<1>2. CASE phase' = "refused"
  BY <1>1, <1>2 DEF WholeInv, NotSent, Ttl
<1>3. CASE /\ result'.error = NoError /\ phase' = "compile"
           /\ length' = Len(result'.object)
  <2>1. result' = CompileFilter(str, layer)
    <3>1. Refused(Error("HEAP", 0)).error # NoError
      BY DEF Refused, Error, NoError
    <3> QED BY <1>3, <3>1 DEF Compile
  <2>2. Sent'
    <3>1. filter' = <<>> /\ str' = str /\ layer' = layer
      BY <1>1 DEF NotSent
    <3>2. \A k \in 1..Len(filter') : FALSE
      BY <3>1
    <3>3. result' = CompileFilter(str', layer')
      BY <2>1, <3>1
    <3> QED BY <1>3, <3>2, <3>3 DEF Sent
  <2>3. length' \in 1..MaxLen
    <3>1. str' \in Strings
      BY <1>1
    <3>2. IsObject(result'.object)
      <4>1. str' \in Seq(Lexemes) /\ result'.error.code = "NONE"
        BY <2>2, <3>1, PipelineAssumption DEF Sent, NoError, Error
      <4>2. result' = CompileFilter(str', layer')
        BY <2>2 DEF Sent
      <4> QED BY <4>1, <4>2, CompileFilterSound
    <3> QED BY <1>3, <3>2 DEF IsObject
  <2>4. FilterInv'
    <3>1. filter' \in Seq(Readable) /\ filter' \in Seq(Compiled) /\ Len(filter') = 0
      BY <1>1 DEF NotSent
    <3>2. ~rewritten' /\ rewritten' \in BOOLEAN
      BY <1>1 DEF NotSent
    <3>3. TypeOK'
      BY <1>1, <1>3, <2>3, <3>1, <3>2, FilterAssumption
         DEF NotSent, Ttl, TypeOK, Labels, Reject
    <3>4. CheckedAll'
      BY <3>1 DEF CheckedAll
    <3>5. NotStarted' /\ WholeProgram' /\ Progress' /\ NeverExpires'
      BY <1>1, <1>3 DEF NotSent, Ttl, NotStarted, WholeProgram, Progress, NeverExpires
    <3> QED BY <3>2, <3>3, <3>4, <3>5 DEF FilterInv
  <2>5. EvalInv' /\ RunsFollow' /\ RunsEnd'
    BY <1>1, <1>3 DEF NotSent, EvalInv, HeadersFound, EvalsFollow, EvalsEnd, RunsFollow, RunsEnd
  <2> QED BY <1>1, <1>3, <2>2, <2>4, <2>5 DEF WholeInv, DriverInv
<1> QED BY <1>2, <1>3 DEF Compile

(***************************************************************************)
(* The driver compiles the next instruction of the program it was sent.    *)
(***************************************************************************)
LEMMA ReceiveKeeps ==
  ASSUME WholeInv, Receive
  PROVE  WholeInv'
<1> DEFINE n == Len(filter)
           o == result.object[n + 1]
<1>1. /\ DriverInv /\ str \in Strings /\ phase = "compile" /\ n < length
      /\ CompileOne(o, o, o)
      /\ UNCHANGED <<str, layer, result>>
  BY DEF WholeInv, Receive, pvars
<1>2. /\ filter \in Seq(Compiled) /\ n \in Nat /\ length \in Nat
      /\ length = Len(result.object)
  BY <1>1 DEF DriverInv, FilterInv, TypeOK, Sent
<1>3. Typed(o)
  <2>1. IsObject(result.object)
    BY <1>1, SentSound DEF DriverInv
  <2>2. n + 1 \in 1..Len(result.object)
    BY <1>1, <1>2
  <2> QED BY <2>1, <2>2 DEF IsObject
<1> HIDE DEF o
<1>4. FilterInv' /\ EvalInv'
  <2>1. ~rewritten'
    BY <1>1 DEF CompileOne, DriverInv, FilterInv
  <2> QED BY <1>1, <1>3, <2>1, CompileStep, CompileEvaluates DEF DriverInv, Typed
<1>5. phase' \in {"compile", "invalid"} /\ length' = length
  BY <1>1 DEF CompileOne
<1>6. \A k \in 1..Len(filter') : filter'[k] = CompiledFrom(result.object[k])
  <2>1. CASE UNCHANGED filter
    BY <1>1, <2>1 DEF DriverInv, Sent
  <2>2. CASE filter' = Append(filter, CompiledFrom(o))
    <3>1. Len(filter') = n + 1 /\ filter'[n + 1] = CompiledFrom(o)
          /\ \A k \in 1..n : filter'[k] = filter[k]
      BY <1>2, <2>2
    <3> SUFFICES ASSUME NEW k \in 1..n + 1
                 PROVE  filter'[k] = CompiledFrom(result.object[k])
      BY <3>1
    <3>2. CASE k = n + 1
      BY <3>1, <3>2 DEF o
    <3>3. CASE k # n + 1
      <4>1. k \in 1..n
        BY <1>2, <3>3
      <4> QED BY <1>1, <3>1, <4>1 DEF DriverInv, Sent
    <3> QED BY <3>2, <3>3
  <2> QED BY <1>1, <2>1, <2>2 DEF CompileOne, Instruction, CompiledFrom
<1>7. Sent'
  BY <1>1, <1>5, <1>6 DEF DriverInv, Sent
<1>8. RunsFollow' /\ RunsEnd'
  BY <1>5 DEF RunsFollow, RunsEnd
<1> QED BY <1>1, <1>4, <1>5, <1>7, <1>8 DEF WholeInv, DriverInv

(***************************************************************************)
(* A turn of windivert_filter stays on the run.                            *)
(***************************************************************************)
LEMMA ExecuteRuns ==
  ASSUME FilterInv, Execute, NEW E, IsProgRun(packet, filter, E)
  PROVE  E[ip'] = E[ip]
<1>1. ip \in 0..Len(filter) - 1
  <2>1. ip \in Int /\ Len(filter) \in Int
    BY FilterAssumption DEF FilterInv, TypeOK, Labels
  <2> QED BY <2>1, ExecuteJumps
<1>2. E[ip] = IF Passes(packet, At(ip)) THEN E[At(ip).success] ELSE E[At(ip).failure]
  BY <1>1 DEF IsProgRun, At
<1>3. ip' = IF Passes(packet, At(ip)) THEN At(ip).success ELSE At(ip).failure
  BY ExecuteJumps DEF Target
<1> QED BY <1>2, <1>3

(***************************************************************************)
(* The other steps of the driver.                                          *)
(***************************************************************************)
LEMMA DriverKeeps ==
  ASSUME WholeInv, Driver
  PROVE  WholeInv'
<1>1. /\ DriverInv /\ str \in Strings /\ UNCHANGED <<str, layer, result>>
      /\ Refuse \/ CompileDone \/ Parse \/ Execute
  <2>1. phase \notin {"idle", "refused"}
    BY DEF Driver, Refuse, CompileDone, Parse, Execute
  <2> QED BY <2>1 DEF WholeInv, Driver, pvars
<1>2. /\ UNCHANGED <<length, filter, rewritten, packet>>
      /\ phase' \in {"invalid", "ready", "run", "done"}
  BY <1>1 DEF Refuse, CompileDone, Parse, Execute
<1>3. FilterInv' /\ EvalInv'
  <2>1. Next
    BY <1>1 DEF Next
  <2>2. FilterInv'
    <3>1. ~rewritten'
      BY <1>1, <1>2 DEF DriverInv, FilterInv
    <3> QED BY <1>1, <2>1, <3>1, NextFilterInv DEF DriverInv
  <2> QED BY <1>1, <2>1, <2>2, NextEvalInv DEF DriverInv
<1>4. Sent'
  BY <1>1, <1>2 DEF DriverInv, Sent
<1>5. ASSUME NEW E PROVE IsProgRun(packet, filter, E)' <=> IsProgRun(packet, filter, E)
  BY <1>2 DEF IsProgRun
<1>6. RunsFollow' /\ RunsEnd'
  <2>1. CASE Refuse \/ CompileDone
    BY <2>1 DEF Refuse, CompileDone, RunsFollow, RunsEnd
  <2>2. CASE Parse
    <3>1. ip' = 0 /\ (phase' = "run" \/ (phase' = "done" /\ ~packet.sound))
      BY <1>1, <2>2 DEF Parse, DriverInv, FilterInv, NotStarted
    <3> QED BY <1>2, <3>1 DEF RunsFollow, RunsEnd
  <2>3. CASE Execute
    <3>1. ASSUME NEW E, IsProgRun(packet, filter, E) PROVE E[ip'] = E[0]
      <4>1. E[ip'] = E[ip]
        BY <1>1, <2>3, <3>1, ExecuteRuns DEF DriverInv
      <4>2. E[ip] = E[0]
        BY <1>1, <2>3, <3>1 DEF DriverInv, RunsFollow, Execute
      <4> QED BY <4>1, <4>2
    <3>2. phase' = "done" => \/ verdict' = "accept" /\ ip' = Accept
                             \/ verdict' = "reject" /\ ip' = Reject
      BY <1>3, <2>3 DEF Execute, Verdict, FilterInv, NeverExpires
    <3>3. RunsFollow'
      BY <1>5, <3>1 DEF RunsFollow
    <3>4. RunsEnd'
      <4> SUFFICES ASSUME NEW E, IsProgRun(packet, filter, E)', phase' = "done"
                   PROVE  verdict' = "accept" <=> E[0]
        BY DEF RunsEnd
      <4>1. IsProgRun(packet, filter, E)
        BY <1>5
      <4>2. E[Accept] = TRUE /\ E[Reject] = FALSE
        BY <4>1 DEF IsProgRun
      <4>3. E[ip'] = E[0]
        BY <3>1, <4>1
      <4> QED BY <3>2, <4>2, <4>3
    <3> QED BY <3>3, <3>4
  <2> QED BY <1>1, <2>1, <2>2, <2>3
<1> QED BY <1>1, <1>2, <1>3, <1>4, <1>6 DEF WholeInv, DriverInv

(***************************************************************************)
(* The invariant holds throughout.                                         *)
(***************************************************************************)
LEMMA WholeInvariance == PipelineSpec => []WholeInv
<1>1. PipelineInit => WholeInv
  BY DEF PipelineInit, WholeInv, NotSent
<1>2. WholeInv /\ [PipelineNext]_<<vars, pvars>> => WholeInv'
  <2> SUFFICES ASSUME WholeInv, [PipelineNext]_<<vars, pvars>> PROVE WholeInv'
    OBVIOUS
  <2>1. CASE UNCHANGED <<vars, pvars>>
    <3>1. UNCHANGED <<phase, length, filter, rewritten, packet, ip, ttl, verdict,
                    str, layer, result>>
      BY <2>1 DEF vars, pvars
    <3>2. NotSent' <=> NotSent
      BY <3>1 DEF NotSent, Ttl
    <3>3. FilterInv' <=> FilterInv
      BY <3>1 DEF FilterInv, TypeOK, CheckedAll, Checked, NotStarted, Ttl, WholeProgram,
         Progress, NeverExpires
    <3>4. EvalInv' <=> EvalInv
      BY <3>1 DEF EvalInv, HeadersFound, EvalsFollow, EvalsEnd, IsEval, Alike, TestsNone
    <3>5. Sent' <=> Sent
      BY <3>1 DEF Sent
    <3>6. (RunsFollow' <=> RunsFollow) /\ (RunsEnd' <=> RunsEnd)
      BY <3>1 DEF RunsFollow, RunsEnd, IsProgRun
    <3> QED BY <3>1, <3>2, <3>3, <3>4, <3>5, <3>6 DEF WholeInv, DriverInv
  <2>2. CASE Compile
    BY <2>2, CompileKeeps
  <2>3. CASE Receive
    BY <2>3, ReceiveKeeps
  <2>4. CASE Driver
    BY <2>4, DriverKeeps
  <2>5. CASE Finished
    BY <2>1, <2>5 DEF Finished
  <2> QED BY <2>1, <2>2, <2>3, <2>4, <2>5 DEF PipelineNext
<1> QED BY <1>1, <1>2, PTL DEF PipelineSpec

(***************************************************************************)
(* For every filter string and packet: the verdict of windivert_filter on  *)
(* the program that WinDivertCompileFilter makes of the string is the      *)
(* value of the expression that WinDivertParseFilter made of it.           *)
(***************************************************************************)
THEOREM VerdictIsParsedHolds == PipelineSpec => []VerdictIsParsed
<1>1. WholeInv => VerdictIsParsed
  <2> SUFFICES ASSUME WholeInv, phase = "done", packet.sound
               PROVE  verdict = "accept"
                        <=> Value(packet, Parsed(str, layer).pool)[Parsed(str, layer).expr]
    BY DEF VerdictIsParsed, Parsed
  <2>1. DriverInv /\ str \in Strings
    BY DEF WholeInv
  <2>2. str \in Seq(Lexemes) /\ CompileFilter(str, layer).error = NoError
    BY <2>1, SentSound DEF DriverInv, Sent
  <2>3. AreCompiled(filter, CompileFilter(str, layer).object)
    <3>1. Len(filter) = length
      BY <2>1 DEF DriverInv, FilterInv, WholeProgram
    <3> QED BY <2>1, <3>1 DEF DriverInv, Sent, AreCompiled
  <2>4. PICK E : /\ IsProgRun(packet, filter, E)
                 /\ E[0] <=> Value(packet, Parsed(str, layer).pool)[Parsed(str, layer).expr]
    BY <2>2, <2>3, CompileFilterMeans
  <2>5. verdict = "accept" <=> E[0]
    BY <2>1, <2>4 DEF DriverInv, RunsEnd
  <2> QED BY <2>4, <2>5
<1> QED BY <1>1, WholeInvariance, PTL

(***************************************************************************)
(* In the pipeline too, what is diverted is what the application sees      *)
(* match.                                                                  *)
(***************************************************************************)
THEOREM PipelineEvalAgrees == PipelineSpec => []EvalAgrees
<1>1. WholeInv => EvalAgrees
  <2> SUFFICES ASSUME WholeInv, Comparable, TestsNone(Differing) PROVE Agree
    BY DEF EvalAgrees, Differing
  <2>1. DriverInv /\ phase = "done"
    BY DEF WholeInv, Comparable
  <2>2. PICK E : IsEval(E) /\ EvalFilter(filter, Finalize(packet)) = E[0]
    BY <2>1, EvalExists DEF DriverInv
  <2> QED BY <2>1, <2>2 DEF DriverInv, EvalInv, EvalsEnd, Alike, Comparable, Agree
<1> QED BY <1>1, WholeInvariance, PTL
=============================================================================
