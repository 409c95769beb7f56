-------------------------- MODULE PrioritiesProofs --------------------------
(***************************************************************************)
(* Proofs about Priorities, for any handles, packets, levels and width of  *)
(* the serial number: the type invariant, and that the driver implements   *)
(* Route.                                                                  *)
(***************************************************************************)
EXTENDS Priorities, TLAPS

(***************************************************************************)
(* r is the 32-bit priority of a handle at level l.                        *)
(***************************************************************************)
Packed(r, l) == l * Serials <= r /\ r < (l + 1) * Serials

(***************************************************************************)
(* Shifting a level to the upper half preserves the order of levels        *)
(* (windivert_context_priority).                                           *)
(***************************************************************************)
LEMMA TimesMonotone ==
  ASSUME NEW a \in Int, NEW b \in Int, a <= b
  PROVE  a * Serials <= b * Serials
<1>1. Serials \in Nat /\ Serials > 0
  BY PrioritiesAssumption
<1>2. (b - a) * Serials >= 0
  BY <1>1
<1>. QED BY <1>1, <1>2

(***************************************************************************)
(* A handle with the larger priority is at the same or a later level.      *)
(***************************************************************************)
LEMMA PackedOrder ==
  ASSUME NEW l1 \in Nat, NEW l2 \in Nat, NEW r1 \in Int, NEW r2 \in Int,
         Packed(r1, l1), Packed(r2, l2), r1 <= r2
  PROVE  l1 <= l2
<1>. SUFFICES ASSUME l2 + 1 <= l1 PROVE FALSE
  OBVIOUS
<1>1. Serials \in Nat
  BY PrioritiesAssumption
<1>2. (l2 + 1) * Serials <= l1 * Serials
  BY TimesMonotone
<1>. QED BY <1>1, <1>2 DEF Packed

(***************************************************************************)
(* windivert_context_priority packs the level, and fits its 32 bits.       *)
(***************************************************************************)
LEMMA ContextPriorityPacked ==
  ASSUME NEW l \in Levels, NEW c \in Nat
  PROVE  /\ ContextPriority(l, c) \in Ranks
         /\ Packed(ContextPriority(l, c), l)
<1>. DEFINE s == c % Serials
<1>1. Serials \in Nat /\ Serials > 0 /\ MaxLevel \in Nat /\ l \in Nat
      /\ l <= MaxLevel
  BY PrioritiesAssumption DEF Levels
<1>2. s \in 0..(Serials - 1)
  BY <1>1
<1>3. (l + 1) * Serials <= (MaxLevel + 1) * Serials
  BY <1>1, TimesMonotone
<1>4. 0 <= l * Serials
  BY <1>1
<1>5. l * Serials \in Int /\ (l + 1) * Serials = l * Serials + Serials
      /\ (MaxLevel + 1) * Serials \in Int
  BY <1>1
<1>6. ContextPriority(l, c) = l * Serials + s
  BY DEF ContextPriority
<1>. HIDE DEF s
<1>. QED BY <1>1, <1>2, <1>3, <1>4, <1>5, <1>6 DEF Packed, Ranks

(***************************************************************************)
(* The TTL of a packet stays in its range when it is decremented.          *)
(***************************************************************************)
LEMMA Decrement ==
  ASSUME NEW n \in 0..MaxTTL, n # 0
  PROVE  n - 1 \in 0..MaxTTL
BY PrioritiesAssumption

(***************************************************************************)
(* The default priority is a priority.                                     *)
(***************************************************************************)
LEMMA DefaultLevel == Default \in Levels
BY PrioritiesAssumption DEF Default, Levels

(***************************************************************************)
(* The next value of the priority counter is one.                          *)
(***************************************************************************)
LEMMA IncrementType ==
  ASSUME counter \in 0..(4 * Serials - 1)
  PROVE  Increment \in 0..(4 * Serials - 1) /\ Increment \in Nat
<1>1. 4 * Serials \in Nat /\ 4 * Serials > 0
  BY PrioritiesAssumption
<1>. QED BY <1>1 DEF Increment

-----------------------------------------------------------------------------
(***************************************************************************)
(* The inductive invariant.  A handle that has taken a packet is started,  *)
(* so its priority is settled; the packet's last taker has the largest     *)
(* priority of them, and that is what the packet carries when it is back   *)
(* in the stack.                                                           *)
(***************************************************************************)
RanksPacked ==
  \A h \in Handles :
    /\ Packed(rank[h], level[h])
    /\ pending[h] \notin {None, Spent} =>
         Packed(pending[h].rank, pending[h].level)

TakersSettled ==
  \A p \in Packets : \A h \in took[p] :
    /\ state[h] \in {"on", "closing"}
    /\ rank[h] <= rank[at[p]]

TagIsLast ==
  \A p \in Packets :
    /\ place[p] = "out" => took[p] = {}
    /\ place[p] \in Held => at[p] \in took[p]
    /\ took[p] # {} => at[p] \in took[p]
    /\ place[p] = "stack" /\ took[p] # {} => tag[p] = rank[at[p]]

Inv == TypeOK /\ RanksPacked /\ TakersSettled /\ TagIsLast

(***************************************************************************)
(* Inv holds initially.                                                    *)
(***************************************************************************)
LEMMA InitInv == Init => Inv
<1>. SUFFICES ASSUME Init PROVE Inv
  OBVIOUS
<1>0. Serials \in Nat /\ Serials > 0 /\ MaxLevel \in Nat /\ MaxTTL \in Nat
      /\ Handles # {} /\ Setups \subseteq Setup
  BY PrioritiesAssumption
<1>1. 0 \in Ranks /\ 0 \in Levels /\ 0 \in 0..(4 * Serials - 1)
  <2>1. Serials <= (MaxLevel + 1) * Serials
    BY <1>0, TimesMonotone, 1 <= MaxLevel + 1
  <2>. QED BY <1>0, <2>1 DEF Ranks, Levels
<1>2. (CHOOSE h \in Handles : TRUE) \in Handles
  BY <1>0
<1>3. mode \in [Handles -> Modes] /\ matches \in [Handles -> SUBSET Packets]
  BY <1>0 DEF Init, Setup
<1>4. TypeOK
  BY <1>0, <1>1, <1>2, <1>3 DEF Init, TypeOK, Places
<1>5. RanksPacked
  BY <1>0 DEF Init, RanksPacked, Packed
<1>6. TakersSettled /\ TagIsLast
  BY DEF Init, TakersSettled, TagIsLast, Held
<1>. QED BY <1>4, <1>5, <1>6 DEF Inv

-----------------------------------------------------------------------------
(***************************************************************************)
(* What the actions on a handle leave alone: everything about packets, and *)
(* the priority of every handle that has taken one.                        *)
(***************************************************************************)
LEMMA ConfigureInv ==
  ASSUME Inv, NEW h \in Handles, Configure(h)
  PROVE  Inv' /\ UNCHANGED packetVars
         /\ \A g \in Handles : state[g] \in {"on", "closing"} =>
              rank'[g] = rank[g] /\ level'[g] = level[g]
<1>. USE DEF Inv
<1>1. CASE Create(h)
  <2>. DEFINE r == ContextPriority(Default, Increment)
  <2>1. r \in Ranks /\ Packed(r, Default) /\ Default \in Levels
        /\ Increment \in 0..(4 * Serials - 1)
    BY DefaultLevel, IncrementType, ContextPriorityPacked DEF TypeOK
  <2>2. /\ state[h] = "none" /\ state' = [state EXCEPT ![h] = "open"]
        /\ counter' = Increment
        /\ level' = [level EXCEPT ![h] = Default]
        /\ rank' = [rank EXCEPT ![h] = r]
        /\ UNCHANGED <<pending, mode, matches>> /\ UNCHANGED packetVars
    BY <1>1 DEF Create
  <2>. HIDE DEF r
  <2>3. TypeOK'
    BY <2>1, <2>2 DEF TypeOK, packetVars
  <2>4. RanksPacked'
    BY <2>1, <2>2 DEF RanksPacked, TypeOK
  <2>5. TakersSettled' /\ TagIsLast'
    BY <2>2 DEF TakersSettled, TagIsLast, TypeOK, packetVars, Held
  <2>. QED BY <2>2, <2>3, <2>4, <2>5 DEF TypeOK
<1>2. CASE Compute(h)
  <2>1. PICK l \in Levels : pending' = [pending EXCEPT ![h] =
          [level |-> l, rank |-> ContextPriority(l, Increment)]]
    BY <1>2 DEF Compute
  <2>. DEFINE r == ContextPriority(l, Increment)
  <2>2. r \in Ranks /\ Packed(r, l) /\ Increment \in 0..(4 * Serials - 1)
    BY IncrementType, ContextPriorityPacked DEF TypeOK
  <2>3. /\ pending' = [pending EXCEPT ![h] = [level |-> l, rank |-> r]]
        /\ counter' = Increment
        /\ UNCHANGED <<state, rank, level, mode, matches>>
        /\ UNCHANGED packetVars
    BY <1>2, <2>1 DEF Compute
  <2>. HIDE DEF r
  <2>4. TypeOK'
    BY <2>2, <2>3 DEF TypeOK, packetVars
  <2>5. RanksPacked'
    BY <2>2, <2>3 DEF RanksPacked, TypeOK
  <2>6. TakersSettled' /\ TagIsLast'
    BY <2>3 DEF TakersSettled, TagIsLast, packetVars
  <2>. QED BY <2>3, <2>4, <2>5, <2>6
<1>3. CASE SetPriority(h)
  <2>1. pending[h] \in [level : Levels, rank : Ranks]
    BY <1>3 DEF SetPriority, TypeOK
  <2>2. UNCHANGED <<counter, state, mode, matches>> /\ UNCHANGED packetVars
        /\ pending' = [pending EXCEPT ![h] = Spent]
    BY <1>3 DEF SetPriority
  <2>3. \A g \in Handles : state[g] \in {"on", "closing"} =>
          rank'[g] = rank[g] /\ level'[g] = level[g]
    BY <1>3 DEF SetPriority, Settable, TypeOK
  <2>4. TypeOK'
    BY <1>3, <2>1, <2>2 DEF SetPriority, TypeOK, packetVars
  <2>5. RanksPacked'
    BY <1>3, <2>1 DEF SetPriority, RanksPacked, TypeOK
  <2>6. TakersSettled' /\ TagIsLast'
    BY <2>2, <2>3 DEF TakersSettled, TagIsLast, TypeOK, packetVars, Held
  <2>. QED BY <2>2, <2>3, <2>4, <2>5, <2>6
<1>4. CASE Start(h) \/ Cleanup(h)
  <2>1. /\ UNCHANGED <<counter, rank, level, pending, mode, matches>>
        /\ UNCHANGED packetVars
        /\ \E x \in {"on", "closing"} : state' = [state EXCEPT ![h] = x]
    BY <1>4 DEF Start, Cleanup
  <2>2. TypeOK'
    BY <2>1 DEF TypeOK, packetVars
  <2>3. RanksPacked'
    BY <2>1 DEF RanksPacked
  <2>4. TakersSettled' /\ TagIsLast'
    BY <2>1 DEF TakersSettled, TagIsLast, TypeOK, packetVars, Held
  <2>. QED BY <2>1, <2>2, <2>3, <2>4
<1>. QED BY <1>1, <1>2, <1>3, <1>4 DEF Configure

(***************************************************************************)
(* What the actions on a packet p have in common: they leave every handle  *)
(* and every other packet alone.                                           *)
(***************************************************************************)
PacketStep(p) ==
  /\ UNCHANGED handleVars
  /\ TypeOK'
  /\ \A q \in Packets \ {p} : place'[q] = place[q] /\ at'[q] = at[q]
       /\ tag'[q] = tag[q] /\ took'[q] = took[q]

Packet(p) ==
  Arrive(p) \/ Copy(p) \/ Driver(p) \/ Read(p) \/ Expire(p) \/ Send(p)

(***************************************************************************)
(* A step of a packet, in the terms of Route: it arrives, is copied, is    *)
(* taken by a handle of a larger priority than the one that it carries, is *)
(* injected with its holder's, or ends.                                    *)
(***************************************************************************)
Taken(p) ==
  /\ place[p] = "stack" /\ place'[p] = "work"
  /\ state[at'[p]] = "on" /\ tag[p] < rank[at'[p]]
  /\ took'[p] = took[p] \cup {at'[p]}

Same(p) == at'[p] = at[p] /\ took'[p] = took[p]

Injected(p) ==
  /\ place[p] \in Held /\ place'[p] = "stack" /\ Same(p)
  /\ tag'[p] = rank[at[p]]

Rests(p) ==
  /\ Same(p) /\ tag'[p] = tag[p]
  /\ \/ place[p] = "out" /\ place'[p] = "stack"
     \/ place'[p] = place[p]
     \/ place[p] \in Held /\ place'[p] \in Held
     \/ place[p] \in Held \cup {"stack"} /\ place'[p] \in {"passed", "lost"}

Kinds(p) ==
  \/ Rests(p)
  \/ Injected(p)
  \/ Taken(p)
  \/ /\ place[p] = "stack" /\ place'[p] = "stack"
     /\ at'[p] = at[p] /\ took'[p] = {}

(***************************************************************************)
(* A step of a packet is of one of the kinds the proof distinguishes.      *)
(***************************************************************************)
LEMMA PacketKinds ==
  ASSUME TypeOK, NEW p \in Packets, Packet(p)
  PROVE  PacketStep(p) /\ Kinds(p)
<1>. USE DEF TypeOK, Places, Held
<1>. USE DEF Kinds, Rests, Injected, Taken, Same
<1>. DEFINE Stay == <<at, ttl, took, due>>
<1>0. /\ {h \in Handles : state[h] = "on"} \in SUBSET Handles
      /\ place[p] \in Places /\ at[p] \in Handles
      /\ tag[p] \in Ranks \cup {-1} /\ hop[p] \in BOOLEAN
      /\ ttl[p] \in 0..MaxTTL /\ asked[p] \in SUBSET Handles
      /\ took[p] \in SUBSET Handles /\ due[p] \in SUBSET Handles
      /\ rank[at[p]] \in Ranks
  OBVIOUS
<1>1. CASE Arrive(p)
  BY <1>0, <1>1 DEF Arrive, Move, Started, PacketStep, handleVars
<1>2. CASE Copy(p)
  BY <1>0, <1>2 DEF Copy, Started, PacketStep, handleVars
<1>3. ASSUME NEW h \in Handles, Continue(p, h)
      PROVE  PacketStep(p) /\ Kinds(p)
  BY <1>0, <1>3 DEF Continue, PacketStep, handleVars
<1>4. ASSUME NEW h \in Handles, Absorb(p, h)
      PROVE  PacketStep(p) /\ Kinds(p)
  BY <1>0, <1>4 DEF Absorb, Move, Skips, PacketStep, handleVars, Ranks
<1>5. CASE Pass(p)
  BY <1>0, <1>5 DEF Pass, Move, PacketStep, handleVars
<1>6. ASSUME Inject(p), UNCHANGED handleVars, UNCHANGED Stay,
             place[p] \in Held
      PROVE  PacketStep(p) /\ Kinds(p)
  BY <1>0, <1>6 DEF Inject, Move, PacketStep, handleVars
<1>7. ASSUME Lose(p), UNCHANGED handleVars, UNCHANGED Stay,
             place[p] \in Held
      PROVE  PacketStep(p) /\ Kinds(p)
  BY <1>0, <1>7 DEF Lose, Move, PacketStep, handleVars
<1>8. CASE Work(p)
  <2>1. place[p] \in Held /\ UNCHANGED handleVars /\ UNCHANGED Stay
    BY <1>8 DEF Work
  <2>2. CASE Move(p, "queue") /\ UNCHANGED <<tag, hop, asked>>
    BY <1>0, <2>1, <2>2 DEF Move, PacketStep, handleVars
  <2>. QED BY <1>6, <1>7, <1>8, <2>1, <2>2 DEF Work
<1>9. CASE Drain(p) \/ Expire(p) \/ Send(p)
  <2>1. place[p] \in Held /\ UNCHANGED handleVars /\ UNCHANGED Stay
    BY <1>9 DEF Drain, Expire, Send
  <2>. QED BY <1>6, <1>7, <1>9, <2>1 DEF Drain, Expire, Send
<1>10. CASE Read(p)
  <2>. DEFINE n == IF hop[p] /\ ttl[p] # 0 THEN ttl[p] - 1 ELSE ttl[p]
              w == IF hop[p] /\ ttl[p] <= 1 THEN "lost" ELSE "app"
  <2>1. n \in 0..MaxTTL /\ w \in {"lost", "app"}
    <3>1. ttl[p] # 0 => ttl[p] - 1 \in 0..MaxTTL
      BY <1>0, Decrement
    <3>2. n \in {ttl[p] - 1, ttl[p]} /\ (n = ttl[p] - 1 /\ n # ttl[p] => ttl[p] # 0)
      BY Zenon
    <3>3. w \in {"lost", "app"}
      BY Zenon
    <3>. QED BY <1>0, <3>1, <3>2, <3>3
  <2>2. /\ ttl' = [ttl EXCEPT ![p] = n] /\ place' = [place EXCEPT ![p] = w]
        /\ place[p] = "queue"
        /\ UNCHANGED <<at, tag, hop, asked, took, due>>
        /\ UNCHANGED handleVars
    BY <1>10 DEF Read, Hop, Move
  <2>. HIDE DEF n, w
  <2>. QED BY <1>0, <2>1, <2>2 DEF PacketStep, handleVars
<1>. QED BY <1>1, <1>2, <1>3, <1>4, <1>5, <1>8, <1>9, <1>10 DEF Packet, Driver

(***************************************************************************)
(* A step of a packet keeps Inv.                                           *)
(***************************************************************************)
LEMMA PacketInv ==
  ASSUME Inv, NEW p \in Packets, PacketStep(p), Kinds(p)
  PROVE  Inv'
<1>. USE DEF Inv
<1>1. UNCHANGED <<counter, state, rank, level, pending, mode, matches>>
  BY DEF PacketStep, handleVars
<1>2. TypeOK'
  BY DEF PacketStep
<1>3. RanksPacked'
  BY <1>1 DEF RanksPacked
<1>4. \A q \in Packets \ {p} : place'[q] = place[q] /\ at'[q] = at[q]
        /\ tag'[q] = tag[q] /\ took'[q] = took[q]
  BY DEF PacketStep
<1>5. \A q \in Packets : rank[at[q]] \in Int /\ tag[q] \in Int
        /\ rank[at'[q]] \in Int /\ took[q] \subseteq Handles
        /\ at[q] \in Handles /\ at'[q] \in Handles
  BY <1>2 DEF TypeOK, Ranks
<1>6. \A h \in Handles : rank[h] \in Int
  BY DEF TypeOK, Ranks
<1>7. TakersSettled'
  <2>. SUFFICES ASSUME NEW q \in Packets, NEW h \in took'[q]
                PROVE  state[h] \in {"on", "closing"} /\ rank[h] <= rank[at'[q]]
    BY <1>1 DEF TakersSettled
  <2>1. CASE q # p
    BY <1>4, <2>1 DEF TakersSettled
  <2>2. CASE q = p /\ Taken(p)
    BY <1>5, <1>6, <2>2 DEF TakersSettled, TagIsLast, Taken
  <2>3. CASE q = p /\ ~Taken(p)
    BY <2>3 DEF Kinds, Rests, Injected, Same, TakersSettled
  <2>. QED BY <2>1, <2>2, <2>3
<1>8. TagIsLast'
  <2>. SUFFICES ASSUME NEW q \in Packets
                PROVE  /\ place'[q] = "out" => took'[q] = {}
                       /\ place'[q] \in Held => at'[q] \in took'[q]
                       /\ took'[q] # {} => at'[q] \in took'[q]
                       /\ place'[q] = "stack" /\ took'[q] # {} =>
                            tag'[q] = rank[at'[q]]
    BY <1>1 DEF TagIsLast, Held
  <2>1. CASE q # p
    BY <1>4, <2>1 DEF TagIsLast
  <2>2. CASE q = p
    BY <2>2 DEF Kinds, Rests, Injected, Taken, Same, TagIsLast, Held
  <2>. QED BY <2>1, <2>2
<1>. QED BY <1>2, <1>3, <1>7, <1>8

(***************************************************************************)
(* Every step keeps Inv.                                                   *)
(***************************************************************************)
LEMMA NextInv == Inv /\ [Next]_vars => Inv'
<1>. SUFFICES ASSUME Inv, [Next]_vars PROVE Inv'
  OBVIOUS
<1>1. ASSUME NEW h \in Handles, Configure(h) PROVE Inv'
  BY <1>1, ConfigureInv
<1>2. ASSUME NEW p \in Packets, Packet(p) PROVE Inv'
  BY <1>2, PacketKinds, PacketInv DEF Inv
<1>3. CASE UNCHANGED vars
  BY <1>3 DEF vars, handleVars, packetVars, Inv, TypeOK, RanksPacked,
              TakersSettled, TagIsLast, Held
<1>. QED BY <1>1, <1>2, <1>3 DEF Next, Packet

(***************************************************************************)
(* The inductive invariant holds always.                                   *)
(***************************************************************************)
THEOREM InvHolds == Spec => []Inv
BY InitInv, NextInv, PTL DEF Spec

(***************************************************************************)
(* The variables of the handles and packets keep their types: in           *)
(* particular every priority fits its 32 bits, however often the serial    *)
(* number wraps.                                                           *)
(***************************************************************************)
THEOREM TypeCorrect == Spec => []TypeOK
<1>1. Inv => TypeOK
  BY DEF Inv
<1>. QED BY <1>1, InvHolds, PTL

-----------------------------------------------------------------------------
(***************************************************************************)
(* A packet keeps its place on its route while the priorities of the       *)
(* handles that took it do not change.                                     *)
(***************************************************************************)
LEMMA RouteUnchanged ==
  ASSUME Inv, UNCHANGED packetVars,
         \A g \in Handles : state[g] \in {"on", "closing"} =>
           level'[g] = level[g]
  PROVE  UNCHANGED R!routeVars
<1>1. Where' = Where
  BY DEF Where, packetVars
<1>2. \A p \in Packets : took[p] # {} => level'[at[p]] = level[at[p]]
  BY DEF Inv, TakersSettled, TagIsLast, TypeOK
<1>3. Reached' = Reached
  BY <1>2 DEF Reached, packetVars
<1>. QED BY <1>1, <1>3 DEF R!routeVars, packetVars

(***************************************************************************)
(* Every step of a packet is a step of its route.                          *)
(***************************************************************************)
LEMMA RouteStep ==
  ASSUME Inv, NEW p \in Packets, PacketStep(p), Kinds(p)
  PROVE  [R!Next]_(R!routeVars)
<1>. USE DEF Inv
<1>1. UNCHANGED <<state, rank, level>>
  BY DEF PacketStep, handleVars
<1>2. \A q \in Packets \ {p} : place'[q] = place[q] /\ at'[q] = at[q]
        /\ took'[q] = took[q]
  BY DEF PacketStep
<1>3. TypeOK' /\ TypeOK
  BY DEF PacketStep
<1>. DEFINE w == Where'[p]
            l == Reached'[p]
<1>4. Where' = [Where EXCEPT ![p] = w]
  BY <1>2, <1>3 DEF Where
<1>5. Reached' = [Reached EXCEPT ![p] = l]
  BY <1>1, <1>2, <1>3 DEF Reached
<1>6. took' = [took EXCEPT ![p] = took'[p]]
  BY <1>2, <1>3 DEF TypeOK
<1>7. Where[p] = IF place[p] \in Held THEN "held"
                 ELSE IF place[p] \in {"passed", "lost"} THEN "done"
                 ELSE place[p]
  BY DEF Where, Held
<1>8. w = IF place'[p] \in Held THEN "held"
          ELSE IF place'[p] \in {"passed", "lost"} THEN "done"
          ELSE place'[p]
  BY DEF Where, Held
<1>9. /\ Reached[p] = IF took[p] = {} THEN -1 ELSE level[at[p]]
      /\ l = IF took'[p] = {} THEN -1 ELSE level[at'[p]]
  BY <1>1 DEF Reached
<1>. HIDE DEF w, l
<1>10. CASE Rests(p) \/ Injected(p)
  <2>1. took' = took /\ l = Reached[p]
    BY <1>3, <1>6, <1>9, <1>10 DEF Rests, Injected, Same, TypeOK
  <2>2. Reached' = Reached
    BY <1>5, <2>1 DEF Reached
  <2>3. \/ w = Where[p]
        \/ Where[p] = "out" /\ w = "stack"
        \/ Where[p] = "held" /\ w = "stack"
        \/ Where[p] \in {"stack", "held"} /\ w = "done"
    BY <1>3, <1>7, <1>8, <1>10 DEF Rests, Injected, Held, TypeOK, Places
  <2>4. CASE w = Where[p]
    <3>1. Where' = Where
      BY <1>4, <2>4 DEF Where
    <3>. QED BY <2>1, <2>2, <3>1 DEF R!routeVars
  <2>5. CASE Where[p] = "out" /\ w = "stack"
    BY <1>4, <2>1, <2>2, <2>5 DEF R!Next, R!Arrive, R!Move
  <2>6. CASE Where[p] = "held" /\ w = "stack"
    BY <1>4, <2>1, <2>2, <2>6 DEF R!Next, R!Return, R!Move
  <2>7. CASE Where[p] \in {"stack", "held"} /\ w = "done"
    BY <1>4, <2>1, <2>2, <2>7 DEF R!Next, R!Finish, R!Move
  <2>. QED BY <2>3, <2>4, <2>5, <2>6, <2>7
<1>11. CASE Taken(p)
  <2>. DEFINE h == at'[p]
  <2>1. /\ h \in Handles /\ at[p] \in Handles /\ took[p] \subseteq Handles
        /\ \A g \in Handles : rank[g] \in Int /\ level[g] \in Nat
        /\ tag[p] \in Int
    BY <1>3 DEF TypeOK, Ranks, Levels
  <2>2. \A g \in took[p] : rank[g] <= rank[at[p]]
    BY DEF TakersSettled
  <2>3. took[p] # {} => rank[at[p]] < rank[h] /\ h \notin took[p]
    BY <1>11, <2>1, <2>2 DEF Taken, TagIsLast
  <2>4. took[p] # {} => level[at[p]] <= level[h]
    BY <2>1, <2>3, PackedOrder DEF RanksPacked
  <2>5. h \in Handles \ took[p] /\ took'[p] = took[p] \cup {h}
    BY <1>11, <2>1, <2>3 DEF Taken
  <2>6. l = level[h] /\ (l > Reached[p] \/ l = Reached[p])
    BY <1>9, <2>1, <2>4, <2>5
  <2>7. l \in Levels
    BY <1>3, <2>1, <2>6 DEF TypeOK
  <2>8. Where[p] = "stack" /\ w = "held"
    BY <1>7, <1>8, <1>11 DEF Taken, Held
  <2>9. took' = [took EXCEPT ![p] = @ \cup {h}]
    BY <1>3, <1>6, <2>5 DEF TypeOK
  <2>. HIDE DEF h
  <2>10. R!Divert(p)
    BY <1>4, <1>5, <2>5, <2>6, <2>7, <2>8, <2>9 DEF R!Divert, R!Move,
       R!LowerPriority, R!SharedPriority
  <2>. QED BY <2>10 DEF R!Next
<1>12. CASE place[p] = "stack" /\ place'[p] = "stack" /\ took'[p] = {}
  <2>1. Where[p] = "stack" /\ w = "stack" /\ l = -1
    BY <1>7, <1>8, <1>9, <1>12 DEF Held
  <2>2. Where' = Where
    BY <1>4, <2>1 DEF Where
  <2>3. R!Copied(p)
    BY <1>5, <1>6, <1>12, <2>1, <2>2 DEF R!Copied
  <2>. QED BY <2>3 DEF R!Next
<1>. QED BY <1>10, <1>11, <1>12 DEF Kinds

(***************************************************************************)
(* The driver keeps what Route states: handles get a packet in the order   *)
(* of their levels and none of them twice, for any number of handles and   *)
(* packets and whatever the serial numbers.  Two handles of one level may  *)
(* both get it.                                                            *)
(***************************************************************************)
THEOREM RouteImplemented == Spec => ImplementsRoute
<1>1. Init => R!Init
  <2>. SUFFICES ASSUME Init PROVE R!Init
    OBVIOUS
  <2>1. Where = [p \in Packets |-> "out"]
    BY DEF Init, Where, Held
  <2>2. Reached = [p \in Packets |-> -1]
    BY DEF Init, Reached
  <2>. QED BY <2>1, <2>2 DEF Init, R!Init
<1>2. Inv /\ [Next]_vars => [R!Next]_(R!routeVars)
  <2>. SUFFICES ASSUME Inv, [Next]_vars PROVE [R!Next]_(R!routeVars)
    OBVIOUS
  <2>1. ASSUME NEW h \in Handles, Configure(h) PROVE UNCHANGED R!routeVars
    BY <2>1, ConfigureInv, RouteUnchanged
  <2>2. ASSUME NEW p \in Packets, Packet(p) PROVE [R!Next]_(R!routeVars)
    BY <2>2, PacketKinds, RouteStep DEF Inv
  <2>3. CASE UNCHANGED vars
    BY <2>3, RouteUnchanged DEF vars, handleVars
  <2>. QED BY <2>1, <2>2, <2>3 DEF Next, Packet
<1>. QED BY <1>1, <1>2, InvHolds, PTL DEF Spec, ImplementsRoute, R!Spec

-----------------------------------------------------------------------------
(***************************************************************************)
(* No handle is skipped.  The inductive invariant says where a handle that *)
(* is still to get the packet stands: it has not been asked and the packet *)
(* carries a smaller priority than its own, or the packet is with a handle *)
(* that comes before it.                                                   *)
(***************************************************************************)
Ahead(p, h) ==
  \/ place[p] = "stack" /\ h \in Remaining(p) /\ tag[p] < rank[h]
  \/ place[p] \in Held /\ rank[at[p]] < rank[h]
  \/ place[p] = "lost"

Onward(p) ==
  \A h \in due[p] :
    state[h] = "on" /\ p \in matches[h] =>
      Ahead(p, h) \/ \E g \in took[p] : rank[g] = rank[h]

AskedSettled(p) ==
  /\ \A h \in asked[p] \cup due[p] : state[h] \in {"on", "closing"}
  /\ place[p] = "out" => asked[p] = {} /\ tag[p] = -1

OnwardInv == \A p \in Packets : Onward(p) /\ AskedSettled(p)

(***************************************************************************)
(* Creating, configuring, starting and closing a handle keeps OnwardInv.   *)
(***************************************************************************)
LEMMA ConfigureOnward ==
  ASSUME Inv, OnwardInv, NEW h \in Handles, Configure(h)
  PROVE  OnwardInv'
<1>1. UNCHANGED packetVars /\ UNCHANGED matches
  BY ConfigureInv DEF Configure, Create, Compute, SetPriority, Start, Cleanup
<1>2. \A g \in Handles : state[g] \in {"on", "closing"} =>
        rank'[g] = rank[g] /\ state'[g] \in {"on", "closing"}
  <2>1. \A g \in Handles : state[g] \in {"on", "closing"} => rank'[g] = rank[g]
    BY ConfigureInv
  <2>2. \A g \in Handles : state[g] \in {"on", "closing"} =>
          state'[g] \in {"on", "closing"}
    BY DEF Configure, Create, Compute, SetPriority, Start, Cleanup, Inv, TypeOK
  <2>. QED BY <2>1, <2>2
<1>3. \A g \in Handles : state[g] = "closing" => state'[g] = "closing"
  BY DEF Configure, Create, Compute, SetPriority, Start, Cleanup, Inv, TypeOK
<1>. SUFFICES ASSUME NEW p \in Packets PROVE Onward(p)' /\ AskedSettled(p)'
  BY DEF OnwardInv
<1>4. at[p] \in Handles /\ asked[p] \subseteq Handles /\ due[p] \subseteq Handles
      /\ took[p] \subseteq Handles
  BY DEF Inv, TypeOK
<1>5. Onward(p) /\ AskedSettled(p)
  BY DEF OnwardInv
<1>6. AskedSettled(p)'
  BY <1>1, <1>2, <1>4, <1>5 DEF AskedSettled, packetVars
<1>7. \A g \in took[p] : rank'[g] = rank[g]
  BY <1>2, <1>4 DEF Inv, TakersSettled
<1>8. place[p] \in Held => rank'[at[p]] = rank[at[p]]
  BY <1>7 DEF Inv, TagIsLast
<1>9. ASSUME NEW g \in due[p], state'[g] = "on", p \in matches'[g]
      PROVE  Ahead(p, g)' \/ \E f \in took'[p] : rank'[f] = rank'[g]
  <2>1. g \in Handles /\ state[g] = "on" /\ rank'[g] = rank[g]
    BY <1>2, <1>3, <1>4, <1>5, <1>9 DEF AskedSettled
  <2>2. Ahead(p, g) \/ \E f \in took[p] : rank[f] = rank[g]
    BY <1>1, <1>5, <1>9, <2>1 DEF Onward
  <2>3. \A f \in asked[p] : rank'[f] = rank[f]
    BY <1>2, <1>4, <1>5 DEF AskedSettled
  <2>4. g \in Remaining(p) => (g \in Remaining(p))'
    BY <1>1, <1>9, <2>1, <2>3 DEF Remaining, Weight, packetVars
  <2>. QED BY <1>1, <1>7, <1>8, <2>1, <2>2, <2>4 DEF Ahead, packetVars, Held
<1>. QED BY <1>1, <1>6, <1>9 DEF Onward, packetVars

(***************************************************************************)
(* A step of a packet keeps OnwardInv.                                     *)
(***************************************************************************)
LEMMA PacketOnward ==
  ASSUME Inv, OnwardInv, NEW p \in Packets, Packet(p)
  PROVE  OnwardInv'
<1>1. PacketStep(p) /\ Kinds(p) /\ TypeOK
  BY PacketKinds DEF Inv
<1>2. UNCHANGED <<state, rank, matches>> /\ TypeOK'
  BY <1>1 DEF PacketStep, handleVars
<1>3. \A q \in Packets \ {p} :
        place'[q] = place[q] /\ at'[q] = at[q] /\ tag'[q] = tag[q]
        /\ took'[q] = took[q] /\ asked'[q] = asked[q] /\ due'[q] = due[q]
  <2>1. \A q \in Packets \ {p} : asked'[q] = asked[q] /\ due'[q] = due[q]
    BY <1>1 DEF Packet, Driver, Arrive, Copy, Continue, Absorb, Pass, Work,
                Drain, Read, Expire, Send, Inject, Lose, TypeOK
  <2>. QED BY <1>1, <2>1 DEF PacketStep
<1>4. ASSUME NEW q \in Packets \ {p} PROVE Onward(q)' /\ AskedSettled(q)'
  BY <1>2, <1>3 DEF OnwardInv, Onward, AskedSettled, Ahead, Remaining, Weight,
                    Held
<1>. DEFINE Good == Onward(p)' /\ AskedSettled(p)'
<1>5. /\ at[p] \in Handles /\ asked[p] \subseteq Handles
      /\ due[p] \subseteq Handles /\ took[p] \subseteq Handles
      /\ \A h \in Handles : rank[h] \in Int /\ rank[h] >= 0
      /\ tag[p] \in Int /\ place[p] \in Places
  BY <1>1 DEF TypeOK, Ranks
<1>6. Onward(p) /\ AskedSettled(p)
  BY DEF OnwardInv
<1>7. ASSUME Arrive(p) \/ Copy(p) PROVE Good
  <2>1. /\ place'[p] = "stack" /\ asked'[p] = {} /\ tag'[p] = -1
        /\ due'[p] = Started
    BY <1>1, <1>6, <1>7 DEF Arrive, Copy, Move, AskedSettled, TypeOK
  <2>2. AskedSettled(p)'
    BY <1>2, <2>1 DEF AskedSettled, Started
  <2>3. \A h \in Started : (h \in Remaining(p))' /\ tag'[p] < rank[h]
    BY <1>2, <1>5, <2>1 DEF Started, Remaining
  <2>. QED BY <1>2, <2>1, <2>2, <2>3 DEF Onward, Ahead
<1>8. ASSUME NEW g \in Handles, Continue(p, g) PROVE Good
  <2>1. /\ place[p] = "stack" /\ place'[p] = "stack" /\ tag'[p] = tag[p]
        /\ asked'[p] = asked[p] \cup {g} /\ due'[p] = due[p]
        /\ took'[p] = took[p] /\ state[g] \in {"on", "closing"}
        /\ \A h \in Remaining(p) : Weight(h) <= Weight(g)
        /\ state[g] = "closing" \/ tag[p] >= rank[g] \/ p \notin matches[g]
    BY <1>1, <1>8 DEF Continue, NextAsked, Remaining, Skips, TypeOK
  <2>2. AskedSettled(p)'
    BY <1>2, <1>6, <2>1 DEF AskedSettled
  <2>3. ASSUME NEW h \in due[p], state[h] = "on", p \in matches[h], Ahead(p, h)
        PROVE  Ahead(p, h)'
    <3>1. h \in Remaining(p) /\ tag[p] < rank[h]
      BY <2>1, <2>3 DEF Ahead, Held
    <3>2. h # g
      BY <1>5, <2>1, <2>3, <3>1
    <3>3. (h \in Remaining(p))'
      BY <1>2, <2>1, <3>1, <3>2 DEF Remaining, Weight
    <3>. QED BY <1>2, <2>1, <3>1, <3>3 DEF Ahead
  <2>. QED BY <1>2, <1>6, <2>1, <2>2, <2>3 DEF Onward
<1>9. ASSUME NEW g \in Handles, Absorb(p, g) PROVE Good
  <2>1. /\ place[p] = "stack" /\ place'[p] = "work" /\ at'[p] = g
        /\ asked'[p] = asked[p] /\ due'[p] = due[p]
        /\ took'[p] = took[p] \cup {g}
        /\ \A h \in Remaining(p) : Weight(h) <= Weight(g)
    BY <1>1, <1>9 DEF Absorb, Move, NextAsked, TypeOK
  <2>2. AskedSettled(p)'
    BY <1>2, <1>6, <2>1 DEF AskedSettled
  <2>3. ASSUME NEW h \in due[p], Ahead(p, h)
        PROVE  rank[g] = rank[h] \/ rank[g] < rank[h]
    BY <1>5, <2>1, <2>3 DEF Ahead, Weight, Remaining, Held
  <2>. QED BY <1>2, <1>6, <2>1, <2>2, <2>3 DEF Onward, Ahead, Held
<1>10. ASSUME Pass(p) PROVE Good
  <2>1. /\ place[p] = "stack" /\ Remaining(p) = {} /\ place'[p] = "passed"
        /\ asked'[p] = asked[p] /\ due'[p] = due[p] /\ took'[p] = took[p]
    BY <1>1, <1>10 DEF Pass, Move, TypeOK
  <2>2. \A h \in due[p] : ~Ahead(p, h)
    BY <2>1 DEF Ahead, Held
  <2>. QED BY <1>2, <1>6, <2>1, <2>2 DEF Onward, AskedSettled
<1>11. ASSUME place[p] \in Held, due'[p] = due[p], Same(p),
              \/ place'[p] = "stack" /\ tag'[p] = rank[at[p]] /\ asked'[p] = {}
              \/ place'[p] \in Held \cup {"lost"} /\ asked'[p] = asked[p]
       PROVE  Good
  <2>1. AskedSettled(p)'
    BY <1>2, <1>6, <1>11 DEF AskedSettled, Held
  <2>2. ASSUME NEW h \in due[p], state[h] = "on", Ahead(p, h)
        PROVE  Ahead(p, h)'
    <3>1. rank[at[p]] < rank[h] /\ h \in Handles
      BY <1>5, <1>11, <2>2 DEF Ahead, Held
    <3>2. asked'[p] = {} => (h \in Remaining(p))'
      BY <1>2, <2>2, <3>1 DEF Remaining
    <3>. QED BY <1>2, <1>11, <3>1, <3>2 DEF Ahead, Same, Held
  <2>. QED BY <1>2, <1>6, <1>11, <2>1, <2>2 DEF Onward, Same
<1>12. ASSUME Work(p) \/ Drain(p) \/ Read(p) \/ Expire(p) \/ Send(p)
       PROVE  Good
  <2>1. place[p] \in Held /\ due'[p] = due[p] /\ Same(p)
    BY <1>12 DEF Work, Drain, Read, Expire, Send, Held, Same
  <2>2. \/ place'[p] = "stack" /\ tag'[p] = rank[at[p]] /\ asked'[p] = {}
        \/ place'[p] \in Held \cup {"lost"} /\ asked'[p] = asked[p]
    <3>1. CASE Inject(p)
      BY <1>1, <3>1 DEF Inject, Move, TypeOK
    <3>2. CASE Lose(p)
      BY <1>1, <3>2 DEF Lose, Move, TypeOK
    <3>3. CASE Move(p, "queue") /\ UNCHANGED asked
      BY <1>1, <3>3 DEF Move, TypeOK, Held
    <3>4. CASE Read(p)
      BY <1>1, <3>4 DEF Read, Move, TypeOK, Held
    <3>. QED BY <1>12, <3>1, <3>2, <3>3, <3>4 DEF Work, Drain, Expire, Send
  <2>. QED BY <1>11, <2>1, <2>2
<1>13. Good
  BY <1>7, <1>8, <1>9, <1>10, <1>12 DEF Packet, Driver
<1>. QED BY <1>4, <1>13 DEF OnwardInv

(***************************************************************************)
(* A packet that leaves the stack has been taken by every started handle   *)
(* that it matches, or by one of the same 32-bit priority, for any number  *)
(* of handles and packets.                                                 *)
(***************************************************************************)
THEOREM NoneSkippedHolds == Spec => []NoneSkipped
<1>1. Init => OnwardInv
  BY DEF Init, OnwardInv, Onward, AskedSettled
<1>2. Inv /\ OnwardInv /\ [Next]_vars => OnwardInv'
  <2>. SUFFICES ASSUME Inv, OnwardInv, [Next]_vars PROVE OnwardInv'
    OBVIOUS
  <2>1. CASE UNCHANGED vars
    BY <2>1 DEF OnwardInv, Onward, AskedSettled, Ahead, Remaining, Weight,
                Held, vars, handleVars, packetVars
  <2>. QED BY <2>1, ConfigureOnward, PacketOnward DEF Next, Packet
<1>3. OnwardInv => NoneSkipped
  BY DEF OnwardInv, Onward, Ahead, Held, NoneSkipped
<1>. QED BY <1>1, <1>2, <1>3, InvHolds, PTL DEF Spec
=============================================================================
