----------------------------- MODULE Priorities -----------------------------
(***************************************************************************)
(* Several open handles and the order in which they divert a packet.       *)
(*                                                                         *)
(* Every context has a 32-bit priority: the level that the application     *)
(* asked for in the upper half, a serial number in the lower half.  The    *)
(* filtering platform asks the callouts in increasing order of it.  A      *)
(* packet that the driver injects carries the priority of the handle it    *)
(* comes from, and a handle passes on every packet whose priority is not   *)
(* smaller than its own.  A packet that another driver has copied carries  *)
(* nothing; its TTL is decremented when it is read.                        *)
(*                                                                         *)
(* Grain of atomicity.  One action is one critical section of a context's  *)
(* lock together with what the thread does before the next one.  What the  *)
(* queues of a handle do to a packet is the subject of DivertContext; here *)
(* a handle's work queue and its packet queue are two places.              *)
(***************************************************************************)
EXTENDS Integers, FiniteSets

CONSTANTS
  Handles,    \* contexts; each is created at most once
  Packets,
  MaxLevel,   \* priority levels are 0..MaxLevel (-1000..1000 in the code)
  Serials,    \* the serial number is taken modulo Serials (2^16)
  MaxTTL,
  Setups,     \* with which modes and filters the handles may be opened
  Others      \* does another driver copy and inject packets?

Modes == {"divert", "sniff", "drop"}
Setup == [mode : [Handles -> Modes], matches : [Handles -> SUBSET Packets]]

ASSUME PrioritiesAssumption ==
  /\ Handles # {}
  /\ Setups \subseteq Setup
  /\ MaxLevel \in Nat /\ MaxTTL \in Nat
  /\ Serials \in Nat \ {0}
  /\ Others \in BOOLEAN

Levels == 0..MaxLevel
Default == MaxLevel \div 2

VARIABLES
  counter,    \* priority_counter, a LONG: wider than the serial number
  state,      \* "none", "open", "on" (open and started) or "closing"
  rank,       \* context->priority
  level,      \* the level that the application asked for
  pending,    \* a SET_PRIORITY under way: the new level and priority; None
              \* before and Spent after (bound: one request per handle)
  mode,       \* context->flags
  matches,    \* the packets that context->filter accepts
  place,      \* "out", "stack", "work", "queue", "app", "passed" or "lost"
  at,         \* the handle that holds the packet, if one does
  tag,        \* its injection context: a priority, or -1
  hop,        \* was it injected by another driver?
  ttl,
  asked,      \* the handles asked since it was last injected
  took,       \* the handles that took it since it arrived or was copied
  due         \* the handles that were started then

handleVars == <<counter, state, rank, level, pending, mode, matches>>
packetVars == <<place, at, tag, hop, ttl, asked, took, due>>
vars == <<handleVars, packetVars>>

None == [level |-> -1, rank |-> -1]
Spent == [level |-> -1, rank |-> -2]

(***************************************************************************)
(* windivert_context_priority, of the counter after the increment.         *)
(***************************************************************************)
ContextPriority(l, c) == l * Serials + (c % Serials)

(***************************************************************************)
(* InterlockedIncrement; here a LONG counts to four times the serials.     *)
(***************************************************************************)
Increment == (counter + 1) % (4 * Serials)

Init ==
  /\ counter = 0
  /\ state = [h \in Handles |-> "none"]
  /\ rank = [h \in Handles |-> 0]
  /\ level = [h \in Handles |-> 0]
  /\ pending = [h \in Handles |-> None]
  /\ \E s \in Setups : mode = s.mode /\ matches = s.matches
  /\ place = [p \in Packets |-> "out"]
  /\ at = [p \in Packets |-> CHOOSE h \in Handles : TRUE]
  /\ tag = [p \in Packets |-> -1]
  /\ hop = [p \in Packets |-> FALSE]
  /\ ttl = [p \in Packets |-> MaxTTL]
  /\ asked = [p \in Packets |-> {}]
  /\ took = [p \in Packets |-> {}]
  /\ due = [p \in Packets |-> {}]

-----------------------------------------------------------------------------
(***************************************************************************)
(* windivert_create.                                                       *)
(***************************************************************************)
Create(h) ==
  /\ state[h] = "none"
  /\ state' = [state EXCEPT ![h] = "open"]
  /\ counter' = Increment
  /\ level' = [level EXCEPT ![h] = Default]
  /\ rank' = [rank EXCEPT ![h] = ContextPriority(Default, Increment)]
  /\ UNCHANGED <<pending, mode, matches, packetVars>>

(***************************************************************************)
(* IOCTL_WINDIVERT_SET_PRIORITY: the new priority is made, and the serial  *)
(* number spent, before the lock is taken.                                 *)
(***************************************************************************)
Compute(h) ==
  /\ state[h] # "none" /\ pending[h] = None
  /\ counter' = Increment
  /\ \E l \in Levels :
       pending' = [pending EXCEPT ![h] =
                     [level |-> l, rank |-> ContextPriority(l, Increment)]]
  /\ UNCHANGED <<state, rank, level, mode, matches, packetVars>>

Settable(h) == state[h] = "open"

SetPriority(h) ==
  /\ pending[h] \notin {None, Spent}
  /\ pending' = [pending EXCEPT ![h] = Spent]
  /\ IF Settable(h)
       THEN /\ rank' = [rank EXCEPT ![h] = pending[h].rank]
            /\ level' = [level EXCEPT ![h] = pending[h].level]
       ELSE UNCHANGED <<rank, level>>
  /\ UNCHANGED <<counter, state, mode, matches, packetVars>>

(***************************************************************************)
(* IOCTL_WINDIVERT_START_FILTER, when it succeeds, and the first step of   *)
(* windivert_cleanup.                                                      *)
(***************************************************************************)
Start(h) ==
  /\ state[h] = "open"
  /\ state' = [state EXCEPT ![h] = "on"]
  /\ UNCHANGED <<counter, rank, level, pending, mode, matches, packetVars>>

Cleanup(h) ==
  /\ state[h] \in {"open", "on"}
  /\ state' = [state EXCEPT ![h] = "closing"]
  /\ UNCHANGED <<counter, rank, level, pending, mode, matches, packetVars>>

-----------------------------------------------------------------------------
Move(p, w) == place' = [place EXCEPT ![p] = w]
Started == {h \in Handles : state[h] = "on"}

(***************************************************************************)
(* A packet that no one has injected enters the network stack.             *)
(***************************************************************************)
Arrive(p) ==
  /\ place[p] = "out"
  /\ Move(p, "stack")
  /\ due' = [due EXCEPT ![p] = Started]
  /\ UNCHANGED <<handleVars, at, tag, hop, ttl, asked, took>>

(***************************************************************************)
(* Another driver takes it and injects a copy.                             *)
(***************************************************************************)
Copy(p) ==
  /\ Others /\ place[p] = "stack"
  /\ tag' = [tag EXCEPT ![p] = -1]
  /\ hop' = [hop EXCEPT ![p] = TRUE]
  /\ asked' = [asked EXCEPT ![p] = {}]
  /\ took' = [took EXCEPT ![p] = {}]
  /\ due' = [due EXCEPT ![p] = Started]
  /\ UNCHANGED <<handleVars, place, at, ttl>>

(***************************************************************************)
(* The filtering platform asks its filters in the order of their weights,  *)
(* UINT32_MAX - priority: those of started handles, and of handles that    *)
(* are being closed and have not yet taken theirs out.  (Mutant: filters   *)
(* are weighed by the priority itself.)                                    *)
(***************************************************************************)
WeightRank(h) == rank[h]
Weight(h) == -rank[h]

Remaining(p) ==
  {h \in Handles \ asked[p] :
     /\ state[h] \in {"on", "closing"}
     /\ \A g \in asked[p] : Weight(h) <= Weight(g)}

NextAsked(p, h) ==
  h \in Remaining(p) /\ \A g \in Remaining(p) : Weight(g) <= Weight(h)

(***************************************************************************)
(* windivert_classify_callout passes the packet on ...  (Mutant: > for     *)
(* >=.)                                                                    *)
(***************************************************************************)
SkipsGreater(p, h) == tag[p] > rank[h]
Skips(p, h) == tag[p] >= rank[h]

Continue(p, h) ==
  /\ place[p] = "stack" /\ NextAsked(p, h)
  /\ state[h] = "closing" \/ Skips(p, h) \/ p \notin matches[h]
  /\ asked' = [asked EXCEPT ![p] = @ \cup {h}]
  /\ UNCHANGED <<handleVars, place, at, tag, hop, ttl, took, due>>

(***************************************************************************)
(* ... or absorbs it, with the whole list of packets that it is in, of     *)
(* which one at least matches the filter.                                  *)
(***************************************************************************)
Absorb(p, h) ==
  /\ place[p] = "stack" /\ NextAsked(p, h)
  /\ state[h] = "on" /\ ~Skips(p, h)
  /\ Move(p, "work")
  /\ at' = [at EXCEPT ![p] = h]
  /\ took' = [took EXCEPT ![p] = @ \cup {h}]
  /\ UNCHANGED <<handleVars, tag, hop, ttl, asked, due>>

(***************************************************************************)
(* No callout is left to ask.                                              *)
(***************************************************************************)
Pass(p) ==
  /\ place[p] = "stack" /\ Remaining(p) = {}
  /\ Move(p, "passed")
  /\ UNCHANGED <<handleVars, at, tag, hop, ttl, asked, took, due>>

(***************************************************************************)
(* Injection with the priority of the handle that has the packet: it       *)
(* enters the stack again.                                                 *)
(***************************************************************************)
Inject(p) ==
  /\ Move(p, "stack")
  /\ tag' = [tag EXCEPT ![p] = rank[at[p]]]
  /\ hop' = [hop EXCEPT ![p] = FALSE]
  /\ asked' = [asked EXCEPT ![p] = {}]

Lose(p) == Move(p, "lost") /\ UNCHANGED <<tag, hop, asked>>

(***************************************************************************)
(* windivert_worker: what does not match goes back, and so does everything *)
(* in SNIFF mode (a copy of what matches is queued); the rest is queued    *)
(* or, in DROP mode or when an allocation fails, lost.                     *)
(***************************************************************************)
Work(p) ==
  /\ place[p] = "work" /\ state[at[p]] = "on"
  /\ \/ (p \notin matches[at[p]] \/ mode[at[p]] = "sniff") /\ Inject(p)
     \/ /\ p \in matches[at[p]] /\ mode[at[p]] = "divert"
        /\ Move(p, "queue") /\ UNCHANGED <<tag, hop, asked>>
     \/ Lose(p)
  /\ UNCHANGED <<handleVars, at, ttl, took, due>>

(***************************************************************************)
(* windivert_cleanup injects what is in either queue, or loses it if it is *)
(* too old or an injection has failed.                                     *)
(***************************************************************************)
Drain(p) ==
  /\ place[p] \in {"work", "queue"} /\ state[at[p]] = "closing"
  /\ Inject(p) \/ Lose(p)
  /\ UNCHANGED <<handleVars, at, ttl, took, due>>

(***************************************************************************)
(* A read, with windivert_finalize_packet.  (Mutant: the TTL is left       *)
(* alone.)                                                                 *)
(***************************************************************************)
HopNot(p) == UNCHANGED ttl
Hop(p) == ttl' = [ttl EXCEPT ![p] = IF hop[p] /\ @ # 0 THEN @ - 1 ELSE @]

Read(p) ==
  /\ place[p] = "queue" /\ state[at[p]] = "on"
  /\ Hop(p)
  /\ Move(p, IF hop[p] /\ ttl[p] <= 1 THEN "lost" ELSE "app")
  /\ UNCHANGED <<handleVars, at, tag, hop, asked, took, due>>

Expire(p) ==
  /\ place[p] = "queue" /\ state[at[p]] = "on"
  /\ Lose(p)
  /\ UNCHANGED <<handleVars, at, ttl, took, due>>

(***************************************************************************)
(* windivert_write: the application sends the packet through the handle    *)
(* that it got it from.                                                    *)
(***************************************************************************)
Send(p) ==
  /\ place[p] = "app" /\ state[at[p]] = "on"
  /\ Inject(p)
  /\ UNCHANGED <<handleVars, at, ttl, took, due>>

-----------------------------------------------------------------------------
Configure(h) ==
  Create(h) \/ Compute(h) \/ SetPriority(h) \/ Start(h) \/ Cleanup(h)

Driver(p) ==
  \/ \E h \in Handles : Continue(p, h) \/ Absorb(p, h)
  \/ Pass(p) \/ Work(p) \/ Drain(p)

Next ==
  \/ \E h \in Handles : Configure(h)
  \/ \E p \in Packets :
       Arrive(p) \/ Copy(p) \/ Driver(p) \/ Read(p) \/ Expire(p) \/ Send(p)

Spec == Init /\ [][Next]_vars

(***************************************************************************)
(* The platform keeps classifying, work items run and a cleanup goes on;   *)
(* no application needs to read or send.                                   *)
(***************************************************************************)
FairSpec == Spec /\ \A p \in Packets : WF_vars(Driver(p))

-----------------------------------------------------------------------------
(***************************************************************************)
(* Types of all variables.                                                 *)
(***************************************************************************)
Ranks == 0..((MaxLevel + 1) * Serials - 1)
Places == {"out", "stack", "work", "queue", "app", "passed", "lost"}
Held == {"work", "queue", "app"}

TypeOK ==
  /\ counter \in 0..(4 * Serials - 1)
  /\ state \in [Handles -> {"none", "open", "on", "closing"}]
  /\ rank \in [Handles -> Ranks]
  /\ level \in [Handles -> Levels]
  /\ pending \in [Handles -> [level : Levels, rank : Ranks] \cup {None, Spent}]
  /\ mode \in [Handles -> Modes]
  /\ matches \in [Handles -> SUBSET Packets]
  /\ place \in [Packets -> Places]
  /\ at \in [Packets -> Handles]
  /\ tag \in [Packets -> Ranks \cup {-1}]
  /\ hop \in [Packets -> BOOLEAN]
  /\ ttl \in [Packets -> 0..MaxTTL]
  /\ asked \in [Packets -> SUBSET Handles]
  /\ took \in [Packets -> SUBSET Handles]
  /\ due \in [Packets -> SUBSET Handles]

(***************************************************************************)
(* Handles get a packet in the order of their levels, and none of them     *)
(* gets it twice, whatever becomes of the handles meanwhile and also when  *)
(* the serial numbers wrap around.  So a packet is diverted once per level *)
(* (doc/windivert.html 508), except that each of several handles of one    *)
(* level may get it (Route!SharedPriority): their serial numbers make them *)
(* priorities of their own (WINDIVERT_CONTEXT_PRIORITY).                   *)
(***************************************************************************)
Where ==
  [p \in Packets |->
     IF place[p] \in Held THEN "held"
     ELSE IF place[p] \in {"passed", "lost"} THEN "done"
     ELSE place[p]]

(* The level of the handle that took the packet last. *)
Reached ==
  [p \in Packets |-> IF took[p] = {} THEN -1 ELSE level[at[p]]]

R == INSTANCE Route
       WITH where <- Where, holder <- took, level <- Reached

ImplementsRoute == R!Spec

(***************************************************************************)
(* No handle is left out: a packet that leaves the stack has been taken by *)
(* every handle that was started when it came, is still started, and whose *)
(* filter it matches.  The exception is a handle with exactly the priority *)
(* of one that took it, which the driver takes for that handle: 2^16       *)
(* serial numbers after each other are the same.                           *)
(***************************************************************************)
NoneSkipped ==
  \A p \in Packets : place[p] = "passed" =>
    \A h \in due[p] :
      state[h] = "on" /\ p \in matches[h] =>
        \E g \in took[p] : rank[g] = rank[h]

(***************************************************************************)
(* A packet that another driver keeps copying is not read for ever: its    *)
(* TTL runs out (doc/windivert.html on ERROR_HOST_UNREACHABLE).  This needs*)
(* that no handle injects the packet without its being read, as in SNIFF   *)
(* mode or when it is in a list with a packet that matches: it then counts *)
(* as the driver's own for all the handles that follow.                    *)
(***************************************************************************)
AlwaysRead(p) == \A h \in Handles : mode[h] # "sniff" /\ p \in matches[h]

LoopsEnd ==
  \A p \in Packets :
    AlwaysRead(p) => <>[][~(place[p] = "queue" /\ place'[p] = "app")]_vars
=============================================================================
