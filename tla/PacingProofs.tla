---------------------------- MODULE PacingProofs ----------------------------
(* Proofs about PacingLoop, for any number of agents and workers, any limits   *)
(* and any number of crashes: the counters are exact, one loop ticks, and the  *)
(* batch a tick approves keeps its bounds while the agents move under it.      *)
EXTENDS PacingLoop, FiniteSetTheorems, TLAPS

-----------------------------------------------------------------------------
(* Arithmetic: the extrema of a few numbers, and the bounds S7 and the         *)
(* progressive rules put on what is approved.                                  *)

LEMMA MaxOfTwo ==
  ASSUME NEW m \in Int, NEW n \in Int
  PROVE  Max({m, n}) = IF m >= n THEN m ELSE n
<1>1. \E x \in {m, n} : \A y \in {m, n} : x >= y
  OBVIOUS
<1>2. /\ Max({m, n}) \in {m, n}
      /\ \A y \in {m, n} : Max({m, n}) >= y
  BY <1>1 DEF Max
<1> QED
  BY <1>2

LEMMA AtLeastZeroIs ==
  ASSUME NEW n \in Int
  PROVE  AtLeastZero(n) = IF n > 0 THEN n ELSE 0
BY MaxOfTwo DEF AtLeastZero

HasLeast(S) == S \subseteq Int /\ \E x \in S : \A y \in S : x <= y

\* What a rule returns: no cap, or one.
NoneOrOne(T) == T = {} \/ \E n \in Int : T = {n}

LEMMA LeastOfOne ==
  ASSUME NEW n \in Int
  PROVE  HasLeast({n})
BY DEF HasLeast

LEMMA LeastWithCap ==
  ASSUME NEW S, HasLeast(S), NEW T, NoneOrOne(T)
  PROVE  HasLeast(S \cup T)
<1>1. PICK x \in S : x \in Int /\ \A y \in S : y \in Int /\ x <= y
  BY DEF HasLeast
<1>2. CASE T = {}
  BY <1>1, <1>2 DEF HasLeast
<1>3. ASSUME NEW n \in Int, T = {n}
      PROVE  HasLeast(S \cup T)
  <2>1. CASE x <= n
    BY <1>1, <1>3, <2>1 DEF HasLeast
  <2>2. CASE n < x
    <3>1. \A y \in S : n <= y
      BY <1>1, <2>2
    <3> QED
      BY <1>1, <1>3, <3>1 DEF HasLeast
  <2> QED
    BY <1>1, <2>1, <2>2
<1> QED
  BY <1>2, <1>3 DEF NoneOrOne

\* The caps of the eight rules and the request.
LEMMA LeastOfCaps ==
  ASSUME NEW n \in Int, NEW A, NEW B, NEW C, NEW D, NEW E, NEW F, NEW G, NEW H,
         NoneOrOne(A), NoneOrOne(B), NoneOrOne(C), NoneOrOne(D),
         NoneOrOne(E), NoneOrOne(F), NoneOrOne(G), NoneOrOne(H)
  PROVE  HasLeast({n} \cup A \cup B \cup C \cup D \cup E \cup F \cup G \cup H)
<1>1. HasLeast({n} \cup A)
  BY LeastOfOne, LeastWithCap
<1>2. HasLeast({n} \cup A \cup B)
  BY <1>1, LeastWithCap
<1>3. HasLeast({n} \cup A \cup B \cup C)
  BY <1>2, LeastWithCap
<1>4. HasLeast({n} \cup A \cup B \cup C \cup D)
  BY <1>3, LeastWithCap
<1>5. HasLeast({n} \cup A \cup B \cup C \cup D \cup E)
  BY <1>4, LeastWithCap
<1>6. HasLeast({n} \cup A \cup B \cup C \cup D \cup E \cup F)
  BY <1>5, LeastWithCap
<1>7. HasLeast({n} \cup A \cup B \cup C \cup D \cup E \cup F \cup G)
  BY <1>6, LeastWithCap
<1> QED
  BY <1>7, LeastWithCap

LEMMA MinIsLeast ==
  ASSUME NEW S, HasLeast(S)
  PROVE  Min(S) \in S /\ Min(S) \in Int /\ \A y \in S : Min(S) <= y
BY DEF HasLeast, Min

LEMMA ProgressiveIs ==
  ASSUME NEW s \in SnapshotRow
  PROVE  /\ Progressive(s) \in Nat
         /\ AgentBoundInflight(s) \in Nat
         /\ AgentBoundInflight(s) = s.reserved + s.dialing
         /\ Progressive(s) = IF s.available > s.reserved + s.dialing
                             THEN s.available - (s.reserved + s.dialing) ELSE 0
BY AtLeastZeroIs DEF Progressive, AgentBoundInflight, SnapshotRow

\* An engine asks for a number of calls.
LEMMA RequestsAreNumbers ==
  ASSUME NEW s \in SnapshotRow, NEW n \in Requests(s)
  PROVE  n \in Nat
<1>1. CASE n = Progressive(s)
  BY <1>1, ProgressiveIs
<1>2. ASSUME NEW odds \in Odds, n = Predictive(s, odds, Talk)
      PROVE  n \in Nat
  <2>1. odds \in Nat /\ Talk \in Nat \ {0}
    BY PacingAssumption
  <2>2. s.available * Talk \in Int /\ s.callsConnected \in Int /\ s.ringing \in Int
    BY <2>1 DEF SnapshotRow
  <2> DEFINE m == (s.available * Talk + s.callsConnected) * odds
  <2>3. m \in Int
    BY <2>1, <2>2
  <2> HIDE DEF m
  <2>4. m \div Talk \in Int
    BY <2>1, <2>3
  <2>5. n = AtLeastZero(m \div Talk - s.ringing)
    BY <1>2 DEF Predictive, m
  <2> QED
    BY <2>2, <2>4, <2>5, AtLeastZeroIs
<1> QED
  BY <1>1, <1>2 DEF Requests

\* What the controller approves: never more than S7 leaves, nor, when S2, S3 or
\* S5 forces it, than the progressive request.
LEMMA ApprovedBounds ==
  ASSUME NEW s \in SnapshotRow, NEW n \in Nat, NEW cooldown \in Nat
  PROVE  /\ Approved(n, s, cooldown) \in Nat
         /\ Approved(n, s, cooldown) <= AtLeastZero(RingingHardCap - s.ringing)
         /\ cooldown > 0 \/ ~s.sampled \/ s.breach =>
              Approved(n, s, cooldown) <= Progressive(s)
<1> DEFINE best == [num |-> s.health, den |-> 100]
           caps == {n} \cup S0(s) \cup S1(s) \cup S2(s, cooldown) \cup S3(s)
                       \cup S4(n, best) \cup S5(s) \cup S6(s) \cup S7(s)
<1>1. /\ Progressive(s) \in Nat /\ AgentBoundInflight(s) \in Nat
      /\ s.ringing \in Nat /\ s.health \in 0 .. 100
  BY ProgressiveIs DEF SnapshotRow
<1>2. (n * s.health) \div 100 \in Nat
  <2>1. n * s.health \in Nat
    BY <1>1
  <2> QED
    BY <2>1
<1>3. Ceiling(s) \in Int
  <2>1. AgentsStaffed(s) \in Nat
    BY DEF AgentsStaffed, SnapshotRow
  <2>2. AgentsStaffed(s) * OverdialNum \in Int
    BY <2>1, LimitsAssumption
  <2> QED
    BY <2>2, LimitsAssumption DEF Ceiling
<1>4. /\ AtLeastZero(Ceiling(s) - AgentBoundInflight(s) - s.ringing) \in Nat
      /\ AtLeastZero(RingingHardCap - s.ringing) \in Nat
  BY <1>1, <1>3, AtLeastZeroIs, LimitsAssumption
<1>5. /\ S0(s) \subseteq Nat /\ NoneOrOne(S0(s))
      /\ S1(s) \subseteq Nat /\ NoneOrOne(S1(s))
      /\ S2(s, cooldown) \subseteq Nat /\ NoneOrOne(S2(s, cooldown))
      /\ S3(s) \subseteq Nat /\ NoneOrOne(S3(s))
      /\ S4(n, best) \subseteq Nat /\ NoneOrOne(S4(n, best))
      /\ S5(s) \subseteq Nat /\ NoneOrOne(S5(s))
      /\ S6(s) \subseteq Nat /\ NoneOrOne(S6(s))
      /\ S7(s) \subseteq Nat /\ NoneOrOne(S7(s))
  <2>1. /\ S0(s) \subseteq Nat /\ NoneOrOne(S0(s))
        /\ S1(s) \subseteq Nat /\ NoneOrOne(S1(s))
    BY DEF S0, S1, NoneOrOne
  <2>2. /\ S2(s, cooldown) \subseteq Nat /\ NoneOrOne(S2(s, cooldown))
        /\ S3(s) \subseteq Nat /\ NoneOrOne(S3(s))
        /\ S5(s) \subseteq Nat /\ NoneOrOne(S5(s))
    BY <1>1 DEF S2, S3, S5, NoneOrOne
  <2>3. /\ S4(n, best) \subseteq Nat /\ NoneOrOne(S4(n, best))
    BY <1>2 DEF S4, Scaled, NoneOrOne
  <2>4. /\ S6(s) \subseteq Nat /\ NoneOrOne(S6(s))
        /\ S7(s) \subseteq Nat /\ NoneOrOne(S7(s))
    BY <1>4 DEF S6, S7, NoneOrOne
  <2> QED
    BY <2>1, <2>2, <2>3, <2>4
<1>6. HasLeast(caps)
  <2>1. n \in Int
    OBVIOUS
  <2> HIDE DEF best
  <2> QED
    BY <1>5, <2>1, LeastOfCaps, Zenon
<1>7. caps \subseteq Nat
  BY <1>5
<1>8. /\ AtLeastZero(RingingHardCap - s.ringing) \in caps
      /\ cooldown > 0 \/ ~s.sampled \/ s.breach => Progressive(s) \in caps
  BY DEF S2, S3, S5, S7
<1>9. Approved(n, s, cooldown) = Min(caps)
  BY DEF Approved
<1> HIDE DEF caps
<1>10. Min(caps) \in caps /\ \A y \in caps : Min(caps) <= y
  BY <1>6, MinIsLeast
<1>11. Approved(n, s, cooldown) \in Nat /\ \A y \in caps : Approved(n, s, cooldown) <= y
  BY <1>7, <1>9, <1>10
<1> QED
  BY <1>8, <1>11

-----------------------------------------------------------------------------
(* Counting agents.                                                            *)

LEMMA InFinite ==
  ASSUME NEW T
  PROVE  /\ In(T) \in SUBSET Agent
         /\ IsFiniteSet(In(T))
         /\ Cardinality(In(T)) \in 0 .. Cardinality(Agent)
<1>1. In(T) \in SUBSET Agent
  BY DEF In
<1> QED
  BY <1>1, StaffAssumption, FS_Subset, FS_CardinalityType

\* One agent moves.
LEMMA MoveCount ==
  ASSUME PoolTypeOK, NEW T, NEW a \in Agent, NEW from, NEW to, Move(a, from, to)
  PROVE  /\ to \in T /\ pool[a] \notin T => Cardinality(In(T)') = Cardinality(In(T)) + 1
         /\ to \notin T /\ pool[a] \in T => Cardinality(In(T)') = Cardinality(In(T)) - 1
         /\ (to \in T <=> pool[a] \in T) => Cardinality(In(T)') = Cardinality(In(T))
<1>1. In(T)' = IF to \in T THEN In(T) \cup {a} ELSE In(T) \ {a}
  BY DEF In, Move, PoolTypeOK
<1>2. a \in In(T) <=> pool[a] \in T
  BY DEF In
<1>3. IsFiniteSet(In(T)) /\ Cardinality(In(T)) \in Nat
  BY InFinite, StaffAssumption, FS_CardinalityType
<1>4. CASE to \in T /\ pool[a] \notin T
  BY <1>1, <1>2, <1>3, <1>4, FS_AddElement
<1>5. CASE to \notin T /\ pool[a] \in T
  BY <1>1, <1>2, <1>3, <1>5, FS_RemoveElement
<1>6. CASE to \in T <=> pool[a] \in T
  <2>1. In(T)' = In(T)
    BY <1>1, <1>2, <1>6
  <2> QED
    BY <1>6, <2>1
<1> QED
  BY <1>4, <1>5, <1>6

\* The triggers count exactly, whatever rows one statement changes.
LEMMA TriggersCount ==
  ASSUME NEW T
  PROVE  Cardinality(In(T)') =
           Cardinality(In(T))
             + Cardinality({a \in Agent : pool'[a] # pool[a] /\ pool'[a] \in T})
             - Cardinality({a \in Agent : pool'[a] # pool[a] /\ pool[a] \in T})
<1> DEFINE came == {a \in Agent : pool'[a] # pool[a] /\ pool'[a] \in T}
           left == {a \in Agent : pool'[a] # pool[a] /\ pool[a] \in T}
           stay == {a \in Agent : pool'[a] = pool[a] /\ pool[a] \in T}
<1>1. /\ In(T)' = stay \cup came /\ stay \cap came = {}
      /\ In(T) = stay \cup left /\ stay \cap left = {}
  BY DEF In
<1>2. IsFiniteSet(came) /\ IsFiniteSet(left) /\ IsFiniteSet(stay)
  <2>1. came \in SUBSET Agent /\ left \in SUBSET Agent /\ stay \in SUBSET Agent
    OBVIOUS
  <2> QED
    BY <2>1, StaffAssumption, FS_Subset
<1>3. Cardinality(came) \in Nat /\ Cardinality(left) \in Nat /\ Cardinality(stay) \in Nat
  BY <1>2, FS_CardinalityType
<1> HIDE DEF came, left, stay
<1>4. Cardinality(stay \cup came) = Cardinality(stay) + Cardinality(came)
  BY <1>1, <1>2, <1>3, FS_Union, FS_EmptySet
<1>5. Cardinality(stay \cup left) = Cardinality(stay) + Cardinality(left)
  BY <1>1, <1>2, <1>3, FS_Union, FS_EmptySet
<1> QED
  BY <1>1, <1>3, <1>4, <1>5 DEF came, left

LEMMA CountingStep ==
  ASSUME CountersExact, Counting
  PROVE  CountersExact'
<1>1. DOMAIN Counts = DOMAIN Counted
  BY DEF Counts
<1>2. ASSUME NEW k \in DOMAIN Counted
      PROVE  counters'[k] = Cardinality(In(Counted[k])')
  BY <1>2, TriggersCount DEF CountersExact, Counts, Counting, Triggers
<1> QED
  BY <1>2 DEF CountersExact, Counts, Counting, Triggers

-----------------------------------------------------------------------------
(* The agents that ring, and those on their way to a call, as they move.       *)

OnTheirWay == {"RESERVED"} \cup Ringing

RingingCount == Cardinality(In(Ringing))
OnTheirWayCount == Cardinality(In(OnTheirWay))

LEMMA CountTypes == RingingCount \in Nat /\ OnTheirWayCount \in Nat
BY InFinite, FS_CardinalityType DEF RingingCount, OnTheirWayCount

\* The moves that make neither count higher.
Quiet(a) ==
  \/ Refuse(a) \/ Ring(a) \/ Bridge(a) \/ Complete(a) \/ Lose(a) \/ Logout(a) \/ Login(a)

LEMMA QuietMove ==
  ASSUME PoolTypeOK, NEW a \in Agent, Quiet(a)
  PROVE  PoolTypeOK' /\ RingingCount' <= RingingCount /\ OnTheirWayCount' <= OnTheirWayCount
<1>1. PICK from \in SUBSET Stage, to \in Stage :
        /\ Move(a, from, to)
        /\ to \in Ringing => from \subseteq Ringing
        /\ to \notin {"RESERVED"}
  BY DEF Quiet, Refuse, Ring, Bridge, Complete, Lose, Logout, Login, Stage, Ringing, OnTheLine
<1>2. PoolTypeOK'
  BY <1>1 DEF PoolTypeOK, Move
<1>3. /\ to \in Ringing => pool[a] \in Ringing
      /\ to \in OnTheirWay => pool[a] \in OnTheirWay
  BY <1>1 DEF Move, OnTheirWay
<1>4. ASSUME NEW T, to \in T => pool[a] \in T
      PROVE  Cardinality(In(T)') <= Cardinality(In(T))
  <2>1. Cardinality(In(T)) \in Int
    BY InFinite, FS_CardinalityType
  <2>2. CASE to \notin T /\ pool[a] \in T
    <3>1. Cardinality(In(T)') = Cardinality(In(T)) - 1
      BY <1>1, <2>2, MoveCount
    <3> QED
      BY <2>1, <3>1
  <2>3. CASE to \in T <=> pool[a] \in T
    <3>1. Cardinality(In(T)') = Cardinality(In(T))
      BY <1>1, <2>3, MoveCount
    <3> QED
      BY <2>1, <3>1
  <2> QED
    BY <1>4, <2>2, <2>3
<1> QED
  BY <1>2, <1>3, <1>4 DEF RingingCount, OnTheirWayCount

LEMMA BookMove ==
  ASSUME PoolTypeOK, NEW a \in Agent, Book(a)
  PROVE  /\ PoolTypeOK' /\ RingingCount' = RingingCount
         /\ OnTheirWayCount' = OnTheirWayCount + 1
<1>1. Move(a, {"AVAILABLE"}, "RESERVED") /\ pool[a] = "AVAILABLE"
  BY DEF Book, Move
<1>2. PoolTypeOK'
  BY <1>1 DEF PoolTypeOK, Move, Stage
<1>3. /\ "RESERVED" \notin Ringing /\ pool[a] \notin Ringing
      /\ "RESERVED" \in OnTheirWay /\ pool[a] \notin OnTheirWay
  BY <1>1 DEF Ringing, OnTheirWay
<1> QED
  BY <1>1, <1>2, <1>3, MoveCount DEF RingingCount, OnTheirWayCount

LEMMA DialMove ==
  ASSUME PoolTypeOK, NEW a \in Agent, Dial(a)
  PROVE  /\ PoolTypeOK' /\ RingingCount' = RingingCount + 1
         /\ OnTheirWayCount' = OnTheirWayCount
<1>1. Move(a, {"RESERVED"}, "INITIATED") /\ pool[a] = "RESERVED"
  BY DEF Dial, Move
<1>2. PoolTypeOK'
  BY <1>1 DEF PoolTypeOK, Move, Stage
<1>3. /\ "INITIATED" \in Ringing /\ pool[a] \notin Ringing
      /\ "INITIATED" \in OnTheirWay /\ pool[a] \in OnTheirWay
  BY <1>1 DEF Ringing, OnTheirWay
<1> QED
  BY <1>1, <1>2, <1>3, MoveCount DEF RingingCount, OnTheirWayCount

LEMMA SweepMove ==
  ASSUME PoolTypeOK, NEW S \in SUBSET Agent, Sweep(S)
  PROVE  PoolTypeOK' /\ RingingCount' <= RingingCount /\ OnTheirWayCount' <= OnTheirWayCount
<1>1. PoolTypeOK'
  BY DEF PoolTypeOK, Sweep, Stage
<1>2. In(Ringing)' \in SUBSET In(Ringing) /\ In(OnTheirWay)' \in SUBSET In(OnTheirWay)
  BY DEF In, Sweep, Ringing, OnTheirWay
<1> QED
  BY <1>1, <1>2, InFinite, FS_Subset DEF RingingCount, OnTheirWayCount

\* What a snapshot of exact counters shows.
LEMMA SnapshotShows ==
  ASSUME CountersExact, active \in BOOLEAN, NEW sampled \in BOOLEAN, NEW breach \in BOOLEAN,
         NEW health \in Health, NEW cooling \in BOOLEAN
  PROVE  /\ Snapshot(sampled, breach, health, cooling) \in SnapshotRow
         /\ Snapshot(sampled, breach, health, cooling).ringing = RingingCount
         /\ AgentBoundInflight(Snapshot(sampled, breach, health, cooling)) = OnTheirWayCount
         /\ Snapshot(sampled, breach, health, cooling).sampled = sampled
         /\ Snapshot(sampled, breach, health, cooling).breach = breach
         /\ Snapshot(sampled, breach, health, cooling).cooling = cooling
<1>1. \A T : Cardinality(In(T)) \in Nat
  BY InFinite, FS_CardinalityType
<1>2. /\ counters.available = Cardinality(In({"AVAILABLE"}))
      /\ counters.reserved = Cardinality(In({"RESERVED"}))
      /\ counters.dialing = Cardinality(In(Ringing))
      /\ counters.connected = Cardinality(In({"CONNECTED"}))
      /\ counters.wrapup = Cardinality(In({"WRAP_UP"}))
      /\ counters.ringing = Cardinality(In(Ringing))
      /\ counters.callsConnected = Cardinality(In({"CONNECTED"}))
  BY DEF CountersExact, Counts, Counted
<1>3. health \in 0 .. 100
  BY PacingAssumption
<1>4. OnTheirWayCount = Cardinality(In({"RESERVED"})) + Cardinality(In(Ringing))
  <2>1. /\ In(OnTheirWay) = In({"RESERVED"}) \cup In(Ringing)
        /\ In({"RESERVED"}) \cap In(Ringing) = {}
    BY DEF In, OnTheirWay, Ringing
  <2>2. IsFiniteSet(In({"RESERVED"})) /\ IsFiniteSet(In(Ringing))
    BY InFinite
  <2>3. OnTheirWayCount =
          Cardinality(In({"RESERVED"})) + Cardinality(In(Ringing)) - Cardinality({})
    BY <2>1, <2>2, FS_Union DEF OnTheirWayCount
  <2>4. Cardinality({}) = 0
    BY FS_EmptySet
  <2> QED
    BY <1>1, <2>3, <2>4
<1> QED
  BY <1>1, <1>2, <1>3, <1>4 DEF Snapshot, SnapshotRow, RingingCount, AgentBoundInflight

\* What is kept of it.
LEMMA KeptShows ==
  ASSUME NEW s \in SnapshotRow
  PROVE  /\ Kept(s) \in SnapshotRow
         /\ Kept(s).available = s.available
         /\ AgentBoundInflight(Kept(s)) = AgentBoundInflight(s)
         /\ Progressive(Kept(s)) = Progressive(s)
         /\ Forced(Kept(s)) <=> s.cooling \/ ~s.sampled \/ s.breach
<1>1. Kept(s) \in SnapshotRow
  <2> DEFINE r == [s EXCEPT !.health = 0]
  <2>1. r \in SnapshotRow
    BY DEF SnapshotRow
  <2>2. [r EXCEPT !.active = FALSE] \in SnapshotRow
    BY <2>1 DEF SnapshotRow
  <2> QED
    BY <2>2 DEF Kept
<1>2. /\ Kept(s).available = s.available
      /\ Kept(s).reserved = s.reserved
      /\ Kept(s).dialing = s.dialing
  BY DEF Kept, SnapshotRow
<1>3. /\ Kept(s).sampled = s.sampled
      /\ Kept(s).breach = s.breach
      /\ Kept(s).cooling = s.cooling
  BY DEF Kept, SnapshotRow
<1> QED
  BY <1>1, <1>2, <1>3 DEF AgentBoundInflight, Progressive, Forced

-----------------------------------------------------------------------------
(* The inductive invariant.                                                    *)

LoopShape ==
  /\ loop \in [Worker -> LoopRow]
  /\ active \in BOOLEAN
  /\ lock \in Worker \cup {NoWorker}
  /\ calm \in [Worker -> 0 .. CooldownTicks]
  /\ deaths \in 0 .. MaxDeaths

\* Where a loop is says what it may hold: the lock while it leads, coroutines
\* while it allocates, a cooldown as long as the last breach is recent.
Phases(w) ==
  /\ loop[w].leader => lock = w
  /\ loop[w].pc \in {"allocating", "cancelling"} => loop[w].leader
  /\ loop[w].pc = "dead" => deaths > 0
  /\ loop[w].pc \in {"waiting", "cancelling"} => loop[w].todo = 0 /\ loop[w].placing = {}
  /\ loop[w].pc # "cancelling" => loop[w].sweep = {}
  /\ loop[w].pc # "dead" => loop[w].cooldown + calm[w] >= CooldownTicks - 1
  /\ loop[w].pc = "allocating" /\ calm[w] < CooldownTicks =>
       loop[w].todo <= Progressive(loop[w].seen)

\* S7's budget: what rings, is being placed or is still to start is in the cap.
CapBudget(w) ==
  loop[w].pc = "allocating" =>
    RingingCount + Cardinality(loop[w].placing) + loop[w].todo <= RingingHardCap

\* The most a progressive batch may bring on the way.
WayLimit(seen) == Max({seen.available, AgentBoundInflight(seen)})

\* I4's budget: what is on its way to an agent or still to start.
WayBudget(w) ==
  loop[w].pc = "allocating" /\ Forced(loop[w].seen) =>
    OnTheirWayCount + loop[w].todo <=
      Max({loop[w].seen.available, AgentBoundInflight(loop[w].seen)})

Budgets ==
  deaths = 0 =>
    /\ RingingCount <= RingingHardCap
    /\ \A w \in Worker : CapBudget(w) /\ WayBudget(w)

PInv ==
  /\ PoolTypeOK
  /\ CountersExact
  /\ LoopShape
  /\ LockIsAWorkingLoops
  /\ \A w \in Worker : Phases(w)
  /\ Budgets

LEMMA OneLeader == ASSUME PInv PROVE OneLoopTicks
BY DEF PInv, Phases, OneLoopTicks

LEMMA NoWorkerIsNone == NoWorker \notin Worker
BY PacingAssumption

\* A step of one loop, which keeps the lock and the lead.
LEMMA LoopStep ==
  ASSUME PInv, NEW w \in Worker, UNCHANGED <<active, lock, deaths>>,
         PoolTypeOK', CountersExact',
         loop' \in [Worker -> LoopRow], calm' \in [Worker -> 0 .. CooldownTicks],
         \A v \in Worker \ {w} : loop'[v] = loop[v] /\ calm'[v] = calm[v],
         loop'[w].leader = loop[w].leader, Phases(w)',
         deaths = 0 => /\ loop[w].leader
                       /\ RingingCount' <= RingingHardCap
                       /\ CapBudget(w)' /\ WayBudget(w)'
  PROVE  PInv'
<1>1. LoopShape'
  BY DEF PInv, LoopShape
<1>2. LockIsAWorkingLoops'
  BY NoWorkerIsNone DEF PInv, LockIsAWorkingLoops, LoopShape
<1>3. \A v \in Worker : Phases(v)'
  BY DEF PInv, Phases
<1>4. Budgets'
  <2> SUFFICES ASSUME deaths = 0, NEW v \in Worker, v # w
               PROVE  CapBudget(v)' /\ WayBudget(v)'
    BY DEF Budgets
  <2>1. ~loop[v].leader
    BY OneLeader DEF OneLoopTicks
  <2>2. loop'[v].pc # "allocating"
    BY <2>1 DEF PInv, Phases
  <2> QED
    BY <2>2 DEF CapBudget, WayBudget
<1> QED
  BY <1>1, <1>2, <1>3, <1>4 DEF PInv

\* A step of the rest of the system, in which at most sweeps get smaller.
LEMMA QuietStep ==
  ASSUME PInv, UNCHANGED <<lock, calm, deaths>>, active' \in BOOLEAN,
         PoolTypeOK', CountersExact',
         RingingCount' <= RingingCount, OnTheirWayCount' <= OnTheirWayCount,
         RingingCount' \in Nat, OnTheirWayCount' \in Nat,
         loop' \in [Worker -> LoopRow],
         \A w \in Worker :
           /\ loop'[w].sweep \subseteq loop[w].sweep
           /\ loop'[w].pc = loop[w].pc /\ loop'[w].leader = loop[w].leader
           /\ loop'[w].todo = loop[w].todo /\ loop'[w].placing = loop[w].placing
           /\ loop'[w].cooldown = loop[w].cooldown /\ loop'[w].seen = loop[w].seen
  PROVE  PInv'
<1>1. LoopShape'
  BY DEF PInv, LoopShape
<1>2. LockIsAWorkingLoops'
  BY NoWorkerIsNone DEF PInv, LockIsAWorkingLoops, LoopShape
<1>3. \A w \in Worker : Phases(w)'
  BY DEF PInv, Phases
<1>4. Budgets'
  <2> SUFFICES ASSUME deaths = 0
               PROVE  /\ RingingCount' <= RingingHardCap
                      /\ \A w \in Worker : CapBudget(w)' /\ WayBudget(w)'
    BY DEF Budgets
  <2>1. RingingCount' <= RingingHardCap
    BY CountTypes, LimitsAssumption DEF PInv, Budgets
  <2>2. ASSUME NEW w \in Worker
        PROVE  CapBudget(w)'
    <3> SUFFICES ASSUME loop[w].pc = "allocating"
                 PROVE  RingingCount' + Cardinality(loop[w].placing) + loop[w].todo <= RingingHardCap
      BY DEF CapBudget
    <3>1. /\ loop[w].todo \in Nat /\ Cardinality(loop[w].placing) \in Nat
      BY StaffAssumption, FS_Subset, FS_CardinalityType DEF PInv, LoopShape, LoopRow
    <3>2. RingingCount + Cardinality(loop[w].placing) + loop[w].todo <= RingingHardCap
      BY DEF PInv, Budgets, CapBudget
    <3> QED
      BY <3>1, <3>2, CountTypes, LimitsAssumption
  <2>3. ASSUME NEW w \in Worker
        PROVE  WayBudget(w)'
    <3> SUFFICES ASSUME loop[w].pc = "allocating", Forced(loop[w].seen)
                 PROVE  OnTheirWayCount' + loop[w].todo <=
                          Max({loop[w].seen.available, AgentBoundInflight(loop[w].seen)})
      BY DEF WayBudget
    <3>1. /\ loop[w].todo \in Nat /\ loop[w].seen \in SnapshotRow
      BY DEF PInv, LoopShape, LoopRow
    <3>2. OnTheirWayCount + loop[w].todo <=
            Max({loop[w].seen.available, AgentBoundInflight(loop[w].seen)})
      BY DEF PInv, Budgets, WayBudget
    <3>3. Max({loop[w].seen.available, AgentBoundInflight(loop[w].seen)}) \in Int
      BY <3>1, ProgressiveIs, MaxOfTwo DEF SnapshotRow
    <3> QED
      BY <3>1, <3>2, <3>3, CountTypes
  <2> QED
    BY <2>1, <2>2, <2>3
<1> QED
  BY <1>1, <1>2, <1>3, <1>4 DEF PInv

-----------------------------------------------------------------------------
(* The inductive step, action by action.                                       *)

LEMMA InvTypes ==
  ASSUME PInv, NEW w \in Worker
  PROVE  /\ loop \in [Worker -> LoopRow] /\ loop[w] \in LoopRow
         /\ calm \in [Worker -> 0 .. CooldownTicks] /\ calm[w] \in 0 .. CooldownTicks
         /\ IsFiniteSet(loop[w].placing) /\ Cardinality(loop[w].placing) \in Nat
<1>1. loop[w] \in LoopRow /\ loop[w].placing \in SUBSET Agent
  BY DEF PInv, LoopShape, LoopRow
<1> QED
  BY <1>1, StaffAssumption, FS_Subset, FS_CardinalityType DEF PInv, LoopShape

\* What the tables say of agents does not change with the loops.
LEMMA CountersStay ==
  ASSUME PInv, UNCHANGED <<pool, counters>>
  PROVE  /\ PoolTypeOK' /\ CountersExact'
         /\ RingingCount' = RingingCount /\ OnTheirWayCount' = OnTheirWayCount
BY DEF PInv, PoolTypeOK, CountersExact, Counts, In, RingingCount, OnTheirWayCount

LEMMA LeadStep ==
  ASSUME PInv, NEW w \in Worker, Lead(w)
  PROVE  PInv'
<1>1. /\ loop' = [loop EXCEPT ![w].leader = TRUE] /\ lock = NoWorker /\ lock' = w
      /\ UNCHANGED <<pool, counters, active, calm, deaths>>
      /\ loop[w].pc = "waiting"
  BY DEF Lead
<1>2. \A v \in Worker : ~loop[v].leader
  BY <1>1, NoWorkerIsNone DEF PInv, Phases
<1>3. /\ loop' \in [Worker -> LoopRow]
      /\ loop'[w] = [loop[w] EXCEPT !.leader = TRUE]
      /\ \A v \in Worker \ {w} : loop'[v] = loop[v]
  BY <1>1, InvTypes DEF LoopRow
<1>4. /\ loop'[w].leader /\ loop'[w].pc = loop[w].pc /\ loop'[w].todo = loop[w].todo
      /\ loop'[w].placing = loop[w].placing /\ loop'[w].cooldown = loop[w].cooldown
      /\ loop'[w].seen = loop[w].seen /\ loop'[w].sweep = loop[w].sweep
  BY <1>3, InvTypes DEF LoopRow
<1>5. LoopShape'
  BY <1>1, <1>3 DEF PInv, LoopShape
<1>6. \A v \in Worker : Phases(v)'
  BY <1>1, <1>2, <1>3, <1>4 DEF PInv, Phases
<1>7. Budgets'
  <2>1. \A v \in Worker : loop[v].pc # "allocating"
    BY <1>2 DEF PInv, Phases
  <2>2. \A v \in Worker : loop'[v].pc # "allocating"
    BY <1>1, <1>3, <1>4, <2>1
  <2> QED
    BY <1>1, <2>2, CountersStay DEF PInv, Budgets, CapBudget, WayBudget
<1> QED
  BY <1>1, <1>4, <1>5, <1>6, <1>7, CountersStay DEF PInv, LockIsAWorkingLoops

\* A loop that has decided.
DecidedRow(row, k, cool, s) ==
  [row EXCEPT !.pc = "allocating", !.todo = k, !.cooldown = cool, !.seen = s]

LEMMA Decided ==
  ASSUME NEW row \in LoopRow, NEW k \in Nat, NEW cool \in Nat, NEW s \in SnapshotRow
  PROVE  /\ DecidedRow(row, k, cool, s) \in LoopRow
         /\ DecidedRow(row, k, cool, s).pc = "allocating"
         /\ DecidedRow(row, k, cool, s).todo = k
         /\ DecidedRow(row, k, cool, s).cooldown = cool
         /\ DecidedRow(row, k, cool, s).seen = s
         /\ DecidedRow(row, k, cool, s).leader = row.leader
         /\ DecidedRow(row, k, cool, s).placing = row.placing
         /\ DecidedRow(row, k, cool, s).sweep = row.sweep
<1> DEFINE new == DecidedRow(row, k, cool, s)
<1>1. new \in LoopRow
  BY DEF LoopRow, DecidedRow
<1>2. new.pc = "allocating" /\ new.todo = k /\ new.cooldown = cool /\ new.seen = s
  BY DEF LoopRow, DecidedRow
<1>3. new.leader = row.leader /\ new.placing = row.placing /\ new.sweep = row.sweep
  BY DEF LoopRow, DecidedRow
<1> QED
  BY <1>1, <1>2, <1>3

LEMMA ObserveStep ==
  ASSUME PInv, NEW w \in Worker, Observe(w)
  PROVE  PInv'
<1>1. PICK sampled \in BOOLEAN, breach \in BOOLEAN, health \in Health :
        LET s == Snapshot(sampled, breach, health, loop[w].cooldown > 0) IN
        /\ \E n \in Requests(s) :
             loop' = [loop EXCEPT ![w] =
                        [@ EXCEPT !.pc       = "allocating",
                                  !.todo     = Approved(n, s, loop[w].cooldown),
                                  !.cooldown = CooldownAfter(s, loop[w].cooldown),
                                  !.seen     = Kept(s)]]
        /\ calm' = [calm EXCEPT ![w] = IF breach THEN 0 ELSE Min({@ + 1, CooldownTicks})]
  BY DEF Observe
<1> DEFINE s == Snapshot(sampled, breach, health, loop[w].cooldown > 0)
<1>2. PICK n \in Requests(s) :
        loop' = [loop EXCEPT ![w] =
                   [@ EXCEPT !.pc       = "allocating",
                             !.todo     = Approved(n, s, loop[w].cooldown),
                             !.cooldown = CooldownAfter(s, loop[w].cooldown),
                             !.seen     = Kept(s)]]
  BY <1>1
<1>3. /\ loop[w].leader /\ loop[w].pc = "waiting"
      /\ UNCHANGED <<pool, counters, active, lock, deaths>>
      /\ loop[w].placing = {} /\ loop[w].sweep = {}
      /\ loop[w].cooldown \in Nat /\ calm[w] \in 0 .. CooldownTicks
      /\ loop[w].cooldown + calm[w] >= CooldownTicks - 1
  BY InvTypes DEF Observe, PInv, Phases, LoopRow
<1>4. /\ s \in SnapshotRow /\ s.ringing = RingingCount
      /\ AgentBoundInflight(s) = OnTheirWayCount
      /\ s.sampled = sampled /\ s.breach = breach
      /\ s.cooling <=> loop[w].cooldown > 0
  <2>1. (loop[w].cooldown > 0) \in BOOLEAN
    OBVIOUS
  <2>2. CountersExact /\ active \in BOOLEAN
    BY DEF PInv, LoopShape
  <2> DEFINE cooling == loop[w].cooldown > 0
  <2>3. cooling \in BOOLEAN /\ s = Snapshot(sampled, breach, health, cooling)
    BY <2>1 DEF s
  <2> HIDE DEF cooling
  <2>4. /\ s \in SnapshotRow /\ s.ringing = RingingCount
        /\ AgentBoundInflight(s) = OnTheirWayCount
        /\ s.sampled = sampled /\ s.breach = breach /\ s.cooling = cooling
    BY <2>2, <2>3, SnapshotShows
  <2> QED
    BY <2>4 DEF cooling
<1> HIDE DEF s
<1> DEFINE k == Approved(n, s, loop[w].cooldown)
           cool == CooldownAfter(s, loop[w].cooldown)
<1>5. /\ k \in Nat
      /\ k <= AtLeastZero(RingingHardCap - s.ringing)
      /\ loop[w].cooldown > 0 \/ ~s.sampled \/ s.breach => k <= Progressive(s)
  BY <1>3, <1>4, RequestsAreNumbers, ApprovedBounds
<1>6. /\ cool \in Nat
      /\ cool >= (IF breach THEN CooldownTicks ELSE loop[w].cooldown) - 1
  BY <1>3, <1>4, LimitsAssumption, AtLeastZeroIs DEF CooldownAfter
<1>7. /\ Kept(s) \in SnapshotRow
      /\ Kept(s).available = s.available
      /\ AgentBoundInflight(Kept(s)) = AgentBoundInflight(s)
      /\ Progressive(Kept(s)) = Progressive(s)
      /\ Forced(Kept(s)) <=> loop[w].cooldown > 0 \/ ~s.sampled \/ s.breach
  BY <1>4, KeptShows
<1> HIDE DEF k, cool
<1>8. loop' = [loop EXCEPT ![w] = DecidedRow(loop[w], k, cool, Kept(s))]
  BY <1>2 DEF k, cool, DecidedRow
<1>9. /\ loop'[w] \in LoopRow
      /\ loop'[w].pc = "allocating" /\ loop'[w].todo = k /\ loop'[w].cooldown = cool
      /\ loop'[w].seen = Kept(s) /\ loop'[w].leader = loop[w].leader
      /\ loop'[w].placing = {} /\ loop'[w].sweep = {}
  <2>1. loop[w] \in LoopRow /\ Kept(s) \in SnapshotRow /\ k \in Nat /\ cool \in Nat
    BY <1>5, <1>6, <1>7, InvTypes
  <2>2. loop'[w] = DecidedRow(loop[w], k, cool, Kept(s))
    BY <1>8, InvTypes
  <2>3. DecidedRow(loop[w], k, cool, Kept(s)).pc = "allocating"
    BY <2>1, Decided
  <2>4. /\ DecidedRow(loop[w], k, cool, Kept(s)) \in LoopRow
        /\ DecidedRow(loop[w], k, cool, Kept(s)).todo = k
        /\ DecidedRow(loop[w], k, cool, Kept(s)).cooldown = cool
        /\ DecidedRow(loop[w], k, cool, Kept(s)).seen = Kept(s)
        /\ DecidedRow(loop[w], k, cool, Kept(s)).leader = loop[w].leader
        /\ DecidedRow(loop[w], k, cool, Kept(s)).placing = loop[w].placing
        /\ DecidedRow(loop[w], k, cool, Kept(s)).sweep = loop[w].sweep
    BY <2>1, Decided
  <2> QED
    BY <1>3, <2>2, <2>3, <2>4
<1>10. /\ loop' \in [Worker -> LoopRow]
       /\ \A v \in Worker \ {w} : loop'[v] = loop[v]
  BY <1>8, <1>9, InvTypes
<1>11. /\ calm' \in [Worker -> 0 .. CooldownTicks]
       /\ \A v \in Worker \ {w} : calm'[v] = calm[v]
       /\ breach => calm'[w] = 0
       /\ ~breach => calm'[w] = IF calm[w] + 1 <= CooldownTicks THEN calm[w] + 1 ELSE CooldownTicks
  <2>1. ASSUME NEW i \in Int, NEW j \in Int
        PROVE  Min({i, j}) = IF i <= j THEN i ELSE j
    <3>1. HasLeast({i, j})
      BY DEF HasLeast
    <3> QED
      BY <3>1, MinIsLeast
  <2>2. calm[w] + 1 \in Int /\ CooldownTicks \in Int
    BY <1>3, LimitsAssumption
  <2>3. Min({calm[w] + 1, CooldownTicks}) =
          IF calm[w] + 1 <= CooldownTicks THEN calm[w] + 1 ELSE CooldownTicks
    BY <2>1, <2>2
  <2>4. calm'[w] = IF breach THEN 0 ELSE Min({calm[w] + 1, CooldownTicks})
    BY <1>1, InvTypes
  <2>5. calm'[w] \in 0 .. CooldownTicks
    BY <1>3, <2>3, <2>4, LimitsAssumption
  <2>6. calm' = [v \in Worker |-> calm'[v]] /\ \A v \in Worker \ {w} : calm'[v] = calm[v]
    BY <1>1, InvTypes
  <2> QED
    BY <2>3, <2>4, <2>5, <2>6, InvTypes
<1>12. Phases(w)'
  <2>1. cool + calm'[w] >= CooldownTicks - 1
    BY <1>3, <1>6, <1>11, LimitsAssumption
  <2>2. calm'[w] < CooldownTicks => k <= Progressive(Kept(s))
    <3>1. CASE breach
      BY <1>4, <1>5, <1>7, <3>1
    <3>2. CASE ~breach
      <4>1. calm'[w] < CooldownTicks => loop[w].cooldown > 0
        BY <1>3, <1>11, <3>2, LimitsAssumption
      <4> QED
        BY <1>5, <1>7, <4>1
    <3> QED
      BY <3>1, <3>2
  <2> QED
    BY <1>3, <1>9, <2>1, <2>2 DEF PInv, Phases
<1>13. ASSUME deaths = 0
       PROVE  RingingCount' <= RingingHardCap /\ CapBudget(w)' /\ WayBudget(w)'
  <2>1. /\ RingingCount' = RingingCount /\ OnTheirWayCount' = OnTheirWayCount
        /\ RingingCount \in Nat /\ OnTheirWayCount \in Nat /\ RingingCount <= RingingHardCap
    BY <1>3, <1>13, CountersStay, CountTypes DEF PInv, Budgets
  <2>2. CapBudget(w)'
    <3>1. AtLeastZero(RingingHardCap - s.ringing) = RingingHardCap - RingingCount
      BY <1>4, <2>1, AtLeastZeroIs, LimitsAssumption
    <3>2. Cardinality({}) = 0
      BY FS_EmptySet
    <3>3. RingingCount + 0 + k <= RingingHardCap
      BY <1>5, <2>1, <3>1, LimitsAssumption
    <3> QED
      BY <1>9, <2>1, <3>2, <3>3 DEF CapBudget
  <2>3. WayBudget(w)'
    <3> SUFFICES ASSUME Forced(Kept(s))
                 PROVE  OnTheirWayCount + k <= Max({s.available, OnTheirWayCount})
      BY <1>4, <1>7, <1>9, <2>1 DEF WayBudget
    <3>1. k <= IF s.available > OnTheirWayCount THEN s.available - OnTheirWayCount ELSE 0
      BY <1>4, <1>5, <1>7, ProgressiveIs
    <3>2. s.available \in Nat
      BY <1>4 DEF SnapshotRow
    <3>3. Max({s.available, OnTheirWayCount}) =
            IF s.available >= OnTheirWayCount THEN s.available ELSE OnTheirWayCount
      BY <2>1, <3>2, MaxOfTwo
    <3> QED
      BY <1>5, <2>1, <3>1, <3>2, <3>3
  <2> QED
    BY <2>1, <2>2, <2>3
<1> QED
  BY <1>3, <1>9, <1>10, <1>11, <1>12, <1>13, CountersStay, LoopStep

-----------------------------------------------------------------------------
(* The other steps of a loop: its row changes, and perhaps an agent moves.      *)

LEMMA RowStep ==
  ASSUME PInv, NEW w \in Worker, NEW row \in LoopRow, loop' = [loop EXCEPT ![w] = row],
         UNCHANGED <<active, lock, calm, deaths>>, PoolTypeOK', CountersExact',
         row.leader = loop[w].leader, row.cooldown = loop[w].cooldown,
         row.pc = "dead" <=> loop[w].pc = "dead",
         row.pc \in {"allocating", "cancelling"} => row.leader,
         row.pc \in {"waiting", "cancelling"} => row.todo = 0 /\ row.placing = {},
         row.pc # "cancelling" => row.sweep = {},
         row.pc = "allocating" /\ calm[w] < CooldownTicks => row.todo <= Progressive(row.seen),
         deaths = 0 => row.leader,
         deaths = 0 => RingingCount' <= RingingHardCap,
         deaths = 0 /\ row.pc = "allocating" =>
           RingingCount' + Cardinality(row.placing) + row.todo <= RingingHardCap,
         deaths = 0 /\ row.pc = "allocating" /\ Forced(row.seen) =>
           OnTheirWayCount' + row.todo <= WayLimit(row.seen)
  PROVE  PInv'
<1>1. /\ loop'[w] = row /\ loop' \in [Worker -> LoopRow]
      /\ \A v \in Worker \ {w} : loop'[v] = loop[v]
  BY InvTypes
<1>2. /\ calm' \in [Worker -> 0 .. CooldownTicks]
      /\ \A v \in Worker \ {w} : calm'[v] = calm[v]
  BY InvTypes
<1>3. Phases(w)'
  BY <1>1 DEF PInv, Phases
<1>4. deaths = 0 => /\ loop[w].leader
                    /\ RingingCount' <= RingingHardCap
                    /\ CapBudget(w)' /\ WayBudget(w)'
  <2>1. deaths = 0 => loop[w].leader /\ RingingCount' <= RingingHardCap
    OBVIOUS
  <2>2. deaths = 0 => CapBudget(w)'
    BY <1>1 DEF CapBudget
  <2>3. deaths = 0 => WayBudget(w)'
    BY <1>1 DEF WayBudget, WayLimit
  <2> QED
    BY <2>1, <2>2, <2>3
<1> QED
  BY <1>1, <1>2, <1>3, <1>4, LoopStep

\* While no loop has died, what a loop holds says that it leads.
LEMMA Busy ==
  ASSUME PInv, NEW w \in Worker
  PROVE  /\ loop[w].sweep # {} => loop[w].pc = "cancelling" /\ loop[w].leader
         /\ deaths = 0 /\ (loop[w].todo > 0 \/ loop[w].placing # {}) =>
              loop[w].pc = "allocating" /\ loop[w].leader
         /\ loop[w].pc = "dead" <=> deaths > 0 /\ loop[w].pc = "dead"
<1>1. loop[w].todo \in Nat /\ loop[w].pc \in {"waiting", "allocating", "cancelling", "dead"}
  BY InvTypes DEF LoopRow
<1>2. deaths \in Nat
  BY PacingAssumption DEF PInv, LoopShape
<1> QED
  BY <1>1, <1>2 DEF PInv, Phases

\* What the budgets say of a loop that allocates.
LEMMA BudgetOf ==
  ASSUME PInv, NEW w \in Worker
  PROVE  /\ loop[w].todo \in Nat /\ loop[w].seen \in SnapshotRow
         /\ WayLimit(loop[w].seen) \in Int
         /\ Progressive(loop[w].seen) \in Nat
         /\ loop[w].pc = "allocating" /\ calm[w] < CooldownTicks =>
              loop[w].todo <= Progressive(loop[w].seen)
         /\ deaths = 0 => RingingCount <= RingingHardCap
         /\ deaths = 0 /\ loop[w].pc = "allocating" =>
              RingingCount + Cardinality(loop[w].placing) + loop[w].todo <= RingingHardCap
         /\ deaths = 0 /\ loop[w].pc = "allocating" /\ Forced(loop[w].seen) =>
              OnTheirWayCount + loop[w].todo <=
                WayLimit(loop[w].seen)
<1>1. loop[w].todo \in Nat /\ loop[w].seen \in SnapshotRow
  BY InvTypes DEF LoopRow
<1>2. WayLimit(loop[w].seen) \in Int
  <2>1. /\ loop[w].seen.available \in Int
        /\ AgentBoundInflight(loop[w].seen) \in Int
    BY <1>1, ProgressiveIs DEF SnapshotRow
  <2> QED
    BY <2>1, MaxOfTwo DEF WayLimit
<1>3. Progressive(loop[w].seen) \in Nat
  BY <1>1, ProgressiveIs
<1>4. loop[w].pc = "allocating" /\ calm[w] < CooldownTicks =>
        loop[w].todo <= Progressive(loop[w].seen)
  BY DEF PInv, Phases
<1>5. deaths = 0 => RingingCount <= RingingHardCap /\ CapBudget(w) /\ WayBudget(w)
  BY DEF PInv, Budgets
<1>6. deaths = 0 /\ loop[w].pc = "allocating" =>
        RingingCount + Cardinality(loop[w].placing) + loop[w].todo <= RingingHardCap
  BY <1>5 DEF CapBudget
<1>7. deaths = 0 /\ loop[w].pc = "allocating" /\ Forced(loop[w].seen) =>
        OnTheirWayCount + loop[w].todo <= WayLimit(loop[w].seen)
  BY <1>5 DEF WayBudget, WayLimit
<1> QED
  BY <1>1, <1>2, <1>3, <1>4, <1>5, <1>6, <1>7

LEMMA NextCounts == RingingCount' \in Nat /\ OnTheirWayCount' \in Nat
<1>1. ASSUME NEW T
      PROVE  Cardinality({a \in Agent : pool'[a] \in T}) \in Nat
  <2>1. {a \in Agent : pool'[a] \in T} \in SUBSET Agent
    OBVIOUS
  <2> QED
    BY <2>1, StaffAssumption, FS_Subset, FS_CardinalityType
<1> QED
  BY <1>1 DEF RingingCount, OnTheirWayCount, In

\* A coroutine starts: with an agent, or with nothing to do.
TakenRow(row, a) == [row EXCEPT !.todo = row.todo - 1, !.placing = row.placing \cup {a}]
IdleRow(row) == [row EXCEPT !.todo = @ - 1]

LEMMA Taken ==
  ASSUME NEW row \in LoopRow, row.todo > 0, NEW a \in Agent
  PROVE  /\ TakenRow(row, a) \in LoopRow
         /\ TakenRow(row, a).todo = row.todo - 1
         /\ TakenRow(row, a).placing = row.placing \cup {a}
         /\ TakenRow(row, a).pc = row.pc
         /\ TakenRow(row, a).leader = row.leader
         /\ TakenRow(row, a).cooldown = row.cooldown
         /\ TakenRow(row, a).seen = row.seen
         /\ TakenRow(row, a).sweep = row.sweep
<1> DEFINE new == TakenRow(row, a)
<1>1. new \in LoopRow /\ new.todo = row.todo - 1 /\ new.placing = row.placing \cup {a}
  <2>1. row.todo \in Nat /\ row.placing \in SUBSET Agent
    BY DEF LoopRow
  <2> DEFINE idle == [row EXCEPT !.todo = row.todo - 1]
  <2>2. idle \in LoopRow /\ idle.todo = row.todo - 1 /\ idle.placing = row.placing
    BY <2>1 DEF LoopRow
  <2>3. new = [idle EXCEPT !.placing = row.placing \cup {a}]
    BY DEF TakenRow
  <2> HIDE DEF idle, new
  <2> QED
    BY <2>1, <2>2, <2>3 DEF LoopRow
<1>2. new.pc = row.pc /\ new.leader = row.leader /\ new.cooldown = row.cooldown
  BY DEF LoopRow, TakenRow
<1>3. new.seen = row.seen /\ new.sweep = row.sweep
  BY DEF LoopRow, TakenRow
<1> QED
  BY <1>1, <1>2, <1>3

LEMMA Idle ==
  ASSUME NEW row \in LoopRow, row.todo > 0
  PROVE  /\ IdleRow(row) \in LoopRow
         /\ IdleRow(row).todo = row.todo - 1
         /\ IdleRow(row).placing = row.placing
         /\ IdleRow(row).pc = row.pc
         /\ IdleRow(row).leader = row.leader
         /\ IdleRow(row).cooldown = row.cooldown
         /\ IdleRow(row).seen = row.seen
         /\ IdleRow(row).sweep = row.sweep
<1> DEFINE new == IdleRow(row)
<1>1. new \in LoopRow /\ new.todo = row.todo - 1 /\ new.placing = row.placing
  BY DEF LoopRow, IdleRow
<1>2. new.pc = row.pc /\ new.leader = row.leader /\ new.cooldown = row.cooldown
  BY DEF LoopRow, IdleRow
<1>3. new.seen = row.seen /\ new.sweep = row.sweep
  BY DEF LoopRow, IdleRow
<1> QED
  BY <1>1, <1>2, <1>3

LEMMA OneMore ==
  ASSUME NEW S, IsFiniteSet(S), NEW x
  PROVE  /\ Cardinality(S \cup {x}) \in Nat
         /\ Cardinality(S \cup {x}) <= Cardinality(S) + 1
<1>1. Cardinality(S) \in Nat
  BY FS_CardinalityType
<1>2. CASE x \in S
  <2>1. S \cup {x} = S
    BY <1>2
  <2> QED
    BY <1>1, <2>1
<1>3. CASE x \notin S
  <2>1. Cardinality(S \cup {x}) = Cardinality(S) + 1
    BY <1>3, FS_AddElement
  <2> QED
    BY <1>1, <2>1
<1> QED
  BY <1>2, <1>3

LEMMA OneLess ==
  ASSUME NEW S, IsFiniteSet(S), NEW x \in S
  PROVE  /\ Cardinality(S \ {x}) \in Nat
         /\ Cardinality(S \ {x}) = Cardinality(S) - 1
<1>1. Cardinality(S) \in Nat
  BY FS_CardinalityType
<1>2. Cardinality(S \ {x}) = Cardinality(S) - 1
  BY FS_RemoveElement
<1>3. IsFiniteSet(S \ {x})
  BY FS_RemoveElement
<1> QED
  BY <1>2, <1>3, FS_CardinalityType

LEMMA StartStep ==
  ASSUME PInv, NEW w \in Worker, NEW a \in Agent, Start(w, a)
  PROVE  PInv'
<1> DEFINE row == TakenRow(loop[w], a)
<1>1. /\ loop[w].todo > 0 /\ Book(a) /\ Counting
      /\ UNCHANGED <<active, lock, calm, deaths>>
      /\ loop' = [loop EXCEPT ![w] = row]
  BY DEF Start, TakenRow
<1>2. /\ row \in LoopRow /\ row.todo = loop[w].todo - 1
      /\ row.placing = loop[w].placing \cup {a} /\ row.pc = loop[w].pc
      /\ row.leader = loop[w].leader /\ row.cooldown = loop[w].cooldown
      /\ row.seen = loop[w].seen /\ row.sweep = loop[w].sweep
  BY <1>1, InvTypes, Taken
<1> HIDE DEF row
<1>3. /\ PoolTypeOK' /\ CountersExact' /\ RingingCount' = RingingCount
      /\ OnTheirWayCount' = OnTheirWayCount + 1
  BY <1>1, BookMove, CountingStep DEF PInv
<1>4. /\ Cardinality(row.placing) \in Nat
      /\ Cardinality(row.placing) <= Cardinality(loop[w].placing) + 1
  <2>1. row.placing = loop[w].placing \cup {a}
    BY <1>2
  <2> QED
    BY <2>1, InvTypes, OneMore
<1>5. /\ loop[w].todo \in Nat /\ Cardinality(loop[w].placing) \in Nat
      /\ RingingCount \in Nat /\ OnTheirWayCount \in Nat /\ RingingHardCap \in Int
      /\ Progressive(row.seen) \in Nat /\ WayLimit(row.seen) \in Int
  <2>1. loop[w].todo \in Nat /\ Progressive(row.seen) \in Nat /\ WayLimit(row.seen) \in Int
    BY <1>2, BudgetOf, Zenon
  <2> QED
    BY <2>1, InvTypes, CountTypes, LimitsAssumption
<1>11. /\ row.pc = "allocating" /\ calm[w] < CooldownTicks =>
            loop[w].todo <= Progressive(row.seen)
       /\ deaths = 0 /\ row.pc = "allocating" =>
            RingingCount + Cardinality(loop[w].placing) + loop[w].todo <= RingingHardCap
       /\ deaths = 0 /\ row.pc = "allocating" /\ Forced(row.seen) =>
            OnTheirWayCount + loop[w].todo <= WayLimit(row.seen)
  BY <1>2, BudgetOf, Zenon
<1>6. row.pc \notin {"waiting", "cancelling"}
  BY <1>1, <1>2, <1>5 DEF PInv, Phases
<1>7. row.pc = "allocating" /\ calm[w] < CooldownTicks => row.todo <= Progressive(row.seen)
  BY <1>2, <1>5, <1>11
<1>8. deaths = 0 /\ row.pc = "allocating" =>
        RingingCount' + Cardinality(row.placing) + row.todo <= RingingHardCap
  BY <1>2, <1>3, <1>4, <1>5, <1>11
<1>9. deaths = 0 /\ row.pc = "allocating" /\ Forced(row.seen) =>
        OnTheirWayCount' + row.todo <= WayLimit(row.seen)
  BY <1>2, <1>3, <1>5, <1>11
<1>10. /\ row.pc \in {"allocating", "cancelling"} => row.leader
       /\ row.pc # "cancelling" => row.sweep = {}
       /\ deaths = 0 => row.leader
       /\ deaths = 0 => RingingCount' <= RingingHardCap
  BY <1>1, <1>2, <1>3, Busy, BudgetOf DEF PInv, Phases
<1> QED
  BY <1>1, <1>2, <1>3, <1>6, <1>7, <1>8, <1>9, <1>10, RowStep

LEMMA StartNothingStep ==
  ASSUME PInv, NEW w \in Worker, StartNothing(w)
  PROVE  PInv'
<1> DEFINE row == IdleRow(loop[w])
<1>1. /\ loop[w].todo > 0
      /\ UNCHANGED <<pool, counters, active, lock, calm, deaths>>
      /\ loop' = [loop EXCEPT ![w] = row]
  BY DEF StartNothing, IdleRow
<1>2. /\ row \in LoopRow /\ row.todo = loop[w].todo - 1
      /\ row.placing = loop[w].placing /\ row.pc = loop[w].pc
      /\ row.leader = loop[w].leader /\ row.cooldown = loop[w].cooldown
      /\ row.seen = loop[w].seen /\ row.sweep = loop[w].sweep
  BY <1>1, InvTypes, Idle
<1> HIDE DEF row
<1>3. /\ PoolTypeOK' /\ CountersExact' /\ RingingCount' = RingingCount
      /\ OnTheirWayCount' = OnTheirWayCount
  BY <1>1, CountersStay
<1>5. /\ loop[w].todo \in Nat /\ Cardinality(loop[w].placing) \in Nat
      /\ RingingCount \in Nat /\ OnTheirWayCount \in Nat /\ RingingHardCap \in Int
      /\ Progressive(row.seen) \in Nat /\ WayLimit(row.seen) \in Int
  <2>1. loop[w].todo \in Nat /\ Progressive(row.seen) \in Nat /\ WayLimit(row.seen) \in Int
    BY <1>2, BudgetOf, Zenon
  <2> QED
    BY <2>1, InvTypes, CountTypes, LimitsAssumption
<1>11. /\ row.pc = "allocating" /\ calm[w] < CooldownTicks =>
            loop[w].todo <= Progressive(row.seen)
       /\ deaths = 0 /\ row.pc = "allocating" =>
            RingingCount + Cardinality(loop[w].placing) + loop[w].todo <= RingingHardCap
       /\ deaths = 0 /\ row.pc = "allocating" /\ Forced(row.seen) =>
            OnTheirWayCount + loop[w].todo <= WayLimit(row.seen)
  BY <1>2, BudgetOf, Zenon
<1>6. row.pc \notin {"waiting", "cancelling"}
  BY <1>1, <1>2, <1>5 DEF PInv, Phases
<1>7. row.pc = "allocating" /\ calm[w] < CooldownTicks => row.todo <= Progressive(row.seen)
  BY <1>2, <1>5, <1>11
<1>8. deaths = 0 /\ row.pc = "allocating" =>
        RingingCount' + Cardinality(row.placing) + row.todo <= RingingHardCap
  BY <1>2, <1>3, <1>5, <1>11
<1>9. deaths = 0 /\ row.pc = "allocating" /\ Forced(row.seen) =>
        OnTheirWayCount' + row.todo <= WayLimit(row.seen)
  BY <1>2, <1>3, <1>5, <1>11
<1>10. /\ row.pc \in {"allocating", "cancelling"} => row.leader
       /\ row.pc # "cancelling" => row.sweep = {}
       /\ deaths = 0 => row.leader
       /\ deaths = 0 => RingingCount' <= RingingHardCap
  BY <1>1, <1>2, <1>3, Busy, BudgetOf DEF PInv, Phases
<1> QED
  BY <1>1, <1>2, <1>3, <1>6, <1>7, <1>8, <1>9, <1>10, RowStep

\* A coroutine comes back.
ReturnedRow(row, a) == [row EXCEPT !.placing = @ \ {a}]

LEMMA Returned ==
  ASSUME NEW row \in LoopRow, NEW a \in Agent
  PROVE  /\ ReturnedRow(row, a) \in LoopRow
         /\ ReturnedRow(row, a).placing = row.placing \ {a}
         /\ ReturnedRow(row, a).todo = row.todo
         /\ ReturnedRow(row, a).pc = row.pc
         /\ ReturnedRow(row, a).leader = row.leader
         /\ ReturnedRow(row, a).cooldown = row.cooldown
         /\ ReturnedRow(row, a).seen = row.seen
         /\ ReturnedRow(row, a).sweep = row.sweep
<1> DEFINE new == ReturnedRow(row, a)
<1>1. new \in LoopRow /\ new.placing = row.placing \ {a} /\ new.todo = row.todo
  BY DEF LoopRow, ReturnedRow
<1>2. new.pc = row.pc /\ new.leader = row.leader /\ new.cooldown = row.cooldown
  BY DEF LoopRow, ReturnedRow
<1>3. new.seen = row.seen /\ new.sweep = row.sweep
  BY DEF LoopRow, ReturnedRow
<1> QED
  BY <1>1, <1>2, <1>3

LEMMA ReturnStep ==
  ASSUME PInv, NEW w \in Worker, NEW a \in loop[w].placing, Return(w, a),
         UNCHANGED <<active, lock, calm, deaths>>, PoolTypeOK', CountersExact',
         RingingCount' <= RingingCount + 1, OnTheirWayCount' <= OnTheirWayCount
  PROVE  PInv'
<1> DEFINE row == ReturnedRow(loop[w], a)
<1>1. loop' = [loop EXCEPT ![w] = row]
  BY DEF Return, ReturnedRow
<1>2. /\ row \in LoopRow /\ row.todo = loop[w].todo
      /\ row.placing = loop[w].placing \ {a} /\ row.pc = loop[w].pc
      /\ row.leader = loop[w].leader /\ row.cooldown = loop[w].cooldown
      /\ row.seen = loop[w].seen /\ row.sweep = loop[w].sweep
  <2>1. loop[w] \in LoopRow /\ a \in Agent
    BY InvTypes DEF LoopRow
  <2> QED
    BY <2>1, Returned
<1> HIDE DEF row
<1>3. RingingCount' \in Nat /\ OnTheirWayCount' \in Nat
  BY NextCounts
<1>4. Cardinality(row.placing) \in Nat /\ Cardinality(row.placing) = Cardinality(loop[w].placing) - 1
  <2>1. row.placing = loop[w].placing \ {a}
    BY <1>2
  <2> QED
    BY <2>1, InvTypes, OneLess
<1>5. /\ loop[w].todo \in Nat /\ Cardinality(loop[w].placing) \in Nat
      /\ RingingCount \in Nat /\ OnTheirWayCount \in Nat /\ RingingHardCap \in Int
      /\ Progressive(row.seen) \in Nat /\ WayLimit(row.seen) \in Int
  <2>1. loop[w].todo \in Nat /\ Progressive(row.seen) \in Nat /\ WayLimit(row.seen) \in Int
    BY <1>2, BudgetOf, Zenon
  <2> QED
    BY <2>1, InvTypes, CountTypes, LimitsAssumption
<1>6. row.pc \notin {"waiting", "cancelling"}
  BY <1>2 DEF PInv, Phases
<1>7. /\ row.pc = "allocating" /\ calm[w] < CooldownTicks =>
            loop[w].todo <= Progressive(row.seen)
      /\ deaths = 0 /\ row.pc = "allocating" =>
            RingingCount + Cardinality(loop[w].placing) + loop[w].todo <= RingingHardCap
      /\ deaths = 0 /\ row.pc = "allocating" /\ Forced(row.seen) =>
            OnTheirWayCount + loop[w].todo <= WayLimit(row.seen)
  BY <1>2, BudgetOf, Zenon
<1>8. deaths = 0 /\ row.pc = "allocating" =>
        RingingCount' + Cardinality(row.placing) + row.todo <= RingingHardCap
  BY <1>2, <1>3, <1>4, <1>5, <1>7
<1>9. deaths = 0 /\ row.pc = "allocating" /\ Forced(row.seen) =>
        OnTheirWayCount' + row.todo <= WayLimit(row.seen)
  BY <1>2, <1>3, <1>5, <1>7
<1>10. /\ row.pc \in {"allocating", "cancelling"} => row.leader
       /\ row.pc # "cancelling" => row.sweep = {}
       /\ deaths = 0 => row.leader /\ row.pc = "allocating"
  BY <1>2, Busy DEF PInv, Phases
<1>11. deaths = 0 => RingingCount' <= RingingHardCap
  BY <1>2, <1>3, <1>4, <1>5, <1>8, <1>10
<1>12. row.pc = "allocating" /\ calm[w] < CooldownTicks => row.todo <= Progressive(row.seen)
  BY <1>2, <1>7
<1> QED
  BY <1>1, <1>2, <1>6, <1>8, <1>9, <1>10, <1>11, <1>12, RowStep

LEMMA FinishStep ==
  ASSUME PInv, NEW w \in Worker, NEW a \in Agent, Finish(w, a)
  PROVE  PInv'
<1>1. /\ a \in loop[w].placing /\ Return(w, a) /\ Counting
      /\ UNCHANGED <<active, lock, calm, deaths>>
      /\ Dial(a) \/ Refuse(a)
  BY DEF Finish
<1>2. PoolTypeOK /\ CountersExact /\ CountersExact'
  BY <1>1, CountingStep DEF PInv
<1>3. RingingCount \in Nat /\ OnTheirWayCount \in Nat
  BY CountTypes
<1>4. /\ PoolTypeOK' /\ RingingCount' <= RingingCount + 1
      /\ OnTheirWayCount' <= OnTheirWayCount
  <2>1. CASE Dial(a)
    BY <1>2, <1>3, <2>1, DialMove
  <2>2. CASE Refuse(a)
    <3>1. PoolTypeOK' /\ RingingCount' <= RingingCount /\ OnTheirWayCount' <= OnTheirWayCount
      BY <1>2, <2>2, QuietMove DEF Quiet
    <3> QED
      BY <1>3, <3>1, NextCounts
  <2> QED
    BY <1>1, <2>1, <2>2
<1> QED
  BY <1>1, <1>2, <1>4, ReturnStep

LEMMA FinishUnrecordedStep ==
  ASSUME PInv, NEW w \in Worker, NEW a \in Agent, FinishUnrecorded(w, a)
  PROVE  PInv'
<1>1. /\ a \in loop[w].placing /\ Return(w, a)
      /\ UNCHANGED <<pool, counters, active, lock, calm, deaths>>
  BY DEF FinishUnrecorded
<1>2. /\ PoolTypeOK' /\ CountersExact'
      /\ RingingCount' = RingingCount /\ OnTheirWayCount' = OnTheirWayCount
  BY <1>1, CountersStay
<1>3. RingingCount' <= RingingCount + 1 /\ OnTheirWayCount' <= OnTheirWayCount
  BY <1>2, CountTypes
<1> QED
  BY <1>1, <1>2, <1>3, ReturnStep

\* A tick ends, or goes on to cancel.
RestedRow(row) == [row EXCEPT !.pc = "waiting", !.seen = NoSnapshot, !.sweep = {}]
SweepingRow(row, S) == [row EXCEPT !.pc = "cancelling", !.sweep = S]

LEMMA Rested ==
  ASSUME NEW row \in LoopRow
  PROVE  /\ RestedRow(row) \in LoopRow
         /\ RestedRow(row).pc = "waiting"
         /\ RestedRow(row).sweep = {}
         /\ RestedRow(row).todo = row.todo
         /\ RestedRow(row).placing = row.placing
         /\ RestedRow(row).leader = row.leader
         /\ RestedRow(row).cooldown = row.cooldown
<1> DEFINE new == RestedRow(row)
<1>1. NoSnapshot \in SnapshotRow
  BY DEF NoSnapshot, SnapshotRow
<1>2. new \in LoopRow /\ new.pc = "waiting" /\ new.sweep = {}
  BY <1>1 DEF LoopRow, RestedRow
<1>3. new.todo = row.todo /\ new.placing = row.placing
  BY DEF LoopRow, RestedRow
<1>4. new.leader = row.leader /\ new.cooldown = row.cooldown
  BY DEF LoopRow, RestedRow
<1> QED
  BY <1>2, <1>3, <1>4

LEMMA Sweeping ==
  ASSUME NEW row \in LoopRow, NEW S \in SUBSET Agent
  PROVE  /\ SweepingRow(row, S) \in LoopRow
         /\ SweepingRow(row, S).pc = "cancelling"
         /\ SweepingRow(row, S).todo = row.todo
         /\ SweepingRow(row, S).placing = row.placing
         /\ SweepingRow(row, S).leader = row.leader
         /\ SweepingRow(row, S).cooldown = row.cooldown
<1> DEFINE new == SweepingRow(row, S)
<1>1. new \in LoopRow /\ new.pc = "cancelling"
  BY DEF LoopRow, SweepingRow
<1>2. new.todo = row.todo /\ new.placing = row.placing
  BY DEF LoopRow, SweepingRow
<1>3. new.leader = row.leader /\ new.cooldown = row.cooldown
  BY DEF LoopRow, SweepingRow
<1> QED
  BY <1>1, <1>2, <1>3

LEMMA TickEndsStep ==
  ASSUME PInv, NEW w \in Worker, TickEnds(w), UNCHANGED <<pool, counters, active, lock, calm, deaths>>,
         loop[w].pc \in {"allocating", "cancelling"}, loop[w].todo = 0, loop[w].placing = {}
  PROVE  PInv'
<1> DEFINE row == RestedRow(loop[w])
<1>1. loop' = [loop EXCEPT ![w] = row]
  BY DEF TickEnds, RestedRow
<1>2. /\ row \in LoopRow /\ row.pc = "waiting" /\ row.sweep = {}
      /\ row.todo = 0 /\ row.placing = {}
      /\ row.leader = loop[w].leader /\ row.cooldown = loop[w].cooldown
  BY InvTypes, Rested
<1> HIDE DEF row
<1>3. PoolTypeOK' /\ CountersExact' /\ RingingCount' = RingingCount
  BY CountersStay
<1>4. /\ loop[w].leader
      /\ deaths = 0 => RingingCount' <= RingingHardCap
  BY <1>3 DEF PInv, Phases, Budgets
<1> QED
  BY <1>1, <1>2, <1>3, <1>4, RowStep

LEMMA SelectExcessStep ==
  ASSUME PInv, NEW w \in Worker, SelectExcess(w)
  PROVE  PInv'
<1>1. /\ loop[w].pc = "allocating" /\ loop[w].todo = 0 /\ loop[w].placing = {}
      /\ UNCHANGED <<pool, counters, active, lock, calm, deaths>>
  BY DEF SelectExcess, BatchDone
<1>2. CASE TickEnds(w)
  BY <1>1, <1>2, TickEndsStep
<1>3. ASSUME NEW S \in SUBSET Agent,
             loop' = [loop EXCEPT ![w] = [@ EXCEPT !.pc = "cancelling", !.sweep = S]]
      PROVE  PInv'
  <2> DEFINE row == SweepingRow(loop[w], S)
  <2>1. loop' = [loop EXCEPT ![w] = row]
    BY <1>3 DEF SweepingRow
  <2>2. /\ row \in LoopRow /\ row.pc = "cancelling"
        /\ row.todo = 0 /\ row.placing = {}
        /\ row.leader = loop[w].leader /\ row.cooldown = loop[w].cooldown
    BY <1>1, InvTypes, Sweeping
  <2> HIDE DEF row
  <2>3. PoolTypeOK' /\ CountersExact' /\ RingingCount' = RingingCount
    BY <1>1, CountersStay
  <2>4. /\ loop[w].leader
        /\ deaths = 0 => RingingCount' <= RingingHardCap
    BY <1>1, <2>3 DEF PInv, Phases, Budgets
  <2> QED
    BY <1>1, <2>1, <2>2, <2>3, <2>4, RowStep
<1>4. \/ TickEnds(w)
      \/ \E S \in SUBSET Agent :
           loop' = [loop EXCEPT ![w] = [@ EXCEPT !.pc = "cancelling", !.sweep = S]]
  <2> DEFINE excess == AtLeastZero(Cardinality(In(Ringing)) - AllowedRinging(loop[w].seen))
  <2>1. \A S \in kSubset(excess, In(Ringing)) : S \in SUBSET Agent
    BY DEF kSubset, In
  <2> QED
    BY <2>1 DEF SelectExcess
<1> QED
  BY <1>2, <1>3, <1>4

LEMMA RestStep ==
  ASSUME PInv, NEW w \in Worker, Rest(w)
  PROVE  PInv'
<1>1. /\ loop[w].pc = "cancelling" /\ loop[w].todo = 0 /\ loop[w].placing = {}
      /\ TickEnds(w) /\ UNCHANGED <<pool, counters, active, lock, calm, deaths>>
  BY DEF Rest, PInv, Phases
<1> QED
  BY <1>1, TickEndsStep

-----------------------------------------------------------------------------
(* Steps in which at most sweeps get smaller.                                  *)

SlimRow(row, S) == [row EXCEPT !.sweep = @ \ S]

LEMMA Slim ==
  ASSUME NEW row \in LoopRow, NEW S
  PROVE  /\ SlimRow(row, S) \in LoopRow
         /\ SlimRow(row, S).sweep \subseteq row.sweep
         /\ SlimRow(row, S).pc = row.pc
         /\ SlimRow(row, S).leader = row.leader
         /\ SlimRow(row, S).todo = row.todo
         /\ SlimRow(row, S).placing = row.placing
         /\ SlimRow(row, S).cooldown = row.cooldown
         /\ SlimRow(row, S).seen = row.seen
<1> DEFINE new == SlimRow(row, S)
<1>1. new \in LoopRow /\ new.sweep \subseteq row.sweep /\ new.pc = row.pc
  BY DEF LoopRow, SlimRow
<1>2. new.leader = row.leader /\ new.todo = row.todo /\ new.placing = row.placing
  BY DEF LoopRow, SlimRow
<1>3. new.cooldown = row.cooldown /\ new.seen = row.seen
  BY DEF LoopRow, SlimRow
<1> QED
  BY <1>1, <1>2, <1>3

\* Only sweeps change, and get smaller.
Slimmer ==
  /\ loop' \in [Worker -> LoopRow]
  /\ \A w \in Worker :
       /\ loop'[w].sweep \subseteq loop[w].sweep
       /\ loop'[w].pc = loop[w].pc /\ loop'[w].leader = loop[w].leader
       /\ loop'[w].todo = loop[w].todo /\ loop'[w].placing = loop[w].placing
       /\ loop'[w].cooldown = loop[w].cooldown /\ loop'[w].seen = loop[w].seen

LEMMA ForgetIsSlimmer ==
  ASSUME PInv, NEW S, Forget(S)
  PROVE  Slimmer
<1>1. loop' = [w \in Worker |-> SlimRow(loop[w], S)]
  BY DEF Forget, SlimRow
<1>2. \A w \in Worker : loop[w] \in LoopRow
  BY InvTypes
<1>3. \A w \in Worker : loop'[w] = SlimRow(loop[w], S) /\ SlimRow(loop[w], S) \in LoopRow
  BY <1>1, <1>2, Slim
<1>4. loop' \in [Worker -> LoopRow]
  BY <1>1, <1>3
<1> QED
  BY <1>2, <1>3, <1>4, Slim DEF Slimmer

LEMMA UnchangedIsSlimmer ==
  ASSUME PInv, UNCHANGED loop
  PROVE  Slimmer
BY DEF PInv, LoopShape, Slimmer

LEMMA SlimStep ==
  ASSUME PInv, Slimmer, UNCHANGED <<active, lock, calm, deaths>>, PoolTypeOK', CountersExact',
         RingingCount' <= RingingCount, OnTheirWayCount' <= OnTheirWayCount
  PROVE  PInv'
<1>1. active' \in BOOLEAN
  BY DEF PInv, LoopShape
<1> QED
  BY <1>1, NextCounts, QuietStep DEF Slimmer

LEMMA CancelOneStep ==
  ASSUME PInv, NEW w \in Worker, NEW a \in Agent, CancelOne(w, a)
  PROVE  PInv'
<1>1. /\ Lose(a) /\ Counting /\ Forget({a})
      /\ UNCHANGED <<active, lock, calm, deaths>>
  BY DEF CancelOne, CancelIfNotAnswered
<1>2. PoolTypeOK /\ CountersExact'
  BY <1>1, CountingStep DEF PInv
<1>3. PoolTypeOK' /\ RingingCount' <= RingingCount /\ OnTheirWayCount' <= OnTheirWayCount
  BY <1>1, <1>2, QuietMove DEF Quiet
<1> QED
  BY <1>1, <1>2, <1>3, ForgetIsSlimmer, SlimStep

LEMMA CancelNothingStep ==
  ASSUME PInv, NEW w \in Worker, NEW a \in Agent, CancelNothing(w, a)
  PROVE  PInv'
<1>1. /\ UNCHANGED <<pool, counters, active, lock, calm, deaths>>
      /\ loop' = [loop EXCEPT ![w] = SlimRow(loop[w], {a})]
  BY DEF CancelNothing, SlimRow
<1>2. /\ SlimRow(loop[w], {a}) \in LoopRow /\ loop[w] \in LoopRow
      /\ loop \in [Worker -> LoopRow]
  BY InvTypes, Slim
<1>3. Slimmer
  <2>1. /\ loop' \in [Worker -> LoopRow] /\ loop'[w] = SlimRow(loop[w], {a})
        /\ \A v \in Worker \ {w} : loop'[v] = loop[v]
    BY <1>1, <1>2
  <2> QED
    BY <1>2, <2>1, Slim DEF Slimmer
<1>4. /\ PoolTypeOK' /\ CountersExact'
      /\ RingingCount' <= RingingCount /\ OnTheirWayCount' <= OnTheirWayCount
  BY <1>1, CountersStay, CountTypes
<1> QED
  BY <1>1, <1>3, <1>4, SlimStep

LEMMA ProgressStep ==
  ASSUME PInv, Progress
  PROVE  PInv'
<1>1. Counting /\ UNCHANGED <<active, lock, calm, deaths>>
  BY DEF Progress
<1>2. PoolTypeOK /\ CountersExact'
  BY <1>1, CountingStep DEF PInv
<1>3. ASSUME NEW a \in Agent, (Ring(a) \/ Bridge(a)) /\ UNCHANGED loop
      PROVE  PInv'
  <2>1. PoolTypeOK' /\ RingingCount' <= RingingCount /\ OnTheirWayCount' <= OnTheirWayCount
    BY <1>2, <1>3, QuietMove DEF Quiet
  <2> QED
    BY <1>1, <1>2, <1>3, <2>1, UnchangedIsSlimmer, SlimStep
<1>4. ASSUME NEW a \in Agent, (Complete(a) \/ Lose(a)) /\ Forget({a})
      PROVE  PInv'
  <2>1. PoolTypeOK' /\ RingingCount' <= RingingCount /\ OnTheirWayCount' <= OnTheirWayCount
    BY <1>2, <1>4, QuietMove DEF Quiet
  <2> QED
    BY <1>1, <1>2, <1>4, <2>1, ForgetIsSlimmer, SlimStep
<1>5. ASSUME NEW S \in SUBSET Agent, Sweep(S), Forget(S)
      PROVE  PInv'
  <2>1. PoolTypeOK' /\ RingingCount' <= RingingCount /\ OnTheirWayCount' <= OnTheirWayCount
    BY <1>2, <1>5, SweepMove
  <2> QED
    BY <1>1, <1>2, <1>5, <2>1, ForgetIsSlimmer, SlimStep
<1> QED
  BY <1>3, <1>4, <1>5 DEF Progress

LEMMA StaffingStep ==
  ASSUME PInv, Staffing
  PROVE  PInv'
<1>1. Counting /\ UNCHANGED <<active, lock, loop, calm, deaths>>
  BY DEF Staffing
<1>2. PoolTypeOK /\ CountersExact'
  BY <1>1, CountingStep DEF PInv
<1>3. PICK a \in Agent : Logout(a) \/ Login(a)
  BY DEF Staffing
<1>4. PoolTypeOK' /\ RingingCount' <= RingingCount /\ OnTheirWayCount' <= OnTheirWayCount
  BY <1>2, <1>3, QuietMove DEF Quiet
<1> QED
  BY <1>1, <1>2, <1>4, UnchangedIsSlimmer, SlimStep

LEMMA SwitchStep ==
  ASSUME PInv, Switch
  PROVE  PInv'
<1>1. active' \in BOOLEAN /\ UNCHANGED <<pool, counters, lock, loop, calm, deaths>>
  BY DEF Switch
<1>2. /\ PoolTypeOK' /\ CountersExact'
      /\ RingingCount' <= RingingCount /\ OnTheirWayCount' <= OnTheirWayCount
  BY <1>1, CountersStay, CountTypes
<1>3. Slimmer
  BY <1>1, UnchangedIsSlimmer
<1> QED
  BY <1>1, <1>2, <1>3, NextCounts, QuietStep DEF Slimmer

-----------------------------------------------------------------------------
(* A loop dies, or its worker does: it lets go of the lock.                     *)

LEMMA LeaveStep ==
  ASSUME PInv, NEW w \in Worker, NEW row \in LoopRow, loop' = [loop EXCEPT ![w] = row],
         lock' = Unlocked(w), UNCHANGED <<pool, counters, active>>,
         calm' \in [Worker -> 0 .. CooldownTicks],
         \A v \in Worker \ {w} : calm'[v] = calm[v],
         deaths' \in 0 .. MaxDeaths, deaths' >= deaths,
         ~row.leader, row.sweep = {}, row.pc \in {"waiting", "dead"},
         row.pc = "dead" => deaths' > 0,
         row.pc = "waiting" => /\ row.todo = 0 /\ row.placing = {}
                               /\ row.cooldown + calm'[w] >= CooldownTicks - 1
  PROVE  PInv'
<1>1. /\ loop'[w] = row /\ loop' \in [Worker -> LoopRow]
      /\ \A v \in Worker \ {w} : loop'[v] = loop[v]
  BY InvTypes
<1>2. /\ lock' \in Worker \cup {NoWorker}
      /\ lock' # NoWorker => lock' = lock /\ lock # w
      /\ lock # w => lock' = lock
  BY DEF Unlocked, PInv, LoopShape
<1>3. LoopShape'
  BY <1>1, <1>2 DEF PInv, LoopShape
<1>4. LockIsAWorkingLoops'
  BY <1>1, <1>2, NoWorkerIsNone DEF PInv, LockIsAWorkingLoops, LoopShape
<1>5. deaths \in Nat /\ deaths' \in Nat /\ (deaths > 0 => deaths' > 0)
  BY PacingAssumption DEF PInv, LoopShape
<1>6. \A v \in Worker : Phases(v)'
  <2>1. Phases(w)'
    BY <1>1 DEF Phases
  <2>2. ASSUME NEW v \in Worker \ {w}
        PROVE  Phases(v)'
    BY <1>1, <1>2, <1>5, <2>2 DEF PInv, Phases
  <2> QED
    BY <2>1, <2>2
<1>7. Budgets'
  <2> SUFFICES ASSUME deaths' = 0
               PROVE  /\ RingingCount' <= RingingHardCap
                      /\ \A v \in Worker : CapBudget(v)' /\ WayBudget(v)'
    BY DEF Budgets
  <2>1. deaths = 0
    BY <1>5
  <2>2. RingingCount' = RingingCount /\ OnTheirWayCount' = OnTheirWayCount
    BY CountersStay
  <2>3. RingingCount <= RingingHardCap /\ \A v \in Worker : CapBudget(v) /\ WayBudget(v)
    BY <2>1 DEF PInv, Budgets
  <2>4. CapBudget(w)' /\ WayBudget(w)'
    BY <1>1 DEF CapBudget, WayBudget
  <2>5. ASSUME NEW v \in Worker \ {w}
        PROVE  CapBudget(v)' /\ WayBudget(v)'
    BY <1>1, <2>2, <2>3, <2>5 DEF CapBudget, WayBudget
  <2> QED
    BY <2>2, <2>3, <2>4, <2>5
<1> QED
  BY <1>3, <1>4, <1>6, <1>7, CountersStay DEF PInv

DeadRow(todo, placing) == [Following EXCEPT !.pc = "dead", !.todo = todo, !.placing = placing]

LEMMA FollowingRow ==
  /\ Following \in LoopRow /\ ~Following.leader /\ Following.sweep = {}
  /\ Following.pc = "waiting" /\ Following.todo = 0 /\ Following.placing = {}
  /\ Following.cooldown = 0
<1>1. NoSnapshot \in SnapshotRow
  BY DEF NoSnapshot, SnapshotRow
<1> QED
  BY <1>1 DEF Following, LoopRow

LEMMA DeadIs ==
  ASSUME NEW todo \in Nat, NEW placing \in SUBSET Agent
  PROVE  /\ DeadRow(todo, placing) \in LoopRow
         /\ DeadRow(todo, placing).pc = "dead"
         /\ ~DeadRow(todo, placing).leader
         /\ DeadRow(todo, placing).sweep = {}
<1> DEFINE new == DeadRow(todo, placing)
<1>1. new \in LoopRow /\ new.pc = "dead"
  BY FollowingRow DEF LoopRow, DeadRow
<1>2. ~new.leader /\ new.sweep = {}
  BY FollowingRow DEF LoopRow, DeadRow
<1> QED
  BY <1>1, <1>2

LEMMA DieStep ==
  ASSUME PInv, NEW w \in Worker, Die(w)
  PROVE  PInv'
<1>1. /\ deaths < MaxDeaths /\ deaths' = deaths + 1 /\ lock' = Unlocked(w)
      /\ UNCHANGED <<pool, counters, active, calm>>
  BY DEF Die
<1>2. /\ deaths' \in 0 .. MaxDeaths /\ deaths' >= deaths /\ deaths' > 0
  BY <1>1, PacingAssumption DEF PInv, LoopShape
<1>3. PICK todo \in Nat, placing \in SUBSET Agent : Dead(w, todo, placing)
  <2>1. loop[w].todo \in Nat /\ loop[w].placing \in SUBSET Agent
    BY InvTypes DEF LoopRow
  <2>2. loop[w].todo > 0 => loop[w].todo - 1 \in Nat
    BY <2>1
  <2>3. {} \in SUBSET Agent /\ 0 \in Nat
    OBVIOUS
  <2>4. \A a : loop[w].placing \ {a} \in SUBSET Agent
    BY <2>1
  <2>5. \/ Dead(w, 0, {})
        \/ loop[w].todo > 0 /\ Dead(w, loop[w].todo - 1, loop[w].placing)
        \/ \E a \in loop[w].placing : Dead(w, loop[w].todo, loop[w].placing \ {a})
    BY DEF Die
  <2> QED
    BY <2>1, <2>2, <2>3, <2>4, <2>5
<1> DEFINE row == DeadRow(todo, placing)
<1>4. loop' = [loop EXCEPT ![w] = row]
  BY <1>3 DEF Dead, DeadRow
<1>5. row \in LoopRow /\ row.pc = "dead" /\ ~row.leader /\ row.sweep = {}
  BY DeadIs
<1> HIDE DEF row
<1>6. /\ calm' \in [Worker -> 0 .. CooldownTicks]
      /\ \A v \in Worker \ {w} : calm'[v] = calm[v]
  BY <1>1, InvTypes
<1> QED
  BY <1>1, <1>2, <1>4, <1>5, <1>6, LeaveStep

LEMMA CrashStep ==
  ASSUME PInv, NEW w \in Worker, Crash(w)
  PROVE  PInv'
<1>1. /\ loop' = [loop EXCEPT ![w] = Following] /\ lock' = Unlocked(w)
      /\ calm' = [calm EXCEPT ![w] = CooldownTicks]
      /\ UNCHANGED <<pool, counters, active, deaths>>
  BY DEF Crash
<1>2. CooldownTicks \in Nat
  BY LimitsAssumption
<1>3. /\ calm' \in [Worker -> 0 .. CooldownTicks]
      /\ \A v \in Worker \ {w} : calm'[v] = calm[v]
      /\ calm'[w] = CooldownTicks
  BY <1>1, <1>2, InvTypes
<1>4. /\ deaths' \in 0 .. MaxDeaths /\ deaths' >= deaths
      /\ Following.cooldown + calm'[w] >= CooldownTicks - 1
  BY <1>1, <1>2, <1>3, FollowingRow, PacingAssumption DEF PInv, LoopShape
<1> QED
  BY <1>1, <1>3, <1>4, FollowingRow, LeaveStep

-----------------------------------------------------------------------------
(* The invariant holds, and with it the promises of PacingLoop.                *)

LEMMA PacingStep ==
  ASSUME PInv, [PacingNext]_pacingVars
  PROVE  PInv'
<1>1. CASE UNCHANGED pacingVars
  BY <1>1, UnchangedIsSlimmer, CountersStay, CountTypes, SlimStep DEF pacingVars
<1>2. ASSUME NEW w \in Worker, Lead(w) \/ TickStep(w) \/ Die(w) \/ Crash(w)
      PROVE  PInv'
  <2>1. CASE Lead(w)
    BY <2>1, LeadStep
  <2>2. CASE TickStep(w)
    <3>1. CASE Observe(w)
      BY <3>1, ObserveStep
    <3>2. CASE StartNothing(w)
      BY <3>2, StartNothingStep
    <3>3. CASE SelectExcess(w)
      BY <3>3, SelectExcessStep
    <3>4. CASE Rest(w)
      BY <3>4, RestStep
    <3>5. ASSUME NEW a \in Agent, Start(w, a)
          PROVE  PInv'
      BY <3>5, StartStep
    <3>6. ASSUME NEW a \in Agent, Finish(w, a)
          PROVE  PInv'
      BY <3>6, FinishStep
    <3>7. ASSUME NEW a \in Agent, FinishUnrecorded(w, a)
          PROVE  PInv'
      BY <3>7, FinishUnrecordedStep
    <3>8. ASSUME NEW a \in Agent, CancelOne(w, a)
          PROVE  PInv'
      BY <3>8, CancelOneStep
    <3>9. ASSUME NEW a \in Agent, CancelNothing(w, a)
          PROVE  PInv'
      BY <3>9, CancelNothingStep
    <3> QED
      BY <2>2, <3>1, <3>2, <3>3, <3>4, <3>5, <3>6, <3>7, <3>8, <3>9 DEF TickStep
  <2>3. CASE Die(w)
    BY <2>3, DieStep
  <2>4. CASE Crash(w)
    BY <2>4, CrashStep
  <2> QED
    BY <1>2, <2>1, <2>2, <2>3, <2>4
<1>3. CASE Progress
  BY <1>3, ProgressStep
<1>4. CASE Staffing
  BY <1>4, StaffingStep
<1>5. CASE Switch
  BY <1>5, SwitchStep
<1> QED
  BY <1>1, <1>2, <1>3, <1>4, <1>5 DEF PacingNext

LEMMA PacingStart ==
  ASSUME PacingInit
  PROVE  PInv
<1>1. /\ PoolTypeOK /\ CountersExact
      /\ loop \in [Worker -> LoopRow] /\ \A w \in Worker : loop[w] = Following
  BY FollowingRow DEF PacingInit, PoolTypeOK, Stage, CountersExact
<1>2. LoopShape
  BY <1>1, LimitsAssumption, PacingAssumption DEF PacingInit, LoopShape
<1>3. LockIsAWorkingLoops
  BY DEF PacingInit, LockIsAWorkingLoops
<1>4. \A w \in Worker : Phases(w)
  BY <1>1, FollowingRow, LimitsAssumption DEF PacingInit, Phases
<1>5. RingingCount = 0
  <2>1. In(Ringing) = {}
    BY DEF PacingInit, In, Ringing
  <2> QED
    BY <2>1, FS_EmptySet DEF RingingCount
<1>6. Budgets
  BY <1>1, <1>5, FollowingRow, LimitsAssumption DEF Budgets, CapBudget, WayBudget
<1> QED
  BY <1>1, <1>2, <1>3, <1>4, <1>6 DEF PInv

\* PInv is an inductive invariant of the pacing loops.
THEOREM PacingInvariant == PacingSpec => []PInv
<1>1. PacingInit => PInv
  BY PacingStart
<1>2. PInv /\ [PacingNext]_pacingVars => PInv'
  BY PacingStep
<1> QED
  BY <1>1, <1>2, PTL DEF PacingSpec

\* Every variable of the pacing loops has a value of its type, the counters among
\* them: a column is never negative nor more than the staff.
THEOREM LoopTypes == PacingSpec => []LoopTypeOK
<1>1. ASSUME PInv
      PROVE  LoopTypeOK
  <2>1. counters \in [DOMAIN Counted -> 0 .. Cardinality(Agent)]
    BY <1>1, InFinite DEF PInv, CountersExact, Counts
  <2> QED
    BY <1>1, <2>1 DEF PInv, LoopShape, LoopTypeOK
<1> QED
  BY <1>1, PacingInvariant, PTL

\* campaign_counters: in every state a snapshot can read, each column the triggers
\* keep is the count of the rows it stands for.
THEOREM CountersAreExact == PacingSpec => []CountersExact
<1>1. PInv => CountersExact
  BY DEF PInv
<1> QED
  BY <1>1, PacingInvariant, PTL

\* try_leader: of all the workers of a campaign, one ticks.
THEOREM LeaderIsUnique == PacingSpec => []OneLoopTicks
<1>1. PInv => OneLoopTicks
  BY OneLeader
<1> QED
  BY <1>1, PacingInvariant, PTL

\* run_forever's finally: a lock that is held is held by a loop that works.
THEOREM LockIsNotLost == PacingSpec => []LockIsAWorkingLoops
<1>1. PInv => LockIsAWorkingLoops
  BY DEF PInv
<1> QED
  BY <1>1, PacingInvariant, PTL

\* S5 and S2: as long as a breach is recent, the batch is a progressive one.
THEOREM BreachForcesProgressive == PacingSpec => []ForcedProgressive
<1>1. PInv => ForcedProgressive
  BY DEF PInv, Phases, ForcedProgressive
<1> QED
  BY <1>1, PacingInvariant, PTL

\* I4: a progressive batch never has more agents on their way to a call than were
\* free when it was decided, whatever happens while it runs.
THEOREM BatchKeepsToTheFree == PacingSpec => []InFlightWithinAvailable
<1>1. ASSUME PInv
      PROVE  InFlightWithinAvailable
  <2> SUFFICES ASSUME NEW w \in Worker, deaths = 0, loop[w].pc = "allocating",
                      Forced(loop[w].seen)
               PROVE  OnTheirWayCount <= WayLimit(loop[w].seen)
    BY DEF InFlightWithinAvailable, OnTheirWayCount, OnTheirWay, WayLimit
  <2>1. /\ loop[w].todo \in Nat /\ WayLimit(loop[w].seen) \in Int
        /\ OnTheirWayCount + loop[w].todo <= WayLimit(loop[w].seen)
    BY <1>1, BudgetOf
  <2> QED
    BY <2>1, CountTypes
<1> QED
  BY <1>1, PacingInvariant, PTL

-----------------------------------------------------------------------------
(* The hard cap, with the coroutines that dead loops leave behind.             *)

\* The calls a worker's loop, dead or alive, may still bring to ring.
Load(w) == loop[w].todo + Cardinality(loop[w].placing)

DeadLoops == {w \in Worker : loop[w].pc = "dead"}

\* The most a loop leaves when one of its coroutines raises.
Leftover == AtLeastZero(RingingHardCap - 1)

\* One pair for each call that may still come to ring.
Owed == {x \in Worker \X (1 .. RingingHardCap) : x[2] <= Load(x[1])}

CapInv ==
  /\ IsFiniteSet(DeadLoops) /\ Cardinality(DeadLoops) <= deaths
  /\ \A w \in Worker : Load(w) <= RingingHardCap
  /\ \A w \in DeadLoops : Load(w) <= Leftover
  /\ RingingCount + Cardinality(Owed) <= RingingHardCap + deaths * Leftover

LEMMA LeftoverIs ==
  /\ Leftover \in Nat
  /\ Leftover <= RingingHardCap
  /\ RingingHardCap > 0 => Leftover = RingingHardCap - 1
BY LimitsAssumption, AtLeastZeroIs DEF Leftover

LEMMA LoadIs ==
  ASSUME PInv, NEW w \in Worker
  PROVE  /\ loop[w].todo \in Nat /\ loop[w].placing \in SUBSET Agent
         /\ IsFiniteSet(loop[w].placing)
         /\ Cardinality(loop[w].placing) \in Nat
         /\ Load(w) \in Nat
         /\ Load(w) > 0 => w \in DeadLoops \/ loop[w].leader
         /\ loop[w].pc \in {"waiting", "cancelling"} => Load(w) = 0
<1>1. loop[w] \in LoopRow /\ IsFiniteSet(loop[w].placing) /\ Cardinality(loop[w].placing) \in Nat
  BY InvTypes
<1>2. loop[w].pc \in {"waiting", "cancelling"} => Load(w) = 0
  BY FS_EmptySet DEF Load, PInv, Phases
<1>3. loop[w].pc = "allocating" => loop[w].leader
  BY DEF PInv, Phases
<1>4. /\ loop[w].todo \in Nat /\ loop[w].placing \in SUBSET Agent
      /\ loop[w].pc \in {"waiting", "allocating", "cancelling", "dead"}
  BY <1>1 DEF LoopRow
<1> QED
  BY <1>1, <1>2, <1>3, <1>4 DEF Load, DeadLoops

\* What is owed is owed by the dead or by the one that leads.
LEMMA OwedFinite ==
  ASSUME PInv, CapInv
  PROVE  IsFiniteSet(Owed) /\ Cardinality(Owed) \in Nat
<1> DEFINE leaders == {w \in Worker : loop[w].leader}
<1>1. IsFiniteSet(leaders)
  <2>1. CASE leaders = {}
    BY <2>1, FS_EmptySet
  <2>2. CASE leaders # {}
    <3>1. PICK w \in Worker : loop[w].leader
      BY <2>2
    <3>2. leaders = {w}
      BY <3>1, OneLeader DEF OneLoopTicks
    <3> QED
      BY <3>2, FS_Singleton
  <2> QED
    BY <2>1, <2>2
<1>2. Owed \in SUBSET ((DeadLoops \cup leaders) \X (1 .. RingingHardCap))
  <2> SUFFICES ASSUME NEW x \in Owed
               PROVE  x[1] \in DeadLoops \cup leaders
    BY DEF Owed
  <2>1. x[1] \in Worker /\ x[2] \in 1 .. RingingHardCap /\ x[2] <= Load(x[1])
    BY DEF Owed
  <2>2. Load(x[1]) \in Nat /\ (Load(x[1]) > 0 => x[1] \in DeadLoops \/ loop[x[1]].leader)
    BY <2>1, LoadIs
  <2> QED
    BY <2>1, <2>2, LimitsAssumption
<1>3. IsFiniteSet(DeadLoops) /\ IsFiniteSet(DeadLoops \cup leaders)
  BY <1>1, FS_Union DEF CapInv
<1>4. IsFiniteSet(1 .. RingingHardCap)
  BY LimitsAssumption, FS_Interval
<1>5. IsFiniteSet((DeadLoops \cup leaders) \X (1 .. RingingHardCap))
  BY <1>3, <1>4, FS_Product
<1> QED
  BY <1>2, <1>5, FS_Subset, FS_CardinalityType

LEMMA DeathsAre == ASSUME PInv PROVE deaths \in Nat
BY PacingAssumption DEF PInv, LoopShape

LEMMA Multiples ==
  ASSUME NEW d \in Nat, NEW n \in Nat
  PROVE  d * n \in Nat /\ (d + 1) * n \in Nat /\ d * n <= (d + 1) * n
<1>1. d * n \in Nat /\ (d + 1) * n = d * n + n
  OBVIOUS
<1> QED
  BY <1>1

LEMMA MoreOfIt ==
  ASSUME NEW c \in Nat, NEW d \in Nat, NEW n \in Nat, c <= d
  PROVE  d * n \in Nat /\ c * n <= d * n
<1>1. PICK m \in Nat : d = c + m
  <2>1. d - c \in Nat /\ d = c + (d - c)
    OBVIOUS
  <2> QED
    BY <2>1
<1>2. (c + m) * n = c * n + m * n /\ c * n \in Nat /\ m * n \in Nat
  OBVIOUS
<1> QED
  BY <1>1, <1>2

LEMMA RowLoadIs ==
  ASSUME NEW row \in LoopRow
  PROVE  /\ row.todo \in Nat /\ IsFiniteSet(row.placing)
         /\ Cardinality(row.placing) \in Nat
         /\ row.todo + Cardinality(row.placing) \in Nat
<1>1. row.todo \in Nat /\ row.placing \in SUBSET Agent
  BY DEF LoopRow
<1>2. IsFiniteSet(row.placing)
  BY <1>1, StaffAssumption, FS_Subset
<1> QED
  BY <1>1, <1>2, FS_CardinalityType

\* A step in which no loop gets more load, and at most one dies.
LEMMA ShrinkStep ==
  ASSUME PInv, CapInv, RingingCount' <= RingingCount,
         \A v \in Worker : Load(v)' \in Nat /\ Load(v)' <= Load(v),
         \/ deaths' = deaths /\ DeadLoops' \subseteq DeadLoops
         \/ \E w \in Worker : /\ deaths' = deaths + 1
                              /\ DeadLoops' \subseteq DeadLoops \cup {w}
                              /\ Load(w)' <= Leftover
  PROVE  CapInv'
<1>1. \A v \in Worker : Load(v) \in Nat
  BY LoadIs
<1>2. /\ IsFiniteSet(DeadLoops) /\ Cardinality(DeadLoops) \in Nat
      /\ Cardinality(DeadLoops) <= deaths /\ deaths \in Nat /\ deaths' \in Nat
  BY DeathsAre, FS_CardinalityType DEF CapInv
<1>3. PICK W \in SUBSET Worker :
        /\ DeadLoops' \subseteq DeadLoops \cup W
        /\ \A w \in W : Load(w)' <= Leftover
        /\ \/ deaths' = deaths /\ W = {}
           \/ deaths' = deaths + 1 /\ \E w : W = {w}
  <2>1. CASE deaths' = deaths /\ DeadLoops' \subseteq DeadLoops
    BY <2>1
  <2>2. ASSUME NEW w \in Worker, deaths' = deaths + 1,
               DeadLoops' \subseteq DeadLoops \cup {w}, Load(w)' <= Leftover
        PROVE  \E W \in SUBSET Worker :
                 /\ DeadLoops' \subseteq DeadLoops \cup W
                 /\ \A v \in W : Load(v)' <= Leftover
                 /\ \/ deaths' = deaths /\ W = {}
                    \/ deaths' = deaths + 1 /\ \E v : W = {v}
    <3> WITNESS {w} \in SUBSET Worker
    <3> QED
      BY <2>2
  <2> QED
    BY <2>1, <2>2
<1>4. IsFiniteSet(DeadLoops)' /\ Cardinality(DeadLoops)' <= deaths'
  <2>1. CASE deaths' = deaths /\ W = {}
    <3>1. DeadLoops' \in SUBSET DeadLoops
      BY <1>3, <2>1
    <3>2. IsFiniteSet(DeadLoops') /\ Cardinality(DeadLoops') <= Cardinality(DeadLoops)
      BY <1>2, <3>1, FS_Subset
    <3>3. Cardinality(DeadLoops') \in Nat
      BY <3>2, FS_CardinalityType
    <3> QED
      BY <1>2, <2>1, <3>2, <3>3
  <2>2. ASSUME NEW w, deaths' = deaths + 1, W = {w}
        PROVE  IsFiniteSet(DeadLoops') /\ Cardinality(DeadLoops') <= deaths'
    <3>1. DeadLoops' \in SUBSET (DeadLoops \cup {w})
      BY <1>3, <2>2
    <3>2. /\ IsFiniteSet(DeadLoops \cup {w}) /\ Cardinality(DeadLoops \cup {w}) \in Nat
          /\ Cardinality(DeadLoops \cup {w}) <= Cardinality(DeadLoops) + 1
      <4>1. IsFiniteSet(DeadLoops \cup {w})
        BY <1>2, FS_AddElement
      <4> QED
        BY <1>2, <4>1, OneMore
    <3>3. /\ IsFiniteSet(DeadLoops')
          /\ Cardinality(DeadLoops') <= Cardinality(DeadLoops \cup {w})
      BY <3>1, <3>2, FS_Subset
    <3>4. Cardinality(DeadLoops') \in Nat
      BY <3>3, FS_CardinalityType
    <3> QED
      BY <1>2, <2>2, <3>2, <3>3, <3>4
  <2> QED
    BY <1>3, <2>1, <2>2
<1>5. /\ \A v \in Worker : Load(v)' <= RingingHardCap
      /\ \A v \in DeadLoops' : Load(v)' <= Leftover
  <2>1. \A v \in Worker : Load(v) <= RingingHardCap
    BY DEF CapInv
  <2>2. \A v \in DeadLoops : v \in Worker /\ Load(v) <= Leftover
    BY DEF CapInv, DeadLoops
  <2> QED
    BY <1>1, <1>3, <2>1, <2>2, LeftoverIs, LimitsAssumption
<1>6. Cardinality(Owed)' <= Cardinality(Owed) /\ Cardinality(Owed)' \in Nat
  <2>1. Owed' \in SUBSET Owed
    <3> SUFFICES ASSUME NEW w \in Worker, NEW i \in 1 .. RingingHardCap, i <= Load(w)'
                 PROVE  i <= Load(w)
      BY DEF Owed
    <3> QED
      BY <1>1, LimitsAssumption
  <2>2. IsFiniteSet(Owed)
    BY OwedFinite
  <2>3. IsFiniteSet(Owed') /\ Cardinality(Owed') <= Cardinality(Owed)
    BY <2>1, <2>2, FS_Subset
  <2> QED
    BY <2>3, FS_CardinalityType
<1>7. RingingCount' + Cardinality(Owed)' <= RingingHardCap + deaths' * Leftover
  <2>1. RingingCount + Cardinality(Owed) <= RingingHardCap + deaths * Leftover
    BY DEF CapInv
  <2>2. deaths * Leftover <= deaths' * Leftover /\ deaths * Leftover \in Nat /\ deaths' * Leftover \in Nat
    <3>1. /\ deaths * Leftover \in Nat /\ (deaths + 1) * Leftover \in Nat
          /\ deaths * Leftover <= (deaths + 1) * Leftover
      BY <1>2, LeftoverIs, Multiples
    <3>2. CASE deaths' = deaths
      BY <3>1, <3>2
    <3>3. CASE deaths' = deaths + 1
      BY <3>1, <3>3
    <3> QED
      BY <1>3, <3>2, <3>3
  <2>3. Cardinality(Owed) \in Nat
    BY OwedFinite
  <2> QED
    BY <1>6, <2>1, <2>2, <2>3, CountTypes, NextCounts, LimitsAssumption
<1> QED
  BY <1>4, <1>5, <1>6, <1>7 DEF CapInv

\* One loop's row changes.
LEMMA RowShrinks ==
  ASSUME PInv, CapInv, RingingCount' <= RingingCount, NEW w \in Worker, NEW row \in LoopRow,
         loop' = [loop EXCEPT ![w] = row],
         row.todo + Cardinality(row.placing) <= Load(w),
         \/ deaths' = deaths /\ (row.pc = "dead" => loop[w].pc = "dead")
         \/ deaths' = deaths + 1 /\ row.todo + Cardinality(row.placing) <= Leftover
  PROVE  CapInv'
<1>1. loop'[w] = row /\ \A v \in Worker \ {w} : loop'[v] = loop[v]
  BY InvTypes
<1>2. Load(w)' = row.todo + Cardinality(row.placing) /\ \A v \in Worker \ {w} : Load(v)' = Load(v)
  BY <1>1 DEF Load
<1>3. \A v \in Worker : Load(v)' \in Nat /\ Load(v)' <= Load(v)
  <2>1. Load(w)' \in Nat /\ Load(w)' <= Load(w)
    BY <1>2, RowLoadIs
  <2>2. \A v \in Worker : Load(v) \in Nat
    BY LoadIs
  <2> QED
    BY <1>2, <2>1, <2>2
<1>4. /\ DeadLoops' \subseteq DeadLoops \cup {w}
      /\ (row.pc = "dead" => loop[w].pc = "dead") => DeadLoops' \subseteq DeadLoops
  BY <1>1 DEF DeadLoops
<1>5. CASE deaths' = deaths /\ (row.pc = "dead" => loop[w].pc = "dead")
  BY <1>3, <1>4, <1>5, ShrinkStep
<1>6. CASE deaths' = deaths + 1 /\ row.todo + Cardinality(row.placing) <= Leftover
  <2>1. Load(w)' <= Leftover
    BY <1>2, <1>6
  <2> QED
    BY <1>3, <1>4, <1>6, <2>1, ShrinkStep
<1> QED
  BY <1>5, <1>6

\* Only sweeps change.
LEMMA SlimShrinks ==
  ASSUME PInv, CapInv, Slimmer, UNCHANGED deaths, RingingCount' <= RingingCount
  PROVE  CapInv'
<1>1. \A v \in Worker : Load(v)' = Load(v) /\ Load(v) \in Nat
  BY LoadIs DEF Slimmer, Load
<1>2. DeadLoops' \subseteq DeadLoops
  BY DEF Slimmer, DeadLoops
<1>3. \A v \in Worker : Load(v)' \in Nat /\ Load(v)' <= Load(v)
  BY <1>1
<1> QED
  BY <1>2, <1>3, ShrinkStep

LEMMA SameRinging ==
  ASSUME UNCHANGED pool
  PROVE  RingingCount' = RingingCount /\ RingingCount' <= RingingCount
<1>1. RingingCount' = RingingCount
  BY DEF RingingCount, In
<1> QED
  BY <1>1, CountTypes


\* The decision approves a batch; whoever still owes calls died.
LEMMA ObserveKeepsCap ==
  ASSUME PInv, CapInv, NEW w \in Worker, Observe(w)
  PROVE  CapInv'
<1>1. PICK k \in Nat, row \in LoopRow :
        /\ loop' = [loop EXCEPT ![w] = row]
        /\ row.pc = "allocating" /\ row.todo = k /\ row.placing = {}
        /\ k <= AtLeastZero(RingingHardCap - RingingCount)
  <2>1. PICK sampled \in BOOLEAN, breach \in BOOLEAN, health \in Health :
          LET s == Snapshot(sampled, breach, health, loop[w].cooldown > 0) IN
          /\ \E n \in Requests(s) :
               loop' = [loop EXCEPT ![w] =
                          [@ EXCEPT !.pc       = "allocating",
                                    !.todo     = Approved(n, s, loop[w].cooldown),
                                    !.cooldown = CooldownAfter(s, loop[w].cooldown),
                                    !.seen     = Kept(s)]]
          /\ calm' = [calm EXCEPT ![w] = IF breach THEN 0 ELSE Min({@ + 1, CooldownTicks})]
    BY DEF Observe
  <2> DEFINE cooling == loop[w].cooldown > 0
             s == Snapshot(sampled, breach, health, cooling)
  <2>2. PICK n \in Requests(s) :
          loop' = [loop EXCEPT ![w] =
                     DecidedRow(loop[w], Approved(n, s, loop[w].cooldown),
                                CooldownAfter(s, loop[w].cooldown), Kept(s))]
    BY <2>1 DEF DecidedRow
  <2>3. /\ loop[w] \in LoopRow /\ loop[w].placing = {} /\ loop[w].cooldown \in Nat
        /\ CountersExact /\ active \in BOOLEAN
    BY InvTypes DEF Observe, PInv, Phases, LoopRow, LoopShape
  <2>4. cooling \in BOOLEAN
    OBVIOUS
  <2> HIDE DEF cooling
  <2>5. s \in SnapshotRow /\ s.ringing = RingingCount
    BY <2>3, <2>4, SnapshotShows
  <2> HIDE DEF s
  <2> DEFINE k == Approved(n, s, loop[w].cooldown)
             cool == CooldownAfter(s, loop[w].cooldown)
             row == DecidedRow(loop[w], k, cool, Kept(s))
  <2>6. k \in Nat /\ k <= AtLeastZero(RingingHardCap - RingingCount)
    <3>1. n \in Nat
      BY <2>5, RequestsAreNumbers
    <3> QED
      BY <2>3, <2>5, <3>1, ApprovedBounds
  <2>7. cool \in Nat /\ Kept(s) \in SnapshotRow
    <3>1. cool \in Nat
      BY <2>3, LimitsAssumption, AtLeastZeroIs DEF CooldownAfter
    <3> QED
      BY <2>5, <3>1, KeptShows
  <2>8. loop' = [loop EXCEPT ![w] = row]
    BY <2>2
  <2> HIDE DEF k, cool, row
  <2>9. row \in LoopRow /\ row.pc = "allocating" /\ row.todo = k /\ row.placing = {}
    <3>1. loop[w] \in LoopRow /\ Kept(s) \in SnapshotRow /\ k \in Nat /\ cool \in Nat
      BY <2>3, <2>6, <2>7
    <3>2. DecidedRow(loop[w], k, cool, Kept(s)).pc = "allocating"
      BY <3>1 DEF DecidedRow, LoopRow
    <3>3. /\ DecidedRow(loop[w], k, cool, Kept(s)) \in LoopRow
          /\ DecidedRow(loop[w], k, cool, Kept(s)).todo = k
          /\ DecidedRow(loop[w], k, cool, Kept(s)).placing = loop[w].placing
      BY <3>1, Decided
    <3> QED
      BY <2>3, <3>2, <3>3 DEF row
  <2> QED
    BY <2>6, <2>8, <2>9, Zenon
<1>2. /\ UNCHANGED <<pool, deaths>> /\ loop[w].leader /\ loop[w].pc = "waiting" /\ Load(w) = 0
  BY LoadIs DEF Observe
<1>3. /\ loop'[w] = row /\ \A v \in Worker \ {w} : loop'[v] = loop[v]
  BY <1>1, InvTypes
<1>4. /\ Load(w)' = k /\ \A v \in Worker \ {w} : Load(v)' = Load(v)
  BY <1>1, <1>3, FS_EmptySet DEF Load
<1>5. DeadLoops' = DeadLoops /\ w \notin DeadLoops
  BY <1>1, <1>2, <1>3 DEF DeadLoops
<1>6. CASE k = 0
  <2>1. \A v \in Worker : Load(v)' \in Nat /\ Load(v)' <= Load(v)
    BY <1>2, <1>4, <1>6, LoadIs
  <2>2. RingingCount' <= RingingCount
    BY <1>2, SameRinging
  <2>3. deaths' = deaths /\ DeadLoops' \subseteq DeadLoops
    BY <1>2, <1>5
  <2> QED
    BY <2>1, <2>2, <2>3, ShrinkStep
<1>7. CASE k > 0
  <2>1. k + RingingCount <= RingingHardCap
    BY <1>1, <1>7, AtLeastZeroIs, CountTypes, LimitsAssumption
  <2>2. /\ IsFiniteSet(DeadLoops) /\ Cardinality(DeadLoops) \in Nat
        /\ Cardinality(DeadLoops) <= deaths /\ deaths \in Nat
    BY DeathsAre, FS_CardinalityType DEF CapInv
  <2>3. \A v \in DeadLoops : Load(v)' = Load(v) /\ Load(v) \in Nat /\ Load(v) <= Leftover
    BY <1>4, <1>5, LoadIs DEF CapInv, DeadLoops
  <2>4. \A v \in Worker : Load(v)' <= RingingHardCap
    BY <1>4, <2>1, CountTypes, LimitsAssumption DEF CapInv
  <2> DEFINE dead == DeadLoops \X (1 .. Leftover)
             mine == {w} \X (1 .. k)
  <2>5. Owed' \in SUBSET (dead \cup mine)
    <3> SUFFICES ASSUME NEW v \in Worker, NEW i \in 1 .. RingingHardCap, i <= Load(v)'
                 PROVE  <<v, i>> \in dead \cup mine
      BY DEF Owed
    <3>1. CASE v = w
      BY <1>4, <3>1
    <3>2. CASE v # w
      <4>1. Load(v) > 0
        BY <1>4, <3>2, LoadIs, LimitsAssumption
      <4>2. v \in DeadLoops
        BY <1>2, <3>2, <4>1, LoadIs, OneLeader DEF OneLoopTicks
      <4>3. i <= Leftover
        BY <2>3, <4>2, LeftoverIs, LimitsAssumption
      <4> QED
        BY <4>2, <4>3
    <3> QED
      BY <3>1, <3>2
  <2>6. /\ IsFiniteSet(dead) /\ Cardinality(dead) \in Nat
        /\ Cardinality(dead) = Cardinality(DeadLoops) * Leftover
    <3>1. IsFiniteSet(1 .. Leftover) /\ Cardinality(1 .. Leftover) = Leftover
      BY LeftoverIs, FS_Interval
    <3> QED
      BY <2>2, <3>1, FS_Product, FS_CardinalityType
  <2>7. IsFiniteSet(mine) /\ Cardinality(mine) = k
    <3>1. IsFiniteSet(1 .. k) /\ Cardinality(1 .. k) = k
      BY <1>7, FS_Interval
    <3>2. IsFiniteSet({w}) /\ Cardinality({w}) = 1
      BY FS_Singleton
    <3>3. IsFiniteSet(mine) /\ Cardinality(mine) = 1 * k
      BY <3>1, <3>2, FS_Product
    <3> QED
      BY <3>3
  <2>8. Cardinality(Owed') <= Cardinality(dead) + k /\ Cardinality(Owed') \in Nat
    <3> HIDE DEF dead, mine
    <3>1. /\ IsFiniteSet(dead \cup mine)
          /\ Cardinality(dead \cup mine) =
               Cardinality(dead) + Cardinality(mine) - Cardinality(dead \cap mine)
      BY <2>6, <2>7, FS_Union
    <3>2. IsFiniteSet(dead \cap mine) /\ Cardinality(dead \cap mine) \in Nat
      BY <2>6, FS_Intersection, FS_CardinalityType
    <3>3. IsFiniteSet(Owed') /\ Cardinality(Owed') <= Cardinality(dead \cup mine)
      BY <2>5, <3>1, FS_Subset
    <3>4. Cardinality(Owed') \in Nat
      BY <3>3, FS_CardinalityType
    <3> QED
      BY <2>6, <2>7, <3>1, <3>2, <3>3, <3>4
  <2>9. Cardinality(DeadLoops) * Leftover <= deaths * Leftover /\ deaths * Leftover \in Nat
    BY <2>2, LeftoverIs, MoreOfIt
  <2>10. RingingCount' + Cardinality(Owed') <= RingingHardCap + deaths' * Leftover
    <3>1. deaths' = deaths /\ RingingCount' = RingingCount
      BY <1>2, SameRinging
    <3> HIDE DEF dead, mine
    <3> QED
      BY <2>1, <2>6, <2>8, <2>9, <3>1, CountTypes, LimitsAssumption
  <2>11. /\ IsFiniteSet(DeadLoops') /\ Cardinality(DeadLoops') <= deaths'
         /\ \A v \in DeadLoops' : Load(v)' <= Leftover
    BY <1>2, <1>5, <2>2, <2>3
  <2> QED
    BY <2>4, <2>10, <2>11 DEF CapInv
<1> QED
  BY <1>1, <1>6, <1>7


\* A coroutine starts, with an agent or with nothing to do.
LEMMA StartKeepsCap ==
  ASSUME PInv, CapInv, NEW w \in Worker, NEW a \in Agent, Start(w, a)
  PROVE  CapInv'
<1> DEFINE row == TakenRow(loop[w], a)
<1>1. /\ loop[w].todo > 0 /\ Book(a) /\ deaths' = deaths
      /\ loop' = [loop EXCEPT ![w] = row]
  BY DEF Start, TakenRow
<1>2. /\ row \in LoopRow /\ row.todo = loop[w].todo - 1
      /\ row.placing = loop[w].placing \cup {a} /\ row.pc = loop[w].pc
  BY <1>1, InvTypes, Taken
<1> HIDE DEF row
<1>3. Cardinality(row.placing) <= Cardinality(loop[w].placing) + 1
  BY <1>2, LoadIs, OneMore
<1>4. row.todo + Cardinality(row.placing) <= Load(w)
  <2>1. /\ loop[w].todo \in Nat /\ Cardinality(loop[w].placing) \in Nat
        /\ row.todo = loop[w].todo - 1 /\ Cardinality(row.placing) \in Nat
    BY <1>2, LoadIs, RowLoadIs
  <2> QED
    BY <1>3, <2>1 DEF Load
<1>5. RingingCount' <= RingingCount
  BY <1>1, BookMove, CountTypes DEF PInv
<1> QED
  BY <1>1, <1>2, <1>4, <1>5, RowShrinks

LEMMA StartNothingKeepsCap ==
  ASSUME PInv, CapInv, NEW w \in Worker, StartNothing(w)
  PROVE  CapInv'
<1> DEFINE row == IdleRow(loop[w])
<1>1. /\ loop[w].todo > 0 /\ UNCHANGED <<pool, counters, active, lock, calm, deaths>>
      /\ loop' = [loop EXCEPT ![w] = row]
  BY DEF StartNothing, IdleRow
<1>2. /\ row \in LoopRow /\ row.todo = loop[w].todo - 1
      /\ row.placing = loop[w].placing /\ row.pc = loop[w].pc
  BY <1>1, InvTypes, Idle
<1> HIDE DEF row
<1>3. row.todo + Cardinality(row.placing) <= Load(w)
  BY <1>2, LoadIs DEF Load
<1>4. RingingCount' <= RingingCount /\ deaths' = deaths
  BY <1>1, SameRinging
<1> QED
  BY <1>1, <1>2, <1>3, <1>4, RowShrinks

\* A coroutine comes back: it owes no call any more, though one may ring now.
LEMMA ReturnKeepsCap ==
  ASSUME PInv, CapInv, NEW w \in Worker, NEW a \in loop[w].placing, Return(w, a),
         deaths' = deaths, RingingCount' <= RingingCount + 1
  PROVE  CapInv'
<1> DEFINE row == ReturnedRow(loop[w], a)
<1>1. a \in Agent /\ loop' = [loop EXCEPT ![w] = row]
  BY LoadIs DEF Return, ReturnedRow
<1>2. /\ row \in LoopRow /\ row.todo = loop[w].todo
      /\ row.placing = loop[w].placing \ {a} /\ row.pc = loop[w].pc
  BY <1>1, InvTypes, Returned
<1> HIDE DEF row
<1>3. loop'[w] = row /\ \A v \in Worker \ {w} : loop'[v] = loop[v]
  BY <1>1, InvTypes
<1>4. Cardinality(row.placing) \in Nat /\ Cardinality(row.placing) = Cardinality(loop[w].placing) - 1
  BY <1>2, LoadIs, OneLess
<1>5. /\ Load(w)' \in Nat /\ Load(w)' = Load(w) - 1
      /\ \A v \in Worker \ {w} : Load(v)' = Load(v)
  <2>1. /\ loop[w].todo \in Nat /\ Cardinality(loop[w].placing) \in Nat
        /\ row.todo = loop[w].todo
    BY <1>2, LoadIs
  <2>2. Load(w)' = row.todo + Cardinality(row.placing)
    BY <1>3 DEF Load
  <2>3. Load(w)' \in Nat /\ Load(w)' = Load(w) - 1
    BY <1>4, <2>1, <2>2 DEF Load
  <2> QED
    BY <1>3, <2>3 DEF Load
<1>6. \A v \in Worker : Load(v) \in Nat /\ Load(v) <= RingingHardCap
  BY LoadIs DEF CapInv
<1>7. DeadLoops' = DeadLoops
  BY <1>2, <1>3 DEF DeadLoops
<1>8. /\ IsFiniteSet(DeadLoops') /\ Cardinality(DeadLoops') <= deaths'
      /\ \A v \in DeadLoops' : Load(v)' <= Leftover
  <2>1. \A v \in DeadLoops : v \in Worker /\ Load(v) <= Leftover
    BY DEF CapInv, DeadLoops
  <2> QED
    BY <1>5, <1>6, <1>7, <2>1, LeftoverIs DEF CapInv
<1>9. \A v \in Worker : Load(v)' <= RingingHardCap
  BY <1>5, <1>6, LimitsAssumption
<1>10. Cardinality(Owed') \in Nat /\ Cardinality(Owed') <= Cardinality(Owed) - 1
  <2> DEFINE gone == <<w, Load(w)>>
  <2>1. gone \in Owed
    BY <1>5, <1>6, LimitsAssumption DEF Owed
  <2>2. Owed' \in SUBSET (Owed \ {gone})
    <3> SUFFICES ASSUME NEW v \in Worker, NEW i \in 1 .. RingingHardCap, i <= Load(v)'
                 PROVE  i <= Load(v) /\ <<v, i>> # gone
      BY DEF Owed
    <3>1. CASE v = w
      BY <1>5, <1>6, <3>1, LimitsAssumption
    <3>2. CASE v # w
      BY <1>5, <3>2
    <3> QED
      BY <3>1, <3>2
  <2> HIDE DEF gone
  <2>3. IsFiniteSet(Owed)
    BY OwedFinite
  <2>4. IsFiniteSet(Owed \ {gone}) /\ Cardinality(Owed \ {gone}) = Cardinality(Owed) - 1
    BY <2>1, <2>3, FS_RemoveElement
  <2>5. IsFiniteSet(Owed') /\ Cardinality(Owed') <= Cardinality(Owed \ {gone})
    BY <2>2, <2>4, FS_Subset
  <2> QED
    BY <2>4, <2>5, FS_CardinalityType
<1>11. RingingCount' + Cardinality(Owed') <= RingingHardCap + deaths' * Leftover
  <2>1. deaths * Leftover \in Nat
    BY DeathsAre, LeftoverIs, Multiples
  <2>2. RingingCount + Cardinality(Owed) <= RingingHardCap + deaths * Leftover
    BY DEF CapInv
  <2> QED
    BY <1>10, <2>1, <2>2, CountTypes, NextCounts, OwedFinite, LimitsAssumption
<1> QED
  BY <1>8, <1>9, <1>11 DEF CapInv

LEMMA FinishKeepsCap ==
  ASSUME PInv, CapInv, NEW w \in Worker, NEW a \in Agent,
         Finish(w, a) \/ FinishUnrecorded(w, a)
  PROVE  CapInv'
<1>1. a \in loop[w].placing /\ Return(w, a) /\ deaths' = deaths
  BY DEF Finish, FinishUnrecorded
<1>2. RingingCount' <= RingingCount + 1
  <2>1. CASE Dial(a)
    BY <2>1, DialMove, CountTypes DEF PInv
  <2>2. CASE Refuse(a)
    BY <2>2, QuietMove, CountTypes, NextCounts DEF PInv, Quiet
  <2>3. CASE UNCHANGED pool
    BY <2>3, SameRinging, CountTypes
  <2> QED
    BY <2>1, <2>2, <2>3 DEF Finish, FinishUnrecorded
<1> QED
  BY <1>1, <1>2, ReturnKeepsCap

\* A batch is over, and the calls in excess are selected.
LEMMA TickEndsKeepsCap ==
  ASSUME PInv, CapInv, NEW w \in Worker, NEW S \in SUBSET Agent,
         \/ loop' = [loop EXCEPT ![w] = RestedRow(loop[w])]
         \/ loop' = [loop EXCEPT ![w] = SweepingRow(loop[w], S)],
         UNCHANGED <<pool, deaths>>
  PROVE  CapInv'
<1>1. RingingCount' <= RingingCount /\ deaths' = deaths
  BY SameRinging
<1>2. CASE loop' = [loop EXCEPT ![w] = RestedRow(loop[w])]
  <2>1. /\ RestedRow(loop[w]) \in LoopRow /\ RestedRow(loop[w]).pc = "waiting"
        /\ RestedRow(loop[w]).todo = loop[w].todo
        /\ RestedRow(loop[w]).placing = loop[w].placing
    BY InvTypes, Rested
  <2>2. RestedRow(loop[w]).todo + Cardinality(RestedRow(loop[w]).placing) <= Load(w)
    BY <2>1, LoadIs DEF Load
  <2> QED
    BY <1>1, <1>2, <2>1, <2>2, RowShrinks
<1>3. CASE loop' = [loop EXCEPT ![w] = SweepingRow(loop[w], S)]
  <2>1. /\ SweepingRow(loop[w], S) \in LoopRow /\ SweepingRow(loop[w], S).pc = "cancelling"
        /\ SweepingRow(loop[w], S).todo = loop[w].todo
        /\ SweepingRow(loop[w], S).placing = loop[w].placing
    BY InvTypes, Sweeping
  <2>2. SweepingRow(loop[w], S).todo + Cardinality(SweepingRow(loop[w], S).placing) <= Load(w)
    BY <2>1, LoadIs DEF Load
  <2> QED
    BY <1>1, <1>3, <2>1, <2>2, RowShrinks
<1> QED
  BY <1>2, <1>3


LEMMA SelectKeepsCap ==
  ASSUME PInv, CapInv, NEW w \in Worker, SelectExcess(w) \/ Rest(w)
  PROVE  CapInv'
<1>1. UNCHANGED <<pool, deaths>>
  BY DEF SelectExcess, Rest
<1>2. \/ TickEnds(w)
      \/ \E S \in SUBSET Agent :
           loop' = [loop EXCEPT ![w] = [@ EXCEPT !.pc = "cancelling", !.sweep = S]]
  <2> DEFINE excess == AtLeastZero(Cardinality(In(Ringing)) - AllowedRinging(loop[w].seen))
  <2>1. \A S \in kSubset(excess, In(Ringing)) : S \in SUBSET Agent
    BY DEF kSubset, In
  <2>2. CASE SelectExcess(w)
    BY <2>1, <2>2 DEF SelectExcess
  <2>3. CASE Rest(w)
    BY <2>3 DEF Rest
  <2> QED
    BY <2>2, <2>3
<1>3. \E S \in SUBSET Agent :
        \/ loop' = [loop EXCEPT ![w] = RestedRow(loop[w])]
        \/ loop' = [loop EXCEPT ![w] = SweepingRow(loop[w], S)]
  <2>1. CASE TickEnds(w)
    <3>1. loop' = [loop EXCEPT ![w] = RestedRow(loop[w])]
      BY <2>1 DEF TickEnds, RestedRow
    <3> QED
      BY <3>1
  <2>2. ASSUME NEW S \in SUBSET Agent,
               loop' = [loop EXCEPT ![w] = [@ EXCEPT !.pc = "cancelling", !.sweep = S]]
        PROVE  loop' = [loop EXCEPT ![w] = SweepingRow(loop[w], S)]
    BY <2>2 DEF SweepingRow
  <2> QED
    BY <1>2, <2>1, <2>2
<1> QED
  BY <1>1, <1>3, TickEndsKeepsCap

\* Calls end, are answered or cancelled; agents come and go.
LEMMA RestKeepsCap ==
  ASSUME PInv, CapInv,
         \/ Progress \/ Staffing \/ Switch
         \/ \E w \in Worker, a \in Agent : CancelOne(w, a) \/ CancelNothing(w, a)
  PROVE  CapInv'
<1>1. ASSUME NEW a \in Agent, Quiet(a)
      PROVE  RingingCount' <= RingingCount
  BY <1>1, QuietMove DEF PInv
<1>2. CASE Progress
  <2>1. deaths' = deaths
    BY <1>2 DEF Progress
  <2>2. Slimmer
    BY <1>2, ForgetIsSlimmer, UnchangedIsSlimmer DEF Progress
  <2>3. RingingCount' <= RingingCount
    <3>1. ASSUME NEW S \in SUBSET Agent, Sweep(S)
          PROVE  RingingCount' <= RingingCount
      BY <3>1, SweepMove DEF PInv
    <3> QED
      BY <1>1, <1>2, <3>1 DEF Progress, Quiet
  <2> QED
    BY <2>1, <2>2, <2>3, SlimShrinks
<1>3. CASE Staffing
  <2>1. RingingCount' <= RingingCount /\ deaths' = deaths /\ UNCHANGED loop
    BY <1>1, <1>3 DEF Staffing, Quiet
  <2> QED
    BY <2>1, UnchangedIsSlimmer, SlimShrinks
<1>4. CASE Switch
  <2>1. UNCHANGED pool /\ deaths' = deaths /\ UNCHANGED loop
    BY <1>4 DEF Switch
  <2> QED
    BY <2>1, SameRinging, UnchangedIsSlimmer, SlimShrinks
<1>5. ASSUME NEW w \in Worker, NEW a \in Agent, CancelOne(w, a)
      PROVE  CapInv'
  <2>1. Lose(a) /\ Forget({a}) /\ deaths' = deaths
    BY <1>5 DEF CancelOne, CancelIfNotAnswered
  <2>2. RingingCount' <= RingingCount
    BY <1>1, <2>1 DEF Quiet
  <2> QED
    BY <2>1, <2>2, ForgetIsSlimmer, SlimShrinks
<1>6. ASSUME NEW w \in Worker, NEW a \in Agent, CancelNothing(w, a)
      PROVE  CapInv'
  <2>1. /\ UNCHANGED pool /\ deaths' = deaths
        /\ loop' = [loop EXCEPT ![w] = SlimRow(loop[w], {a})]
    BY <1>6 DEF CancelNothing, SlimRow
  <2>2. /\ SlimRow(loop[w], {a}) \in LoopRow
        /\ SlimRow(loop[w], {a}).pc = loop[w].pc
        /\ SlimRow(loop[w], {a}).todo = loop[w].todo
        /\ SlimRow(loop[w], {a}).placing = loop[w].placing
    BY InvTypes, Slim
  <2>3. SlimRow(loop[w], {a}).todo + Cardinality(SlimRow(loop[w], {a}).placing) <= Load(w)
    BY <2>2, LoadIs DEF Load
  <2> QED
    BY <2>1, <2>2, <2>3, SameRinging, RowShrinks
<1> QED
  BY <1>2, <1>3, <1>4, <1>5, <1>6

\* A loop dies, and leaves less than its batch; or its worker does, with all of it.
LEMMA LeaveKeepsCap ==
  ASSUME PInv, CapInv, NEW w \in Worker, Lead(w) \/ Die(w) \/ Crash(w)
  PROVE  CapInv'
<1>1. RingingCount' <= RingingCount
  <2>1. UNCHANGED pool
    BY DEF Lead, Die, Crash
  <2> QED
    BY <2>1, SameRinging
<1>2. CASE Lead(w)
  <2>1. loop' = [loop EXCEPT ![w].leader = TRUE] /\ deaths' = deaths
    BY <1>2 DEF Lead
  <2>2. /\ \A v \in Worker : Load(v)' = Load(v) /\ Load(v) \in Nat
        /\ DeadLoops' = DeadLoops
    <3>1. \A v \in Worker :
            /\ loop'[v].todo = loop[v].todo /\ loop'[v].placing = loop[v].placing
            /\ loop'[v].pc = loop[v].pc
      BY <2>1, InvTypes DEF LoopRow
    <3> QED
      BY <3>1, LoadIs DEF Load, DeadLoops
  <2>3. \A v \in Worker : Load(v)' \in Nat /\ Load(v)' <= Load(v)
    BY <2>2
  <2> QED
    BY <1>1, <2>1, <2>2, <2>3, ShrinkStep
<1>3. CASE Crash(w)
  <2>1. loop' = [loop EXCEPT ![w] = Following] /\ deaths' = deaths
    BY <1>3 DEF Crash
  <2>2. Following.todo + Cardinality(Following.placing) <= Load(w)
    BY FollowingRow, FS_EmptySet, LoadIs
  <2> QED
    BY <1>1, <2>1, <2>2, FollowingRow, RowShrinks
<1>4. CASE Die(w)
  <2>1. deaths' = deaths + 1
    BY <1>4 DEF Die
  <2>2. /\ loop[w].todo \in Nat /\ loop[w].placing \in SUBSET Agent
        /\ Cardinality(loop[w].placing) \in Nat
        /\ loop[w].todo + Cardinality(loop[w].placing) <= RingingHardCap
    BY LoadIs DEF CapInv, Load
  <2>3. PICK todo \in Nat, placing \in SUBSET Agent :
          /\ Dead(w, todo, placing)
          /\ todo + Cardinality(placing) <= Leftover
          /\ todo + Cardinality(placing) <= loop[w].todo + Cardinality(loop[w].placing)
    <3>1. CASE Dead(w, 0, {})
      <4>1. 0 + Cardinality({}) = 0 /\ {} \in SUBSET Agent
        BY FS_EmptySet
      <4> QED
        BY <2>2, <3>1, <4>1, LeftoverIs
    <3>2. CASE loop[w].todo > 0 /\ Dead(w, loop[w].todo - 1, loop[w].placing)
      <4>1. /\ loop[w].todo - 1 \in Nat
            /\ (loop[w].todo - 1) + Cardinality(loop[w].placing) <= Leftover
            /\ (loop[w].todo - 1) + Cardinality(loop[w].placing)
                 <= loop[w].todo + Cardinality(loop[w].placing)
        BY <2>2, <3>2, LeftoverIs, LimitsAssumption
      <4> QED
        BY <2>2, <3>2, <4>1
    <3>3. ASSUME NEW a \in loop[w].placing, Dead(w, loop[w].todo, loop[w].placing \ {a})
          PROVE  \E todo \in Nat, placing \in SUBSET Agent :
                   /\ Dead(w, todo, placing)
                   /\ todo + Cardinality(placing) <= Leftover
                   /\ todo + Cardinality(placing) <= loop[w].todo + Cardinality(loop[w].placing)
      <4> DEFINE rest == loop[w].placing \ {a}
      <4>1. Cardinality(rest) \in Nat /\ Cardinality(rest) = Cardinality(loop[w].placing) - 1
        BY LoadIs, OneLess
      <4>2. rest \in SUBSET Agent /\ Dead(w, loop[w].todo, rest)
        BY <2>2, <3>3
      <4> HIDE DEF rest
      <4>3. /\ loop[w].todo + Cardinality(rest) <= Leftover
            /\ loop[w].todo + Cardinality(rest) <= loop[w].todo + Cardinality(loop[w].placing)
        BY <2>2, <4>1, LeftoverIs, LimitsAssumption
      <4> QED
        BY <2>2, <4>2, <4>3
    <3>4. \/ Dead(w, 0, {})
          \/ loop[w].todo > 0 /\ Dead(w, loop[w].todo - 1, loop[w].placing)
          \/ \E a \in loop[w].placing : Dead(w, loop[w].todo, loop[w].placing \ {a})
      BY <1>4 DEF Die
    <3> QED
      BY <3>1, <3>2, <3>3, <3>4
  <2> DEFINE row == DeadRow(todo, placing)
  <2>4. loop' = [loop EXCEPT ![w] = row]
    BY <2>3 DEF Dead, DeadRow
  <2>5. row \in LoopRow /\ row.todo = todo /\ row.placing = placing
    <3>1. row \in LoopRow
      BY DeadIs
    <3>2. row.todo = todo /\ row.placing = placing
      BY FollowingRow DEF DeadRow, LoopRow
    <3> QED
      BY <3>1, <3>2
  <2> HIDE DEF row
  <2>6. /\ row.todo + Cardinality(row.placing) <= Load(w)
        /\ row.todo + Cardinality(row.placing) <= Leftover
    BY <2>3, <2>5 DEF Load
  <2> QED
    BY <1>1, <2>1, <2>4, <2>5, <2>6, RowShrinks
<1> QED
  BY <1>2, <1>3, <1>4

LEMMA CapStep ==
  ASSUME PInv, CapInv, [PacingNext]_pacingVars
  PROVE  CapInv'
<1>1. CASE UNCHANGED pacingVars
  <2>1. UNCHANGED pool /\ UNCHANGED loop /\ deaths' = deaths
    BY <1>1 DEF pacingVars
  <2> QED
    BY <2>1, SameRinging, UnchangedIsSlimmer, SlimShrinks
<1>2. ASSUME NEW w \in Worker, TickStep(w)
      PROVE  CapInv'
  BY <1>2, ObserveKeepsCap, StartNothingKeepsCap, SelectKeepsCap, StartKeepsCap,
     FinishKeepsCap, RestKeepsCap DEF TickStep
<1> QED
  BY <1>1, <1>2, LeaveKeepsCap, RestKeepsCap DEF PacingNext

LEMMA CapStart ==
  ASSUME PacingInit
  PROVE  CapInv
<1>1. loop \in [Worker -> LoopRow] /\ \A w \in Worker : loop[w] = Following
  BY FollowingRow DEF PacingInit
<1>2. DeadLoops = {}
  BY <1>1, FollowingRow DEF DeadLoops
<1>3. \A w \in Worker : Load(w) = 0
  BY <1>1, FollowingRow, FS_EmptySet DEF Load
<1>4. Owed = {}
  BY <1>3, LimitsAssumption DEF Owed
<1>5. RingingCount = 0
  <2>1. In(Ringing) = {}
    BY DEF PacingInit, In, Ringing
  <2> QED
    BY <2>1, FS_EmptySet DEF RingingCount
<1>6. deaths = 0 /\ 0 * Leftover = 0
  BY LeftoverIs DEF PacingInit
<1> QED
  BY <1>2, <1>3, <1>4, <1>5, <1>6, FS_EmptySet, LimitsAssumption DEF CapInv

\* S7: the calls that ring stay within the hard cap, although the rule read a
\* snapshot that is old by the time its batch rings; each loop that died of an
\* exception may add what it left behind, less than the cap, and no more.
THEOREM CapIsKept == PacingSpec => []RingingWithinCap
<1>1. PacingInit => PInv /\ CapInv
  BY PacingStart, CapStart
<1>2. (PInv /\ CapInv) /\ [PacingNext]_pacingVars => (PInv /\ CapInv)'
  BY PacingStep, CapStep
<1>3. ASSUME PInv, CapInv
      PROVE  RingingWithinCap
  <2>1. RingingCount + Cardinality(Owed) <= RingingHardCap + deaths * Leftover
    BY <1>3 DEF CapInv
  <2>2. deaths * Leftover \in Nat /\ Cardinality(Owed) \in Nat
    BY <1>3, DeathsAre, LeftoverIs, Multiples, OwedFinite
  <2>3. RingingCount <= RingingHardCap + deaths * Leftover
    BY <2>1, <2>2, CountTypes, LimitsAssumption
  <2> QED
    BY <2>3 DEF RingingWithinCap, RingingCount, Leftover
<1> QED
  BY <1>1, <1>2, <1>3, PTL DEF PacingSpec
=============================================================================
