------------------------- MODULE SimulationProofs -------------------------
(* Proofs about Simulation and its VirtualClock, for any number of calls, any  *)
(* length of ticks, rings, talks and outages, and any end of the run.          *)
EXTENDS Simulation, WellFoundedInduction, SequenceTheorems, TLAPS

-----------------------------------------------------------------------------
(* The clock's jump.                                                           *)

LEMMA MinIsLeast ==
  ASSUME NEW S \in SUBSET Nat, S # {}
  PROVE  Min(S) \in S /\ \A y \in S : Min(S) <= y
<1> DEFINE R == {ss \in Nat \X Nat : ss[1] < ss[2]}
<1>1. IsWellFoundedOn(R, Nat)
  BY NatLessThanWellFounded, Zenon DEF OpToRel
<1>2. \A x, y \in Nat : x < y => <<x, y>> \in R
  OBVIOUS
<1> HIDE DEF R
<1>3. PICK x \in S : \A y \in S : ~ (<<y, x>> \in R)
  BY <1>1, WFMin
<1>4. ASSUME NEW y \in S
      PROVE  x <= y
  <2>1. x \in Nat /\ y \in Nat
    OBVIOUS
  <2>2. ~(y < x)
    BY <1>2, <1>3, <2>1, Zenon
  <2> QED
    BY <2>1, <2>2
<1> QED
  BY <1>4 DEF Min

\* What a jump does to any one task: it becomes ready exactly at its deadline, or
\* its deadline stays and is still ahead.
LEMMA JumpFacts ==
  ASSUME ClockTypeOK, Jump
  PROVE  /\ ClockTypeOK'
         /\ \A t \in Waiting : deadline[t] >= now'
         /\ \A t \in Task :
              \/ t \in Waiting /\ now' = deadline[t] /\ t \in ready' /\ deadline'[t] = Awake
              \/ t \in Waiting /\ now' < deadline[t] /\ deadline'[t] = deadline[t]
                   /\ (t \in ready' <=> t \in ready)
              \/ t \notin Waiting /\ deadline'[t] = Awake /\ (t \in ready' <=> t \in ready)
         /\ driver' = "yielding" /\ critical' = critical
<1> DEFINE S == {deadline[t] : t \in Waiting}
<1>1. S \in SUBSET Nat /\ S # {}
  BY DEF ClockTypeOK, Waiting, Jump
<1>2. NextDeadline \in Nat /\ \A t \in Waiting : NextDeadline <= deadline[t] /\ deadline[t] \in Nat
  <2>1. Min(S) \in S /\ \A y \in S : Min(S) <= y
    BY <1>1, MinIsLeast
  <2> QED
    BY <1>1, <2>1 DEF NextDeadline
<1> HIDE DEF S
<1>3. /\ now' = NextDeadline /\ critical' = critical /\ driver' = "yielding"
      /\ ready' = ready \cup {t \in Waiting : deadline[t] <= NextDeadline}
      /\ deadline' = [t \in Task |-> IF t \in {u \in Waiting : deadline[u] <= NextDeadline}
                                     THEN Awake ELSE deadline[t]]
  BY DEF Jump
<1>4. Waiting \subseteq Task /\ \A t \in Task \ Waiting : deadline[t] = Awake
  BY DEF Waiting
<1>5. ClockTypeOK'
  BY <1>2, <1>3, <1>4 DEF ClockTypeOK
<1>6. ASSUME NEW t \in Task
      PROVE  \/ t \in Waiting /\ now' = deadline[t] /\ t \in ready' /\ deadline'[t] = Awake
             \/ t \in Waiting /\ now' < deadline[t] /\ deadline'[t] = deadline[t]
                  /\ (t \in ready' <=> t \in ready)
             \/ t \notin Waiting /\ deadline'[t] = Awake /\ (t \in ready' <=> t \in ready)
  <2>1. CASE t \in Waiting /\ deadline[t] <= NextDeadline
    BY <1>2, <1>3, <2>1
  <2>2. CASE t \in Waiting /\ ~(deadline[t] <= NextDeadline)
    BY <1>2, <1>3, <2>2
  <2>3. CASE t \notin Waiting
    BY <1>3, <1>4, <2>3
  <2> QED
    BY <2>1, <2>2, <2>3
<1> QED
  BY <1>2, <1>3, <1>5, <1>6

-----------------------------------------------------------------------------
(* Types, and the one critical section.                                        *)

\* Exactly one critical section is open, the working loop's: a tick cut short or
\* ended by an error has left its own.
OneSection == critical = IF loop = "working" THEN 1 ELSE 0

\* What an emission is made of: only the event and what was held, and both of them.
Carries(em, e) == em.held = e \/ \E i \in 1..Len(em.out) : em.out[i] = e

LEMMA EmissionFacts ==
  ASSUME NEW H, NEW e \in H, NEW keeps \in H \cup {Nothing},
         NEW em \in Emissions(keeps, e)
  PROVE  /\ em.held \in {Nothing, e} /\ em.out \in Seq(H)
         /\ Carries(em, e) /\ (keeps # Nothing => Carries(em, keeps))
<1>1. CASE keeps = Nothing
  <2>1. em \in {[held |-> e, out |-> <<>>], [held |-> Nothing, out |-> <<e, e>>]}
    BY <1>1 DEF Emissions
  <2>2. CASE em = [held |-> e, out |-> <<>>]
    <3>1. em.held = e /\ em.out = <<>>
      BY <2>2
    <3> QED
      BY <1>1, <3>1 DEF Carries
  <2>3. CASE em = [held |-> Nothing, out |-> <<e, e>>]
    <3>1. em.held = Nothing /\ em.out = <<e, e>>
      BY <2>3
    <3>2. em.out \in Seq(H) /\ 1 \in 1..Len(em.out)
      BY <3>1
    <3>3. em.out[1] = e
      BY <3>1
    <3> QED
      BY <1>1, <3>1, <3>2, <3>3 DEF Carries
  <2> QED
    BY <2>1, <2>2, <2>3
<1>2. CASE keeps # Nothing
  <2>1. em \in [held : {Nothing, e}, out : {<<keeps, e>>, <<e, keeps>>}] /\ keeps \in H
    BY <1>2 DEF Emissions, Pair
  <2>2. em.held \in {Nothing, e} /\ em.out \in {<<keeps, e>>, <<e, keeps>>}
    BY <2>1
  <2>3. em.out \in Seq(H) /\ Len(em.out) = 2
    <3>1. CASE em.out = <<keeps, e>>
      BY <2>1, <3>1
    <3>2. CASE em.out = <<e, keeps>>
      BY <2>1, <3>2
    <3> QED
      BY <2>2, <3>1, <3>2
  <2>4. \A x \in {keeps, e} : em.out[1] = x \/ em.out[2] = x
    BY <2>2
  <2>5. \A x \in {keeps, e} : \E i \in 1..Len(em.out) : em.out[i] = x
    BY <2>3, <2>4
  <2>6. Carries(em, e) /\ Carries(em, keeps)
    BY <2>5 DEF Carries
  <2> QED
    BY <2>2, <2>3, <2>6
<1> QED
  BY <1>1, <1>2

LEMMA FlushedFacts ==
  ASSUME NEW H, NEW em, em.held \in H \cup {Nothing}, em.out \in Seq(H)
  PROVE  /\ Flushed(em).held = Nothing /\ Flushed(em).out \in Seq(H)
         /\ \A e \in H \ {Nothing} : Carries(em, e) => Carries(Flushed(em), e)
<1> DEFINE q == IF em.held = Nothing THEN em.out ELSE Append(em.out, em.held)
<1>1. Flushed(em) = [held |-> Nothing, out |-> q]
  BY DEF Flushed
<1>2. Flushed(em).held = Nothing /\ Flushed(em).out = q
  BY <1>1
<1>3. q \in Seq(H)
  OBVIOUS
<1>4. ASSUME NEW e \in H \ {Nothing}, Carries(em, e)
      PROVE  Carries(Flushed(em), e)
  <2>1. CASE em.held = e
    BY <1>2, <2>1 DEF Carries
  <2>2. CASE em.held # e
    <3>1. PICK i \in 1..Len(em.out) : em.out[i] = e
      BY <1>4, <2>2 DEF Carries
    <3>2. i \in 1..Len(q) /\ q[i] = e
      BY <3>1
    <3> QED
      BY <1>2, <3>2 DEF Carries
  <2> QED
    BY <2>1, <2>2
<1> QED
  BY <1>2, <1>3, <1>4

\* What a call may emit in a step, whichever of its four steps it is.
LEMMA LastFacts ==
  ASSUME NEW c \in Call, NEW H, NEW e \in H, held[c] \in H \cup {Nothing},
         NEW em \in EmitLast(c, e)
  PROVE  /\ em.held = Nothing /\ em.out \in Seq(H)
         /\ \A x \in {e, held[c]} \ {Nothing} : Carries(em, x)
<1>1. PICK em0 \in Emissions(held[c], e) : em = Flushed(em0)
  BY DEF EmitLast, Emit, SlotOf
<1>2. /\ em0.held \in {Nothing, e} /\ em0.out \in Seq(H)
      /\ Carries(em0, e) /\ (held[c] # Nothing => Carries(em0, held[c]))
  BY <1>1, EmissionFacts
<1>3. \A x \in H \ {Nothing} : Carries(em0, x) => Carries(Flushed(em0), x)
  BY <1>2, FlushedFacts
<1>4. Flushed(em0).held = Nothing /\ Flushed(em0).out \in Seq(H)
  BY <1>2, FlushedFacts
<1> QED
  BY <1>1, <1>2, <1>3, <1>4
-----------------------------------------------------------------------------
(* The inductive invariant.                                                    *)

\* Whoever sleeps has its deadline ahead.
AllAhead == \A t \in Waiting : now < deadline[t]

\* The loop's next tick is waiting on the clock, due - and then the driver waits
\* for what is ready - or being worked on, which keeps the driver from jumping.
LoopOnSchedule ==
  /\ loop = "new" => ticks = 0 /\ now = 0 /\ Loop \in ready /\ deadline[Loop] = Awake
  /\ loop = "sleeping" =>
       IF Loop \in ready
       THEN now = (ticks + 1) * TickS /\ driver = "yielding" /\ deadline[Loop] = Awake
       ELSE deadline[Loop] = (ticks + 1) * TickS
  /\ loop = "working" =>
       /\ now = ticks * TickS
       /\ Loop \notin ready /\ driver # "looking" /\ deadline[Loop] = Awake

\* The injector has not started, sleeps until the outage, is due, or is done.
InjectorPhases ==
  \/ now = 0 /\ Injector \in ready /\ outage = 0 /\ deadline[Injector] = Awake
  \/ Injector \notin ready /\ deadline[Injector] = OutageAt /\ outage = 0
  \/ Injector \in ready /\ now = OutageAt /\ outage = 0 /\ deadline[Injector] = Awake
  \/ Injector \notin ready /\ deadline[Injector] = Awake /\ outage = OutageAt + OutageS

\* A lifecycle delivers, sleeps or is about to run, and handles only what has
\* happened on its own line.
CallPhases ==
  \A c \in Call :
    /\ life[c] = "none" => deadline[c] = Awake /\ c \notin ready /\ line[c] = "idle"
    /\ c \in ready => out[c] = <<>> /\ deadline[c] = Awake
    /\ deadline[c] # Awake => out[c] = <<>>
    /\ held[c] \in Phone!Happened(line[c]) \cup {Nothing}
    /\ out[c] \in Seq(Phone!Happened(line[c]))

\* What has happened is reported, held or being delivered.
NothingForgotten ==
  \A c \in Call :
    /\ \A e \in Phone!Happened(line[c]) :
         \/ <<c, e>> \in reported
         \/ held[c] = e
         \/ \E i \in 1..Len(out[c]) : out[c][i] = e
    /\ line[c] \in {"completed", "unanswered"} => held[c] = Nothing
    /\ life[c] = "over" => line[c] \in {"completed", "unanswered"} /\ out[c] = <<>>

\* Every tick has its row but the one being worked on, which has begun before the
\* end unless it is the run's last.
RowPerTick ==
  /\ rows * TickS < End
  /\ loop \in {"new", "sleeping"} => ticks = rows
  /\ loop = "working" => ticks = rows + 1
  /\ loop = "cancelled" => End <= (rows + 1) * TickS

\* How far the driver is goes with the time and the loop's state.
DriverPhases ==
  /\ driver \in {"advancing", "looking"} => now < End
  /\ driver = "over" /\ loop # "dead" => End <= now
  /\ driver = "failed" => loop = "dead"
  /\ loop = "cancelled" <=> driver \in {"cancelling", "closed"}

IInv ==
  /\ SimulationTypeOK
  /\ OneSection
  /\ AllAhead
  /\ LoopOnSchedule
  /\ InjectorPhases
  /\ CallPhases
  /\ NothingForgotten
  /\ RowPerTick
  /\ DriverPhases

-----------------------------------------------------------------------------
(* Each step keeps the invariant: first what the steps of the clock, the loop  *)
(* and the injector do.                                                        *)

LEMMA Constants ==
  /\ Loop \in Task /\ Injector \in Task /\ Loop # Injector
  /\ Loop \notin Call /\ Injector \notin Call /\ Call \subseteq Task
  /\ \A t \in Task : t = Loop \/ t = Injector \/ t \in Call
  /\ TickS \in Nat \ {0} /\ RingS \in Nat \ {0} /\ Talks \subseteq Nat \ {0}
  /\ OutageAt \in Nat \ {0} /\ OutageS \in Nat \ {0}
  /\ Awake \notin Nat /\ End \in Nat \ {0} /\ Nothing \notin EventType
BY SimulationAssumption, ClockAssumption, NothingAssumption

LEMMA NextTick ==
  ASSUME NEW k \in Nat, NEW s \in Nat
  PROVE  (k + 1) * s = k * s + s
OBVIOUS

LEMMA Division ==
  ASSUME NEW r \in Nat, NEW e \in Nat, NEW s \in Nat \ {0}, r * s < e, e <= (r + 1) * s
  PROVE  r = (e - 1) \div s
<1>1. e - 1 \in Nat /\ r * s <= e - 1 /\ e - 1 < r * s + s
  BY NextTick
<1>2. PICK q \in Int : q = (e - 1) \div s
  OBVIOUS
<1>3. q * s <= e - 1 /\ e - 1 < q * s + s
  BY <1>1, <1>2
<1>4. ~(r < q)
  <2>1. SUFFICES ASSUME r + 1 <= q PROVE FALSE
    BY <1>2
  <2>2. (r + 1) * s <= q * s
    BY <2>1
  <2> QED
    BY <1>1, <1>3, <2>2, NextTick
<1>5. ~(q < r)
  <2>1. SUFFICES ASSUME q + 1 <= r PROVE FALSE
    BY <1>2
  <2>2. (q + 1) * s <= r * s /\ (q + 1) * s = q * s + s
    BY <2>1
  <2> QED
    BY <1>1, <1>3, <2>2
<1> QED
  BY <1>2, <1>4, <1>5

LEMMA InitInv == Init => IInv
<1> SUFFICES ASSUME Init PROVE IInv
  OBVIOUS
<1> USE Constants DEF Init, ClockInit, Phone!PhoneInit
<1>1. Waiting = {} /\ \A c \in Call : c \notin ready
  BY DEF Waiting
<1>2. SimulationTypeOK
  BY DEF SimulationTypeOK, ClockTypeOK, Phone!LineState
<1>3. OneSection /\ AllAhead /\ LoopOnSchedule /\ InjectorPhases
  BY <1>1 DEF OneSection, AllAhead, LoopOnSchedule, InjectorPhases
<1>4. CallPhases /\ NothingForgotten
  BY <1>1 DEF CallPhases, NothingForgotten, Phone!Happened
<1>5. RowPerTick /\ DriverPhases
  BY DEF RowPerTick, DriverPhases
<1> QED
  BY <1>2, <1>3, <1>4, <1>5 DEF IInv

\* A step that leaves calls, their deadlines and their place among the ready alone
\* keeps what the invariant says of them.
LEMMA CallsUntouched ==
  ASSUME IInv, UNCHANGED callVars,
         \A c \in Call : /\ c \in ready' => c \in ready \/ (deadline[c] # Awake /\ deadline'[c] = Awake)
                         /\ deadline'[c] \in {deadline[c], Awake}
  PROVE  CallPhases' /\ NothingForgotten'
<1>1. CallPhases'
  BY DEF IInv, CallPhases, callVars
<1>2. NothingForgotten'
  BY DEF IInv, NothingForgotten, callVars
<1> QED
  BY <1>1, <1>2

\* A step that leaves the loop, the time and the driver alone keeps what it says of
\* the rows.
LEMMA RowsUntouched ==
  ASSUME IInv, UNCHANGED <<loop, ticks, rows, now, driver>>
  PROVE  RowPerTick' /\ DriverPhases'
BY DEF IInv, RowPerTick, DriverPhases

LEMMA DriveKeeps ==
  ASSUME IInv, Running
  PROVE  IInv'
<1> USE Constants
<1>1. UNCHANGED <<loopVars, callVars>> /\ Drive
  BY DEF Running
<1>2. UNCHANGED <<loop, ticks, rows, outage, life, line, held, out, reported>>
  BY <1>1 DEF loopVars, callVars
<1>3. SimulationTypeOK /\ OneSection /\ AllAhead /\ LoopOnSchedule /\ InjectorPhases
  BY DEF IInv
<1>4. CASE /\ Jump
           /\ ready = {} /\ driver \in {"advancing", "looking"}
           /\ loop # "working"
  <2>1. ClockTypeOK
    BY <1>3 DEF SimulationTypeOK
  <2>2. /\ ClockTypeOK'
        /\ \A t \in Waiting : deadline[t] >= now'
        /\ \A t \in Task :
              \/ t \in Waiting /\ now' = deadline[t] /\ t \in ready' /\ deadline'[t] = Awake
              \/ t \in Waiting /\ now' < deadline[t] /\ deadline'[t] = deadline[t]
                   /\ (t \in ready' <=> t \in ready)
              \/ t \notin Waiting /\ deadline'[t] = Awake /\ (t \in ready' <=> t \in ready)
        /\ driver' = "yielding" /\ critical' = critical
    BY <1>4, <2>1, JumpFacts
  <2>3. SimulationTypeOK'
    BY <1>2, <1>3, <2>2 DEF SimulationTypeOK
  <2>4. OneSection' /\ AllAhead'
    BY <1>2, <1>3, <2>2 DEF OneSection, AllAhead, Waiting
  <2>5. LoopOnSchedule'
    BY <1>2, <1>3, <1>4, <2>2 DEF LoopOnSchedule, Waiting
  <2>6. InjectorPhases'
    BY <1>2, <1>3, <1>4, <2>2 DEF InjectorPhases, Waiting
  <2>7. CallPhases' /\ NothingForgotten'
    BY <1>1, <2>2, CallsUntouched DEF Waiting
  <2>8. RowPerTick' /\ DriverPhases'
    BY <1>2, <1>4, <2>2 DEF IInv, RowPerTick, DriverPhases
  <2> QED
    BY <2>3, <2>4, <2>5, <2>6, <2>7, <2>8 DEF IInv
<1>5. CASE /\ UNCHANGED <<now, deadline, ready, critical>>
           /\ driver' \in {"looking", "over", "advancing"}
           /\ driver = "yielding" => ready = {}
           /\ driver' = "looking" => critical = 0 /\ driver = "advancing"
           /\ driver' = "advancing" => now < End
           /\ driver' = "over" /\ loop # "dead" => End <= now
           /\ driver \in {"advancing", "looking", "yielding"}
  <2>1. SimulationTypeOK' /\ OneSection' /\ AllAhead' /\ InjectorPhases'
    BY <1>2, <1>3, <1>5
       DEF SimulationTypeOK, ClockTypeOK, OneSection, AllAhead, Waiting, InjectorPhases
  <2>2. LoopOnSchedule'
    BY <1>2, <1>3, <1>5 DEF LoopOnSchedule, OneSection
  <2>3. CallPhases' /\ NothingForgotten'
    BY <1>1, <1>5, CallsUntouched
  <2>4. RowPerTick' /\ DriverPhases'
    BY <1>2, <1>5 DEF IInv, RowPerTick, DriverPhases
  <2> QED
    BY <2>1, <2>2, <2>3, <2>4 DEF IInv
<1>6. CASE Advance
  BY <1>3, <1>4, <1>6 DEF Advance, Settled, OneSection
<1>7. CASE FindWaiter
  BY <1>3, <1>4, <1>7 DEF FindWaiter, LoopOnSchedule
<1>8. CASE LookForWaiter
  BY <1>5, <1>8 DEF LookForWaiter, Settled
<1>9. CASE GiveUp
  <2>1. ready = {} /\ Waiting = {} /\ driver = "looking"
    BY <1>9 DEF GiveUp
  <2>2. loop \notin {"new", "sleeping", "working"}
    BY <1>3, <2>1 DEF LoopOnSchedule, Waiting, SimulationTypeOK
  <2>3. loop = "dead"
    BY <1>3, <2>1, <2>2 DEF IInv, DriverPhases, SimulationTypeOK
  <2> QED
    BY <1>5, <1>9, <2>3 DEF GiveUp
<1>10. CASE Resume
  BY <1>3, <1>5, <1>10 DEF Resume, SimulationTypeOK, ClockTypeOK
<1> QED
  BY <1>1, <1>6, <1>7, <1>8, <1>9, <1>10 DEF Drive

LEMMA LoopKeeps ==
  ASSUME IInv, LoopStep
  PROVE  IInv'
<1> USE Constants
<1>1. /\ SimulationTypeOK /\ OneSection /\ AllAhead /\ LoopOnSchedule /\ InjectorPhases
      /\ RowPerTick /\ DriverPhases
  BY DEF IInv
<1>2. UNCHANGED callVars /\ UNCHANGED <<now, outage, driver, life, line, held, out, reported>>
  BY DEF LoopStep, LoopStarts, TickBegins, TickEnds, TickRaises, callVars
<1>3. CASE LoopStarts
  <2>1. /\ loop = "new" /\ Loop \in ready /\ ready' = ready \ {Loop} /\ loop' = "sleeping"
        /\ deadline' = [deadline EXCEPT ![Loop] = now + TickS]
        /\ UNCHANGED <<critical, ticks, rows>>
    BY <1>3 DEF LoopStarts, Runs, LoopSleeps, Sleep
  <2>2. SimulationTypeOK' /\ OneSection' /\ AllAhead' /\ InjectorPhases'
    BY <1>1, <1>2, <2>1
       DEF SimulationTypeOK, ClockTypeOK, OneSection, AllAhead, Waiting, InjectorPhases
  <2>3. LoopOnSchedule'
    BY <1>1, <1>2, <2>1 DEF LoopOnSchedule, SimulationTypeOK, ClockTypeOK
  <2>4. CallPhases' /\ NothingForgotten'
    BY <1>1, <1>2, <2>1, CallsUntouched DEF SimulationTypeOK, ClockTypeOK
  <2>5. RowPerTick' /\ DriverPhases'
    BY <1>1, <1>2, <2>1 DEF RowPerTick, DriverPhases
  <2> QED
    BY <2>2, <2>3, <2>4, <2>5 DEF IInv
<1>4. CASE TickBegins
  <2>1. /\ loop = "sleeping" /\ Loop \in ready /\ ready' = ready \ {Loop}
        /\ loop' = "working" /\ ticks' = ticks + 1 /\ critical' = critical + 1
        /\ UNCHANGED <<deadline, rows>>
    BY <1>4 DEF TickBegins, Runs, Enter
  <2>2. SimulationTypeOK' /\ OneSection' /\ AllAhead' /\ InjectorPhases'
    BY <1>1, <1>2, <2>1
       DEF SimulationTypeOK, ClockTypeOK, OneSection, AllAhead, Waiting, InjectorPhases
  <2>3. LoopOnSchedule'
    BY <1>1, <1>2, <2>1 DEF LoopOnSchedule
  <2>4. CallPhases' /\ NothingForgotten'
    BY <1>2, <2>1, CallsUntouched
  <2>5. RowPerTick' /\ DriverPhases'
    BY <1>1, <1>2, <2>1 DEF RowPerTick, DriverPhases
  <2> QED
    BY <2>2, <2>3, <2>4, <2>5 DEF IInv
<1>5. CASE TickEnds
  <2>1. /\ loop = "working" /\ ready = {} /\ ready' = {} /\ loop' = "sleeping"
        /\ rows' = rows + 1 /\ critical' = critical - 1 /\ ticks' = ticks
        /\ deadline' = [deadline EXCEPT ![Loop] = now + TickS]
    BY <1>5 DEF TickEnds, LoopSleeps, Sleep, Leave
  <2>2. SimulationTypeOK' /\ OneSection' /\ AllAhead' /\ InjectorPhases'
    BY <1>1, <1>2, <2>1
       DEF SimulationTypeOK, ClockTypeOK, OneSection, AllAhead, Waiting, InjectorPhases
  <2>3. LoopOnSchedule'
    <3>1. now = ticks * TickS /\ ticks \in Nat /\ deadline'[Loop] = now + TickS
      BY <1>1, <2>1 DEF LoopOnSchedule, SimulationTypeOK, ClockTypeOK
    <3>2. deadline'[Loop] = (ticks + 1) * TickS
      BY <3>1, NextTick
    <3> QED
      BY <2>1, <3>2 DEF LoopOnSchedule
  <2>4. CallPhases' /\ NothingForgotten'
    BY <1>1, <1>2, <2>1, CallsUntouched DEF SimulationTypeOK, ClockTypeOK
  <2>5. driver = "advancing" /\ now < End
    BY <1>1, <1>5, <2>1
       DEF TickEnds, IODone, DriverPhases, LoopOnSchedule, SimulationTypeOK, ClockTypeOK
  <2>6. ticks = rows + 1 /\ now = ticks * TickS
    BY <1>1, <2>1 DEF RowPerTick, LoopOnSchedule
  <2>7. RowPerTick' /\ DriverPhases'
    BY <1>1, <1>2, <2>1, <2>5, <2>6 DEF RowPerTick, DriverPhases
  <2> QED
    BY <2>2, <2>3, <2>4, <2>7 DEF IInv
<1>6. CASE TickRaises
  <2>1. /\ loop = "working" /\ loop' = "dead" /\ critical' = critical - 1
        /\ UNCHANGED <<deadline, ready, ticks, rows>>
    BY <1>6 DEF TickRaises, Leave
  <2>2. SimulationTypeOK' /\ OneSection' /\ AllAhead' /\ InjectorPhases' /\ LoopOnSchedule'
    BY <1>1, <1>2, <2>1
       DEF SimulationTypeOK, ClockTypeOK, OneSection, AllAhead, Waiting, InjectorPhases,
           LoopOnSchedule
  <2>3. CallPhases' /\ NothingForgotten'
    BY <1>2, <2>1, CallsUntouched
  <2>4. RowPerTick' /\ DriverPhases'
    BY <1>1, <1>2, <1>6, <2>1 DEF RowPerTick, DriverPhases, TickRaises, IODone
  <2> QED
    BY <2>2, <2>3, <2>4 DEF IInv
<1> QED
  BY <1>3, <1>4, <1>5, <1>6 DEF LoopStep

LEMMA InjectorKeeps ==
  ASSUME IInv, InjectorStep
  PROVE  IInv'
<1> USE Constants
<1>1. SimulationTypeOK /\ OneSection /\ AllAhead /\ LoopOnSchedule /\ InjectorPhases
  BY DEF IInv
<1>2. /\ UNCHANGED <<now, critical, driver, loop, ticks, rows, callVars>>
      /\ UNCHANGED <<life, line, held, out, reported>>
      /\ Injector \in ready /\ ready' = ready \ {Injector}
  BY DEF InjectorStep, InjectorStarts, OutageBegins, Runs, loopVars, callVars
<1>3. CASE /\ now = 0 /\ outage' = outage
           /\ deadline' = [deadline EXCEPT ![Injector] = now + OutageAt]
  <2>1. SimulationTypeOK' /\ OneSection' /\ AllAhead' /\ LoopOnSchedule'
    BY <1>1, <1>2, <1>3
       DEF SimulationTypeOK, ClockTypeOK, OneSection, AllAhead, Waiting, LoopOnSchedule
  <2>2. InjectorPhases'
    BY <1>1, <1>2, <1>3 DEF InjectorPhases, SimulationTypeOK, ClockTypeOK
  <2>3. CallPhases' /\ NothingForgotten'
    BY <1>1, <1>2, <1>3, CallsUntouched DEF SimulationTypeOK, ClockTypeOK
  <2> QED
    BY <1>2, <2>1, <2>2, <2>3, RowsUntouched DEF IInv
<1>4. CASE now > 0 /\ outage' = now + OutageS /\ deadline' = deadline
  <2>1. SimulationTypeOK' /\ OneSection' /\ AllAhead' /\ LoopOnSchedule'
    BY <1>1, <1>2, <1>4
       DEF SimulationTypeOK, ClockTypeOK, OneSection, AllAhead, Waiting, LoopOnSchedule
  <2>2. InjectorPhases'
    BY <1>1, <1>2, <1>4 DEF InjectorPhases, SimulationTypeOK, ClockTypeOK
  <2>3. CallPhases' /\ NothingForgotten'
    BY <1>2, <1>4, CallsUntouched
  <2> QED
    BY <1>2, <2>1, <2>2, <2>3, RowsUntouched DEF IInv
<1> QED
  BY <1>3, <1>4
     DEF InjectorStep, InjectorStarts, OutageBegins, OutageUntil, Sleep, loopVars

LEMMA EndKeeps ==
  ASSUME IInv, CancelLoop \/ CancelCalls
  PROVE  IInv'
<1> USE Constants
<1>1. SimulationTypeOK /\ OneSection /\ AllAhead /\ LoopOnSchedule /\ InjectorPhases
  BY DEF IInv
<1>2. CASE CancelLoop
  <2>1. /\ UNCHANGED <<now, ready, ticks, rows, outage, callVars>>
        /\ UNCHANGED <<life, line, held, out, reported>>
        /\ deadline' = [deadline EXCEPT ![Loop] = Awake]
        /\ loop' \in {"dead", "cancelled"} /\ driver' \in {"failed", "cancelling"}
        /\ critical' = IF loop = "working" THEN critical - 1 ELSE critical
    BY <1>2 DEF CancelLoop, Leave, callVars
  <2>2. SimulationTypeOK' /\ OneSection' /\ AllAhead' /\ InjectorPhases' /\ LoopOnSchedule'
    BY <1>1, <2>1
       DEF SimulationTypeOK, ClockTypeOK, OneSection, AllAhead, Waiting, InjectorPhases,
           LoopOnSchedule
  <2>3. CallPhases' /\ NothingForgotten'
    BY <1>1, <2>1, CallsUntouched DEF SimulationTypeOK, ClockTypeOK
  <2>5. RowPerTick /\ DriverPhases
    BY DEF IInv
  <2>6. ASSUME loop # "dead"
        PROVE  End <= (rows + 1) * TickS
    <3>1. End <= now /\ End > 0
      BY <1>2, <2>5, <2>6 DEF CancelLoop, DriverPhases
    <3>2. CASE loop = "sleeping"
      <4>1. deadline[Loop] = (ticks + 1) * TickS /\ ticks = rows
        BY <1>1, <1>2, <2>5, <3>2 DEF CancelLoop, LoopOnSchedule, RowPerTick
      <4>2. now < deadline[Loop]
        BY <1>1, <4>1 DEF AllAhead, Waiting, SimulationTypeOK, ClockTypeOK
      <4> QED
        BY <1>1, <3>1, <4>1, <4>2 DEF SimulationTypeOK, ClockTypeOK
    <3>3. CASE loop = "working"
      BY <1>1, <2>5, <3>1, <3>3 DEF LoopOnSchedule, RowPerTick
    <3>4. loop # "new" /\ loop # "cancelled"
      BY <1>1, <1>2, <2>5, <3>1 DEF LoopOnSchedule, DriverPhases, CancelLoop
    <3> QED
      BY <1>1, <2>6, <3>2, <3>3, <3>4 DEF SimulationTypeOK
  <2>7. RowPerTick'
    BY <2>1, <2>5, <2>6, <1>2 DEF RowPerTick, CancelLoop
  <2>8. DriverPhases'
    BY <1>2, <2>1, <2>5 DEF DriverPhases, CancelLoop
  <2> QED
    BY <2>2, <2>3, <2>7, <2>8 DEF IInv
<1>3. CASE CancelCalls
  <2>1. /\ UNCHANGED <<now, critical, loop, ticks, rows, outage, line, held, out, reported>>
        /\ deadline' = [t \in Task |-> IF t \in Call THEN Awake ELSE deadline[t]]
        /\ ready' = ready \ Call /\ driver' = "closed" /\ driver = "cancelling"
        /\ life' = [c \in Call |-> IF life[c] = "running" THEN "cancelled" ELSE life[c]]
    BY <1>3 DEF CancelCalls, loopVars
  <2>2. SimulationTypeOK' /\ OneSection' /\ AllAhead' /\ InjectorPhases'
    BY <1>1, <2>1
       DEF SimulationTypeOK, ClockTypeOK, OneSection, AllAhead, Waiting, InjectorPhases
  <2>3. LoopOnSchedule'
    BY <1>1, <2>1 DEF LoopOnSchedule
  <2>4. CallPhases'
    BY <1>1, <2>1 DEF IInv, CallPhases, SimulationTypeOK, ClockTypeOK
  <2>5. NothingForgotten'
    BY <1>1, <2>1 DEF IInv, NothingForgotten, SimulationTypeOK
  <2>6. RowPerTick' /\ DriverPhases'
    BY <2>1 DEF IInv, RowPerTick, DriverPhases
  <2> QED
    BY <2>2, <2>3, <2>4, <2>5, <2>6 DEF IInv
<1> QED
  BY <1>2, <1>3

-----------------------------------------------------------------------------
(* Then the steps of a call's lifecycle.                                       *)

LEMMA PlaceCallKeeps ==
  ASSUME IInv, NEW c \in Call, PlaceCall(c)
  PROVE  IInv'
<1> USE Constants
<1>1. /\ SimulationTypeOK /\ OneSection /\ AllAhead /\ LoopOnSchedule /\ InjectorPhases
      /\ CallPhases /\ NothingForgotten
  BY DEF IInv
<1>2. /\ life[c] = "none" /\ life' = [life EXCEPT ![c] = "running"] /\ ready' = ready \cup {c}
      /\ UNCHANGED <<now, deadline, critical, driver, loop, ticks, rows, outage>>
      /\ UNCHANGED <<line, held, out, reported>>
  BY DEF PlaceCall, loopVars
<1>3. SimulationTypeOK' /\ OneSection' /\ AllAhead' /\ InjectorPhases' /\ LoopOnSchedule'
  BY <1>1, <1>2
     DEF SimulationTypeOK, ClockTypeOK, OneSection, AllAhead, Waiting, InjectorPhases,
         LoopOnSchedule
<1>4. line[c] = "idle" /\ Phone!Happened("idle") = {}
  BY <1>1, <1>2 DEF CallPhases, Phone!Happened
<1>5. out[c] = <<>>
  BY <1>1, <1>4 DEF CallPhases
<1>6. CallPhases'
  BY <1>1, <1>2, <1>5 DEF CallPhases, SimulationTypeOK
<1>7. NothingForgotten'
  BY <1>1, <1>2 DEF NothingForgotten, SimulationTypeOK
<1> QED
  BY <1>2, <1>3, <1>6, <1>7, RowsUntouched DEF IInv

\* What a call's own step leaves alone, and how it ends: in a sleep, at the end of
\* its life, or with something to deliver.
CallsOwn(c, ready_) ==
  /\ UNCHANGED <<now, critical, driver, loop, ticks, rows, outage>>
  /\ ready' = ready_
  /\ \/ /\ out'[c] = <<>> /\ life' = life
        /\ \E s \in Nat \ {0} : deadline' = [deadline EXCEPT ![c] = now + s]
     \/ /\ out'[c] = <<>> /\ deadline' = deadline
        /\ line'[c] \notin {"ringing", "answered"} /\ life' = [life EXCEPT ![c] = "over"]
     \/ out'[c] # <<>> /\ UNCHANGED <<deadline, life>>

LEMMA SettleFacts ==
  ASSUME NEW c \in Call, NEW state, Settle(c, state)
  PROVE  \/ life' = life /\ \E s \in Nat \ {0} : deadline' = [deadline EXCEPT ![c] = now + s]
         \/ /\ deadline' = deadline /\ life' = [life EXCEPT ![c] = "over"]
            /\ state \notin {"ringing", "answered"}
<1> USE Constants
<1>1. CASE state = "ringing"
  BY <1>1 DEF Settle, Sleep
<1>2. CASE state = "answered"
  BY <1>2 DEF Settle, Sleep
<1>3. CASE state \notin {"ringing", "answered"}
  BY <1>3 DEF Settle
<1> QED
  BY <1>1, <1>2, <1>3

\* Such a step keeps what the invariant says of the clock, the loop and the injector.
LEMMA OwnKeeps ==
  ASSUME IInv, NEW c \in Call, life[c] = "running",
         NEW ready_ \in SUBSET Task, ready_ \in {ready, ready \ {c}}, CallsOwn(c, ready_)
  PROVE  /\ ClockTypeOK' /\ OneSection' /\ AllAhead' /\ LoopOnSchedule' /\ InjectorPhases'
         /\ life' \in [Call -> {"none", "running", "over", "cancelled"}]
         /\ \A d \in Call \ {c} : deadline'[d] = deadline[d] /\ life'[d] = life[d]
         /\ deadline'[c] = deadline[c] \/ (out'[c] = <<>> /\ life'[c] = "running")
         /\ \/ life'[c] = "running"
            \/ /\ life'[c] = "over" /\ out'[c] = <<>>
               /\ line'[c] \notin {"ringing", "answered"}
<1> USE Constants
<1>1. /\ SimulationTypeOK /\ OneSection /\ AllAhead /\ LoopOnSchedule /\ InjectorPhases
  BY DEF IInv
<1>2. /\ UNCHANGED <<now, critical, driver, loop, ticks, rows, outage>>
      /\ ready' = ready_ /\ \A t \in {Loop, Injector} : t \in ready' <=> t \in ready
  BY DEF CallsOwn
<1>3. CASE /\ out'[c] = <<>> /\ life' = life
           /\ \E s \in Nat \ {0} : deadline' = [deadline EXCEPT ![c] = now + s]
  <2>1. PICK s \in Nat \ {0} : deadline' = [deadline EXCEPT ![c] = now + s]
    BY <1>3
  <2>2. ClockTypeOK' /\ OneSection' /\ AllAhead'
    BY <1>1, <1>2, <2>1 DEF SimulationTypeOK, ClockTypeOK, OneSection, AllAhead, Waiting
  <2>3. \A t \in Task \ {c} : deadline'[t] = deadline[t]
    BY <1>1, <2>1 DEF SimulationTypeOK, ClockTypeOK
  <2>4. LoopOnSchedule' /\ InjectorPhases'
    BY <1>1, <1>2, <2>3 DEF LoopOnSchedule, InjectorPhases
  <2>5. life' \in [Call -> {"none", "running", "over", "cancelled"}]
    BY <1>1, <1>3 DEF SimulationTypeOK
  <2>6. \A d \in Call \ {c} : deadline'[d] = deadline[d] /\ life'[d] = life[d]
    BY <1>3, <2>3
  <2>7. out'[c] = <<>> /\ life'[c] = "running"
    BY <1>3
  <2> QED
    BY <2>2, <2>4, <2>5, <2>6, <2>7
<1>4. CASE deadline' = deadline
  <2>1. /\ ClockTypeOK' /\ OneSection' /\ AllAhead' /\ LoopOnSchedule' /\ InjectorPhases'
    BY <1>1, <1>2, <1>4
       DEF SimulationTypeOK, ClockTypeOK, OneSection, AllAhead, Waiting, LoopOnSchedule,
           InjectorPhases
  <2>2. life \in [Call -> {"none", "running", "over", "cancelled"}]
    BY <1>1 DEF SimulationTypeOK
  <2>3. \/ life' = life
        \/ /\ life' = [life EXCEPT ![c] = "over"] /\ out'[c] = <<>>
           /\ line'[c] \notin {"ringing", "answered"}
    BY DEF CallsOwn
  <2>4. CASE life' = life
    BY <1>4, <2>1, <2>2, <2>4
  <2>5. CASE /\ life' = [life EXCEPT ![c] = "over"] /\ out'[c] = <<>>
             /\ line'[c] \notin {"ringing", "answered"}
    <3>1. life' \in [Call -> {"none", "running", "over", "cancelled"}] /\ life'[c] = "over"
      BY <2>2, <2>5
    <3>2. \A d \in Call \ {c} : life'[d] = life[d]
      BY <2>2, <2>5
    <3> QED
      BY <1>4, <2>1, <2>5, <3>1, <3>2
  <2> QED
    BY <2>3, <2>4, <2>5
<1> QED
  BY <1>3, <1>4 DEF CallsOwn

\* A call proceeds to a state in which one thing more has happened.
LEMMA ProceedKeeps ==
  ASSUME IInv, NEW c \in Call, NEW from, NEW to \in Phone!LineState \ {"idle"}, NEW e, NEW ems,
         Proceed(c, from, to, ems),
         Phone!Happened(to) = Phone!Happened(from) \cup {e}, e \in EventType,
         \/ to \in {"ringing", "answered"} /\ ems = Emit(c, e)
         \/ to \in {"completed", "unanswered"} /\ ems = EmitLast(c, e)
  PROVE  IInv'
<1> USE Constants
<1> DEFINE H == Phone!Happened(to)
<1>1. /\ SimulationTypeOK /\ CallPhases /\ NothingForgotten
  BY DEF IInv
<1>2. /\ life[c] = "running" /\ line[c] = from /\ c \in ready
      /\ ready' = ready \ {c} /\ line' = [line EXCEPT ![c] = to]
      /\ UNCHANGED <<now, critical, driver, loop, ticks, rows, outage, reported>>
  BY DEF Proceed, Runs, loopVars
<1>3. PICK em \in ems : /\ held' = [held EXCEPT ![c] = em.held]
                        /\ out' = [out EXCEPT ![c] = em.out]
                        /\ IF em.out = <<>> THEN Settle(c, to) ELSE UNCHANGED <<deadline, life>>
  BY DEF Proceed, SlotOf
<1>4. held[c] \in H \cup {Nothing} /\ e \in H /\ out[c] = <<>>
  BY <1>1, <1>2 DEF CallPhases
<1>5. /\ em.held \in H \cup {Nothing} /\ em.out \in Seq(H)
      /\ \A x \in {e, held[c]} \ {Nothing} : Carries(em, x)
      /\ to \in {"completed", "unanswered"} => em.held = Nothing
  <2>1. CASE to \in {"ringing", "answered"}
    <3>1. em \in Emissions(held[c], e)
      BY <1>3, <2>1 DEF Emit, SlotOf
    <3> HIDE DEF H
    <3> QED
      BY <1>4, <2>1, <3>1, EmissionFacts
  <2>2. CASE to \in {"completed", "unanswered"}
    <3>1. em \in EmitLast(c, e)
      BY <1>3, <2>2
    <3> HIDE DEF H
    <3> QED
      BY <1>4, <3>1, LastFacts
  <2> QED
    BY <2>1, <2>2
<1>6. /\ line \in [Call -> Phone!LineState] /\ held \in [Call -> EventType \cup {Nothing}]
      /\ out \in [Call -> Seq(EventType)]
  BY <1>1 DEF SimulationTypeOK
<1>7. /\ line'[c] = to /\ held'[c] = em.held /\ out'[c] = em.out
      /\ \A d \in Call \ {c} : line'[d] = line[d] /\ held'[d] = held[d] /\ out'[d] = out[d]
  BY <1>2, <1>3, <1>6
<1>8. CallsOwn(c, ready \ {c})
  BY <1>2, <1>3, <1>7, SettleFacts DEF CallsOwn
<1>9. /\ ClockTypeOK' /\ OneSection' /\ AllAhead' /\ LoopOnSchedule' /\ InjectorPhases'
      /\ life' \in [Call -> {"none", "running", "over", "cancelled"}]
      /\ \A d \in Call \ {c} : deadline'[d] = deadline[d] /\ life'[d] = life[d]
      /\ deadline'[c] = deadline[c] \/ (out'[c] = <<>> /\ life'[c] = "running")
      /\ \/ life'[c] = "running"
         \/ /\ life'[c] = "over" /\ out'[c] = <<>>
            /\ line'[c] \notin {"ringing", "answered"}
  <2>1. ready \ {c} \in SUBSET Task
    BY <1>1 DEF SimulationTypeOK, ClockTypeOK
  <2> QED
    BY <1>2, <1>8, <2>1, OwnKeeps
<1>10. H \subseteq EventType
  BY DEF Phone!Happened, Phone!LineState, EventType
<1>11. SimulationTypeOK'
  <2>1. em.held \in EventType \cup {Nothing} /\ em.out \in Seq(EventType)
    BY <1>5, <1>10
  <2> QED
    BY <1>1, <1>2, <1>3, <1>6, <1>9, <2>1 DEF SimulationTypeOK
<1> HIDE DEF H
<1>12. CallPhases'
  <2> SUFFICES ASSUME NEW d \in Call
               PROVE  /\ life'[d] = "none" => deadline'[d] = Awake /\ d \notin ready' /\ line'[d] = "idle"
                      /\ d \in ready' => out'[d] = <<>> /\ deadline'[d] = Awake
                      /\ deadline'[d] # Awake => out'[d] = <<>>
                      /\ held'[d] \in Phone!Happened(line'[d]) \cup {Nothing}
                      /\ out'[d] \in Seq(Phone!Happened(line'[d]))
    BY DEF CallPhases
  <2>1. CASE d = c
    <3>1. deadline'[c] # Awake => out'[c] = <<>>
      BY <1>1, <1>2, <1>9 DEF CallPhases
    <3> QED
      BY <1>2, <1>5, <1>7, <1>9, <2>1, <3>1 DEF H
  <2>2. CASE d # c
    BY <1>1, <1>2, <1>7, <1>9, <2>2 DEF CallPhases
  <2> QED
    BY <2>1, <2>2
<1>13. NothingForgotten'
  <2> SUFFICES ASSUME NEW d \in Call
               PROVE  /\ \A x \in Phone!Happened(line'[d]) :
                           \/ <<d, x>> \in reported'
                           \/ held'[d] = x
                           \/ \E i \in 1..Len(out'[d]) : out'[d][i] = x
                      /\ line'[d] \in {"completed", "unanswered"} => held'[d] = Nothing
                      /\ life'[d] = "over" =>
                           line'[d] \in {"completed", "unanswered"} /\ out'[d] = <<>>
    BY DEF NothingForgotten
  <2>1. CASE d = c
    <3>1. ASSUME NEW x \in H
          PROVE  \/ <<c, x>> \in reported
                 \/ em.held = x
                 \/ \E i \in 1..Len(em.out) : em.out[i] = x
      <4>1. CASE <<c, x>> \in reported
        BY <4>1
      <4>2. CASE x \in {e, held[c]} /\ x # Nothing
        BY <1>5, <4>2 DEF Carries
      <4>3. x # Nothing
        BY <1>10
      <4>4. x = e \/ x \in Phone!Happened(from)
        BY DEF H
      <4>5. CASE x \in Phone!Happened(from)
        <5>1. \/ <<c, x>> \in reported
              \/ held[c] = x
              \/ \E i \in 1..Len(out[c]) : out[c][i] = x
          BY <1>1, <1>2, <4>5 DEF NothingForgotten
        <5>2. Len(out[c]) = 0
          BY <1>4
        <5> QED
          BY <4>1, <4>2, <4>3, <5>1, <5>2
      <4> QED
        BY <4>2, <4>3, <4>4, <4>5
    <3>2. life'[c] = "over" => to \in {"completed", "unanswered"} /\ out'[c] = <<>>
      BY <1>7, <1>9 DEF Phone!LineState
    <3> QED
      BY <1>2, <1>5, <1>7, <2>1, <3>1, <3>2 DEF H
  <2>2. CASE d # c
    BY <1>1, <1>2, <1>7, <1>9, <2>2 DEF NothingForgotten
  <2> QED
    BY <2>1, <2>2
<1> QED
  BY <1>2, <1>9, <1>11, <1>12, <1>13, RowsUntouched DEF IInv

LEMMA CallKeeps ==
  ASSUME IInv, NEW c \in Call, Rings(c) \/ Answers(c) \/ NoAnswer(c) \/ HangsUp(c)
  PROVE  IInv'
<1> USE DEF Phone!Happened, Phone!LineState, EventType
<1>1. CASE Rings(c)
  BY <1>1, ProceedKeeps DEF Rings
<1>2. CASE Answers(c)
  BY <1>2, ProceedKeeps DEF Answers
<1>3. CASE NoAnswer(c)
  BY <1>3, ProceedKeeps DEF NoAnswer
<1>4. CASE HangsUp(c)
  BY <1>4, ProceedKeeps DEF HangsUp
<1> QED
  BY <1>1, <1>2, <1>3, <1>4

LEMMA DeliverKeeps ==
  ASSUME IInv, NEW c \in Call, Deliver(c)
  PROVE  /\ IInv'
         /\ Head(out[c]) \in Phone!Happened(line[c])
         /\ reported' = reported \cup {<<c, Head(out[c])>>} /\ line' = line
<1> USE Constants
<1> DEFINE H == Phone!Happened(line[c])
           q == out[c]
<1>1. /\ SimulationTypeOK /\ CallPhases /\ NothingForgotten
  BY DEF IInv
<1>2. /\ life[c] = "running" /\ q # <<>> /\ reported' = reported \cup {<<c, Head(q)>>}
      /\ out' = [out EXCEPT ![c] = Tail(q)]
      /\ IF Len(q) = 1 THEN Settle(c, line[c]) ELSE UNCHANGED <<deadline, life>>
      /\ UNCHANGED <<now, ready, critical, driver, loop, ticks, rows, outage, line, held>>
  BY DEF Deliver, loopVars
<1>3. /\ line \in [Call -> Phone!LineState] /\ held \in [Call -> EventType \cup {Nothing}]
      /\ out \in [Call -> Seq(EventType)]
  BY <1>1 DEF SimulationTypeOK
<1>4. q \in Seq(H) /\ H \subseteq EventType
  BY <1>1, <1>3 DEF CallPhases, Phone!Happened, Phone!LineState, EventType
<1> HIDE DEF H, q
<1>5. /\ Head(q) \in H /\ Tail(q) \in Seq(H) /\ Head(q) = q[1]
      /\ Len(q) \in Nat \ {0} /\ Len(Tail(q)) = Len(q) - 1
      /\ \A i \in 1..Len(Tail(q)) : Tail(q)[i] = q[i + 1]
  BY <1>2, <1>4
<1>6. /\ out'[c] = Tail(q) /\ \A d \in Call \ {c} : out'[d] = out[d]
  BY <1>2, <1>3
<1>7. CallsOwn(c, ready)
  <2>1. CASE Len(q) = 1
    <3>1. Len(Tail(q)) = 0
      BY <1>5, <2>1
    <3>2. Tail(q) = <<>>
      BY <1>5, <3>1, EmptySeq, Zenon
    <3> QED
      BY <1>2, <1>6, <2>1, <3>2, SettleFacts DEF CallsOwn
  <2>2. CASE Len(q) # 1
    <3>1. Len(Tail(q)) # 0
      BY <1>5, <2>2
    <3>2. Tail(q) # <<>>
      BY <1>5, <3>1, EmptySeq, Zenon
    <3> QED
      BY <1>2, <1>6, <2>2, <3>2 DEF CallsOwn
  <2> QED
    BY <2>1, <2>2
<1>8. /\ ClockTypeOK' /\ OneSection' /\ AllAhead' /\ LoopOnSchedule' /\ InjectorPhases'
      /\ life' \in [Call -> {"none", "running", "over", "cancelled"}]
      /\ \A d \in Call \ {c} : deadline'[d] = deadline[d] /\ life'[d] = life[d]
      /\ deadline'[c] = deadline[c] \/ (out'[c] = <<>> /\ life'[c] = "running")
      /\ \/ life'[c] = "running"
         \/ /\ life'[c] = "over" /\ out'[c] = <<>>
            /\ line'[c] \notin {"ringing", "answered"}
  <2>1. ready \in SUBSET Task
    BY <1>1 DEF SimulationTypeOK, ClockTypeOK
  <2> QED
    BY <1>2, <1>7, <2>1, OwnKeeps
<1>9. SimulationTypeOK'
  <2>1. Tail(q) \in Seq(EventType) /\ Head(q) \in EventType
    BY <1>4, <1>5
  <2> QED
    BY <1>1, <1>2, <1>3, <1>8, <2>1 DEF SimulationTypeOK
<1>10. c \notin ready /\ deadline[c] = Awake
  BY <1>1, <1>2 DEF CallPhases, q
<1>11. CallPhases'
  <2> SUFFICES ASSUME NEW d \in Call
               PROVE  /\ life'[d] = "none" => deadline'[d] = Awake /\ d \notin ready' /\ line'[d] = "idle"
                      /\ d \in ready' => out'[d] = <<>> /\ deadline'[d] = Awake
                      /\ deadline'[d] # Awake => out'[d] = <<>>
                      /\ held'[d] \in Phone!Happened(line'[d]) \cup {Nothing}
                      /\ out'[d] \in Seq(Phone!Happened(line'[d]))
    BY DEF CallPhases
  <2>1. CASE d = c
    <3>1. /\ line'[d] = line[c] /\ held'[d] = held[c] /\ out'[d] = Tail(q) /\ d \notin ready'
          /\ life'[d] # "none"
      BY <1>2, <1>6, <1>8, <1>10, <2>1
    <3>2. held[c] \in H \cup {Nothing} /\ Tail(q) \in Seq(H)
      BY <1>1, <1>5 DEF CallPhases, H
    <3>3. deadline'[d] # Awake => out'[d] = <<>>
      BY <1>8, <1>10, <2>1
    <3> QED
      BY <3>1, <3>2, <3>3 DEF H
  <2>2. CASE d # c
    BY <1>1, <1>2, <1>6, <1>8, <2>2 DEF CallPhases
  <2> QED
    BY <2>1, <2>2
<1>12. NothingForgotten'
  <2> SUFFICES ASSUME NEW d \in Call
               PROVE  /\ \A x \in Phone!Happened(line'[d]) :
                           \/ <<d, x>> \in reported'
                           \/ held'[d] = x
                           \/ \E i \in 1..Len(out'[d]) : out'[d][i] = x
                      /\ line'[d] \in {"completed", "unanswered"} => held'[d] = Nothing
                      /\ life'[d] = "over" =>
                           line'[d] \in {"completed", "unanswered"} /\ out'[d] = <<>>
    BY DEF NothingForgotten
  <2>1. CASE d = c
    <3>1. ASSUME NEW x \in H
          PROVE  \/ <<c, x>> \in reported'
                 \/ held[c] = x
                 \/ \E i \in 1..Len(Tail(q)) : Tail(q)[i] = x
      <4>1. \/ <<c, x>> \in reported
            \/ held[c] = x
            \/ \E i \in 1..Len(q) : q[i] = x
        BY <1>1 DEF NothingForgotten, H, q
      <4>2. ASSUME NEW i \in 1..Len(q), q[i] = x, i # 1
            PROVE  \E j \in 1..Len(Tail(q)) : Tail(q)[j] = x
        <5>1. i - 1 \in 1..Len(Tail(q)) /\ Tail(q)[i - 1] = q[(i - 1) + 1]
          BY <1>5, <4>2
        <5>2. (i - 1) + 1 = i
          BY <4>2
        <5> QED
          BY <4>2, <5>1, <5>2
      <4> QED
        BY <1>2, <1>5, <4>1, <4>2
    <3>2. line[c] # "idle"
      BY <1>5 DEF H, Phone!Happened
    <3>3. life'[c] = "over" => line[c] \in {"completed", "unanswered"} /\ out'[c] = <<>>
      BY <1>2, <1>3, <1>8, <3>2 DEF Phone!LineState
    <3>4. /\ line'[d] = line[c] /\ held'[d] = held[c] /\ out'[d] = Tail(q)
      BY <1>2, <1>6, <2>1
    <3>5. line[c] \in {"completed", "unanswered"} => held[c] = Nothing
      BY <1>1 DEF NothingForgotten
    <3> QED
      BY <2>1, <3>1, <3>3, <3>4, <3>5 DEF H
  <2>2. CASE d # c
    BY <1>1, <1>2, <1>6, <1>8, <2>2 DEF NothingForgotten
  <2> QED
    BY <2>1, <2>2
<1> QED
  BY <1>2, <1>5, <1>8, <1>9, <1>11, <1>12, RowsUntouched DEF IInv, H, q

LEMMA NextInv == IInv /\ [Next]_vars => IInv'
<1> SUFFICES ASSUME IInv, [Next]_vars PROVE IInv'
  OBVIOUS
<1>1. CASE LoopStep
  BY <1>1, LoopKeeps
<1>2. CASE InjectorStep
  BY <1>2, InjectorKeeps
<1>3. CASE Running
  BY <1>3, DriveKeeps
<1>4. CASE CancelLoop \/ CancelCalls
  BY <1>4, EndKeeps
<1>5. ASSUME NEW c \in Call, PlaceCall(c) PROVE IInv'
  BY <1>5, PlaceCallKeeps
<1>6. ASSUME NEW c \in Call, CallStep(c) PROVE IInv'
  BY <1>6, CallKeeps, DeliverKeeps DEF CallStep
<1>7. CASE UNCHANGED vars
  <2>1. /\ UNCHANGED <<now, deadline, ready, critical, driver, loop, ticks, rows, outage>>
        /\ UNCHANGED <<life, line, held, out, reported>>
    BY <1>7 DEF vars, clockVars, loopVars, callVars
  <2> QED
    BY <2>1
       DEF IInv, SimulationTypeOK, ClockTypeOK, OneSection, AllAhead, Waiting, LoopOnSchedule,
           InjectorPhases, CallPhases, NothingForgotten, RowPerTick, DriverPhases
<1> QED
  BY <1>1, <1>2, <1>3, <1>4, <1>5, <1>6, <1>7 DEF Next

-----------------------------------------------------------------------------
(* The theorems.                                                               *)

THEOREM InvariantHolds == Spec => []IInv
<1> QED
  BY InitInv, NextInv, PTL DEF Spec

\* Every variable has a value of its type: for the simulator of clock.py, runner.py
\* and mock_a.py, and any constants.
THEOREM TypesHold == Spec => []SimulationTypeOK
<1>1. IInv => SimulationTypeOK
  BY DEF IInv
<1> QED
  BY <1>1, InvariantHolds, PTL

\* However long a tick's I/O takes, tick k is at k times tick_s from its begin to
\* its end: what run_until's critical sections are for.
THEOREM TicksHoldTheClock == Spec => []TicksOnSchedule
<1>1. IInv => TicksOnSchedule
  BY DEF IInv, LoopOnSchedule, TicksOnSchedule
<1> QED
  BY <1>1, InvariantHolds, PTL

\* Every sleep on the virtual clock ends exactly at its deadline.
THEOREM SleepersWakeOnTime == Spec => WokenOnTime
<1>1. ASSUME IInv, [Next]_vars
      PROVE  [\A t \in Task : t \notin ready /\ t \in ready' /\ deadline[t] # Awake =>
                 now' = deadline[t]]_clockVars
  <2> DEFINE OnTime == \A t \in Task : t \notin ready /\ t \in ready' /\ deadline[t] # Awake =>
                         now' = deadline[t]
  <2>1. SimulationTypeOK /\ CallPhases
    BY <1>1 DEF IInv
  <2>2. CASE ready' \subseteq ready
    BY <2>2
  <2>3. CASE Jump
    <3>1. ClockTypeOK
      BY <2>1 DEF SimulationTypeOK
    <3> QED
      BY <2>3, <3>1, JumpFacts DEF Waiting
  <2>4. ASSUME NEW c \in Call, PlaceCall(c) PROVE OnTime
    BY <2>1, <2>4 DEF PlaceCall, CallPhases
  <2>5. CASE Running
    BY <2>2, <2>3, <2>5 DEF Running, Drive, Advance, LookForWaiter, FindWaiter, GiveUp, Resume
  <2>6. CASE LoopStep \/ InjectorStep
    BY <2>2, <2>6
       DEF LoopStep, LoopStarts, TickBegins, TickEnds, TickRaises, InjectorStep, InjectorStarts,
           OutageBegins, Runs
  <2>7. CASE CancelLoop \/ CancelCalls
    BY <2>2, <2>7 DEF CancelLoop, CancelCalls
  <2>8. ASSUME NEW c \in Call, CallStep(c) PROVE OnTime
    BY <2>2, <2>8
       DEF CallStep, Rings, Answers, NoAnswer, HangsUp, Proceed, Runs, Deliver
  <2>9. CASE UNCHANGED vars
    BY <2>9 DEF vars
  <2> QED
    BY <1>1, <2>4, <2>5, <2>6, <2>7, <2>8, <2>9 DEF Next
<1> QED
  BY <1>1, InvariantHolds, PTL DEF Spec, WokenOnTime

\* No call is placed while the injected outage lasts, wherever the ticks fall.
THEOREM OutageIsRespected == Spec => NoCallInOutage
<1> DEFINE Placed == \A c \in Call : life[c] = "none" /\ life'[c] # "none" =>
                       ~(OutageAt <= now /\ now < OutageAt + OutageS)
<1>1. ASSUME IInv, [Next]_vars
      PROVE  [Placed]_vars
  <2>1. SimulationTypeOK /\ CallPhases /\ InjectorPhases /\ AllAhead
    BY <1>1 DEF IInv
  <2>2. CASE life' = life
    BY <2>2
  <2>3. ASSUME NEW c \in Call, PlaceCall(c) PROVE Placed
    <3>1. Injector \notin ready /\ now >= outage
      BY <2>3, Constants DEF PlaceCall, IODone
    <3>2. Injector \in Waiting => now < deadline[Injector]
      BY <2>1 DEF AllAhead
    <3>3. ~(OutageAt <= now /\ now < OutageAt + OutageS)
      BY <2>1, <3>1, <3>2, Constants
         DEF InjectorPhases, Waiting, SimulationTypeOK, ClockTypeOK
    <3> QED
      BY <3>3
  <2>4. CASE LoopStep \/ InjectorStep \/ Running \/ CancelLoop
    BY <2>2, <2>4
       DEF LoopStep, LoopStarts, TickBegins, TickEnds, TickRaises, InjectorStep, InjectorStarts,
           OutageBegins, Running, CancelLoop, callVars
  <2>5. CASE CancelCalls
    BY <2>5 DEF CancelCalls
  <2>6. ASSUME NEW c \in Call, CallStep(c) PROVE Placed
    <3>1. life[c] = "running" /\ (life' = life \/ life' = [life EXCEPT ![c] = "over"])
      BY <2>6, SettleFacts
         DEF CallStep, Rings, Answers, NoAnswer, HangsUp, Proceed, Deliver
    <3> QED
      BY <2>1, <3>1 DEF SimulationTypeOK
  <2>7. CASE UNCHANGED vars
    BY <2>7 DEF vars
  <2> QED
    BY <1>1, <2>3, <2>4, <2>5, <2>6, <2>7 DEF Next
<1> QED
  BY <1>1, InvariantHolds, PTL DEF Spec, NoCallInOutage

\* A lifecycle of the mock that lived to its end has reported all that happened:
\* _emit's held event is never forgotten.
THEOREM NoEventIsForgotten == Spec => []EndedCallsAreReported
<1>1. IInv => EndedCallsAreReported
  <2> SUFFICES ASSUME IInv, NEW c \in Call, life[c] = "over",
                      NEW type \in Phone!Happened(line[c])
               PROVE  <<c, type>> \in reported
    BY DEF EndedCallsAreReported
  <2>1. line \in [Call -> Phone!LineState]
    BY DEF IInv, SimulationTypeOK
  <2>2. /\ line[c] \in {"completed", "unanswered"} /\ out[c] = <<>> /\ held[c] = Nothing
        /\ \/ <<c, type>> \in reported
           \/ held[c] = type
           \/ \E i \in 1..Len(out[c]) : out[c][i] = type
    BY DEF IInv, NothingForgotten
  <2>3. type \in EventType /\ Len(out[c]) = 0
    BY <2>1, <2>2 DEF Phone!Happened, EventType
  <2> QED
    BY <2>2, <2>3, Constants
<1> QED
  BY <1>1, InvariantHolds, PTL

\* run_scenario, when its loop has not died, has a row of every tick before the end
\* of the run, and of none after it.
THEOREM RowsAreComplete == Spec => []EveryTickRecorded
<1>1. IInv => EveryTickRecorded
  <2> SUFFICES ASSUME IInv, driver = "closed" PROVE rows = (End - 1) \div TickS
    BY DEF EveryTickRecorded
  <2>1. rows \in Nat /\ rows * TickS < End /\ End <= (rows + 1) * TickS
    BY DEF IInv, DriverPhases, RowPerTick, SimulationTypeOK
  <2> QED
    BY <2>1, Division, Constants
<1> QED
  BY <1>1, InvariantHolds, PTL

\* The mock is one of the providers the core is made for: it reports of a line only
\* what has happened on it.
THEOREM TheMockIsAProvider == Spec => MockIsAProvider
<1>1. Init => Phone!PhoneInit
  BY DEF Init
<1>2. ASSUME IInv, [Next]_vars
      PROVE  [Phone!PhoneNext]_Phone!phoneVars
  <2>1. CASE UNCHANGED <<line, reported>>
    BY <2>1 DEF Phone!phoneVars
  <2>2. ASSUME NEW c \in Call, CallStep(c) PROVE Phone!PhoneNext
    <3>1. CASE Deliver(c)
      BY <1>2, <3>1, DeliverKeeps DEF Phone!PhoneNext, Phone!Report
    <3>2. CASE Rings(c)
      BY <3>2 DEF Rings, Proceed, Phone!PhoneNext, Phone!Turn
    <3>3. CASE Answers(c)
      BY <3>3 DEF Answers, Proceed, Phone!PhoneNext, Phone!Turn
    <3>4. CASE NoAnswer(c)
      BY <3>4 DEF NoAnswer, Proceed, Phone!PhoneNext, Phone!Turn
    <3>5. CASE HangsUp(c)
      BY <3>5 DEF HangsUp, Proceed, Phone!PhoneNext, Phone!Turn
    <3> QED
      BY <2>2, <3>1, <3>2, <3>3, <3>4, <3>5 DEF CallStep
  <2>3. CASE LoopStep \/ InjectorStep \/ Running \/ CancelLoop \/ CancelCalls
    BY <2>1, <2>3
       DEF LoopStep, LoopStarts, TickBegins, TickEnds, TickRaises, InjectorStep, InjectorStarts,
           OutageBegins, Running, CancelLoop, CancelCalls, callVars
  <2>4. ASSUME NEW c \in Call, PlaceCall(c) PROVE UNCHANGED <<line, reported>>
    BY <2>4 DEF PlaceCall
  <2>5. CASE UNCHANGED vars
    BY <2>1, <2>5 DEF vars, callVars
  <2> QED
    BY <1>2, <2>1, <2>2, <2>3, <2>4, <2>5 DEF Next
<1> QED
  BY <1>1, <1>2, InvariantHolds, PTL DEF Spec, MockIsAProvider, Phone!PhoneSpec
=============================================================================
