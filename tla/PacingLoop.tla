---------------------------- MODULE PacingLoop ----------------------------
(* The pacing loop of every worker of a campaign: leader election by advisory  *)
(* lock, the tick - snapshot, decision, a batch of concurrent allocations, the *)
(* pullback - and the row of campaign_counters that the triggers maintain and  *)
(* the snapshot reads.  Agents and their calls are those of AgentPool, which   *)
(* the dialling core implements; while a call is live it is named by its agent.*)
EXTENDS AgentPool, SafetyRules

CONSTANTS
  Worker,     \* worker processes
  NoWorker,   \* the lock is free
  Odds,       \* 1/p for the answer-rate bounds p the estimator may give
  Talk,       \* the length of a call, in call set-up times
  Health,     \* the scores the best provider may have, in hundredths
  MaxDeaths   \* bound: how many loops die of an exception

ASSUME PacingAssumption ==
  /\ NoWorker \notin Worker
  /\ Odds \subseteq Nat \ {0}
  /\ Talk \in Nat \ {0}
  /\ Health \subseteq 0 .. 100
  /\ MaxDeaths \in Nat

ASSUME StaffAssumption == IsFiniteSet(Agent)

VARIABLES
  counters,  \* the campaign's row in campaign_counters
  active,    \* campaigns.is_active
  lock,      \* the session that holds the campaign's advisory lock
  loop,      \* worker -> its pacing loop
  calm,      \* worker -> its decisions since the last breach (history)
  deaths     \* how many loops have died of an exception

pacingVars == <<pool, counters, active, lock, loop, calm, deaths>>

-----------------------------------------------------------------------------
(* campaign_counters and its triggers.                                         *)

\* The stages a column counts: dialing and ringing count the same agents, the
\* one from the agents table and the other from calls.
Counted ==
  [available      |-> {"AVAILABLE"},
   reserved       |-> {"RESERVED"},
   dialing        |-> Ringing,
   connected      |-> {"CONNECTED"},
   wrapup         |-> {"WRAP_UP"},
   ringing        |-> Ringing,
   callsConnected |-> {"CONNECTED"}]

In(stages) == {a \in Agent : pool[a] \in stages}

\* What MetricsRepo.snapshot_naive counts.
Counts == [k \in DOMAIN Counted |-> Cardinality(In(Counted[k]))]

\* (Mistake: a row that takes another state is only counted where it arrives.)
TriggersCountArrivals(new) ==
  [k \in DOMAIN Counted |->
     counters[k]
       + Cardinality({a \in Agent : new[a] # pool[a] /\ new[a] \in Counted[k]})]

\* The triggers, for each row whose state changes: one more in the column of the
\* new state, one less in that of the old.
Triggers(new) ==
  [k \in DOMAIN Counted |->
     counters[k]
       + Cardinality({a \in Agent : new[a] # pool[a] /\ new[a] \in Counted[k]})
       - Cardinality({a \in Agent : new[a] # pool[a] /\ pool[a] \in Counted[k]})]

Counting == counters' = Triggers(pool')

-----------------------------------------------------------------------------
(* A worker's loop: where it is, whether it believes it leads, the coroutines  *)
(* of the batch still to start, the agents of the calls being placed, the      *)
(* cooldown ticks left, what the last decision saw, and the calls to cancel.   *)

\* MetricsRepo.snapshot_fast, with what the estimators and the registry add; and
\* whether the decision taken on it fell into a cooldown.
Snapshot(sampled, breach, health, cooling) ==
  [available      |-> counters.available,
   reserved       |-> counters.reserved,
   dialing        |-> counters.dialing,
   connected      |-> counters.connected,
   wrapup         |-> counters.wrapup,
   ringing        |-> counters.ringing,
   callsConnected |-> counters.callsConnected,
   active         |-> active,
   sampled        |-> sampled,
   breach         |-> breach,
   health         |-> health,
   cooling        |-> cooling]

NoSnapshot ==
  [available |-> 0, reserved |-> 0, dialing |-> 0, connected |-> 0, wrapup |-> 0,
   ringing |-> 0, callsConnected |-> 0, active |-> FALSE, sampled |-> FALSE,
   breach |-> FALSE, health |-> 0, cooling |-> FALSE]

Following ==
  [pc |-> "waiting", leader |-> FALSE, todo |-> 0, placing |-> {}, cooldown |-> 0,
   seen |-> NoSnapshot, sweep |-> {}]

PacingInit ==
  /\ pool \in [Agent -> {"AVAILABLE", "OFFLINE"}]
  /\ counters = Counts
  /\ active = TRUE
  /\ lock = NoWorker
  /\ loop = [w \in Worker |-> Following]
  /\ calm = [w \in Worker |-> CooldownTicks]
  /\ deaths = 0

\* (Mistake: the answer of try_leader is ignored.)
LeadAnyway(w) ==
  /\ ~loop[w].leader /\ loop[w].pc = "waiting"
  /\ lock' = w
  /\ loop' = [loop EXCEPT ![w].leader = TRUE]
  /\ UNCHANGED <<pool, counters, active, calm, deaths>>

\* run_forever: try_leader, when it finds the lock free.
Lead(w) ==
  /\ ~loop[w].leader /\ loop[w].pc = "waiting"
  /\ lock = NoWorker
  /\ lock' = w
  /\ loop' = [loop EXCEPT ![w].leader = TRUE]
  /\ UNCHANGED <<pool, counters, active, calm, deaths>>

\* What the worker's engine may ask for: it paces progressively or predictively.
Requests(s) == {Progressive(s)} \cup {Predictive(s, odds, Talk) : odds \in Odds}

\* What is looked at again after the decision: not the scores, nor whether the
\* campaign was active.
Kept(s) == [s EXCEPT !.health = 0, !.active = FALSE]

\* The first half of a tick: the snapshot, the engine's request and the safety
\* controller's decision.  Nothing another actor may change is read in between.
Observe(w) ==
  /\ loop[w].leader
  /\ loop[w].pc = "waiting"
  /\ \E sampled, breach \in BOOLEAN, health \in Health :
       LET s == Snapshot(sampled, breach, health, loop[w].cooldown > 0) IN
       /\ \E n \in Requests(s) :
            loop' = [loop EXCEPT ![w] =
                       [@ EXCEPT !.pc       = "allocating",
                                 !.todo     = Approved(n, s, loop[w].cooldown),
                                 !.cooldown = CooldownAfter(s, loop[w].cooldown),
                                 !.seen     = Kept(s)]]
       /\ calm' = [calm EXCEPT ![w] =
                     IF breach THEN 0 ELSE Min({@ + 1, CooldownTicks})]
  /\ UNCHANGED <<pool, counters, active, lock, deaths>>

\* allocate_batch: a coroutine of the batch reserves an agent ...
Start(w, a) ==
  /\ loop[w].todo > 0
  /\ Book(a) /\ Counting
  /\ loop' = [loop EXCEPT ![w] = [@ EXCEPT !.todo    = loop[w].todo - 1,
                                           !.placing = loop[w].placing \cup {a}]]
  /\ UNCHANGED <<active, lock, calm, deaths>>

\* ... or finds nothing to do: no agent, no borrower, no provider, too many deadlocks.
StartNothing(w) ==
  /\ loop[w].todo > 0
  /\ loop' = [loop EXCEPT ![w].todo = @ - 1]
  /\ UNCHANGED <<pool, counters, active, lock, calm, deaths>>

Return(w, a) == loop' = [loop EXCEPT ![w].placing = @ \ {a}]

\* The provider takes the call and it is recorded, or refuses it ...
Finish(w, a) ==
  /\ a \in loop[w].placing
  /\ Dial(a) \/ Refuse(a)
  /\ Counting
  /\ Return(w, a)
  /\ UNCHANGED <<active, lock, calm, deaths>>

\* ... or it cannot be recorded and is left to the reaper.
FinishUnrecorded(w, a) ==
  /\ a \in loop[w].placing
  /\ Return(w, a)
  /\ UNCHANGED <<pool, counters, active, lock, calm, deaths>>

\* asyncio.gather has them all back.
BatchDone(w) ==
  /\ loop[w].pc = "allocating"
  /\ loop[w].todo = 0
  /\ loop[w].placing = {}

TickEnds(w) ==
  loop' = [loop EXCEPT ![w] = [@ EXCEPT !.pc = "waiting", !.seen = NoSnapshot, !.sweep = {}]]

\* The second half of a tick: if more calls rang than the snapshot allows, the
\* excess of those that ring now is selected (the oldest: any of them here).
SelectExcess(w) ==
  LET seen == loop[w].seen
      excess == AtLeastZero(Cardinality(In(Ringing)) - AllowedRinging(seen))
  IN
  /\ BatchDone(w)
  /\ IF seen.ringing > AllowedRinging(seen) /\ excess > 0
     THEN \E S \in kSubset(excess, In(Ringing)) :
            loop' = [loop EXCEPT ![w] = [@ EXCEPT !.pc = "cancelling", !.sweep = S]]
     ELSE TickEnds(w)
  /\ UNCHANGED <<pool, counters, active, lock, calm, deaths>>

\* A call is over: nobody's candidate any more.
Forget(S) == loop' = [w \in Worker |-> [loop[w] EXCEPT !.sweep = @ \ S]]

\* cancel_if_not_answered.
CancelIfNotAnswered(a) == pool[a] \in Ringing /\ Lose(a)

\* The transaction of one candidate ...
CancelOne(w, a) ==
  /\ a \in loop[w].sweep
  /\ CancelIfNotAnswered(a)
  /\ Counting
  /\ Forget({a})
  /\ UNCHANGED <<active, lock, calm, deaths>>

\* ... which is passed over if it was answered, or deadlocks too often.
CancelNothing(w, a) ==
  /\ a \in loop[w].sweep
  /\ loop' = [loop EXCEPT ![w].sweep = @ \ {a}]
  /\ UNCHANGED <<pool, counters, active, lock, calm, deaths>>

Rest(w) ==
  /\ loop[w].pc = "cancelling"
  /\ loop[w].sweep = {}
  /\ TickEnds(w)
  /\ UNCHANGED <<pool, counters, active, lock, calm, deaths>>

\* (Mistake: nothing frees the lock of a loop that raised.)
StillLocked(w) == lock

\* The lock, once w has given it up.
Unlocked(w) == IF lock = w THEN NoWorker ELSE lock

Dead(w, todo, placing) ==
  loop' = [loop EXCEPT ![w] =
             [Following EXCEPT !.pc = "dead", !.todo = todo, !.placing = placing]]

\* Nothing in run_forever catches an exception: a statement of the tick that
\* fails, or a coroutine of the batch - a duplicate idempotency key, a provider's
\* unexpected error - ends the loop for good, while the worker lives on.  The
\* finally releases the lock; gather leaves the other coroutines running.
Die(w) ==
  /\ deaths < MaxDeaths
  /\ \/ /\ loop[w].pc \in {"waiting", "cancelling"} \/ BatchDone(w)
        /\ Dead(w, 0, {})
     \/ /\ loop[w].pc = "allocating" /\ loop[w].todo > 0
        /\ Dead(w, loop[w].todo - 1, loop[w].placing)
     \/ \E a \in loop[w].placing :
          loop[w].pc = "allocating" /\ Dead(w, loop[w].todo, loop[w].placing \ {a})
  /\ lock' = Unlocked(w)
  /\ deaths' = deaths + 1
  /\ UNCHANGED <<pool, counters, active, calm>>

\* The worker dies: its connections close, which frees the lock, and all it kept
\* in memory - the cooldown, too - is gone when it is back.
Crash(w) ==
  /\ loop[w].leader \/ loop[w].pc = "dead"
  /\ loop' = [loop EXCEPT ![w] = Following]
  /\ calm' = [calm EXCEPT ![w] = CooldownTicks]
  /\ lock' = Unlocked(w)
  /\ UNCHANGED <<pool, counters, active, deaths>>

\* Only the connection that holds the lock is lost; the loop never looks at it
\* again, and every other statement takes another one from the pool.
LoseLock(w) ==
  /\ lock = w
  /\ lock' = NoWorker
  /\ UNCHANGED <<pool, counters, active, loop, calm, deaths>>

-----------------------------------------------------------------------------
(* The rest of the system.                                                     *)

\* Events and the reaper: never under a coroutine that is placing the call.
Progress ==
  /\ \/ \E a \in Agent :
          \/ (Ring(a) \/ Bridge(a)) /\ UNCHANGED loop
          \/ (Complete(a) \/ Lose(a)) /\ Forget({a})
     \/ \E S \in SUBSET Agent \ {{}} :
          /\ Sweep(S)
          /\ \A w \in Worker : S \cap loop[w].placing = {}
          /\ Forget(S)
  /\ Counting
  /\ UNCHANGED <<active, lock, calm, deaths>>

\* Agents come and go while they are free, and the campaign is paused or resumed.
Staffing ==
  /\ \E a \in Agent : Logout(a) \/ Login(a)
  /\ Counting
  /\ UNCHANGED <<active, lock, loop, calm, deaths>>

Switch ==
  /\ active' = ~active
  /\ UNCHANGED <<pool, counters, lock, loop, calm, deaths>>

-----------------------------------------------------------------------------
TickStep(w) ==
  \/ Observe(w) \/ StartNothing(w) \/ SelectExcess(w) \/ Rest(w)
  \/ \E a \in Agent :
       \/ Start(w, a) \/ Finish(w, a) \/ FinishUnrecorded(w, a)
       \/ CancelOne(w, a) \/ CancelNothing(w, a)

PacingNext ==
  \/ \E w \in Worker : Lead(w) \/ TickStep(w) \/ Die(w) \/ Crash(w)
  \/ Progress \/ Staffing \/ Switch

PacingSpec == PacingInit /\ [][PacingNext]_pacingVars

\* With a connection that may be lost on its own.
SplitSpec == PacingInit /\ [][PacingNext \/ \E w \in Worker : LoseLock(w)]_pacingVars

-----------------------------------------------------------------------------
(* What the code promises.                                                     *)

\* What a snapshot holds, and what a loop keeps.
SnapshotRow ==
  [available : Nat, reserved : Nat, dialing : Nat, connected : Nat, wrapup : Nat,
   ringing : Nat, callsConnected : Nat, active : BOOLEAN, sampled : BOOLEAN,
   breach : BOOLEAN, health : 0 .. 100, cooling : BOOLEAN]

LoopRow ==
  [pc : {"waiting", "allocating", "cancelling", "dead"}, leader : BOOLEAN, todo : Nat,
   placing : SUBSET Agent, cooldown : Nat, seen : SnapshotRow, sweep : SUBSET Agent]

\* Every variable has a value of its type; no subtraction, of the triggers' or of
\* a request, goes below zero.
LoopTypeOK ==
  /\ loop \in [Worker -> LoopRow]
  /\ PoolTypeOK
  /\ counters \in [DOMAIN Counted -> 0 .. Cardinality(Agent)]
  /\ active \in BOOLEAN
  /\ lock \in Worker \cup {NoWorker}
  /\ calm \in [Worker -> 0 .. CooldownTicks]
  /\ deaths \in 0 .. MaxDeaths

\* snapshot_fast is snapshot_naive: the counters the triggers keep are the counts
\* of the tables, in every state a snapshot can read.
CountersExact == counters = Counts

\* Leader election: no two workers tick the campaign, whoever crashes and takes
\* over.
OneLoopTicks == \A v, w \in Worker : loop[v].leader /\ loop[w].leader => v = w

\* The lock is a working loop's: one that has died of an exception leaves the
\* campaign to another worker.
LockIsAWorkingLoops == lock # NoWorker => loop[lock].leader

\* S7: there never ring more calls than the hard cap allows - although the rule
\* reads a snapshot, and the batch it approves rings only later.  A loop that died
\* leaves coroutines behind that are in no later snapshot: at most a batch, less
\* the one that raised.
RingingWithinCap ==
  Cardinality(In(Ringing)) <= RingingHardCap + deaths * AtLeastZero(RingingHardCap - 1)

\* S5 and S2: for CooldownTicks decisions from the last breach on, no more calls
\* are approved than one for each free agent that has none on its way.
ForcedProgressive ==
  \A w \in Worker : loop[w].pc = "allocating" /\ calm[w] < CooldownTicks =>
    loop[w].todo <= Progressive(loop[w].seen)

Forced(s) == s.cooling \/ ~s.sampled \/ s.breach

\* I4: a batch approved in progressive mode never brings the calls on their way
\* to an agent over the agents that were free at its decision.
InFlightWithinAvailable ==
  \A w \in Worker : deaths = 0 /\ loop[w].pc = "allocating" /\ Forced(loop[w].seen) =>
    Cardinality(In({"RESERVED"} \cup Ringing)) <=
      Max({loop[w].seen.available, AgentBoundInflight(loop[w].seen)})

\* The pullback reacts to agents who have left, not to ordinary utilization: on a
\* snapshot of the whole staff it cancels nothing.
PullbackNeedsLostStaff ==
  \A w \in Worker : loop[w].sweep # {} => AgentsStaffed(loop[w].seen) < Cardinality(Agent)
=============================================================================
