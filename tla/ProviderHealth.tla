-------------------------- MODULE ProviderHealth --------------------------
(* The circuit breakers of the providers of one worker, the registry that      *)
(* routes calls by their scores, and the loop that feeds them: each tick asks  *)
(* for some calls, rule S4 scales the request by the best score, and a batch   *)
(* of coroutines places what is left, each reporting what the provider said.   *)
(* Between a coroutine's pick and its call lie the awaits of a transaction: the *)
(* breaker may open meanwhile.                                                 *)
EXTENDS Scores, FiniteSets

CONSTANTS
  Provider,
  Window,          \* window_s: how old a result may be and still count
  MinCalls,        \* min_calls
  ErrNum, ErrDen,  \* threshold, as a fraction
  Cooldown,        \* cooldown_s
  HalfOpenProbes,  \* half_open_probes
  MaxRequest,      \* bound: calls one tick may ask for
  MaxFresh         \* bound: results within the window and calls to come, per provider

ASSUME ProviderAssumption == IsFiniteSet(Provider) /\ Provider # {}

ASSUME BreakerAssumption ==
  /\ Window \in Nat /\ Cooldown \in Nat
  /\ MinCalls \in Nat \ {0} /\ HalfOpenProbes \in Nat \ {0}
  /\ ErrNum \in Nat /\ ErrDen \in Nat \ {0}
  /\ MaxRequest \in Nat \ {0} /\ MaxFresh \in Nat

VARIABLES
  breakers,  \* provider -> its CircuitBreaker
  todo,      \* coroutines of the batch that have not picked a provider
  picked,    \* provider -> coroutines that have picked it and not called it yet
  flying,    \* provider -> calls it has not answered for
  up,        \* provider -> whether it takes calls
  ticking,   \* whether the loop goes on; an exception that leaves a tick ends it
  late       \* history: provider -> calls placed in the cooldown it is in

healthVars == <<breakers, todo, picked, flying, up, ticking, late>>

-----------------------------------------------------------------------------
(* CircuitBreaker.  _events is kept as the number of good and bad results by   *)
(* age; a result of age Window + 1 is stale, and stays until the next record.  *)

Age == 0 .. Window + 1
NoResults == [i \in Age |-> 0]

\* How many results are at most so old.
CountOf(results, oldest) ==
  LET upTo[i \in Age] == results[i] + (IF i = 0 THEN 0 ELSE upTo[i - 1]) IN upTo[oldest]

Good(b) == CountOf(b.good, Window + 1)
Bad(b) == CountOf(b.bad, Window + 1)

Closed == [state |-> "closed", left |-> 0, probes |-> 0, good |-> NoResults, bad |-> NoResults]

Open(b) == [b EXCEPT !.state = "open", !.left = Cooldown, !.probes = 0]

\* (Mistake: old results stay.)
TrimNothing(b) == b

Trim(b) == [b EXCEPT !.good[Window + 1] = 0, !.bad[Window + 1] = 0]

Append(b, ok) ==
  Trim(IF ok THEN [b EXCEPT !.good[0] = @ + 1] ELSE [b EXCEPT !.bad[0] = @ + 1])

Tripped(b) ==
  /\ Good(b) + Bad(b) >= MinCalls
  /\ Bad(b) * ErrDen >= ErrNum * (Good(b) + Bad(b))

\* (Mistake: one probe too many is asked for.)
ProbedTooLate(b) == b.probes > HalfOpenProbes

\* Enough probes went well.
Probed(b) == b.probes >= HalfOpenProbes

\* record.
Recorded(before, ok) ==
  LET b == Append(before, ok)
      probing == [b EXCEPT !.probes = @ + 1]
  IN
  CASE b.state = "half_open" /\ ~ok -> Open(b)
    [] b.state = "half_open" /\ ok ->
         IF Probed(probing)
         THEN [probing EXCEPT !.state = "closed", !.good = NoResults, !.bad = NoResults]
         ELSE probing
    [] b.state = "closed" /\ Tripped(b) -> Open(b)
    [] OTHER -> b

\* allow, what it does: an open breaker whose cooldown is over goes half-open ...
Allowing(b) ==
  IF b.state = "open" /\ b.left = 0 THEN [b EXCEPT !.state = "half_open", !.probes = 0] ELSE b

\* (Mistake: an open circuit is no reason not to call.)
AllowsAlways(b) == TRUE

\* ... and what it answers then.
Allows(b) ==
  \/ b.state = "closed"
  \/ b.state = "half_open" /\ b.probes < HalfOpenProbes

\* Open, and allow says so.
Cooling(b) == b.state = "open" /\ b.left > 0

ScoreOf(b) == Score(b.state = "open", Good(b), Bad(b))

\* (Mistake: the scores are read without allow.)
HealthUnasked == breakers

\* health, of every provider: it asks allow first.
Health == [p \in Provider |-> Allowing(breakers[p])]

-----------------------------------------------------------------------------
HealthInit ==
  /\ breakers = [p \in Provider |-> Closed]
  /\ todo = 0
  /\ picked = [p \in Provider |-> 0]
  /\ flying = [p \in Provider |-> 0]
  /\ up \in [Provider -> BOOLEAN]
  /\ ticking = TRUE
  /\ late = [p \in Provider |-> 0]

Best(scores) == CHOOSE best \in scores : \A other \in scores : NoBetter(other, best)

\* What is left of a request for n calls; the product of floats may lie just
\* below an integer, and is cut off then.
Approvals(n, best) ==
  IF ~Degraded(best) THEN {n}
  ELSE {Scaled(n, best)}
         \cup {k \in 0 .. n : (k + 1) * best.den = n * best.num}

\* A tick, when the batch of the last one is back: health_map, and rule S4.
Ask ==
  /\ ticking
  /\ todo = 0
  /\ \A p \in Provider : picked[p] = 0 /\ flying[p] = 0
  /\ \E bs \in {Health} :
       /\ breakers' = bs
       /\ \E best \in {Best({ScoreOf(bs[p]) : p \in Provider})}, n \in 1 .. MaxRequest :
            todo' \in Approvals(n, best)
  /\ UNCHANGED <<picked, flying, up, ticking, late>>

\* registry.pick, in one coroutine of the batch: the best of those that allow it (of
\* equals the code takes the first configured, here it is any),
\* if there is one.
Pick ==
  /\ todo > 0
  /\ todo' = todo - 1
  /\ \E bs \in {Health} :
       LET candidates == {p \in Provider : Allows(bs[p])} IN
       /\ breakers' = bs
       /\ \/ candidates = {} /\ picked' = picked
          \/ \E p \in candidates :
               /\ \A q \in candidates : NoBetter(ScoreOf(bs[q]), ScoreOf(bs[p]))
               /\ CountOf(bs[p].good, Window) + CountOf(bs[p].bad, Window)
                    + picked[p] + flying[p] < MaxFresh
               /\ picked' = [picked EXCEPT ![p] = @ + 1]
  /\ UNCHANGED <<flying, up, ticking, late>>

\* A coroutine finds no agent or no borrower, and never gets to pick.
PickNothing ==
  /\ todo > 0
  /\ todo' = todo - 1
  /\ UNCHANGED <<breakers, picked, flying, up, ticking, late>>

\* The transaction a coroutine picked in deadlocks: it starts again and picks
\* anew, or has tried often enough.
Deadlock(p) ==
  /\ picked[p] > 0
  /\ picked' = [picked EXCEPT ![p] = @ - 1]
  /\ todo' \in {todo, todo + 1}
  /\ UNCHANGED <<breakers, flying, up, ticking, late>>

\* The transaction is committed and place_call made.  Nobody asks the breaker again.
Place(p) ==
  /\ picked[p] > 0
  /\ picked' = [picked EXCEPT ![p] = @ - 1]
  /\ flying' = [flying EXCEPT ![p] = @ + 1]
  /\ late' = IF Cooling(breakers[p]) THEN [late EXCEPT ![p] = @ + 1] ELSE late
  /\ UNCHANGED <<breakers, todo, up, ticking>>

\* place_call returns or raises a ProviderError, and the registry records it.
Result(p) ==
  /\ flying[p] > 0
  /\ flying' = [flying EXCEPT ![p] = @ - 1]
  /\ breakers' = [breakers EXCEPT ![p] = Recorded(breakers[p], up[p])]
  /\ UNCHANGED <<todo, picked, up, ticking, late>>

\* Creating the call or place_call raises anything else: nothing is recorded, gather
\* raises and the loop ends.  The other coroutines go on.
Raise(p) ==
  /\ \/ /\ picked[p] > 0
        /\ picked' = [picked EXCEPT ![p] = @ - 1]
        /\ flying' = flying
     \/ /\ flying[p] > 0
        /\ flying' = [flying EXCEPT ![p] = @ - 1]
        /\ picked' = picked
  /\ ticking' = FALSE
  /\ UNCHANGED <<breakers, todo, up, late>>

\* Time passes.
Older(results) ==
  [i \in Age |-> CASE i = 0          -> 0
                   [] i = Window + 1 -> results[Window] + results[Window + 1]
                   [] OTHER          -> results[i - 1]]

Elapse ==
  /\ breakers' = [p \in Provider |->
       [breakers[p] EXCEPT !.left = IF @ > 0 THEN @ - 1 ELSE 0,
                           !.good = Older(@), !.bad = Older(@)]]
  /\ late' = [p \in Provider |-> IF Cooling(breakers'[p]) THEN late[p] ELSE 0]
  /\ UNCHANGED <<todo, picked, flying, up, ticking>>

\* A provider fails, for a single call or for a while, and recovers.
Outage(p) ==
  /\ up' = [up EXCEPT ![p] = ~@]
  /\ UNCHANGED <<breakers, todo, picked, flying, ticking, late>>

HealthNext ==
  \/ Ask \/ Pick \/ PickNothing \/ Elapse
  \/ \E p \in Provider : Deadlock(p) \/ Place(p) \/ Result(p) \/ Raise(p) \/ Outage(p)

HealthSpec == HealthInit /\ [][HealthNext]_healthVars

\* The loop ticks, a batch gets done, providers answer and time passes; and of the
\* coroutines that start again and again, one finds an agent and a borrower in the
\* end and gets to pick, and one of those commits what it picked.
HealthFairness ==
  /\ WF_healthVars(Ask)
  /\ SF_healthVars(Pick)
  /\ WF_healthVars(Elapse)
  /\ \A p \in Provider : SF_healthVars(Place(p)) /\ WF_healthVars(Result(p))

FairHealthSpec == HealthSpec /\ HealthFairness

-----------------------------------------------------------------------------
(* What the code promises.                                                     *)

\* Every variable has a value of its type.
HealthTypeOK ==
  /\ breakers \in [Provider ->
       [state : {"closed", "open", "half_open"}, left : 0 .. Cooldown,
        probes : 0 .. HalfOpenProbes, good : [Age -> Nat], bad : [Age -> Nat]]]
  /\ todo \in 0 .. MaxRequest
  /\ picked \in [Provider -> 0 .. MaxRequest]
  /\ flying \in [Provider -> 0 .. MaxRequest]
  /\ up \in [Provider -> BOOLEAN]
  /\ ticking \in BOOLEAN
  /\ late \in [Provider -> Nat]

\* No breaker wedges half-open: as long as it is, it lets a probe through, however
\* many results of calls placed earlier were counted as probes.
HalfOpenAdmits ==
  \A p \in Provider : breakers[p].state = "half_open" => Allows(breakers[p])

\* A provider whose circuit has opened may still be called until the cooldown is
\* over, by coroutines that picked it before; but in all that time by fewer of them
\* than one tick may ask for, however often they pick again and whatever else fails.
FewLateCalls ==
  \A p \in Provider : late[p] < MaxRequest

\* A circuit opens on the errors of the window only: neither an old outage nor too
\* few calls open it.
OpensOnRecentErrors ==
  [][\A p \in Provider :
       breakers[p].state = "closed" /\ breakers'[p].state = "open" =>
         LET good == CountOf(breakers[p].good, Window)
             bad == CountOf(breakers[p].bad, Window) + 1
         IN /\ good + bad >= MinCalls
            /\ bad * ErrDen >= ErrNum * (good + bad)]_healthVars

\* An open circuit does not stay open while the loop goes on: even when it is the
\* reason why nothing is dialled, reading the scores lets it go half-open.
OpenEnds ==
  \A p \in Provider : breakers[p].state = "open" ~> breakers[p].state # "open" \/ ~ticking

AllScores == {ScoreOf(breakers[p]) : p \in Provider}
ScoresAreLow == \A score \in AllScores : Degraded(score)
SomeCall == \E p \in Provider : flying[p] > 0

\* Dialling stops for good only if the loop or the scores do: some call is placed
\* again and again, or from some time on no provider scores 0.6.
HaltsOnlyOnLowScores ==
  []ticking => []<>SomeCall \/ <>[]ScoresAreLow

\* Dialling recovers: once every provider takes calls again, calls are placed
\* again, by way of half-open probes.
DialingResumes ==
  []ticking /\ <>[](\A p \in Provider : up[p]) => []<>SomeCall
=============================================================================
