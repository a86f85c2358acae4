---------------------------- MODULE SafetyRules ----------------------------
(* The arithmetic of a pacing tick: how many calls an engine asks for, what    *)
(* the safety rules make of it, and how many calls may stay ringing.  Every    *)
(* operator reads one snapshot s, the row of campaign_counters with            *)
(*   active    the campaign is not paused                                      *)
(*   sampled   enough resolved calls for predictive pacing                     *)
(*   breach    the abandon rate is over its budget                             *)
(*   health    the best provider's score, in hundredths                        *)
EXTENDS Scores, FiniteSetsExt

CONSTANTS
  OverdialNum, OverdialDen,  \* max_overdial_ratio, after SafetyLimits clamped it
  RingingHardCap,            \* ringing_hard_cap
  CooldownTicks              \* cooldown_ticks_after_breach

ASSUME LimitsAssumption ==
  /\ OverdialNum \in Nat /\ OverdialDen \in Nat \ {0}
  /\ RingingHardCap \in Nat
  /\ CooldownTicks \in Nat

\* (Mistake: a difference is taken as it is.)
NotClamped(n) == n

\* max(0, n), of a request and of what is left to an allowance.
AtLeastZero(n) == Max({0, n})

\* MetricsSnapshot.agent_bound_inflight and agents_staffed.
AgentBoundInflight(s) == s.reserved + s.dialing
AgentsStaffed(s) == s.available + s.reserved + s.dialing + s.connected + s.wrapup

\* (Mistake: calls on their way to an agent are not subtracted.)
ProgressiveIgnoringInflight(s) == s.available

\* ProgressivePacing.decide, and the fallback of rules S2, S3 and S5.
Progressive(s) == AtLeastZero(s.available - AgentBoundInflight(s))

\* PredictivePacing.decide for an answer rate of at most 1/odds, when talking
\* takes talk times as long as setting up a call:
\* floor((available + connected/talk - ringing/odds) * odds).
Predictive(s, odds, talk) ==
  AtLeastZero(((s.available * talk + s.callsConnected) * odds) \div talk - s.ringing)

-----------------------------------------------------------------------------
(* RULES: each gives the caps it sets, if any.                                 *)

S0(s) == IF s.active THEN {} ELSE {0}
S1(s) == IF s.available > 0 THEN {} ELSE {0}
S2(s, cooldown) == IF cooldown > 0 THEN {Progressive(s)} ELSE {}
S3(s) == IF s.sampled THEN {} ELSE {Progressive(s)}

\* A score of 0 is degraded and leaves nothing.
S4(n, best) == IF Degraded(best) THEN {Scaled(n, best)} ELSE {}

S5(s) == IF s.breach THEN {Progressive(s)} ELSE {}

Ceiling(s) == (AgentsStaffed(s) * OverdialNum) \div OverdialDen
S6(s) == {AtLeastZero(Ceiling(s) - AgentBoundInflight(s) - s.ringing)}

\* (Mistake: the hard cap does not count the calls that already ring.)
S7Fresh(s) == {RingingHardCap}

S7(s) == {AtLeastZero(RingingHardCap - s.ringing)}

\* evaluate_and_execute: every rule runs, the least of the caps wins.
Approved(n, s, cooldown) ==
  Min({n} \cup S0(s) \cup S1(s) \cup S2(s, cooldown) \cup S3(s)
          \cup S4(n, [num |-> s.health, den |-> 100]) \cup S5(s) \cup S6(s) \cup S7(s))

\* (Mistake: a breach during the cooldown does not start it again.)
CooldownNotRenewed(s, cooldown) ==
  AtLeastZero((IF s.breach /\ cooldown = 0 THEN CooldownTicks ELSE cooldown) - 1)

\* S5 trips the cooldown, and the evaluation ends with ctx.tick().
CooldownAfter(s, cooldown) ==
  AtLeastZero((IF s.breach THEN CooldownTicks ELSE cooldown) - 1)

\* pacing_loop.tick: the calls that may ring on after the pullback.
AllowedRinging(s) == AtLeastZero(Ceiling(s) - AgentBoundInflight(s))
=============================================================================
