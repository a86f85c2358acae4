------------------------------ MODULE Dialer ------------------------------
(* The dialling core: the agents, borrowers, calls and provider_events tables, *)
(* and everything that writes them while calls are in flight - the allocator   *)
(* (one coroutine per call it places), the safety pullback, the event applier  *)
(* and the reaper - together with the phone line and the webhooks of the       *)
(* provider, which the code only sees through place_call and the ledger.       *)
(*                                                                             *)
(* One action is one database transaction, or one step between two of them:    *)
(* the row locks, SKIP LOCKED and the compare-and-swap updates make a          *)
(* transaction on these rows take effect at one point.  A lease, a lock or an  *)
(* event's age is kept as the time that is left; Tick lets it run down.        *)
EXTENDS CallStates, Integers, FiniteSets

CONSTANTS
  Agent,         \* the rows of the agents table, all of one campaign
  Borrower,      \* the rows of the borrowers table
  Slot,          \* the allocate_one coroutines of all workers
  MaxAttempts,   \* borrowers.max_attempts
  Copies,        \* how many webhooks with different ids may report one fact
  ReserveLease,  \* agent_reserve_lease_s
  DialLease,     \* call_setup_lease_s
  WrapUp,        \* wrapup_s
  GiveUpAge,     \* the 60 seconds of GIVE_UP_UNKNOWN
  NoAgent,       \* NULL in calls.agent_id
  NoCall         \* NULL in agents.current_call_id

ASSUME CountAssumption ==
  /\ MaxAttempts \in Nat \ {0}
  /\ Copies \in Nat \ {0}

ASSUME LeaseAssumption ==
  /\ ReserveLease \in Nat \ {0}
  /\ DialLease \in Nat \ {0}
  /\ WrapUp \in Nat
  /\ GiveUpAge \in Nat

ASSUME NullAssumption ==
  /\ NoAgent \notin Agent
  /\ NoCall \notin Borrower \X (1 .. MaxAttempts)

ASSUME FiniteAssumption == IsFiniteSet(Borrower)

VARIABLES
  agents,     \* agent -> its row
  borrowers,  \* borrower -> its row
  calls,      \* call -> its row, of state "NONE" until it is inserted
  ledger,     \* event -> its row in provider_events, "absent" until ingested
  slots,      \* allocation coroutine -> where it is and the call it places
  line        \* call -> what the borrower's phone does, at the provider

vars == <<agents, borrowers, calls, ledger, slots, line>>

-----------------------------------------------------------------------------
\* A call is named by its idempotency key, campaign:borrower:attempt, which is
\* UNIQUE in the table.
CallId == Borrower \X (1 .. MaxAttempts)
BorrowerOf(c) == c[1]

\* The types a provider's report maps to.  Others raise before they touch a row, and
\* stay in the ledger: those are in EventDrain.
EventType == {"RINGING", "ANSWERED", "COMPLETED", "FAILED"}
Event == [call : CallId, type : EventType, copy : 1 .. Copies]

Exists(c) == calls[c].state # "NONE"
Live(c) == Exists(c) /\ calls[c].state \notin TERMINAL
Terminated(c) == Exists(c) /\ calls[c].state \in TERMINAL

\* A lease that is NULL never expires: NULL < now is not true.
NoLease == -1
Expired(lease) == lease = 0
RunDown(lease) == IF lease > 0 THEN lease - 1 ELSE lease

InFlight(s) == slots[s].pc \in {"placing", "accepted", "rejected"}

Idle == [pc |-> "idle", call |-> NoCall]

-----------------------------------------------------------------------------
(* The repositories' updates, on one row.                                      *)

\* (Mistake: the call the agent dials is not written to its row.)
ForceStateWithoutCall(state, lease, call) ==
  [state |-> state, lease |-> lease, call |-> NoCall]

\* AgentRepo.force_state: unconditional; only three states keep a lease.
ForceState(state, lease, call) ==
  [state |-> state,
   lease |-> IF state \in {"RESERVED", "DIALING", "WRAP_UP"} THEN lease ELSE NoLease,
   call  |-> call]

\* AgentRepo.release.
Released == ForceState("AVAILABLE", NoLease, NoCall)

\* CallRepo.advance: nothing happens unless the call moves up in rank.
Advance(row, state, ref, lease) ==
  IF RANK[row.state] < RANK[state]
  THEN [row EXCEPT !.state = state,
                   !.ref   = @ \/ ref,
                   !.lease = IF state \in TERMINAL THEN NoLease ELSE lease]
  ELSE row

\* (Mistake: an attempt that failed is not counted.)
RescheduleUncounted(row, n) == [state |-> "PENDING", attempts |-> row.attempts, lock |-> NoLease]

\* BorrowerRepo.reschedule, n times in one transaction: it counts the attempt
\* and puts the borrower back in the queue, or gives up on it.
Reschedule(row, n) ==
  [state    |-> IF row.attempts + n >= MaxAttempts THEN "EXHAUSTED" ELSE "PENDING",
   attempts |-> row.attempts + n,
   lock     |-> NoLease]

MarkDone(row) == [state |-> "DONE", attempts |-> row.attempts + 1, lock |-> NoLease]

OnCallTerminal(row, state) ==
  IF state = "COMPLETED" THEN MarkDone(row) ELSE Reschedule(row, 1)

\* BorrowerRepo.reclaim_expired_locks.
ReclaimLock(row) ==
  IF row.state = "LOCKED" /\ Expired(row.lock)
  THEN [row EXCEPT !.state = "PENDING", !.lock = NoLease]
  ELSE row

-----------------------------------------------------------------------------
Init ==
  /\ agents = [a \in Agent |-> Released]
  /\ borrowers = [b \in Borrower |-> [state |-> "PENDING", attempts |-> 0, lock |-> NoLease]]
  /\ calls = [c \in CallId |-> [state |-> "NONE", agent |-> NoAgent, lease |-> NoLease,
                                ref |-> FALSE]]
  /\ ledger = [e \in Event |-> [status |-> "absent", left |-> 0]]
  /\ slots = [s \in Slot |-> Idle]
  /\ line = [c \in CallId |-> "idle"]

-----------------------------------------------------------------------------
(* CallAllocator._allocate_one.                                                *)

\* (Mistake: the key counts the borrower's calls, so it is never taken.)
NextCallUnkeyed(b) ==
  <<b, 1 + Cardinality({n \in 1 .. MaxAttempts : Exists(<<b, n>>)})>>

\* The idempotency key of the borrower's next attempt.
NextCall(b) == <<b, borrowers[b].attempts + 1>>

\* Step 1, _reserve_and_create: an available agent is reserved, a pending
\* borrower claimed and the call row inserted, in one transaction.  The outcomes
\* that find nothing to do (no candidate, race lost, no healthy provider) undo
\* what they did and change no row.
Reserve(s, a, b) ==
  LET c == NextCall(b) IN
  /\ slots[s].pc = "idle"
  /\ agents[a].state = "AVAILABLE"
  /\ borrowers[b].state = "PENDING"
  /\ c \in CallId /\ ~Exists(c)
  /\ agents' = [agents EXCEPT ![a] = [@ EXCEPT !.state = "RESERVED", !.lease = ReserveLease]]
  /\ borrowers' = [borrowers EXCEPT ![b] = [@ EXCEPT !.state = "LOCKED", !.lock = ReserveLease]]
  /\ calls' = [calls EXCEPT ![c] = [state |-> "RESERVED", agent |-> a,
                                    lease |-> ReserveLease, ref |-> FALSE]]
  /\ slots' = [slots EXCEPT ![s] = [pc |-> "placing", call |-> c]]
  /\ UNCHANGED <<ledger, line>>

\* The same transaction when the key of the attempt is taken: the INSERT raises
\* UniqueViolationError, which no one catches, and the transaction rolls back.
ReserveCollides(s, a, b) ==
  LET c == NextCall(b) IN
  /\ slots[s].pc = "idle"
  /\ agents[a].state = "AVAILABLE"
  /\ borrowers[b].state = "PENDING"
  /\ c \in CallId /\ Exists(c)
  /\ slots' = [slots EXCEPT ![s].pc = "raised"]
  /\ UNCHANGED <<agents, borrowers, calls, ledger, line>>

\* Step 2, place_call, outside any transaction.  The provider accepts ...
PlaceAccepted(s) ==
  /\ slots[s].pc = "placing"
  /\ slots' = [slots EXCEPT ![s].pc = "accepted"]
  /\ line' = [line EXCEPT ![slots[s].call] = "ringing"]
  /\ UNCHANGED <<agents, borrowers, calls, ledger>>

\* ... or raises ProviderError; after a timeout the phone may ring all the same.
PlaceFailed(s) ==
  /\ slots[s].pc = "placing"
  /\ slots' = [slots EXCEPT ![s].pc = "rejected"]
  /\ line' \in {line, [line EXCEPT ![slots[s].call] = "ringing"]}
  /\ UNCHANGED <<agents, borrowers, calls, ledger>>

\* (Mistake: the cleanup does not release the agent.)
RejectCleanupKeepsAgent(s) ==
  /\ slots[s].pc = "rejected"
  /\ calls' = [calls EXCEPT ![slots[s].call] = Advance(@, "FAILED", FALSE, NoLease)]
  /\ borrowers' = [borrowers EXCEPT ![BorrowerOf(slots[s].call)] = Reschedule(@, 1)]
  /\ slots' = [slots EXCEPT ![s] = Idle]
  /\ UNCHANGED <<agents, ledger, line>>

\* The except branch of step 2: the call fails (if it has not ended), the agent
\* is released and the borrower rescheduled (whatever has become of them).
RejectCleanup(s) ==
  LET c == slots[s].call
      a == calls[c].agent
      b == BorrowerOf(c)
  IN
  /\ slots[s].pc = "rejected"
  /\ calls' = [calls EXCEPT ![c] = Advance(@, "FAILED", FALSE, NoLease)]
  /\ agents' = [agents EXCEPT ![a] = Released]
  /\ borrowers' = [borrowers EXCEPT ![b] = Reschedule(@, 1)]
  /\ slots' = [slots EXCEPT ![s] = Idle]
  /\ UNCHANGED <<ledger, line>>

\* Step 3: the call becomes INITIATED (if it may), its agent DIALING (always).
RecordInitiated(s) ==
  LET c == slots[s].call
      a == calls[c].agent
  IN
  /\ slots[s].pc = "accepted"
  /\ calls' = [calls EXCEPT ![c] = Advance(@, "INITIATED", TRUE, DialLease)]
  /\ agents' = [agents EXCEPT ![a] = ForceState("DIALING", DialLease, c)]
  /\ slots' = [slots EXCEPT ![s] = Idle]
  /\ UNCHANGED <<borrowers, ledger, line>>

\* Step 3 after MAX_DEADLOCK_RETRIES deadlocks: the call is left to the reaper.
RecordGivesUp(s) ==
  /\ slots[s].pc = "accepted"
  /\ slots' = [slots EXCEPT ![s] = Idle]
  /\ UNCHANGED <<agents, borrowers, calls, ledger, line>>

\* The worker dies, wherever the coroutine is, and starts again: what was not
\* committed is gone.  A request on its way to the provider may have arrived.
WorkerRestart(s) ==
  /\ slots[s].pc # "idle"
  /\ slots' = [slots EXCEPT ![s] = Idle]
  /\ \/ line' = line
     \/ slots[s].pc = "placing" /\ line' = [line EXCEPT ![slots[s].call] = "ringing"]
  /\ UNCHANGED <<agents, borrowers, calls, ledger>>

-----------------------------------------------------------------------------
\* (Mistake: the candidate is cancelled as it was selected, unchecked.)
PullbackCancelUnchecked(c) ==
  /\ calls[c].ref
  /\ calls' = [calls EXCEPT ![c] = [@ EXCEPT !.state = "CANCELLED", !.lease = NoLease]]
  /\ agents' = [agents EXCEPT ![calls[c].agent] = Released]
  /\ borrowers' = [borrowers EXCEPT ![BorrowerOf(c)] = OnCallTerminal(@, "CANCELLED")]
  /\ UNCHANGED <<ledger, slots, line>>

\* CallAllocator.cancel_excess_ringing, the transaction of one candidate.  Which
\* and how many calls are candidates is the pacing loop's business; any call
\* whose row still says nobody has answered may be one.
PullbackCancel(c) ==
  /\ calls[c].state \in {"INITIATED", "RINGING"}
  /\ calls' = [calls EXCEPT ![c] = [@ EXCEPT !.state = "CANCELLED", !.lease = NoLease]]
  /\ agents' = [agents EXCEPT ![calls[c].agent] = Released]
  /\ borrowers' = [borrowers EXCEPT ![BorrowerOf(c)] = OnCallTerminal(@, "CANCELLED")]
  /\ UNCHANGED <<ledger, slots, line>>

-----------------------------------------------------------------------------
(* The provider: a phone rings, is answered or not, and is hung up.  Its cancel *)
(* (sent by the reaper, never acknowledged) is one more reason for a line to    *)
(* end, so NoAnswer and HangUp stand for it too.                                *)

Answer(c) ==
  /\ line[c] = "ringing"
  /\ line' = [line EXCEPT ![c] = "answered"]
  /\ UNCHANGED <<agents, borrowers, calls, ledger, slots>>

NoAnswer(c) ==
  /\ line[c] = "ringing"
  /\ line' = [line EXCEPT ![c] = "unanswered"]
  /\ UNCHANGED <<agents, borrowers, calls, ledger, slots>>

HangUp(c) ==
  /\ line[c] = "answered"
  /\ line' = [line EXCEPT ![c] = "completed"]
  /\ UNCHANGED <<agents, borrowers, calls, ledger, slots>>

\* The events the provider has reported, or may still report, about a line.
Emitted(e) ==
  CASE e.type = "RINGING"   -> line[e.call] # "idle"
    [] e.type = "ANSWERED"  -> line[e.call] \in {"answered", "completed"}
    [] e.type = "COMPLETED" -> line[e.call] = "completed"
    [] e.type = "FAILED"    -> line[e.call] = "unanswered"

\* EventRepo.ingest, from the webhook route or the in-process sink: an event
\* comes late, in any order, more than once, or never; a known id is ignored.
Ingest(e) ==
  /\ Emitted(e)
  /\ ledger[e].status = "absent"
  /\ ledger' = [ledger EXCEPT ![e] = [status |-> "unapplied", left |-> GiveUpAge]]
  /\ UNCHANGED <<agents, borrowers, calls, slots, line>>

-----------------------------------------------------------------------------
(* event_applier.apply_one, for one unapplied event of a drain.                 *)

Marked(e, status) == [ledger EXCEPT ![e] = [status |-> status, left |-> 0]]

\* _try_bridge: the agent must still be the one dialling this very call.
Bridged(c) ==
  LET agent == agents[calls[c].agent] IN agent.call = c /\ agent.state = "DIALING"

\* The state the transaction leaves the call in.
FinalState(c, incoming) ==
  IF incoming = "ANSWERED"
  THEN IF Bridged(c) THEN "CONNECTED" ELSE "ABANDONED"
  ELSE incoming

\* The event moves its call: the call advances (twice when it is answered), the
\* agent is forced into the state of the transition, a final state settles the
\* borrower, and the event is marked applied.
ApplyAccepted(e) ==
  LET c == e.call
      final == FinalState(c, e.type)
  IN
  /\ ledger[e].status = "unapplied"
  /\ calls[c].ref
  /\ CanApply(calls[c].state, e.type)
  /\ calls' = [calls EXCEPT ![c] =
                 Advance(Advance(@, e.type, TRUE, NoLease), final, FALSE, NoLease)]
  /\ agents' = IF final \in DOMAIN AGENT_ON_CALL_STATE
               THEN [agents EXCEPT ![calls[c].agent] =
                       ForceState(AGENT_ON_CALL_STATE[final], WrapUp, NoCall)]
               ELSE agents
  /\ borrowers' = IF final \in TERMINAL
                  THEN [borrowers EXCEPT ![BorrowerOf(c)] = OnCallTerminal(@, final)]
                  ELSE borrowers
  /\ ledger' = Marked(e, "applied")
  /\ UNCHANGED <<slots, line>>

\* The event is late, a duplicate or illegal: marked applied (with an anomaly
\* text no code reads), and without effect.
ApplyAnomaly(e) ==
  /\ ledger[e].status = "unapplied"
  /\ calls[e.call].ref
  /\ ~CanApply(calls[e.call].state, e.type)
  /\ ledger' = Marked(e, "applied")
  /\ UNCHANGED <<agents, borrowers, calls, slots, line>>

\* (Mistakes: an event is given up a little too early; nothing is ever too old.)
TooOldEarly(e) == ledger[e].left <= 1
TooOldNever(e) == FALSE

\* GIVE_UP_UNKNOWN's limit on the age.
TooOld(e) == ledger[e].left = 0

\* No row has the event's provider_call_id (yet): it stays for the next drain
\* until give_up_unknown finds it too old.
GiveUpUnknown(e) ==
  /\ ledger[e].status = "unapplied"
  /\ ~calls[e.call].ref
  /\ TooOld(e)
  /\ ledger' = Marked(e, "given_up")
  /\ UNCHANGED <<agents, borrowers, calls, slots, line>>

-----------------------------------------------------------------------------
(* reaper.reap: one transaction, four sweeps, each on what the one before left. *)

Orphans ==
  {c \in CallId : /\ calls[c].state \in {"QUEUED", "RESERVED", "INITIATED"}
                  /\ Expired(calls[c].lease)}

OrphansOf(b) == {n \in 1 .. MaxAttempts : <<b, n>> \in Orphans}

\* FAIL_ORPHAN_CALLS.
FailOrphan(c) ==
  IF c \in Orphans THEN [calls[c] EXCEPT !.state = "FAILED"] ELSE calls[c]

\* (Mistakes: an expired DIALING agent is freed like a RESERVED one; the wrap-up
\* timer is forgotten; the sweep frees nobody.)
ReclaimDialing(row) ==
  IF row.state \in {"RESERVED", "DIALING", "WRAP_UP"} /\ Expired(row.lease)
  THEN Released ELSE row
ReclaimNoWrapUp(row) ==
  IF row.state = "RESERVED" /\ Expired(row.lease) THEN Released ELSE row
ReapAgentNever(a) == agents[a]

\* RECLAIM_AGENTS and RELEASE_WRAPUP: an expired RESERVED or WRAP_UP agent is
\* available again, a DIALING one only loses its lease.
Reclaim(row) ==
  CASE row.state = "RESERVED" /\ Expired(row.lease) ->
         [row EXCEPT !.state = "AVAILABLE", !.lease = NoLease]
    [] row.state = "DIALING" /\ Expired(row.lease) -> [row EXCEPT !.lease = NoLease]
    [] row.state = "WRAP_UP" /\ Expired(row.lease) -> Released
    [] OTHER -> row

\* An orphan's agent is released first.
ReapAgent(a) ==
  IF \E c \in Orphans : calls[c].agent = a THEN Released ELSE Reclaim(agents[a])

\* reschedule for each orphan, then reclaim_expired_locks.
ReapBorrower(b) ==
  IF OrphansOf(b) # {}
  THEN Reschedule(borrowers[b], Cardinality(OrphansOf(b)))
  ELSE ReclaimLock(borrowers[b])

Reap ==
  /\ calls' = [c \in CallId |-> FailOrphan(c)]
  /\ agents' = [a \in Agent |-> ReapAgent(a)]
  /\ borrowers' = [b \in Borrower |-> ReapBorrower(b)]
  /\ UNCHANGED <<ledger, slots, line>>

-----------------------------------------------------------------------------
\* Time passes: every lease, lock and age runs down together.
Tick ==
  /\ agents' = [a \in Agent |-> [agents[a] EXCEPT !.lease = RunDown(@)]]
  /\ borrowers' = [b \in Borrower |-> [borrowers[b] EXCEPT !.lock = RunDown(@)]]
  /\ calls' = [c \in CallId |-> [calls[c] EXCEPT !.lease = RunDown(@)]]
  /\ ledger' = [e \in Event |-> [ledger[e] EXCEPT !.left = RunDown(@)]]
  /\ UNCHANGED <<slots, line>>

\* No coroutine is about to outlive the lease of the call it is placing: the
\* provider's answer and the next transaction come within the reserve lease.
Punctual == \A s \in Slot : InFlight(s) => calls[slots[s].call].lease > 1

-----------------------------------------------------------------------------
Allocate(s) ==
  \/ PlaceAccepted(s) \/ PlaceFailed(s) \/ RejectCleanup(s)
  \/ RecordInitiated(s) \/ RecordGivesUp(s)

ApplyOne(e) == ApplyAccepted(e) \/ ApplyAnomaly(e) \/ GiveUpUnknown(e)

Provider(c) == Answer(c) \/ NoAnswer(c) \/ HangUp(c)

Work ==
  \/ \E s \in Slot, a \in Agent, b \in Borrower : Reserve(s, a, b) \/ ReserveCollides(s, a, b)
  \/ \E s \in Slot : Allocate(s) \/ WorkerRestart(s)
  \/ \E c \in CallId : PullbackCancel(c) \/ Provider(c)
  \/ \E e \in Event : Ingest(e) \/ ApplyOne(e)
  \/ Reap

\* Workers may stall for any time between two of their transactions.
Next == Work \/ Tick
Spec == Init /\ [][Next]_vars

\* Workers are late for no lease.
PunctualNext == Work \/ (Punctual /\ Tick)
PunctualSpec == Init /\ [][PunctualNext]_vars

\* What keeps running: the clock, the reaper, the drain loop, a coroutine that
\* has started, and phones.  Webhooks may be lost.
Fairness ==
  /\ WF_vars(Punctual /\ Tick)
  /\ WF_vars(Reap)
  /\ \A s \in Slot : WF_vars(Allocate(s))
  /\ \A e \in Event : WF_vars(ApplyOne(e))
  /\ \A c \in CallId : WF_vars(Provider(c))

FairSpec == PunctualSpec /\ Fairness

-----------------------------------------------------------------------------
(* The ledger the drains implement (EventDrain), as the dialling core uses it: a *)
(* call is RESERVED until it is recorded, even before its row is there, and is   *)
(* charged when its attempt is counted.                                          *)

LedgerState(c) == IF Exists(c) THEN calls[c].state ELSE "RESERVED"
Counted(c) == c[2] <= borrowers[BorrowerOf(c)].attempts

Serial == INSTANCE SerialLedger WITH
  Call    <- CallId,
  calls   <- [c \in CallId |-> LedgerState(c)],
  bills   <- [c \in CallId |-> IF Counted(c) THEN 1 ELSE 0],
  ref     <- {c \in CallId : calls[c].ref},
  applied <- {e \in Event : ledger[e].status = "applied"},
  givenUp <- {e \in Event : ledger[e].status = "given_up"}

-----------------------------------------------------------------------------
(* What the code promises.                                                     *)

\* I5: the allocator, the reaper, the pullback and the applier, with leases that
\* run out and agents to be found, do to calls and charges what the ledger
\* promises - an answer that moves its call puts it through (agents do not log out
\* in the middle of a call here), and every end counts one attempt.
EventsAreSerial == Serial!SerialSpec

LeaseTime == -1 .. (ReserveLease + DialLease + WrapUp)

\* Every column has a value of its type.
TypeOK ==
  /\ agents \in [Agent -> [state : AgentState, lease : LeaseTime, call : CallId \cup {NoCall}]]
  /\ borrowers \in [Borrower -> [state : BorrowerState, attempts : Nat, lock : LeaseTime]]
  /\ calls \in [CallId -> [state : CallState \cup {"NONE"}, agent : Agent \cup {NoAgent},
                           lease : LeaseTime, ref : BOOLEAN]]
  /\ ledger \in [Event ->
       [status : {"absent", "unapplied", "applied", "given_up"}, left : 0 .. GiveUpAge]]
  /\ slots \in [Slot -> [pc : {"idle", "placing", "accepted", "rejected", "raised"},
                         call : CallId \cup {NoCall}]]
  /\ line \in [CallId -> {"idle", "ringing", "answered", "completed", "unanswered"}]

\* I2: a borrower never has two calls that are not over - although its lock runs
\* out while the first one is still talking and the allocator takes no other.
OneLiveCallPerBorrower ==
  \A c, d \in CallId : Live(c) /\ Live(d) /\ BorrowerOf(c) = BorrowerOf(d) => c = d

\* I1, for the whole life of a call: no agent ever serves two calls.
OneLiveCallPerAgent ==
  \A c, d \in CallId : Live(c) /\ Live(d) /\ calls[c].agent = calls[d].agent => c = d

\* The state of the agent a live call of that state needs.
Serving(callState) ==
  CASE callState = "RESERVED"  -> "RESERVED"
    [] callState = "CONNECTED" -> "CONNECTED"
    [] OTHER                   -> "DIALING"

\* A live call always has its agent, in the state the call needs and, while it
\* is dialled, pointing to that call: nothing frees or re-books the agent under it.
LiveCallHasItsAgent ==
  \A c \in CallId : Live(c) =>
    LET a == calls[c].agent IN
    /\ a \in Agent
    /\ agents[a].state = Serving(calls[c].state)
    /\ agents[a].state = "DIALING" => agents[a].call = c

\* No agent is lost: one who is reserved, dialling or connected is so for a call
\* that is not over.
BusyAgentHasACall ==
  \A a \in Agent : agents[a].state \in {"RESERVED", "DIALING", "CONNECTED"} =>
    \E c \in CallId : Live(c) /\ calls[c].agent = a

\* Every call that is over has charged its borrower one attempt, exactly once,
\* whichever of the five transactions ended it.
AttemptsAreFinishedCalls ==
  \A c \in CallId : Terminated(c) <=> c[2] <= borrowers[BorrowerOf(c)].attempts

\* Even with late workers, no ended call is left uncounted.
FinishedCallsAreCharged ==
  \A c \in CallId : Terminated(c) => c[2] <= borrowers[BorrowerOf(c)].attempts

\* A borrower is done exactly when one of its calls completed.  As such a call
\* never changes, one who was reached is never dialled again.
DoneMeansCompleted ==
  \A b \in Borrower :
    borrowers[b].state = "DONE" <=> \E n \in 1 .. MaxAttempts : calls[<<b, n>>].state = "COMPLETED"

\* Whoever has been put through to an agent keeps both, the call and the agent,
\* until they hang up: no pullback, sweep, cleanup or other event ends the call or
\* frees its agent before.  (It says nothing of an answer that is still in the
\* ledger: such a call may be cancelled or fail under a borrower who has picked up.)
ConnectedUntilHungUp ==
  [][\A c \in CallId : calls[c].state = "CONNECTED" =>
       \/ calls'[c].state = "CONNECTED" /\ agents'[calls[c].agent].state = "CONNECTED"
       \/ calls'[c].state = "COMPLETED" /\ line[c] = "completed"]_vars

\* An event is only given up when its call can no longer be recorded under the
\* provider's reference, so no event of a recorded call is thrown away.
GivenUpNeverRecorded ==
  \A e \in Event : ledger[e].status = "given_up" => ~calls[e.call].ref

\* No allocation dies of a borrower whose attempt is already in the calls table.
NoUnhandledCollision == \A s \in Slot : slots[s].pc # "raised"

\* I6, I7: a call's rank never falls, an ended call never changes state, and no
\* row disappears - whatever the order of events, sweeps and late workers.
CallsOnlyAdvance ==
  [][\A c \in CallId : Exists(c) =>
       /\ calls'[c].state \in CallState
       /\ calls'[c].state # calls[c].state => RANK[calls'[c].state] > RANK[calls[c].state]
       /\ calls'[c].agent = calls[c].agent]_vars

\* A reserved agent is never stuck: the reservation ends, with a call or with
\* the reaper, even if the worker dies and every webhook is lost.
ReservationEnds == \A a \in Agent : agents[a].state = "RESERVED" ~> agents[a].state # "RESERVED"

\* I8: nor is a dialling one.
DialingEnds == \A a \in Agent : agents[a].state = "DIALING" ~> agents[a].state # "DIALING"

\* The unapplied backlog is bounded: every event in it is applied, recorded as
\* an anomaly or given up.
LedgerDrains == \A e \in Event : ledger[e].status = "unapplied" ~> ledger[e].status # "unapplied"

\* A webhook about a live call of the agent that has not arrived.
WebhookMissing(a) ==
  \E e \in Event : /\ calls[e.call].agent = a /\ Live(e.call)
                   /\ Emitted(e) /\ ledger[e].status = "absent"

\* Every agent comes back to the pool, again and again, unless a webhook about
\* its call is missing: nothing else keeps an agent.
AgentsReturn ==
  \A a \in Agent : []<>(agents[a].state = "AVAILABLE" \/ WebhookMissing(a))

-----------------------------------------------------------------------------
(* Why they hold for punctual workers: the inductive invariant.                *)

\* A coroutine in flight has its call to itself, still RESERVED and on lease.
SlotsHoldTheirCalls ==
  /\ \A s \in Slot : InFlight(s) =>
       /\ slots[s].call \in CallId
       /\ calls[slots[s].call].state = "RESERVED"
       /\ calls[slots[s].call].lease > 0
  /\ \A s, t \in Slot : InFlight(s) /\ InFlight(t) /\ slots[s].call = slots[t].call => s = t

\* The calls of a borrower are exactly its counted attempts and at most the next.
CallsMatchAttempts ==
  \A c \in CallId :
    /\ Terminated(c) <=> c[2] <= borrowers[BorrowerOf(c)].attempts
    /\ Live(c) => c[2] = borrowers[BorrowerOf(c)].attempts + 1

\* A borrower can be claimed only while an attempt is left, and no borrower is
\* settled while a call to it is live.
BorrowersMatchCalls ==
  /\ \A b \in Borrower :
       /\ borrowers[b].state \in {"PENDING", "LOCKED", "DONE", "EXHAUSTED"}
       /\ borrowers[b].state \in {"PENDING", "LOCKED"} => borrowers[b].attempts < MaxAttempts
  /\ \A c \in CallId : Live(c) => borrowers[BorrowerOf(c)].state \in {"PENDING", "LOCKED"}

\* At rest a call is in none of the states only a transaction passes through,
\* it has the provider's reference once it is recorded, and as long as it is
\* RESERVED its lease is its agent's.
CallsAtRest ==
  \A c \in CallId :
    /\ calls[c].state \notin {"QUEUED", "ANSWERED"}
    /\ calls[c].state \in {"NONE", "RESERVED"} => ~calls[c].ref
    /\ calls[c].state = "RESERVED" => agents[calls[c].agent].lease = calls[c].lease

IInv ==
  /\ TypeOK
  /\ SlotsHoldTheirCalls
  /\ CallsMatchAttempts
  /\ BorrowersMatchCalls
  /\ CallsAtRest
  /\ OneLiveCallPerAgent
  /\ LiveCallHasItsAgent
  /\ BusyAgentHasACall
=============================================================================
