---------------------------- MODULE EventDrain ----------------------------
(* The drain of event_applier, statement by statement, in every worker at      *)
(* once: a batch of unapplied events is locked and applied in one transaction, *)
(* whose row locks and uncommitted writes last until it ends.  Reads see what  *)
(* is committed, or the transaction's own writes; an update waits for the row. *)
EXTENDS CallStates, FiniteSets, Integers

CONSTANTS
  Drain,       \* the workers' event applier loops
  Call,        \* the rows of the calls table
  Event,       \* the events that may arrive: records [call, type, copy]
  Backlogs,    \* the orders in which the events may arrive: event -> received_at
  Limit,       \* the limit of fetch_unapplied
  MaxCrashes,  \* bound: how often a drain's transaction is lost on its own
  Untouched    \* no uncommitted version

ASSUME DrainAssumption ==
  /\ Limit \in Nat \ {0}
  /\ MaxCrashes \in Nat
  /\ Untouched \notin CallState \cup {"unknown", "applied"}
  /\ \A e \in Event : e.call \in Call
  /\ \A b \in Backlogs :
       /\ b \in [Event -> Nat]
       /\ \A e, f \in Event : b[e] = b[f] => e = f

VARIABLES
  calls,    \* call -> its committed state
  bills,    \* call -> how often its borrower was charged for its end
  ref,      \* the calls whose row has the provider's call id
  ledger,   \* event -> its committed row: unapplied, with (unknown) or without
            \* the anomaly UNKNOWN_CALL, applied, or given_up
  received, \* event -> received_at
  old,      \* the events that arrived more than 60 seconds ago
  drains,   \* worker -> its transaction
  crashes   \* how many transactions were lost

vars == <<calls, bills, ref, ledger, received, old, drains, crashes>>

Serial == INSTANCE SerialLedger WITH
  applied <- {e \in Event : ledger[e] = "applied"},
  givenUp <- {e \in Event : ledger[e] = "given_up"}

-----------------------------------------------------------------------------
(* A transaction: the event rows it has locked, those still to do, and its own *)
(* versions of calls, charges and events.                                      *)

NoTransaction ==
  [pc |-> "asleep", rows |-> {}, todo |-> {},
   calls |-> [c \in Call |-> Untouched],
   bills |-> [c \in Call |-> 0],
   marks |-> [e \in Event |-> Untouched]]

Init ==
  /\ calls = [c \in Call |-> "RESERVED"]
  /\ bills = [c \in Call |-> 0]
  /\ ref = {}
  /\ ledger = [e \in Event |-> "unapplied"]
  /\ received \in Backlogs
  /\ old = {}
  /\ drains = [d \in Drain |-> NoTransaction]
  /\ crashes = 0

Unapplied(e) == ledger[e] \in {"unapplied", "unknown"}

\* FOR UPDATE locks an event's row, an update of its call the call's row.
EventLocked(e) == \E d \in Drain : e \in drains[d].rows
Holds(d, c) == drains[d].calls[c] # Untouched

\* What the transaction sees.
Sees(d, c) == IF Holds(d, c) THEN drains[d].calls[c] ELSE calls[c]

\* fetch_unapplied: the oldest unapplied events no other drain has locked.
Fetch(d) ==
  LET free == {e \in Event : Unapplied(e) /\ ~EventLocked(e)}
      batch == {e \in free :
                  Cardinality({f \in free : received[f] < received[e]}) < Limit}
  IN
  /\ drains[d].pc = "asleep"
  /\ batch # {}
  /\ drains' = [drains EXCEPT ![d] =
                  [NoTransaction EXCEPT !.pc = "reading", !.rows = batch, !.todo = batch]]
  /\ UNCHANGED <<calls, bills, ref, ledger, received, old, crashes>>

Known(e) == e.type \in CallState

\* The event of the batch whose turn it is: events are taken by received_at.
IsNext(d, e) ==
  /\ e \in drains[d].todo
  /\ \A f \in drains[d].todo : received[e] <= received[f]

\* It is done with, and marked or left as it is.
Done(tx, e, mark) ==
  [tx EXCEPT !.pc = "reading", !.todo = tx.todo \ {e}, !.marks[e] = mark]

\* apply_one up to its first update: the call is looked up and can_apply asked.
\* An event type that is no CallState raises, which drain logs and passes over.
Read(d) ==
  LET tx == drains[d] IN
  /\ tx.pc = "reading"
  /\ \E e \in Event :
       /\ IsNext(d, e)
       /\ \/ /\ e.call \notin ref
             /\ drains' = [drains EXCEPT ![d] = Done(tx, e, "unknown")]
          \/ /\ e.call \in ref /\ ~Known(e)
             /\ drains' = [drains EXCEPT ![d] = Done(tx, e, Untouched)]
          \/ /\ e.call \in ref /\ Known(e) /\ ~CanApply(Sees(d, e.call), e.type)
             /\ drains' = [drains EXCEPT ![d] = Done(tx, e, "applied")]
          \/ /\ e.call \in ref /\ Known(e) /\ CanApply(Sees(d, e.call), e.type)
             /\ drains' = [drains EXCEPT ![d].pc = "updating"]
  /\ UNCHANGED <<calls, bills, ref, ledger, received, old, crashes>>

\* (Mistake: the update trusts what was read.)
StillRisesBlindly(state, type) == TRUE

\* ADVANCE's guard, on the row as it is once it is locked.
StillRises(state, type) == RANK[state] < RANK[type]

\* The agent is there when an answered call is bridged (Dialer has the other case).
Final(type) == IF type = "ANSWERED" THEN "CONNECTED" ELSE type

\* The update waits for a drain that holds the row; then the call advances, with
\* its side effects, or the event was lost to the other applier.
Advanced(tx, c, state) ==
  [tx EXCEPT !.calls[c] = state,
             !.bills[c] = tx.bills[c] + (IF state \in TERMINAL THEN 1 ELSE 0)]

Update(d) ==
  LET tx == drains[d] IN
  /\ tx.pc = "updating"
  /\ \E e \in Event :
       /\ IsNext(d, e)
       /\ \A f \in Drain \ {d} : ~Holds(f, e.call)
       /\ \/ /\ StillRises(Sees(d, e.call), e.type)
             /\ drains' = [drains EXCEPT ![d] =
                             Advanced(Done(tx, e, "applied"), e.call, Final(e.type))]
          \/ /\ ~StillRises(Sees(d, e.call), e.type)
             /\ drains' = [drains EXCEPT ![d] = Done(tx, e, "applied")]
  /\ UNCHANGED <<calls, bills, ref, ledger, received, old, crashes>>

\* (Mistake: the mark of an event that was left alone is written, too.)
MarksAll(d, e) == drains[d].marks[e]

\* What the transaction makes of an event's row.
Marked(d, e) == IF drains[d].marks[e] = Untouched THEN ledger[e] ELSE drains[d].marks[e]

\* (Mistake: give_up_unknown is not called.)
GivesUpNothing(d) == {}

\* GIVE_UP_UNKNOWN: every old event of an unknown call, in the batch or not.
GivesUp(d) == {e \in old : Marked(d, e) = "unknown"}

BatchDone(d) == drains[d].pc = "reading" /\ drains[d].todo = {}

\* give_up_unknown waits for events another drain has locked; then all is written.
Commit(d) ==
  LET tx == drains[d] IN
  /\ BatchDone(d)
  /\ \A f \in Drain \ {d} : GivesUp(d) \cap drains[f].rows = {}
  /\ ledger' = [e \in Event |-> IF e \in GivesUp(d) THEN "given_up" ELSE Marked(d, e)]
  /\ calls' = [c \in Call |-> Sees(d, c)]
  /\ bills' = [c \in Call |-> bills[c] + tx.bills[c]]
  /\ drains' = [drains EXCEPT ![d] = NoTransaction]
  /\ UNCHANGED <<ref, received, old, crashes>>

WaitsFor(d, f) ==
  \/ drains[d].pc = "updating" /\ \E e \in Event : IsNext(d, e) /\ Holds(f, e.call)
  \/ BatchDone(d) /\ GivesUp(d) \cap drains[f].rows # {}

\* Postgres ends a deadlock with an error for one of the two.  The error of one
\* event is caught, but its transaction is aborted: every statement after it
\* fails, too, and all of the batch is rolled back for a later drain.
Abort(d) == drains' = [drains EXCEPT ![d] = NoTransaction]

Deadlock(d) ==
  /\ \E f \in Drain \ {d} : WaitsFor(d, f) /\ WaitsFor(f, d)
  /\ Abort(d)
  /\ UNCHANGED <<calls, bills, ref, ledger, received, old, crashes>>

\* So does any other error of the database, and the worker's death.
Crash(d) ==
  /\ drains[d].pc # "asleep"
  /\ crashes < MaxCrashes
  /\ crashes' = crashes + 1
  /\ Abort(d)
  /\ UNCHANGED <<calls, bills, ref, ledger, received, old>>

-----------------------------------------------------------------------------
(* The rest of the system.                                                     *)

\* 60 seconds are longer than any lease: by then the call is recorded, or over.
\* Only an event of an unknown call is ever asked for its age.
Age(e) ==
  /\ \E d \in Drain : Marked(d, e) = "unknown"
  /\ e \notin old
  /\ calls[e.call] # "RESERVED"
  /\ old' = old \cup {e}
  /\ UNCHANGED <<calls, bills, ref, ledger, received, drains, crashes>>

\* The allocator records the call; a refusal, the reaper or the pullback ends it.
\* They wait for the row, too.
Record(c) ==
  /\ calls[c] = "RESERVED"
  /\ calls' = [calls EXCEPT ![c] = "INITIATED"]
  /\ ref' = ref \cup {c}
  /\ UNCHANGED <<bills, ledger, received, old, drains, crashes>>

End(c, from, to) ==
  /\ calls[c] \in from
  /\ \A d \in Drain : ~Holds(d, c)
  /\ calls' = [calls EXCEPT ![c] = to]
  /\ bills' = [bills EXCEPT ![c] = @ + 1]
  /\ UNCHANGED <<ref, ledger, received, old, drains, crashes>>

Elsewhere(c) ==
  \/ Record(c)
  \/ End(c, {"RESERVED", "INITIATED"}, "FAILED")
  \/ End(c, {"INITIATED", "RINGING"}, "CANCELLED")

-----------------------------------------------------------------------------
DrainStep(d) == Fetch(d) \/ Read(d) \/ Update(d) \/ Commit(d)

Next ==
  \/ \E d \in Drain : DrainStep(d) \/ Deadlock(d) \/ Crash(d)
  \/ \E e \in Event : Age(e)
  \/ \E c \in Call : Elsewhere(c)

Spec == Init /\ [][Next]_vars

\* What keeps running: the drains, Postgres' deadlock detection, time, and the
\* allocator or the reaper, one of which settles every reserved call.  Strong,
\* because a transaction that waits for a row is woken when it is released, and a
\* drain that is rolled back sleeps before it comes back for the same rows.
Fairness ==
  /\ \A d \in Drain : WF_vars(Fetch(d)) /\ WF_vars(Read(d)) /\ SF_vars(Update(d) \/ Commit(d))
  /\ WF_vars(\E d \in Drain : Deadlock(d))
  /\ \A e \in Event : WF_vars(Age(e))
  /\ \A c \in Call : WF_vars(calls[c] = "RESERVED" /\ Elsewhere(c))

FairSpec == Spec /\ Fairness

-----------------------------------------------------------------------------
(* What the code promises.                                                     *)

\* Every variable has a value of its type.
DrainTypeOK ==
  /\ calls \in [Call -> CallState]
  /\ bills \in [Call -> Nat]
  /\ ref \subseteq Call /\ old \subseteq Event
  /\ ledger \in [Event -> {"unapplied", "unknown", "applied", "given_up"}]
  /\ received \in [Event -> Nat]
  /\ \A d \in Drain :
       /\ drains[d].pc \in {"asleep", "reading", "updating"}
       /\ drains[d].rows \subseteq Event /\ drains[d].todo \subseteq drains[d].rows
       /\ drains[d].calls \in [Call -> CallState \cup {Untouched}]
       /\ drains[d].bills \in [Call -> Nat]
       /\ drains[d].marks \in [Event -> {Untouched, "unknown", "applied"}]
  /\ crashes \in Nat

\* I5 under concurrency: whatever two drains read, wait for and lose to each other
\* or to the allocator, what they commit is what applying the events one at a
\* time would do - the step Dialer is made of.
DrainsAreSerial == Serial!SerialSpec

\* The borrower of a call is charged exactly once, when it ends, by whoever ends it.
ChargedOnce == \A c \in Call : bills[c] = IF calls[c] \in TERMINAL THEN 1 ELSE 0

\* The backlog of events a drain understands is bounded, as long as those it does
\* not are fewer than the limit, and drains do not meet in a deadlock for ever:
\* each is applied or given up, although batches are rolled back.
DeadlocksEnd == <>[][\A d \in Drain : ~Deadlock(d)]_vars
KnownEventsLeave ==
  DeadlocksEnd => \A e \in Event : Known(e) /\ Unapplied(e) ~> ~Unapplied(e)
=============================================================================
