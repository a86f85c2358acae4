--------------------------- MODULE VirtualClock ---------------------------
(* The simulator's clock: tasks sleep on it, and run_until - the driver - lets *)
(* time jump to the next deadline.  All of them share one event loop, which    *)
(* runs one task at a time until it awaits something, and runs what is ready   *)
(* before it resumes the driver.                                               *)
EXTENDS Integers, FiniteSetsExt

CONSTANTS
  Task,   \* the tasks that may sleep on the clock
  End,    \* the time run_until is called with; the clock starts at 0
  Awake   \* the deadline of a task that does not sleep

ASSUME ClockAssumption ==
  /\ End \in Nat \ {0}
  /\ Awake \notin Nat

VARIABLES
  now,       \* the time
  deadline,  \* task -> when its sleep ends
  ready,     \* the tasks that will run before anything else does
  critical,  \* how many critical sections are open
  driver     \* where run_until is

clockVars == <<now, deadline, ready, critical, driver>>

\* The tasks the clock holds a waiter of.
Waiting == {t \in Task : deadline[t] # Awake}

ClockInit(started) ==
  /\ now = 0
  /\ deadline = [t \in Task |-> Awake]
  /\ ready = started
  /\ critical = 0
  /\ driver = "advancing"

-----------------------------------------------------------------------------
(* What a task does with the clock.                                            *)

Sleep(t, seconds) == deadline' = [deadline EXCEPT ![t] = now + seconds]

Enter == critical' = critical + 1

\* (Mistake: a body that raises does not leave its critical section.)
LeaveNot == UNCHANGED critical

\* The finally branch: however the body ends.
Leave == critical' = critical - 1

-----------------------------------------------------------------------------
(* What the driver does: run_until and advance_to_next.                        *)

\* (Mistake: the critical sections are not waited for.)
SettledAtOnce == TRUE

\* Phase 1 ends when no critical section is open.
Settled == critical = 0

\* (Mistake: the waiters are a stack instead of a heap.)
LastDeadline == Max({deadline[t] : t \in Waiting})

NextDeadline == Min({deadline[t] : t \in Waiting})

\* The jump: time is the next deadline, and every task that is due is ready.
Jump ==
  LET then == NextDeadline
      due == {t \in Waiting : deadline[t] <= then}
  IN
  /\ Waiting # {}
  /\ now' = then
  /\ deadline' = [t \in Task |-> IF t \in due THEN Awake ELSE deadline[t]]
  /\ ready' = ready \cup due
  /\ driver' = "yielding"
  /\ UNCHANGED critical

\* After phase 1 the driver jumps, or has to look for a waiter.
Advance ==
  /\ driver = "advancing"
  /\ ready = {}
  /\ Settled
  /\ Jump

LookForWaiter ==
  /\ driver = "advancing"
  /\ Settled
  /\ Waiting = {}
  /\ driver' = "looking"
  /\ UNCHANGED <<now, deadline, ready, critical>>

\* Phase 2: a waiter turns up, or the budget runs out - which lasts longer than
\* what is ready, but perhaps not longer than a task's I/O.
FindWaiter ==
  /\ driver = "looking"
  /\ ready = {}
  /\ Jump

GiveUp ==
  /\ driver = "looking"
  /\ ready = {}
  /\ Waiting = {}
  /\ driver' = "over"
  /\ UNCHANGED <<now, deadline, ready, critical>>

\* The sleep(0) after a jump: the driver is back when what was ready has run, and
\* goes on until the time is up.
Resume ==
  /\ driver = "yielding"
  /\ ready = {}
  /\ driver' = IF now < End THEN "advancing" ELSE "over"
  /\ UNCHANGED <<now, deadline, ready, critical>>

Drive == Advance \/ LookForWaiter \/ FindWaiter \/ GiveUp \/ Resume

-----------------------------------------------------------------------------
ClockTypeOK ==
  /\ now \in Nat
  /\ deadline \in [Task -> Nat \cup {Awake}]
  /\ ready \in SUBSET Task
  /\ critical \in Nat
  /\ driver \in {"advancing", "looking", "yielding", "over", "cancelling", "closed", "failed"}

\* Whoever sleeps is woken exactly when its sleep ends, neither early nor late,
\* whatever the other tasks and their critical sections do meanwhile.
WokenOnTime ==
  [][\A t \in Task : t \notin ready /\ t \in ready' /\ deadline[t] # Awake =>
       now' = deadline[t]]_clockVars
=============================================================================
