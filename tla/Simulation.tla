---------------------------- MODULE Simulation ----------------------------
(* One scenario of the simulator on its virtual clock: run_scenario drives the *)
(* clock, the tick loop works and records a row per tick, each call it places  *)
(* lives its own life at the mock provider, whose webhooks go to the ledger,   *)
(* and an injector takes the provider down for a while.  What a tick decides   *)
(* and what an event does to a call are PacingLoop's and Dialer's business.    *)
EXTENDS VirtualClock, SequencesExt

CONSTANTS
  Call,      \* the calls that may be placed
  Loop,      \* the task of the tick loop
  Injector,  \* the task of ProviderOutage
  TickS,     \* tick_s
  RingS,     \* ring_before_answer_s
  Talks,     \* what the talk time sampler may give
  OutageAt,  \* ProviderOutage.at
  OutageS,   \* ProviderOutage.dur
  Nothing    \* an empty slot of _held

ASSUME SimulationAssumption ==
  /\ Task = Call \cup {Loop, Injector}
  /\ Loop # Injector /\ {Loop, Injector} \cap Call = {}
  /\ {TickS, RingS, OutageAt, OutageS} \cup Talks \subseteq Nat \ {0}

VARIABLES
  loop,      \* where the tick loop is
  ticks,     \* tick_i
  rows,      \* how many rows are recorded
  outage,    \* outage_until
  life,      \* call -> its lifecycle task
  line,      \* call -> what has happened to its phone
  held,      \* call -> the event type _emit holds back
  out,       \* call -> the event types it is delivering
  reported   \* what the ledger knows: <<call, event type>>

loopVars == <<loop, ticks, rows, outage>>
callVars == <<life, line, held, out, reported>>
vars == <<clockVars, loopVars, callVars>>

Phone == INSTANCE PhoneLine

\* The events a mock sends, by their name in EVENT_MAP.
EventType == {"RINGING", "ANSWERED", "COMPLETED", "FAILED"}

ASSUME NothingAssumption == Nothing \notin EventType

Init ==
  /\ ClockInit({Loop, Injector})
  /\ loop = "new"
  /\ ticks = 0
  /\ rows = 0
  /\ outage = 0
  /\ life = [c \in Call |-> "none"]
  /\ held = [c \in Call |-> Nothing]
  /\ out = [c \in Call |-> <<>>]
  /\ Phone!PhoneInit

\* What is ready runs once, up to where it awaits something.
Runs(t) == t \in ready /\ ready' = ready \ {t}

\* I/O has come back to the loop since it awaited it: what was ready then, the
\* driver included, has run.
IODone == driver \notin {"yielding", "over"} /\ ready \subseteq Call

-----------------------------------------------------------------------------
(* The tick loop and the injector.                                             *)

LoopSleeps == Sleep(Loop, TickS) /\ loop' = "sleeping"

LoopStarts ==
  /\ loop = "new"
  /\ Runs(Loop)
  /\ LoopSleeps
  /\ UNCHANGED <<now, critical, driver, ticks, rows, outage, callVars>>

TickBegins ==
  /\ loop = "sleeping"
  /\ Runs(Loop)
  /\ Enter
  /\ loop' = "working"
  /\ ticks' = ticks + 1
  /\ UNCHANGED <<now, deadline, driver, rows, outage, callVars>>

\* The allocator's place_call, which comes after I/O of the tick: the mock takes
\* the call, unless it is down, and starts its lifecycle.
PlaceCall(c) ==
  /\ loop = "working"
  /\ IODone
  /\ life[c] = "none"
  /\ now >= outage
  /\ life' = [life EXCEPT ![c] = "running"]
  /\ ready' = ready \cup {c}
  /\ UNCHANGED <<now, deadline, critical, driver, loopVars, line, held, out, reported>>

\* The row is appended, the critical section left, and the loop sleeps again.
TickEnds ==
  /\ loop = "working"
  /\ IODone /\ ready = {}
  /\ rows' = rows + 1
  /\ Leave
  /\ LoopSleeps
  /\ UNCHANGED <<now, ready, driver, ticks, outage, callVars>>

\* An error no one catches - an allocation's UniqueViolationError, for one - ends
\* the loop's task.
TickRaises ==
  /\ loop = "working"
  /\ IODone /\ ready = {}
  /\ loop' = "dead"
  /\ Leave
  /\ UNCHANGED <<now, deadline, ready, driver, ticks, rows, outage, callVars>>

InjectorStarts ==
  /\ now = 0
  /\ Runs(Injector)
  /\ Sleep(Injector, OutageAt)
  /\ UNCHANGED <<now, critical, driver, loopVars, callVars>>

\* (Mistake: the duration is taken for a time.)
OutageUntilDuration == OutageS

\* trigger_outage: the outage lasts from now on.
OutageUntil == now + OutageS

OutageBegins ==
  /\ now > 0
  /\ Runs(Injector)
  /\ outage' = OutageUntil
  /\ UNCHANGED <<now, deadline, critical, driver, loop, ticks, rows, callVars>>

-----------------------------------------------------------------------------
(* A call's lifecycle at the mock provider.                                    *)

\* (Mistake: all calls of a provider share one slot.)
OneSlot(c) == CHOOSE d \in Call : TRUE

\* _held is keyed by the provider's call id.
SlotOf(c) == c

\* The mock hands over what it held together with the next event, in either order.
Pair(a, b) == {<<a, b>>, <<b, a>>}

\* _emit, for an event or its duplicate too: what is held afterwards, and what is
\* delivered first.
Emissions(keeps, e) ==
  IF keeps = Nothing
  THEN {[held |-> e, out |-> <<>>], [held |-> Nothing, out |-> <<e, e>>]}
  ELSE [held : {Nothing, e}, out : Pair(keeps, e)]

\* (Mistake: what is still held at the end stays there.)
NotFlushed(em) == em

\* (Mistake: an empty slot is delivered, too.)
FlushedEvenEmpty(em) == [held |-> Nothing, out |-> Append(em.out, em.held)]

\* _flush, after the last event.
Flushed(em) ==
  [held |-> Nothing, out |-> IF em.held = Nothing THEN em.out ELSE Append(em.out, em.held)]

\* With nothing (more) to deliver, a call sleeps until it is answered or hung up,
\* and is over when it has ended.
Settle(c, state) ==
  CASE state = "ringing"  -> Sleep(c, RingS) /\ UNCHANGED life
    [] state = "answered" -> (\E s \in Talks : Sleep(c, s)) /\ UNCHANGED life
    [] OTHER              -> UNCHANGED deadline /\ life' = [life EXCEPT ![c] = "over"]

\* The lifecycle runs from one sleep to the next await: the phone's new state is
\* emitted, with what _emit makes of it.
Proceed(c, from, to, ems) ==
  /\ life[c] = "running"
  /\ line[c] = from
  /\ Runs(c)
  /\ line' = [line EXCEPT ![c] = to]
  /\ \E em \in ems :
       /\ held' = [held EXCEPT ![SlotOf(c)] = em.held]
       /\ out' = [out EXCEPT ![c] = em.out]
       /\ IF em.out = <<>> THEN Settle(c, to) ELSE UNCHANGED <<deadline, life>>
  /\ UNCHANGED <<now, critical, driver, loopVars, reported>>

Emit(c, e) == Emissions(held[SlotOf(c)], e)
EmitLast(c, e) == {Flushed(em) : em \in Emit(c, e)}

Rings(c) == Proceed(c, "idle", "ringing", Emit(c, "RINGING"))
Answers(c) == Proceed(c, "ringing", "answered", Emit(c, "ANSWERED"))
NoAnswer(c) == Proceed(c, "ringing", "unanswered", EmitLast(c, "FAILED"))
HangsUp(c) == Proceed(c, "answered", "completed", EmitLast(c, "COMPLETED"))

\* WebhookSink.deliver: a transaction, of which an event with a known id changes
\* nothing; after the last one the lifecycle goes on.
Deliver(c) ==
  /\ life[c] = "running"
  /\ out[c] # <<>>
  /\ reported' = reported \cup {<<c, Head(out[c])>>}
  /\ out' = [out EXCEPT ![c] = Tail(@)]
  /\ IF Len(out[c]) = 1 THEN Settle(c, line[c]) ELSE UNCHANGED <<deadline, life>>
  /\ UNCHANGED <<now, ready, critical, driver, loopVars, line, held>>

-----------------------------------------------------------------------------
(* The end of run_scenario.                                                    *)

\* The loop is cancelled, in the middle of a tick if it is in one; if it has died
\* its error is raised here and nothing else is cancelled.
CancelLoop ==
  /\ driver = "over"
  /\ IF loop = "dead"
     THEN driver' = "failed" /\ UNCHANGED <<critical, loop>>
     ELSE /\ driver' = "cancelling"
          /\ loop' = "cancelled"
          /\ IF loop = "working" THEN Leave ELSE UNCHANGED critical
  /\ deadline' = [deadline EXCEPT ![Loop] = Awake]
  /\ UNCHANGED <<now, ready, ticks, rows, outage, callVars>>

\* Lifecycles still running are cancelled, with all they hold or are delivering.
CancelCalls ==
  /\ driver = "cancelling"
  /\ driver' = "closed"
  /\ life' = [c \in Call |-> IF life[c] = "running" THEN "cancelled" ELSE life[c]]
  /\ deadline' = [t \in Task |-> IF t \in Call THEN Awake ELSE deadline[t]]
  /\ ready' = ready \ Call
  /\ UNCHANGED <<now, critical, loopVars, line, held, out, reported>>

-----------------------------------------------------------------------------
Running == Drive /\ UNCHANGED <<loopVars, callVars>>
LoopStep == LoopStarts \/ TickBegins \/ TickEnds \/ TickRaises
InjectorStep == InjectorStarts \/ OutageBegins
CallStep(c) == Rings(c) \/ Answers(c) \/ NoAnswer(c) \/ HangsUp(c) \/ Deliver(c)

Next ==
  \/ LoopStep \/ \E c \in Call : PlaceCall(c)
  \/ InjectorStep
  \/ \E c \in Call : CallStep(c)
  \/ Running
  \/ CancelLoop \/ CancelCalls

Spec == Init /\ [][Next]_vars

\* The event loop runs what is ready, I/O comes back, and the driver goes on.
Fairness ==
  /\ WF_vars(LoopStep) /\ WF_vars(InjectorStep)
  /\ \A c \in Call : WF_vars(CallStep(c))
  /\ WF_vars(Running) /\ WF_vars(CancelLoop) /\ WF_vars(CancelCalls)

FairSpec == Spec /\ Fairness

-----------------------------------------------------------------------------
(* What the code promises.                                                     *)

\* Every variable has a value of its type.
SimulationTypeOK ==
  /\ ClockTypeOK
  /\ loop \in {"new", "sleeping", "working", "dead", "cancelled"}
  /\ ticks \in Nat /\ rows \in Nat /\ outage \in Nat
  /\ life \in [Call -> {"none", "running", "over", "cancelled"}]
  /\ line \in [Call -> Phone!LineState]
  /\ held \in [Call -> EventType \cup {Nothing}]
  /\ out \in [Call -> Seq(EventType)]
  /\ reported \subseteq Call \X EventType

\* However long the I/O of a tick takes and whatever else sleeps on the clock,
\* tick k happens at k times tick_s, all of it: time neither skips a tick nor
\* passes under one.
TicksOnSchedule == loop = "working" => now = ticks * TickS

\* The mock delivers, for a call, only what has happened to that very call, in
\* whatever order and number: it is one of the providers the core is made for.
MockIsAProvider == Phone!PhoneSpec

\* A call that has lived to its end has reported all that happened to it: the
\* held event is never forgotten.
EndedCallsAreReported ==
  \A c \in Call : life[c] = "over" =>
    \A type \in Phone!Happened(line[c]) : <<c, type>> \in reported

\* While the provider is down no call is placed: the injector's deadline is never
\* jumped over by a tick.
NoCallInOutage ==
  [][\A c \in Call : life[c] = "none" /\ life'[c] # "none" =>
       ~(OutageAt <= now /\ now < OutageAt + OutageS)]_vars

\* A run that comes to its end has recorded a row for every tick before its end.
EveryTickRecorded == driver = "closed" => rows = (End - 1) \div TickS

\* The run comes to its end: it never waits for ever on the clock - not even after
\* a tick that raised.
SimulationEnds == <>(driver \in {"closed", "failed"})
=============================================================================
