-------------------------- MODULE DialerPoolProofs --------------------------
(* The proof that the dialling core implements AgentPool: every transaction of *)
(* a punctual worker is one step of the cycle of one agent, a sweep of several *)
(* or a stutter.                                                               *)
EXTENDS DialerPool, DialerProofs

-----------------------------------------------------------------------------
(* The stage of an agent under the inductive invariant.                        *)

\* An agent with a live call is in the stage of that call.
LEMMA StageOfLive ==
  ASSUME IInv, NEW c \in CallId, Live(c)
  PROVE  /\ calls[c].agent \in Agent
         /\ calls[c].state \in {"RESERVED", "INITIATED", "RINGING", "CONNECTED"}
         /\ StageOf(calls[c].agent) = calls[c].state
<1>1. calls[c].state \in {"RESERVED", "INITIATED", "RINGING", "CONNECTED"}
  BY RankValues DEF IInv, TypeOK, CallsAtRest, Live, Exists, CallState
<1>2. /\ calls[c].agent \in Agent
      /\ agents[calls[c].agent].state = Serving(calls[c].state)
      /\ agents[calls[c].agent].state = "DIALING" => agents[calls[c].agent].call = c
  BY DEF IInv, LiveCallHasItsAgent
<1> QED
  BY <1>1, <1>2 DEF StageOf, Serving

\* One who dials does so for a live call of its own.
LEMMA DialledCall ==
  ASSUME IInv, NEW a \in Agent, agents[a].state = "DIALING"
  PROVE  /\ agents[a].call \in CallId
         /\ Live(agents[a].call)
         /\ calls[agents[a].call].agent = a
<1>1. PICK c \in CallId : Live(c) /\ calls[c].agent = a
  BY DEF IInv, BusyAgentHasACall
<1>2. agents[a].call = c
  BY <1>1 DEF IInv, LiveCallHasItsAgent
<1> QED
  BY <1>1, <1>2

\* An agent stays in its stage if neither its row nor the state of its live call
\* changes.
LEMMA StageStays ==
  ASSUME IInv, NEW a \in Agent,
         agents'[a].state = agents[a].state, agents'[a].call = agents[a].call,
         \A c \in CallId : Live(c) /\ calls[c].agent = a => calls'[c].state = calls[c].state
  PROVE  StageOf(a)' = StageOf(a)
<1>1. CASE agents[a].state = "DIALING"
  BY <1>1, DialledCall DEF StageOf
<1>2. CASE agents[a].state # "DIALING"
  BY <1>2 DEF StageOf
<1> QED
  BY <1>1, <1>2

\* So only the agent of a call whose state changes is affected.
LEMMA OthersStay ==
  ASSUME IInv, NEW a \in Agent,
         \A x \in Agent \ {a} : agents'[x] = agents[x],
         \A c \in CallId : Live(c) /\ calls[c].agent # a => calls'[c].state = calls[c].state
  PROVE  \A x \in Agent \ {a} : StageOf(x)' = StageOf(x)
BY StageStays

\* A step of one agent, as AgentPool has it.
LEMMA OneMoves ==
  ASSUME NEW a \in Agent, NEW from, NEW to, StageOf(a) \in from, StageOf(a)' = to,
         \A x \in Agent \ {a} : StageOf(x)' = StageOf(x)
  PROVE  Pool!Move(a, from, to)
BY DEF Pool!Move

\* No stage changes.
LEMMA NobodyMoves ==
  ASSUME \A a \in Agent : StageOf(a)' = StageOf(a)
  PROVE  UNCHANGED [a \in Agent |-> StageOf(a)]
OBVIOUS

-----------------------------------------------------------------------------
(* Which step of AgentPool each transaction is.                                *)

LEMMA ReserveBooks ==
  ASSUME IInv, NEW s \in Slot, NEW a \in Agent, NEW b \in Borrower, Reserve(s, a, b)
  PROVE  Pool!Book(a)
<1>1. /\ agents[a].state = "AVAILABLE" /\ agents'[a].state = "RESERVED"
      /\ \A x \in Agent \ {a} : agents'[x] = agents[x]
  BY DEF Reserve, IInv, TypeOK
<1>2. \A c \in CallId : Live(c) => calls'[c].state = calls[c].state
  BY DEF Reserve, IInv, TypeOK, Live
<1>3. StageOf(a) = "AVAILABLE" /\ StageOf(a)' = "RESERVED"
  BY <1>1 DEF StageOf
<1> QED
  BY <1>1, <1>2, <1>3, OthersStay, OneMoves DEF Pool!Book

\* The call of a coroutine in flight keeps its agent reserved.
LEMMA CleanupRefuses ==
  ASSUME IInv, NEW s \in Slot, RejectCleanup(s)
  PROVE  \E a \in Agent : Pool!Refuse(a)
<1>1. InFlight(s)
  BY DEF RejectCleanup, InFlight
<1>2. PICK c \in CallId, a \in Agent :
        /\ c = slots[s].call /\ a = calls[c].agent
        /\ Live(c) /\ calls[c].state = "RESERVED"
  BY <1>1, InFlightFacts
<1>3. /\ agents'[a].state = "AVAILABLE"
      /\ \A x \in Agent \ {a} : agents'[x] = agents[x]
      /\ \A d \in CallId \ {c} : calls'[d] = calls[d]
  BY <1>2 DEF RejectCleanup, Released, ForceState, IInv, TypeOK
<1>4. StageOf(a) = "RESERVED" /\ StageOf(a)' = "AVAILABLE"
  BY <1>2, <1>3, StageOfLive DEF StageOf
<1> QED
  BY <1>2, <1>3, <1>4, OthersStay, OneMoves DEF Pool!Refuse

LEMMA RecordDials ==
  ASSUME IInv, NEW s \in Slot, RecordInitiated(s)
  PROVE  \E a \in Agent : Pool!Dial(a)
<1>1. InFlight(s)
  BY DEF RecordInitiated, InFlight
<1>2. PICK c \in CallId, a \in Agent :
        /\ c = slots[s].call /\ a = calls[c].agent
        /\ Live(c) /\ calls[c].state = "RESERVED"
  BY <1>1, InFlightFacts
<1>3. /\ agents'[a].state = "DIALING" /\ agents'[a].call = c
      /\ \A x \in Agent \ {a} : agents'[x] = agents[x]
      /\ \A d \in CallId \ {c} : calls'[d] = calls[d]
  BY <1>2 DEF RecordInitiated, ForceState, IInv, TypeOK
<1>4. calls'[c].state = "INITIATED"
  BY <1>2, RankValues DEF RecordInitiated, Advance, IInv, TypeOK
<1>5. StageOf(a) = "RESERVED" /\ StageOf(a)' = "INITIATED"
  BY <1>2, <1>3, <1>4, StageOfLive DEF StageOf
<1> QED
  BY <1>2, <1>3, <1>5, OthersStay, OneMoves DEF Pool!Dial

LEMMA PullbackLoses ==
  ASSUME IInv, NEW c \in CallId, PullbackCancel(c)
  PROVE  \E a \in Agent : Pool!Lose(a)
<1>1. Live(c) /\ calls[c].state \in {"INITIATED", "RINGING"}
  BY RankValues DEF PullbackCancel, Live, Exists
<1>2. PICK a \in Agent : a = calls[c].agent /\ StageOf(a) \in {"INITIATED", "RINGING"}
  BY <1>1, StageOfLive
<1>3. /\ agents'[a].state = "AVAILABLE"
      /\ \A x \in Agent \ {a} : agents'[x] = agents[x]
      /\ \A d \in CallId \ {c} : calls'[d] = calls[d]
  BY <1>2 DEF PullbackCancel, Released, ForceState, IInv, TypeOK
<1>4. StageOf(a)' = "AVAILABLE"
  BY <1>3 DEF StageOf
<1> QED
  BY <1>2, <1>3, <1>4, OthersStay, OneMoves DEF Pool!Lose, Pool!OnTheLine, Pool!Ringing

\* An event that moves its call moves the call's agent.
LEMMA EventMoves ==
  ASSUME IInv, NEW e \in Event, ApplyAccepted(e)
  PROVE  \E a \in Agent : Pool!Ring(a) \/ Pool!Bridge(a) \/ Pool!Complete(a) \/ Pool!Lose(a)
<1>0. PICK c \in CallId : c = e.call
  BY DEF Event
<1>1. Live(c) /\ CanApply(calls[c].state, e.type) /\ calls[c].state # "RESERVED"
  BY <1>0, RankValues
     DEF ApplyAccepted, CanApply, IInv, TypeOK, CallsAtRest, Live, Exists, CallState, TERMINAL_RANK
<1>2. PICK a \in Agent :
        /\ a = calls[c].agent /\ StageOf(a) = calls[c].state
        /\ calls[c].state \in {"INITIATED", "RINGING", "CONNECTED"}
  BY <1>1, StageOfLive
<1>3. /\ calls[c] \in CallRow
      /\ \A d \in CallId \ {c} : calls'[d] = calls[d]
      /\ \A x \in Agent \ {a} : agents'[x] = agents[x]
  BY <1>0, <1>2 DEF ApplyAccepted, IInv, TypeOK, CallRow
<1>4. \A x \in Agent \ {a} : StageOf(x)' = StageOf(x)
  BY <1>2, <1>3, OthersStay
<1>5. CASE e.type = "RINGING"
  <2>1. calls[c].state = "INITIATED" /\ FinalState(c, "RINGING") = "RINGING"
    BY <1>1, <1>2, <1>5, RankValues DEF CanApply, FinalState
  <2>2. calls'[c].state = "RINGING"
    BY <1>0, <1>3, <1>5, <2>1, RankValues DEF ApplyAccepted, Advance, IInv, TypeOK
  <2>3. agents' = agents
    BY <1>0, <1>5, <2>1, AgentOnCallState, RankValues DEF ApplyAccepted
  <2>4. agents[a].state = "DIALING" /\ agents[a].call = c
    BY <1>1, <1>2, <2>1 DEF IInv, LiveCallHasItsAgent, Serving
  <2>5. StageOf(a)' = "RINGING"
    BY <2>2, <2>3, <2>4 DEF StageOf
  <2> QED
    BY <1>2, <1>4, <2>1, <2>5, OneMoves DEF Pool!Ring
<1>6. CASE e.type = "ANSWERED"
  <2>1. calls[c].state \in {"INITIATED", "RINGING"}
    BY <1>1, <1>2, <1>6, RankValues DEF CanApply
  <2>2. agents[a].state = "DIALING" /\ agents[a].call = c
    BY <1>1, <1>2, <2>1 DEF IInv, LiveCallHasItsAgent, Serving
  <2>3. FinalState(c, "ANSWERED") = "CONNECTED"
    BY <1>2, <2>2 DEF FinalState, Bridged
  <2>4. agents'[a].state = "CONNECTED"
    BY <1>0, <1>2, <1>6, <2>3, AgentOnCallState DEF ApplyAccepted, ForceState, IInv, TypeOK
  <2>5. StageOf(a)' = "CONNECTED"
    BY <2>4 DEF StageOf
  <2> QED
    BY <1>2, <1>4, <2>1, <2>5, OneMoves DEF Pool!Bridge, Pool!Ringing
<1>7. CASE e.type = "COMPLETED"
  <2>1. FinalState(c, e.type) = "COMPLETED"
    BY <1>7 DEF FinalState
  <2>2. agents'[a].state = "WRAP_UP"
    BY <1>0, <1>2, <2>1, AgentOnCallState DEF ApplyAccepted, ForceState, IInv, TypeOK
  <2>3. StageOf(a)' = "WRAP_UP"
    BY <2>2 DEF StageOf
  <2> QED
    BY <1>2, <1>4, <2>3, OneMoves DEF Pool!Complete, Pool!OnTheLine, Pool!Ringing
<1>8. CASE e.type = "FAILED"
  <2>1. FinalState(c, e.type) = "FAILED"
    BY <1>8 DEF FinalState
  <2>2. agents'[a].state = "AVAILABLE"
    BY <1>0, <1>2, <2>1, AgentOnCallState DEF ApplyAccepted, ForceState, IInv, TypeOK
  <2>3. StageOf(a)' = "AVAILABLE"
    BY <2>2 DEF StageOf
  <2> QED
    BY <1>2, <1>4, <2>3, OneMoves DEF Pool!Lose, Pool!OnTheLine, Pool!Ringing
<1> QED
  BY <1>5, <1>6, <1>7, <1>8 DEF Event, EventType

\* The reaper frees the agents of orphans, and those whose wrap-up is over.
LEMMA ReapSweeps ==
  ASSUME IInv, Reap
  PROVE  \E S \in SUBSET Agent : Pool!Sweep(S)
<1> DEFINE S == {a \in Agent : StageOf(a) \in {"RESERVED", "INITIATED", "WRAP_UP"} /\
                               agents'[a].state = "AVAILABLE"}
<1>1. ASSUME NEW a \in Agent
      PROVE  StageOf(a)' = IF a \in S THEN "AVAILABLE" ELSE StageOf(a)
  <2>1. agents'[a] = ReapAgent(a) /\ agents[a] \in AgentRow
    BY DEF Reap, IInv, TypeOK, AgentRow
  <2>2. CASE \E c \in Orphans : calls[c].agent = a
    <3>1. PICK c \in Orphans : calls[c].agent = a
      BY <2>2
    <3>2. c \in CallId /\ Live(c) /\ calls[c].state \in {"QUEUED", "RESERVED", "INITIATED"}
      BY OrphanFacts DEF Orphans
    <3>3. StageOf(a) \in {"RESERVED", "INITIATED"}
      BY <3>1, <3>2, StageOfLive
    <3>4. agents'[a].state = "AVAILABLE"
      BY <2>1, <2>2 DEF ReapAgent, Released, ForceState
    <3> QED
      BY <3>3, <3>4 DEF StageOf
  <2>3. CASE ~ \E c \in Orphans : calls[c].agent = a
    <3>1. agents'[a] = Reclaim(agents[a])
      BY <2>1, <2>3 DEF ReapAgent
    <3>2. \A c \in CallId : Live(c) /\ calls[c].agent = a => calls'[c].state = calls[c].state
      BY <2>3 DEF Reap, FailOrphan
    <3>3. CASE agents[a].state \in {"RESERVED", "WRAP_UP"} /\ Expired(agents[a].lease)
      <4>1. agents'[a].state = "AVAILABLE"
        BY <2>1, <3>1, <3>3 DEF Reclaim, Released, ForceState, AgentRow
      <4> QED
        BY <3>3, <4>1 DEF StageOf
    <3>4. CASE ~(agents[a].state \in {"RESERVED", "WRAP_UP"} /\ Expired(agents[a].lease))
      <4>1. agents'[a].state = agents[a].state /\ agents'[a].call = agents[a].call
        BY <2>1, <3>1, <3>4 DEF Reclaim, AgentRow
      <4>2. StageOf(a)' = StageOf(a)
        BY <3>2, <4>1, StageStays
      <4>3. a \notin S
        <5>1. CASE agents[a].state = "DIALING"
          BY <4>1, <5>1
        <5>2. CASE agents[a].state # "DIALING"
          BY <4>1, <5>2 DEF StageOf
        <5> QED
          BY <5>1, <5>2
      <4> QED
        BY <4>2, <4>3
    <3> QED
      BY <3>3, <3>4
  <2> QED
    BY <2>2, <2>3
<1> QED
  BY <1>1 DEF Pool!Sweep

\* Time moves nobody.
LEMMA TickStutters ==
  ASSUME IInv, Tick
  PROVE  \A a \in Agent : StageOf(a)' = StageOf(a)
<1>1. \A a \in Agent : agents'[a].state = agents[a].state /\ agents'[a].call = agents[a].call
  BY DEF Tick, IInv, TypeOK
<1>2. \A c \in CallId : calls'[c].state = calls[c].state
  BY DEF Tick, IInv, TypeOK
<1> QED
  BY <1>1, <1>2, StageStays

LEMMA PoolStep ==
  IInv /\ [PunctualNext]_vars => [Pool!PoolNext]_[a \in Agent |-> StageOf(a)]
<1> SUFFICES ASSUME IInv, [PunctualNext]_vars
             PROVE  [Pool!PoolNext]_[a \in Agent |-> StageOf(a)]
  OBVIOUS
<1>1. ASSUME NEW s \in Slot, NEW a \in Agent, NEW b \in Borrower, Reserve(s, a, b)
      PROVE  Pool!PoolNext
  BY <1>1, ReserveBooks DEF Pool!PoolNext
<1>2. ASSUME NEW s \in Slot, RejectCleanup(s) \/ RecordInitiated(s)
      PROVE  Pool!PoolNext
  BY <1>2, CleanupRefuses, RecordDials DEF Pool!PoolNext
<1>3. ASSUME NEW c \in CallId, PullbackCancel(c)
      PROVE  Pool!PoolNext
  BY <1>3, PullbackLoses DEF Pool!PoolNext
<1>4. ASSUME NEW e \in Event, ApplyAccepted(e)
      PROVE  Pool!PoolNext
  BY <1>4, EventMoves DEF Pool!PoolNext
<1>5. CASE Reap
  BY <1>5, ReapSweeps DEF Pool!PoolNext
<1>6. CASE Tick
  BY <1>6, TickStutters, NobodyMoves
<1>7. CASE UNCHANGED <<agents, calls>>
  BY <1>7, StageStays, NobodyMoves
<1>8. ASSUME NEW s \in Slot,
             PlaceAccepted(s) \/ PlaceFailed(s) \/ RecordGivesUp(s) \/ WorkerRestart(s)
      PROVE  UNCHANGED <<agents, calls>>
  BY <1>8 DEF PlaceAccepted, PlaceFailed, RecordGivesUp, WorkerRestart
<1>9. ASSUME NEW e \in Event, Ingest(e) \/ ApplyAnomaly(e) \/ GiveUpUnknown(e)
      PROVE  UNCHANGED <<agents, calls>>
  BY <1>9 DEF Ingest, ApplyAnomaly, GiveUpUnknown
<1>10. ASSUME NEW s \in Slot, NEW a \in Agent, NEW b \in Borrower, ReserveCollides(s, a, b)
       PROVE  UNCHANGED <<agents, calls>>
  BY <1>10 DEF ReserveCollides
<1>11. ASSUME NEW c \in CallId, Provider(c)
       PROVE  UNCHANGED <<agents, calls>>
  BY <1>11 DEF Provider, Answer, NoAnswer, HangUp
<1>12. CASE UNCHANGED vars
  BY <1>7, <1>12 DEF vars
<1> QED
  BY <1>1, <1>2, <1>3, <1>4, <1>5, <1>6, <1>7, <1>8, <1>9, <1>10, <1>11, <1>12
     DEF PunctualNext, Work, Allocate, ApplyOne

\* Punctual workers implement AgentPool: an agent the pacing side counts only ever
\* goes round its cycle, whatever is lost, late, repeated or killed below.
THEOREM DialerImplementsPool == PunctualSpec => ImplementsPool
<1>1. Init => Pool!PoolInit
  BY DEF Init, Pool!PoolInit, StageOf, Released, ForceState
<1> QED
  BY <1>1, PoolStep, InvariantHolds, PTL DEF PunctualSpec, ImplementsPool, Pool!PoolSpec
=============================================================================
