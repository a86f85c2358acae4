--------------------------- MODULE DialerProofs ---------------------------
(* Proofs about Dialer, for every set of agents, borrowers and coroutines,     *)
(* every number of attempts and all leases.                                    *)
EXTENDS Dialer, FiniteSetTheorems, TLAPS

-----------------------------------------------------------------------------
(* Facts about the tables of CallStates and the row updates.                   *)

LEMMA RankValues ==
  /\ TERMINAL = {"COMPLETED", "FAILED", "CANCELLED", "ABANDONED"}
  /\ TERMINAL \subseteq CallState
  /\ \A s \in CallState : RANK[s] \in 0 .. 6 /\ (s \in TERMINAL <=> RANK[s] >= 6)
  /\ RANK["QUEUED"] = 0 /\ RANK["RESERVED"] = 1 /\ RANK["INITIATED"] = 2
  /\ RANK["RINGING"] = 3 /\ RANK["ANSWERED"] = 4 /\ RANK["CONNECTED"] = 5
  /\ \A s \in TERMINAL : RANK[s] = 6
BY DEF RANK, CallState, TERMINAL, TERMINAL_RANK

LEMMA AgentOnCallState ==
  /\ DOMAIN AGENT_ON_CALL_STATE =
       {"INITIATED", "CONNECTED", "COMPLETED", "FAILED", "CANCELLED", "ABANDONED"}
  /\ AGENT_ON_CALL_STATE["CONNECTED"] = "CONNECTED"
  /\ AGENT_ON_CALL_STATE["COMPLETED"] = "WRAP_UP"
  /\ \A s \in {"FAILED", "CANCELLED", "ABANDONED"} : AGENT_ON_CALL_STATE[s] = "AVAILABLE"
  /\ \A s \in DOMAIN AGENT_ON_CALL_STATE : AGENT_ON_CALL_STATE[s] \in AgentState
BY RankValues DEF AGENT_ON_CALL_STATE, AgentState

LEMMA CallIdParts ==
  ASSUME NEW c \in CallId
  PROVE  BorrowerOf(c) \in Borrower /\ c[2] \in 1 .. MaxAttempts /\ c = <<BorrowerOf(c), c[2]>>
BY DEF CallId, BorrowerOf

LEMMA LeaseTimes ==
  /\ {NoLease, ReserveLease, DialLease, WrapUp, 0} \subseteq LeaseTime
  /\ \A t \in LeaseTime : t \in Int /\ RunDown(t) \in LeaseTime
BY LeaseAssumption DEF LeaseTime, NoLease, RunDown

-----------------------------------------------------------------------------
(* Type correctness, for workers however late.                                 *)

AgentRow == [state : AgentState, lease : LeaseTime, call : CallId \cup {NoCall}]
BorrowerRow == [state : BorrowerState, attempts : Nat, lock : LeaseTime]
CallRow == [state : CallState \cup {"NONE"}, agent : Agent \cup {NoAgent},
            lease : LeaseTime, ref : BOOLEAN]
EventRow == [status : {"absent", "unapplied", "applied", "given_up"}, left : 0 .. GiveUpAge]
SlotRow == [pc : {"idle", "placing", "accepted", "rejected", "raised"},
            call : CallId \cup {NoCall}]

LEMMA ForceStateType ==
  ASSUME NEW st \in AgentState, NEW t \in LeaseTime, NEW c \in CallId \cup {NoCall}
  PROVE  ForceState(st, t, c) \in AgentRow /\ Released \in AgentRow
BY LeaseTimes DEF ForceState, Released, AgentRow, AgentState

LEMMA AdvanceType ==
  ASSUME NEW row \in CallRow, NEW st \in CallState, NEW r \in BOOLEAN, NEW t \in LeaseTime
  PROVE  Advance(row, st, r, t) \in CallRow
BY LeaseTimes DEF Advance, CallRow

LEMMA BorrowerUpdateType ==
  ASSUME NEW row \in BorrowerRow
  PROVE  /\ \A n \in Nat : Reschedule(row, n) \in BorrowerRow
         /\ \A st : OnCallTerminal(row, st) \in BorrowerRow
         /\ ReclaimLock(row) \in BorrowerRow
<1>1. \A n \in Nat : Reschedule(row, n) \in BorrowerRow
  BY LeaseTimes DEF Reschedule, BorrowerRow, BorrowerState
<1>2. MarkDone(row) \in BorrowerRow
  BY LeaseTimes DEF MarkDone, BorrowerRow, BorrowerState
<1>3. \A st : OnCallTerminal(row, st) \in BorrowerRow
  BY <1>1, <1>2 DEF OnCallTerminal
<1>4. ReclaimLock(row) \in BorrowerRow
  BY LeaseTimes DEF ReclaimLock, BorrowerRow, BorrowerState
<1> QED
  BY <1>1, <1>3, <1>4

LEMMA OrphansCounted ==
  ASSUME NEW b
  PROVE  Cardinality(OrphansOf(b)) \in Nat
<1>1. IsFiniteSet(1 .. MaxAttempts)
  BY FS_Interval, CountAssumption
<1>2. IsFiniteSet(OrphansOf(b))
  BY <1>1, FS_Subset DEF OrphansOf
<1> QED
  BY <1>2, FS_CardinalityType

LEMMA TypeInit == Init => TypeOK
BY LeaseTimes, LeaseAssumption DEF Init, TypeOK, Released, ForceState, Idle, AgentState, BorrowerState

LEMMA TypeStep == TypeOK /\ [Next]_vars => TypeOK'
<1> SUFFICES ASSUME TypeOK, [Next]_vars
             PROVE  TypeOK'
  OBVIOUS
<1> USE DEF AgentRow, BorrowerRow, CallRow, EventRow, SlotRow
<1>1. ASSUME NEW s \in Slot, NEW a \in Agent, NEW b \in Borrower, Reserve(s, a, b)
      PROVE  TypeOK'
  <2>1. NextCall(b) \in CallId
    BY <1>1 DEF Reserve
  <2>2. "RESERVED" \in AgentState /\ "LOCKED" \in BorrowerState /\ "RESERVED" \in CallState
    BY DEF AgentState, BorrowerState, CallState
  <2>3. agents' \in [Agent -> AgentRow]
    <3>1. agents[a] \in AgentRow
      BY DEF TypeOK
    <3>2. [agents[a] EXCEPT !.state = "RESERVED", !.lease = ReserveLease] \in AgentRow
      BY <2>2, <3>1, LeaseTimes
    <3> QED
      BY <1>1, <3>2 DEF Reserve, TypeOK
  <2>4. borrowers' \in [Borrower -> BorrowerRow]
    <3>1. borrowers[b] \in BorrowerRow
      BY DEF TypeOK
    <3>2. [borrowers[b] EXCEPT !.state = "LOCKED", !.lock = ReserveLease] \in BorrowerRow
      BY <2>2, <3>1, LeaseTimes
    <3> QED
      BY <1>1, <3>2 DEF Reserve, TypeOK
  <2>5. calls' \in [CallId -> CallRow]
    BY <1>1, <2>1, <2>2, LeaseTimes DEF Reserve, TypeOK
  <2>6. slots' \in [Slot -> SlotRow]
    BY <1>1, <2>1 DEF Reserve, TypeOK
  <2> QED
    BY <1>1, <2>3, <2>4, <2>5, <2>6 DEF Reserve, TypeOK
<1>2. ASSUME NEW s \in Slot, NEW a \in Agent, NEW b \in Borrower, ReserveCollides(s, a, b)
      PROVE  TypeOK'
  BY <1>2 DEF ReserveCollides, TypeOK
<1>3. ASSUME NEW s \in Slot, PlaceAccepted(s) \/ PlaceFailed(s) \/ RecordGivesUp(s) \/ WorkerRestart(s)
      PROVE  TypeOK'
  <2>1. slots' \in [Slot -> SlotRow]
    BY <1>3 DEF PlaceAccepted, PlaceFailed, RecordGivesUp, WorkerRestart, TypeOK, Idle
  <2>2. line' \in [CallId -> {"idle", "ringing", "answered", "completed", "unanswered"}]
    BY <1>3 DEF PlaceAccepted, PlaceFailed, RecordGivesUp, WorkerRestart, TypeOK
  <2> QED
    BY <1>3, <2>1, <2>2
       DEF PlaceAccepted, PlaceFailed, RecordGivesUp, WorkerRestart, TypeOK
<1>4. ASSUME NEW s \in Slot, RejectCleanup(s)
      PROVE  TypeOK'
  <2>1. calls' \in [CallId -> CallRow]
    <3>1. \A c \in CallId : Advance(calls[c], "FAILED", FALSE, NoLease) \in CallRow
      BY AdvanceType, LeaseTimes DEF TypeOK, CallState
    <3> QED
      BY <1>4, <3>1 DEF RejectCleanup, TypeOK
  <2>2. agents' \in [Agent -> AgentRow]
    BY <1>4, ForceStateType, LeaseTimes DEF RejectCleanup, TypeOK, AgentState
  <2>3. borrowers' \in [Borrower -> BorrowerRow]
    BY <1>4, BorrowerUpdateType DEF RejectCleanup, TypeOK
  <2> QED
    BY <1>4, <2>1, <2>2, <2>3 DEF RejectCleanup, TypeOK, Idle
<1>5. ASSUME NEW s \in Slot, RecordInitiated(s)
      PROVE  TypeOK'
  <2>1. calls' \in [CallId -> CallRow]
    <3>1. \A c \in CallId : Advance(calls[c], "INITIATED", TRUE, DialLease) \in CallRow
      BY AdvanceType, LeaseTimes DEF TypeOK, CallState
    <3> QED
      BY <1>5, <3>1 DEF RecordInitiated, TypeOK
  <2>2. agents' \in [Agent -> AgentRow]
    BY <1>5, ForceStateType, LeaseTimes DEF RecordInitiated, TypeOK, AgentState
  <2> QED
    BY <1>5, <2>1, <2>2 DEF RecordInitiated, TypeOK, Idle
<1>6. ASSUME NEW c \in CallId, PullbackCancel(c)
      PROVE  TypeOK'
  <2>1. calls' \in [CallId -> CallRow]
    <3>1. "CANCELLED" \in CallState
      BY DEF CallState
    <3>2. calls[c] \in CallRow
      BY DEF TypeOK
    <3>3. [calls[c] EXCEPT !.state = "CANCELLED", !.lease = NoLease] \in CallRow
      BY <3>1, <3>2, LeaseTimes
    <3> QED
      BY <1>6, <3>3 DEF PullbackCancel, TypeOK
  <2>2. agents' \in [Agent -> AgentRow]
    BY <1>6, ForceStateType, LeaseTimes DEF PullbackCancel, TypeOK, AgentState
  <2>3. borrowers' \in [Borrower -> BorrowerRow]
    BY <1>6, BorrowerUpdateType DEF PullbackCancel, TypeOK
  <2> QED
    BY <1>6, <2>1, <2>2, <2>3 DEF PullbackCancel, TypeOK
<1>7. ASSUME NEW c \in CallId, Provider(c)
      PROVE  TypeOK'
  BY <1>7 DEF Provider, Answer, NoAnswer, HangUp, TypeOK
<1>8. ASSUME NEW e \in Event, Ingest(e) \/ ApplyAnomaly(e) \/ GiveUpUnknown(e)
      PROVE  TypeOK'
  BY <1>8, LeaseAssumption DEF Ingest, ApplyAnomaly, GiveUpUnknown, Marked, TypeOK
<1>9. ASSUME NEW e \in Event, ApplyAccepted(e)
      PROVE  TypeOK'
  <2> DEFINE c == e.call
             final == FinalState(c, e.type)
  <2>1. c \in CallId /\ e.type \in CallState /\ final \in CallState
    BY DEF Event, EventType, FinalState, CallState
  <2>2. Advance(calls[c], e.type, TRUE, NoLease) \in CallRow
    BY <2>1, AdvanceType, LeaseTimes DEF TypeOK
  <2>3. calls' \in [CallId -> CallRow]
    BY <1>9, <2>1, <2>2, AdvanceType, LeaseTimes DEF ApplyAccepted, TypeOK
  <2>4. agents' \in [Agent -> AgentRow]
    BY <1>9, <2>1, AgentOnCallState, ForceStateType, LeaseTimes DEF ApplyAccepted, TypeOK
  <2>5. borrowers' \in [Borrower -> BorrowerRow]
    BY <1>9, <2>1, BorrowerUpdateType DEF ApplyAccepted, TypeOK
  <2>6. ledger' \in [Event -> EventRow]
    BY <1>9, LeaseAssumption DEF ApplyAccepted, Marked, TypeOK
  <2> QED
    BY <1>9, <2>3, <2>4, <2>5, <2>6 DEF ApplyAccepted, TypeOK
<1>10. ASSUME Reap
       PROVE  TypeOK'
  <2>1. calls' \in [CallId -> CallRow]
    BY <1>10 DEF Reap, FailOrphan, TypeOK, CallState
  <2>2. agents' \in [Agent -> AgentRow]
    <3>1. \A a \in Agent : Reclaim(agents[a]) \in AgentRow
      <4>1. "AVAILABLE" \in AgentState /\ Released \in AgentRow
        BY ForceStateType, LeaseTimes DEF AgentState
      <4> QED
        BY <4>1, LeaseTimes DEF Reclaim, TypeOK
    <3> QED
      BY <1>10, <3>1, ForceStateType, LeaseTimes DEF Reap, ReapAgent, AgentState
  <2>3. borrowers' \in [Borrower -> BorrowerRow]
    BY <1>10, BorrowerUpdateType, OrphansCounted DEF Reap, ReapBorrower, TypeOK
  <2> QED
    BY <1>10, <2>1, <2>2, <2>3 DEF Reap, TypeOK
<1>11. ASSUME Tick
       PROVE  TypeOK'
  <2>1. \A t \in 0 .. GiveUpAge : RunDown(t) \in 0 .. GiveUpAge
    BY LeaseAssumption DEF RunDown
  <2>2. agents' \in [Agent -> AgentRow]
    <3>1. ASSUME NEW x \in Agent
          PROVE  [agents[x] EXCEPT !.lease = RunDown(@)] \in AgentRow
      <4>1. agents[x] \in AgentRow
        BY DEF TypeOK
      <4>2. RunDown(agents[x].lease) \in LeaseTime
        BY <4>1, LeaseTimes
      <4> QED
        BY <4>1, <4>2
    <3> QED
      BY <1>11, <3>1 DEF Tick
  <2>3. borrowers' \in [Borrower -> BorrowerRow]
    <3>1. ASSUME NEW x \in Borrower
          PROVE  [borrowers[x] EXCEPT !.lock = RunDown(@)] \in BorrowerRow
      <4>1. borrowers[x] \in BorrowerRow
        BY DEF TypeOK
      <4>2. RunDown(borrowers[x].lock) \in LeaseTime
        BY <4>1, LeaseTimes
      <4> QED
        BY <4>1, <4>2
    <3> QED
      BY <1>11, <3>1 DEF Tick
  <2>4. calls' \in [CallId -> CallRow]
    <3>1. ASSUME NEW x \in CallId
          PROVE  [calls[x] EXCEPT !.lease = RunDown(@)] \in CallRow
      <4>1. calls[x] \in CallRow
        BY DEF TypeOK
      <4>2. RunDown(calls[x].lease) \in LeaseTime
        BY <4>1, LeaseTimes
      <4> QED
        BY <4>1, <4>2
    <3> QED
      BY <1>11, <3>1 DEF Tick
  <2>5. ledger' \in [Event -> EventRow]
    BY <1>11, <2>1 DEF Tick, TypeOK
  <2> QED
    BY <1>11, <2>2, <2>3, <2>4, <2>5 DEF Tick, TypeOK
<1>12. CASE UNCHANGED vars
  BY <1>12 DEF vars, TypeOK
<1> QED
  BY <1>1, <1>2, <1>3, <1>4, <1>5, <1>6, <1>7, <1>8, <1>9, <1>10, <1>11, <1>12
     DEF Next, Work, Allocate, ApplyOne

\* Every row of every table has its type, in every state the program reaches.
THEOREM TypeCorrect == Spec => []TypeOK
<1>1. TypeOK /\ [Next]_vars => TypeOK'
  BY TypeStep
<1> QED
  BY <1>1, TypeInit, PTL DEF Spec

-----------------------------------------------------------------------------
(* The inductive step of IInv.  Four transactions end calls - the cleanup after *)
(* a rejection, the pullback, a terminal event, the reaper's orphan sweep - and *)
(* what the invariant needs to know of them is the same.                        *)

Busy == {"RESERVED", "DIALING", "CONNECTED"}

\* The calls of D end, their agents stop being busy, their borrowers are charged
\* one attempt; other agents stay as busy as they were, other borrowers may only
\* lose their lock, and no coroutine stays in flight with a call of D.
EndsCalls(D) ==
  /\ \A c \in D : /\ c \in CallId /\ Live(c)
                  /\ calls'[c].state \in TERMINAL
                  /\ calls'[c].agent = calls[c].agent
  /\ \A c \in CallId \ D : calls'[c] = calls[c]
  /\ \A a \in Agent :
       IF \E c \in D : calls[c].agent = a
       THEN agents'[a].state \notin Busy
       ELSE IF agents[a].state \in Busy
       THEN /\ agents'[a].state = agents[a].state
            /\ agents'[a].call = agents[a].call
            /\ agents[a].state = "RESERVED" => agents'[a].lease = agents[a].lease
       ELSE agents'[a].state \notin Busy
  /\ \A b \in Borrower :
       IF \E c \in D : BorrowerOf(c) = b
       THEN /\ borrowers'[b].attempts = borrowers[b].attempts + 1
            /\ borrowers'[b].state \in {"PENDING", "DONE", "EXHAUSTED"}
            /\ borrowers'[b].state = "PENDING" => borrowers'[b].attempts < MaxAttempts
       ELSE /\ borrowers'[b].attempts = borrowers[b].attempts
            /\ \/ borrowers'[b].state = borrowers[b].state
               \/ borrowers[b].state = "LOCKED" /\ borrowers'[b].state = "PENDING"
  /\ \A s \in Slot : InFlight(s)' => InFlight(s) /\ slots'[s] = slots[s] /\ slots[s].call \notin D

LEMMA OneCallPerBorrower == CallsMatchAttempts => OneLiveCallPerBorrower
BY CallIdParts DEF CallsMatchAttempts, OneLiveCallPerBorrower

LEMMA EndsCallsStep ==
  ASSUME IInv, TypeOK', NEW D \in SUBSET CallId, EndsCalls(D)
  PROVE  IInv'
<1>1. \A c \in D : ~Live(c)' /\ Terminated(c)'
  BY RankValues DEF EndsCalls, Live, Terminated, Exists
<1>2. \A c \in CallId \ D : (Live(c)' <=> Live(c)) /\ (Terminated(c)' <=> Terminated(c))
  BY DEF EndsCalls, Live, Terminated, Exists
<1>3. \A c \in CallId : Live(c)' => c \notin D /\ Live(c) /\ calls'[c] = calls[c]
  BY <1>1, <1>2 DEF EndsCalls
<1>4. \A c, d \in CallId : Live(c) /\ Live(d) /\ BorrowerOf(c) = BorrowerOf(d) => c = d
  BY OneCallPerBorrower DEF IInv, OneLiveCallPerBorrower
<1>5. SlotsHoldTheirCalls'
  BY DEF IInv, SlotsHoldTheirCalls, EndsCalls
<1>6. CallsMatchAttempts'
  <2> SUFFICES ASSUME NEW c \in CallId
               PROVE  /\ Terminated(c)' <=> c[2] <= borrowers'[BorrowerOf(c)].attempts
                      /\ Live(c)' => c[2] = borrowers'[BorrowerOf(c)].attempts + 1
    BY DEF CallsMatchAttempts
  <2> DEFINE b == BorrowerOf(c)
  <2>1. b \in Borrower /\ c[2] \in Nat /\ borrowers[b].attempts \in Nat
    BY CallIdParts DEF IInv, TypeOK
  <2>2. /\ Terminated(c) <=> c[2] <= borrowers[b].attempts
        /\ Live(c) => c[2] = borrowers[b].attempts + 1
    BY DEF IInv, CallsMatchAttempts
  <2>3. CASE c \in D
    <3>1. borrowers'[b].attempts = borrowers[b].attempts + 1 /\ Live(c)
      BY <2>1, <2>3 DEF EndsCalls
    <3> QED
      BY <1>1, <2>1, <2>2, <2>3, <3>1
  <2>4. CASE c \notin D /\ \E d \in D : BorrowerOf(d) = b
    <3>1. PICK d \in D : BorrowerOf(d) = b
      BY <2>4
    <3>2. d \in CallId /\ Live(d) /\ borrowers'[b].attempts = borrowers[b].attempts + 1
      BY <2>1, <3>1 DEF EndsCalls
    <3>3. ~Live(c)
      BY <1>4, <2>4, <3>1, <3>2
    <3>4. d[2] = borrowers[b].attempts + 1
      BY <3>1, <3>2 DEF IInv, CallsMatchAttempts
    <3>5. c[2] # borrowers[b].attempts + 1
      BY <2>4, <3>1, <3>2, <3>4, CallIdParts
    <3> QED
      BY <1>2, <2>1, <2>2, <2>4, <3>2, <3>3, <3>5
  <2>5. CASE c \notin D /\ ~\E d \in D : BorrowerOf(d) = b
    <3>1. borrowers'[b].attempts = borrowers[b].attempts
      BY <2>1, <2>5 DEF EndsCalls
    <3> QED
      BY <1>2, <2>2, <2>5, <3>1
  <2> QED
    BY <2>3, <2>4, <2>5
<1>7. BorrowersMatchCalls'
  <2>1. ASSUME NEW b \in Borrower
        PROVE  /\ borrowers'[b].state \in {"PENDING", "LOCKED", "DONE", "EXHAUSTED"}
               /\ borrowers'[b].state \in {"PENDING", "LOCKED"} => borrowers'[b].attempts < MaxAttempts
    BY DEF IInv, BorrowersMatchCalls, EndsCalls
  <2>2. ASSUME NEW c \in CallId, Live(c)'
        PROVE  borrowers'[BorrowerOf(c)].state \in {"PENDING", "LOCKED"}
    <3>1. c \notin D /\ Live(c) /\ BorrowerOf(c) \in Borrower
      BY <1>3, <2>2, CallIdParts
    <3>2. ~\E d \in D : BorrowerOf(d) = BorrowerOf(c)
      BY <1>4, <3>1 DEF EndsCalls
    <3>3. borrowers[BorrowerOf(c)].state \in {"PENDING", "LOCKED"}
      BY <3>1 DEF IInv, BorrowersMatchCalls
    <3> QED
      BY <3>1, <3>2, <3>3 DEF EndsCalls
  <2> QED
    BY <2>1, <2>2 DEF BorrowersMatchCalls
<1>8. ASSUME NEW c \in CallId, Live(c)'
      PROVE  LET a == calls[c].agent IN
             /\ a \in Agent /\ calls'[c].agent = a
             /\ agents'[a].state = agents[a].state
             /\ agents'[a].call = agents[a].call
             /\ agents[a].state = "RESERVED" => agents'[a].lease = agents[a].lease
  <2>1. c \notin D /\ Live(c) /\ calls'[c] = calls[c]
    BY <1>3, <1>8
  <2>2. /\ calls[c].agent \in Agent
        /\ agents[calls[c].agent].state \in Busy
    BY <2>1 DEF IInv, LiveCallHasItsAgent, Serving, Busy
  <2>3. ~\E d \in D : calls[d].agent = calls[c].agent
    BY <2>1 DEF IInv, OneLiveCallPerAgent, EndsCalls
  <2> QED
    BY <2>1, <2>2, <2>3 DEF EndsCalls
<1>9. CallsAtRest'
  <2> SUFFICES ASSUME NEW c \in CallId
               PROVE  /\ calls'[c].state \notin {"QUEUED", "ANSWERED"}
                      /\ calls'[c].state \in {"NONE", "RESERVED"} => ~calls'[c].ref
                      /\ calls'[c].state = "RESERVED" =>
                           agents'[calls'[c].agent].lease = calls'[c].lease
    BY DEF CallsAtRest
  <2>1. CASE c \in D
    BY <2>1, RankValues DEF EndsCalls
  <2>2. CASE c \notin D
    <3>1. calls'[c] = calls[c]
      BY <2>2 DEF EndsCalls
    <3>2. calls[c].state = "RESERVED" => Live(c)'
      BY <1>2, <2>2, RankValues DEF Live, Exists
    <3>3. calls[c].state = "RESERVED" => agents[calls[c].agent].state = "RESERVED"
      BY RankValues DEF IInv, LiveCallHasItsAgent, Live, Exists, Serving
    <3> QED
      BY <1>8, <3>1, <3>2, <3>3 DEF IInv, CallsAtRest
  <2> QED
    BY <2>1, <2>2
<1>10. OneLiveCallPerAgent'
  BY <1>3 DEF IInv, OneLiveCallPerAgent
<1>11. LiveCallHasItsAgent'
  <2> SUFFICES ASSUME NEW c \in CallId, Live(c)'
               PROVE  LET a == calls'[c].agent IN
                      /\ a \in Agent
                      /\ agents'[a].state = Serving(calls'[c].state)
                      /\ agents'[a].state = "DIALING" => agents'[a].call = c
    BY DEF LiveCallHasItsAgent
  <2> QED
    BY <1>3, <1>8 DEF IInv, LiveCallHasItsAgent
<1>12. BusyAgentHasACall'
  <2> SUFFICES ASSUME NEW a \in Agent, agents'[a].state \in Busy
               PROVE  \E c \in CallId : Live(c)' /\ calls'[c].agent = a
    BY DEF BusyAgentHasACall, Busy
  <2>1. (~\E d \in D : calls[d].agent = a) /\ agents[a].state \in Busy
    BY DEF EndsCalls
  <2>2. PICK c \in CallId : Live(c) /\ calls[c].agent = a
    BY <2>1 DEF IInv, BusyAgentHasACall, Busy
  <2>3. c \notin D /\ Live(c)' /\ calls'[c] = calls[c]
    BY <1>2, <2>1, <2>2 DEF EndsCalls
  <2> QED
    BY <2>2, <2>3
<1> QED
  BY <1>5, <1>6, <1>7, <1>9, <1>10, <1>11, <1>12 DEF IInv

\* What a step that moves no row of the three tables keeps: all but the slots.
LEMMA TablesUnchangedStep ==
  ASSUME IInv, TypeOK', UNCHANGED <<agents, borrowers, calls>>,
         \A s \in Slot : InFlight(s)' => InFlight(s) /\ slots'[s].call = slots[s].call
  PROVE  IInv'
<1>1. SlotsHoldTheirCalls'
  BY DEF IInv, SlotsHoldTheirCalls
<1> QED
  BY <1>1 DEF IInv, CallsMatchAttempts, BorrowersMatchCalls, CallsAtRest, OneLiveCallPerAgent,
     LiveCallHasItsAgent, BusyAgentHasACall, Live, Terminated, Exists

\* A coroutine in flight: its call, agent and borrower, as the invariant has them.
LEMMA InFlightFacts ==
  ASSUME IInv, NEW s \in Slot, InFlight(s)
  PROVE  LET c == slots[s].call IN
         /\ c \in CallId /\ Live(c)
         /\ calls[c].state = "RESERVED" /\ calls[c].lease > 0 /\ ~calls[c].ref
         /\ calls[c] \in [state : CallState \cup {"NONE"}, agent : Agent \cup {NoAgent},
                          lease : LeaseTime, ref : BOOLEAN]
         /\ calls[c].agent \in Agent
         /\ agents[calls[c].agent].state = "RESERVED"
         /\ BorrowerOf(c) \in Borrower
BY CallIdParts, RankValues
   DEF IInv, TypeOK, SlotsHoldTheirCalls, LiveCallHasItsAgent, CallsAtRest, Live, Exists, Serving

\* The call of a pullback or of an event that is applied.
LEMMA LiveCallFacts ==
  ASSUME IInv, NEW c \in CallId, Live(c)
  PROVE  /\ calls[c].agent \in Agent
         /\ BorrowerOf(c) \in Borrower
         /\ borrowers[BorrowerOf(c)].state \in {"PENDING", "LOCKED"}
         /\ borrowers[BorrowerOf(c)].attempts \in Nat
         /\ \A s \in Slot : InFlight(s) /\ slots[s].call = c => calls[c].state = "RESERVED"
BY CallIdParts
   DEF IInv, TypeOK, LiveCallHasItsAgent, BorrowersMatchCalls, SlotsHoldTheirCalls

LEMMA RescheduleEffect ==
  ASSUME NEW row, row.attempts \in Nat, NEW st \in TERMINAL
  PROVE  /\ Reschedule(row, 1).attempts = row.attempts + 1
         /\ Reschedule(row, 1).state \in {"PENDING", "EXHAUSTED"}
         /\ Reschedule(row, 1).state = "PENDING" => row.attempts + 1 < MaxAttempts
         /\ OnCallTerminal(row, st).attempts = row.attempts + 1
         /\ OnCallTerminal(row, st).state \in {"PENDING", "DONE", "EXHAUSTED"}
         /\ OnCallTerminal(row, st).state = "PENDING" => row.attempts + 1 < MaxAttempts
         /\ OnCallTerminal(row, st).state = "DONE" <=> st = "COMPLETED"
BY CountAssumption DEF Reschedule, OnCallTerminal, MarkDone

LEMMA ReserveStep ==
  ASSUME IInv, TypeOK', NEW s \in Slot, NEW a \in Agent, NEW b \in Borrower, Reserve(s, a, b)
  PROVE  IInv'
<1>0. PICK c \in CallId : c = NextCall(b)
  BY DEF Reserve
<1>1. c \in CallId /\ BorrowerOf(c) = b /\ c[2] = borrowers[b].attempts + 1 /\ ~Exists(c)
  BY <1>0 DEF Reserve, NextCall, BorrowerOf
<1>2. /\ calls'[c] = [state |-> "RESERVED", agent |-> a, lease |-> ReserveLease, ref |-> FALSE]
      /\ \A d \in CallId : d # c => calls'[d] = calls[d]
  BY <1>0 DEF Reserve, IInv, TypeOK
<1>3. /\ agents[a].state = "AVAILABLE"
      /\ agents'[a].state = "RESERVED" /\ agents'[a].lease = ReserveLease
      /\ \A x \in Agent : x # a => agents'[x] = agents[x]
  BY DEF Reserve, IInv, TypeOK
<1>4. /\ borrowers[b].state = "PENDING"
      /\ borrowers'[b].state = "LOCKED" /\ borrowers'[b].attempts = borrowers[b].attempts
      /\ \A x \in Borrower : x # b => borrowers'[x] = borrowers[x]
  BY DEF Reserve, IInv, TypeOK
<1>5. /\ slots'[s] = [pc |-> "placing", call |-> c] /\ ~InFlight(s)
      /\ \A t \in Slot : t # s => slots'[t] = slots[t]
  BY <1>0 DEF Reserve, IInv, TypeOK, InFlight
<1>6. /\ Live(c)' /\ ~Live(c) /\ ~Terminated(c)' /\ ~Terminated(c)
      /\ \A d \in CallId : d # c => (Live(d)' <=> Live(d)) /\ (Terminated(d)' <=> Terminated(d))
  BY <1>1, <1>2, RankValues DEF Live, Terminated, Exists
<1>7. \A d \in CallId : Live(d) => calls[d].agent # a
  BY <1>3 DEF IInv, LiveCallHasItsAgent, Serving
<1>8. SlotsHoldTheirCalls'
  <2>1. ASSUME NEW t \in Slot, InFlight(t)'
        PROVE  /\ slots'[t].call \in CallId
               /\ calls'[slots'[t].call].state = "RESERVED"
               /\ calls'[slots'[t].call].lease > 0
               /\ t # s => slots'[t].call # c /\ InFlight(t)
    <3>1. CASE t = s
      BY <1>1, <1>2, <1>5, <3>1, LeaseAssumption
    <3>2. CASE t # s
      <4>1. InFlight(t)
        BY <1>5, <2>1, <3>2 DEF InFlight
      <4>2. slots[t].call # c
        BY <1>1, <4>1, InFlightFacts DEF Live
      <4> QED
        BY <1>2, <1>5, <3>2, <4>1, <4>2, InFlightFacts
    <3> QED
      BY <3>1, <3>2
  <2> QED
    BY <1>5, <2>1 DEF IInv, SlotsHoldTheirCalls
<1>9. CallsMatchAttempts'
  BY <1>1, <1>2, <1>4, <1>6, CallIdParts DEF IInv, TypeOK, CallsMatchAttempts
<1>10. BorrowersMatchCalls'
  BY <1>1, <1>4, <1>6, CallIdParts DEF IInv, BorrowersMatchCalls
<1>11. CallsAtRest'
  <2>1. \A d \in CallId : calls[d].state = "RESERVED" => Live(d) /\ calls[d].agent \in Agent
    BY RankValues DEF IInv, LiveCallHasItsAgent, Live, Exists
  <2> QED
    BY <1>2, <1>3, <1>7, <2>1 DEF IInv, CallsAtRest
<1>12. OneLiveCallPerAgent'
  BY <1>2, <1>6, <1>7 DEF IInv, OneLiveCallPerAgent
<1>13. LiveCallHasItsAgent'
  BY <1>2, <1>3, <1>6, <1>7 DEF IInv, LiveCallHasItsAgent, Serving
<1>14. BusyAgentHasACall'
  BY <1>1, <1>2, <1>3, <1>6 DEF IInv, BusyAgentHasACall
<1> QED
  BY <1>8, <1>9, <1>10, <1>11, <1>12, <1>13, <1>14 DEF IInv

LEMMA RejectCleanupStep ==
  ASSUME IInv, TypeOK', NEW s \in Slot, RejectCleanup(s)
  PROVE  IInv'
<1> DEFINE c == slots[s].call
           b == BorrowerOf(c)
<1>1. InFlight(s)
  BY DEF RejectCleanup, InFlight
<1>2. EndsCalls({c})
  <2>1. calls'[c].state = "FAILED" /\ calls'[c].agent = calls[c].agent
    BY <1>1, InFlightFacts, RankValues DEF RejectCleanup, Advance, IInv, TypeOK
  <2>2. \A d \in CallId \ {c} : calls'[d] = calls[d]
    BY DEF RejectCleanup, IInv, TypeOK
  <2>3. /\ agents'[calls[c].agent].state = "AVAILABLE"
        /\ \A x \in Agent : x # calls[c].agent => agents'[x] = agents[x]
    BY <1>1, InFlightFacts DEF RejectCleanup, Released, ForceState, IInv, TypeOK
  <2>4. /\ borrowers'[b] = Reschedule(borrowers[b], 1)
        /\ \A x \in Borrower : x # b => borrowers'[x] = borrowers[x]
    BY <1>1, InFlightFacts DEF RejectCleanup, IInv, TypeOK
  <2>5. \A t \in Slot : InFlight(t)' => InFlight(t) /\ slots'[t] = slots[t] /\ slots[t].call # c
    BY <1>1 DEF RejectCleanup, Idle, InFlight, IInv, TypeOK, SlotsHoldTheirCalls
  <2>6. borrowers[b].attempts \in Nat
    BY <1>1, InFlightFacts DEF IInv, TypeOK
  <2> QED
    BY <1>1, <2>1, <2>2, <2>3, <2>4, <2>5, <2>6, InFlightFacts, RescheduleEffect, RankValues
       DEF EndsCalls, Busy
<1> QED
  BY <1>1, <1>2, EndsCallsStep, InFlightFacts

\* One live call moves up, stays live, and takes its agent along; nothing else
\* moves in the tables.
MovesCall(c) ==
  /\ Live(c)
  /\ calls'[c].state \in {"INITIATED", "RINGING", "CONNECTED"}
  /\ calls'[c].agent = calls[c].agent
  /\ \A d \in CallId \ {c} : calls'[d] = calls[d]
  /\ LET a == calls[c].agent IN
     /\ agents'[a].state = Serving(calls'[c].state)
     /\ agents'[a].state = "DIALING" => agents'[a].call = c
     /\ \A x \in Agent \ {a} : agents'[x] = agents[x]
  /\ UNCHANGED borrowers
  /\ \A s \in Slot : InFlight(s)' => InFlight(s) /\ slots'[s] = slots[s] /\ slots[s].call # c

LEMMA MovesCallStep ==
  ASSUME IInv, TypeOK', NEW c \in CallId, MovesCall(c)
  PROVE  IInv'
<1>1. /\ Live(c)' /\ ~Terminated(c)' /\ ~Terminated(c)
      /\ \A d \in CallId : d # c => (Live(d)' <=> Live(d)) /\ (Terminated(d)' <=> Terminated(d))
  BY RankValues DEF MovesCall, Live, Terminated, Exists
<1>2. \A d \in CallId : Live(d) /\ d # c => calls[d].agent # calls[c].agent
  BY DEF MovesCall, IInv, OneLiveCallPerAgent
<1>3. SlotsHoldTheirCalls'
  BY DEF MovesCall, IInv, SlotsHoldTheirCalls
<1>4. CallsMatchAttempts'
  BY <1>1 DEF MovesCall, IInv, CallsMatchAttempts
<1>5. BorrowersMatchCalls'
  BY <1>1 DEF MovesCall, IInv, BorrowersMatchCalls
<1>6. CallsAtRest'
  <2>1. \A d \in CallId : calls[d].state = "RESERVED" => Live(d) /\ calls[d].agent \in Agent
    BY RankValues DEF IInv, LiveCallHasItsAgent, Live, Exists
  <2> QED
    BY <1>2, <2>1 DEF MovesCall, IInv, CallsAtRest
<1>7. OneLiveCallPerAgent'
  BY <1>1, <1>2 DEF MovesCall, IInv, OneLiveCallPerAgent
<1>8. LiveCallHasItsAgent'
  <2> SUFFICES ASSUME NEW d \in CallId, Live(d)'
               PROVE  LET a == calls'[d].agent IN
                      /\ a \in Agent
                      /\ agents'[a].state = Serving(calls'[d].state)
                      /\ agents'[a].state = "DIALING" => agents'[a].call = d
    BY DEF LiveCallHasItsAgent
  <2>1. CASE d = c
    BY <2>1 DEF MovesCall, IInv, LiveCallHasItsAgent
  <2>2. CASE d # c
    BY <1>1, <1>2, <2>2 DEF MovesCall, IInv, LiveCallHasItsAgent
  <2> QED
    BY <2>1, <2>2
<1>9. BusyAgentHasACall'
  BY <1>1 DEF MovesCall, IInv, BusyAgentHasACall
<1> QED
  BY <1>3, <1>4, <1>5, <1>6, <1>7, <1>8, <1>9 DEF IInv

LEMMA RecordInitiatedStep ==
  ASSUME IInv, TypeOK', NEW s \in Slot, RecordInitiated(s)
  PROVE  IInv'
<1>0. PICK c \in CallId : c = slots[s].call
  BY InFlightFacts DEF RecordInitiated, InFlight
<1>1. InFlight(s)
  BY DEF RecordInitiated, InFlight
<1>2. MovesCall(c)
  <2>1. /\ Live(c) /\ calls[c].agent \in Agent /\ calls[c].state = "RESERVED"
        /\ calls \in [CallId -> [state : CallState \cup {"NONE"}, agent : Agent \cup {NoAgent},
                                 lease : LeaseTime, ref : BOOLEAN]]
    BY <1>0, <1>1, InFlightFacts DEF IInv, TypeOK
  <2>2. /\ calls'[c].state = "INITIATED" /\ calls'[c].agent = calls[c].agent
        /\ \A d \in CallId \ {c} : calls'[d] = calls[d]
    BY <1>0, <2>1, RankValues DEF RecordInitiated, Advance
  <2>3. /\ agents'[calls[c].agent].state = "DIALING" /\ agents'[calls[c].agent].call = c
        /\ \A x \in Agent \ {calls[c].agent} : agents'[x] = agents[x]
    BY <1>0, <2>1 DEF RecordInitiated, ForceState, IInv, TypeOK
  <2>4. \A t \in Slot : InFlight(t)' => InFlight(t) /\ slots'[t] = slots[t] /\ slots[t].call # c
    BY <1>0, <1>1 DEF RecordInitiated, Idle, InFlight, IInv, TypeOK, SlotsHoldTheirCalls
  <2> QED
    BY <2>1, <2>2, <2>3, <2>4 DEF MovesCall, Serving, RecordInitiated
<1> QED
  BY <1>2, MovesCallStep

LEMMA PullbackStep ==
  ASSUME IInv, TypeOK', NEW c \in CallId, PullbackCancel(c)
  PROVE  IInv'
<1>1. Live(c) /\ calls[c].state # "RESERVED"
  BY RankValues DEF PullbackCancel, Live, Exists
<1>2. EndsCalls({c})
  <2>1. calls'[c].state = "CANCELLED" /\ calls'[c].agent = calls[c].agent
    BY DEF PullbackCancel, IInv, TypeOK
  <2>2. \A d \in CallId \ {c} : calls'[d] = calls[d]
    BY DEF PullbackCancel, IInv, TypeOK
  <2>3. /\ agents'[calls[c].agent].state = "AVAILABLE"
        /\ \A x \in Agent : x # calls[c].agent => agents'[x] = agents[x]
    BY <1>1, LiveCallFacts DEF PullbackCancel, Released, ForceState, IInv, TypeOK
  <2>4. /\ borrowers'[BorrowerOf(c)] = OnCallTerminal(borrowers[BorrowerOf(c)], "CANCELLED")
        /\ \A x \in Borrower : x # BorrowerOf(c) => borrowers'[x] = borrowers[x]
    BY <1>1, LiveCallFacts DEF PullbackCancel, IInv, TypeOK
  <2>5. \A t \in Slot : InFlight(t)' => InFlight(t) /\ slots'[t] = slots[t] /\ slots[t].call # c
    BY <1>1, LiveCallFacts DEF PullbackCancel, InFlight
  <2> QED
    BY <1>1, <2>1, <2>2, <2>3, <2>4, <2>5, LiveCallFacts, RescheduleEffect, RankValues
       DEF EndsCalls, Busy
<1> QED
  BY <1>2, EndsCallsStep

LEMMA ApplyAcceptedStep ==
  ASSUME IInv, TypeOK', NEW e \in Event, ApplyAccepted(e)
  PROVE  IInv'
<1>0. PICK c \in CallId : c = e.call
  BY DEF Event
<1>1. /\ Live(c) /\ calls[c].state \in {"INITIATED", "RINGING", "CONNECTED"}
      /\ CanApply(calls[c].state, e.type)
  BY <1>0, RankValues
     DEF ApplyAccepted, CanApply, IInv, TypeOK, CallsAtRest, Live, Exists, CallState, TERMINAL_RANK
<1>2. calls[c] \in [state : CallState \cup {"NONE"}, agent : Agent \cup {NoAgent},
                    lease : LeaseTime, ref : BOOLEAN]
  BY DEF IInv, TypeOK
<1>3. \A t \in Slot : InFlight(t)' => InFlight(t) /\ slots'[t] = slots[t] /\ slots[t].call # c
  BY <1>1, LiveCallFacts DEF ApplyAccepted, InFlight
<1>4. \A d \in CallId \ {c} : calls'[d] = calls[d]
  BY <1>0 DEF ApplyAccepted, IInv, TypeOK
<1>5. CASE e.type = "RINGING"
  <2>1. calls[c].state = "INITIATED" /\ FinalState(c, "RINGING") = "RINGING"
    BY <1>1, <1>5, RankValues DEF CanApply, FinalState
  <2>2. calls'[c].state = "RINGING" /\ calls'[c].agent = calls[c].agent
    BY <1>0, <1>2, <1>5, <2>1, RankValues DEF ApplyAccepted, Advance, IInv, TypeOK
  <2>3. agents' = agents /\ borrowers' = borrowers
    BY <1>0, <1>5, <2>1, AgentOnCallState, RankValues DEF ApplyAccepted
  <2>4. agents[calls[c].agent].state = "DIALING" /\ agents[calls[c].agent].call = c
    BY <1>1, <2>1 DEF IInv, LiveCallHasItsAgent, Serving
  <2> QED
    BY <1>1, <1>3, <1>4, <2>2, <2>3, <2>4, MovesCallStep DEF MovesCall, Serving
<1>6. CASE e.type = "ANSWERED"
  <2>1. calls[c].state \in {"INITIATED", "RINGING"} /\ calls[c].agent \in Agent
    BY <1>1, <1>6, RankValues, LiveCallFacts DEF CanApply
  <2>2. agents[calls[c].agent].state = "DIALING" /\ agents[calls[c].agent].call = c
    BY <1>1, <2>1 DEF IInv, LiveCallHasItsAgent, Serving
  <2>3. FinalState(c, "ANSWERED") = "CONNECTED"
    BY <2>2 DEF FinalState, Bridged
  <2>4. calls'[c].state = "CONNECTED" /\ calls'[c].agent = calls[c].agent
    BY <1>0, <1>2, <1>6, <2>1, <2>3, RankValues DEF ApplyAccepted, Advance, IInv, TypeOK
  <2>5. /\ agents'[calls[c].agent].state = "CONNECTED"
        /\ \A x \in Agent \ {calls[c].agent} : agents'[x] = agents[x]
    BY <1>0, <1>6, <2>1, <2>3, AgentOnCallState DEF ApplyAccepted, ForceState, IInv, TypeOK
  <2>6. borrowers' = borrowers
    BY <1>0, <1>6, <2>3, RankValues DEF ApplyAccepted
  <2> QED
    BY <1>1, <1>3, <1>4, <2>4, <2>5, <2>6, MovesCallStep DEF MovesCall, Serving
<1>7. CASE e.type \in {"COMPLETED", "FAILED"}
  <2>1. FinalState(c, e.type) = e.type /\ e.type \in TERMINAL
    BY <1>7, RankValues DEF FinalState
  <2>2. calls'[c].state = e.type /\ calls'[c].agent = calls[c].agent
    BY <1>0, <1>1, <1>2, <2>1, RankValues DEF ApplyAccepted, Advance, IInv, TypeOK
  <2>3. /\ agents'[calls[c].agent].state \in {"AVAILABLE", "WRAP_UP"}
        /\ \A x \in Agent : x # calls[c].agent => agents'[x] = agents[x]
    BY <1>0, <1>1, <1>7, <2>1, AgentOnCallState, LiveCallFacts
       DEF ApplyAccepted, ForceState, IInv, TypeOK
  <2>4. /\ borrowers'[BorrowerOf(c)] = OnCallTerminal(borrowers[BorrowerOf(c)], e.type)
        /\ \A x \in Borrower : x # BorrowerOf(c) => borrowers'[x] = borrowers[x]
    BY <1>0, <1>1, <2>1, LiveCallFacts DEF ApplyAccepted, IInv, TypeOK
  <2>5. EndsCalls({c})
    BY <1>1, <1>3, <1>4, <2>1, <2>2, <2>3, <2>4, LiveCallFacts, RescheduleEffect
       DEF EndsCalls, Busy
  <2> QED
    BY <2>5, EndsCallsStep
<1> QED
  BY <1>5, <1>6, <1>7 DEF Event, EventType

LEMMA OrphanFacts ==
  ASSUME IInv, NEW c \in Orphans
  PROVE  /\ c \in CallId /\ Live(c)
         /\ \A s \in Slot : InFlight(s) => slots[s].call # c
         /\ OrphansOf(BorrowerOf(c)) = {c[2]}
         /\ Cardinality(OrphansOf(BorrowerOf(c))) = 1
<1>1. c \in CallId /\ Live(c)
  BY RankValues DEF Orphans, Live, Exists
<1>2. \A s \in Slot : InFlight(s) => slots[s].call # c
  BY DEF Orphans, Expired, IInv, SlotsHoldTheirCalls
<1>3. \A d \in Orphans : BorrowerOf(d) = BorrowerOf(c) => d = c
  BY <1>1, OneCallPerBorrower, RankValues
     DEF IInv, OneLiveCallPerBorrower, Orphans, Live, Exists
<1>4. \A n \in 1 .. MaxAttempts :
        /\ <<BorrowerOf(c), n>> \in CallId
        /\ BorrowerOf(<<BorrowerOf(c), n>>) = BorrowerOf(c)
        /\ <<BorrowerOf(c), n>>[2] = n
  BY <1>1, CallIdParts DEF CallId, BorrowerOf
<1>5. OrphansOf(BorrowerOf(c)) = {c[2]}
  BY <1>1, <1>3, <1>4, CallIdParts DEF OrphansOf
<1> QED
  BY <1>1, <1>2, <1>5, FS_Singleton

LEMMA ReapStep ==
  ASSUME IInv, TypeOK', Reap
  PROVE  IInv'
<1>1. Orphans \in SUBSET CallId
  BY DEF Orphans
<1>2. \A c \in Orphans : /\ c \in CallId /\ Live(c)
                         /\ calls'[c].state \in TERMINAL
                         /\ calls'[c].agent = calls[c].agent
  BY OrphanFacts, RankValues DEF Reap, FailOrphan, IInv, TypeOK
<1>3. \A c \in CallId \ Orphans : calls'[c] = calls[c]
  BY DEF Reap, FailOrphan
<1>4. ASSUME NEW a \in Agent
      PROVE  IF \E c \in Orphans : calls[c].agent = a
             THEN agents'[a].state \notin Busy
             ELSE IF agents[a].state \in Busy
             THEN /\ agents'[a].state = agents[a].state
                  /\ agents'[a].call = agents[a].call
                  /\ agents[a].state = "RESERVED" => agents'[a].lease = agents[a].lease
             ELSE agents'[a].state \notin Busy
  <2>1. CASE \E c \in Orphans : calls[c].agent = a
    BY <2>1 DEF Reap, ReapAgent, Released, ForceState, Busy
  <2>2. CASE ~\E c \in Orphans : calls[c].agent = a
    <3>1. agents'[a] = Reclaim(agents[a])
      BY <2>2 DEF Reap, ReapAgent
    <3>2. ASSUME agents[a].state = "RESERVED"
          PROVE  ~Expired(agents[a].lease)
      <4>1. PICK c \in CallId : Live(c) /\ calls[c].agent = a
        BY <3>2 DEF IInv, BusyAgentHasACall
      <4>2. calls[c].state = "RESERVED"
        BY <3>2, <4>1 DEF IInv, LiveCallHasItsAgent, Serving
      <4>3. agents[a].lease = calls[c].lease
        BY <4>1, <4>2 DEF IInv, CallsAtRest
      <4> QED
        BY <2>2, <4>1, <4>2, <4>3 DEF Orphans
    <3>3. agents[a] \in AgentRow
      BY DEF IInv, TypeOK, AgentRow
    <3> QED
      BY <2>2, <3>1, <3>2, <3>3 DEF Reclaim, Released, ForceState, Busy, AgentRow
  <2> QED
    BY <2>1, <2>2
<1>5. ASSUME NEW b \in Borrower
      PROVE  IF \E c \in Orphans : BorrowerOf(c) = b
             THEN /\ borrowers'[b].attempts = borrowers[b].attempts + 1
                  /\ borrowers'[b].state \in {"PENDING", "DONE", "EXHAUSTED"}
                  /\ borrowers'[b].state = "PENDING" => borrowers'[b].attempts < MaxAttempts
             ELSE /\ borrowers'[b].attempts = borrowers[b].attempts
                  /\ \/ borrowers'[b].state = borrowers[b].state
                     \/ borrowers[b].state = "LOCKED" /\ borrowers'[b].state = "PENDING"
  <2>1. CASE \E c \in Orphans : BorrowerOf(c) = b
    <3>1. PICK c \in Orphans : BorrowerOf(c) = b
      BY <2>1
    <3>2. borrowers'[b] = Reschedule(borrowers[b], 1) /\ borrowers[b].attempts \in Nat
      <4>1. OrphansOf(b) # {} /\ Cardinality(OrphansOf(b)) = 1
        BY <3>1, OrphanFacts
      <4>2. ReapBorrower(b) = Reschedule(borrowers[b], 1)
        BY <4>1 DEF ReapBorrower
      <4> QED
        BY <4>2 DEF Reap, IInv, TypeOK
    <3> QED
      BY <2>1, <3>2, RescheduleEffect, RankValues
  <2>2. CASE ~\E c \in Orphans : BorrowerOf(c) = b
    <3>1. OrphansOf(b) = {}
      BY <2>2 DEF OrphansOf, BorrowerOf
    <3>2. borrowers'[b] = ReclaimLock(borrowers[b])
      BY <3>1 DEF Reap, ReapBorrower
    <3>3. borrowers[b] \in BorrowerRow
      BY DEF IInv, TypeOK, BorrowerRow
    <3> QED
      BY <2>2, <3>2, <3>3 DEF ReclaimLock, BorrowerRow
  <2> QED
    BY <2>1, <2>2
<1>6. \A s \in Slot : InFlight(s)' => InFlight(s) /\ slots'[s] = slots[s] /\ slots[s].call \notin Orphans
  BY OrphanFacts DEF Reap, InFlight
<1>7. EndsCalls(Orphans)
  BY <1>2, <1>3, <1>4, <1>5, <1>6 DEF EndsCalls
<1> QED
  BY <1>1, <1>7, EndsCallsStep

LEMMA TickStep ==
  ASSUME IInv, TypeOK', Punctual, Tick
  PROVE  IInv'
<1>1. ASSUME NEW c \in CallId
      PROVE  /\ calls'[c].state = calls[c].state /\ calls'[c].agent = calls[c].agent
             /\ calls'[c].ref = calls[c].ref /\ calls'[c].lease = RunDown(calls[c].lease)
             /\ (Live(c)' <=> Live(c)) /\ (Terminated(c)' <=> Terminated(c))
  BY DEF Tick, IInv, TypeOK, Live, Terminated, Exists
<1>2. \A a \in Agent : /\ agents'[a].state = agents[a].state /\ agents'[a].call = agents[a].call
                       /\ agents'[a].lease = RunDown(agents[a].lease)
  BY DEF Tick, IInv, TypeOK
<1>3. \A b \in Borrower : /\ borrowers'[b].state = borrowers[b].state
                          /\ borrowers'[b].attempts = borrowers[b].attempts
  BY DEF Tick, IInv, TypeOK
<1>4. SlotsHoldTheirCalls'
  <2>1. slots' = slots
    BY DEF Tick
  <2>2. ASSUME NEW s \in Slot, InFlight(s)
        PROVE  /\ slots[s].call \in CallId
               /\ calls'[slots[s].call].state = "RESERVED"
               /\ calls'[slots[s].call].lease > 0
    <3>1. calls[slots[s].call].lease \in Int /\ calls[slots[s].call].lease > 1
      BY <2>2, InFlightFacts, LeaseTimes DEF Punctual
    <3> QED
      BY <1>1, <2>2, <3>1, InFlightFacts DEF RunDown
  <2> QED
    BY <2>1, <2>2 DEF SlotsHoldTheirCalls, InFlight, IInv
<1>5. CallsMatchAttempts'
  BY <1>1, <1>3, CallIdParts DEF IInv, CallsMatchAttempts
<1>6. BorrowersMatchCalls'
  BY <1>1, <1>3, CallIdParts DEF IInv, BorrowersMatchCalls
<1>7. CallsAtRest'
  <2>1. \A c \in CallId : calls[c].state = "RESERVED" => calls[c].agent \in Agent
    BY RankValues DEF IInv, LiveCallHasItsAgent, Live, Exists
  <2> QED
    BY <1>1, <1>2, <2>1 DEF IInv, CallsAtRest
<1>8. OneLiveCallPerAgent'
  BY <1>1 DEF IInv, OneLiveCallPerAgent
<1>9. LiveCallHasItsAgent'
  BY <1>1, <1>2 DEF IInv, LiveCallHasItsAgent
<1>10. BusyAgentHasACall'
  BY <1>1, <1>2 DEF IInv, BusyAgentHasACall
<1> QED
  BY <1>4, <1>5, <1>6, <1>7, <1>8, <1>9, <1>10 DEF IInv

-----------------------------------------------------------------------------
(* The theorems about punctual workers.                                        *)

LEMMA PunctualIsNext == [PunctualNext]_vars => [Next]_vars
BY DEF PunctualNext, Next

LEMMA InvInit == Init => IInv
<1> SUFFICES ASSUME Init
             PROVE  IInv
  OBVIOUS
<1>1. TypeOK
  BY TypeInit
<1>2. \A c \in CallId : calls[c].state = "NONE" /\ ~calls[c].ref
  BY DEF Init
<1>3. \A c \in CallId : ~Live(c) /\ ~Terminated(c)
  BY <1>2 DEF Live, Terminated, Exists
<1>4. \A a \in Agent : agents[a].state = "AVAILABLE"
  BY DEF Init, Released, ForceState
<1>5. \A s \in Slot : ~InFlight(s)
  BY DEF Init, Idle, InFlight
<1>6. \A b \in Borrower : borrowers[b].state = "PENDING" /\ borrowers[b].attempts = 0
  BY DEF Init
<1>7. CallsMatchAttempts
  BY <1>3, <1>6, CallIdParts DEF CallsMatchAttempts
<1> QED
  BY <1>1, <1>2, <1>3, <1>4, <1>5, <1>6, <1>7, CountAssumption
     DEF IInv, SlotsHoldTheirCalls, BorrowersMatchCalls, CallsAtRest, OneLiveCallPerAgent,
         LiveCallHasItsAgent, BusyAgentHasACall

LEMMA InvStep == IInv /\ [PunctualNext]_vars => IInv'
<1> SUFFICES ASSUME IInv, [PunctualNext]_vars
             PROVE  IInv'
  OBVIOUS
<1>0. TypeOK'
  BY PunctualIsNext, TypeStep DEF IInv
<1>1. ASSUME NEW s \in Slot, NEW a \in Agent, NEW b \in Borrower, Reserve(s, a, b)
      PROVE  IInv'
  BY <1>0, <1>1, ReserveStep
<1>2. ASSUME NEW s \in Slot, NEW a \in Agent, NEW b \in Borrower, ReserveCollides(s, a, b)
      PROVE  IInv'
  <2>1. \A t \in Slot : InFlight(t)' => InFlight(t) /\ slots'[t].call = slots[t].call
    BY <1>2 DEF ReserveCollides, InFlight, IInv, TypeOK
  <2> QED
    BY <1>0, <1>2, <2>1, TablesUnchangedStep DEF ReserveCollides
<1>3. ASSUME NEW s \in Slot, PlaceAccepted(s) \/ PlaceFailed(s)
      PROVE  IInv'
  <2>1. \A t \in Slot : InFlight(t)' => InFlight(t) /\ slots'[t].call = slots[t].call
    BY <1>3 DEF PlaceAccepted, PlaceFailed, InFlight, IInv, TypeOK
  <2> QED
    BY <1>0, <1>3, <2>1, TablesUnchangedStep DEF PlaceAccepted, PlaceFailed
<1>4. ASSUME NEW s \in Slot, RecordGivesUp(s) \/ WorkerRestart(s)
      PROVE  IInv'
  <2>1. \A t \in Slot : InFlight(t)' => InFlight(t) /\ slots'[t].call = slots[t].call
    BY <1>4 DEF RecordGivesUp, WorkerRestart, Idle, InFlight, IInv, TypeOK
  <2> QED
    BY <1>0, <1>4, <2>1, TablesUnchangedStep DEF RecordGivesUp, WorkerRestart
<1>5. ASSUME NEW s \in Slot, RejectCleanup(s)
      PROVE  IInv'
  BY <1>0, <1>5, RejectCleanupStep
<1>6. ASSUME NEW s \in Slot, RecordInitiated(s)
      PROVE  IInv'
  BY <1>0, <1>6, RecordInitiatedStep
<1>7. ASSUME NEW c \in CallId, PullbackCancel(c)
      PROVE  IInv'
  BY <1>0, <1>7, PullbackStep
<1>8. ASSUME NEW c \in CallId, Provider(c)
      PROVE  IInv'
  BY <1>0, <1>8, TablesUnchangedStep DEF Provider, Answer, NoAnswer, HangUp, InFlight
<1>9. ASSUME NEW e \in Event, Ingest(e) \/ ApplyAnomaly(e) \/ GiveUpUnknown(e)
      PROVE  IInv'
  BY <1>0, <1>9, TablesUnchangedStep DEF Ingest, ApplyAnomaly, GiveUpUnknown, InFlight
<1>10. ASSUME NEW e \in Event, ApplyAccepted(e)
       PROVE  IInv'
  BY <1>0, <1>10, ApplyAcceptedStep
<1>11. ASSUME Reap
       PROVE  IInv'
  BY <1>0, <1>11, ReapStep
<1>12. ASSUME Punctual, Tick
       PROVE  IInv'
  BY <1>0, <1>12, TickStep
<1>13. CASE UNCHANGED vars
  BY <1>0, <1>13, TablesUnchangedStep DEF vars, InFlight
<1> QED
  BY <1>1, <1>2, <1>3, <1>4, <1>5, <1>6, <1>7, <1>8, <1>9, <1>10, <1>11, <1>12, <1>13
     DEF PunctualNext, Work, Allocate, ApplyOne

\* The inductive invariant holds of punctual workers.
THEOREM InvariantHolds == PunctualSpec => []IInv
BY InvInit, InvStep, PTL DEF PunctualSpec

\* I2: a borrower has at most one live call, although locks expire under calls.
THEOREM BorrowerSafety == PunctualSpec => []OneLiveCallPerBorrower
<1>1. IInv => OneLiveCallPerBorrower
  BY OneCallPerBorrower DEF IInv
<1> QED
  BY <1>1, InvariantHolds, PTL

\* I1 for the life of a call: an agent serves one live call ...
THEOREM AgentSafety == PunctualSpec => []OneLiveCallPerAgent
<1>1. IInv => OneLiveCallPerAgent
  BY DEF IInv
<1> QED
  BY <1>1, InvariantHolds, PTL

\* ... every live call has its agent, in the state the call needs ...
THEOREM CallsAreServed == PunctualSpec => []LiveCallHasItsAgent
<1>1. IInv => LiveCallHasItsAgent
  BY DEF IInv
<1> QED
  BY <1>1, InvariantHolds, PTL

\* ... and every agent who is reserved, dialling or connected has a live call.
THEOREM NoAgentIsLost == PunctualSpec => []BusyAgentHasACall
<1>1. IInv => BusyAgentHasACall
  BY DEF IInv
<1> QED
  BY <1>1, InvariantHolds, PTL

\* Every ended call has charged its borrower exactly one attempt.
THEOREM AttemptAccounting == PunctualSpec => []AttemptsAreFinishedCalls
<1>1. IInv => AttemptsAreFinishedCalls
  BY DEF IInv, CallsMatchAttempts, AttemptsAreFinishedCalls
<1> QED
  BY <1>1, InvariantHolds, PTL

-----------------------------------------------------------------------------
(* Why nobody is cut off: what the tables say of a call's phone is true of it. *)

\* No phone rings before its call is placed; what was reported did happen; and
\* who has been put through has picked up.
LineInv ==
  /\ \A s \in Slot : slots[s].pc = "placing" => line[slots[s].call] = "idle"
  /\ \A c \in CallId : ~Exists(c) => line[c] = "idle"
  /\ \A e \in Event : ledger[e].status # "absent" => Emitted(e)
  /\ \A c \in CallId : calls[c].state = "CONNECTED" => line[c] \in {"answered", "completed"}

\* A step that does not touch the phones, takes up no coroutine, inserts no call
\* and no event, and puts nobody through.
LEMMA LineUntouched ==
  ASSUME LineInv, line' = line,
         \A s \in Slot : slots'[s].pc = "placing" => slots'[s] = slots[s],
         \A c \in CallId : Exists(c) => Exists(c)',
         \A c \in CallId : calls'[c].state = "CONNECTED" => calls[c].state = "CONNECTED",
         \A e \in Event : ledger'[e].status # "absent" => ledger[e].status # "absent"
  PROVE  LineInv'
<1>1. \A e \in Event : Emitted(e) => Emitted(e)'
  BY DEF Emitted
<1> QED
  BY <1>1 DEF LineInv

\* A phone only goes on: it rings, is answered or not, and is hung up.
Onward(c) ==
  \/ line'[c] = line[c]
  \/ line[c] = "idle" /\ line'[c] = "ringing"
  \/ line[c] = "ringing" /\ line'[c] \in {"answered", "unanswered"}
  \/ line[c] = "answered" /\ line'[c] = "completed"

LEMMA ReportsStayTrue ==
  ASSUME NEW e \in Event, Onward(e.call), Emitted(e)
  PROVE  Emitted(e)'
BY DEF Event, EventType, Emitted, Onward

LEMMA LineStep == IInv /\ LineInv /\ [PunctualNext]_vars => LineInv'
<1> SUFFICES ASSUME IInv, LineInv, [PunctualNext]_vars
             PROVE  LineInv'
  OBVIOUS
<1>1. /\ calls \in [CallId -> CallRow] /\ ledger \in [Event -> EventRow]
      /\ slots \in [Slot -> SlotRow]
      /\ line \in [CallId -> {"idle", "ringing", "answered", "completed", "unanswered"}]
  BY DEF IInv, TypeOK, CallRow, EventRow, SlotRow
<1>2. \A e \in Event : e.call \in CallId /\ e.type \in EventType
  BY DEF Event
<1>3. ASSUME NEW s \in Slot, NEW a \in Agent, NEW b \in Borrower, Reserve(s, a, b)
      PROVE  LineInv'
  <2> DEFINE c == NextCall(b)
  <2>1. /\ c \in CallId /\ ~Exists(c) /\ line' = line /\ ledger' = ledger
        /\ calls' = [calls EXCEPT ![c] = [state |-> "RESERVED", agent |-> a,
                                          lease |-> ReserveLease, ref |-> FALSE]]
        /\ slots' = [slots EXCEPT ![s] = [pc |-> "placing", call |-> c]]
    BY <1>3 DEF Reserve
  <2> HIDE DEF c
  <2>2. line[c] = "idle" /\ slots'[s].call = c
    BY <1>1, <2>1 DEF LineInv
  <2>3. \A t \in Slot \ {s} : slots'[t] = slots[t]
    BY <1>1, <2>1
  <2>4. \A d \in CallId : (Exists(d) => Exists(d)')
                       /\ (calls'[d].state = "CONNECTED" => calls[d].state = "CONNECTED")
    BY <1>1, <2>1 DEF Exists
  <2>5. \A e \in Event : Emitted(e) => Emitted(e)'
    BY <2>1 DEF Emitted
  <2> QED
    BY <2>1, <2>2, <2>3, <2>4, <2>5 DEF LineInv
<1>4. ASSUME NEW s \in Slot, PlaceAccepted(s) \/ PlaceFailed(s) \/ WorkerRestart(s)
      PROVE  LineInv'
  <2> DEFINE c == slots[s].call
  <2>1. /\ calls' = calls /\ ledger' = ledger
        /\ slots'[s].pc # "placing" /\ \A t \in Slot \ {s} : slots'[t] = slots[t]
    BY <1>1, <1>4 DEF PlaceAccepted, PlaceFailed, WorkerRestart, Idle, SlotRow
  <2>2. CASE line' = line
    BY <2>1, <2>2, LineUntouched DEF Exists
  <2>3. CASE line' # line
    <3>1. slots[s].pc = "placing" /\ line' = [line EXCEPT ![c] = "ringing"]
      BY <1>4, <2>3 DEF PlaceAccepted, PlaceFailed, WorkerRestart
    <3>2. c \in CallId /\ Exists(c) /\ line[c] = "idle" /\ calls[c].state = "RESERVED"
      BY <3>1, InFlightFacts DEF InFlight, Live, LineInv
    <3>3. \A t \in Slot \ {s} : slots[t].pc = "placing" => slots[t].call # c
      BY <3>1 DEF IInv, SlotsHoldTheirCalls, InFlight
    <3>4. line'[c] = "ringing" /\ \A d \in CallId \ {c} : line'[d] = line[d]
      BY <1>1, <3>1, <3>2
    <3> HIDE DEF c
    <3>5. \A t \in Slot : slots'[t].pc = "placing" => line'[slots'[t].call] = "idle"
      <4> SUFFICES ASSUME NEW t \in Slot, slots'[t].pc = "placing"
                   PROVE  line'[slots'[t].call] = "idle"
        OBVIOUS
      <4>1. t # s /\ slots'[t] = slots[t] /\ slots[t].pc = "placing"
        BY <2>1
      <4>2. slots[t].call \in CallId
        BY <4>1, InFlightFacts DEF InFlight
      <4> QED
        BY <3>3, <3>4, <4>1, <4>2 DEF LineInv
    <3>6. \A e \in Event : Emitted(e) => Emitted(e)'
      BY <1>2, <3>2, <3>4, ReportsStayTrue DEF Onward
    <3>7. \A d \in CallId : ~Exists(d)' => line'[d] = "idle"
      BY <2>1, <3>2, <3>4 DEF LineInv, Exists
    <3>8. \A d \in CallId : calls'[d].state = "CONNECTED" => line'[d] \in {"answered", "completed"}
      BY <2>1, <3>2, <3>4 DEF LineInv
    <3> QED
      BY <2>1, <3>5, <3>6, <3>7, <3>8 DEF LineInv
  <2> QED
    BY <2>2, <2>3
<1>5. ASSUME NEW d \in CallId, Provider(d)
      PROVE  LineInv'
  <2>1. /\ calls' = calls /\ ledger' = ledger /\ slots' = slots
        /\ line[d] # "idle" /\ Onward(d) /\ \A c \in CallId \ {d} : line'[c] = line[c]
        /\ line[d] \in {"answered", "completed"} => line'[d] \in {"answered", "completed"}
        /\ line[d] \in {"ringing", "answered"}
    BY <1>1, <1>5 DEF Provider, Answer, NoAnswer, HangUp, Onward
  <2>2. \A e \in Event : Emitted(e) => Emitted(e)'
    BY <1>2, <2>1, ReportsStayTrue DEF Onward
  <2>3. \A s \in Slot : slots[s].pc = "placing" => slots[s].call \in CallId /\ slots[s].call # d
    BY <2>1, InFlightFacts DEF LineInv, InFlight
  <2>4. \A c \in CallId : Exists(c)' <=> Exists(c)
    BY <2>1 DEF Exists
  <2> QED
    BY <2>1, <2>2, <2>3, <2>4 DEF LineInv
<1>6. ASSUME NEW e \in Event, Ingest(e)
      PROVE  LineInv'
  <2>1. /\ UNCHANGED <<calls, slots, line>> /\ Emitted(e)
        /\ \A f \in Event \ {e} : ledger'[f] = ledger[f]
    BY <1>1, <1>6 DEF Ingest
  <2>2. \A f \in Event : Emitted(f)' <=> Emitted(f)
    BY <2>1 DEF Emitted
  <2> QED
    BY <2>1, <2>2 DEF LineInv, Exists
<1>7. ASSUME NEW e \in Event, ApplyAccepted(e)
      PROVE  LineInv'
  <2> DEFINE c == e.call
             final == FinalState(c, e.type)
             once == Advance(calls[c], e.type, TRUE, NoLease)
             twice == Advance(once, final, FALSE, NoLease)
  <2>1. /\ c \in CallId /\ ledger[e].status = "unapplied" /\ Emitted(e) /\ CanApply(calls[c].state, e.type)
        /\ line' = line /\ slots' = slots /\ calls' = [calls EXCEPT ![c] = twice]
    BY <1>2, <1>7 DEF ApplyAccepted, LineInv
  <2>2. \A f \in Event : ledger'[f].status # "absent" => ledger[f].status # "absent"
    BY <1>1, <1>7 DEF ApplyAccepted, Marked
  <2>3. e.type \in {"RINGING", "ANSWERED", "COMPLETED", "FAILED"}
    BY <1>2 DEF EventType
  <2>4. Exists(c) /\ calls[c] \in CallRow
    BY <1>1, <1>7, <2>1 DEF ApplyAccepted, IInv, CallsAtRest, Exists
  <2>11. once \in CallRow /\ once.state \in {calls[c].state, e.type}
    <3> HIDE DEF c
    <3>1. e.type \in CallState
      BY <2>3 DEF CallState
    <3>2. once \in CallRow
      BY <2>4, <3>1, AdvanceType, LeaseTimes
    <3> QED
      BY <2>4, <3>2 DEF Advance, CallRow
  <2>12. twice.state \in {calls[c].state, e.type, final} /\ final # "NONE"
    <3> HIDE DEF once, c
    <3> QED
      BY <2>3, <2>11 DEF Advance, CallRow, FinalState
  <2>5. final = "CONNECTED" => line[c] \in {"answered", "completed"}
    BY <2>1, <2>3 DEF FinalState, Emitted
  <2>6. calls'[c] = twice /\ \A d \in CallId \ {c} : calls'[d] = calls[d]
    BY <1>1, <2>1
  <2> HIDE DEF c, final, once, twice
  <2>7. \A d \in CallId : calls'[d].state = "CONNECTED" => line'[d] \in {"answered", "completed"}
    BY <2>1, <2>3, <2>5, <2>6, <2>12 DEF LineInv
  <2>8. \A d \in CallId : ~Exists(d)' => line'[d] = "idle"
    BY <2>1, <2>3, <2>4, <2>6, <2>12 DEF LineInv, Exists
  <2>9. \A f \in Event : Emitted(f) => Emitted(f)'
    BY <2>1 DEF Emitted
  <2> QED
    BY <2>1, <2>2, <2>7, <2>8, <2>9 DEF LineInv
<1>8. ASSUME NEW s \in Slot, RejectCleanup(s) \/ RecordInitiated(s) \/ RecordGivesUp(s)
      PROVE  LineInv'
  <2>1. \A c \in CallId : calls'[c] \in {calls[c], Advance(calls[c], "FAILED", FALSE, NoLease),
                                         Advance(calls[c], "INITIATED", TRUE, DialLease)}
    BY <1>1, <1>8 DEF RejectCleanup, RecordInitiated, RecordGivesUp
  <2>2. \A c \in CallId : calls'[c].state \in {calls[c].state, "FAILED", "INITIATED"}
    <3> TAKE c \in CallId
    <3>1. calls[c] \in CallRow
      BY <1>1
    <3> QED
      BY <2>1, <3>1 DEF Advance, CallRow
  <2>3. /\ line' = line /\ ledger' = ledger
        /\ slots' = [slots EXCEPT ![s] = Idle] /\ Idle.pc # "placing"
    BY <1>8 DEF RejectCleanup, RecordInitiated, RecordGivesUp, Idle
  <2>4. \A t \in Slot : slots'[t].pc = "placing" => slots'[t] = slots[t]
    BY <1>1, <2>3
  <2> QED
    BY <2>2, <2>3, <2>4, LineUntouched DEF Exists
<1>9. ASSUME NEW d \in CallId, PullbackCancel(d)
      PROVE  LineInv'
  <2>1. /\ UNCHANGED <<line, ledger, slots>>
        /\ \A c \in CallId : calls'[c].state \in {calls[c].state, "CANCELLED"}
    BY <1>1, <1>9 DEF PullbackCancel, CallRow
  <2> QED
    BY <2>1, LineUntouched DEF Exists
<1>10. ASSUME NEW e \in Event, ApplyAnomaly(e) \/ GiveUpUnknown(e)
       PROVE  LineInv'
  <2>1. UNCHANGED <<line, calls, slots>> /\ ledger[e].status # "absent"
    BY <1>10 DEF ApplyAnomaly, GiveUpUnknown
  <2>2. \A f \in Event : ledger'[f].status # "absent" => ledger[f].status # "absent"
    BY <1>1, <1>10, <2>1 DEF ApplyAnomaly, GiveUpUnknown, Marked
  <2> QED
    BY <2>1, <2>2, LineUntouched DEF Exists
<1>11. CASE Reap \/ Tick
  <2>1. /\ line' = line /\ slots' = slots
        /\ \A c \in CallId : calls'[c].state \in {calls[c].state, "FAILED"}
        /\ \A f \in Event : ledger'[f].status = ledger[f].status
    BY <1>1, <1>11 DEF Reap, FailOrphan, Tick, CallRow, EventRow
  <2> QED
    BY <2>1, LineUntouched DEF Exists
<1>12. ASSUME NEW s \in Slot, NEW a \in Agent, NEW b \in Borrower, ReserveCollides(s, a, b)
       PROVE  LineInv'
  <2>1. /\ UNCHANGED <<line, ledger, calls>>
        /\ \A t \in Slot : slots'[t].pc = "placing" => slots'[t] = slots[t]
    BY <1>1, <1>12 DEF ReserveCollides, SlotRow
  <2> QED
    BY <2>1, LineUntouched DEF Exists
<1>13. CASE UNCHANGED vars
  BY <1>13, LineUntouched DEF vars, Exists
<1> QED
  BY <1>3, <1>4, <1>5, <1>6, <1>7, <1>8, <1>9, <1>10, <1>11, <1>12, <1>13
     DEF PunctualNext, Work, Allocate, ApplyOne

\* Only the event of the borrower's hanging up moves a call that is connected.
LEMMA ConnectedStep ==
  ASSUME IInv, LineInv, [PunctualNext]_vars, NEW c \in CallId, calls[c].state = "CONNECTED"
  PROVE  /\ calls'[c].agent = calls[c].agent
         /\ \/ calls'[c].state = "CONNECTED"
            \/ calls'[c].state = "COMPLETED" /\ line[c] = "completed"
<1>1. /\ calls \in [CallId -> CallRow] /\ calls[c] \in CallRow
      /\ Live(c) /\ Exists(c)
  BY RankValues DEF IInv, TypeOK, CallRow, Live, Exists
<1>2. ASSUME NEW s \in Slot, InFlight(s)
      PROVE  slots[s].call # c
  BY <1>2, InFlightFacts
<1>3. ASSUME NEW e \in Event, ApplyAccepted(e), calls' # calls, e.call = c
      PROVE  calls'[c].agent = calls[c].agent /\ calls'[c].state = "COMPLETED" /\ line[c] = "completed"
  <2>1. CanApply("CONNECTED", e.type) /\ Emitted(e)
    BY <1>3 DEF ApplyAccepted, LineInv
  <2>2. e.type \in {"COMPLETED", "FAILED"}
    BY <2>1, RankValues DEF CanApply, Event, EventType
  <2>3. e.type = "COMPLETED" /\ line[c] = "completed"
    BY <1>3, <2>1, <2>2 DEF Emitted, LineInv
  <2>4. FinalState(c, e.type) = "COMPLETED"
    BY <2>3 DEF FinalState
  <2> QED
    BY <1>1, <1>3, <2>3, <2>4, RankValues DEF ApplyAccepted, Advance, CallRow
<1>4. ASSUME NEW e \in Event, ApplyOne(e) \/ Ingest(e), e.call # c \/ ~ApplyAccepted(e)
      PROVE  calls'[c] = calls[c]
  BY <1>1, <1>4 DEF ApplyOne, ApplyAccepted, ApplyAnomaly, GiveUpUnknown, Ingest
<1>5. ASSUME NEW s \in Slot, Allocate(s) \/ WorkerRestart(s)
      PROVE  calls'[c] = calls[c]
  BY <1>1, <1>2, <1>5 DEF Allocate, PlaceAccepted, PlaceFailed, RejectCleanup, RecordInitiated,
                          RecordGivesUp, WorkerRestart, InFlight
<1>6. ASSUME NEW s \in Slot, NEW a \in Agent, NEW b \in Borrower,
             Reserve(s, a, b) \/ ReserveCollides(s, a, b)
      PROVE  calls'[c] = calls[c]
  BY <1>1, <1>6 DEF Reserve, ReserveCollides
<1>7. ASSUME NEW d \in CallId, PullbackCancel(d) \/ Provider(d)
      PROVE  calls'[c] = calls[c]
  BY <1>1, <1>7 DEF PullbackCancel, Provider, Answer, NoAnswer, HangUp
<1>8. CASE Reap \/ Tick
  BY <1>1, <1>8 DEF Reap, FailOrphan, Orphans, Tick, CallRow
<1>9. CASE UNCHANGED vars
  BY <1>9 DEF vars
<1> QED
  BY <1>1, <1>3, <1>4, <1>5, <1>6, <1>7, <1>8, <1>9 DEF PunctualNext, Work, ApplyOne

\* cancel_if_not_answered, the reaper's sweeps and the applier leave a call alone
\* once it has been put through, and its agent with it, until the borrower hangs up.
THEOREM NobodyIsCutOff == PunctualSpec => ConnectedUntilHungUp
<1>1. Init => LineInv
  <2> SUFFICES ASSUME Init PROVE LineInv
    OBVIOUS
  <2>1. /\ \A e \in Event : ledger[e].status = "absent"
        /\ \A c \in CallId : line[c] = "idle" /\ calls[c].state = "NONE"
        /\ \A s \in Slot : slots[s].pc = "idle"
    BY DEF Init, Idle
  <2> QED
    BY <2>1 DEF LineInv
<1>2. IInv /\ LineInv /\ IInv' /\ [PunctualNext]_vars =>
        [\A c \in CallId : calls[c].state = "CONNECTED" =>
           \/ calls'[c].state = "CONNECTED" /\ agents'[calls[c].agent].state = "CONNECTED"
           \/ calls'[c].state = "COMPLETED" /\ line[c] = "completed"]_vars
  <2> SUFFICES ASSUME IInv, LineInv, IInv', [PunctualNext]_vars,
                      NEW c \in CallId, calls[c].state = "CONNECTED",
                      calls'[c].state = "CONNECTED"
               PROVE  agents'[calls[c].agent].state = "CONNECTED"
    BY ConnectedStep
  <2>1. calls'[c].agent = calls[c].agent
    BY ConnectedStep
  <2>2. Live(c)'
    BY RankValues DEF Live, Exists
  <2> QED
    BY <2>1, <2>2 DEF IInv, LiveCallHasItsAgent, Serving
<1> QED
  BY <1>1, <1>2, LineStep, InvariantHolds, PTL DEF PunctualSpec, ConnectedUntilHungUp

-----------------------------------------------------------------------------
\* I6, I7: no step of the program, whether its workers are late or not, lowers a
\* call's rank, reopens an ended call or moves a call to another agent.
THEOREM RanksAreMonotone == Spec => CallsOnlyAdvance
<1> DEFINE Up(c) ==
      Exists(c) =>
       /\ calls'[c].state \in CallState
       /\ calls'[c].state # calls[c].state => RANK[calls'[c].state] > RANK[calls[c].state]
       /\ calls'[c].agent = calls[c].agent
<1>1. TypeOK /\ [Next]_vars => [\A c \in CallId : Up(c)]_vars
  <2> SUFFICES ASSUME TypeOK, Next, NEW c \in CallId, Exists(c)
               PROVE  /\ calls'[c].state \in CallState
                      /\ calls'[c].state # calls[c].state =>
                           RANK[calls'[c].state] > RANK[calls[c].state]
                      /\ calls'[c].agent = calls[c].agent
    OBVIOUS
  <2>1. calls \in [CallId -> CallRow] /\ calls[c].state \in CallState
    BY DEF TypeOK, CallRow, Exists
  <2>2. ASSUME NEW row \in CallRow, row.state \in CallState, NEW st \in CallState,
               NEW r \in BOOLEAN, NEW t \in LeaseTime
        PROVE  /\ Advance(row, st, r, t) \in CallRow
               /\ Advance(row, st, r, t).state \in CallState
               /\ Advance(row, st, r, t).state # row.state =>
                    RANK[Advance(row, st, r, t).state] > RANK[row.state]
               /\ Advance(row, st, r, t).agent = row.agent
    BY <2>2, AdvanceType, RankValues DEF Advance, CallRow
  <2>3. ASSUME NEW e \in Event, ApplyAccepted(e)
        PROVE  Up(c)
    <3> DEFINE final == FinalState(e.call, e.type)
               step1 == Advance(calls[c], e.type, TRUE, NoLease)
               step2 == Advance(step1, final, FALSE, NoLease)
    <3>1. CASE c # e.call
      BY <2>1, <2>3, <3>1 DEF ApplyAccepted
    <3>2. CASE c = e.call
      <4>1. e.type \in CallState /\ final \in CallState
        BY DEF Event, EventType, FinalState, CallState
      <4>2. /\ step1 \in CallRow /\ step1.state \in CallState
            /\ step1.state # calls[c].state => RANK[step1.state] > RANK[calls[c].state]
            /\ step1.agent = calls[c].agent
        BY <2>1, <2>2, <4>1, LeaseTimes
      <4>3. /\ step2.state \in CallState
            /\ step2.state # step1.state => RANK[step2.state] > RANK[step1.state]
            /\ step2.agent = step1.agent
        BY <2>2, <4>1, <4>2, LeaseTimes
      <4>4. calls'[c] = step2
        BY <2>1, <2>3, <3>2 DEF ApplyAccepted
      <4> HIDE DEF step1, step2
      <4>5. RANK[calls[c].state] \in Int /\ RANK[step1.state] \in Int /\ RANK[step2.state] \in Int
        BY <2>1, <4>2, <4>3, RankValues
      <4> QED
        BY <4>2, <4>3, <4>4, <4>5
    <3> QED
      BY <3>1, <3>2
  <2>4. ASSUME NEW s \in Slot, RejectCleanup(s)
        PROVE  Up(c)
    <3>1. "FAILED" \in CallState
      BY DEF CallState
    <3> DEFINE row == Advance(calls[c], "FAILED", FALSE, NoLease)
    <3>2. calls'[c] \in {calls[c], row}
      BY <2>1, <2>4 DEF RejectCleanup
    <3>3. calls[c] \in CallRow
      BY <2>1
    <3>4. /\ row.state \in CallState
          /\ row.state # calls[c].state => RANK[row.state] > RANK[calls[c].state]
          /\ row.agent = calls[c].agent
      BY <2>1, <2>2, <3>1, <3>3, LeaseTimes
    <3> HIDE DEF row
    <3> QED
      BY <2>1, <3>2, <3>4
  <2>5. ASSUME NEW s \in Slot, RecordInitiated(s)
        PROVE  Up(c)
    <3>1. "INITIATED" \in CallState
      BY DEF CallState
    <3> DEFINE row == Advance(calls[c], "INITIATED", TRUE, DialLease)
    <3>2. calls'[c] \in {calls[c], row}
      BY <2>1, <2>5 DEF RecordInitiated
    <3>3. calls[c] \in CallRow
      BY <2>1
    <3>4. /\ row.state \in CallState
          /\ row.state # calls[c].state => RANK[row.state] > RANK[calls[c].state]
          /\ row.agent = calls[c].agent
      BY <2>1, <2>2, <3>1, <3>3, LeaseTimes
    <3> HIDE DEF row
    <3> QED
      BY <2>1, <3>2, <3>4
  <2>6. ASSUME NEW d \in CallId, PullbackCancel(d) \/ Provider(d)
        PROVE  Up(c)
    <3>1. CASE PullbackCancel(d) /\ c = d
      <4>1. calls'[c] = [calls[c] EXCEPT !.state = "CANCELLED", !.lease = NoLease]
        BY <2>1, <3>1 DEF PullbackCancel
      <4>2. calls[c].state \in {"INITIATED", "RINGING"} /\ calls[c] \in CallRow
        BY <2>1, <3>1 DEF PullbackCancel
      <4>3. /\ calls'[c].state = "CANCELLED" /\ calls'[c].agent = calls[c].agent
            /\ "CANCELLED" \in CallState
        BY <4>1, <4>2 DEF CallRow, CallState
      <4> QED
        BY <4>2, <4>3, RankValues
    <3>2. CASE (PullbackCancel(d) /\ c # d) \/ Provider(d)
      BY <2>1, <3>2 DEF PullbackCancel, Provider, Answer, NoAnswer, HangUp
    <3> QED
      BY <2>6, <3>1, <3>2
  <2>7. CASE Reap
    BY <2>1, <2>7, RankValues DEF Reap, FailOrphan, Orphans, CallRow
  <2>8. CASE Tick
    BY <2>1, <2>8 DEF Tick, CallRow
  <2>9. ASSUME NEW s \in Slot, NEW a \in Agent, NEW b \in Borrower,
               Reserve(s, a, b) \/ ReserveCollides(s, a, b)
        PROVE  calls'[c] = calls[c]
    BY <2>1, <2>9 DEF Reserve, ReserveCollides, Exists
  <2>10. ASSUME NEW s \in Slot, PlaceAccepted(s) \/ PlaceFailed(s) \/ RecordGivesUp(s) \/ WorkerRestart(s)
         PROVE  calls' = calls
    BY <2>10 DEF PlaceAccepted, PlaceFailed, RecordGivesUp, WorkerRestart
  <2>11. ASSUME NEW e \in Event, Ingest(e) \/ ApplyAnomaly(e) \/ GiveUpUnknown(e)
         PROVE  calls' = calls
    BY <2>11 DEF Ingest, ApplyAnomaly, GiveUpUnknown
  <2> QED
    BY <2>1, <2>3, <2>4, <2>5, <2>6, <2>7, <2>8, <2>9, <2>10, <2>11
       DEF Next, Work, Allocate, ApplyOne
<1> QED
  BY <1>1, TypeCorrect, PTL DEF Spec, CallsOnlyAdvance
=============================================================================
