------------------------ MODULE DialerOutcomeProofs ------------------------
(* Proofs about Dialer, continued: what becomes of a borrower, of an attempt   *)
(* that a late worker ends, and of an event nobody could place.                *)
EXTENDS DialerProofs

-----------------------------------------------------------------------------
(* A borrower is done exactly when a call to it completed.                     *)

LEMMA OutcomeUntouched ==
  ASSUME DoneMeansCompleted,
         \A b \in Borrower : borrowers'[b].state = "DONE" <=> borrowers[b].state = "DONE",
         \A c \in CallId : calls'[c].state = "COMPLETED" <=> calls[c].state = "COMPLETED"
  PROVE  DoneMeansCompleted'
<1>1. \A b \in Borrower : \A n \in 1 .. MaxAttempts : <<b, n>> \in CallId
  BY DEF CallId
<1> QED
  BY <1>1 DEF DoneMeansCompleted

\* A call that ends without a conversation leaves its borrower undone.
LEMMA EndsUndone ==
  ASSUME IInv, DoneMeansCompleted, NEW c \in CallId, Live(c),
         calls'[c].state \in {"FAILED", "CANCELLED"},
         \A d \in CallId \ {c} : calls'[d] = calls[d],
         borrowers' \in [Borrower -> BorrowerRow],
         borrowers'[BorrowerOf(c)].state # "DONE",
         \A b \in Borrower \ {BorrowerOf(c)} : borrowers'[b] = borrowers[b]
  PROVE  DoneMeansCompleted'
<1>1. BorrowerOf(c) \in Borrower /\ borrowers[BorrowerOf(c)].state \in {"PENDING", "LOCKED"}
  BY LiveCallFacts
<1>2. calls[c].state # "COMPLETED"
  BY RankValues DEF Live
<1> QED
  BY <1>1, <1>2, OutcomeUntouched

LEMMA DoneStep == IInv /\ DoneMeansCompleted /\ [PunctualNext]_vars => DoneMeansCompleted'
<1> SUFFICES ASSUME IInv, DoneMeansCompleted, [PunctualNext]_vars
             PROVE  DoneMeansCompleted'
  OBVIOUS
<1>1. /\ calls \in [CallId -> CallRow] /\ borrowers \in [Borrower -> BorrowerRow]
      /\ TypeOK' /\ borrowers' \in [Borrower -> BorrowerRow] /\ TypeOK
  BY PunctualIsNext, TypeStep DEF IInv, TypeOK, CallRow, BorrowerRow
<1>2. ASSUME NEW s \in Slot, NEW a \in Agent, NEW b \in Borrower, Reserve(s, a, b)
      PROVE  DoneMeansCompleted'
  <2>1. /\ borrowers[b].state = "PENDING" /\ borrowers'[b].state = "LOCKED"
        /\ \A x \in Borrower \ {b} : borrowers'[x] = borrowers[x]
    BY <1>1, <1>2 DEF Reserve, BorrowerRow
  <2>2. PICK c \in CallId : c = NextCall(b)
    BY <1>2 DEF Reserve
  <2>3. /\ calls[c].state = "NONE" /\ calls'[c].state = "RESERVED"
        /\ \A d \in CallId \ {c} : calls'[d] = calls[d]
    BY <1>1, <1>2, <2>2 DEF Reserve, Exists, CallRow
  <2> QED
    BY <2>1, <2>3, OutcomeUntouched
<1>3. ASSUME NEW s \in Slot, RejectCleanup(s)
      PROVE  DoneMeansCompleted'
  <2>1. InFlight(s)
    BY <1>3 DEF RejectCleanup, InFlight
  <2>2. PICK c \in CallId : c = slots[s].call
    BY <2>1, InFlightFacts
  <2>3. Live(c) /\ calls[c].state = "RESERVED" /\ BorrowerOf(c) \in Borrower
    BY <2>1, <2>2, InFlightFacts
  <2>4. /\ calls'[c].state = "FAILED"
        /\ \A d \in CallId \ {c} : calls'[d] = calls[d]
    BY <1>1, <1>3, <2>2, <2>3, RankValues DEF RejectCleanup, Advance, CallRow
  <2>5. /\ borrowers'[BorrowerOf(c)].state # "DONE"
        /\ \A b \in Borrower \ {BorrowerOf(c)} : borrowers'[b] = borrowers[b]
    BY <1>1, <1>3, <2>2, <2>3 DEF RejectCleanup, Reschedule
  <2> QED
    BY <1>1, <2>3, <2>4, <2>5, EndsUndone
<1>4. ASSUME NEW s \in Slot, RecordInitiated(s)
      PROVE  DoneMeansCompleted'
  <2>1. \A c \in CallId : calls'[c].state = "COMPLETED" <=> calls[c].state = "COMPLETED"
    <3> SUFFICES ASSUME NEW c \in CallId
                 PROVE  calls'[c].state = "COMPLETED" <=> calls[c].state = "COMPLETED"
      OBVIOUS
    <3>1. calls'[c] \in {calls[c], Advance(calls[c], "INITIATED", TRUE, DialLease)}
      BY <1>1, <1>4 DEF RecordInitiated
    <3>2. calls[c] \in CallRow
      BY <1>1
    <3>3. RANK["COMPLETED"] = 6 /\ RANK["INITIATED"] = 2
      BY RankValues
    <3> DEFINE row == Advance(calls[c], "INITIATED", TRUE, DialLease)
    <3>4. row.state = "COMPLETED" <=> calls[c].state = "COMPLETED"
      <4>1. CASE RANK[calls[c].state] < RANK["INITIATED"]
        <5>1. row.state = "INITIATED" /\ calls[c].state # "COMPLETED"
          BY <3>2, <3>3, <4>1 DEF Advance, CallRow
        <5> QED
          BY <5>1
      <4>2. CASE ~(RANK[calls[c].state] < RANK["INITIATED"])
        BY <4>2 DEF Advance
      <4> QED
        BY <4>1, <4>2
    <3> HIDE DEF row
    <3> QED
      BY <3>1, <3>4, Zenon DEF row
  <2> QED
    BY <1>4, <2>1, OutcomeUntouched DEF RecordInitiated
<1>5. ASSUME NEW c \in CallId, PullbackCancel(c)
      PROVE  DoneMeansCompleted'
  <2>1. Live(c) /\ BorrowerOf(c) \in Borrower
    BY <1>5, CallIdParts, RankValues DEF PullbackCancel, Live, Exists
  <2>2. /\ calls'[c].state = "CANCELLED"
        /\ \A d \in CallId \ {c} : calls'[d] = calls[d]
    BY <1>1, <1>5 DEF PullbackCancel, CallRow
  <2>3. /\ borrowers'[BorrowerOf(c)].state # "DONE"
        /\ \A b \in Borrower \ {BorrowerOf(c)} : borrowers'[b] = borrowers[b]
    BY <1>1, <1>5, <2>1 DEF PullbackCancel, OnCallTerminal, Reschedule
  <2> QED
    BY <1>1, <2>1, <2>2, <2>3, EndsUndone
<1>6. ASSUME NEW e \in Event, ApplyAccepted(e)
      PROVE  DoneMeansCompleted'
  <2>0. PICK c \in CallId : c = e.call
    BY DEF Event
  <2>1. /\ Live(c) /\ calls[c].state \in {"INITIATED", "RINGING", "CONNECTED"}
        /\ CanApply(calls[c].state, e.type)
    BY <1>6, <2>0, RankValues
       DEF ApplyAccepted, CanApply, IInv, TypeOK, CallsAtRest, Live, Exists, CallState,
           TERMINAL_RANK
  <2>2. BorrowerOf(c) \in Borrower /\ borrowers[BorrowerOf(c)].state # "DONE"
    BY <2>1, LiveCallFacts
  <2>3. \A d \in CallId \ {c} : calls'[d] = calls[d]
    BY <1>1, <1>6, <2>0 DEF ApplyAccepted
  <2>4. CASE e.type \in {"RINGING", "ANSWERED"}
    <3>1. FinalState(c, e.type) \in {"RINGING", "CONNECTED", "ABANDONED"}
      BY <2>4 DEF FinalState
    <3>2. calls'[c].state # "COMPLETED"
      BY <1>1, <1>6, <2>0, <2>1, <2>4, <3>1 DEF ApplyAccepted, Advance, CallRow
    <3>3. /\ borrowers'[BorrowerOf(c)].state # "DONE"
          /\ \A b \in Borrower \ {BorrowerOf(c)} : borrowers'[b] = borrowers[b]
      BY <1>1, <1>6, <2>0, <2>2, <3>1 DEF ApplyAccepted, OnCallTerminal, Reschedule
    <3> QED
      BY <2>1, <2>2, <2>3, <3>2, <3>3, OutcomeUntouched
  <2>5. CASE e.type = "FAILED"
    <3>1. FinalState(c, e.type) = "FAILED" /\ "FAILED" \in TERMINAL
      BY <2>5, RankValues DEF FinalState
    <3>2. calls'[c].state = "FAILED"
      BY <1>1, <1>6, <2>0, <2>1, <2>5, <3>1, RankValues DEF ApplyAccepted, Advance, CallRow
    <3>3. /\ borrowers'[BorrowerOf(c)].state # "DONE"
          /\ \A b \in Borrower \ {BorrowerOf(c)} : borrowers'[b] = borrowers[b]
      BY <1>1, <1>6, <2>0, <2>2, <3>1 DEF ApplyAccepted, OnCallTerminal, Reschedule
    <3> QED
      BY <1>1, <2>1, <2>3, <3>2, <3>3, EndsUndone
  <2>6. CASE e.type = "COMPLETED"
    <3>1. FinalState(c, e.type) = "COMPLETED" /\ "COMPLETED" \in TERMINAL
      BY <2>6, RankValues DEF FinalState
    <3>2. calls'[c].state = "COMPLETED"
      BY <1>1, <1>6, <2>0, <2>1, <2>6, <3>1, RankValues DEF ApplyAccepted, Advance, CallRow
    <3>3. /\ borrowers'[BorrowerOf(c)].state = "DONE"
          /\ \A b \in Borrower \ {BorrowerOf(c)} : borrowers'[b] = borrowers[b]
      BY <1>1, <1>6, <2>0, <2>2, <3>1 DEF ApplyAccepted, OnCallTerminal, MarkDone
    <3> SUFFICES ASSUME NEW b \in Borrower
                 PROVE  borrowers'[b].state = "DONE" <=>
                          \E n \in 1 .. MaxAttempts : calls'[<<b, n>>].state = "COMPLETED"
      BY DEF DoneMeansCompleted
    <3>4. CASE b = BorrowerOf(c)
      BY <3>2, <3>3, <3>4, CallIdParts
    <3>5. CASE b # BorrowerOf(c)
      <4>1. \A n \in 1 .. MaxAttempts : <<b, n>> \in CallId /\ <<b, n>> # c
        BY <3>5 DEF CallId, BorrowerOf
      <4> QED
        BY <2>3, <3>3, <3>5, <4>1 DEF DoneMeansCompleted
    <3> QED
      BY <3>4, <3>5
  <2> QED
    BY <2>4, <2>5, <2>6 DEF Event, EventType
<1>7. CASE Reap
  <2>1. ASSUME NEW c \in CallId
        PROVE  calls'[c].state = "COMPLETED" <=> calls[c].state = "COMPLETED"
    BY <1>1, <1>7 DEF Reap, FailOrphan, Orphans, CallRow
  <2>2. ASSUME NEW b \in Borrower
        PROVE  borrowers'[b].state = "DONE" <=> borrowers[b].state = "DONE"
    <3>1. borrowers'[b] = ReapBorrower(b)
      BY <1>7 DEF Reap
    <3>2. CASE OrphansOf(b) = {}
      BY <1>1, <3>1, <3>2 DEF ReapBorrower, ReclaimLock, BorrowerRow
    <3>3. CASE OrphansOf(b) # {}
      <4>1. PICK c \in Orphans : BorrowerOf(c) = b
        BY <3>3 DEF OrphansOf, BorrowerOf
      <4>2. borrowers[b].state # "DONE"
        BY <4>1, OrphanFacts, LiveCallFacts
      <4>3. borrowers'[b].state # "DONE"
        BY <3>1, <3>3 DEF ReapBorrower, Reschedule
      <4> QED
        BY <4>2, <4>3
    <3> QED
      BY <3>2, <3>3
  <2> QED
    BY <2>1, <2>2, OutcomeUntouched
<1>8. CASE Tick
  <2>1. \A b \in Borrower : borrowers'[b].state = "DONE" <=> borrowers[b].state = "DONE"
    BY <1>1, <1>8 DEF Tick, BorrowerRow
  <2>2. \A c \in CallId : calls'[c].state = "COMPLETED" <=> calls[c].state = "COMPLETED"
    BY <1>1, <1>8 DEF Tick, CallRow
  <2> QED
    BY <2>1, <2>2, OutcomeUntouched
<1>9. CASE UNCHANGED <<calls, borrowers>>
  BY <1>9, OutcomeUntouched
<1>10. ASSUME NEW s \in Slot,
              PlaceAccepted(s) \/ PlaceFailed(s) \/ RecordGivesUp(s) \/ WorkerRestart(s)
       PROVE  UNCHANGED <<calls, borrowers>>
  BY <1>10 DEF PlaceAccepted, PlaceFailed, RecordGivesUp, WorkerRestart
<1>11. ASSUME NEW e \in Event, Ingest(e) \/ ApplyAnomaly(e) \/ GiveUpUnknown(e)
       PROVE  UNCHANGED <<calls, borrowers>>
  BY <1>11 DEF Ingest, ApplyAnomaly, GiveUpUnknown
<1>12. ASSUME NEW s \in Slot, NEW a \in Agent, NEW b \in Borrower, ReserveCollides(s, a, b)
       PROVE  UNCHANGED <<calls, borrowers>>
  BY <1>12 DEF ReserveCollides
<1>13. ASSUME NEW c \in CallId, Provider(c)
       PROVE  UNCHANGED <<calls, borrowers>>
  BY <1>13 DEF Provider, Answer, NoAnswer, HangUp
<1>14. CASE UNCHANGED vars
  BY <1>9, <1>14 DEF vars
<1> QED
  BY <1>2, <1>3, <1>4, <1>5, <1>6, <1>7, <1>8, <1>9, <1>10, <1>11, <1>12, <1>13, <1>14
     DEF PunctualNext, Work, Allocate, ApplyOne

\* mark_done and reschedule agree with the calls table: a borrower is DONE exactly
\* when one of its calls is COMPLETED.
THEOREM DoneBorrowers == PunctualSpec => []DoneMeansCompleted
<1>1. Init => DoneMeansCompleted
  <2>1. Init => \A b \in Borrower : /\ borrowers[b].state = "PENDING"
                                    /\ \A n \in 1 .. MaxAttempts : calls[<<b, n>>].state = "NONE"
    BY DEF Init, CallId
  <2> QED
    BY <2>1 DEF DoneMeansCompleted
<1> QED
  BY <1>1, DoneStep, InvariantHolds, PTL DEF PunctualSpec

-----------------------------------------------------------------------------
(* Every ended call is charged, even when workers are late.                    *)

\* No call is beyond its borrower's next attempt.
NoCallAhead == \A c \in CallId : Exists(c) => c[2] <= borrowers[BorrowerOf(c)].attempts + 1

\* What is being placed, or recorded under a reference, has a row.
PlacedCallsExist ==
  /\ \A s \in Slot : InFlight(s) => slots[s].call \in CallId /\ Exists(slots[s].call)
  /\ \A c \in CallId : calls[c].ref => Exists(c)

ChargeInv == TypeOK /\ PlacedCallsExist /\ NoCallAhead /\ FinishedCallsAreCharged

\* Rows stay, no new coroutine is in flight, attempts never fall, and rise with
\* each call that ends.
LEMMA ChargedStep ==
  ASSUME ChargeInv, TypeOK',
         \A s \in Slot : InFlight(s)' => InFlight(s) /\ slots'[s].call = slots[s].call,
         \A b \in Borrower : borrowers'[b].attempts >= borrowers[b].attempts,
         \A c \in CallId :
           /\ Exists(c)' <=> Exists(c)
           /\ calls'[c].ref => calls[c].ref \/ Exists(c)
           /\ Terminated(c)' =>
                \/ Terminated(c)
                \/ borrowers'[BorrowerOf(c)].attempts >= borrowers[BorrowerOf(c)].attempts + 1
  PROVE  ChargeInv'
<1>1. ASSUME NEW c \in CallId
      PROVE  /\ BorrowerOf(c) \in Borrower /\ c[2] \in Nat
             /\ borrowers[BorrowerOf(c)].attempts \in Nat
             /\ borrowers'[BorrowerOf(c)].attempts \in Nat
             /\ borrowers'[BorrowerOf(c)].attempts >= borrowers[BorrowerOf(c)].attempts
  BY CallIdParts DEF ChargeInv, TypeOK
<1>2. NoCallAhead'
  <2> SUFFICES ASSUME NEW c \in CallId, Exists(c)'
               PROVE  c[2] <= borrowers'[BorrowerOf(c)].attempts + 1
    BY DEF NoCallAhead
  <2>1. c[2] <= borrowers[BorrowerOf(c)].attempts + 1
    BY DEF ChargeInv, NoCallAhead
  <2> QED
    BY <1>1, <2>1
<1>3. FinishedCallsAreCharged'
  <2> SUFFICES ASSUME NEW c \in CallId, Terminated(c)'
               PROVE  c[2] <= borrowers'[BorrowerOf(c)].attempts
    BY DEF FinishedCallsAreCharged
  <2>1. CASE Terminated(c)
    <3>1. c[2] <= borrowers[BorrowerOf(c)].attempts
      BY <2>1 DEF ChargeInv, FinishedCallsAreCharged
    <3> QED
      BY <1>1, <3>1
  <2>2. CASE ~Terminated(c)
    <3>1. c[2] <= borrowers[BorrowerOf(c)].attempts + 1
      BY DEF ChargeInv, NoCallAhead, Terminated
    <3>2. borrowers'[BorrowerOf(c)].attempts >= borrowers[BorrowerOf(c)].attempts + 1
      BY <2>2
    <3> QED
      BY <1>1, <3>1, <3>2
  <2> QED
    BY <2>1, <2>2
<1>4. PlacedCallsExist'
  BY DEF ChargeInv, PlacedCallsExist
<1> QED
  BY <1>2, <1>3, <1>4 DEF ChargeInv

\* One call, and its borrower, are written.
LEMMA ChargedOne ==
  ASSUME ChargeInv, TypeOK', NEW c \in CallId, Exists(c), calls'[c].state # "NONE",
         \A s \in Slot : InFlight(s)' => InFlight(s) /\ slots'[s].call = slots[s].call,
         \A d \in CallId \ {c} : calls'[d] = calls[d],
         \A b \in Borrower \ {BorrowerOf(c)} : borrowers'[b] = borrowers[b],
         \/ borrowers'[BorrowerOf(c)].attempts = borrowers[BorrowerOf(c)].attempts + 1
         \/ ~Terminated(c)' /\ borrowers'[BorrowerOf(c)].attempts = borrowers[BorrowerOf(c)].attempts
  PROVE  ChargeInv'
<1>1. ASSUME NEW b \in Borrower
      PROVE  borrowers'[b].attempts >= borrowers[b].attempts
  <2>1. borrowers[b].attempts \in Nat
    BY DEF ChargeInv, TypeOK
  <2>2. CASE b = BorrowerOf(c)
    BY <2>1, <2>2
  <2>3. CASE b # BorrowerOf(c)
    BY <2>1, <2>3
  <2> QED
    BY <2>2, <2>3
<1>2. ASSUME NEW d \in CallId
      PROVE  /\ Exists(d)' <=> Exists(d)
             /\ calls'[d].ref => calls[d].ref \/ Exists(d)
             /\ Terminated(d)' =>
                  \/ Terminated(d)
                  \/ borrowers'[BorrowerOf(d)].attempts >= borrowers[BorrowerOf(d)].attempts + 1
  <2>1. CASE d = c
    <3>1. borrowers[BorrowerOf(c)].attempts \in Nat
      BY CallIdParts DEF ChargeInv, TypeOK
    <3> QED
      BY <2>1, <3>1 DEF Exists
  <2>2. CASE d # c
    BY <2>2 DEF Exists, Terminated
  <2> QED
    BY <2>1, <2>2
<1> QED
  BY <1>1, <1>2, ChargedStep

LEMMA ChargeStep == ChargeInv /\ [Next]_vars => ChargeInv'
<1> SUFFICES ASSUME ChargeInv, [Next]_vars
             PROVE  ChargeInv'
  OBVIOUS
<1>1. /\ TypeOK /\ TypeOK' /\ PlacedCallsExist
      /\ calls \in [CallId -> CallRow] /\ borrowers \in [Borrower -> BorrowerRow]
      /\ slots \in [Slot -> SlotRow]
      /\ \A b \in Borrower : borrowers[b].attempts \in Nat
  BY TypeStep DEF ChargeInv, TypeOK, CallRow, BorrowerRow, SlotRow
<1>2. ASSUME NEW s \in Slot, NEW a \in Agent, NEW b \in Borrower, Reserve(s, a, b)
      PROVE  ChargeInv'
  <2>1. PICK c \in CallId : c = NextCall(b)
    BY <1>2 DEF Reserve
  <2>2. /\ calls'[c].state = "RESERVED" /\ \A d \in CallId \ {c} : calls'[d] = calls[d]
        /\ \A x \in Borrower : borrowers'[x].attempts = borrowers[x].attempts
    BY <1>1, <1>2, <2>1 DEF Reserve, BorrowerRow
  <2>3. /\ slots'[s].call = c
        /\ \A t \in Slot \ {s} : slots'[t] = slots[t]
    BY <1>1, <1>2, <2>1 DEF Reserve
  <2>4. c[2] = borrowers'[BorrowerOf(c)].attempts + 1
    BY <1>1, <2>1, <2>2 DEF NextCall, BorrowerOf
  <2>5. Exists(c)' /\ ~Terminated(c)'
    BY <2>2, RankValues DEF Exists, Terminated
  <2>6. \A d \in CallId \ {c} : (Exists(d)' <=> Exists(d)) /\ (Terminated(d)' <=> Terminated(d))
    BY <2>2 DEF Exists, Terminated
  <2>7. \A d \in CallId : BorrowerOf(d) \in Borrower /\ d[2] \in Nat
    BY CallIdParts
  <2>8. NoCallAhead'
    <3> SUFFICES ASSUME NEW d \in CallId, Exists(d)'
                 PROVE  d[2] <= borrowers'[BorrowerOf(d)].attempts + 1
      BY DEF NoCallAhead
    <3> QED
      BY <1>1, <2>2, <2>4, <2>6, <2>7 DEF ChargeInv, NoCallAhead
  <2>9. FinishedCallsAreCharged'
    BY <2>2, <2>5, <2>6, <2>7 DEF ChargeInv, FinishedCallsAreCharged
  <2>10. PlacedCallsExist'
    <3>1. ASSUME NEW t \in Slot, InFlight(t)'
          PROVE  (slots[t].call \in CallId /\ Exists(slots[t].call))'
      <4>1. CASE t = s
        BY <2>3, <2>5, <4>1
      <4>2. CASE t # s
        BY <1>1, <2>3, <2>5, <2>6, <3>1, <4>2 DEF PlacedCallsExist, InFlight
      <4> QED
        BY <4>1, <4>2
    <3>2. \A d \in CallId : calls'[d].ref => Exists(d)'
      BY <1>1, <2>2, <2>5, <2>6 DEF PlacedCallsExist
    <3> QED
      BY <3>1, <3>2 DEF PlacedCallsExist
  <2> QED
    BY <1>1, <2>8, <2>9, <2>10 DEF ChargeInv
<1>3. ASSUME NEW s \in Slot, RejectCleanup(s)
      PROVE  ChargeInv'
  <2>1. PICK c \in CallId : c = slots[s].call /\ Exists(c)
    BY <1>1, <1>3 DEF RejectCleanup, PlacedCallsExist, InFlight
  <2>2. /\ calls'[c] = Advance(calls[c], "FAILED", FALSE, NoLease)
        /\ \A d \in CallId \ {c} : calls'[d] = calls[d]
        /\ \A x \in Borrower \ {BorrowerOf(c)} : borrowers'[x] = borrowers[x]
        /\ borrowers'[BorrowerOf(c)].attempts = borrowers[BorrowerOf(c)].attempts + 1
    BY <1>1, <1>3, <2>1, CallIdParts DEF RejectCleanup, Reschedule
  <2>3. calls'[c].state # "NONE"
    <3>1. calls[c] \in CallRow /\ calls[c].state # "NONE"
      BY <1>1, <2>1 DEF Exists
    <3> QED
      BY <2>2, <3>1 DEF Advance, CallRow
  <2>4. \A t \in Slot : InFlight(t)' => InFlight(t) /\ slots'[t].call = slots[t].call
    BY <1>1, <1>3 DEF RejectCleanup, InFlight, Idle
  <2> QED
    BY <1>1, <2>1, <2>2, <2>3, <2>4, ChargedOne
<1>4. ASSUME NEW s \in Slot, RecordInitiated(s)
      PROVE  ChargeInv'
  <2>1. PICK c \in CallId : c = slots[s].call /\ Exists(c)
    BY <1>1, <1>4 DEF RecordInitiated, PlacedCallsExist, InFlight
  <2>2. /\ calls'[c] = Advance(calls[c], "INITIATED", TRUE, DialLease)
        /\ \A d \in CallId \ {c} : calls'[d] = calls[d] /\ borrowers' = borrowers
    BY <1>1, <1>4, <2>1 DEF RecordInitiated
  <2>3. borrowers' = borrowers
    BY <1>4 DEF RecordInitiated
  <2>4. calls[c] \in CallRow /\ calls[c].state \in CallState
    BY <1>1, <2>1 DEF Exists, CallRow
  <2>5. /\ calls'[c].state # "NONE"
        /\ Terminated(c)' => Terminated(c)
    <3>1. CASE RANK[calls[c].state] < RANK["INITIATED"]
      <4>1. calls'[c].state = "INITIATED"
        BY <2>2, <2>4, <3>1 DEF Advance, CallRow
      <4> QED
        BY <4>1, RankValues DEF Terminated
    <3>2. CASE ~(RANK[calls[c].state] < RANK["INITIATED"])
      <4>1. calls'[c] = calls[c]
        BY <2>2, <3>2 DEF Advance
      <4> QED
        BY <2>1, <4>1 DEF Terminated, Exists
    <3> QED
      BY <3>1, <3>2
  <2>6. \A t \in Slot : InFlight(t)' => InFlight(t) /\ slots'[t].call = slots[t].call
    BY <1>1, <1>4 DEF RecordInitiated, InFlight, Idle
  <2>7. ASSUME NEW d \in CallId
        PROVE  /\ Exists(d)' <=> Exists(d)
               /\ calls'[d].ref => calls[d].ref \/ Exists(d)
               /\ Terminated(d)' => Terminated(d)
    <3>1. CASE d = c
      BY <2>1, <2>5, <3>1 DEF Exists
    <3>2. CASE d # c
      BY <2>2, <3>2 DEF Exists, Terminated
    <3> QED
      BY <3>1, <3>2
  <2>8. \A b \in Borrower : borrowers'[b].attempts >= borrowers[b].attempts
    BY <1>1, <2>3
  <2> QED
    BY <1>1, <2>6, <2>7, <2>8, ChargedStep
<1>5. ASSUME NEW c \in CallId, PullbackCancel(c)
      PROVE  ChargeInv'
  <2>1. Exists(c) /\ BorrowerOf(c) \in Borrower
    BY <1>5, CallIdParts DEF PullbackCancel, Exists
  <2>2. /\ calls'[c].state = "CANCELLED"
        /\ \A d \in CallId \ {c} : calls'[d] = calls[d]
        /\ \A x \in Borrower \ {BorrowerOf(c)} : borrowers'[x] = borrowers[x]
        /\ borrowers'[BorrowerOf(c)].attempts = borrowers[BorrowerOf(c)].attempts + 1
    BY <1>1, <1>5, <2>1 DEF PullbackCancel, OnCallTerminal, Reschedule, CallRow
  <2>3. \A t \in Slot : InFlight(t)' => InFlight(t) /\ slots'[t].call = slots[t].call
    BY <1>5 DEF PullbackCancel, InFlight
  <2> QED
    BY <1>1, <2>1, <2>2, <2>3, ChargedOne
<1>6. ASSUME NEW e \in Event, ApplyAccepted(e)
      PROVE  ChargeInv'
  <2>0. PICK c \in CallId : c = e.call
    BY DEF Event
  <2> DEFINE final == FinalState(c, e.type)
             step1 == Advance(calls[c], e.type, TRUE, NoLease)
             step2 == Advance(step1, final, FALSE, NoLease)
  <2>1. Exists(c) /\ BorrowerOf(c) \in Borrower /\ calls[c] \in CallRow
    BY <1>1, <1>6, <2>0, CallIdParts DEF ApplyAccepted, PlacedCallsExist
  <2>2. e.type \in CallState /\ final \in CallState
    BY DEF Event, EventType, FinalState, CallState
  <2>3. step1 \in CallRow /\ step1.state \in {calls[c].state, e.type}
    BY <2>1, <2>2, AdvanceType, LeaseTimes DEF Advance, CallRow
  <2>4. step2.state \in {step1.state, final}
    BY <2>3, <2>2 DEF Advance, CallRow
  <2>5. /\ calls'[c] = step2
        /\ \A d \in CallId \ {c} : calls'[d] = calls[d]
        /\ \A x \in Borrower \ {BorrowerOf(c)} : borrowers'[x] = borrowers[x]
        /\ borrowers'[BorrowerOf(c)].attempts =
             borrowers[BorrowerOf(c)].attempts + (IF final \in TERMINAL THEN 1 ELSE 0)
    <3>1. /\ calls'[c] = step2
          /\ \A d \in CallId \ {c} : calls'[d] = calls[d]
      BY <1>1, <1>6, <2>0 DEF ApplyAccepted
    <3>2. CASE final \in TERMINAL
      <4>1. borrowers' = [borrowers EXCEPT ![BorrowerOf(c)] = OnCallTerminal(@, final)]
        BY <1>6, <2>0, <3>2 DEF ApplyAccepted
      <4>2. OnCallTerminal(borrowers[BorrowerOf(c)], final).attempts =
              borrowers[BorrowerOf(c)].attempts + 1
        BY DEF OnCallTerminal, MarkDone, Reschedule
      <4> QED
        BY <1>1, <2>1, <3>1, <3>2, <4>1, <4>2
    <3>3. CASE final \notin TERMINAL
      <4>1. borrowers' = borrowers
        BY <1>6, <2>0, <3>3 DEF ApplyAccepted
      <4> QED
        BY <1>1, <2>1, <3>1, <3>3, <4>1
    <3> QED
      BY <3>2, <3>3
  <2>6. calls[c].state \notin TERMINAL /\ (e.type \in TERMINAL => final = e.type)
    BY <1>6, <2>0, RankValues DEF ApplyAccepted, CanApply, TERMINAL_RANK, FinalState, TERMINAL
  <2> HIDE DEF step1, step2, final
  <2>7. calls'[c].state # "NONE" /\ (Terminated(c)' => final \in TERMINAL)
    BY <2>1, <2>2, <2>3, <2>4, <2>5, <2>6 DEF Exists, Terminated, CallState
  <2>8. \A t \in Slot : InFlight(t)' => InFlight(t) /\ slots'[t].call = slots[t].call
    BY <1>6 DEF ApplyAccepted, InFlight
  <2>9. CASE final \in TERMINAL
    BY <1>1, <2>1, <2>5, <2>7, <2>8, <2>9, ChargedOne
  <2>10. CASE final \notin TERMINAL
    <3>1. borrowers'[BorrowerOf(c)].attempts = borrowers[BorrowerOf(c)].attempts
      BY <1>1, <2>1, <2>5, <2>10
    <3> QED
      BY <1>1, <2>1, <2>5, <2>7, <2>8, <2>10, <3>1, ChargedOne
  <2> QED
    BY <2>9, <2>10
<1>7. CASE Reap
  <2>1. ASSUME NEW b \in Borrower
        PROVE  /\ borrowers'[b].attempts = borrowers[b].attempts + Cardinality(OrphansOf(b))
               /\ Cardinality(OrphansOf(b)) \in Nat
               /\ OrphansOf(b) # {} => Cardinality(OrphansOf(b)) # 0
    <3>1. IsFiniteSet(OrphansOf(b))
      <4>1. IsFiniteSet(1 .. MaxAttempts)
        BY FS_Interval, CountAssumption
      <4> QED
        BY <4>1, FS_Subset DEF OrphansOf
    <3>2. /\ Cardinality(OrphansOf(b)) \in Nat
          /\ OrphansOf(b) = {} <=> Cardinality(OrphansOf(b)) = 0
      BY <3>1, FS_CardinalityType, FS_EmptySet
    <3>3. borrowers'[b] = ReapBorrower(b) /\ borrowers[b] \in BorrowerRow
      BY <1>1, <1>7 DEF Reap
    <3>4. CASE OrphansOf(b) = {}
      BY <1>1, <3>2, <3>3, <3>4 DEF ReapBorrower, ReclaimLock, BorrowerRow
    <3>5. CASE OrphansOf(b) # {}
      BY <3>2, <3>3, <3>5 DEF ReapBorrower, Reschedule
    <3> QED
      BY <3>2, <3>4, <3>5
  <2>2. \A b \in Borrower : borrowers'[b].attempts >= borrowers[b].attempts
    BY <1>1, <2>1
  <2>3. ASSUME NEW c \in CallId
        PROVE  /\ Exists(c)' <=> Exists(c)
               /\ calls'[c].ref => calls[c].ref \/ Exists(c)
               /\ Terminated(c)' =>
                    \/ Terminated(c)
                    \/ borrowers'[BorrowerOf(c)].attempts >= borrowers[BorrowerOf(c)].attempts + 1
    <3>1. CASE c \in Orphans
      <4>1. calls'[c].state = "FAILED" /\ Exists(c)
        BY <1>1, <1>7, <3>1 DEF Reap, FailOrphan, Orphans, CallRow, Exists
      <4>2. BorrowerOf(c) \in Borrower /\ OrphansOf(BorrowerOf(c)) # {}
        BY <3>1, CallIdParts DEF OrphansOf
      <4>3. borrowers'[BorrowerOf(c)].attempts >= borrowers[BorrowerOf(c)].attempts + 1
        BY <1>1, <2>1, <4>2
      <4> QED
        BY <4>1, <4>3 DEF Exists
    <3>2. CASE c \notin Orphans
      BY <1>7, <3>2 DEF Reap, FailOrphan, Exists, Terminated
    <3> QED
      BY <3>1, <3>2
  <2>4. \A t \in Slot : InFlight(t)' => InFlight(t) /\ slots'[t].call = slots[t].call
    BY <1>7 DEF Reap, InFlight
  <2> QED
    BY <1>1, <2>2, <2>3, <2>4, ChargedStep
<1>8. CASE /\ \A b \in Borrower : borrowers'[b].attempts = borrowers[b].attempts
           /\ \A c \in CallId : calls'[c].state = calls[c].state /\ calls'[c].ref = calls[c].ref
           /\ \A s \in Slot : InFlight(s)' => InFlight(s) /\ slots'[s].call = slots[s].call
  <2>1. \A b \in Borrower : borrowers'[b].attempts >= borrowers[b].attempts
    BY <1>1, <1>8
  <2>2. ASSUME NEW c \in CallId
        PROVE  /\ Exists(c)' <=> Exists(c)
               /\ calls'[c].ref => calls[c].ref \/ Exists(c)
               /\ Terminated(c)' =>
                    \/ Terminated(c)
                    \/ borrowers'[BorrowerOf(c)].attempts >= borrowers[BorrowerOf(c)].attempts + 1
    BY <1>8 DEF Exists, Terminated
  <2>3. \A s \in Slot : InFlight(s)' => InFlight(s) /\ slots'[s].call = slots[s].call
    BY <1>8
  <2> QED
    BY <1>1, <2>1, <2>2, <2>3, ChargedStep
<1>9. CASE Tick
  <2>1. \A b \in Borrower : borrowers'[b].attempts = borrowers[b].attempts
    BY <1>1, <1>9 DEF Tick, BorrowerRow
  <2>2. \A c \in CallId : calls'[c].state = calls[c].state /\ calls'[c].ref = calls[c].ref
    BY <1>1, <1>9 DEF Tick, CallRow
  <2> QED
    BY <1>8, <1>9, <2>1, <2>2 DEF Tick, InFlight
<1>10. ASSUME NEW s \in Slot,
              PlaceAccepted(s) \/ PlaceFailed(s) \/ RecordGivesUp(s) \/ WorkerRestart(s)
       PROVE  ChargeInv'
  <2>1. \A t \in Slot : InFlight(t)' => InFlight(t) /\ slots'[t].call = slots[t].call
    BY <1>1, <1>10
       DEF PlaceAccepted, PlaceFailed, RecordGivesUp, WorkerRestart, InFlight, Idle, SlotRow
  <2> QED
    BY <1>8, <1>10, <2>1 DEF PlaceAccepted, PlaceFailed, RecordGivesUp, WorkerRestart
<1>11. ASSUME NEW e \in Event, Ingest(e) \/ ApplyAnomaly(e) \/ GiveUpUnknown(e)
       PROVE  ChargeInv'
  BY <1>8, <1>11 DEF Ingest, ApplyAnomaly, GiveUpUnknown, InFlight
<1>12. ASSUME NEW s \in Slot, NEW a \in Agent, NEW b \in Borrower, ReserveCollides(s, a, b)
       PROVE  ChargeInv'
  <2>1. \A t \in Slot : InFlight(t)' => InFlight(t) /\ slots'[t].call = slots[t].call
    BY <1>1, <1>12 DEF ReserveCollides, InFlight
  <2> QED
    BY <1>8, <1>12, <2>1 DEF ReserveCollides
<1>13. ASSUME NEW c \in CallId, Provider(c)
       PROVE  ChargeInv'
  BY <1>8, <1>13 DEF Provider, Answer, NoAnswer, HangUp, InFlight
<1>14. CASE UNCHANGED vars
  BY <1>8, <1>14 DEF vars, InFlight
<1> QED
  BY <1>2, <1>3, <1>4, <1>5, <1>6, <1>7, <1>9, <1>10, <1>11, <1>12, <1>13, <1>14
     DEF Next, Work, Allocate, ApplyOne

\* However late workers are: no call that is over is left uncounted, so the key of
\* a borrower's next attempt is never that of a call that is over.
THEOREM FinishedAreCharged == Spec => []FinishedCallsAreCharged
<1>1. Init => ChargeInv
  <2> SUFFICES ASSUME Init PROVE ChargeInv
    OBVIOUS
  <2>1. \A c \in CallId : calls[c].state = "NONE" /\ ~calls[c].ref
    BY DEF Init
  <2>2. \A s \in Slot : ~InFlight(s)
    BY DEF Init, Idle, InFlight
  <2> QED
    BY <2>1, <2>2, TypeInit
       DEF ChargeInv, PlacedCallsExist, NoCallAhead, FinishedCallsAreCharged, Exists, Terminated
<1>2. ChargeInv => FinishedCallsAreCharged
  BY DEF ChargeInv
<1> QED
  BY <1>1, <1>2, ChargeStep, PTL DEF Spec

-----------------------------------------------------------------------------
(* No event of a recorded call is given up, when the age at which events are   *)
(* given up is no less than the reserve lease (by default 60 s and 30 s).      *)

PlacedBefore == \A c \in CallId : line[c] # "idle" => Exists(c)

ReportedBefore == \A e \in Event : ledger[e].status # "absent" => Exists(e.call)

\* While a call is being placed its events are in no danger: they came after the
\* reservation, and it ends before they are too old.
EventsOutliveTheLease ==
  \A s \in Slot : InFlight(s) =>
    /\ calls[slots[s].call].lease <= ReserveLease
    /\ \A e \in Event : e.call = slots[s].call =>
         /\ ledger[e].status # "given_up"
         /\ ledger[e].status = "unapplied" => ledger[e].left >= calls[e.call].lease

AgeInv == GivenUpNeverRecorded /\ PlacedBefore /\ ReportedBefore /\ EventsOutliveTheLease

\* Transactions that give up no event, insert no call and take up no coroutine.
LEMMA AgeUntouched ==
  ASSUME AgeInv,
         \A c \in CallId : Exists(c) => Exists(c)',
         \A c \in CallId : line'[c] # "idle" => line[c] # "idle" \/ Exists(c),
         \A c \in CallId : calls'[c].ref =>
           calls[c].ref \/ \E s \in Slot : InFlight(s) /\ slots[s].call = c,
         \A s \in Slot : InFlight(s)' =>
           /\ InFlight(s) /\ slots'[s].call = slots[s].call
           /\ slots[s].call \in CallId
           /\ calls'[slots[s].call].lease = calls[slots[s].call].lease,
         \A e \in Event : \/ ledger'[e] = ledger[e]
                          \/ ledger'[e].status = "applied" /\ ledger[e].status # "absent"
  PROVE  AgeInv'
<1>0. \A e \in Event : e.call \in CallId
  BY DEF Event
<1>1. GivenUpNeverRecorded'
  <2> SUFFICES ASSUME NEW e \in Event, ledger'[e].status = "given_up", calls'[e.call].ref
               PROVE  FALSE
    BY DEF GivenUpNeverRecorded
  <2>1. ledger[e].status = "given_up"
    OBVIOUS
  <2>2. ~calls[e.call].ref
    BY <2>1 DEF AgeInv, GivenUpNeverRecorded
  <2> QED
    BY <1>0, <2>1, <2>2 DEF AgeInv, EventsOutliveTheLease
<1>2. PlacedBefore'
  BY DEF AgeInv, PlacedBefore
<1>3. ReportedBefore'
  BY <1>0 DEF AgeInv, ReportedBefore
<1>4. EventsOutliveTheLease'
  <2> SUFFICES ASSUME NEW s \in Slot, InFlight(s)'
               PROVE  /\ calls'[slots'[s].call].lease <= ReserveLease
                      /\ \A e \in Event : e.call = slots'[s].call =>
                           /\ ledger'[e].status # "given_up"
                           /\ ledger'[e].status = "unapplied" =>
                                ledger'[e].left >= calls'[e.call].lease
    BY DEF EventsOutliveTheLease
  <2>1. /\ InFlight(s) /\ slots'[s].call = slots[s].call
        /\ calls'[slots[s].call].lease = calls[slots[s].call].lease
    OBVIOUS
  <2> QED
    BY <2>1 DEF AgeInv, EventsOutliveTheLease
<1> QED
  BY <1>1, <1>2, <1>3, <1>4 DEF AgeInv

LEMMA AgeStep ==
  ASSUME ReserveLease <= GiveUpAge
  PROVE  IInv /\ AgeInv /\ [PunctualNext]_vars => AgeInv'
<1> SUFFICES ASSUME IInv, AgeInv, [PunctualNext]_vars
             PROVE  AgeInv'
  OBVIOUS
<1>1. /\ calls \in [CallId -> CallRow] /\ ledger \in [Event -> EventRow]
      /\ slots \in [Slot -> SlotRow] /\ line \in [CallId -> {"idle", "ringing", "answered",
                                                            "completed", "unanswered"}]
      /\ \A e \in Event : e.call \in CallId
  BY DEF IInv, TypeOK, CallRow, EventRow, SlotRow, Event
<1>2. \A s \in Slot : InFlight(s) =>
        /\ slots[s].call \in CallId /\ Exists(slots[s].call)
        /\ calls[slots[s].call].state = "RESERVED"
  BY InFlightFacts DEF Live
<1>3. ASSUME NEW s \in Slot, NEW a \in Agent, NEW b \in Borrower, Reserve(s, a, b)
      PROVE  AgeInv'
  <2>1. PICK c \in CallId : c = NextCall(b)
    BY <1>3 DEF Reserve
  <2>2. /\ ~Exists(c) /\ calls'[c].lease = ReserveLease /\ ~calls'[c].ref /\ Exists(c)'
        /\ \A d \in CallId \ {c} : calls'[d] = calls[d]
        /\ slots'[s].call = c
        /\ \A t \in Slot \ {s} : slots'[t] = slots[t]
        /\ ledger' = ledger /\ line' = line
    BY <1>1, <1>3, <2>1 DEF Reserve, Exists, CallRow, SlotRow
  <2>3. \A e \in Event : e.call = c => ledger[e].status = "absent"
    BY <2>2 DEF AgeInv, ReportedBefore
  <2>4. \A t \in Slot \ {s} : InFlight(t)' => InFlight(t) /\ slots[t].call # c
    BY <1>2, <2>2 DEF InFlight
  <2>5. GivenUpNeverRecorded'
    BY <1>1, <2>2 DEF AgeInv, GivenUpNeverRecorded
  <2>6. PlacedBefore' /\ ReportedBefore'
    <3>1. \A d \in CallId : Exists(d) => Exists(d)'
      BY <2>2 DEF Exists
    <3> QED
      BY <1>1, <2>2, <3>1 DEF AgeInv, PlacedBefore, ReportedBefore
  <2>7. EventsOutliveTheLease'
    <3> SUFFICES ASSUME NEW t \in Slot, InFlight(t)'
                 PROVE  /\ calls'[slots'[t].call].lease <= ReserveLease
                        /\ \A e \in Event : e.call = slots'[t].call =>
                             /\ ledger'[e].status # "given_up"
                             /\ ledger'[e].status = "unapplied" =>
                                  ledger'[e].left >= calls'[e.call].lease
      BY DEF EventsOutliveTheLease
    <3>1. CASE t = s
      BY <2>2, <2>3, <3>1, LeaseAssumption
    <3>2. CASE t # s
      <4>1. InFlight(t) /\ slots'[t].call = slots[t].call
        BY <2>2, <2>4, <3>2
      <4>2. calls'[slots[t].call] = calls[slots[t].call]
        BY <1>2, <2>2, <2>4, <3>2, <4>1
      <4> QED
        BY <2>2, <4>1, <4>2 DEF AgeInv, EventsOutliveTheLease
    <3> QED
      BY <3>1, <3>2
  <2> QED
    BY <2>5, <2>6, <2>7 DEF AgeInv
<1>4. ASSUME NEW e \in Event, Ingest(e)
      PROVE  AgeInv'
  <2>1. /\ calls' = calls /\ slots' = slots /\ line' = line
        /\ ledger[e].status = "absent"
        /\ ledger'[e] = [status |-> "unapplied", left |-> GiveUpAge]
        /\ \A f \in Event \ {e} : ledger'[f] = ledger[f]
    BY <1>1, <1>4 DEF Ingest
  <2>2. Exists(e.call)
    BY <1>1, <1>4 DEF Ingest, Emitted, Event, EventType, AgeInv, PlacedBefore
  <2>3. GivenUpNeverRecorded'
    BY <2>1 DEF AgeInv, GivenUpNeverRecorded
  <2>4. PlacedBefore' /\ ReportedBefore'
    BY <2>1, <2>2 DEF AgeInv, PlacedBefore, ReportedBefore, Exists
  <2>5. EventsOutliveTheLease'
    <3>1. \A s \in Slot : InFlight(s) => calls[slots[s].call].lease \in Int
      BY <1>1, <1>2, LeaseTimes DEF CallRow
    <3> SUFFICES ASSUME NEW s \in Slot, InFlight(s), NEW f \in Event, f.call = slots[s].call
                 PROVE  /\ ledger'[f].status # "given_up"
                        /\ ledger'[f].status = "unapplied" =>
                             ledger'[f].left >= calls[f.call].lease
      BY <2>1 DEF EventsOutliveTheLease, InFlight, AgeInv
    <3>2. CASE f = e
      <4>1. /\ calls[f.call].lease \in Int /\ calls[f.call].lease <= ReserveLease
        BY <3>1 DEF AgeInv, EventsOutliveTheLease
      <4> QED
        BY <2>1, <3>2, <4>1, LeaseAssumption
    <3>3. CASE f # e
      BY <2>1, <3>3 DEF AgeInv, EventsOutliveTheLease
    <3> QED
      BY <3>2, <3>3
  <2> QED
    BY <2>3, <2>4, <2>5 DEF AgeInv
<1>5. ASSUME NEW e \in Event, GiveUpUnknown(e)
      PROVE  AgeInv'
  <2>1. /\ calls' = calls /\ slots' = slots /\ line' = line
        /\ ledger[e].status = "unapplied" /\ ledger[e].left = 0 /\ ~calls[e.call].ref
        /\ ledger'[e].status = "given_up"
        /\ \A f \in Event \ {e} : ledger'[f] = ledger[f]
    BY <1>1, <1>5 DEF GiveUpUnknown, Marked, TooOld
  <2>2. GivenUpNeverRecorded' /\ PlacedBefore' /\ ReportedBefore'
    BY <2>1 DEF AgeInv, GivenUpNeverRecorded, PlacedBefore, ReportedBefore, Exists
  <2>3. \A s \in Slot : InFlight(s) => slots[s].call # e.call
    <3> SUFFICES ASSUME NEW s \in Slot, InFlight(s), slots[s].call = e.call
                 PROVE  FALSE
      OBVIOUS
    <3>1. calls[e.call].lease > 0 /\ calls[e.call].lease \in Int
      BY <1>1, InFlightFacts, LeaseTimes DEF CallRow
    <3>2. ledger[e].left >= calls[e.call].lease
      BY <2>1 DEF AgeInv, EventsOutliveTheLease
    <3> QED
      BY <2>1, <3>1, <3>2
  <2>4. EventsOutliveTheLease'
    BY <2>1, <2>3 DEF AgeInv, EventsOutliveTheLease, InFlight
  <2> QED
    BY <2>2, <2>4 DEF AgeInv
<1>6. ASSUME Punctual, Tick
      PROVE  AgeInv'
  <2>1. \A c \in CallId : /\ calls'[c].state = calls[c].state /\ calls'[c].ref = calls[c].ref
                          /\ calls'[c].lease = RunDown(calls[c].lease)
    BY <1>1, <1>6 DEF Tick, CallRow
  <2>2. \A e \in Event : /\ ledger'[e].status = ledger[e].status
                         /\ ledger'[e].left = RunDown(ledger[e].left)
    BY <1>1, <1>6 DEF Tick, EventRow
  <2>3. slots' = slots /\ line' = line
    BY <1>6 DEF Tick
  <2>4. GivenUpNeverRecorded' /\ PlacedBefore' /\ ReportedBefore'
    BY <1>1, <2>1, <2>2, <2>3
       DEF AgeInv, GivenUpNeverRecorded, PlacedBefore, ReportedBefore, Exists
  <2>5. EventsOutliveTheLease'
    <3> SUFFICES ASSUME NEW s \in Slot, InFlight(s)
                 PROVE  /\ calls'[slots[s].call].lease <= ReserveLease
                        /\ \A e \in Event : e.call = slots[s].call =>
                             /\ ledger'[e].status # "given_up"
                             /\ ledger'[e].status = "unapplied" =>
                                  ledger'[e].left >= calls'[e.call].lease
      BY <2>3 DEF EventsOutliveTheLease, InFlight
    <3>1. PICK c \in CallId : c = slots[s].call
      BY <1>2
    <3>2. /\ calls[c].lease > 1 /\ calls[c].lease \in Int /\ calls[c].lease <= ReserveLease
          /\ calls'[c].lease = calls[c].lease - 1
      BY <1>1, <1>6, <2>1, <3>1, LeaseTimes DEF Punctual, CallRow, RunDown, AgeInv,
         EventsOutliveTheLease
    <3>3. ASSUME NEW e \in Event, e.call = c
          PROVE  /\ ledger'[e].status # "given_up"
                 /\ ledger'[e].status = "unapplied" => ledger'[e].left >= calls'[c].lease
      <4>1. /\ ledger[e].status # "given_up"
            /\ ledger[e].status = "unapplied" => ledger[e].left >= calls[c].lease
        BY <3>1, <3>3 DEF AgeInv, EventsOutliveTheLease
      <4>2. ledger[e].left \in Int
        BY <1>1, LeaseAssumption DEF EventRow
      <4> QED
        BY <2>2, <3>2, <4>1, <4>2 DEF RunDown
    <3> QED
      BY <3>1, <3>2, <3>3, LeaseAssumption
  <2> QED
    BY <2>4, <2>5 DEF AgeInv
<1>7. ASSUME NEW s \in Slot, PlaceAccepted(s) \/ PlaceFailed(s) \/ WorkerRestart(s)
      PROVE  AgeInv'
  <2>1. /\ calls' = calls /\ ledger' = ledger
        /\ \A t \in Slot \ {s} : slots'[t] = slots[t]
        /\ InFlight(s)' => InFlight(s) /\ slots'[s].call = slots[s].call
    BY <1>1, <1>7 DEF PlaceAccepted, PlaceFailed, WorkerRestart, InFlight, SlotRow, Idle
  <2>2. \A c \in CallId : line'[c] # "idle" => line[c] # "idle" \/ Exists(c)
    <3> SUFFICES ASSUME NEW c \in CallId, line'[c] # line[c]
                 PROVE  Exists(c)
      OBVIOUS
    <3>1. InFlight(s) /\ c = slots[s].call
      BY <1>1, <1>7 DEF PlaceAccepted, PlaceFailed, WorkerRestart, InFlight
    <3> QED
      BY <1>2, <3>1
  <2>3. \A t \in Slot : InFlight(t)' => InFlight(t) /\ slots'[t].call = slots[t].call
    BY <2>1 DEF InFlight
  <2> QED
    BY <1>2, <2>1, <2>2, <2>3, AgeUntouched DEF Exists
<1>8. ASSUME NEW c \in CallId, Exists(c), Exists(c)',
             \A d \in CallId \ {c} : calls'[d] = calls[d],
             calls'[c].ref => calls[c].ref \/ \E s \in Slot : InFlight(s) /\ slots[s].call = c,
             \A s \in Slot : InFlight(s)' =>
               InFlight(s) /\ slots'[s].call = slots[s].call /\ slots[s].call # c,
             line' = line,
             \A e \in Event : \/ ledger'[e] = ledger[e]
                              \/ ledger'[e].status = "applied" /\ ledger[e].status # "absent"
      PROVE  AgeInv'
  <2>1. \A d \in CallId : Exists(d) => Exists(d)'
    BY <1>8 DEF Exists
  <2>2. \A s \in Slot : InFlight(s)' =>
          /\ InFlight(s) /\ slots'[s].call = slots[s].call
          /\ slots[s].call \in CallId
          /\ calls'[slots[s].call].lease = calls[slots[s].call].lease
    BY <1>2, <1>8
  <2>3. \A d \in CallId : calls'[d].ref =>
          calls[d].ref \/ \E s \in Slot : InFlight(s) /\ slots[s].call = d
    BY <1>8
  <2> QED
    BY <1>8, <2>1, <2>2, <2>3, AgeUntouched
<1>9. ASSUME NEW s \in Slot, RejectCleanup(s) \/ RecordInitiated(s)
      PROVE  AgeInv'
  <2>1. InFlight(s)
    BY <1>9 DEF RejectCleanup, RecordInitiated, InFlight
  <2>2. PICK c \in CallId : c = slots[s].call
    BY <1>2, <2>1
  <2>3. \A t \in Slot : InFlight(t)' => InFlight(t) /\ slots'[t].call = slots[t].call /\ t # s
    <3>1. slots'[s].pc = "idle" /\ \A t \in Slot \ {s} : slots'[t] = slots[t]
      <4>1. slots' = [slots EXCEPT ![s] = Idle]
        BY <1>9 DEF RejectCleanup, RecordInitiated
      <4> QED
        BY <1>1, <4>1 DEF Idle
    <3> QED
      BY <3>1 DEF InFlight
  <2>4. \A t \in Slot : InFlight(t)' => slots[t].call # c
    BY <2>1, <2>2, <2>3 DEF IInv, SlotsHoldTheirCalls
  <2>5. /\ \A d \in CallId \ {c} : calls'[d] = calls[d]
        /\ calls'[c].state \in {calls[c].state, "FAILED", "INITIATED"}
    <3>1. CASE RejectCleanup(s)
      BY <1>1, <2>2, <3>1 DEF RejectCleanup, Advance, CallRow
    <3>2. CASE RecordInitiated(s)
      BY <1>1, <2>2, <3>2 DEF RecordInitiated, Advance, CallRow
    <3> QED
      BY <1>9, <3>1, <3>2
  <2>6. Exists(c) /\ Exists(c)'
    BY <1>2, <2>1, <2>2, <2>5 DEF Exists
  <2>7. line' = line /\ ledger' = ledger
    BY <1>9 DEF RejectCleanup, RecordInitiated
  <2> QED
    BY <1>8, <2>1, <2>2, <2>3, <2>4, <2>5, <2>6, <2>7
<1>10. ASSUME NEW c \in CallId, PullbackCancel(c)
       PROVE  AgeInv'
  <2>1. /\ Exists(c) /\ Exists(c)'
        /\ calls'[c].ref = calls[c].ref
        /\ \A d \in CallId \ {c} : calls'[d] = calls[d]
        /\ slots' = slots /\ line' = line /\ ledger' = ledger
    BY <1>1, <1>10 DEF PullbackCancel, Exists, CallRow
  <2>2. \A s \in Slot : InFlight(s)' => InFlight(s) /\ slots[s].call # c
    BY <1>2, <1>10, <2>1 DEF PullbackCancel, InFlight
  <2> QED
    BY <1>8, <2>1, <2>2
<1>11. ASSUME NEW e \in Event, ApplyAccepted(e)
       PROVE  AgeInv'
  <2>0. PICK c \in CallId : c = e.call
    BY <1>1
  <2>1. /\ calls[c].ref /\ \A d \in CallId \ {c} : calls'[d] = calls[d]
        /\ slots' = slots /\ line' = line
        /\ ledger[e].status = "unapplied" /\ ledger'[e].status = "applied"
        /\ \A f \in Event \ {e} : ledger'[f] = ledger[f]
    BY <1>1, <1>11, <2>0 DEF ApplyAccepted, Marked
  <2>2. \A s \in Slot : InFlight(s)' => InFlight(s) /\ slots[s].call # c
    BY <2>1, InFlightFacts DEF InFlight
  <2>3. Exists(c)
    BY <2>1 DEF IInv, CallsAtRest, Exists
  <2>4. Exists(c)'
    <3>1. e.type \in CallState /\ FinalState(c, e.type) \in CallState
      BY DEF Event, EventType, FinalState, CallState
    <3>2. calls'[c].state \in {calls[c].state, e.type, FinalState(c, e.type)}
      BY <1>1, <1>11, <2>0, <3>1 DEF ApplyAccepted, Advance, CallRow
    <3> QED
      BY <2>3, <3>1, <3>2 DEF Exists, CallState
  <2> QED
    BY <1>8, <2>1, <2>2, <2>3, <2>4
<1>12. CASE Reap
  <2>1. \A c \in CallId : /\ calls'[c].ref => calls[c].ref
                          /\ Exists(c) => Exists(c)'
    BY <1>1, <1>12 DEF Reap, FailOrphan, Exists, CallRow
  <2>2. slots' = slots /\ line' = line /\ ledger' = ledger
    BY <1>12 DEF Reap
  <2>3. \A s \in Slot : InFlight(s)' => InFlight(s) /\ calls'[slots[s].call] = calls[slots[s].call]
    <3> SUFFICES ASSUME NEW s \in Slot, InFlight(s)
                 PROVE  calls'[slots[s].call] = calls[slots[s].call]
      BY <2>2 DEF InFlight
    <3>1. slots[s].call \notin Orphans
      BY OrphanFacts
    <3> QED
      BY <1>2, <1>12, <3>1 DEF Reap, FailOrphan
  <2>4. \A s \in Slot : InFlight(s)' =>
          /\ InFlight(s) /\ slots'[s].call = slots[s].call
          /\ slots[s].call \in CallId
          /\ calls'[slots[s].call].lease = calls[slots[s].call].lease
    BY <1>2, <2>2, <2>3
  <2>5. \A c \in CallId : Exists(c) => Exists(c)'
    BY <2>1
  <2>6. \A c \in CallId : calls'[c].ref =>
          calls[c].ref \/ \E s \in Slot : InFlight(s) /\ slots[s].call = c
    BY <2>1
  <2> QED
    BY <2>2, <2>4, <2>5, <2>6, AgeUntouched
<1>13. ASSUME NEW e \in Event, ApplyAnomaly(e)
       PROVE  AgeInv'
  <2>1. /\ \A f \in Event : \/ ledger'[f] = ledger[f]
                            \/ ledger'[f].status = "applied" /\ ledger[f].status # "absent"
        /\ calls' = calls /\ slots' = slots /\ line' = line
    BY <1>1, <1>13 DEF ApplyAnomaly, Marked
  <2> QED
    BY <1>2, <2>1, AgeUntouched DEF Exists, InFlight
<1>14. ASSUME calls' = calls, ledger' = ledger,
              \A c \in CallId : line'[c] # "idle" => line[c] # "idle",
              \A s \in Slot : InFlight(s)' => InFlight(s) /\ slots'[s].call = slots[s].call
       PROVE  AgeInv'
  BY <1>2, <1>14, AgeUntouched DEF Exists
<1>15. ASSUME NEW s \in Slot, RecordGivesUp(s)
       PROVE  AgeInv'
  <2>1. \A t \in Slot : InFlight(t)' => InFlight(t) /\ slots'[t].call = slots[t].call
    BY <1>1, <1>15 DEF RecordGivesUp, InFlight, Idle
  <2> QED
    BY <1>14, <1>15, <2>1 DEF RecordGivesUp
<1>16. ASSUME NEW s \in Slot, NEW a \in Agent, NEW b \in Borrower, ReserveCollides(s, a, b)
       PROVE  AgeInv'
  <2>1. \A t \in Slot : InFlight(t)' => InFlight(t) /\ slots'[t].call = slots[t].call
    BY <1>1, <1>16 DEF ReserveCollides, InFlight
  <2> QED
    BY <1>14, <1>16, <2>1 DEF ReserveCollides
<1>17. ASSUME NEW c \in CallId, Provider(c)
       PROVE  AgeInv'
  <2>1. \A d \in CallId : line'[d] # "idle" => line[d] # "idle"
    BY <1>1, <1>17 DEF Provider, Answer, NoAnswer, HangUp
  <2> QED
    BY <1>14, <1>17, <2>1 DEF Provider, Answer, NoAnswer, HangUp, InFlight
<1>18. CASE UNCHANGED vars
  BY <1>14, <1>18 DEF vars, InFlight
<1> QED
  BY <1>3, <1>4, <1>5, <1>6, <1>7, <1>9, <1>10, <1>11, <1>12, <1>13, <1>15, <1>16, <1>17, <1>18
     DEF PunctualNext, Work, Allocate, ApplyOne

\* give_up_unknown's age covers the time a call may take to be recorded: as long
\* as workers are punctual and the reserve lease is no longer than that age, what
\* it gives up belongs to a call that never gets the provider's reference.
THEOREM GivenUpEvents ==
  ASSUME ReserveLease <= GiveUpAge
  PROVE  PunctualSpec => []GivenUpNeverRecorded
<1>1. Init => AgeInv
  <2> SUFFICES ASSUME Init PROVE AgeInv
    OBVIOUS
  <2>1. /\ \A e \in Event : ledger[e].status = "absent"
        /\ \A c \in CallId : line[c] = "idle"
        /\ \A s \in Slot : ~InFlight(s)
    BY DEF Init, Idle, InFlight
  <2> QED
    BY <2>1 DEF AgeInv, GivenUpNeverRecorded, PlacedBefore, ReportedBefore, EventsOutliveTheLease
<1>2. AgeInv => GivenUpNeverRecorded
  BY DEF AgeInv
<1>3. IInv /\ AgeInv /\ [PunctualNext]_vars => AgeInv'
  BY AgeStep
<1> QED
  BY <1>1, <1>2, <1>3, InvariantHolds, PTL DEF PunctualSpec

-----------------------------------------------------------------------------
(* The dialling core does what the serial ledger promises (SerialLedger).      *)

LEMMA LedgerTables ==
  /\ Serial!CallState = CallState /\ Serial!TERMINAL = TERMINAL
  /\ \A s, t : Serial!CanApply(s, t) <=> CanApply(s, t)
  /\ \A S : Serial!Cardinality(S) = Cardinality(S)
<1>1. Serial!CallState = CallState
  BY DEF Serial!CallState, CallState
<1>2. Serial!RANK = RANK /\ Serial!TERMINAL_RANK = TERMINAL_RANK
  BY <1>1 DEF Serial!RANK, RANK, Serial!TERMINAL_RANK, TERMINAL_RANK
<1>3. Serial!TERMINAL = TERMINAL
  BY <1>1, <1>2 DEF Serial!TERMINAL, TERMINAL
<1>4. Serial!LEGAL_NEXT = LEGAL_NEXT
  BY <1>1, <1>3 DEF Serial!LEGAL_NEXT, LEGAL_NEXT
<1>5. \A S : Serial!Cardinality(S) = Cardinality(S)
  BY DEF Serial!Cardinality, Cardinality
<1> QED
  BY <1>1, <1>2, <1>3, <1>4, <1>5 DEF Serial!CanApply, CanApply

\* The ledger's row of a call.
LedgerRow(c) == [state |-> LedgerState(c), bills |-> IF Counted(c) THEN 1 ELSE 0]

\* A counted attempt is a call that is over.
LEMMA LedgerRowIs ==
  ASSUME IInv, NEW c \in CallId
  PROVE  /\ LedgerState(c) \in CallState
         /\ Counted(c) <=> LedgerState(c) \in TERMINAL
         /\ LedgerRow(c) = [state |-> LedgerState(c),
                            bills |-> IF LedgerState(c) \in TERMINAL THEN 1 ELSE 0]
<1>1. calls[c].state \in CallState \cup {"NONE"} /\ "RESERVED" \in CallState
  BY DEF IInv, TypeOK, CallState
<1>2. "RESERVED" \notin TERMINAL /\ "NONE" \notin TERMINAL
  BY RankValues
<1>3. Terminated(c) <=> Counted(c)
  BY DEF IInv, CallsMatchAttempts, Counted
<1>4. Terminated(c) <=> LedgerState(c) \in TERMINAL
  BY <1>2 DEF Terminated, Exists, LedgerState
<1> QED
  BY <1>1, <1>3, <1>4 DEF LedgerState, LedgerRow, Exists

\* Neither no event nor one event needs an order.
LEMMA ApplyNone ==
  ASSUME NEW c \in CallId, NEW s
  PROVE  Serial!ApplyAll(c, s, 0) = LedgerRow(c)
<1> DEFINE Rows(row) ==
      row = [i \in 0 .. 0 |->
               IF i = 0 THEN LedgerRow(c)
               ELSE IF s[i].call = c THEN Serial!ApplyOne(row[i - 1], s[i]) ELSE row[i - 1]]
           rows == CHOOSE row : Rows(row)
<1>1. Serial!ApplyAll(c, s, 0) = rows[0]
  BY DEF Serial!ApplyAll, LedgerRow
<1>2. \E row : Rows(row)
  <2> DEFINE r == [i \in 0 .. 0 |-> LedgerRow(c)]
  <2>1. Rows(r)
    OBVIOUS
  <2> QED BY <2>1
<1>3. Rows(rows)
  <2> HIDE DEF Rows
  <2> QED BY <1>2
<1> HIDE DEF rows
<1> QED
  BY <1>1, <1>3

LEMMA ApplySingle ==
  ASSUME NEW c \in CallId, NEW e \in Event, NEW s, s = [i \in 1 .. 1 |-> e]
  PROVE  Serial!ApplyAll(c, s, 1) =
           IF e.call = c THEN Serial!ApplyOne(LedgerRow(c), e) ELSE LedgerRow(c)
<1> DEFINE next == IF e.call = c THEN Serial!ApplyOne(LedgerRow(c), e) ELSE LedgerRow(c)
           Rows(row) ==
      row = [i \in 0 .. 1 |->
               IF i = 0 THEN LedgerRow(c)
               ELSE IF s[i].call = c THEN Serial!ApplyOne(row[i - 1], s[i]) ELSE row[i - 1]]
           rows == CHOOSE row : Rows(row)
<1>1. Serial!ApplyAll(c, s, 1) = rows[1]
  BY DEF Serial!ApplyAll, LedgerRow
<1>2. \E row : Rows(row)
  <2> DEFINE r == [i \in 0 .. 1 |-> IF i = 0 THEN LedgerRow(c) ELSE next]
  <2>1. \A i \in 0 .. 1 : i = 0 \/ (i = 1 /\ r[i - 1] = LedgerRow(c) /\ s[i] = e)
    OBVIOUS
  <2>2. Rows(r)
    BY <2>1
  <2> QED BY <2>2
<1>3. Rows(rows)
  <2> HIDE DEF Rows
  <2> QED BY <1>2
<1> HIDE DEF rows
<1>4. rows[0] = LedgerRow(c)
  BY <1>3
<1>5. rows[1] = IF s[1].call = c THEN Serial!ApplyOne(rows[0], s[1]) ELSE rows[0]
  BY <1>3
<1> QED
  BY <1>1, <1>4, <1>5

LEMMA CountedAfter ==
  ASSUME IInv', NEW c \in CallId
  PROVE  Counted(c)' <=> LedgerState(c)' \in TERMINAL
<1>1. Terminated(c)' <=> Counted(c)'
  BY DEF IInv, CallsMatchAttempts, Counted
<1>2. "RESERVED" \notin TERMINAL /\ "NONE" \notin TERMINAL
  BY RankValues
<1> QED
  BY <1>1, <1>2 DEF Terminated, Exists, LedgerState

\* Nothing the ledger speaks of changes.
LEMMA LedgerStill ==
  ASSUME IInv, IInv', \A c \in CallId : LedgerState(c)' = LedgerState(c) /\ calls'[c].ref = calls[c].ref,
         \A e \in Event : \A status \in {"applied", "given_up"} :
           ledger'[e].status = status <=> ledger[e].status = status
  PROVE  UNCHANGED Serial!serialVars
<1>1. \A c \in CallId : Counted(c) <=> LedgerState(c) \in TERMINAL
  BY LedgerRowIs
<1>2. \A c \in CallId : Counted(c)' <=> LedgerState(c)' \in TERMINAL
  BY CountedAfter
<1>3. [c \in CallId |-> LedgerState(c)]' = [c \in CallId |-> LedgerState(c)]
  OBVIOUS
<1>4. [c \in CallId |-> IF Counted(c) THEN 1 ELSE 0]' = [c \in CallId |-> IF Counted(c) THEN 1 ELSE 0]
  BY <1>1, <1>2
<1>5. /\ {c \in CallId : calls[c].ref}' = {c \in CallId : calls[c].ref}
      /\ {e \in Event : ledger[e].status = "applied"}' = {e \in Event : ledger[e].status = "applied"}
      /\ {e \in Event : ledger[e].status = "given_up"}' = {e \in Event : ledger[e].status = "given_up"}
  OBVIOUS
<1> QED
  BY <1>3, <1>4, <1>5 DEF Serial!serialVars

\* A step after which the calls of D are over is one end of all of them.
LEMMA LedgerEnds ==
  ASSUME IInv, IInv', NEW D \in SUBSET CallId, NEW from, from \cap TERMINAL = {},
         NEW to \in TERMINAL,
         \A c \in D : LedgerState(c) \in from /\ LedgerState(c)' = to,
         \A c \in CallId \ D : LedgerState(c)' = LedgerState(c),
         \A c \in CallId : calls'[c].ref = calls[c].ref, ledger' = ledger
  PROVE  Serial!End(D, from, to)
<1>1. \A c \in CallId : Counted(c) <=> LedgerState(c) \in TERMINAL
  BY LedgerRowIs
<1>2. \A c \in CallId : Counted(c)' <=> LedgerState(c)' \in TERMINAL
  BY CountedAfter
<1> DEFINE before == [c \in CallId |-> LedgerState(c)]
           billed == [c \in CallId |-> IF Counted(c) THEN 1 ELSE 0]
<1>3. \A c \in D : before[c] \in from
  OBVIOUS
<1>4. before' = [c \in CallId |-> IF c \in D THEN to ELSE before[c]]
  OBVIOUS
<1>5. billed' = [c \in CallId |-> billed[c] + (IF c \in D THEN 1 ELSE 0)]
  <2>1. \A c \in CallId : billed'[c] = billed[c] + (IF c \in D THEN 1 ELSE 0)
    BY <1>1, <1>2
  <2> QED
    BY <2>1
<1>6. /\ {c \in CallId : calls[c].ref}' = {c \in CallId : calls[c].ref}
      /\ {e \in Event : ledger[e].status = "applied"}' = {e \in Event : ledger[e].status = "applied"}
      /\ {e \in Event : ledger[e].status = "given_up"}' = {e \in Event : ledger[e].status = "given_up"}
  OBVIOUS
<1> HIDE DEF before, billed
<1> QED
  BY <1>3, <1>4, <1>5, <1>6 DEF Serial!End, before, billed

\* Step 3 of the allocator records its call.
LEMMA LedgerRecords ==
  ASSUME IInv, IInv', NEW s \in Slot, RecordInitiated(s), NEW c \in CallId, c = slots[s].call
  PROVE  Serial!Record(c)
<1>1. /\ c \in CallId /\ calls[c].state = "RESERVED"
      /\ \A d \in CallId : calls[d] \in CallRow
  BY InFlightFacts DEF RecordInitiated, InFlight, IInv, TypeOK, CallRow
<1>2. /\ calls'[c].state = "INITIATED" /\ calls'[c].ref
      /\ \A d \in CallId \ {c} : calls'[d] = calls[d]
  <2>1. calls'[c] = Advance(calls[c], "INITIATED", TRUE, DialLease)
    BY DEF RecordInitiated, IInv, TypeOK
  <2>2. RANK[calls[c].state] < RANK["INITIATED"]
    BY <1>1, RankValues
  <2>3. calls'[c].state = "INITIATED" /\ calls'[c].ref = (calls[c].ref \/ TRUE)
    BY <1>1, <2>1, <2>2 DEF Advance, CallRow
  <2>4. \A d \in CallId \ {c} : calls'[d] = calls[d]
    BY DEF RecordInitiated, IInv, TypeOK
  <2> QED
    BY <2>3, <2>4
<1>3. LedgerState(c) = "RESERVED" /\ LedgerState(c)' = "INITIATED"
  BY <1>1, <1>2 DEF LedgerState, Exists
<1>4. \A d \in CallId \ {c} : LedgerState(d)' = LedgerState(d)
  BY <1>2 DEF LedgerState, Exists
<1>5. \A d \in CallId : Counted(d)' <=> Counted(d)
  BY DEF Counted, RecordInitiated
<1>6. [d \in CallId |-> LedgerState(d)]' =
        [[d \in CallId |-> LedgerState(d)] EXCEPT ![c] = "INITIATED"]
  BY <1>3, <1>4
<1>7. {d \in CallId : calls[d].ref}' = {d \in CallId : calls[d].ref} \cup {c}
  BY <1>1, <1>2
<1>8. [d \in CallId |-> IF Counted(d) THEN 1 ELSE 0]' = [d \in CallId |-> IF Counted(d) THEN 1 ELSE 0]
  BY <1>5
<1>9. /\ {e \in Event : ledger[e].status = "applied"}' = {e \in Event : ledger[e].status = "applied"}
      /\ {e \in Event : ledger[e].status = "given_up"}' = {e \in Event : ledger[e].status = "given_up"}
  BY DEF RecordInitiated
<1>10. [d \in CallId |-> LedgerState(d)][c] = "RESERVED"
  BY <1>1, <1>3
<1> QED
  BY <1>6, <1>7, <1>8, <1>9, <1>10 DEF Serial!Record

\* One event is settled: the ledger applies a batch of one, or, when the event
\* no longer may move its call, a batch that changes nothing.
LEMMA LedgerSettles ==
  ASSUME IInv, IInv', NEW e \in Event, ledger[e].status = "unapplied", calls[e.call].ref,
         ledger' = Marked(e, "applied"),
         \A c \in CallId : calls'[c].ref = calls[c].ref,
         \A c \in CallId : LedgerState(c)' =
           IF c = e.call /\ CanApply(LedgerState(c), e.type)
           THEN IF e.type = "ANSWERED" THEN "CONNECTED" ELSE e.type
           ELSE LedgerState(c)
  PROVE  Serial!Settle
<1> DEFINE done == {f \in Event : ledger[f].status = "applied"}
           given == {f \in Event : ledger[f].status = "given_up"}
           known == {c \in CallId : calls[c].ref}
           before == [c \in CallId |-> LedgerState(c)]
           billed == [c \in CallId |-> IF Counted(c) THEN 1 ELSE 0]
           s == [i \in 1 .. 1 |-> e]
<1>1. e.call \in CallId /\ e.type \in {"RINGING", "ANSWERED", "COMPLETED", "FAILED"}
  BY DEF Event, EventType
<1>2. ledger \in [Event -> EventRow]
  BY DEF IInv, TypeOK, EventRow
<1>3. /\ ledger'[e].status = "applied"
      /\ \A f \in Event \ {e} : ledger'[f] = ledger[f]
  BY <1>2 DEF Marked
<1>4. /\ e \notin done /\ done' = done \cup {e}
      /\ given' = given /\ done' \cap given' = {}
  BY <1>3
<1>5. done' \ done = {e} /\ done \subseteq done' /\ given \subseteq given'
  BY <1>4
<1>6. known' = known /\ e.call \in known
  BY <1>1
<1>7. Cardinality({e}) = 1
  BY FS_Singleton
<1>8. s \in Serial!Bijection(1 .. 1, {e})
  BY DEF Serial!Bijection, Serial!Injection, Serial!Surjection, Serial!IsInjective
<1>9. ASSUME NEW c \in CallId
      PROVE  /\ before'[c] = Serial!ApplyAll(c, s, 1).state
             /\ billed'[c] = Serial!ApplyAll(c, s, 1).bills
  <2> DEFINE row == LedgerRow(c)
  <2>1. /\ row = [state |-> LedgerState(c),
                  bills |-> IF LedgerState(c) \in TERMINAL THEN 1 ELSE 0]
        /\ LedgerState(c) \in CallState
    BY LedgerRowIs
  <2>2. Counted(c)' <=> LedgerState(c)' \in TERMINAL
    BY CountedAfter
  <2>3. Counted(c) <=> LedgerState(c) \in TERMINAL
    BY LedgerRowIs
  <2>4. before'[c] = LedgerState(c)' /\ billed'[c] = IF LedgerState(c)' \in TERMINAL THEN 1 ELSE 0
    BY <2>2
  <2>5. Serial!ApplyAll(c, s, 1) = IF e.call = c THEN Serial!ApplyOne(row, e) ELSE row
    BY ApplySingle
  <2>6. CASE e.call = c /\ CanApply(LedgerState(c), e.type)
    <3> DEFINE final == IF e.type = "ANSWERED" THEN "CONNECTED" ELSE e.type
    <3>1. LedgerState(c) \notin TERMINAL
      BY <2>1, <2>6, RankValues DEF CanApply, TERMINAL_RANK
    <3>2. row.state = LedgerState(c) /\ row.bills = 0
      BY <2>1, <3>1
    <3>3. Serial!ApplyOne(row, e) =
            [state |-> final, bills |-> 0 + (IF final \in TERMINAL THEN 1 ELSE 0)]
      BY <2>6, <3>2, LedgerTables DEF Serial!ApplyOne
    <3>4. LedgerState(c)' = final
      BY <2>6
    <3> HIDE DEF final, row, before, billed, s
    <3> QED
      BY <2>4, <2>5, <2>6, <3>3, <3>4
  <2>7. CASE ~(e.call = c /\ CanApply(LedgerState(c), e.type))
    <3>1. LedgerState(c)' = LedgerState(c)
      BY <2>7
    <3>2. row.state = LedgerState(c) /\ row.bills = IF LedgerState(c) \in TERMINAL THEN 1 ELSE 0
      BY <2>1
    <3>3. Serial!ApplyAll(c, s, 1) = row
      <4>1. e.call = c => ~Serial!CanApply(row.state, e.type)
        BY <2>7, <3>2, LedgerTables
      <4> HIDE DEF row, s
      <4> QED
        BY <2>5, <4>1 DEF Serial!ApplyOne
    <3> HIDE DEF row, before, billed, s
    <3> QED
      BY <2>4, <3>1, <3>2, <3>3
  <2> QED
    BY <2>6, <2>7
<1>10. Serial!Known(e)
  BY <1>1, LedgerTables DEF Serial!Known, CallState
<1>11. Serial!Cardinality(done' \ done) = 1
  BY <1>5, <1>7, LedgerTables
<1> HIDE DEF done, given, known, before, billed, s
<1>12. \E t \in Serial!Bijection(1 .. 1, {e}) : \A c \in CallId :
         before'[c] = Serial!ApplyAll(c, t, 1).state /\ billed'[c] = Serial!ApplyAll(c, t, 1).bills
  BY <1>8, <1>9
<1>13. \E t \in Serial!Bijection(1 .. Serial!Cardinality(done' \ done), done' \ done) :
         \A c \in CallId :
           /\ before'[c] = Serial!ApplyAll(c, t, Serial!Cardinality(done' \ done)).state
           /\ billed'[c] = Serial!ApplyAll(c, t, Serial!Cardinality(done' \ done)).bills
  <2>1. done' \ done = {e}
    BY <1>5
  <2> QED
    BY <1>11, <1>12, <2>1
<1>14. \A f \in done' \ done : Serial!Known(f) /\ f.call \in known
  BY <1>5, <1>6, <1>10
<1>15. UNCHANGED known
  BY <1>6
<1> QED
  BY <1>4, <1>5, <1>13, <1>14, <1>15 DEF Serial!Settle, done, given, known, before, billed

\* An event nobody knows is given up: the ledger applies none.
LEMMA LedgerGivesUp ==
  ASSUME IInv, NEW e \in Event, GiveUpUnknown(e)
  PROVE  Serial!Settle
<1> DEFINE done == {f \in Event : ledger[f].status = "applied"}
           given == {f \in Event : ledger[f].status = "given_up"}
           known == {c \in CallId : calls[c].ref}
           before == [c \in CallId |-> LedgerState(c)]
           billed == [c \in CallId |-> IF Counted(c) THEN 1 ELSE 0]
           s == [i \in 1 .. 0 |-> e]
<1>1. ledger \in [Event -> EventRow]
  BY DEF IInv, TypeOK, EventRow
<1>2. /\ ledger[e].status = "unapplied" /\ ledger'[e].status = "given_up"
      /\ \A f \in Event \ {e} : ledger'[f] = ledger[f]
  BY <1>1 DEF GiveUpUnknown, Marked
<1>3. done' \ done = {} /\ done \subseteq done' /\ given \subseteq given' /\ done' \cap given' = {}
  BY <1>2
<1>4. Serial!Cardinality(done' \ done) = 0
  BY <1>3, LedgerTables, FS_EmptySet
<1>5. s \in Serial!Bijection(1 .. 0, {})
  BY DEF Serial!Bijection, Serial!Injection, Serial!Surjection, Serial!IsInjective
<1>6. calls' = calls /\ borrowers' = borrowers
  BY DEF GiveUpUnknown
<1>7. ASSUME NEW c \in CallId
      PROVE  /\ before'[c] = Serial!ApplyAll(c, s, 0).state
             /\ billed'[c] = Serial!ApplyAll(c, s, 0).bills
  <2>1. Serial!ApplyAll(c, s, 0) = LedgerRow(c)
    BY ApplyNone
  <2>2. before'[c] = LedgerState(c) /\ billed'[c] = IF Counted(c) THEN 1 ELSE 0
    BY <1>6 DEF LedgerState, Exists, Counted
  <2> HIDE DEF before, billed, s
  <2> QED
    BY <2>1, <2>2 DEF LedgerRow
<1>8. UNCHANGED known
  BY <1>6
<1> HIDE DEF done, given, known, before, billed, s
<1>9. \E t \in Serial!Bijection(1 .. Serial!Cardinality(done' \ done), done' \ done) :
         \A c \in CallId :
           /\ before'[c] = Serial!ApplyAll(c, t, Serial!Cardinality(done' \ done)).state
           /\ billed'[c] = Serial!ApplyAll(c, t, Serial!Cardinality(done' \ done)).bills
  BY <1>3, <1>4, <1>5, <1>7
<1> QED
  BY <1>3, <1>8, <1>9 DEF Serial!Settle, done, given, known, before, billed

\* An event is accepted of a recorded call that is not over.
LEMMA AcceptedCall ==
  ASSUME IInv, NEW e \in Event, ApplyAccepted(e), NEW c \in CallId, c = e.call
  PROVE  /\ Live(c) /\ calls[c].state \in {"INITIATED", "RINGING", "CONNECTED"}
         /\ CanApply(calls[c].state, e.type)
BY RankValues
   DEF ApplyAccepted, CanApply, IInv, TypeOK, CallsAtRest, Live, Exists, CallState, TERMINAL_RANK

\* An event that may move its call moves it to the state the ledger says: an
\* answered call is connected, since its agent is there.
LEMMA LedgerApplies ==
  ASSUME IInv, IInv', NEW e \in Event, ApplyAccepted(e)
  PROVE  Serial!Settle
<1> DEFINE final == IF e.type = "ANSWERED" THEN "CONNECTED" ELSE e.type
<1>0. PICK c \in CallId : c = e.call
  BY DEF Event
<1>1. /\ Live(c) /\ calls[c].state \in {"INITIATED", "RINGING", "CONNECTED"}
      /\ CanApply(calls[c].state, e.type)
  BY <1>0, AcceptedCall
<1>2. \A d \in CallId : calls[d] \in CallRow
  BY DEF IInv, TypeOK, CallRow
<1>3. e.type \in {"RINGING", "ANSWERED", "COMPLETED", "FAILED"}
  BY DEF Event, EventType
<1>4. FinalState(c, e.type) = final
  <2>1. CASE e.type = "ANSWERED"
    <3>1. calls[c].state \in {"INITIATED", "RINGING"}
      BY <1>1, <2>1, RankValues DEF CanApply
    <3>2. Bridged(c)
      BY <1>1, <3>1 DEF Bridged, IInv, LiveCallHasItsAgent, Serving
    <3> QED
      BY <2>1, <3>2 DEF FinalState
  <2>2. CASE e.type # "ANSWERED"
    BY <2>2 DEF FinalState
  <2> QED
    BY <2>1, <2>2
<1>5. calls'[c] = Advance(Advance(calls[c], e.type, TRUE, NoLease), final, FALSE, NoLease)
  BY <1>0, <1>4 DEF ApplyAccepted, IInv, TypeOK
<1>6. calls'[c].state = final
  <2>1. RANK[e.type] > RANK[calls[c].state]
    BY <1>1 DEF CanApply
  <2>2. e.type = "ANSWERED" => RANK[final] > RANK[e.type]
    BY RankValues
  <2>3. RANK[calls[c].state] \in 0 .. 6 /\ RANK[e.type] \in 0 .. 6
    BY <1>1, <1>3, RankValues DEF CallState
  <2> QED
    BY <1>2, <1>5, <2>1, <2>2, <2>3 DEF Advance, CallRow
<1>7. calls'[c].ref = calls[c].ref
  <2>1. calls[c].ref
    BY <1>0 DEF ApplyAccepted
  <2>2. \A row \in CallRow, seen \in BOOLEAN : \A to, lease :
          row.ref => Advance(row, to, seen, lease).ref
    BY DEF Advance, CallRow
  <2>3. \A row \in CallRow, to \in CallState, seen \in BOOLEAN :
          Advance(row, to, seen, NoLease) \in CallRow
    BY LeaseTimes DEF Advance, CallRow
  <2>4. Advance(calls[c], e.type, TRUE, NoLease) \in CallRow
    BY <1>2, <1>3, <2>3 DEF CallState
  <2>5. calls'[c].ref
    BY <1>2, <1>5, <2>1, <2>2, <2>4
  <2>6. calls'[c].ref \in BOOLEAN /\ calls[c].ref \in BOOLEAN
    BY DEF IInv, TypeOK
  <2> QED
    BY <2>1, <2>5, <2>6
<1>8. \A d \in CallId \ {c} : calls'[d] = calls[d]
  BY <1>0 DEF ApplyAccepted, IInv, TypeOK
<1>9. LedgerState(c) = calls[c].state /\ LedgerState(c)' = final
  BY <1>1, <1>3, <1>6 DEF LedgerState, Exists
<1>10. \A d \in CallId \ {c} : LedgerState(d)' = LedgerState(d)
  BY <1>8 DEF LedgerState, Exists
<1>11. /\ ledger[e].status = "unapplied" /\ calls[e.call].ref
       /\ ledger' = Marked(e, "applied")
  BY DEF ApplyAccepted
<1>12. \A d \in CallId : calls'[d].ref = calls[d].ref
  BY <1>7, <1>8
<1>13. \A d \in CallId : LedgerState(d)' =
         IF d = e.call /\ CanApply(LedgerState(d), e.type) THEN final ELSE LedgerState(d)
  BY <1>0, <1>1, <1>9, <1>10
<1> QED
  BY <1>11, <1>12, <1>13, LedgerSettles

\* A late, repeated or illegal event is settled without effect.
LEMMA LedgerIgnores ==
  ASSUME IInv, IInv', NEW e \in Event, ApplyAnomaly(e)
  PROVE  Serial!Settle
<1>1. /\ ledger[e].status = "unapplied" /\ calls[e.call].ref
      /\ ledger' = Marked(e, "applied")
      /\ calls' = calls
  BY DEF ApplyAnomaly
<1>2. e.call \in CallId
  BY DEF Event
<1>3. ~CanApply(LedgerState(e.call), e.type)
  BY <1>1, <1>2 DEF ApplyAnomaly, LedgerState, Exists, IInv, CallsAtRest
<1>4. \A c \in CallId : LedgerState(c)' =
         IF c = e.call /\ CanApply(LedgerState(c), e.type)
         THEN IF e.type = "ANSWERED" THEN "CONNECTED" ELSE e.type
         ELSE LedgerState(c)
  BY <1>1, <1>3 DEF LedgerState, Exists
<1> QED
  BY <1>1, <1>4, LedgerSettles

LEMMA LedgerInit == Init => Serial!SerialInit
<1> SUFFICES ASSUME Init PROVE Serial!SerialInit
  OBVIOUS
<1>1. \A c \in CallId : LedgerState(c) = "RESERVED" /\ ~calls[c].ref
  BY DEF Init, LedgerState, Exists
<1>2. \A c \in CallId : ~Counted(c)
  BY CallIdParts, CountAssumption DEF Init, Counted
<1>3. \A e \in Event : ledger[e].status = "absent"
  BY DEF Init
<1> QED
  BY <1>1, <1>2, <1>3 DEF Serial!SerialInit

\* The reaper ends all orphans in one step of the ledger.
LEMMA LedgerReaps ==
  ASSUME IInv, IInv', Reap
  PROVE  Serial!End(Orphans, {"RESERVED", "INITIATED"}, "FAILED")
<1>1. PICK D \in SUBSET CallId : D = Orphans
  BY DEF Orphans
<1>2. \A c \in CallId : calls[c] \in CallRow
  BY DEF IInv, TypeOK, CallRow
<1>3. \A c \in CallId : calls'[c] = IF c \in D THEN [calls[c] EXCEPT !.state = "FAILED"] ELSE calls[c]
  BY <1>1 DEF Reap, FailOrphan
<1>4. \A c \in D : calls[c].state \in {"RESERVED", "INITIATED"}
  BY <1>1 DEF Orphans, IInv, CallsAtRest
<1>5. \A c \in D : LedgerState(c) \in {"RESERVED", "INITIATED"} /\ LedgerState(c)' = "FAILED"
  BY <1>2, <1>3, <1>4 DEF LedgerState, Exists, CallRow
<1>6. \A c \in CallId \ D : LedgerState(c)' = LedgerState(c)
  BY <1>3 DEF LedgerState, Exists
<1>7. \A c \in CallId : calls'[c].ref = calls[c].ref
  BY <1>2, <1>3 DEF CallRow
<1>8. {"RESERVED", "INITIATED"} \cap TERMINAL = {} /\ "FAILED" \in TERMINAL
  BY RankValues
<1>9. Serial!End(D, {"RESERVED", "INITIATED"}, "FAILED")
  BY <1>5, <1>6, <1>7, <1>8, LedgerEnds DEF Reap
<1> QED
  BY <1>1, <1>9

\* The cleanup of a refused call fails it.
LEMMA LedgerRejects ==
  ASSUME IInv, IInv', NEW s \in Slot, RejectCleanup(s), NEW c \in CallId, c = slots[s].call
  PROVE  Serial!End({c}, {"RESERVED", "INITIATED"}, "FAILED")
<1>1. calls[c].state = "RESERVED" /\ ~calls[c].ref
  BY InFlightFacts DEF RejectCleanup, InFlight
<1>2. \A d \in CallId : calls[d] \in CallRow
  BY DEF IInv, TypeOK, CallRow
<1>3. calls'[c] = Advance(calls[c], "FAILED", FALSE, NoLease)
  BY DEF RejectCleanup, IInv, TypeOK
<1>4. \A d \in CallId \ {c} : calls'[d] = calls[d]
  BY DEF RejectCleanup, IInv, TypeOK
<1>5. RANK[calls[c].state] < RANK["FAILED"]
  BY <1>1, RankValues
<1>6. calls'[c].state = "FAILED" /\ calls'[c].ref = (calls[c].ref \/ FALSE)
  BY <1>2, <1>3, <1>5 DEF Advance, CallRow
<1>7. calls'[c].ref = calls[c].ref
  <2>1. ~calls'[c].ref
    BY <1>1, <1>6
  <2>2. calls[c].ref \in BOOLEAN /\ calls'[c].ref \in BOOLEAN
    BY DEF IInv, TypeOK
  <2> QED
    BY <1>1, <2>1, <2>2
<1>8. LedgerState(c) = "RESERVED" /\ LedgerState(c)' = "FAILED"
  BY <1>1, <1>6 DEF LedgerState, Exists
<1>9. \A d \in CallId \ {c} : LedgerState(d)' = LedgerState(d)
  BY <1>4 DEF LedgerState, Exists
<1>10. \A d \in CallId : calls'[d].ref = calls[d].ref
  BY <1>4, <1>7
<1>11. {"RESERVED", "INITIATED"} \cap TERMINAL = {} /\ "FAILED" \in TERMINAL
  BY RankValues
<1>12. ledger' = ledger
  BY DEF RejectCleanup
<1> QED
  BY <1>8, <1>9, <1>10, <1>11, <1>12, LedgerEnds

\* The pullback cancels its candidate.
LEMMA LedgerCancels ==
  ASSUME IInv, IInv', NEW c \in CallId, PullbackCancel(c)
  PROVE  Serial!End({c}, {"INITIATED", "RINGING"}, "CANCELLED")
<1>1. \A d \in CallId : calls[d] \in CallRow
  BY DEF IInv, TypeOK, CallRow
<1>2. /\ calls[c].state \in {"INITIATED", "RINGING"}
      /\ calls'[c].state = "CANCELLED" /\ calls'[c].ref = calls[c].ref
      /\ \A d \in CallId \ {c} : calls'[d] = calls[d]
  <2>1. calls' = [calls EXCEPT ![c] = [@ EXCEPT !.state = "CANCELLED", !.lease = NoLease]]
        /\ calls \in [CallId -> CallRow]
    BY DEF PullbackCancel, IInv, TypeOK, CallRow
  <2>2. calls[c].state \in {"INITIATED", "RINGING"}
    BY DEF PullbackCancel
  <2> QED
    BY <2>1, <2>2 DEF CallRow
<1>3. LedgerState(c) \in {"INITIATED", "RINGING"} /\ LedgerState(c)' = "CANCELLED"
  BY <1>2 DEF LedgerState, Exists
<1>4. \A d \in CallId \ {c} : LedgerState(d)' = LedgerState(d)
  BY <1>2 DEF LedgerState, Exists
<1>5. {"INITIATED", "RINGING"} \cap TERMINAL = {} /\ "CANCELLED" \in TERMINAL
  BY RankValues
<1>6. ledger' = ledger
  BY DEF PullbackCancel
<1> QED
  BY <1>2, <1>3, <1>4, <1>5, <1>6, LedgerEnds

\* Inserting a call is not a step of the ledger, where it is RESERVED already.
LEMMA LedgerReserves ==
  ASSUME IInv, IInv', NEW s \in Slot, NEW a \in Agent, NEW b \in Borrower, Reserve(s, a, b)
  PROVE  UNCHANGED Serial!serialVars
<1>1. PICK c \in CallId : c = NextCall(b)
  BY DEF Reserve
<1>2. \A d \in CallId : calls[d] \in CallRow
  BY DEF IInv, TypeOK, CallRow
<1>3. ~Exists(c) /\ ~calls[c].ref
  BY <1>1, <1>2 DEF Reserve, Exists, IInv, CallsAtRest
<1>4. /\ calls'[c].state = "RESERVED" /\ calls'[c].ref = FALSE
      /\ \A d \in CallId \ {c} : calls'[d] = calls[d]
  BY <1>1 DEF Reserve, IInv, TypeOK
<1>5. \A d \in CallId : LedgerState(d)' = LedgerState(d)
  BY <1>3, <1>4 DEF LedgerState, Exists
<1>6. \A d \in CallId : calls'[d].ref = calls[d].ref
  BY <1>2, <1>3, <1>4 DEF CallRow
<1>7. ledger' = ledger
  BY DEF Reserve
<1> QED
  BY <1>5, <1>6, <1>7, LedgerStill

LEMMA LedgerStep == IInv /\ IInv' /\ [PunctualNext]_vars => [Serial!SerialNext]_(Serial!serialVars)
<1> SUFFICES ASSUME IInv, IInv', [PunctualNext]_vars
             PROVE  Serial!SerialNext \/ UNCHANGED Serial!serialVars
  OBVIOUS
<1>1. ASSUME NEW s \in Slot, NEW a \in Agent, NEW b \in Borrower, Reserve(s, a, b)
      PROVE  UNCHANGED Serial!serialVars
  BY <1>1, LedgerReserves
<1>2. ASSUME NEW s \in Slot, RejectCleanup(s)
      PROVE  Serial!SerialNext
  <2>1. PICK c \in CallId : c = slots[s].call
    BY <1>2, InFlightFacts DEF RejectCleanup, InFlight
  <2>2. Serial!End({c}, {"RESERVED", "INITIATED"}, "FAILED")
    BY <1>2, <2>1, LedgerRejects
  <2>3. {c} \in SUBSET CallId
    OBVIOUS
  <2> QED
    BY <2>2, <2>3 DEF Serial!SerialNext
<1>3. ASSUME NEW s \in Slot, RecordInitiated(s)
      PROVE  Serial!SerialNext
  <2>1. PICK c \in CallId : c = slots[s].call
    BY <1>3, InFlightFacts DEF RecordInitiated, InFlight
  <2>2. Serial!Record(c)
    BY <1>3, <2>1, LedgerRecords
  <2> QED
    BY <2>2 DEF Serial!SerialNext
<1>4. ASSUME NEW c \in CallId, PullbackCancel(c)
      PROVE  Serial!SerialNext
  BY <1>4, LedgerCancels DEF Serial!SerialNext
<1>5. ASSUME NEW e \in Event, ApplyOne(e)
      PROVE  Serial!SerialNext
  <2>1. Serial!Settle
    BY <1>5, LedgerApplies, LedgerIgnores, LedgerGivesUp DEF ApplyOne
  <2> QED
    BY <2>1 DEF Serial!SerialNext
<1>6. ASSUME Reap
      PROVE  Serial!SerialNext
  <2>1. Serial!End(Orphans, {"RESERVED", "INITIATED"}, "FAILED")
    BY <1>6, LedgerReaps
  <2>2. Orphans \in SUBSET CallId
    BY DEF Orphans
  <2> QED
    BY <2>1, <2>2 DEF Serial!SerialNext
<1>7. ASSUME Tick
      PROVE  UNCHANGED Serial!serialVars
  <2>1. /\ \A c \in CallId : calls[c] \in CallRow
        /\ \A e \in Event : ledger[e] \in EventRow
    BY DEF IInv, TypeOK, CallRow, EventRow
  <2>2. \A c \in CallId : calls'[c].state = calls[c].state /\ calls'[c].ref = calls[c].ref
    BY <1>7, <2>1 DEF Tick, CallRow
  <2>3. \A e \in Event : ledger'[e].status = ledger[e].status
    BY <1>7, <2>1 DEF Tick, EventRow
  <2>4. \A c \in CallId : LedgerState(c)' = LedgerState(c)
    BY <2>2 DEF LedgerState, Exists
  <2> QED
    BY <2>2, <2>3, <2>4, LedgerStill
<1>8. ASSUME NEW e \in Event, Ingest(e)
      PROVE  UNCHANGED Serial!serialVars
  <2>1. ledger[e].status = "absent" /\ calls' = calls
    BY <1>8 DEF Ingest
  <2>2. \A f \in Event : ledger'[f] = IF f = e THEN [status |-> "unapplied", left |-> GiveUpAge]
                                      ELSE ledger[f]
    BY <1>8 DEF Ingest, IInv, TypeOK
  <2>3. \A c \in CallId : LedgerState(c)' = LedgerState(c)
    BY <2>1 DEF LedgerState, Exists
  <2> QED
    BY <2>1, <2>2, <2>3, LedgerStill
<1>9. CASE calls' = calls /\ ledger' = ledger
  <2>1. \A c \in CallId : LedgerState(c)' = LedgerState(c)
    BY <1>9 DEF LedgerState, Exists
  <2> QED
    BY <1>9, <2>1, LedgerStill
<1>10. ASSUME NEW s \in Slot, PlaceAccepted(s) \/ PlaceFailed(s) \/ RecordGivesUp(s) \/ WorkerRestart(s)
       PROVE  calls' = calls /\ ledger' = ledger
  BY <1>10 DEF PlaceAccepted, PlaceFailed, RecordGivesUp, WorkerRestart
<1>11. ASSUME NEW s \in Slot, NEW a \in Agent, NEW b \in Borrower, ReserveCollides(s, a, b)
       PROVE  calls' = calls /\ ledger' = ledger
  BY <1>11 DEF ReserveCollides
<1>12. ASSUME NEW c \in CallId, Provider(c)
       PROVE  calls' = calls /\ ledger' = ledger
  BY <1>12 DEF Provider, Answer, NoAnswer, HangUp
<1>13. CASE UNCHANGED vars
  BY <1>9, <1>13 DEF vars
<1> QED
  BY <1>1, <1>2, <1>3, <1>4, <1>5, <1>6, <1>7, <1>8, <1>9, <1>10, <1>11, <1>12, <1>13
     DEF PunctualNext, Work, Allocate

\* I5: what punctual workers do to the calls and the attempts is what the serial
\* ledger promises of them.
THEOREM EventsMoveCallsSerially == PunctualSpec => EventsAreSerial
<1>1. Init => Serial!SerialInit
  BY LedgerInit
<1>2. IInv /\ IInv' /\ [PunctualNext]_vars => [Serial!SerialNext]_(Serial!serialVars)
  BY LedgerStep
<1> QED
  BY <1>1, <1>2, InvariantHolds, PTL DEF PunctualSpec, EventsAreSerial, Serial!SerialSpec
=============================================================================
