------------------------- MODULE EventDrainProofs -------------------------
(* Proofs about EventDrain, for any number of drains, calls and events, any    *)
(* limit of a batch and any number of lost transactions.                       *)
EXTENDS EventDrain, Induction, TLAPS

-----------------------------------------------------------------------------
(* A transaction and what it owes.                                             *)

TxRow ==
  [pc : {"asleep", "reading", "updating"}, rows : SUBSET Event, todo : SUBSET Event,
   calls : [Call -> CallState \cup {Untouched}], bills : [Call -> Nat],
   marks : [Event -> {Untouched, "unknown", "applied"}]]

\* What has been charged for a call in a state, in all.
Charge(state) == IF state \in TERMINAL THEN 1 ELSE 0

\* A transaction that has a version of a call holds the row of a recorded call
\* (its state ranks INITIATED or higher), and brings its charges to what its version asks for; another adds nothing.
Balanced(tx, c) ==
  /\ tx.calls[c] = Untouched => tx.bills[c] = 0
  /\ tx.calls[c] # Untouched =>
       /\ c \in ref /\ RANK[tx.calls[c]] >= 2
       /\ bills[c] + tx.bills[c] = Charge(tx.calls[c])

\* What is being updated is an event of a recorded call, of a type that is known.
Applying(tx) ==
  tx.pc = "updating" =>
    \A e \in tx.todo :
      (\A f \in tx.todo : received[e] <= received[f]) => e.call \in ref /\ Known(e)

LedgerTypes ==
  /\ calls \in [Call -> CallState]
  /\ bills \in [Call -> Nat]
  /\ ref \subseteq Call /\ old \subseteq Event
  /\ ledger \in [Event -> {"unapplied", "unknown", "applied", "given_up"}]
  /\ received \in [Event -> Nat] /\ (\A e, f \in Event : received[e] = received[f] => e = f)
  /\ crashes \in Nat

TxTypes ==
  /\ drains \in [Drain -> TxRow]
  /\ \A d \in Drain : drains[d].todo \subseteq drains[d].rows

OneHolder == \A d, f \in Drain : \A c \in Call : Holds(d, c) /\ Holds(f, c) => d = f

DInv ==
  /\ LedgerTypes
  /\ TxTypes
  /\ OneHolder
  /\ \A d \in Drain : Applying(drains[d]) /\ \A c \in Call : Balanced(drains[d], c)
  /\ \A c \in ref : RANK[calls[c]] >= 2
  /\ ChargedOnce

LEMMA CallStateFacts ==
  /\ TERMINAL = {"COMPLETED", "FAILED", "CANCELLED", "ABANDONED"}
  /\ TERMINAL \subseteq CallState
  /\ \A s \in CallState : RANK[s] \in 0 .. 6 /\ (s \in TERMINAL => RANK[s] = 6)
  /\ RANK["CONNECTED"] = 5 /\ RANK["INITIATED"] = 2 /\ RANK["RESERVED"] = 1
  /\ Untouched \notin CallState
BY DrainAssumption DEF RANK, CallState, TERMINAL, TERMINAL_RANK

LEMMA ChargeIs == \A s : Charge(s) \in {0, 1}
BY DEF Charge

LEMMA EventCalls == \A e \in Event : e.call \in Call
BY DrainAssumption

LEMMA DoneIs ==
  ASSUME NEW tx \in TxRow, NEW e \in Event, NEW mark \in {Untouched, "unknown", "applied"}
  PROVE  /\ Done(tx, e, mark) \in TxRow
         /\ Done(tx, e, mark).pc = "reading"
         /\ Done(tx, e, mark).todo = tx.todo \ {e}
         /\ Done(tx, e, mark).rows = tx.rows
         /\ Done(tx, e, mark).calls = tx.calls
         /\ Done(tx, e, mark).bills = tx.bills
<1> DEFINE new == Done(tx, e, mark)
<1>1. new \in TxRow
  <2> DEFINE read == [tx EXCEPT !.pc = "reading", !.todo = tx.todo \ {e}]
  <2>1. read \in TxRow
    BY DEF TxRow
  <2>2. new = [read EXCEPT !.marks = [read.marks EXCEPT ![e] = mark]]
    BY <2>1 DEF Done, TxRow
  <2> HIDE DEF read, new
  <2> QED
    BY <2>1, <2>2 DEF TxRow
<1>2. new.pc = "reading" /\ new.todo = tx.todo \ {e}
  BY DEF Done, TxRow
<1>3. new.rows = tx.rows /\ new.calls = tx.calls /\ new.bills = tx.bills
  BY DEF Done, TxRow
<1> QED
  BY <1>1, <1>2, <1>3

LEMMA AdvancedIs ==
  ASSUME NEW tx \in TxRow, NEW c \in Call, NEW state \in CallState
  PROVE  /\ Advanced(tx, c, state) \in TxRow
         /\ Advanced(tx, c, state).pc = tx.pc
         /\ Advanced(tx, c, state).todo = tx.todo
         /\ Advanced(tx, c, state).rows = tx.rows
         /\ Advanced(tx, c, state).calls[c] = state
         /\ Advanced(tx, c, state).bills[c] = tx.bills[c] + Charge(state)
         /\ \A o \in Call \ {c} : /\ Advanced(tx, c, state).calls[o] = tx.calls[o]
                                  /\ Advanced(tx, c, state).bills[o] = tx.bills[o]
<1> DEFINE new == Advanced(tx, c, state)
           moved == [tx.calls EXCEPT ![c] = state]
           charged == [tx.bills EXCEPT ![c] = tx.bills[c] + Charge(state)]
<1>1. /\ tx.calls \in [Call -> CallState \cup {Untouched}]
      /\ tx.bills \in [Call -> Nat]
  BY DEF TxRow
<1>2. /\ moved \in [Call -> CallState \cup {Untouched}] /\ moved[c] = state
      /\ \A o \in Call \ {c} : moved[o] = tx.calls[o]
  BY <1>1
<1>3. /\ charged \in [Call -> Nat] /\ charged[c] = tx.bills[c] + Charge(state)
      /\ \A o \in Call \ {c} : charged[o] = tx.bills[o]
  BY <1>1, ChargeIs
<1>4. new = [tx EXCEPT !.calls = moved, !.bills = charged]
  BY DEF Advanced, Charge, TxRow
<1> HIDE DEF new, moved, charged
<1>5. new \in TxRow
  BY <1>2, <1>3, <1>4 DEF TxRow
<1>6. new.calls = moved /\ new.bills = charged
  BY <1>4 DEF TxRow
<1>7. new.pc = tx.pc /\ new.todo = tx.todo /\ new.rows = tx.rows
  BY <1>4 DEF TxRow
<1> QED
  BY <1>2, <1>3, <1>5, <1>6, <1>7 DEF new

LEMMA NoTransactionIs ==
  /\ NoTransaction \in TxRow
  /\ NoTransaction.pc = "asleep" /\ NoTransaction.todo = {} /\ NoTransaction.rows = {}
  /\ \A c \in Call : NoTransaction.calls[c] = Untouched /\ NoTransaction.bills[c] = 0
  /\ \A e \in Event : NoTransaction.marks[e] = Untouched
BY DEF NoTransaction, TxRow

-----------------------------------------------------------------------------
(* The inductive step.                                                         *)

\* A drain's transaction goes on.
LEMMA TxStep ==
  ASSUME DInv, NEW d \in Drain, NEW tx \in TxRow, drains' = [drains EXCEPT ![d] = tx],
         UNCHANGED <<calls, bills, ref, ledger, received, old>>, crashes' \in Nat,
         tx.todo \subseteq tx.rows, Applying(tx),
         \A c \in Call : Balanced(tx, c),
         \A c \in Call : tx.calls[c] # Untouched => \A f \in Drain \ {d} : ~Holds(f, c)
  PROVE  DInv'
<1>1. /\ drains' \in [Drain -> TxRow] /\ drains'[d] = tx
      /\ \A f \in Drain \ {d} : drains'[f] = drains[f]
  BY DEF DInv, TxTypes
<1>2. LedgerTypes' /\ TxTypes'
  BY <1>1 DEF DInv, LedgerTypes, TxTypes
<1>3. OneHolder'
  BY <1>1 DEF DInv, OneHolder, Holds
<1>4. \A f \in Drain : Applying(drains[f])' /\ \A c \in Call : Balanced(drains[f], c)'
  BY <1>1 DEF DInv, Applying, Balanced
<1>5. (\A c \in ref : RANK[calls[c]] >= 2)' /\ ChargedOnce'
  BY DEF DInv, ChargedOnce
<1> QED
  BY <1>2, <1>3, <1>4, <1>5 DEF DInv

LEMMA TxOf ==
  ASSUME DInv, NEW d \in Drain
  PROVE  /\ drains[d] \in TxRow /\ drains[d].todo \subseteq drains[d].rows
         /\ Applying(drains[d])
         /\ \A c \in Call : Balanced(drains[d], c)
         /\ \A c \in Call : drains[d].calls[c] # Untouched =>
              \A f \in Drain \ {d} : ~Holds(f, c)
         /\ drains \in [Drain -> TxRow]
BY DEF DInv, TxTypes, OneHolder, Holds

LEMMA FetchStep ==
  ASSUME DInv, NEW d \in Drain, Fetch(d)
  PROVE  DInv'
<1>1. PICK batch \in SUBSET Event :
        drains' = [drains EXCEPT ![d] =
                     [NoTransaction EXCEPT !.pc = "reading", !.rows = batch, !.todo = batch]]
  BY DEF Fetch
<1>2. UNCHANGED <<calls, bills, ref, ledger, received, old, crashes>> /\ crashes' \in Nat
  BY DEF Fetch, DInv, LedgerTypes
<1> DEFINE tx == [NoTransaction EXCEPT !.pc = "reading", !.rows = batch, !.todo = batch]
<1>3. tx \in TxRow
  BY NoTransactionIs DEF TxRow
<1>4. tx.pc = "reading" /\ tx.rows = batch /\ tx.todo = batch
  BY NoTransactionIs DEF TxRow
<1>5. tx.calls = NoTransaction.calls /\ tx.bills = NoTransaction.bills
  BY NoTransactionIs DEF TxRow
<1>6. drains' = [drains EXCEPT ![d] = tx]
  BY <1>1
<1> HIDE DEF tx
<1>7. /\ tx.todo \subseteq tx.rows /\ Applying(tx)
      /\ \A c \in Call : Balanced(tx, c) /\ tx.calls[c] = Untouched
  BY <1>4, <1>5, NoTransactionIs DEF Applying, Balanced
<1> QED
  BY <1>2, <1>3, <1>6, <1>7, TxStep

\* The next event is left as it is, or marked: nothing else changes.
LEMMA DoneStep ==
  ASSUME DInv, NEW d \in Drain, NEW e \in Event, NEW mark \in {Untouched, "unknown", "applied"},
         drains' = [drains EXCEPT ![d] = Done(drains[d], e, mark)],
         UNCHANGED <<calls, bills, ref, ledger, received, old, crashes>>
  PROVE  DInv'
<1> DEFINE tx == Done(drains[d], e, mark)
<1>1. drains' = [drains EXCEPT ![d] = tx] /\ crashes' \in Nat
  BY DEF DInv, LedgerTypes
<1>2. drains[d] \in TxRow
  BY TxOf
<1>3. /\ tx \in TxRow /\ tx.pc = "reading" /\ tx.todo = drains[d].todo \ {e}
      /\ tx.rows = drains[d].rows /\ tx.calls = drains[d].calls /\ tx.bills = drains[d].bills
  BY <1>2, DoneIs
<1> HIDE DEF tx
<1>4. tx.todo \subseteq tx.rows /\ Applying(tx)
  BY <1>3, TxOf DEF Applying
<1>5. \A c \in Call : Balanced(tx, c)
  BY <1>3, TxOf DEF Balanced
<1>6. \A c \in Call : tx.calls[c] # Untouched => \A f \in Drain \ {d} : ~Holds(f, c)
  BY <1>3, TxOf
<1> QED
  BY <1>1, <1>3, <1>4, <1>5, <1>6, TxStep

LEMMA ReadStep ==
  ASSUME DInv, NEW d \in Drain, Read(d)
  PROVE  DInv'
<1>1. PICK e \in Event :
        /\ IsNext(d, e)
        /\ \/ \E mark \in {Untouched, "unknown", "applied"} :
                drains' = [drains EXCEPT ![d] = Done(drains[d], e, mark)]
           \/ /\ e.call \in ref /\ Known(e)
              /\ drains' = [drains EXCEPT ![d].pc = "updating"]
  BY DEF Read
<1>2. UNCHANGED <<calls, bills, ref, ledger, received, old, crashes>> /\ crashes' \in Nat
  BY DEF Read, DInv, LedgerTypes
<1>3. ASSUME NEW mark \in {Untouched, "unknown", "applied"},
             drains' = [drains EXCEPT ![d] = Done(drains[d], e, mark)]
      PROVE  DInv'
  BY <1>2, <1>3, DoneStep
<1>4. CASE e.call \in ref /\ Known(e) /\ drains' = [drains EXCEPT ![d].pc = "updating"]
  <2> DEFINE tx == [drains[d] EXCEPT !.pc = "updating"]
  <2>1. drains' = [drains EXCEPT ![d] = tx]
    BY <1>4
  <2>2. drains[d] \in TxRow
    BY TxOf
  <2>3. /\ tx \in TxRow /\ tx.pc = "updating" /\ tx.todo = drains[d].todo
        /\ tx.rows = drains[d].rows
    BY <2>2 DEF TxRow
  <2>4. tx.calls = drains[d].calls /\ tx.bills = drains[d].bills
    BY <2>2 DEF TxRow
  <2> HIDE DEF tx
  <2>5. Applying(tx)
    <3> SUFFICES ASSUME NEW f \in drains[d].todo,
                        \A g \in drains[d].todo : received[f] <= received[g]
                 PROVE  f = e
      BY <1>4, <2>3 DEF Applying
    <3>1. /\ e \in drains[d].todo /\ f \in Event
          /\ received[e] <= received[f] /\ received[f] <= received[e]
      BY <1>1, <2>2 DEF IsNext, TxRow
    <3>2. received[e] \in Nat /\ received[f] \in Nat
      BY <3>1 DEF DInv, LedgerTypes
    <3>3. received[e] = received[f]
      BY <3>1, <3>2
    <3> QED
      BY <3>1, <3>3 DEF DInv, LedgerTypes
  <2>6. \A c \in Call : Balanced(tx, c)
    BY <2>4, TxOf DEF Balanced
  <2>7. \A c \in Call : tx.calls[c] # Untouched => \A f \in Drain \ {d} : ~Holds(f, c)
    BY <2>4, TxOf
  <2>8. tx.todo \subseteq tx.rows
    BY <2>3, TxOf
  <2> QED
    BY <1>2, <2>1, <2>3, <2>5, <2>6, <2>7, <2>8, TxStep
<1> QED
  BY <1>1, <1>3, <1>4

LEMMA UpdateStep ==
  ASSUME DInv, NEW d \in Drain, Update(d)
  PROVE  DInv'
<1>1. PICK e \in Event :
        /\ IsNext(d, e)
        /\ \A f \in Drain \ {d} : ~Holds(f, e.call)
        /\ \/ /\ StillRises(Sees(d, e.call), e.type)
              /\ drains' = [drains EXCEPT ![d] =
                              Advanced(Done(drains[d], e, "applied"), e.call, Final(e.type))]
           \/ drains' = [drains EXCEPT ![d] = Done(drains[d], e, "applied")]
  BY DEF Update
<1>2. /\ UNCHANGED <<calls, bills, ref, ledger, received, old, crashes>> /\ crashes' \in Nat
      /\ drains[d].pc = "updating"
  BY DEF Update, DInv, LedgerTypes
<1>3. CASE drains' = [drains EXCEPT ![d] = Done(drains[d], e, "applied")]
  BY <1>2, <1>3, DoneStep
<1>4. CASE /\ StillRises(Sees(d, e.call), e.type)
           /\ drains' = [drains EXCEPT ![d] =
                           Advanced(Done(drains[d], e, "applied"), e.call, Final(e.type))]
  <2> DEFINE c == e.call
             done == Done(drains[d], e, "applied")
             tx == Advanced(done, c, Final(e.type))
  <2>1. drains' = [drains EXCEPT ![d] = tx]
    BY <1>4
  <2>2. c \in Call /\ drains[d] \in TxRow
    BY EventCalls, TxOf
  <2>3. c \in ref /\ Known(e)
    BY <1>1, <1>2, TxOf DEF Applying, IsNext
  <2>4. Final(e.type) \in CallState
    BY <2>3 DEF Known, Final, CallState
  <2>5. /\ done \in TxRow /\ done.pc = "reading" /\ done.todo = drains[d].todo \ {e}
        /\ done.rows = drains[d].rows /\ done.calls = drains[d].calls
        /\ done.bills = drains[d].bills
    BY <2>2, DoneIs
  <2> HIDE DEF done
  <2>6. /\ tx \in TxRow /\ tx.pc = "reading" /\ tx.todo = done.todo /\ tx.rows = done.rows
        /\ tx.calls[c] = Final(e.type) /\ tx.bills[c] = done.bills[c] + Charge(Final(e.type))
        /\ \A o \in Call \ {c} : tx.calls[o] = done.calls[o] /\ tx.bills[o] = done.bills[o]
    BY <2>2, <2>4, <2>5, AdvancedIs
  <2> HIDE DEF tx
  <2>7. bills[c] + drains[d].bills[c] = 0 /\ RANK[Final(e.type)] >= 2
    <3>1. RANK[Sees(d, c)] >= 2
      BY <2>2, <2>3, TxOf DEF Sees, Holds, Balanced, DInv
    <3>2. RANK[Final(e.type)] >= 2
      <4>1. RANK[Sees(d, c)] < RANK[e.type]
        BY <1>4 DEF StillRises
      <4>2. RANK[e.type] \in 0 .. 6 /\ Sees(d, c) \in CallState
        BY <2>2, <2>3, CallStateFacts DEF Known, Sees, Holds, DInv, LedgerTypes, TxRow
      <4>3. RANK[Sees(d, c)] \in 0 .. 6
        BY <4>2, CallStateFacts
      <4> QED
        BY <3>1, <4>1, <4>2, <4>3, CallStateFacts DEF Final
    <3>3. Sees(d, c) \in CallState /\ Sees(d, c) \notin TERMINAL
      <4>1. Sees(d, c) \in CallState
        BY <2>2 DEF Sees, Holds, DInv, LedgerTypes, TxRow
      <4>2. RANK[Sees(d, c)] < RANK[e.type]
        BY <1>4 DEF StillRises
      <4>3. RANK[e.type] \in 0 .. 6
        BY <2>3, CallStateFacts DEF Known
      <4> QED
        BY <4>1, <4>2, <4>3, CallStateFacts
    <3>4. bills[c] \in Nat
      BY <2>2 DEF DInv, LedgerTypes
    <3>5. CASE Holds(d, c)
      <4>1. Sees(d, c) = drains[d].calls[c] /\ drains[d].calls[c] # Untouched
        BY <3>5 DEF Sees, Holds
      <4>2. bills[c] + drains[d].bills[c] = Charge(drains[d].calls[c])
        BY <2>2, <4>1, TxOf DEF Balanced
      <4> QED
        BY <3>3, <3>2, <4>1, <4>2 DEF Charge
    <3>6. CASE ~Holds(d, c)
      <4>1. Sees(d, c) = calls[c] /\ drains[d].bills[c] = 0
        BY <2>2, <3>6, TxOf DEF Sees, Holds, Balanced
      <4>2. bills[c] = 0
        BY <2>2, <3>3, <4>1 DEF DInv, ChargedOnce
      <4> QED
        BY <3>2, <4>1, <4>2
    <3> QED
      BY <3>5, <3>6
  <2>8. tx.todo \subseteq tx.rows /\ Applying(tx)
    BY <2>5, <2>6, TxOf DEF Applying
  <2>9. \A o \in Call : Balanced(tx, o)
    <3>1. Balanced(tx, c)
      <4>1. bills[c] \in Nat /\ drains[d].bills[c] \in Nat /\ Charge(Final(e.type)) \in Nat
        BY <2>2, ChargeIs DEF DInv, LedgerTypes, TxRow
      <4>2. bills[c] + tx.bills[c] = Charge(Final(e.type))
        BY <2>5, <2>6, <2>7, <4>1
      <4>3. tx.calls[c] # Untouched
        BY <2>4, <2>6, CallStateFacts
      <4> QED
        BY <2>3, <2>6, <2>7, <4>2, <4>3 DEF Balanced
    <3>2. ASSUME NEW o \in Call \ {c}
          PROVE  Balanced(tx, o)
      BY <2>5, <2>6, <3>2, TxOf DEF Balanced
    <3> QED
      BY <3>1, <3>2
  <2>10. \A o \in Call : tx.calls[o] # Untouched => \A f \in Drain \ {d} : ~Holds(f, o)
    BY <1>1, <2>5, <2>6, TxOf
  <2> QED
    BY <1>2, <2>1, <2>6, <2>8, <2>9, <2>10, TxStep
<1> QED
  BY <1>1, <1>3, <1>4

LEMMA AbortStep ==
  ASSUME DInv, NEW d \in Drain, Abort(d),
         UNCHANGED <<calls, bills, ref, ledger, received, old>>, crashes' \in Nat
  PROVE  DInv'
<1>1. /\ NoTransaction.todo \subseteq NoTransaction.rows /\ Applying(NoTransaction)
      /\ \A c \in Call : Balanced(NoTransaction, c) /\ NoTransaction.calls[c] = Untouched
  BY NoTransactionIs DEF Applying, Balanced
<1> QED
  BY <1>1, NoTransactionIs, TxStep DEF Abort

LEMMA CommitStep ==
  ASSUME DInv, NEW d \in Drain, Commit(d)
  PROVE  DInv'
<1>1. /\ ledger' = [e \in Event |-> IF e \in GivesUp(d) THEN "given_up" ELSE Marked(d, e)]
      /\ calls' = [c \in Call |-> Sees(d, c)]
      /\ bills' = [c \in Call |-> bills[c] + drains[d].bills[c]]
      /\ drains' = [drains EXCEPT ![d] = NoTransaction]
      /\ UNCHANGED <<ref, received, old, crashes>>
  BY DEF Commit
<1>2. /\ drains' \in [Drain -> TxRow] /\ drains'[d] = NoTransaction
      /\ \A f \in Drain \ {d} : drains'[f] = drains[f]
  BY <1>1, TxOf, NoTransactionIs
<1>3. drains[d] \in TxRow
  BY TxOf
<1>4. LedgerTypes'
  <2>1. calls' \in [Call -> CallState]
    BY <1>1, <1>3 DEF DInv, LedgerTypes, TxRow, Sees, Holds
  <2>2. bills' \in [Call -> Nat]
    BY <1>1, <1>3 DEF DInv, LedgerTypes, TxRow
  <2>3. ledger' \in [Event -> {"unapplied", "unknown", "applied", "given_up"}]
    BY <1>1, <1>3 DEF DInv, LedgerTypes, TxRow, Marked
  <2> QED
    BY <1>1, <2>1, <2>2, <2>3 DEF DInv, LedgerTypes
<1>5. TxTypes'
  BY <1>2, NoTransactionIs DEF DInv, TxTypes
<1>6. OneHolder'
  BY <1>2, NoTransactionIs DEF DInv, OneHolder, Holds
<1>7. \A f \in Drain : Applying(drains[f])'
  BY <1>1, <1>2, NoTransactionIs DEF DInv, Applying
<1>8. \A f \in Drain : \A c \in Call : Balanced(drains[f], c)'
  <2>1. ASSUME NEW c \in Call
        PROVE  Balanced(drains[d], c)'
    BY <1>2, <2>1, NoTransactionIs DEF Balanced
  <2>2. ASSUME NEW f \in Drain \ {d}, NEW c \in Call
        PROVE  Balanced(drains[f], c)'
    <3>1. Balanced(drains[f], c) /\ drains'[f] = drains[f]
      BY <1>2, TxOf
    <3>2. CASE drains[f].calls[c] = Untouched
      BY <3>1, <3>2 DEF Balanced
    <3>3. CASE drains[f].calls[c] # Untouched
      <4>1. drains[d].calls[c] = Untouched
        BY <2>2, <3>3, TxOf DEF Holds
      <4>2. drains[d].bills[c] = 0 /\ bills[c] \in Nat
        BY <4>1, TxOf DEF Balanced, DInv, LedgerTypes
      <4>3. bills'[c] = bills[c]
        BY <1>1, <4>2
      <4> QED
        BY <1>1, <3>1, <3>3, <4>3 DEF Balanced
    <3> QED
      BY <3>2, <3>3
  <2> QED
    BY <2>1, <2>2
<1>9. ASSUME NEW c \in Call
      PROVE  /\ c \in ref => RANK[calls'[c]] >= 2
             /\ bills'[c] = Charge(calls'[c])
  <2>1. bills[c] \in Nat /\ bills[c] = Charge(calls[c])
    BY DEF DInv, LedgerTypes, ChargedOnce, Charge
  <2>2. calls'[c] = Sees(d, c) /\ bills'[c] = bills[c] + drains[d].bills[c]
    BY <1>1
  <2>3. CASE Holds(d, c)
    BY <2>2, <2>3, TxOf DEF Holds, Sees, Balanced
  <2>4. CASE ~Holds(d, c)
    <3>1. drains[d].bills[c] = 0 /\ Sees(d, c) = calls[c]
      BY <2>4, TxOf DEF Holds, Sees, Balanced
    <3>2. bills'[c] = Charge(calls'[c])
      BY <2>1, <2>2, <3>1
    <3>3. c \in ref => RANK[calls'[c]] >= 2
      BY <2>2, <3>1 DEF DInv
    <3> QED
      BY <3>2, <3>3
  <2> QED
    BY <2>3, <2>4
<1>10. (\A c \in ref : RANK[calls[c]] >= 2)' /\ ChargedOnce'
  BY <1>1, <1>9 DEF DInv, LedgerTypes, ChargedOnce, Charge
<1> QED
  BY <1>4, <1>5, <1>6, <1>7, <1>8, <1>10 DEF DInv

LEMMA AgeStep ==
  ASSUME DInv, NEW e \in Event, Age(e)
  PROVE  DInv'
<1>1. /\ old' = old \cup {e}
      /\ UNCHANGED <<calls, bills, ref, ledger, received, drains, crashes>>
  BY DEF Age
<1>2. LedgerTypes' /\ TxTypes' /\ OneHolder'
  BY <1>1 DEF DInv, LedgerTypes, TxTypes, OneHolder, Holds
<1>3. \A d \in Drain : Applying(drains[d])' /\ \A c \in Call : Balanced(drains[d], c)'
  BY <1>1 DEF DInv, Applying, Balanced
<1> QED
  BY <1>1, <1>2, <1>3 DEF DInv, ChargedOnce

\* No transaction has a version of a call that is not recorded yet.
LEMMA RecordStep ==
  ASSUME DInv, NEW c \in Call, Record(c)
  PROVE  DInv'
<1>1. /\ calls[c] = "RESERVED" /\ calls' = [calls EXCEPT ![c] = "INITIATED"]
      /\ ref' = ref \cup {c}
      /\ UNCHANGED <<bills, ledger, received, old, drains, crashes>>
  BY DEF Record
<1>2. /\ calls' \in [Call -> CallState] /\ calls'[c] = "INITIATED"
      /\ \A o \in Call \ {c} : calls'[o] = calls[o]
  BY <1>1 DEF DInv, LedgerTypes, CallState
<1>3. LedgerTypes' /\ TxTypes' /\ OneHolder'
  BY <1>1, <1>2 DEF DInv, LedgerTypes, TxTypes, OneHolder, Holds
<1>4. \A d \in Drain : Applying(drains[d])' /\ \A o \in Call : Balanced(drains[d], o)'
  BY <1>1 DEF DInv, Applying, Balanced
<1>5. \A o \in ref' : RANK[calls'[o]] >= 2
  BY <1>1, <1>2, CallStateFacts DEF DInv, LedgerTypes
<1>6. ChargedOnce'
  BY <1>1, <1>2, CallStateFacts DEF DInv, ChargedOnce
<1> QED
  BY <1>3, <1>4, <1>5, <1>6 DEF DInv

LEMMA EndStep ==
  ASSUME DInv, NEW c \in Call, NEW from, NEW to \in TERMINAL, End(c, from, to),
         from \cap TERMINAL = {}
  PROVE  DInv'
<1>1. /\ calls[c] \notin TERMINAL /\ calls' = [calls EXCEPT ![c] = to]
      /\ bills' = [bills EXCEPT ![c] = @ + 1]
      /\ \A d \in Drain : ~Holds(d, c)
      /\ UNCHANGED <<ref, ledger, received, old, drains, crashes>>
  BY DEF End
<1>2. /\ calls' \in [Call -> CallState] /\ calls'[c] = to
      /\ \A o \in Call \ {c} : calls'[o] = calls[o]
  BY <1>1, CallStateFacts DEF DInv, LedgerTypes
<1>3. /\ bills' \in [Call -> Nat] /\ bills'[c] = bills[c] + 1
      /\ \A o \in Call \ {c} : bills'[o] = bills[o]
  BY <1>1 DEF DInv, LedgerTypes
<1>4. LedgerTypes' /\ TxTypes' /\ OneHolder'
  BY <1>1, <1>2, <1>3 DEF DInv, LedgerTypes, TxTypes, OneHolder, Holds
<1>5. \A d \in Drain : Applying(drains[d])'
  BY <1>1 DEF DInv, Applying
<1>6. \A d \in Drain : \A o \in Call : Balanced(drains[d], o)'
  BY <1>1, <1>3 DEF DInv, Balanced, Holds
<1>7. \A o \in ref' : RANK[calls'[o]] >= 2
  BY <1>1, <1>2, CallStateFacts DEF DInv, LedgerTypes
<1>8. ChargedOnce'
  <2>1. bills'[c] = 1
    BY <1>1, <1>3 DEF DInv, ChargedOnce
  <2> QED
    BY <1>2, <1>3, <2>1 DEF DInv, ChargedOnce
<1> QED
  BY <1>4, <1>5, <1>6, <1>7, <1>8 DEF DInv

LEMMA DrainsStep ==
  ASSUME DInv, [Next]_vars
  PROVE  DInv'
<1>1. CASE UNCHANGED vars
  <2>1. UNCHANGED <<calls, bills, ref, ledger, received, old, drains, crashes>>
    BY <1>1 DEF vars
  <2>2. LedgerTypes' /\ TxTypes' /\ OneHolder'
    BY <2>1 DEF DInv, LedgerTypes, TxTypes, OneHolder, Holds
  <2>3. \A d \in Drain : Applying(drains[d])' /\ \A c \in Call : Balanced(drains[d], c)'
    BY <2>1 DEF DInv, Applying, Balanced
  <2> QED
    BY <2>1, <2>2, <2>3 DEF DInv, ChargedOnce
<1>2. ASSUME NEW d \in Drain, DrainStep(d)
      PROVE  DInv'
  BY <1>2, FetchStep, ReadStep, UpdateStep, CommitStep DEF DrainStep
<1>3. ASSUME NEW d \in Drain, Deadlock(d) \/ Crash(d)
      PROVE  DInv'
  <2>1. crashes' \in Nat
    BY <1>3 DEF DInv, LedgerTypes, Deadlock, Crash
  <2> QED
    BY <1>3, <2>1, AbortStep DEF Deadlock, Crash
<1>4. ASSUME NEW e \in Event, Age(e)
      PROVE  DInv'
  BY <1>4, AgeStep
<1>5. ASSUME NEW c \in Call, Elsewhere(c)
      PROVE  DInv'
  <2>1. CASE Record(c)
    BY <2>1, RecordStep
  <2>2. CASE End(c, {"RESERVED", "INITIATED"}, "FAILED")
    BY <2>2, EndStep, CallStateFacts
  <2>3. CASE End(c, {"INITIATED", "RINGING"}, "CANCELLED")
    BY <2>3, EndStep, CallStateFacts
  <2> QED
    BY <1>5, <2>1, <2>2, <2>3 DEF Elsewhere
<1> QED
  BY <1>1, <1>2, <1>3, <1>4, <1>5 DEF Next

LEMMA DrainsStart ==
  ASSUME Init
  PROVE  DInv
<1>1. LedgerTypes
  BY DrainAssumption DEF Init, LedgerTypes, CallState
<1>2. drains \in [Drain -> TxRow] /\ \A d \in Drain : drains[d] = NoTransaction
  BY NoTransactionIs DEF Init
<1>3. TxTypes /\ OneHolder
  BY <1>2, NoTransactionIs DEF TxTypes, OneHolder, Holds
<1>4. \A d \in Drain : Applying(drains[d]) /\ \A c \in Call : Balanced(drains[d], c)
  BY <1>2, NoTransactionIs DEF Applying, Balanced
<1>5. ChargedOnce
  BY CallStateFacts DEF Init, ChargedOnce
<1> QED
  BY <1>1, <1>3, <1>4, <1>5 DEF Init, DInv

\* DInv is an inductive invariant of the drains.
THEOREM DrainsInvariant == Spec => []DInv
<1>1. Init => DInv
  BY DrainsStart
<1>2. DInv /\ [Next]_vars => DInv'
  BY DrainsStep
<1> QED
  BY <1>1, <1>2, PTL DEF Spec

\* Every variable of the drains has a value of its type.
THEOREM DrainTypes == Spec => []DrainTypeOK
<1>1. DInv => DrainTypeOK
  BY DEF DInv, LedgerTypes, TxTypes, TxRow, DrainTypeOK
<1> QED
  BY <1>1, DrainsInvariant, PTL

\* on_call_terminal: however drains wait for each other, lose their transactions or
\* an update to another, a borrower is charged once for a call, when it ends.
THEOREM ChargesAreExact == Spec => []ChargedOnce
<1>1. DInv => ChargedOnce
  BY DEF DInv
<1> QED
  BY <1>1, DrainsInvariant, PTL

-----------------------------------------------------------------------------
(* The drains implement SerialLedger: a commit applies the transaction's       *)
(* events one at a time, in the order it took them.                            *)

\* The states of recorded calls between transactions, and what raises them.
Rest == {"INITIATED", "RINGING", "CONNECTED"} \cup TERMINAL
Rising == {"RINGING", "ANSWERED"} \cup TERMINAL

Row == [state : CallState, bills : Nat]

\* What an event does to the row of a call that it may be about, or not.
After(c, row, e) == IF e.call = c THEN Serial!ApplyOne(row, e) ELSE row

\* The rows of a call as the events s[1], ..., s[n] are applied.
Chain(c, s, n, r) ==
  /\ r \in [0 .. n -> Row]
  /\ r[0] = [state |-> calls[c], bills |-> bills[c]]
  /\ \A i \in 1 .. n : r[i] = After(c, r[i - 1], s[i])

AppliedBy(tx) == {e \in Event : tx.marks[e] = "applied"}

\* A call's row as the transaction sees it.
Version(tx, c) ==
  [state |-> IF tx.calls[c] # Untouched THEN tx.calls[c] ELSE calls[c],
   bills |-> bills[c] + tx.bills[c]]

\* The transaction's versions are what its events, one by one, make of the calls
\* as they are committed now.
Serially(tx) ==
  \E n \in Nat : \E s \in Bijection(1 .. n, AppliedBy(tx)) : \A c \in Call :
    \E r : Chain(c, s, n, r) /\ r[n] = Version(tx, c)

\* Events are marked as they leave todo; those marked applied are of recorded
\* calls; a version is never behind the call; what is applied to a call without
\* a version did nothing, and would do nothing now.
Orderly(tx) ==
  /\ \A e \in Event : tx.marks[e] # Untouched => e \in tx.rows \ tx.todo
  /\ \A e \in AppliedBy(tx) : Known(e) /\ e.call \in ref
  /\ \A c \in Call : tx.calls[c] # Untouched =>
       tx.calls[c] \in Rest /\ RANK[calls[c]] <= RANK[tx.calls[c]]
  /\ tx.pc = "updating" =>
       \A e \in tx.todo : (\A f \in tx.todo : received[e] <= received[f]) => e.type \in Rising
  /\ \A e \in AppliedBy(tx) :
       tx.calls[e.call] = Untouched => ~CanApply(calls[e.call], e.type)

RowsApart ==
  /\ \A d, f \in Drain : d # f => drains[d].rows \cap drains[f].rows = {}
  /\ \A d \in Drain : \A e \in drains[d].rows : Unapplied(e)

SerialInv ==
  /\ RowsApart
  /\ \A c \in ref : calls[c] \in Rest
  /\ \A d \in Drain : Orderly(drains[d]) /\ Serially(drains[d])

\* The more a call has risen, the fewer events still apply to it; between
\* transactions the guard of ADVANCE and can_apply agree.
LEMMA RestFacts ==
  /\ Rest \subseteq CallState /\ Rising \subseteq CallState /\ TERMINAL \subseteq Rest
  /\ \A s \in Rest, t \in CallState : CanApply(s, t) => t \in Rising
  /\ \A s \in Rest, t \in Rising : StillRises(s, t) <=> CanApply(s, t)
  /\ \A s, u \in Rest, t \in CallState : RANK[s] <= RANK[u] /\ CanApply(u, t) => CanApply(s, t)
  /\ \A t \in Rising : /\ Final(t) \in Rest /\ RANK[t] <= RANK[Final(t)]
                       /\ ~CanApply(Final(t), t)
<1>1. TERMINAL = {"COMPLETED", "FAILED", "CANCELLED", "ABANDONED"}
  BY CallStateFacts
<1>2. \A s \in TERMINAL : RANK[s] = 6
  BY CallStateFacts
<1>3. RANK["INITIATED"] = 2 /\ RANK["RINGING"] = 3 /\ RANK["ANSWERED"] = 4 /\ RANK["CONNECTED"] = 5
  BY DEF RANK, CallState
<1>4. /\ LEGAL_NEXT["INITIATED"] = {"RINGING", "ANSWERED"} \cup TERMINAL
      /\ LEGAL_NEXT["RINGING"] = {"ANSWERED"} \cup TERMINAL
      /\ LEGAL_NEXT["CONNECTED"] = TERMINAL
  BY DEF LEGAL_NEXT, CallState
<1>5. Rest \subseteq CallState /\ Rising \subseteq CallState /\ TERMINAL \subseteq Rest
  BY <1>1 DEF Rest, Rising, CallState
<1>6. \A s \in Rest, t \in CallState : CanApply(s, t) <=>
        \/ s = "INITIATED" /\ t \in {"RINGING", "ANSWERED"} \cup TERMINAL
        \/ s = "RINGING" /\ t \in {"ANSWERED"} \cup TERMINAL
        \/ s = "CONNECTED" /\ t \in TERMINAL
  <2>1. \A t \in CallState : CanApply("INITIATED", t) <=> t \in {"RINGING", "ANSWERED"} \cup TERMINAL
    BY <1>2, <1>3, <1>4 DEF CanApply, TERMINAL_RANK
  <2>2. \A t \in CallState : CanApply("RINGING", t) <=> t \in {"ANSWERED"} \cup TERMINAL
    BY <1>2, <1>3, <1>4 DEF CanApply, TERMINAL_RANK
  <2>3. \A t \in CallState : CanApply("CONNECTED", t) <=> t \in TERMINAL
    BY <1>2, <1>3, <1>4 DEF CanApply, TERMINAL_RANK
  <2>4. \A s \in TERMINAL, t \in CallState : ~CanApply(s, t)
    BY <1>2 DEF CanApply, TERMINAL_RANK
  <2>5. \A s \in TERMINAL : s # "INITIATED" /\ s # "RINGING" /\ s # "CONNECTED"
    BY <1>1
  <2> QED
    BY <2>1, <2>2, <2>3, <2>4, <2>5 DEF Rest
<1>7. \A s \in Rest, t \in CallState : CanApply(s, t) => t \in Rising
  BY <1>6 DEF Rising
<1>8. \A s \in Rest, t \in Rising : StillRises(s, t) <=> CanApply(s, t)
  <2> SUFFICES ASSUME NEW s \in Rest, NEW t \in Rising
               PROVE  StillRises(s, t) <=> CanApply(s, t)
    OBVIOUS
  <2>1. CanApply(s, t) <=>
        \/ s = "INITIATED" /\ t \in {"RINGING", "ANSWERED"} \cup TERMINAL
        \/ s = "RINGING" /\ t \in {"ANSWERED"} \cup TERMINAL
        \/ s = "CONNECTED" /\ t \in TERMINAL
    BY <1>5, <1>6
  <2>2. CASE t \in TERMINAL
    BY <1>2, <1>3, <2>1, <2>2 DEF Rest, StillRises
  <2>3. CASE t \in {"RINGING", "ANSWERED"}
    <3>1. t \notin TERMINAL
      BY <1>1, <2>3
    <3> QED
      BY <1>2, <1>3, <2>1, <2>3, <3>1 DEF Rest, StillRises
  <2> QED
    BY <2>2, <2>3 DEF Rising
<1>9. ASSUME NEW s \in Rest, NEW u \in Rest, NEW t \in CallState,
             RANK[s] <= RANK[u], CanApply(u, t)
      PROVE  CanApply(s, t)
  <2>1. CASE u \in TERMINAL
    BY <1>1, <1>6, <1>9, <2>1
  <2>2. CASE u = "INITIATED"
    <3>1. s = "INITIATED"
      BY <1>2, <1>3, <1>9, <2>2 DEF Rest
    <3> QED
      BY <1>9, <2>2, <3>1
  <2>3. CASE u = "RINGING"
    <3>1. s \in {"INITIATED", "RINGING"}
      BY <1>2, <1>3, <1>9, <2>3 DEF Rest
    <3> QED
      BY <1>6, <1>9, <2>3, <3>1
  <2>4. CASE u = "CONNECTED"
    <3>1. s \in {"INITIATED", "RINGING", "CONNECTED"}
      BY <1>2, <1>3, <1>9, <2>4 DEF Rest
    <3> QED
      BY <1>1, <1>6, <1>9, <2>4, <3>1
  <2> QED
    BY <2>1, <2>2, <2>3, <2>4 DEF Rest
<1>10. ASSUME NEW t \in Rising
       PROVE  Final(t) \in Rest /\ RANK[t] <= RANK[Final(t)] /\ ~CanApply(Final(t), t)
  <2>1. CASE t = "ANSWERED"
    <3>1. Final(t) = "CONNECTED"
      BY <2>1 DEF Final
    <3> QED
      BY <1>1, <1>3, <1>5, <1>6, <2>1, <3>1 DEF Rest
  <2>2. CASE t = "RINGING"
    <3>1. Final(t) = "RINGING"
      BY <2>2 DEF Final
    <3> QED
      BY <1>1, <1>3, <1>5, <1>6, <2>2, <3>1 DEF Rest
  <2>3. CASE t \in TERMINAL
    <3>1. Final(t) = t
      BY <1>1, <2>3 DEF Final
    <3> QED
      BY <1>1, <1>2, <1>5, <1>6, <2>3, <3>1 DEF Rest
  <2> QED
    BY <2>1, <2>2, <2>3 DEF Rising
<1> QED
  BY <1>5, <1>7, <1>8, <1>9, <1>10

\* A chain of rows is what SerialLedger computes.
LEMMA ChainIs ==
  ASSUME NEW c \in Call, NEW n \in Nat, NEW s, NEW r, Chain(c, s, n, r)
  PROVE  Serial!ApplyAll(c, s, n) = r[n]
<1> DEFINE start == [state |-> calls[c], bills |-> bills[c]]
           Rows(row) == row = [i \in 0 .. n |->
                                 IF i = 0 THEN start
                                 ELSE IF s[i].call = c THEN Serial!ApplyOne(row[i - 1], s[i])
                                 ELSE row[i - 1]]
           row == CHOOSE row : Rows(row)
           S == {i \in Nat : i <= n => row[i] = r[i]}
<1>1. Serial!ApplyAll(c, s, n) = row[n]
  BY DEF Serial!ApplyAll
<1>2. Rows(r)
  <2>1. r = [i \in 0 .. n |-> r[i]]
    BY DEF Chain
  <2>2. \A i \in 0 .. n : r[i] = IF i = 0 THEN start
                                 ELSE IF s[i].call = c THEN Serial!ApplyOne(r[i - 1], s[i])
                                 ELSE r[i - 1]
    BY DEF Chain, After
  <2> HIDE DEF start
  <2> QED
    BY <2>1, <2>2
<1>3. Rows(row)
  <2> HIDE DEF Rows
  <2> QED BY <1>2
<1> HIDE DEF row
<1>4. row[0] = r[0]
  BY <1>3 DEF Chain
<1>5. ASSUME NEW i \in Nat, i + 1 <= n, row[i] = r[i]
      PROVE  row[i + 1] = r[i + 1]
  <2>1. row[i + 1] = IF s[i + 1].call = c THEN Serial!ApplyOne(row[i], s[i + 1]) ELSE row[i]
    <3>1. i + 1 \in 0 .. n /\ i + 1 # 0 /\ (i + 1) - 1 = i
      BY <1>5
    <3> QED BY <1>3, <3>1
  <2>2. r[i + 1] = After(c, r[i], s[i + 1])
    <3>1. i + 1 \in 1 .. n /\ (i + 1) - 1 = i
      BY <1>5
    <3> QED BY <3>1 DEF Chain
  <2> QED
    BY <1>5, <2>1, <2>2 DEF After
<1>6. S = Nat
  <2>1. 0 \in S
    BY <1>4
  <2>2. \A i \in S : i + 1 \in S
    BY <1>5
  <2>3. S \in SUBSET Nat
    OBVIOUS
  <2> HIDE DEF S
  <2> QED BY <2>1, <2>2, <2>3, EveryNumber
<1> QED
  BY <1>1, <1>6

LEMMA SameTables ==
  /\ Serial!CallState = CallState /\ Serial!TERMINAL = TERMINAL
  /\ \A s, t : Serial!CanApply(s, t) <=> CanApply(s, t)
<1>1. Serial!CallState = CallState
  BY DEF Serial!CallState, CallState
<1>2. Serial!RANK = RANK /\ Serial!TERMINAL_RANK = TERMINAL_RANK
  BY <1>1 DEF Serial!RANK, RANK, Serial!TERMINAL_RANK, TERMINAL_RANK
<1>3. Serial!TERMINAL = TERMINAL
  BY <1>1, <1>2 DEF Serial!TERMINAL, TERMINAL
<1>4. Serial!LEGAL_NEXT = LEGAL_NEXT
  BY <1>1, <1>3 DEF Serial!LEGAL_NEXT, LEGAL_NEXT
<1> QED
  BY <1>1, <1>2, <1>3, <1>4 DEF Serial!CanApply, CanApply

LEMMA SameCounting ==
  /\ \A S : Serial!Cardinality(S) = Cardinality(S)
  /\ \A S, T : Serial!Bijection(S, T) = Bijection(S, T)
<1>1. \A S : Serial!Cardinality(S) = Cardinality(S)
  BY DEF Serial!Cardinality, Cardinality
<1>2. \A f : Serial!IsInjective(f) = IsInjective(f)
  BY DEF Serial!IsInjective, IsInjective
<1>3. \A S, T : Serial!Injection(S, T) = Injection(S, T)
  BY <1>2 DEF Serial!Injection, Injection
<1>4. \A S, T : Serial!Surjection(S, T) = Surjection(S, T)
  BY DEF Serial!Surjection, Surjection
<1>5. \A S, T : Serial!Bijection(S, T) = Bijection(S, T)
  BY <1>3, <1>4 DEF Serial!Bijection, Bijection
<1> QED
  BY <1>1, <1>5

LEMMA ApplyOneIs ==
  ASSUME NEW row \in Row, NEW e \in Event, Known(e)
  PROVE  /\ Serial!ApplyOne(row, e) \in Row
         /\ ~CanApply(row.state, e.type) => Serial!ApplyOne(row, e) = row
         /\ CanApply(row.state, e.type) =>
              Serial!ApplyOne(row, e) =
                [state |-> Final(e.type), bills |-> row.bills + Charge(Final(e.type))]
<1>1. e.type \in CallState
  BY DEF Known
<1>2. Final(e.type) \in CallState
  BY <1>1 DEF Final, CallState
<1>3. row.bills + Charge(Final(e.type)) \in Nat
  BY ChargeIs DEF Row
<1>4. CanApply(row.state, e.type) =>
        Serial!ApplyOne(row, e) =
          [state |-> Final(e.type), bills |-> row.bills + Charge(Final(e.type))]
  BY SameTables DEF Serial!ApplyOne, Final, Charge
<1>5. ~CanApply(row.state, e.type) => Serial!ApplyOne(row, e) = row
  BY SameTables DEF Serial!ApplyOne
<1> HIDE DEF Row
<1>6. [state |-> Final(e.type), bills |-> row.bills + Charge(Final(e.type))] \in Row
  BY <1>2, <1>3 DEF Row
<1> QED
  BY <1>4, <1>5, <1>6

\* One more event at the end of a bijection's range.
LEMMA OneMore ==
  ASSUME NEW n \in Nat, NEW S, NEW s \in Bijection(1 .. n, S), NEW e, e \notin S,
         NEW t, t = [i \in 1 .. (n + 1) |-> IF i = n + 1 THEN e ELSE s[i]]
  PROVE  t \in Bijection(1 .. (n + 1), S \cup {e})
<1>1. /\ s \in [1 .. n -> S] /\ \A i, j \in 1 .. n : s[i] = s[j] => i = j
      /\ \A x \in S : \E i \in 1 .. n : s[i] = x
  BY DEF Bijection, Injection, Surjection, IsInjective
<1>2. /\ DOMAIN t = 1 .. (n + 1) /\ t[n + 1] = e
      /\ \A i \in 1 .. n : t[i] = s[i] /\ i \in 1 .. (n + 1)
      /\ \A i \in 1 .. (n + 1) : i = n + 1 \/ i \in 1 .. n
  OBVIOUS
<1>3. t \in [1 .. (n + 1) -> S \cup {e}]
  BY <1>1
<1>4. \A i, j \in 1 .. (n + 1) : t[i] = t[j] => i = j
  BY <1>1, <1>2
<1>5. \A x \in S \cup {e} : \E i \in 1 .. (n + 1) : t[i] = x
  BY <1>1, <1>2
<1> QED
  BY <1>3, <1>4, <1>5 DEF Bijection, Injection, Surjection, IsInjective

\* The chain of a call goes on with one more event.
LEMMA GoesOn ==
  ASSUME NEW tx, NEW new, NEW e \in Event, Known(e), Serially(tx), e \notin AppliedBy(tx),
         AppliedBy(new) = AppliedBy(tx) \cup {e},
         \A c \in Call : Version(new, c) = After(c, Version(tx, c), e)
  PROVE  Serially(new)
<1>1. PICK n \in Nat : \E s \in Bijection(1 .. n, AppliedBy(tx)) :
        \A c \in Call : \E r : Chain(c, s, n, r) /\ r[n] = Version(tx, c)
  BY DEF Serially
<1>1a. PICK s \in Bijection(1 .. n, AppliedBy(tx)) :
        \A c \in Call : \E r : Chain(c, s, n, r) /\ r[n] = Version(tx, c)
  BY <1>1
<1> DEFINE t == [i \in 1 .. (n + 1) |-> IF i = n + 1 THEN e ELSE s[i]]
<1>2. t \in Bijection(1 .. (n + 1), AppliedBy(new))
  BY OneMore
<1>3. t[n + 1] = e /\ \A i \in 1 .. n : t[i] = s[i]
  OBVIOUS
<1> HIDE DEF t
<1>4. ASSUME NEW c \in Call
      PROVE  \E r : Chain(c, t, n + 1, r) /\ r[n + 1] = Version(new, c)
  <2>1. PICK r : Chain(c, s, n, r) /\ r[n] = Version(tx, c)
    BY <1>1a
  <2> DEFINE last == After(c, r[n], e)
             q == [i \in 0 .. (n + 1) |-> IF i = n + 1 THEN last ELSE r[i]]
  <2>2. r[n] \in Row /\ r \in [0 .. n -> Row]
    BY <2>1 DEF Chain
  <2>3. last \in Row
    BY <2>2, ApplyOneIs DEF After
  <2>4. last = Version(new, c)
    BY <2>1
  <2> HIDE DEF last
  <2>5. q \in [0 .. (n + 1) -> Row] /\ q[n + 1] = last /\ \A i \in 0 .. n : q[i] = r[i]
    BY <2>2, <2>3
  <2> HIDE DEF q
  <2>6. ASSUME NEW i \in 1 .. (n + 1) PROVE q[i] = After(c, q[i - 1], t[i])
    <3>1. CASE i = n + 1
      <4>1. q[i - 1] = r[n] /\ q[i] = last /\ t[i] = e
        BY <1>3, <2>5, <3>1
      <4> QED BY <4>1 DEF last
    <3>2. CASE i # n + 1
      <4>1. i \in 1 .. n /\ i \in 0 .. n /\ i - 1 \in 0 .. n
        BY <3>2
      <4>2. q[i - 1] = r[i - 1] /\ q[i] = r[i] /\ t[i] = s[i]
        BY <1>3, <2>5, <4>1
      <4>3. r[i] = After(c, r[i - 1], s[i])
        BY <2>1, <4>1 DEF Chain
      <4> QED BY <4>2, <4>3
    <3> QED BY <3>1, <3>2
  <2>7. q[0] = [state |-> calls[c], bills |-> bills[c]]
    BY <2>1, <2>5 DEF Chain
  <2>8. Chain(c, t, n + 1, q)
    BY <2>5, <2>6, <2>7 DEF Chain
  <2> QED
    BY <2>4, <2>5, <2>8
<1>5. \E m \in Nat : \E u \in Bijection(1 .. m, AppliedBy(new)) : \A c \in Call :
        \E r : Chain(c, u, m, r) /\ r[m] = Version(new, c)
  <2>1. n + 1 \in Nat
    OBVIOUS
  <2> QED
    BY <1>2, <1>4, <2>1
<1> QED
  BY <1>5 DEF Serially

\* A transaction's chain starts again from a call that changed under it: what it
\* applied to it does nothing, now as before.
LEMMA Restart ==
  ASSUME LedgerTypes', NEW d \in Drain, NEW tx, drains'[d] = tx, Serially(tx), Orderly(tx),
         \A c \in Call :
           \/ calls'[c] = calls[c] /\ bills'[c] = bills[c]
           \/ /\ tx.calls[c] = Untouched /\ tx.bills[c] = 0
              /\ \A e \in AppliedBy(tx) : e.call = c => ~CanApply(calls'[c], e.type)
  PROVE  Serially(drains[d])'
<1>0. AppliedBy(drains[d])' = AppliedBy(tx)
  BY DEF AppliedBy
<1>1. PICK n \in Nat : \E s \in Bijection(1 .. n, AppliedBy(tx)) :
        \A c \in Call : \E r : Chain(c, s, n, r) /\ r[n] = Version(tx, c)
  BY DEF Serially
<1>1a. PICK s \in Bijection(1 .. n, AppliedBy(tx)) :
        \A c \in Call : \E r : Chain(c, s, n, r) /\ r[n] = Version(tx, c)
  BY <1>1
<1>2. ASSUME NEW c \in Call
      PROVE  \E r : Chain(c, s, n, r)' /\ r[n] = Version(drains[d], c)'
  <2>1. CASE calls'[c] = calls[c] /\ bills'[c] = bills[c]
    <3>1. PICK r : Chain(c, s, n, r) /\ r[n] = Version(tx, c)
      BY <1>1a
    <3>2. Chain(c, s, n, r)'
      BY <2>1, <3>1 DEF Chain, After, Serial!ApplyOne
    <3>3. r[n] = Version(drains[d], c)'
      BY <2>1, <3>1 DEF Version
    <3> QED BY <3>2, <3>3
  <2>2. CASE /\ tx.calls[c] = Untouched /\ tx.bills[c] = 0
             /\ \A e \in AppliedBy(tx) : e.call = c => ~CanApply(calls'[c], e.type)
    <3>. PICK row : row = [state |-> calls'[c], bills |-> bills'[c]]
      OBVIOUS
    <3>. PICK r : r = [i \in 0 .. n |-> row]
      OBVIOUS
    <3>1. row \in Row
      BY DEF LedgerTypes, Row
    <3>3. Version(drains[d], c)' = row
      <4>1. bills'[c] + 0 = bills'[c]
        BY DEF LedgerTypes
      <4> QED BY <2>2, <4>1 DEF Version
    <3>4. \A i \in 1 .. n : s[i] \in AppliedBy(tx)
      BY <1>1a DEF Bijection, Injection
    <3>5. row.state = calls'[c]
      OBVIOUS
    <3>6. ASSUME NEW i \in 1 .. n PROVE row = After(c, row, s[i])
      <4>1. s[i] \in AppliedBy(tx) /\ s[i] \in Event /\ Known(s[i])
        BY <3>4 DEF AppliedBy, Orderly
      <4>2. s[i].call = c => ~CanApply(row.state, s[i].type)
        BY <2>2, <3>5, <4>1
      <4> QED BY <3>1, <4>1, <4>2, ApplyOneIs DEF After
    <3>7. r \in [0 .. n -> Row] /\ \A i \in 0 .. n : r[i] = row
      BY <3>1
    <3>8. \A i \in 1 .. n : r[i] = After(c, r[i - 1], s[i])
      <4>1. \A i \in 1 .. n : i - 1 \in 0 .. n /\ i \in 0 .. n
        OBVIOUS
      <4> QED BY <3>6, <3>7, <4>1
    <3>9. \A i \in 1 .. n : r[i] = After(c, r[i - 1], s[i])'
      BY <3>8 DEF After, Serial!ApplyOne
    <3>10. r[0] = row /\ r[n] = row
      BY <3>7
    <3>11. Chain(c, s, n, r)'
      BY <3>7, <3>9, <3>10 DEF Chain
    <3> QED
      BY <3>3, <3>10, <3>11
  <2> QED BY <2>1, <2>2
<1> QED
  BY <1>0, <1>2 DEF Serially

LEMMA FreshIs ==
  ASSUME NEW tx \in TxRow, \A c \in Call : tx.calls[c] = Untouched /\ tx.bills[c] = 0,
         \A e \in Event : tx.marks[e] = Untouched, tx.pc # "updating", DInv
  PROVE  Orderly(tx) /\ Serially(tx)
<1>1. AppliedBy(tx) = {}
  BY DrainAssumption DEF AppliedBy
<1>2. Orderly(tx)
  BY <1>1 DEF Orderly
<1> DEFINE s == [i \in 1 .. 0 |-> i]
<1>3. s \in Bijection(1 .. 0, {})
  BY DEF Bijection, Injection, Surjection, IsInjective
<1> HIDE DEF s
<1>4. ASSUME NEW c \in Call
      PROVE  \E r : Chain(c, s, 0, r) /\ r[0] = Version(tx, c)
  <2> DEFINE row == [state |-> calls[c], bills |-> bills[c]]
             r == [i \in 0 .. 0 |-> row]
  <2>1. row \in Row /\ bills[c] + 0 = bills[c]
    BY DEF DInv, LedgerTypes, Row
  <2>2. Version(tx, c) = row
    BY <2>1 DEF Version
  <2> HIDE DEF row
  <2>3. r \in [0 .. 0 -> Row] /\ r[0] = row
    BY <2>1
  <2>4. Chain(c, s, 0, r)
    BY <2>3 DEF Chain, row
  <2> QED BY <2>2, <2>3, <2>4
<1> QED
  BY <1>1, <1>2, <1>3, <1>4 DEF Serially

\* What a transaction of the invariant is.
LEMMA STxOf ==
  ASSUME DInv, SerialInv, NEW d \in Drain
  PROVE  /\ Orderly(drains[d]) /\ Serially(drains[d])
         /\ \A f \in Drain \ {d} : drains[d].rows \cap drains[f].rows = {}
         /\ \A e \in drains[d].rows : Unapplied(e)
BY DEF SerialInv, RowsApart

\* A drain's transaction goes on.
LEMMA STxStep ==
  ASSUME DInv, SerialInv, NEW d \in Drain, NEW tx \in TxRow, drains' = [drains EXCEPT ![d] = tx],
         UNCHANGED <<calls, bills, ref, ledger, received, old>>, crashes' \in Nat,
         \A f \in Drain \ {d} : tx.rows \cap drains[f].rows = {},
         \A e \in tx.rows : Unapplied(e),
         Orderly(tx), Serially(tx)
  PROVE  SerialInv' /\ UNCHANGED Serial!serialVars
<1>1. /\ drains'[d] = tx
      /\ \A f \in Drain \ {d} : drains'[f] = drains[f]
  BY DEF DInv, TxTypes
<1>2. RowsApart'
  BY <1>1 DEF SerialInv, RowsApart, Unapplied
<1>3. ASSUME NEW f \in Drain PROVE Orderly(drains[f])'
  <2>1. PICK row : row = drains'[f] /\ Orderly(row)
    BY <1>1, STxOf
  <2>2. AppliedBy(drains[f])' = AppliedBy(row)
    BY <2>1 DEF AppliedBy
  <2> DEFINE now == drains'[f]
  <2>3. \A e \in Event : now.marks[e] # Untouched => e \in now.rows \ now.todo
    BY <2>1 DEF Orderly
  <2>4. /\ \A e \in AppliedBy(row) : Known(e) /\ e.call \in ref'
        /\ \A e \in AppliedBy(row) :
             now.calls[e.call] = Untouched => ~CanApply(calls'[e.call], e.type)
    BY <2>1 DEF Orderly
  <2>5. \A c \in Call : now.calls[c] # Untouched =>
       now.calls[c] \in Rest /\ RANK[calls'[c]] <= RANK[now.calls[c]]
    BY <2>1 DEF Orderly
  <2>6. now.pc = "updating" =>
       \A e \in now.todo : (\A g \in now.todo : received'[e] <= received'[g]) => e.type \in Rising
    BY <2>1 DEF Orderly
  <2> QED
    BY <2>2, <2>3, <2>4, <2>5, <2>6 DEF Orderly
<1>4. ASSUME NEW f \in Drain PROVE Serially(drains[f])'
  <2>1. PICK row : row = drains'[f] /\ Orderly(row) /\ Serially(row)
    BY <1>1, STxOf
  <2>2. LedgerTypes'
    BY DEF DInv, LedgerTypes
  <2> QED
    BY <2>1, <2>2, Restart
<1>5. UNCHANGED Serial!serialVars
  BY DEF Serial!serialVars
<1> QED
  BY <1>2, <1>3, <1>4, <1>5 DEF SerialInv

LEMMA SFetchStep ==
  ASSUME DInv, SerialInv, NEW d \in Drain, Fetch(d)
  PROVE  SerialInv' /\ UNCHANGED Serial!serialVars
<1>1. PICK batch \in SUBSET Event :
        /\ \A e \in batch : Unapplied(e) /\ ~EventLocked(e)
        /\ drains' = [drains EXCEPT ![d] =
                        [NoTransaction EXCEPT !.pc = "reading", !.rows = batch, !.todo = batch]]
  BY DEF Fetch
<1>2. UNCHANGED <<calls, bills, ref, ledger, received, old>> /\ crashes' \in Nat
  BY DEF Fetch, DInv, LedgerTypes
<1> DEFINE tx == [NoTransaction EXCEPT !.pc = "reading", !.rows = batch, !.todo = batch]
<1>3. tx \in TxRow
  BY NoTransactionIs DEF TxRow
<1>4. tx.pc = "reading" /\ tx.rows = batch /\ tx.todo = batch /\ tx.marks = NoTransaction.marks
  BY NoTransactionIs DEF TxRow
<1>5. tx.calls = NoTransaction.calls /\ tx.bills = NoTransaction.bills
  BY NoTransactionIs DEF TxRow
<1>6. drains' = [drains EXCEPT ![d] = tx]
  BY <1>1
<1> HIDE DEF tx
<1>7. Orderly(tx) /\ Serially(tx)
  BY <1>3, <1>4, <1>5, NoTransactionIs, FreshIs
<1>8. /\ \A f \in Drain \ {d} : tx.rows \cap drains[f].rows = {}
      /\ \A e \in tx.rows : Unapplied(e)
  BY <1>1, <1>4 DEF EventLocked
<1> QED
  BY <1>2, <1>3, <1>6, <1>7, <1>8, STxStep

LEMMA DoneMarks ==
  ASSUME NEW tx \in TxRow, NEW e \in Event, NEW mark \in {Untouched, "unknown", "applied"}
  PROVE  /\ Done(tx, e, mark).marks[e] = mark
         /\ \A f \in Event \ {e} : Done(tx, e, mark).marks[f] = tx.marks[f]
BY DEF Done, TxRow

\* The next event is not marked yet, and is the transaction's own.
LEMMA NextIs ==
  ASSUME DInv, SerialInv, NEW d \in Drain, NEW e \in Event, IsNext(d, e)
  PROVE  /\ e \in drains[d].todo /\ e \in drains[d].rows /\ drains[d].marks[e] = Untouched
         /\ e \notin AppliedBy(drains[d])
         /\ drains[d].pc = "updating" => e.type \in Rising
<1>1. e \in drains[d].todo /\ \A f \in drains[d].todo : received[e] <= received[f]
  BY DEF IsNext
<1>2. drains[d].marks[e] = Untouched
  BY <1>1, STxOf DEF Orderly
<1> QED
  BY <1>1, <1>2, TxOf, STxOf, DrainAssumption DEF Orderly, AppliedBy

\* An event left alone, or marked as one of an unknown call.
LEMMA SPassStep ==
  ASSUME DInv, SerialInv, NEW d \in Drain, NEW e \in Event, IsNext(d, e),
         NEW mark \in {Untouched, "unknown"},
         drains' = [drains EXCEPT ![d] = Done(drains[d], e, mark)],
         UNCHANGED <<calls, bills, ref, ledger, received, old, crashes>>
  PROVE  SerialInv' /\ UNCHANGED Serial!serialVars
<1> DEFINE from == drains[d]
           tx == Done(from, e, mark)
<1>1. drains' = [drains EXCEPT ![d] = tx] /\ from \in TxRow /\ crashes' \in Nat
  BY TxOf DEF DInv, LedgerTypes
<1>2. /\ tx \in TxRow /\ tx.pc = "reading" /\ tx.todo = from.todo \ {e}
      /\ tx.rows = from.rows /\ tx.calls = from.calls /\ tx.bills = from.bills
  BY <1>1, DoneIs
<1>3. tx.marks[e] = mark /\ \A f \in Event \ {e} : tx.marks[f] = from.marks[f]
  BY <1>1, DoneMarks
<1> HIDE DEF tx
<1>4. AppliedBy(tx) = AppliedBy(from)
  BY <1>3, NextIs, DrainAssumption DEF AppliedBy
<1>5. Orderly(tx)
  BY <1>2, <1>3, <1>4, NextIs, STxOf DEF Orderly
<1>6. Serially(tx)
  BY <1>2, <1>4, STxOf DEF Serially, Version
<1>7. /\ \A f \in Drain \ {d} : tx.rows \cap drains[f].rows = {}
      /\ \A f \in tx.rows : Unapplied(f)
  BY <1>2, STxOf
<1> QED
  BY <1>1, <1>2, <1>5, <1>6, <1>7, STxStep

\* An event of a recorded call is marked applied, with what it does to the call.
LEMMA SAppliedStep ==
  ASSUME DInv, SerialInv, NEW d \in Drain, NEW e \in Event, IsNext(d, e), e.call \in ref, Known(e),
         NEW tx \in TxRow, drains' = [drains EXCEPT ![d] = tx],
         UNCHANGED <<calls, bills, ref, ledger, received, old, crashes>>,
         tx.pc = "reading", tx.todo = drains[d].todo \ {e}, tx.rows = drains[d].rows,
         tx.marks = Done(drains[d], e, "applied").marks,
         \A o \in Call \ {e.call} :
           tx.calls[o] = drains[d].calls[o] /\ tx.bills[o] = drains[d].bills[o],
         Version(tx, e.call) = Serial!ApplyOne(Version(drains[d], e.call), e),
         tx.calls[e.call] = Untouched =>
           drains[d].calls[e.call] = Untouched /\ ~CanApply(calls[e.call], e.type),
         tx.calls[e.call] # Untouched =>
           tx.calls[e.call] \in Rest /\ RANK[calls[e.call]] <= RANK[tx.calls[e.call]]
  PROVE  SerialInv' /\ UNCHANGED Serial!serialVars
<1> DEFINE from == drains[d]
           c == e.call
<1>1. from \in TxRow /\ c \in Call /\ crashes' \in Nat
  BY TxOf, EventCalls DEF DInv, LedgerTypes
<1>2. tx.marks[e] = "applied" /\ \A f \in Event \ {e} : tx.marks[f] = from.marks[f]
  BY <1>1, DoneMarks
<1>3. AppliedBy(tx) = AppliedBy(from) \cup {e}
  BY <1>2 DEF AppliedBy
<1>4. Orderly(tx)
  <2>1. \A f \in Event : tx.marks[f] # Untouched => f \in tx.rows \ tx.todo
    BY <1>2, NextIs, STxOf DEF Orderly
  <2>2. \A f \in AppliedBy(tx) : Known(f) /\ f.call \in ref
    BY <1>3, STxOf DEF Orderly
  <2>3. \A o \in Call : tx.calls[o] # Untouched =>
          tx.calls[o] \in Rest /\ RANK[calls[o]] <= RANK[tx.calls[o]]
    BY STxOf DEF Orderly
  <2>4. ASSUME NEW f \in AppliedBy(tx), tx.calls[f.call] = Untouched
        PROVE  ~CanApply(calls[f.call], f.type)
    <3>1. f \in Event /\ f.call \in Call
      BY EventCalls DEF AppliedBy
    <3>2. CASE f = e
      BY <2>4, <3>2
    <3>3. CASE f # e
      <4>1. f \in AppliedBy(from) /\ from.calls[f.call] = Untouched
        BY <1>3, <2>4, <3>1, <3>3
      <4> QED
        BY <4>1, STxOf DEF Orderly
    <3> QED
      BY <3>2, <3>3
  <2> QED
    BY <2>1, <2>2, <2>3, <2>4 DEF Orderly
<1>5. Serially(tx)
  <2>1. Serially(from) /\ e \notin AppliedBy(from)
    BY STxOf, NextIs
  <2>2. ASSUME NEW o \in Call
        PROVE  Version(tx, o) = After(o, Version(from, o), e)
    <3>1. CASE o = c
      BY <3>1 DEF After
    <3>2. CASE o # c
      BY <3>2 DEF After, Version
    <3> QED
      BY <3>1, <3>2
  <2> QED
    BY <1>3, <2>1, <2>2, GoesOn
<1>6. /\ \A f \in Drain \ {d} : tx.rows \cap drains[f].rows = {}
      /\ \A f \in tx.rows : Unapplied(f)
  BY STxOf
<1> QED
  BY <1>1, <1>4, <1>5, <1>6, STxStep

LEMMA VersionIs ==
  ASSUME DInv, SerialInv, NEW d \in Drain, NEW c \in Call
  PROVE  /\ Version(drains[d], c) \in Row
         /\ Version(drains[d], c).state = Sees(d, c)
         /\ Version(drains[d], c).bills = bills[c] + drains[d].bills[c]
         /\ Sees(d, c) \in CallState
         /\ c \in ref => Sees(d, c) \in Rest
<1>1. drains[d] \in TxRow /\ bills[c] \in Nat /\ calls[c] \in CallState
  BY TxOf DEF DInv, LedgerTypes
<1>2. Sees(d, c) \in CallState
  BY <1>1 DEF Sees, Holds, TxRow
<1>3. bills[c] + drains[d].bills[c] \in Nat
  BY <1>1 DEF TxRow
<1>4. Version(drains[d], c) = [state |-> Sees(d, c), bills |-> bills[c] + drains[d].bills[c]]
  BY DEF Version, Sees, Holds
<1>5. c \in ref => Sees(d, c) \in Rest
  BY STxOf DEF Sees, Holds, Orderly, SerialInv
<1> QED
  BY <1>2, <1>3, <1>4, <1>5 DEF Row

\* An event that does not raise the call as the transaction sees it.
LEMMA SStaleStep ==
  ASSUME DInv, SerialInv, NEW d \in Drain, NEW e \in Event, IsNext(d, e), e.call \in ref, Known(e),
         ~CanApply(Sees(d, e.call), e.type),
         drains' = [drains EXCEPT ![d] = Done(drains[d], e, "applied")],
         UNCHANGED <<calls, bills, ref, ledger, received, old, crashes>>
  PROVE  SerialInv' /\ UNCHANGED Serial!serialVars
<1> DEFINE c == e.call
           tx == Done(drains[d], e, "applied")
<1>1. drains[d] \in TxRow /\ c \in Call
  BY TxOf, EventCalls
<1>2. /\ tx \in TxRow /\ tx.pc = "reading" /\ tx.todo = drains[d].todo \ {e}
      /\ tx.rows = drains[d].rows /\ tx.calls = drains[d].calls /\ tx.bills = drains[d].bills
  BY <1>1, DoneIs
<1>3. drains' = [drains EXCEPT ![d] = tx] /\ tx.marks = Done(drains[d], e, "applied").marks
  OBVIOUS
<1> HIDE DEF tx
<1>4. Version(tx, c) = Serial!ApplyOne(Version(drains[d], c), e)
  <2>1. Version(tx, c) = Version(drains[d], c)
    BY <1>2 DEF Version
  <2> QED
    BY <1>1, <2>1, VersionIs, ApplyOneIs
<1>5. /\ tx.calls[c] = Untouched =>
           drains[d].calls[c] = Untouched /\ ~CanApply(calls[c], e.type)
      /\ tx.calls[c] # Untouched =>
           tx.calls[c] \in Rest /\ RANK[calls[c]] <= RANK[tx.calls[c]]
  BY <1>1, <1>2, STxOf DEF Sees, Holds, Orderly
<1> QED
  BY <1>2, <1>3, <1>4, <1>5, SAppliedStep

LEMMA SReadStep ==
  ASSUME DInv, SerialInv, NEW d \in Drain, Read(d)
  PROVE  SerialInv' /\ UNCHANGED Serial!serialVars
<1>0. UNCHANGED <<calls, bills, ref, ledger, received, old, crashes>>
  BY DEF Read
<1>1. PICK e \in Event :
        /\ IsNext(d, e)
        /\ \/ drains' = [drains EXCEPT ![d] = Done(drains[d], e, "unknown")]
           \/ drains' = [drains EXCEPT ![d] = Done(drains[d], e, Untouched)]
           \/ /\ e.call \in ref /\ Known(e) /\ ~CanApply(Sees(d, e.call), e.type)
              /\ drains' = [drains EXCEPT ![d] = Done(drains[d], e, "applied")]
           \/ /\ e.call \in ref /\ Known(e) /\ CanApply(Sees(d, e.call), e.type)
              /\ drains' = [drains EXCEPT ![d].pc = "updating"]
  BY DEF Read
<1>2. CASE drains' = [drains EXCEPT ![d] = Done(drains[d], e, "unknown")]
  BY <1>0, <1>1, <1>2, SPassStep
<1>3. CASE drains' = [drains EXCEPT ![d] = Done(drains[d], e, Untouched)]
  BY <1>0, <1>1, <1>3, SPassStep
<1>4. CASE /\ e.call \in ref /\ Known(e) /\ ~CanApply(Sees(d, e.call), e.type)
           /\ drains' = [drains EXCEPT ![d] = Done(drains[d], e, "applied")]
  BY <1>0, <1>1, <1>4, SStaleStep
<1>5. CASE /\ e.call \in ref /\ Known(e) /\ CanApply(Sees(d, e.call), e.type)
           /\ drains' = [drains EXCEPT ![d].pc = "updating"]
  <2> DEFINE tx == [drains[d] EXCEPT !.pc = "updating"]
  <2>1. drains' = [drains EXCEPT ![d] = tx] /\ drains[d] \in TxRow /\ crashes' \in Nat
    BY <1>0, <1>5, TxOf DEF DInv, LedgerTypes
  <2>2. /\ tx \in TxRow /\ tx.todo = drains[d].todo /\ tx.rows = drains[d].rows
        /\ tx.marks = drains[d].marks
    BY <2>1 DEF TxRow
  <2>3. tx.calls = drains[d].calls /\ tx.bills = drains[d].bills
    BY <2>1 DEF TxRow
  <2> HIDE DEF tx
  <2>4. AppliedBy(tx) = AppliedBy(drains[d])
    BY <2>2 DEF AppliedBy
  <2>5. e.type \in Rising
    BY <1>5, VersionIs, EventCalls, RestFacts DEF Known
  <2>6. ASSUME NEW f \in tx.todo, \A g \in tx.todo : received[f] <= received[g]
        PROVE  f.type \in Rising
    <3>1. /\ e \in tx.todo /\ f \in Event
          /\ received[e] <= received[f] /\ received[f] <= received[e]
      BY <1>1, <2>1, <2>2, <2>6 DEF IsNext, TxRow
    <3>2. received[e] \in Nat /\ received[f] \in Nat
      BY <3>1 DEF DInv, LedgerTypes
    <3>3. received[e] = received[f]
      BY <3>1, <3>2
    <3>4. f = e
      BY <3>1, <3>3 DEF DInv, LedgerTypes
    <3> QED
      BY <2>5, <3>4
  <2>7. Orderly(tx)
    BY <2>2, <2>3, <2>4, <2>6, STxOf DEF Orderly
  <2>8. Serially(tx)
    BY <2>3, <2>4, STxOf DEF Serially, Version
  <2>9. /\ \A f \in Drain \ {d} : tx.rows \cap drains[f].rows = {}
        /\ \A f \in tx.rows : Unapplied(f)
    BY <2>2, STxOf
  <2> QED
    BY <1>0, <2>1, <2>2, <2>7, <2>8, <2>9, STxStep
<1> QED
  BY <1>1, <1>2, <1>3, <1>4, <1>5

LEMMA SUpdateStep ==
  ASSUME DInv, SerialInv, NEW d \in Drain, Update(d)
  PROVE  SerialInv' /\ UNCHANGED Serial!serialVars
<1>0. /\ UNCHANGED <<calls, bills, ref, ledger, received, old, crashes>>
      /\ drains[d].pc = "updating"
  BY DEF Update
<1>1. PICK e \in Event :
        /\ IsNext(d, e)
        /\ \/ /\ StillRises(Sees(d, e.call), e.type)
              /\ drains' = [drains EXCEPT ![d] =
                              Advanced(Done(drains[d], e, "applied"), e.call, Final(e.type))]
           \/ /\ ~StillRises(Sees(d, e.call), e.type)
              /\ drains' = [drains EXCEPT ![d] = Done(drains[d], e, "applied")]
  BY DEF Update
<1> DEFINE c == e.call
<1>2. c \in Call /\ drains[d] \in TxRow
  BY EventCalls, TxOf
<1>3. c \in ref /\ Known(e)
  BY <1>0, <1>1, TxOf DEF Applying, IsNext
<1>4. e.type \in Rising /\ Sees(d, c) \in Rest
  BY <1>0, <1>1, <1>2, <1>3, NextIs, VersionIs
<1>5. StillRises(Sees(d, c), e.type) <=> CanApply(Sees(d, c), e.type)
  BY <1>4, RestFacts
<1>6. CASE /\ ~StillRises(Sees(d, c), e.type)
           /\ drains' = [drains EXCEPT ![d] = Done(drains[d], e, "applied")]
  BY <1>0, <1>1, <1>3, <1>5, <1>6, SStaleStep
<1>7. CASE /\ StillRises(Sees(d, c), e.type)
           /\ drains' = [drains EXCEPT ![d] =
                           Advanced(Done(drains[d], e, "applied"), c, Final(e.type))]
  <2> DEFINE done == Done(drains[d], e, "applied")
             tx == Advanced(done, c, Final(e.type))
  <2>1. drains' = [drains EXCEPT ![d] = tx]
    BY <1>7
  <2>2. Final(e.type) \in Rest /\ Final(e.type) \in CallState
    BY <1>4, RestFacts
  <2>3. /\ done \in TxRow /\ done.pc = "reading" /\ done.todo = drains[d].todo \ {e}
        /\ done.rows = drains[d].rows /\ done.calls = drains[d].calls
        /\ done.bills = drains[d].bills
    BY <1>2, DoneIs
  <2>4. tx.marks = done.marks
    <3> HIDE DEF done
    <3> QED
      BY <2>3 DEF Advanced, TxRow
  <2>5. /\ tx \in TxRow /\ tx.pc = "reading" /\ tx.todo = done.todo /\ tx.rows = done.rows
        /\ tx.calls[c] = Final(e.type) /\ tx.bills[c] = done.bills[c] + Charge(Final(e.type))
        /\ \A o \in Call \ {c} : tx.calls[o] = done.calls[o] /\ tx.bills[o] = done.bills[o]
    <3> HIDE DEF done
    <3> QED
      BY <1>2, <2>2, <2>3, AdvancedIs
  <2> HIDE DEF tx
  <2>6. tx.calls[c] # Untouched
    BY <2>2, <2>5, CallStateFacts
  <2>7. Version(tx, c) = Serial!ApplyOne(Version(drains[d], c), e)
    <3>1. Serial!ApplyOne(Version(drains[d], c), e) =
            [state |-> Final(e.type),
             bills |-> (bills[c] + drains[d].bills[c]) + Charge(Final(e.type))]
      BY <1>2, <1>3, <1>5, <1>7, VersionIs, ApplyOneIs
    <3>2. (bills[c] + drains[d].bills[c]) + Charge(Final(e.type)) = bills[c] + tx.bills[c]
      <4>1. /\ bills[c] \in Nat /\ drains[d].bills[c] \in Nat /\ Charge(Final(e.type)) \in Nat
            /\ tx.bills[c] = drains[d].bills[c] + Charge(Final(e.type))
        BY <1>2, <2>3, <2>5, ChargeIs DEF DInv, LedgerTypes, TxRow
      <4> QED
        BY <4>1
    <3> QED
      BY <2>5, <2>6, <3>1, <3>2 DEF Version
  <2>8. RANK[calls[c]] <= RANK[tx.calls[c]]
    <3>1. RANK[calls[c]] <= RANK[Sees(d, c)]
      <4>1. calls[c] \in CallState
        BY <1>2 DEF DInv, LedgerTypes
      <4>2. RANK[calls[c]] \in 0 .. 6
        BY <4>1, CallStateFacts
      <4> QED
        BY <1>2, <4>2, STxOf DEF Orderly, Sees, Holds
    <3>2. RANK[Sees(d, c)] < RANK[e.type] /\ RANK[e.type] <= RANK[Final(e.type)]
      BY <1>4, <1>7, RestFacts DEF StillRises
    <3>3. /\ RANK[calls[c]] \in Nat /\ RANK[Sees(d, c)] \in Nat
          /\ RANK[e.type] \in Nat /\ RANK[Final(e.type)] \in Nat
      <4>1. \A s \in CallState : RANK[s] \in Nat
        BY CallStateFacts
      <4>2. /\ calls[c] \in CallState /\ Sees(d, c) \in CallState
            /\ e.type \in CallState /\ Final(e.type) \in CallState
        BY <1>2, <1>4, <2>2, RestFacts DEF DInv, LedgerTypes
      <4> QED
        BY <4>1, <4>2
    <3>4. RANK[calls[c]] <= RANK[Final(e.type)]
      BY <3>1, <3>2, <3>3
    <3> QED
      BY <2>5, <3>4
  <2>9. /\ tx.todo = drains[d].todo \ {e} /\ tx.rows = drains[d].rows
        /\ tx.marks = Done(drains[d], e, "applied").marks
        /\ \A o \in Call \ {c} :
             tx.calls[o] = drains[d].calls[o] /\ tx.bills[o] = drains[d].bills[o]
    BY <2>3, <2>4, <2>5
  <2> HIDE DEF done
  <2>10. tx.calls[c] \in Rest
    BY <2>2, <2>5
  <2> QED
    BY <1>0, <1>1, <1>3, <2>1, <2>5, <2>6, <2>7, <2>8, <2>9, <2>10, SAppliedStep
<1> QED
  BY <1>1, <1>6, <1>7

LEMMA SAbortStep ==
  ASSUME DInv, SerialInv, NEW d \in Drain, Abort(d),
         UNCHANGED <<calls, bills, ref, ledger, received, old>>, crashes' \in Nat
  PROVE  SerialInv' /\ UNCHANGED Serial!serialVars
<1>1. Orderly(NoTransaction) /\ Serially(NoTransaction)
  BY NoTransactionIs, FreshIs
<1>2. /\ \A f \in Drain \ {d} : NoTransaction.rows \cap drains[f].rows = {}
      /\ \A e \in NoTransaction.rows : Unapplied(e)
  BY NoTransactionIs
<1> QED
  BY <1>1, <1>2, NoTransactionIs, STxStep DEF Abort

\* A transaction that waits while calls it has no version of rise.
LEMMA SWaitStep ==
  ASSUME DInv, DInv', SerialInv, NEW d \in Drain, drains'[d] = drains[d], UNCHANGED received,
         ref \subseteq ref', \A c \in ref' : calls'[c] \in Rest,
         \A c \in Call :
           \/ calls'[c] = calls[c] /\ bills'[c] = bills[c]
           \/ ~Holds(d, c) /\ (c \in ref => RANK[calls[c]] <= RANK[calls'[c]])
  PROVE  Orderly(drains[d])' /\ Serially(drains[d])'
<1>1. PICK tx : tx = drains[d]
  OBVIOUS
<1>2. Orderly(tx) /\ Serially(tx) /\ drains'[d] = tx
  BY <1>1, STxOf
<1>3. ASSUME NEW e \in AppliedBy(tx), tx.calls[e.call] = Untouched
      PROVE  ~CanApply(calls'[e.call], e.type)
  <2> DEFINE c == e.call
  <2>1. c \in Call /\ c \in ref /\ e.type \in CallState
    BY <1>2, EventCalls DEF AppliedBy, Orderly, Known
  <2>2. ~CanApply(calls[c], e.type)
    BY <1>2, <1>3 DEF Orderly
  <2>3. calls[c] \in Rest /\ calls'[c] \in Rest
    BY <2>1 DEF SerialInv
  <2>4. calls'[c] = calls[c] \/ RANK[calls[c]] <= RANK[calls'[c]]
    BY <2>1
  <2> QED
    BY <2>1, <2>2, <2>3, <2>4, RestFacts
<1>4. \A c \in Call :
        \/ calls'[c] = calls[c] /\ bills'[c] = bills[c]
        \/ /\ tx.calls[c] = Untouched /\ tx.bills[c] = 0
           /\ \A e \in AppliedBy(tx) : e.call = c => ~CanApply(calls'[c], e.type)
  BY <1>1, <1>3, TxOf DEF Holds, Balanced
<1>5. Serially(drains[d])'
  BY <1>2, <1>4, Restart DEF DInv
<1>6. AppliedBy(drains[d])' = AppliedBy(tx)
  BY <1>2 DEF AppliedBy
<1>7. \A e \in Event : tx.marks[e] # Untouched => e \in tx.rows \ tx.todo
  BY <1>2 DEF Orderly
<1>8. \A e \in AppliedBy(tx) : Known(e) /\ e.call \in ref'
  BY <1>2 DEF Orderly
<1>9. \A c \in Call : tx.calls[c] # Untouched =>
       tx.calls[c] \in Rest /\ RANK[calls'[c]] <= RANK[tx.calls[c]]
  BY <1>1, <1>2 DEF Orderly, Holds
<1>10. tx.pc = "updating" =>
       \A e \in tx.todo : (\A g \in tx.todo : received'[e] <= received'[g]) => e.type \in Rising
  BY <1>2 DEF Orderly
<1>11. Orderly(drains[d])'
  BY <1>2, <1>3, <1>6, <1>7, <1>8, <1>9, <1>10 DEF Orderly
<1> QED
  BY <1>5, <1>11

\* Calls rise under transactions that have no version of them.
LEMMA SCallsStep ==
  ASSUME DInv, DInv', SerialInv, UNCHANGED <<ledger, received, drains>>,
         ref \subseteq ref', \A c \in ref' : calls'[c] \in Rest,
         \A c \in Call :
           \/ calls'[c] = calls[c] /\ bills'[c] = bills[c]
           \/ /\ \A d \in Drain : ~Holds(d, c)
              /\ c \in ref => RANK[calls[c]] <= RANK[calls'[c]]
  PROVE  SerialInv'
<1>1. RowsApart'
  BY DEF SerialInv, RowsApart, Unapplied
<1>2. \A d \in Drain : Orderly(drains[d])' /\ Serially(drains[d])'
  BY SWaitStep
<1> QED
  BY <1>1, <1>2 DEF SerialInv

LEMMA SRecordStep ==
  ASSUME DInv, DInv', SerialInv, NEW c \in Call, Record(c)
  PROVE  SerialInv' /\ Serial!Record(c)
<1>1. /\ calls[c] = "RESERVED" /\ calls' = [calls EXCEPT ![c] = "INITIATED"]
      /\ ref' = ref \cup {c}
      /\ UNCHANGED <<bills, ledger, received, old, drains, crashes>>
  BY DEF Record
<1>2. calls'[c] = "INITIATED" /\ \A o \in Call \ {c} : calls'[o] = calls[o]
  BY <1>1 DEF DInv, LedgerTypes
<1>3. c \notin ref
  BY <1>1, CallStateFacts DEF DInv
<1>4. \A d \in Drain : ~Holds(d, c)
  BY <1>3, TxOf DEF Holds, Balanced
<1>5. \A o \in ref' : calls'[o] \in Rest
  <2>1. "INITIATED" \in Rest /\ ref \subseteq Call
    BY DEF Rest, DInv, LedgerTypes
  <2> QED
    BY <1>1, <1>2, <2>1 DEF SerialInv
<1>6. \A o \in Call :
        \/ calls'[o] = calls[o] /\ bills'[o] = bills[o]
        \/ /\ \A d \in Drain : ~Holds(d, o)
           /\ o \in ref => RANK[calls[o]] <= RANK[calls'[o]]
  BY <1>1, <1>2, <1>3, <1>4
<1>7. SerialInv'
  BY <1>1, <1>5, <1>6, SCallsStep
<1> QED
  BY <1>1, <1>7 DEF Serial!Record

LEMMA SEndStep ==
  ASSUME DInv, DInv', SerialInv, NEW c \in Call, NEW from, NEW to \in TERMINAL, End(c, from, to)
  PROVE  SerialInv' /\ Serial!End({c}, from, to)
<1>1. /\ calls[c] \in from /\ calls' = [calls EXCEPT ![c] = to]
      /\ bills' = [bills EXCEPT ![c] = @ + 1]
      /\ \A d \in Drain : ~Holds(d, c)
      /\ UNCHANGED <<ref, ledger, received, old, drains, crashes>>
  BY DEF End
<1>2. /\ calls'[c] = to
      /\ \A o \in Call \ {c} : calls'[o] = calls[o] /\ bills'[o] = bills[o]
  BY <1>1 DEF DInv, LedgerTypes
<1>3. \A o \in ref' : calls'[o] \in Rest
  BY <1>1, <1>2, RestFacts DEF SerialInv, DInv, LedgerTypes
<1>4. RANK[calls[c]] <= RANK[calls'[c]]
  <2>1. calls[c] \in CallState /\ to \in CallState
    BY CallStateFacts DEF DInv, LedgerTypes
  <2>2. RANK[calls[c]] \in 0 .. 6 /\ RANK[to] = 6
    BY <2>1, CallStateFacts
  <2> QED
    BY <1>2, <2>2
<1>5. \A o \in Call :
        \/ calls'[o] = calls[o] /\ bills'[o] = bills[o]
        \/ /\ \A d \in Drain : ~Holds(d, o)
           /\ o \in ref => RANK[calls[o]] <= RANK[calls'[o]]
  BY <1>1, <1>2, <1>4
<1>6. SerialInv'
  BY <1>1, <1>3, <1>5, SCallsStep
<1>7. /\ calls' = [o \in Call |-> IF o \in {c} THEN to ELSE calls[o]]
      /\ bills' = [o \in Call |-> bills[o] + (IF o \in {c} THEN 1 ELSE 0)]
  <2>1. \A o \in Call : bills[o] \in Nat /\ bills[o] + 0 = bills[o]
    BY DEF DInv, LedgerTypes
  <2> QED
    BY <1>1, <2>1 DEF DInv, LedgerTypes
<1> QED
  BY <1>1, <1>6, <1>7 DEF Serial!End

LEMMA SStillStep ==
  ASSUME DInv, DInv', SerialInv, UNCHANGED <<calls, bills, ref, ledger, received, drains>>
  PROVE  SerialInv' /\ UNCHANGED Serial!serialVars
<1>1. \A c \in ref' : calls'[c] \in Rest
  BY DEF SerialInv
<1>2. SerialInv'
  BY <1>1, SCallsStep
<1> QED
  BY <1>2 DEF Serial!serialVars

\* What a commit makes of the ledger.
LEMMA CommitLedger ==
  ASSUME DInv, SerialInv, NEW d \in Drain, Commit(d)
  PROVE  /\ {e \in Event : ledger'[e] = "applied"}
              = {e \in Event : ledger[e] = "applied"} \cup AppliedBy(drains[d])
         /\ \A e \in AppliedBy(drains[d]) : ledger[e] # "applied"
         /\ {e \in Event : ledger[e] = "given_up"} \subseteq {e \in Event : ledger'[e] = "given_up"}
         /\ \A f \in Drain \ {d} : \A e \in drains[f].rows : ledger'[e] = ledger[e]
<1> DEFINE tx == drains[d]
<1>1. \A e \in Event : ledger'[e] = IF e \in GivesUp(d) THEN "given_up" ELSE Marked(d, e)
  BY DEF Commit
<1>2. \A e \in Event : tx.marks[e] # Untouched => e \in tx.rows /\ Unapplied(e)
  BY STxOf DEF Orderly
<1>3. \A e \in Event : e \in GivesUp(d) => Marked(d, e) = "unknown"
  BY DEF GivesUp
<1>4. \A e \in AppliedBy(tx) : e \in Event /\ tx.marks[e] # Untouched /\ Marked(d, e) = "applied"
  BY DrainAssumption DEF AppliedBy, Marked
<1>5. \A e \in AppliedBy(tx) : ledger'[e] = "applied" /\ ledger[e] # "applied"
  BY <1>1, <1>2, <1>3, <1>4 DEF Unapplied
<1>6. \A e \in Event : ledger[e] \in {"applied", "given_up"} => ledger'[e] = ledger[e]
  BY <1>1, <1>2, <1>3 DEF Unapplied, Marked
<1>7. ASSUME NEW e \in Event, ledger'[e] = "applied", ledger[e] # "applied"
      PROVE  e \in AppliedBy(tx)
  BY <1>1, <1>7 DEF Marked, AppliedBy
<1>8. ASSUME NEW f \in Drain \ {d}, NEW e \in drains[f].rows
      PROVE  ledger'[e] = ledger[e]
  <2>1. e \in Event /\ e \notin GivesUp(d) /\ e \notin tx.rows
    BY STxOf, TxOf DEF Commit, TxRow
  <2> QED
    BY <1>1, <1>2, <2>1 DEF Marked
<1> QED
  BY <1>4, <1>5, <1>6, <1>7, <1>8

LEMMA SCommitStep ==
  ASSUME DInv, DInv', SerialInv, NEW d \in Drain, Commit(d)
  PROVE  SerialInv' /\ Serial!Settle
<1> DEFINE tx == drains[d]
<1>1. /\ calls' = [c \in Call |-> Sees(d, c)]
      /\ bills' = [c \in Call |-> bills[c] + drains[d].bills[c]]
      /\ drains' = [drains EXCEPT ![d] = NoTransaction]
      /\ UNCHANGED <<ref, received, old, crashes>>
  BY DEF Commit
<1>2. drains'[d] = NoTransaction /\ \A f \in Drain \ {d} : drains'[f] = drains[f]
  BY <1>1, TxOf
<1>3. \A c \in ref' : calls'[c] \in Rest
  BY <1>1, VersionIs DEF DInv, LedgerTypes
<1>4. \A c \in Call : ~Holds(d, c) => calls'[c] = calls[c] /\ bills'[c] = bills[c]
  <2> SUFFICES ASSUME NEW c \in Call, ~Holds(d, c)
               PROVE  calls'[c] = calls[c] /\ bills'[c] = bills[c]
    OBVIOUS
  <2>1. tx.bills[c] = 0 /\ bills[c] \in Nat
    BY TxOf DEF Holds, Balanced, DInv, LedgerTypes
  <2> QED
    BY <1>1, <2>1 DEF Sees
<1>5. ASSUME NEW f \in Drain \ {d}
      PROVE  Orderly(drains[f])' /\ Serially(drains[f])'
  <2>1. \A c \in Call : Holds(d, c) =>
          ~Holds(f, c) /\ RANK[calls[c]] <= RANK[calls'[c]]
    BY <1>1, TxOf, STxOf DEF Orderly, Holds, Sees
  <2>2. \A c \in Call :
          \/ calls'[c] = calls[c] /\ bills'[c] = bills[c]
          \/ ~Holds(f, c) /\ (c \in ref => RANK[calls[c]] <= RANK[calls'[c]])
    BY <1>4, <2>1
  <2>3. drains'[f] = drains[f] /\ received' = received /\ ref \subseteq ref'
    BY <1>1, <1>2
  <2> QED
    BY <1>3, <2>2, <2>3, SWaitStep
<1>6. Orderly(drains[d])' /\ Serially(drains[d])'
  <2>1. PICK row : row = NoTransaction /\ drains'[d] = row
    BY <1>2
  <2>2. Orderly(row) /\ Serially(row)
    BY <2>1, NoTransactionIs, FreshIs
  <2>3. /\ AppliedBy(row) = {} /\ row.pc # "updating"
        /\ \A e \in Event : row.marks[e] = Untouched
        /\ \A c \in Call : row.calls[c] = Untouched /\ row.bills[c] = 0
    BY <2>1, NoTransactionIs, DrainAssumption DEF AppliedBy
  <2>4. Serially(drains[d])'
    BY <2>1, <2>2, <2>3, Restart DEF DInv
  <2>5. AppliedBy(drains[d])' = {}
    BY <2>1, <2>3 DEF AppliedBy
  <2>6. Orderly(drains[d])'
    BY <2>1, <2>3, <2>5 DEF Orderly
  <2> QED
    BY <2>4, <2>6
<1>7. RowsApart'
  <2>1. \A f \in Drain \ {d} : \A e \in drains[f].rows : ledger'[e] = ledger[e]
    BY CommitLedger
  <2> QED
    BY <1>2, <2>1, STxOf, NoTransactionIs DEF RowsApart, Unapplied
<1>8. SerialInv'
  BY <1>3, <1>5, <1>6, <1>7 DEF SerialInv
<1>9. PICK n \in Nat : \E s \in Bijection(1 .. n, AppliedBy(tx)) :
        \A c \in Call : \E r : Chain(c, s, n, r) /\ r[n] = Version(tx, c)
  BY STxOf DEF Serially
<1>10. PICK s \in Bijection(1 .. n, AppliedBy(tx)) :
        \A c \in Call : \E r : Chain(c, s, n, r) /\ r[n] = Version(tx, c)
  BY <1>9
<1>11. n = Cardinality(AppliedBy(tx))
  <2>1. ExistsBijection(1 .. n, AppliedBy(tx))
    BY <1>10 DEF ExistsBijection
  <2>2. IsFiniteSet(1 .. n) /\ Cardinality(1 .. n) = n
    BY FS_Interval
  <2> QED
    BY <2>1, <2>2, FS_Bijection
<1>12. ASSUME NEW c \in Call
       PROVE  /\ calls'[c] = Serial!ApplyAll(c, s, n).state
              /\ bills'[c] = Serial!ApplyAll(c, s, n).bills
  <2>1. PICK r : Chain(c, s, n, r) /\ r[n] = Version(tx, c)
    BY <1>10
  <2>2. Serial!ApplyAll(c, s, n) = Version(tx, c)
    BY <2>1, ChainIs
  <2> QED
    BY <1>1, <2>2, VersionIs
<1> DEFINE was == {e \in Event : ledger[e] = "applied"}
           is == {e \in Event : ledger'[e] = "applied"}
<1>13. is \ was = AppliedBy(tx) /\ was \subseteq is
  BY CommitLedger DEF AppliedBy
<1>14. \A e \in AppliedBy(tx) : Serial!Known(e) /\ e.call \in ref
  BY STxOf, SameTables DEF Orderly, Known, Serial!Known
<1>15. is \cap {e \in Event : ledger'[e] = "given_up"} = {}
  OBVIOUS
<1>16. {e \in Event : ledger[e] = "given_up"} \subseteq {e \in Event : ledger'[e] = "given_up"}
  BY CommitLedger
<1>17. s \in Serial!Bijection(1 .. n, is \ was) /\ n = Serial!Cardinality(is \ was)
  BY <1>10, <1>11, <1>13, SameCounting
<1>18. Serial!Settle
  BY <1>1, <1>12, <1>13, <1>14, <1>15, <1>16, <1>17 DEF Serial!Settle
<1> QED
  BY <1>8, <1>18

LEMMA SDrainsStep ==
  ASSUME DInv, DInv', SerialInv, [Next]_vars
  PROVE  SerialInv' /\ [Serial!SerialNext]_(Serial!serialVars)
<1>1. CASE UNCHANGED vars
  BY <1>1, SStillStep DEF vars
<1>2. ASSUME NEW d \in Drain, DrainStep(d)
      PROVE  SerialInv' /\ [Serial!SerialNext]_(Serial!serialVars)
  <2>1. CASE Commit(d)
    BY <2>1, SCommitStep DEF Serial!SerialNext
  <2> QED
    BY <1>2, <2>1, SFetchStep, SReadStep, SUpdateStep DEF DrainStep
<1>3. ASSUME NEW d \in Drain, Deadlock(d) \/ Crash(d)
      PROVE  SerialInv' /\ [Serial!SerialNext]_(Serial!serialVars)
  <2>1. crashes' \in Nat
    BY <1>3 DEF DInv, LedgerTypes, Deadlock, Crash
  <2> QED
    BY <1>3, <2>1, SAbortStep DEF Deadlock, Crash
<1>4. ASSUME NEW e \in Event, Age(e)
      PROVE  SerialInv' /\ [Serial!SerialNext]_(Serial!serialVars)
  BY <1>4, SStillStep DEF Age
<1>5. ASSUME NEW c \in Call, Elsewhere(c)
      PROVE  SerialInv' /\ [Serial!SerialNext]_(Serial!serialVars)
  <2>1. CASE Record(c)
    BY <2>1, SRecordStep DEF Serial!SerialNext
  <2>2. CASE End(c, {"RESERVED", "INITIATED"}, "FAILED")
    BY <2>2, SEndStep, CallStateFacts DEF Serial!SerialNext
  <2>3. CASE End(c, {"INITIATED", "RINGING"}, "CANCELLED")
    BY <2>3, SEndStep, CallStateFacts DEF Serial!SerialNext
  <2> QED
    BY <1>5, <2>1, <2>2, <2>3 DEF Elsewhere
<1> QED
  BY <1>1, <1>2, <1>3, <1>4, <1>5 DEF Next

LEMMA SDrainsStart ==
  ASSUME Init
  PROVE  SerialInv /\ Serial!SerialInit
<1>1. DInv
  BY DrainsStart
<1>2. \A d \in Drain : drains[d] = NoTransaction
  BY DEF Init
<1>3. \A d \in Drain : Orderly(drains[d]) /\ Serially(drains[d])
  BY <1>1, <1>2, NoTransactionIs, FreshIs
<1>4. RowsApart /\ \A c \in ref : calls[c] \in Rest
  BY <1>2, NoTransactionIs DEF Init, RowsApart
<1>5. Serial!SerialInit
  BY DEF Init, Serial!SerialInit
<1> QED
  BY <1>3, <1>4, <1>5 DEF SerialInv

\* I5 under concurrency: what the drains do together is what applying one event at
\* a time does, a commit's in the order they were taken: no interleaving of reads,
\* row locks, waits and rollbacks, with each other or with the allocator and the
\* reaper, loses an event's effect, repeats it, or lets a stale one through.
THEOREM DrainsSerialize == Spec => DrainsAreSerial
<1>1. Init => SerialInv /\ Serial!SerialInit
  BY SDrainsStart
<1>2. DInv /\ DInv' /\ SerialInv /\ [Next]_vars => SerialInv' /\ [Serial!SerialNext]_(Serial!serialVars)
  BY SDrainsStep
<1> QED
  BY <1>1, <1>2, DrainsInvariant, PTL DEF Spec, DrainsAreSerial, Serial!SerialSpec
=============================================================================
