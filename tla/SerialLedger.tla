--------------------------- MODULE SerialLedger ---------------------------
(* What the drains promise together: every event is applied once, one at a     *)
(* time - a drain that commits a batch of them has the effect of applying them *)
(* in some order at that moment, on the calls as they are then.  Dialer takes  *)
(* this for granted and applies single events.                                 *)
EXTENDS CallStates, FiniteSets, Functions

CONSTANTS
  Call,   \* the rows of the calls table
  Event   \* the rows of provider_events: records [call, type, copy]

VARIABLES
  calls,   \* call -> its state
  bills,   \* call -> how often its borrower was charged for its end
  ref,     \* the calls whose row has the provider's call id
  applied, \* the events that have been applied
  givenUp  \* the events that never will be

serialVars == <<calls, bills, ref, applied, givenUp>>

Known(e) == e.type \in CallState

\* What one event does to a call's state and charges.
ApplyOne(row, e) ==
  IF CanApply(row.state, e.type)
  THEN LET final == IF e.type = "ANSWERED" THEN "CONNECTED" ELSE e.type IN
       [state |-> final, bills |-> row.bills + (IF final \in TERMINAL THEN 1 ELSE 0)]
  ELSE row

\* What the events s[1], ..., s[n] that are the call's do to it, one by one.
ApplyAll(c, s, n) ==
  LET row[i \in 0 .. n] ==
        IF i = 0 THEN [state |-> calls[c], bills |-> bills[c]]
        ELSE IF s[i].call = c THEN ApplyOne(row[i - 1], s[i])
        ELSE row[i - 1]
  IN row[n]

SerialInit ==
  /\ calls = [c \in Call |-> "RESERVED"]
  /\ bills = [c \in Call |-> 0]
  /\ ref = {}
  /\ applied = {}
  /\ givenUp = {}

\* The allocator records a call.
Record(c) ==
  /\ calls[c] = "RESERVED"
  /\ calls' = [calls EXCEPT ![c] = "INITIATED"]
  /\ ref' = ref \cup {c}
  /\ UNCHANGED <<bills, applied, givenUp>>

\* The reaper ends all the calls it finds, a refusal or the pullback one.
End(ended, from, to) ==
  /\ \A c \in ended : calls[c] \in from
  /\ calls' = [c \in Call |-> IF c \in ended THEN to ELSE calls[c]]
  /\ bills' = [c \in Call |-> bills[c] + (IF c \in ended THEN 1 ELSE 0)]
  /\ UNCHANGED <<ref, applied, givenUp>>

\* Events of recorded calls are applied, others are given up.
Settle ==
  LET batch == applied' \ applied
      n == Cardinality(batch)
  IN
  /\ applied \subseteq applied'
  /\ givenUp \subseteq givenUp'
  /\ \A e \in batch : Known(e) /\ e.call \in ref
  /\ applied' \cap givenUp' = {}
  /\ \E s \in Bijection(1 .. n, batch) : \A c \in Call :
       /\ calls'[c] = ApplyAll(c, s, n).state
       /\ bills'[c] = ApplyAll(c, s, n).bills
  /\ UNCHANGED ref

SerialNext ==
  \/ \E c \in Call : Record(c)
  \/ \E ended \in SUBSET Call : End(ended, {"RESERVED", "INITIATED"}, "FAILED")
  \/ \E c \in Call : End({c}, {"INITIATED", "RINGING"}, "CANCELLED")
  \/ Settle

SerialSpec == SerialInit /\ [][SerialNext]_serialVars
=============================================================================
