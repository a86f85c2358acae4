---------------------------- MODULE CallStates ----------------------------
(* The vocabulary and the pure decision tables of domain/enums.py and          *)
(* domain/transitions.py: the states of an agent, a borrower and a call, the   *)
(* rank of a call state, which provider events may still be applied to a call, *)
(* and what a call's transition does to its agent.                             *)
EXTENDS Naturals

AgentState ==
  {"OFFLINE", "AVAILABLE", "RESERVED", "DIALING", "CONNECTED", "WRAP_UP", "PAUSED"}

CallState ==
  {"QUEUED", "RESERVED", "INITIATED", "RINGING", "ANSWERED", "CONNECTED",
   "COMPLETED", "FAILED", "CANCELLED", "ABANDONED"}

BorrowerState == {"PENDING", "LOCKED", "IN_CALL", "DONE", "EXHAUSTED", "SUPPRESSED"}

RANK ==
  [s \in CallState |->
     CASE s = "QUEUED"    -> 0
       [] s = "RESERVED"  -> 1
       [] s = "INITIATED" -> 2
       [] s = "RINGING"   -> 3
       [] s = "ANSWERED"  -> 4
       [] s = "CONNECTED" -> 5
       [] OTHER           -> 6]

TERMINAL_RANK == 6

TERMINAL == {s \in CallState : RANK[s] = TERMINAL_RANK}

\* (Mistake: a terminal state is legal only from its natural predecessor.)
LEGAL_NEXT_STRICT ==
  [s \in CallState |->
     CASE s = "QUEUED"    -> {"RESERVED"}
       [] s = "RESERVED"  -> {"INITIATED", "FAILED"}
       [] s = "INITIATED" -> {"RINGING", "ANSWERED"}
       [] s = "RINGING"   -> {"ANSWERED", "FAILED"}
       [] s = "ANSWERED"  -> {"CONNECTED", "ABANDONED"}
       [] s = "CONNECTED" -> {"COMPLETED"}
       [] OTHER           -> {}]

\* The non-terminal predecessor order; every terminal state is legal from every
\* non-terminal one.
LEGAL_NEXT ==
  [s \in CallState |->
     CASE s = "QUEUED"    -> {"RESERVED"} \cup TERMINAL
       [] s = "RESERVED"  -> {"INITIATED"} \cup TERMINAL
       [] s = "INITIATED" -> {"RINGING", "ANSWERED"} \cup TERMINAL
       [] s = "RINGING"   -> {"ANSWERED"} \cup TERMINAL
       [] s = "ANSWERED"  -> {"CONNECTED"} \cup TERMINAL
       [] s = "CONNECTED" -> TERMINAL
       [] OTHER           -> {}]

\* (Mistake: every event is applied as it comes.)
CanApplyAnything(current, incoming) == TRUE

\* can_apply: the event is applied only when it moves the call up in rank, to a
\* legal successor, and the call is not over.
CanApply(current, incoming) ==
  /\ RANK[current] < TERMINAL_RANK
  /\ RANK[incoming] > RANK[current]
  /\ incoming \in LEGAL_NEXT[current]

\* The agent's new state, keyed to the transition the call really made.
AGENT_ON_CALL_STATE ==
  [s \in {"INITIATED", "CONNECTED"} \cup TERMINAL |->
     CASE s = "INITIATED" -> "DIALING"
       [] s = "CONNECTED" -> "CONNECTED"
       [] s = "COMPLETED" -> "WRAP_UP"
       [] OTHER           -> "AVAILABLE"]
=============================================================================
