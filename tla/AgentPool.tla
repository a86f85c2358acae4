---------------------------- MODULE AgentPool ----------------------------
(* What the dialling core promises to whoever counts agents: an agent's work,  *)
(* from one call to the next, is one cycle of stages.  A stage is the state of *)
(* the agents row, and while that is DIALING, of the call the agent dials.     *)
EXTENDS FiniteSets

CONSTANT Agent   \* the rows of the agents table, all of one campaign

VARIABLE pool    \* agent -> stage

Stage ==
  {"OFFLINE", "AVAILABLE", "RESERVED", "INITIATED", "RINGING", "CONNECTED", "WRAP_UP"}

Ringing == {"INITIATED", "RINGING"}
OnTheLine == Ringing \cup {"CONNECTED"}

PoolTypeOK == pool \in [Agent -> Stage]

PoolInit == pool = [a \in Agent |-> "AVAILABLE"]

Move(a, from, to) ==
  /\ pool[a] \in from
  /\ pool' = [pool EXCEPT ![a] = to]

-----------------------------------------------------------------------------
\* An allocation reserves an agent, and either the provider refuses the call or
\* the call is recorded.
Book(a) == Move(a, {"AVAILABLE"}, "RESERVED")
Refuse(a) == Move(a, {"RESERVED"}, "AVAILABLE")
Dial(a) == Move(a, {"RESERVED"}, "INITIATED")

\* A provider's event moves the call on, or ends it with a conversation
\* (COMPLETED: the agent wraps up) or without one (FAILED, CANCELLED).
Ring(a) == Move(a, {"INITIATED"}, "RINGING")
Bridge(a) == Move(a, Ringing, "CONNECTED")
Complete(a) == Move(a, OnTheLine, "WRAP_UP")
Lose(a) == Move(a, OnTheLine, "AVAILABLE")

\* The reaper frees, at once, agents whose reservation, call set-up or wrap-up
\* has expired - but never one whose phone has rung.
Sweep(S) ==
  /\ \A a \in S : pool[a] \in {"RESERVED", "INITIATED", "WRAP_UP"}
  /\ pool' = [a \in Agent |-> IF a \in S THEN "AVAILABLE" ELSE pool[a]]

\* An agent who is free leaves, or comes back.
Logout(a) == Move(a, {"AVAILABLE"}, "OFFLINE")
Login(a) == Move(a, {"OFFLINE"}, "AVAILABLE")

PoolNext ==
  \/ \E a \in Agent :
       \/ Book(a) \/ Refuse(a) \/ Dial(a)
       \/ Ring(a) \/ Bridge(a) \/ Complete(a) \/ Lose(a)
       \/ Logout(a) \/ Login(a)
  \/ \E S \in SUBSET Agent : Sweep(S)

PoolSpec == PoolInit /\ [][PoolNext]_pool
=============================================================================
