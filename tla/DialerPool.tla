---------------------------- MODULE DialerPool ----------------------------
(* The dialling core implements AgentPool, as long as no worker outlives its   *)
(* reserve lease.                                                              *)
EXTENDS Dialer

\* The stage of an agent: its state, or that of the call it is dialling.
StageOf(a) ==
  IF agents[a].state = "DIALING" /\ agents[a].call \in CallId
  THEN calls[agents[a].call].state
  ELSE agents[a].state

Pool == INSTANCE AgentPool WITH pool <- [a \in Agent |-> StageOf(a)]

\* Whatever calls, sweeps, crashes and webhooks do, each agent only ever goes
\* round the cycle of AgentPool: what the pacing side counts on.
ImplementsPool == Pool!PoolSpec
=============================================================================
