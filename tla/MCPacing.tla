----------------------------- MODULE MCPacing -----------------------------
(* Small instances of PacingLoop for TLC.                                      *)
EXTENDS PacingLoop, TLC

\* Agents are interchangeable, and so are workers.
Symmetry == Permutations(Agent) \cup Permutations(Worker)
=============================================================================
