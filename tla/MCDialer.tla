----------------------------- MODULE MCDialer -----------------------------
(* Small instances of Dialer for TLC.                                          *)
EXTENDS DialerPool, TLC

\* Agents, borrowers and coroutines are interchangeable: nothing orders them.
Symmetry == Permutations(Agent) \cup Permutations(Borrower) \cup Permutations(Slot)

=============================================================================
