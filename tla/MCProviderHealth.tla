------------------------- MODULE MCProviderHealth -------------------------
(* Small instances of ProviderHealth for TLC.  No symmetry: the runs check     *)
(* liveness.                                                                   *)
EXTENDS ProviderHealth
=============================================================================
