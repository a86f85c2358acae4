--------------------------- MODULE MCSimulation ---------------------------
(* A small instance of Simulation for TLC: its constants are in the cfg.       *)
EXTENDS Simulation
=============================================================================
