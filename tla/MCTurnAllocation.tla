-------------------------- MODULE MCTurnAllocation -------------------------
(* Every constant of this model is given in the configurations.            *)
EXTENDS TurnAllocation
=============================================================================
