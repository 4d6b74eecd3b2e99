--------------------------- MODULE MCFlowReassembly ---------------------------
(* Model-checking instances of FlowReassembly: the .cfg files give the bounds. *)
EXTENDS FlowReassembly, TLC

FlowSymmetry == Permutations(Flows)
==============================================================================
