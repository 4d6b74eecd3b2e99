--------------------------- MODULE MCStreamRepair ---------------------------
(* Model-checking instances of StreamRepair: the .cfg files give the bounds. *)
EXTENDS StreamRepair, TLC

ReaderSymmetry == Permutations(Readers)
==============================================================================
