---------------------------- MODULE MCReplayWindow ----------------------------
(* Model-checking instances of ReplayWindow: the .cfg files give the bounds.  *)
EXTENDS ReplayWindow
==============================================================================
