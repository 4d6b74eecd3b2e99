--------------------------- MODULE MCPersistence ---------------------------
(* A small instance of Persistence. *)
EXTENDS Persistence
CONSTANTS p1, p2, r1, r2
============================================================================
