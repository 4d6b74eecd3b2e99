---------------------------- MODULE MCSessionTable ----------------------------
(* Model-checking instance of SessionTable; the .cfg file gives the bounds.  *)
EXTENDS SessionTable, TLC
CONSTANTS d0, d1, k1, k2

HomeOf == (d0 :> 0) @@ (d1 :> 1)
Getconf(k, d, g) == [kind |-> "getconf", key |-> k, dev |-> d, gen |-> g, worker |-> 1]
\* One endpoint is used by both devices and by two generations of one of them;
\* the other carries the same stream of the same client.
Clients == {Getconf(k1, d1, 1), Getconf(k1, d0, 1), Getconf(k1, d0, 2), Getconf(k2, d0, 1)}
Symmetry == Permutations(Slots)
==============================================================================
