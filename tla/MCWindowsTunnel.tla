-------------------------- MODULE MCWindowsTunnel --------------------------
(* Small instances of WindowsTunnel; TURN addresses and DNS profiles are   *)
(* interchangeable.                                                        *)
EXTENDS WindowsTunnel, TLC

CONSTANTS peer, t1, t2, d1, d2, d3
Alike == Permutations(Addresses \ Hosts) \cup Permutations(Dns)
=============================================================================
