-------------------------- MODULE MCDeviceControl --------------------------
(* One password and two devices: two epochs of the first, and the second   *)
(* device, which may take over the password once it is unbound.            *)
EXTENDS DeviceControl, TLC
CONSTANTS p1, d1, d2, j1, j2
Identities == [s \in Sessions |->
    [pw |-> p1, worker |-> 1,
     dev |-> IF s = 3 THEN d2 ELSE d1,
     epoch |-> IF s = 2 THEN "e2" ELSE "e1"]]
BoundToFirst == [p \in Passwords |-> d1]
Alike == Permutations(Jobs)
============================================================================
