CONSTANTS
  Sides = {"server", "client"}
  Modulus = 16
  Window = 4
  MaxSends = 18
  MaxLag = 5
  MaxJump = 7
  FirstInOrder = TRUE
SPECIFICATION ReplaySpec
INVARIANT MatchesReference
CHECK_DEADLOCK FALSE
