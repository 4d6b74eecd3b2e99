CONSTANTS
  Sides = {"client"}
  Modulus = 16
  Window = 4
  MaxSends = 20
  MaxLag = 7
  MaxJump = 7
  FirstInOrder = FALSE
SPECIFICATION ReplaySpec
INVARIANT AcceptedOnce
CHECK_DEADLOCK FALSE
