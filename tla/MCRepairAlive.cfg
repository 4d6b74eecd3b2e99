CONSTANTS
  Workers = {1, 2}
  Readers = {r1}
  Grace = 1
  Escalate = 2
  AliveEvery = 1
  AliveRepeat = 2
  OrphanTTL = 2
  MaxTime = 8
  MaxStarts = 3
SPECIFICATION Spec
INVARIANT AliveHonoured
CHECK_DEADLOCK FALSE
