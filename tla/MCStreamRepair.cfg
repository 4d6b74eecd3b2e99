CONSTANTS
  Workers = {1, 2}
  Readers = {r1, r2}
  Grace = 1
  Escalate = 2
  AliveEvery = 1
  AliveRepeat = 2
  OrphanTTL = 2
  MaxTime = 5
  MaxStarts = 2
SPECIFICATION Spec
INVARIANTS OneRestartPerSequence FirstRepairKeepsCredentials
PROPERTY GraceRespected
SYMMETRY ReaderSymmetry
CHECK_DEADLOCK FALSE
