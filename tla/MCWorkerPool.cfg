CONSTANTS
  Workers = {w1, w2}
  Values = {a, b}
  NoValue = NoValue
  PerCredential = 2
  MaxFetches = 2
  MaxRounds = 3
  MayCancel = FALSE
SPECIFICATION Spec
INVARIANTS AllocationsBounded RejectedNotLeased FlightNotLeaked OutageRefreshes
PROPERTY StaleLeaseHarmless
SYMMETRY WorkerSymmetry
