CONSTANTS
  Workers = {w1, w2}
  Values = {a}
  NoValue = NoValue
  PerCredential = 2
  MaxFetches = 2
  MaxRounds = 3
  MayCancel = FALSE
SPECIFICATION Spec
INVARIANT ConfigSingleFlight
