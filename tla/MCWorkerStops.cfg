CONSTANTS
  Workers = {w1, w2}
  Values = {a}
  NoValue = NoValue
  PerCredential = 1
  MaxFetches = 1
  MaxRounds = 2
  MayCancel = TRUE
SPECIFICATION FairSpec
PROPERTY CancelStops
