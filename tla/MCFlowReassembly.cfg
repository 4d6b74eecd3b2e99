CONSTANTS
  Flows = {f1, f2, f3}
  FlowModulus = 16
  MaxTracked = 2
  MaxPerFlow = 2
  MaxTotal = 2
  GapRelease = 2
  Before = {0, 13}
  FlowSends = 5
  FlowLag = 6
  MaxTime = 2
  MaxRestarts = 1
SPECIFICATION FlowSpec
INVARIANTS OutputOrdered TotalExact Complete
SYMMETRY FlowSymmetry
CHECK_DEADLOCK FALSE
