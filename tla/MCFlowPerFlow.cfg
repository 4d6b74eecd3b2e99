CONSTANTS
  Flows = {f1}
  FlowModulus = 16
  MaxTracked = 2
  MaxPerFlow = 2
  MaxTotal = 8
  GapRelease = 2
  FlowSends = 8
  FlowLag = 8
  Before = {0}
  MaxTime = 0
  MaxRestarts = 0
SPECIFICATION FlowSpec
INVARIANT PerFlowBounded
CHECK_DEADLOCK FALSE
