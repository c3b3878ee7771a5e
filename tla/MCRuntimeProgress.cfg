SPECIFICATION FairSpec
CONSTANTS
  Caller = {a, b}
  Configs = {x}
  Kinds <- AllKinds
  MaxStarts = 1
CHECK_DEADLOCK FALSE
PROPERTY StopReturns
PROPERTY RetriedStopCompletes
