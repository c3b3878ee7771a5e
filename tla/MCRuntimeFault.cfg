SPECIFICATION Spec
CONSTANTS
  Caller = {a}
  Configs = {x}
  Kinds <- AllKinds
  MaxStarts = 1
CHECK_DEADLOCK FALSE
INVARIANT FaultShowsInTransport
