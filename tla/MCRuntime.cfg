SPECIFICATION Spec
CONSTANTS
  Caller = {a, b}
  Configs = {x, y}
  Kinds <- AllKinds
  MaxStarts = 2
SYMMETRY Symmetry
CHECK_DEADLOCK FALSE
INVARIANT TypeOK
INVARIANT OneOperation
INVARIANT StoppedIsQuiet
INVARIANT RunningIsServed
INVARIANT StopsAllowed
INVARIANT SelfStopRefused
PROPERTY ConfigFixed
