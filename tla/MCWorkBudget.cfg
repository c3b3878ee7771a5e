SPECIFICATION FairSpec
CONSTANTS
  MaxFrames = 2
  MaxCalls = 4
  MaxBatchTime = 2
  MaxRunTime = 3
  PauseMs = 15
  TickRate = 100
  LastTime = 5
INVARIANTS TypeOK RefreshedInTime StopIsPrompt
PROPERTIES WorkSpec StopEndsPause
\* The worker leaves after a stop.
CHECK_DEADLOCK FALSE
