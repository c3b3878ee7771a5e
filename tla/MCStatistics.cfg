SPECIFICATION Spec
CONSTANTS
  Width = 3
  Interval = 2
  LastTime = 2
  MaxEvents = 3
  MaxRuns = 2
INVARIANTS CountsExact FaultCounted FinalTotals
PROPERTIES NeverBackwards
