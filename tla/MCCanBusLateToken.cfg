CONSTANTS
  Capacity = 1
  MaxStarts = 3
SPECIFICATION Spec
INVARIANTS OneAcquisitionTask
