SPECIFICATION Spec
CONSTANTS
  Value = {v1, v2}
  LastTime = 4
  Width = 8
INVARIANTS RecoveredByNewer
