SPECIFICATION SourceSpec
CONSTANTS
  Capacity = 1
  MaxStarts = 2
  Source = {a, b}
SYMMETRY Symmetry
INVARIANTS OneClaim TaskHasOwner
PROPERTIES ContractKept
