CONSTANTS
  Capacity = 2
  Modulus = 4
  StartIndex = 3
  MaxArrivals = 3
  MaxRecords = 0
SPECIFICATION Spec
PROPERTIES PushCompletes
