CONSTANTS
  Capacity = 2
  Modulus = 8
  StartIndex = 6
  MaxArrivals = 3
  MaxRecords = 1
SPECIFICATION Spec
INVARIANTS TypeOK SlotExclusive WatermarkCoversDepth Accounting
PROPERTIES CoherentDepth FifoSpec
