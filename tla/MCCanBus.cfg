CONSTANTS
  Capacity = 3
  MaxStarts = 3
SPECIFICATION RetrySpec
INVARIANTS TypeOK OneAcquisitionTask DriverOutlivesTask OutcomeTellsOwnership TokenPerFrame NoEmptyWakeup FaultWakesConsumer
PROPERTIES CleanupCompletes
