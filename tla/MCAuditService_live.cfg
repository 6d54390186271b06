\* Any store call may fail or hang until the store heals, and the shutdown clock runs.
SPECIFICATION LiveSpec
CONSTANTS
  MaxBuffered = 2
  BatchRows = 1
  MaxBatches = 2
  AggregateEvery = 2
  SweepEvery = 1
  ShutdownMaxPasses = 2
  ProbesWritable = {TRUE, FALSE}
  DeadlineFires = TRUE
  MaxEvents = 3
  MaxStatRows = 2
  MaxReads = 1
INVARIANTS TypeOK HealthExact QuietClose
PROPERTIES LedgerKept DropsAreReported FaultLiftedByEvidence StopReturns Recovers
CHECK_DEADLOCK FALSE
