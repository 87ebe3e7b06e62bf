\* One process that delivers batches smaller than the backlog, or two that flush
\* two events with all their copies, or two that migrate.
SPECIFICATION MCSpec
CONSTANTS
  w1 = w1
  p1 = p1
  p2 = p2
  Event <- TwoEvents
  Worker <- OneWorker
  MaxAttempts = 3
  BatchLimit = 1
  MaxMishaps = 2
  MaxRetries = 1
  View <- Views
  Process <- TwoProcesses
  FlushLimit = 2
  MaxResends = 1
  MaxLostCalls = 2
  Starter <- TwoProcesses
  LastFile = 3
  MaxMigratorFaults = 3
INVARIANTS
  BudgetKept
  StoredPerSend
  LossIsBounded
  OneMigratesAtATime
  ServesComplete
PROPERTIES
  DeliveredStays
  Settles
  EventsAreFlushed
  AppliesInOrder
