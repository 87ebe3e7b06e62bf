\* Two server processes over one event table.
SPECIFICATION Spec
CONSTANTS
  w1 = w1
  w2 = w2
  Event <- OneEvent
  Worker <- TwoWorkers
  MaxAttempts = 3
  BatchLimit = 2
  MaxMishaps = 2
  MaxRetries = 1
SYMMETRY Symmetry
INVARIANTS
  OrphansComeFromMishaps
  NoEarlyDeath
PROPERTIES
  OrphanNeedsRetry
  KeepsPromise
