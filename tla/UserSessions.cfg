\* Two requests at a time from two browsers, and a lost answer.
SPECIFICATION FairSpec
CONSTANTS
  h1 = h1
  h2 = h2
  b1 = b1
  b2 = b2
  Handler <- TwoHandlers
  Browser <- TwoBrowsers
  Session <- TwoSessions
  AccessLife = 1
  RefreshLife = 2
  MaxLosses = 1
INVARIANTS
  LockoutNeedsRaceOrLoss
PROPERTIES
  RevocationIsFinal
  AbandonedSessionEnds
