\* Two jobs at once of one source, which take the one slot in turn.
SPECIFICATION FairSpec
CONSTANTS
  home = home
  shop = shop
  news = news
  j1 = j1
  j2 = j2
  d1 = d1
  Source <- OneSource
  Page <- OneSource
  Site <- OneSite
  Job <- TwoJobs
  Deleter <- OneDeleter
  Limit = 1
  Slots = 1
  MaxMishaps = 2
PROPERTIES
  QueuedJobsEnd
