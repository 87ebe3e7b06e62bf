\* Two jobs at once over two sources that share a page, one request that
\* deletes, and one failure.
SPECIFICATION Spec
CONSTANTS
  home = home
  shop = shop
  news = news
  j1 = j1
  j2 = j2
  d1 = d1
  Source <- TwoSources
  Page <- Pages
  Site <- TwoSites
  Job <- TwoJobs
  Deleter <- OneDeleter
  Limit = 2
  Slots = 1
  MaxMishaps = 1
SYMMETRY JobsAlike
INVARIANTS
  QuotaNeedsOverlap
  IndexIsCounted
  CountIsIndexed
