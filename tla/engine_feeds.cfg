SPECIFICATION FairFeedsSpec
CONSTANTS
  HashEvery = 1
  HashLimit = 2
  HashStale = 2
INVARIANTS
  BlockhashUsable
PROPERTIES
  FeedsRecover
  FeedsStop
