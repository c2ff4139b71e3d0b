SPECIFICATION FairSpec
CONSTANTS
  NumNonces = 2
  Relays = {jito, astralane}
  MaxOpps = 1
  MaxAdvances = 1
  MaxReplays = 1
PROPERTIES
  EverythingSettles
  CacheCatchesUp
  CacheNeverGoesBack
CHECK_DEADLOCK FALSE
