SPECIFICATION Spec
CONSTANTS
  Kinds = {"raydium", "pumpswap", "dlmm", "clmm"}
  Areas = {1, 2}
  MaxUpdates = 3
INVARIANTS
  TypeOK
  AnnouncedWithPrograms
  LatestUnlessSpanned
  MarkerTellsArrays
  ReservesUnlessThrottled
CHECK_DEADLOCK FALSE
