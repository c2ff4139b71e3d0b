SPECIFICATION CheckoutSpec
CONSTANTS
  NumNonces = 3
  MaxCheckouts = 4
  MaxHash = 1
INVARIANTS
  WinnerIsBest
PROPERTIES
  RoundRobin
CHECK_DEADLOCK FALSE
