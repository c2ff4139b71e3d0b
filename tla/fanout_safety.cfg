SPECIFICATION Spec
CONSTANTS
  NumNonces = 1
  Relays = {jito, astralane}
  MaxOpps = 2
  MaxAdvances = 0
  MaxReplays = 0
SYMMETRY RelaySymmetry
INVARIANTS
  TypeOK
  OneEntryPerHash
  MarkedUntilSettled
  NonceHasReleaser
PROPERTIES
  ImplementsLedger
CHECK_DEADLOCK FALSE
