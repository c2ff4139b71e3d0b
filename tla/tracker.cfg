SPECIFICATION FairSpec
CONSTANTS
  Relays = {jito, astralane}
  Second = 2
  MaxCall = 2
INVARIANTS
  TypeOK
  SettlesInTime
  EarlyLandingReported
PROPERTIES
  ImplementsContract
CHECK_DEADLOCK FALSE
