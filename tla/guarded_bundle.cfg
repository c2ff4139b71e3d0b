SPECIFICATION Spec
CONSTANTS
  Mints = {"wsol", "usdc", "pyusd"}
  Routes <- MCRoutes
  Programmed <- MCProgrammed
  TrueProgram <- MCTrueProgram
  Dexes = {"OrcaWhirlpool", "RaydiumAmm", "Phoenix", "MeteoraDlmm"}
  Input = 2
  Funds = 5
  Holdings = {{}, {"wsol", "usdc", "pyusd"}}
  Tip = 2
  Fee = 1
  Rent = 1
  MaxU64 = 5
  MaxTxs = 2
  MaxCalls = 2
INVARIANTS
  TypeOK
  WindowsGain
  NoCommittedLoss
  IntermediateUntouched
  MeasuredWherePaid
PROPERTIES
  WindowNotRebased
CHECK_DEADLOCK FALSE
