SPECIFICATION Spec
CONSTANTS
  Pools = {p1, p2}
  Slots = {1, 2}
  Arbs = {a1}
  Capacity = 1
  MaxRecent = 1
  SlotsKept = 1
  MaxSubs = 2
  Window = 2
  Gains = {0, 4, 8, 20}
  Slippage <- MCSlippage
  TipFraction <- MCTip
  Floors = {0, 4}
  MinTip = 1
  MinProfit = 1
  MaxSaneProfit = 10
  Modes <- MCModes
  MaxChanges = 4
INVARIANTS
  ChangesSeen
  SubmissionsPerWindow
