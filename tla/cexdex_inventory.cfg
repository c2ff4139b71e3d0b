SPECIFICATION FairSpec
CONSTANTS
  Reserves <- MCReserves
  Books <- MCBooks
  StartSol = 60
  StartUsdc = 230
  HardCap <- Cap
  PreferredLow <- Low
  PreferredHigh <- High
  SkewedMultiplier = 2
  MinSpreadBps = 20
  MaxTradeSol = 40
  MinTradeSol = 1
  PoolShare = 10
  MaxPosition <- Half
  Slippage <- Tenth
  MinProfitUsd = 4
  TipFractions <- MCTipFractions
  TipDen = 10
  MinTip = 1
  TxFee = 3
  Rent = 2
  MaxDispatches = 2
  MaxRefreshes = 1
  MaxFaults = 1
INVARIANTS
  CoversOutstanding
  FloorReachable
  TipsPaidFromProfit
PROPERTIES
  BalancesCatchUp
