SPECIFICATION Spec
CONSTANTS
  Q = 256
  Bps = 20
  PriceOne = 4
  TickPrice <- MCTickPrice
  MinPrice = 40
  MaxPrice = 1000
  BinsPerArray = 2
  MaxSteps = 2
  MaxBins = 4
  Contents <- MCContents
  Wsol = "wsol"
  MaxHops = 3
  EarlyExit = 1
  MaxPoolsPerToken = 2
  ReserveShare = 10
  MinInput = 5
  TestAmount = 9
  Slippage <- MCSlippage
  TipFraction <- MCTip
  MinTip = 1
  MinProfit = 0
  MaxSaneProfit = 30
  Floors <- MCFloors
  MaxChanges = 2
INVARIANTS
  QuotesBelowCurve
  CpmmExact
  AcceptedHasSpread
