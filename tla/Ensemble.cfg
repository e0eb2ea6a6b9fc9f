CONSTANTS
  Assets = {"a", "b"}
  Sector <- MCSector
  Books <- MCBooks
  CashAmounts <- MCCash
  History <- MCHistory
  MinReturns = 3
  Scenarios <- MCScenarios
  LimitSets <- MCLimitSets
  CacheLife = 1
  Balances = {80, 95, 100, 120}
  StartBalance = 100
  DailyLossPercent = 5
  MaxDrawdownPercent = 20
  MaxPositionPercent = 90
  MaxOpenPositions = 1
  MaxUpdates = 4
  LastDay = 2
  SizedSymbols = {"x", "y"}
  PortfolioValues = {0, 10000}
  Requests <- MCRequests
  BaseRisk = 20000
  CapPercent = 25
  KellyCapPercent = 5
  TargetVolatility = 15
  CostThreshold = 20
  Costs = {10, 30}
  Lookback = 2
  GlobalLookback = 1
  LeastRisk = 6000
  Bars <- MCBars
  MaxBars = 5
  Fast = 1
  Slow = 2
  SignalPeriod = 2
  Window = 3
  Required = 3
  BandWidth = 1
  TrendLine = 25
  Assignable = {"vwap", "rsi"}
  Periods <- MCPeriods
  MaxAssigned = 3
  MaxSeries = 4
  MaxTracked = 2
  RunnerCash = 400
  PositionPercent = 50
  WarmUp = 1
  FutureWindow = 2
  MinSamples = 1
  MaxDays = 4
  Exchanges <- MCExchanges
  Ranking <- MCRanking
  Pairs = {"p", "q"}
  Listings <- MCListings
  OrderSizes = {3, 7}
  Prices = {1000, 1010}
  Holdings = {0, 2}
  CashThere = 1
  MinSpread = 5
  MinProfit = 2
  CostBetween <- MCCost
  MaxSyncs = 2
  InitialCapital = 100
  Accounts <- MCAccounts
  Pnls <- MCPnls
  SnapshotLimit = 2
  MaxSnapshots = 3
  MaxLogged = 1
SPECIFICATION DeskSpec
INVARIANT MajorityActs
CHECK_DEADLOCK FALSE
