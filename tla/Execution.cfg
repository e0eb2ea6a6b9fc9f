CONSTANTS
  ParentQuantities = {3, 4, 7}
  Refresh = 2
  MaxTime = 4
  Venues <- MCVenues
  Scores <- MCScores
  Demands = {1, 3}
  Slices = {0, 1, 5}
  Widths = {0, 2, 3}
  Grain = 10800
  Orders = {o1, o2}
  Quantity = 2
  MaxFills = 2
  SimQuantities = {10, 25}
  Volumes = {5, 20}
  Books <- MCBooks
  Dailies = {0, 20, 200}
  SlippageModels = {"fixed", "volume", "linear"}
  MinFill = 6
  Unlimited = FALSE
  MaxBars = 4
  Traded = {"A"}
  TradeSizes = {1, 2}
  BarsSeen <- MCBars
  LimitPrices = {0, 7200}
  InitialBalance = 24000
  FeePercent = 10
  StopPercent = 50
  MaxOrders = 2
  MaxTrades = 2
  RemoteQuantity = 2
  MaxRemoteOrders = 2
SPECIFICATION DeskSpec
INVARIANTS
  CompleteWithinTolerance
  SplitPlacesTheOrder
  RouterTablesAgree
  OvershootWithinOneFill
  FinalAnswersStayTrue
  SummaryAddsUp
  StopsHonoured
PROPERTIES
  ServesTheOrder
CHECK_DEADLOCK FALSE
