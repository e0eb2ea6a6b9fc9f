\* The engine alone against the daily loss limit.
CONSTANTS
  Loops = {engine}
  Bots = {}
  Symbols = {AAPL, MSFT}
  Quantities = {1, 2, 3, 4, 5, 6}
  Prices = {1, 3}
  SignalPrices = {1, 3}
  BotQuantities = {}
  InitialCapital = 6
  RiskCapital = 6
  MaxPositionPct = 50
  MaxDailyLossPct = 40
  MaxOrders = 4
  MaxDay = 1
  MaxFaults = 1
SPECIFICATION Spec
PROPERTY LossLimitHolds
CHECK_DEADLOCK FALSE
