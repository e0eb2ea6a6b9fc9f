\* The engine's tick thread alone, two symbols.
CONSTANTS
  Loops = {engine}
  Bots = {}
  Symbols = {AAPL, MSFT}
  Quantities = {1, 2, 3, 4, 5}
  Prices = {1, 2}
  SignalPrices = {1, 2}
  BotQuantities = {}
  InitialCapital = 5
  RiskCapital = 5
  MaxPositionPct = 60
  MaxDailyLossPct = 40
  MaxOrders = 4
  MaxDay = 1
  MaxFaults = 1
SPECIFICATION Spec
INVARIANTS EngineOrdersFill TableMirrorsLog
PROPERTY NewPositionWithinLimit
CHECK_DEADLOCK FALSE
