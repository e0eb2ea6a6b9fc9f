\* The engine's tick thread and the Telegram bot, one symbol.
CONSTANTS
  Loops = {engine}
  Bots = {telegram}
  Symbols = {AAPL}
  Quantities = {1, 2, 3, 4, 5}
  Prices = {0, 1}
  SignalPrices = {1}
  BotQuantities = {1}
  InitialCapital = 4
  RiskCapital = 4
  MaxPositionPct = 50
  MaxDailyLossPct = 40
  MaxOrders = 4
  MaxDay = 1
  MaxFaults = 1
SPECIFICATION Spec
INVARIANTS TypeOK NoSilentLoss BuysMatchLog DailyPnlIsTodays
CHECK_DEADLOCK FALSE
