\* Two callers: the engine's tick thread and the Telegram bot's thread.
CONSTANTS
  Threads = {engine, telegram}
  Symbols = {AAPL}
  Quantities = {1, 2}
  Prices = {1, 2}
  InitialCapital = 4
  MaxOrders = 4
SPECIFICATION Spec
INVARIANTS TypeOK PositionsAreHeld CashMatchesLog SharesConserved
PROPERTIES OrdersAreAtomic
CHECK_DEADLOCK FALSE
