\* One caller: the engine's tick thread alone (run.py --no-telegram).
CONSTANTS
  Threads = {engine}
  Symbols = {AAPL, MSFT}
  Quantities = {1, 2}
  Prices = {0, 1, 3}
  InitialCapital = 7
  MaxOrders = 3
SPECIFICATION Spec
INVARIANTS LogIsChained
PROPERTY ImplementsLedger
CHECK_DEADLOCK FALSE
