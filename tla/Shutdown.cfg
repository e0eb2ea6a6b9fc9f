\* The main loop alone (run.py --no-telegram).
CONSTANTS
  Main = main
  Starts = {}
SPECIFICATION Spec
INVARIANT GracefulShutdown
CHECK_DEADLOCK FALSE
