\* The main loop and one /startbot.
CONSTANTS
  Main = main
  Starts = {bot1}
SPECIFICATION Spec
INVARIANTS TypeOK OneLateTick HooksAlternate
PROPERTIES StopEndsLoops OpenIsNoticed
CHECK_DEADLOCK FALSE
