CONSTANTS
  ShowCalls = {"c1", "c2"}
  PlaySessions = {"x"}
  Variants = {"a"}
  LastTurn = 2
  MaxShows = 5
SPECIFICATION ExecutorSpec
PROPERTY SupersededNeverOverwrites
CHECK_DEADLOCK FALSE
