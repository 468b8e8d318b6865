SPECIFICATION FairSpec
CONSTANTS
  Labels = {"pinctrl", "expander"}
  PreferredLabels = {"pinctrl"}
  Boards <- MCBoards
  Pins <- MCPins
  SysfsMayMiss = TRUE
  Timeouts = {0, 3}
  RxFifoDepth = 2
  MaxEdges = 3
INVARIANTS TypeOK PollsOrOwnsLine  NeverSleepsOnFrame NoEarlyTimeout ReturnsInTime
PROPERTIES GivesUpOnlyOnEmpty 
CHECK_DEADLOCK FALSE
