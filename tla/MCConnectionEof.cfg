CONSTANTS
  MaxRequest = 1
  Faults = {"serverDies"}
SPECIFICATION FairSpec
PROPERTY AnsweredOrDisconnected
CHECK_DEADLOCK FALSE
