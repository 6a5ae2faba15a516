CONSTANTS
  t1 = t1
  t2 = t2
  other = other
  Task <- MCTask
  Supported <- MCSupported
  NoTask = NoTask
  Answer <- MCAnswer
  StartsConnected = {FALSE}
  Faults = {FALSE}
  MaxNode = 2
  MaxRestart = 1
SPECIFICATION FairSpec
PROPERTY FirstTaskSettles
CHECK_DEADLOCK FALSE
