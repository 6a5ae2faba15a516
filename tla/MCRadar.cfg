CONSTANTS
  t1 = t1
  t2 = t2
  other = other
  Task <- MCTask
  Supported <- MCSupported
  NoTask = NoTask
  Answer <- MCAnswer
  StartsConnected = {TRUE, FALSE}
  Faults = {TRUE, FALSE}
  MaxNode = 5
  MaxRestart = 2
SPECIFICATION FairSpec
INVARIANTS TypeOK RunsOnce ResultRecorded ResultOnce PageSearched
PROPERTIES StatusPath AbandonedForGood ResultKept Settles ResultLeaves ShutsDown
CHECK_DEADLOCK FALSE
