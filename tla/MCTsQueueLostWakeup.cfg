CONSTANTS
  p1 = p1
  p2 = p2
  Producer <- MCProducer
  consumer = consumer
  Free = Free
  Blocking = TRUE
  MaxPush = 2
SPECIFICATION FairSpec
PROPERTY EveryItemConsumed
