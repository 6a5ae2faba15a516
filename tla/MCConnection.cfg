CONSTANTS
  MaxRequest = 3
  Faults = {"connectFails", "clientLeaves", "serverDies"}
SPECIFICATION FairSpec
INVARIANTS TypeOK OneWriter WritesFront Framed RepliesInOrder NothingMissing
PROPERTIES UpstreamFifo DownstreamFifo Answered
CHECK_DEADLOCK FALSE
