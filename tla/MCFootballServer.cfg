CONSTANTS
  cup = cup
  home = home
  y1 = y1
  br = br
  Empty = Empty
  c1 = c1
  c2 = c2
  ChampionshipName <- MCChampionshipName
  ClubName <- MCClubName
  Year <- MCYear
  Country <- MCCountry
  KnownCountry <- MCCountry
  HomeClub = home
  HomeCountry = br
  Faults = {"crash", "fail"}
  MaxId = 2
  Client <- MCClient
  Requests <- MCRequests
  Unreliable <- MCUnreliable
  MaxRequest <- MCMaxRequest
SPECIFICATION FairSpec
INVARIANTS TypeOK RequestsAccounted RepliesInOrder AnswersHold
PROPERTIES RequestsFifo Answered
CHECK_DEADLOCK FALSE
