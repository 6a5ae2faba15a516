CONSTANTS
  cup = cup
  home = home
  y1 = y1
  y2 = y2
  br = br
  xx = xx
  empty = empty
  ChampionshipName <- MCChampionshipName
  ClubName <- MCClubName
  Year <- MCYear
  Country <- MCCountry
  KnownCountry <- MCKnownCountry
  HomeClub = home
  HomeCountry = br
  Faults = {"crash", "fail"}
  MaxId = 3
  Empty = empty
SPECIFICATION Spec
INVARIANTS TypeOK RowsAccounted
PROPERTY ImplementsStore
