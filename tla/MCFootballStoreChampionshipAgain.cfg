CONSTANTS
  cup = cup
  home = home
  away = away
  y1 = y1
  y2 = y2
  br = br
  xx = xx
  Empty = Empty
  ChampionshipName <- MCChampionshipName
  ClubName <- MCClubName
  Year <- MCYear
  Country <- MCCountry
  KnownCountry <- MCKnownCountry
  HomeClub = home
  HomeCountry = br
  Faults = {}
  MaxId = 3
SPECIFICATION Spec
PROPERTY ChampionshipSavedAgain
