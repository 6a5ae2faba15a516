-------------------------- MODULE MCFootballServer --------------------------
(* Two clients, for TLC, one of which may go away.  What one asks for is in  *)
(* the tables, or not, depending on how far the other has got: the season of *)
(* a championship, also without a year, a club in it, and the club again.    *)
EXTENDS FootballServer, TLC

CONSTANTS cup, home, y1, br, c1, c2

MCChampionshipName == {cup}
MCClubName == {home}
MCYear == {y1, Empty}
MCCountry == {br}
MCClient == {c1, c2}
MCUnreliable == {c2}
MCMaxRequest == c1 :> 2 @@ c2 :> 1
MCRequests ==
  c1 :> { [type |-> "new_championship", name |-> cup, country |-> br],
          [type |-> "new_season", championship |-> 1, year |-> y1] } @@
  c2 :> { Ping,
          [type |-> "new_club", name |-> home, country |-> br],
          [type |-> "new_season", championship |-> 1, year |-> Empty],
          [type |-> "new_season_club", season |-> 1, club |-> 1] }
=============================================================================
