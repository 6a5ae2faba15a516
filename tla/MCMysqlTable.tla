---------------------------- MODULE MCMysqlTable ----------------------------
(* One championship with two seasons, the server's own club and one without  *)
(* a name, for TLC: enough for a season to have two clubs, in either order,  *)
(* and to be given one it has, one it has not and one that does not exist;   *)
(* and for every value that a client may leave empty.                        *)
EXTENDS MysqlTable

CONSTANTS cup, home, y1, y2, br, xx, empty

MCChampionshipName == {cup, empty}
MCClubName == {home, empty}
MCYear == {y1, y2, empty}
MCCountry == {br, xx}
MCKnownCountry == {br}
=============================================================================
