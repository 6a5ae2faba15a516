-------------------------- MODULE MCFootballStore --------------------------
(* One championship of two seasons, the server's own club and another one,   *)
(* two countries of which the table knows one.  Club ids reach 3, so that a  *)
(* club can be replaced by its namesake of the other country.                *)
EXTENDS FootballStore

CONSTANTS cup, home, away, y1, y2, br, xx

MCChampionshipName == {cup, Empty}
MCClubName == {home, away, Empty}
MCYear == {y1, y2, Empty}
MCCountry == {br, xx}
MCKnownCountry == {br}
=============================================================================
