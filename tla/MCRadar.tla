------------------------------ MODULE MCRadar ------------------------------
(* Two tasks of a known type and one of an unknown type, for TLC.  Two let a *)
(* batch hold a task while another one runs, and let results queue up.  What *)
(* the publisher answers is what its search finds in some page.              *)
EXTENDS Radar, Publisher

CONSTANTS t1, t2, other

MCTask == {t1, t2, other}
MCSupported == {t1, t2}
MCAnswer == {[success |-> f.success, defined |-> f.name # Undefined] : f \in Found}

\* Whatever page the task being run is about, the publisher's searches find the title
\* and the clubs in it, up to headings inside headings and cells inside cells.
PageSearched == pc = "run" => ChampionshipLocated /\ ClubsLocated
=============================================================================
