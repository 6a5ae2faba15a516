----------------------------- MODULE MCTsQueue -----------------------------
(* Two pushing threads and one consumer, for TLC.  Two producers are enough  *)
(* for one of them to hold queue_mutex while the other wants it; four pushes *)
(* let the queue fill, drain and fill again.                                 *)
EXTENDS TsQueue, TLC

CONSTANTS p1, p2

MCProducer == {p1, p2}
=============================================================================
