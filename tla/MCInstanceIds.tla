--------------------------- MODULE MCInstanceIds ---------------------------
(* Two map threads that free the ids of battlegrounds. *)
EXTENDS InstanceIds

CONSTANTS t1, t2

MapThreads == {t1, t2}
=============================================================================
