--------------------------- MODULE MCSteeringTurn ---------------------------
(* Small instances of SteeringTurn: d1 and d2 are delegate requests the
   machine can steer, o is an ordinary input, queued before or not there. *)
EXTENDS SteeringTurn

CONSTANTS d1, d2, o

NoBacklog == <<>>
OneQueued == <<o>>
=============================================================================
