---------------------------- MODULE MCForeignLock ----------------------------
(* The instance of ForeignLock for TLC: two turns of one loop, of which the
   first may have been abandoned, and a turn of another process. *)
EXTENDS ForeignLock
ThreeTurns == {"first", "second", "other"}
TheirLoops == [p \in ThreeTurns |-> IF p = "other" THEN "loop2" ELSE "loop1"]
TheirHosts == [p \in ThreeTurns |-> IF p = "other" THEN "host2" ELSE "host1"]
=============================================================================
