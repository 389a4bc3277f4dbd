---------------------------- MODULE MCProjection ----------------------------
(* The instance of Projection for TLC. *)
EXTENDS Projection
TwoPrograms == [p \in {"arbiter", "other"} |->
  IF p = "arbiter" THEN <<"observations", "events", "observations", "observations">>
  ELSE <<"events", "observations", "observations">>]
TwoProducers == {"arbiter", "other"}
=============================================================================
