---------------------------- MODULE MCTurnArbiter ----------------------------
(* The instance of TurnArbiter for TLC: two calls, and sessions with no or one
   slot for updates, with and without sequences, silent after their answer. *)
EXTENDS TurnArbiter, TLC
CONSTANTS c1, c2
TwoCalls == {c1, c2}
Kind(b, s, t) == [buffer |-> b, sequenced |-> s, chatty |-> t]
AnySession == {Kind(0, TRUE, FALSE), Kind(1, TRUE, FALSE), Kind(0, FALSE, FALSE)}
HandedOver == {Kind(0, TRUE, FALSE)}
=============================================================================
