---------------------------- MODULE MCForeignLoop ----------------------------
(* The instance of ForeignLoop for TLC. *)
EXTENDS ForeignLoop
AllControls == {"interrupt", "cancel", "shutdown"}
=============================================================================
