----------------------------- MODULE MCCliStream -----------------------------
(* The instance of CliStream for TLC. *)
EXTENDS CliStream
CONSTANTS agent, child
OneChild == {child}
SomeTexts == {<<"event", "event">>, <<"malformed", "oversized">>}
=============================================================================
