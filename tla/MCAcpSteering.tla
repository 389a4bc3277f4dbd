---------------------------- MODULE MCAcpSteering ----------------------------
(* Small instances of AcpSteering. *)
EXTENDS AcpSteering, TLC

CONSTANTS c1, c2

AnyOfTwo == Permutations({c1, c2})
=============================================================================
