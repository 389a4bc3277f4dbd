----------------------------- MODULE MCAcpAgent -----------------------------
(* The instance of AcpAgent for TLC. *)
EXTENDS AcpAgent
CONSTANTS t1, t2, c1, c2
TwoTurns == {t1, t2}
TwoClosers == {c1, c2}
SomeEfforts == {"", "none", "high"}
SomePostures == {"readOnly", "workspaceWrite", "invalid"}
ClaudeWithAliases ==
  {[harness |-> "claude-code", gatewayBacked |-> FALSE, binding |-> FALSE, alias |-> TRUE,
    small |-> TRUE, effort |-> "high", posture |-> "workspaceWrite", agentSession |-> FALSE]}
FreshBuild == {[restored |-> FALSE, foreignSID |-> FALSE, agentSession |-> FALSE]}
=============================================================================
