------------------------------- MODULE AcpAgent -------------------------------
(***************************************************************************)
(* The life of an ACP agent: a builder constructs the driver, and the loop *)
(* it built spawns turns with it and closes it.  The adapter process is    *)
(* owned by the construction until it succeeds and by the driver's Close   *)
(* afterwards (driver/acp/builder.go, driver.go); what its turns ask       *)
(* permission for is answered by the posture it was built with             *)
(* (permissions.go).                                                       *)
(***************************************************************************)
EXTENDS AcpConstruction, AcpDriver, AcpPermissions

CONSTANTS
  DrivenConfigs,   \* the configurations whose driver is followed
  DrivenBuilds     \* and the builders

avars == <<bvars, dvars>>

AcpAgentInit == AcpConstructionInit /\ AcpDriverInit

Construct == AcpConstructionNext /\ UNCHANGED dvars

(* Mutant: the driver is used before its backend exists. *)
UsableEarly == stage \in {"ready", "built"}
(* The loop has the agent once its builder returned it. *)
Usable == stage = "built"

Drive ==
  /\ Usable /\ cfg \in DrivenConfigs /\ build \in DrivenBuilds
  /\ AcpDriverNext /\ UNCHANGED bvars

AcpAgentNext == Construct \/ Drive

AcpAgentSpec == AcpAgentInit /\ [][AcpAgentNext]_avars
AcpAgentFairSpec == AcpAgentSpec /\ AcpDriverFairness

-----------------------------------------------------------------------------
(* Over its whole life an adapter process that was launched is closed at most
   once, by the construction that failed or by the driver's Close, never by
   both, and a turn runs only while it is open (closeAfterConstructionFailure,
   closeAfterBackendFailure, Close). *)
OneOwner ==
  /\ closes + releases <= dials
  /\ (\E t \in Turns : InTurn(t)) => dials > closes + releases

(* Construction gives back what it acquired; turns and calls of Close share the
   lock, the handle and the client; the process has one owner at a time. *)
AgentInv == ConstructionInv /\ AcpDriverInv /\ OneOwner

(* Access is what the configuration asks for: the session is set up as asked,
   and what its turns ask permission for is answered by its posture (New,
   RequestPermission). *)
AccessAsAsked == RunsAsAsked /\ PermissionsFollowPosture
=============================================================================
