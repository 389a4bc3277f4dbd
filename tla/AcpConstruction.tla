---------------------------- MODULE AcpConstruction ----------------------------
(***************************************************************************)
(* Construction of an ACP driver and of the loop around it: Config         *)
(* validation, New (dial, session, model, effort and permission selection) *)
(* and the four builders (driver/acp/config.go, driver.go, builder.go).    *)
(* Every step may fail; whatever was acquired before it must then be given *)
(* back, once.                                                             *)
(***************************************************************************)
EXTENDS Naturals, Sequences

CONSTANTS
  Efforts,      \* values of Config.Effort: "", "none" and real ones
  Postures      \* values of Config.Posture: readOnly, workspaceWrite and invalid ones

ASSUME AcpConstructionAssumption ==
  {"", "none"} \subseteq Efforts /\ {"readOnly", "workspaceWrite"} \subseteq Postures

VARIABLES
  cfg,          \* Config
  build,        \* which builder, with the ids of a restored loop's seed
  stage,
  calls,        \* calls on the session and of its creation, in order
  dials, closes,
  abandoned,
  codex         \* the posture the Codex adapter is launched with
bvars == <<cfg, build, stage, calls, dials, closes, abandoned, codex>>

Config == [harness : {"claude-code", "codex", "other"}, gatewayBacked : BOOLEAN,
           binding : BOOLEAN, alias : BOOLEAN, small : BOOLEAN, effort : Efforts,
           posture : Postures, agentSession : BOOLEAN]
(* A fresh build has no seed. *)
Builds == {[restored |-> FALSE, foreignSID |-> FALSE, agentSession |-> FALSE]}
          \cup [restored : {TRUE}, foreignSID : BOOLEAN, agentSession : BOOLEAN]

Stages == {"seed", "validate", "dial", "client", "session", "configure", "ready", "backend",
           "built", "failed"}
Call == {"session/new", "session/load", "default model", "small model", "model", "effort",
         "acceptEdits", "default"}

AcpConstructionTypeOK ==
  /\ cfg \in Config /\ build \in Builds /\ stage \in Stages
  /\ calls \in Seq(Call) /\ Len(calls) <= 5
  /\ dials \in 0..1 /\ closes \in 0..1
  /\ abandoned \in BOOLEAN
  /\ codex \in {"none", "read-only", "workspace-write"}

AcpConstructionInit ==
  /\ cfg \in Config /\ build \in Builds
  /\ stage = "seed" /\ calls = <<>> /\ dials = 0 /\ closes = 0
  /\ abandoned = FALSE /\ codex = "none"

-----------------------------------------------------------------------------
(***************************************************************************)
(* Pure parts.                                                             *)
(***************************************************************************)
ValidClaude(c) == IF c.gatewayBacked THEN c.alias /\ c.small ELSE c.alias = c.small
ValidCodex(c) == ~c.small /\ (c.gatewayBacked => c.alias)

Valid(c) ==
  /\ c.harness \in {"claude-code", "codex"}
  /\ c.binding = c.gatewayBacked
  /\ c.gatewayBacked => c.effort = ""
  /\ c.posture \in {"readOnly", "workspaceWrite"}
  /\ IF c.harness = "claude-code" THEN ValidClaude(c) ELSE ValidCodex(c)
  /\ ~c.gatewayBacked /\ ~c.alias => c.effort = ""

NativeEffort(effort) == IF effort = "none" THEN "" ELSE effort

ClaudePermissionMode(p) == IF p = "workspaceWrite" THEN "acceptEdits" ELSE "default"

CodexSandbox(p) == IF p = "workspaceWrite" THEN "workspace-write" ELSE "read-only"

When(condition, call) == IF condition THEN <<call>> ELSE <<>>

(* Mutant: a loaded session is configured like a fresh one. *)
ClaudeSetupAlways(c) ==
  When(c.alias, "default model") \o When(c.alias, "small model")
    \o When(NativeEffort(c.effort) # "", "effort") \o <<ClaudePermissionMode(c.posture)>>
ClaudeSetup(c) == IF c.agentSession THEN <<>> ELSE
  When(c.alias, "default model") \o When(c.alias, "small model")
    \o When(NativeEffort(c.effort) # "", "effort") \o <<ClaudePermissionMode(c.posture)>>

(* connectorFor gives a gateway-backed Codex no native connector. *)
CodexSetup(c) == IF c.gatewayBacked THEN <<>> ELSE
  When(c.alias, "model") \o When(NativeEffort(c.effort) # "", "effort")

Setup == IF cfg.harness = "claude-code" THEN ClaudeSetup(cfg) ELSE CodexSetup(cfg)

-----------------------------------------------------------------------------
(***************************************************************************)
(* New.                                                                    *)
(***************************************************************************)
(* Every error return of New cancels the driver's context (its deferred call). *)
Fails ==
  /\ stage' = "failed" /\ abandoned' = TRUE
  /\ UNCHANGED <<cfg, build, codex>>

GivesBack == closes + 1

Resumed == [cfg EXCEPT !.agentSession = build.agentSession]

(* BuildRestored: the seed comes first, and its agent session id is what New
   resumes. *)
TakeSeed ==
  /\ stage = "seed"
  /\ \/ /\ ~build.restored
        /\ stage' = "validate" /\ UNCHANGED cfg
     \/ /\ build.restored /\ build.foreignSID
        /\ stage' = "validate" /\ cfg' = Resumed
     \/ /\ build.restored /\ ~build.foreignSID
        /\ stage' = "failed" /\ UNCHANGED cfg
  /\ UNCHANGED <<build, calls, dials, closes, abandoned, codex>>

Validate ==
  /\ stage = "validate"
  /\ stage' = IF Valid(cfg) THEN "dial" ELSE "failed"
  /\ codex' = IF Valid(cfg) /\ cfg.harness = "codex" THEN CodexSandbox(cfg.posture) ELSE "none"
  /\ UNCHANGED <<cfg, build, calls, dials, closes, abandoned>>

Dial ==
  /\ stage = "dial"
  /\ \/ /\ dials' = dials + 1 /\ stage' = "client"
        /\ UNCHANGED <<cfg, build, calls, closes, abandoned, codex>>
     \/ Fails /\ UNCHANGED <<calls, dials, closes>>

TakeClient ==
  /\ stage = "client"
  /\ \/ /\ stage' = "session"
        /\ UNCHANGED <<cfg, build, calls, dials, closes, abandoned, codex>>
     \/ Fails /\ closes' = closes + 1 /\ UNCHANGED <<calls, dials>>

(* A client without session/load refuses before it calls; both calls may fail. *)
CreateSession ==
  /\ stage = "session"
  /\ \/ /\ calls' = <<IF cfg.agentSession THEN "session/load" ELSE "session/new">>
        /\ \/ stage' = "configure" /\ UNCHANGED <<cfg, build, closes, abandoned, codex>>
           \/ Fails /\ closes' = closes + 1
     \/ cfg.agentSession /\ Fails /\ closes' = closes + 1 /\ UNCHANGED calls
  /\ UNCHANGED dials

Configure ==
  /\ stage = "configure"
  /\ \/ /\ Len(calls) <= Len(Setup)
        /\ calls' = Append(calls, Setup[Len(calls)])
        /\ \/ UNCHANGED <<cfg, build, stage, closes, abandoned, codex>>
           \/ Fails /\ closes' = GivesBack
     \/ /\ Len(calls) > Len(Setup)
        /\ stage' = "ready"
        /\ UNCHANGED <<cfg, build, calls, closes, abandoned, codex>>
  /\ UNCHANGED dials

-----------------------------------------------------------------------------
(***************************************************************************)
(* The builders.                                                           *)
(***************************************************************************)
Backend ==
  /\ stage = "ready"
  /\ \/ stage' = "built" /\ UNCHANGED <<cfg, build, closes, abandoned, codex>>
     \/ Fails /\ closes' = closes + 1
  /\ UNCHANGED <<calls, dials>>

AcpConstructionNext ==
  TakeSeed \/ Validate \/ Dial \/ TakeClient \/ CreateSession \/ Configure \/ Backend
AcpConstructionSpec == AcpConstructionInit /\ [][AcpConstructionNext]_bvars

-----------------------------------------------------------------------------
(***************************************************************************)
(* Properties.                                                             *)
(***************************************************************************)
(* Wherever the construction fails, an adapter process that was launched is
   closed exactly once and its context is cancelled, and one that was not built
   is not closed (New: "any failure after dialing closes the owned launch
   result"). *)
NothingLeaks ==
  /\ stage = "failed" => closes = dials /\ (dials > 0 => abandoned)
  /\ stage # "failed" => closes = 0 /\ ~abandoned

(* Construction keeps its books: types, and what was acquired is given back. *)
ConstructionInv == AcpConstructionTypeOK /\ NothingLeaks

(* Nothing is launched for a configuration the documented combinations exclude:
   Claude Code has both aliases or, natively, neither; Codex has no small alias;
   a gateway needs an alias and takes no effort; effort needs an alias (Config). *)
LaunchesOnlyDocumented == dials > 0 =>
  /\ cfg.small = (cfg.harness = "claude-code" /\ cfg.alias)
  /\ cfg.gatewayBacked => cfg.alias /\ cfg.binding /\ cfg.effort = ""
  /\ cfg.effort # "" => cfg.alias

(* The construction never asks for wider access than the posture does: it
   selects a writing mode or sandbox only for a posture that writes, and of a
   fresh Claude session the posture's mode is applied last, whatever was
   selected before (ApplyPermissionMode, codexPosture).  A resumed Claude
   session keeps the mode it had. *)
NeverWider ==
  /\ cfg.posture # "workspaceWrite" =>
       codex # "workspace-write" /\ \A i \in 1..Len(calls) : calls[i] # "acceptEdits"
  /\ stage = "built" /\ cfg.harness = "claude-code" /\ ~cfg.agentSession =>
       calls[Len(calls)] =
         IF cfg.posture = "workspaceWrite" THEN "acceptEdits" ELSE "default"

(* A resumed Claude session keeps its own configuration, and a loop is resumed
   exactly when its journal has an agent session id (New, BuildRestoredWithServices). *)
ResumedIsLeftAlone ==
  /\ calls # <<>> => (calls[1] = "session/load") = cfg.agentSession
  /\ build.restored /\ calls # <<>> => (calls[1] = "session/load") = build.agentSession
  /\ cfg.harness = "claude-code" /\ cfg.agentSession => Len(calls) <= 1

(* What runs is what the configuration and the journal ask for, whichever step
   was the last (validate, New, BuildRestoredWithServices). *)
RunsAsAsked == LaunchesOnlyDocumented /\ NeverWider /\ ResumedIsLeftAlone
=============================================================================
