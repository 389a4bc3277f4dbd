---------------------------- MODULE AcpAgent_proofs ----------------------------
(***************************************************************************)
(* What holds of an ACP agent for any configurations, turns and callers:   *)
(* of its construction, of the lock its turns share with Close, of the     *)
(* process that both own in turn, and of what it is permitted.             *)
(***************************************************************************)
EXTENDS AcpAgent, SequenceTheorems, TLAPS

Launched == {"client", "session", "configure", "ready", "backend", "built"}

(* How far the construction got. *)
ProgressInv ==
  /\ dials > 0 => Valid(cfg)
  /\ stage \in Launched \cup {"dial"} => Valid(cfg)
  /\ stage \in Launched => dials = 1
  /\ stage \in {"seed", "validate", "dial"} => dials = 0
  /\ codex = "workspace-write" => cfg.posture = "workspaceWrite"

(* Which session was made, and what was selected for it so far, in order. *)
SelectionInv ==
  /\ stage \in {"seed", "validate", "dial", "client", "session"} => calls = <<>>
  /\ stage \in {"configure", "ready", "built"} => calls # <<>>
  /\ calls # <<>> => /\ Len(calls) <= Len(Setup) + 1
                     /\ calls[1] = IF cfg.agentSession THEN "session/load" ELSE "session/new"
                     /\ \A i \in 2..Len(calls) : calls[i] = Setup[i - 1]
  /\ stage \in {"ready", "built"} => Len(calls) = Len(Setup) + 1
  /\ build.restored /\ (stage \in Launched \cup {"validate", "dial"} \/ calls # <<>>) =>
       cfg.agentSession = build.agentSession

BuiltInv == ConstructionInv /\ ProgressInv /\ SelectionInv

(* The lock is the turn's while it is in it, and Close marks the driver only
   while nobody has it. *)
LockInv ==
  /\ \A t \in Turns : InTurn(t) <=> turnMu = t
  /\ closed => turnMu = "none" /\ driverGone

(* One call of Close goes through the steps, the others wait for it. *)
CloserInv ==
  /\ winner = "none" => releases = 0 /\ \A c \in Closers : closer[c] = "idle"
  /\ \A c \in Closers :
       /\ closer[c] \in {"cancelling", "locking", "releasing"} => winner = c /\ releases = 0
       /\ closer[c] = "locking" => driverGone
       /\ closer[c] = "releasing" => closed
  /\ releases > 0 => closed

(* A watcher is awaited within its turn; a prompt is left only by an arbiter that
   gave up its order or by a driver that closes, and then the fence waits. *)
PromptInv == \A t \in Turns :
  /\ watcher[t] \in {"waiting", "woken", "cancelling"} => InTurn(t)
  /\ turn[t] \in {"idle", "waiting", "refused"} => prompt[t] = "none"
  /\ ordered /\ turn[t] \in {"ended", "retired"} => driverGone \/ prompt[t] = "returned"
  /\ ordered /\ turn[t] \in {"fenced", "finished", "over"} => prompt[t] = "returned"

OwnHit == ordered => \A p \in hit : p[1] = p[2]

DriverIInv == AcpDriverInv /\ LockInv /\ CloserInv /\ PromptInv /\ OwnHit

(* Nobody spawns a turn or closes the driver before it is built. *)
Untouched == stage # "built" => releases = 0 /\ \A t \in Turns : turn[t] = "idle"

AgentIInv == BuiltInv /\ DriverIInv /\ Untouched

-----------------------------------------------------------------------------
(***************************************************************************)
(* Construction.                                                           *)
(***************************************************************************)
LEMMA WhenFacts ==
  ASSUME NEW S, NEW condition, NEW call \in S
  PROVE  When(condition, call) \in Seq(S) /\ Len(When(condition, call)) <= 1
<1>1. CASE condition
  BY <1>1 DEF When
<1>2. CASE ~condition
  BY <1>2 DEF When
<1> QED BY <1>1, <1>2

LEMMA ConcatFacts ==
  ASSUME NEW S, NEW s \in Seq(S), NEW t \in Seq(S), NEW r, r = s \o t
  PROVE  r \in Seq(S) /\ Len(r) = Len(s) + Len(t)
OBVIOUS

LEMMA EndsWith ==
  ASSUME NEW S, NEW s \in Seq(S), NEW x \in S, NEW r, r = s \o <<x>>
  PROVE  r \in Seq(S) /\ Len(r) = Len(s) + 1 /\ r[Len(r)] = x
OBVIOUS

(* What a configuration selects: at most four calls, none of them wider than the
   posture; the mode of a fresh Claude session comes last. *)
Selections == {"default model", "small model", "model", "effort",
               ClaudePermissionMode(cfg.posture)}

LEMMA ClaudeSetupFacts ==
  ASSUME ~cfg.agentSession
  PROVE  /\ ClaudeSetup(cfg) \in Seq(Selections) /\ Len(ClaudeSetup(cfg)) > 0
         /\ Len(ClaudeSetup(cfg)) <= 4
         /\ ClaudeSetup(cfg)[Len(ClaudeSetup(cfg))] = ClaudePermissionMode(cfg.posture)
<1> DEFINE default == When(cfg.alias, "default model")
           small == When(cfg.alias, "small model")
           effort == When(NativeEffort(cfg.effort) # "", "effort")
           mode == ClaudePermissionMode(cfg.posture)
<1>1. /\ default \in Seq(Selections) /\ Len(default) <= 1
      /\ small \in Seq(Selections) /\ Len(small) <= 1
      /\ effort \in Seq(Selections) /\ Len(effort) <= 1
  BY WhenFacts DEF Selections
<1>2. mode \in Selections
  BY DEF Selections
<1> HIDE DEF default, small, effort, mode
<1>3. PICK both, selected, all :
        both = default \o small /\ selected = both \o effort /\ all = selected \o <<mode>>
  OBVIOUS
<1>4. ClaudeSetup(cfg) = all
  BY <1>3 DEF ClaudeSetup, default, small, effort, mode
<1>5. both \in Seq(Selections) /\ Len(both) = Len(default) + Len(small)
  BY <1>1, <1>3, ConcatFacts
<1>6. selected \in Seq(Selections) /\ Len(selected) = Len(both) + Len(effort)
  BY <1>1, <1>3, <1>5, ConcatFacts
<1>7. all \in Seq(Selections) /\ Len(all) = Len(selected) + 1 /\ all[Len(all)] = mode
  BY <1>2, <1>3, <1>6, EndsWith
<1>8. Len(all) > 0 /\ Len(all) <= 4
  BY <1>1, <1>5, <1>6, <1>7
<1> QED BY <1>4, <1>7, <1>8 DEF mode

LEMMA CodexSetupFacts ==
  CodexSetup(cfg) \in Seq(Selections) /\ Len(CodexSetup(cfg)) <= 2
<1> DEFINE model == When(cfg.alias, "model")
           effort == When(NativeEffort(cfg.effort) # "", "effort")
<1>1. /\ model \in Seq(Selections) /\ Len(model) <= 1
      /\ effort \in Seq(Selections) /\ Len(effort) <= 1
  BY WhenFacts DEF Selections
<1>2. CASE cfg.gatewayBacked
  BY <1>2 DEF CodexSetup
<1>3. CASE ~cfg.gatewayBacked
  <2>1. CodexSetup(cfg) = model \o effort
    BY <1>3 DEF CodexSetup
  <2> HIDE DEF model, effort
  <2>2. CodexSetup(cfg) \in Seq(Selections) /\ Len(CodexSetup(cfg)) = Len(model) + Len(effort)
    BY <1>1, <2>1, ConcatFacts
  <2>3. Len(CodexSetup(cfg)) <= 2
    BY <1>1, <2>2
  <2> QED BY <2>2, <2>3
<1> QED BY <1>2, <1>3

LEMMA SetupFacts ==
  /\ Setup \in Seq(Selections) /\ Len(Setup) <= 4
  /\ cfg.harness = "claude-code" /\ cfg.agentSession => Setup = <<>>
  /\ cfg.harness = "claude-code" /\ ~cfg.agentSession =>
       Len(Setup) > 0 /\ Setup[Len(Setup)] = ClaudePermissionMode(cfg.posture)
<1>1. CASE cfg.harness = "claude-code" /\ ~cfg.agentSession
  <2>1. Setup = ClaudeSetup(cfg)
    BY <1>1 DEF Setup
  <2>2. /\ Setup \in Seq(Selections) /\ Len(Setup) > 0 /\ Len(Setup) <= 4
        /\ Setup[Len(Setup)] = ClaudePermissionMode(cfg.posture)
    BY <1>1, <2>1, ClaudeSetupFacts
  <2> QED BY <1>1, <2>2, Zenon
<1>2. CASE cfg.harness = "claude-code" /\ cfg.agentSession
  BY <1>2 DEF Setup, ClaudeSetup
<1>3. CASE cfg.harness # "claude-code"
  BY <1>3, CodexSetupFacts DEF Setup
<1> QED BY <1>1, <1>2, <1>3

LEMMA SelectionsFacts ==
  /\ Selections \subseteq Call
  /\ cfg.posture # "workspaceWrite" => "acceptEdits" \notin Selections
BY DEF Selections, Call, ClaudePermissionMode

LEMMA ConstructionInitially == AcpConstructionInit => BuiltInv
<1> SUFFICES ASSUME AcpConstructionInit PROVE BuiltInv
  OBVIOUS
<1>1. calls \in Seq(Call) /\ Len(calls) <= 5 /\ dials \in 0..1 /\ closes \in 0..1
  BY DEF AcpConstructionInit
<1>3. ConstructionInv
  BY <1>1 DEF AcpConstructionInit, ConstructionInv, AcpConstructionTypeOK, NothingLeaks, Stages
<1>2. ProgressInv /\ SelectionInv
  BY DEF AcpConstructionInit, ProgressInv, SelectionInv, Launched
<1> QED BY <1>2, <1>3 DEF BuiltInv

(* What an action leaves alone keeps its facts. *)
LEMMA SameSetup == ASSUME UNCHANGED cfg PROVE Setup' = Setup
BY DEF Setup

(* An error return gives back the process that was launched. *)
LEMMA FailsStep ==
  ASSUME BuiltInv, stage \in Launched, Fails, closes' = closes + 1, UNCHANGED dials,
         calls' \in Seq(Call), Len(calls') <= 5, SelectionInv'
  PROVE  BuiltInv'
BY DEF BuiltInv, ConstructionInv, AcpConstructionTypeOK, NothingLeaks, ProgressInv, Launched, Fails,
       Stages

LEMMA TakeSeedKeeps == BuiltInv /\ TakeSeed => BuiltInv'
<1> SUFFICES ASSUME BuiltInv, TakeSeed PROVE BuiltInv'
  OBVIOUS
<1> USE DEF BuiltInv, ConstructionInv
<1>0. cfg \in Config /\ build.agentSession \in BOOLEAN
  <2>1. CASE build = [restored |-> FALSE, foreignSID |-> FALSE, agentSession |-> FALSE]
    BY <2>1 DEF AcpConstructionTypeOK
  <2>2. CASE build \in [restored : {TRUE}, foreignSID : BOOLEAN, agentSession : BOOLEAN]
    BY <2>2 DEF AcpConstructionTypeOK
  <2> QED BY <2>1, <2>2 DEF AcpConstructionTypeOK, Builds
<1>1. cfg' \in Config /\ cfg'.posture = cfg.posture
  <2>1. Resumed \in Config /\ Resumed.posture = cfg.posture
    BY <1>0 DEF Resumed, Config
  <2> QED BY <1>0, <2>1 DEF TakeSeed
<1>2. AcpConstructionTypeOK'
  BY <1>1 DEF AcpConstructionTypeOK, TakeSeed, Stages
<1>3. NothingLeaks'
  BY DEF ProgressInv, NothingLeaks, TakeSeed
<1>4. ProgressInv'
  BY <1>1 DEF ProgressInv, TakeSeed, Launched
<1>5. build.restored /\ stage' = "validate" => cfg'.agentSession = build.agentSession
  BY DEF AcpConstructionTypeOK, TakeSeed, Resumed, Config, Builds
<1>6. SelectionInv'
  BY <1>5 DEF SelectionInv, TakeSeed, Launched
<1> QED BY <1>2, <1>3, <1>4, <1>6

LEMMA ValidateKeeps == BuiltInv /\ Validate => BuiltInv'
<1> SUFFICES ASSUME BuiltInv, Validate PROVE BuiltInv'
  OBVIOUS
<1> USE DEF BuiltInv, ConstructionInv
<1>1. AcpConstructionTypeOK'
  BY DEF AcpConstructionTypeOK, Validate, CodexSandbox, Stages
<1>2. NothingLeaks'
  BY DEF ProgressInv, NothingLeaks, Validate
<1>3. ProgressInv'
  BY DEF ProgressInv, Validate, CodexSandbox, Launched
<1>4. SelectionInv'
  BY DEF SelectionInv, Validate, Launched
<1> QED BY <1>1, <1>2, <1>3, <1>4

LEMMA DialKeeps == BuiltInv /\ Dial => BuiltInv'
<1> SUFFICES ASSUME BuiltInv, Dial PROVE BuiltInv'
  OBVIOUS
<1> USE DEF BuiltInv, ConstructionInv
<1>1. AcpConstructionTypeOK'
  <2>1. dials = 0
    BY DEF ProgressInv, Dial
  <2>2. CASE dials' = dials + 1 /\ stage' = "client"
    BY <2>1, <2>2 DEF AcpConstructionTypeOK, Dial, Fails, Stages
  <2>3. CASE Fails
    BY <2>3 DEF AcpConstructionTypeOK, Dial, Fails, Stages
  <2> QED BY <2>2, <2>3 DEF Dial
<1>2. NothingLeaks'
  BY DEF ProgressInv, NothingLeaks, Dial, Fails
<1>3. ProgressInv'
  BY DEF ProgressInv, Dial, Fails, Launched
<1>4. SelectionInv'
  BY DEF SelectionInv, Dial, Fails, Launched
<1> QED BY <1>1, <1>2, <1>3, <1>4

LEMMA TakeClientKeeps == BuiltInv /\ TakeClient => BuiltInv'
<1> SUFFICES ASSUME BuiltInv, TakeClient PROVE BuiltInv'
  OBVIOUS
<1> USE DEF BuiltInv, ConstructionInv
<1>1. SelectionInv'
  BY DEF SelectionInv, TakeClient, Fails, Launched
<1>2. CASE stage' = "session"
  BY <1>1, <1>2 DEF AcpConstructionTypeOK, NothingLeaks, ProgressInv, TakeClient, Fails, Stages,
                    Launched
<1>3. CASE stage' # "session"
  BY <1>1, <1>3, FailsStep DEF TakeClient, AcpConstructionTypeOK, Launched
<1> QED BY <1>2, <1>3

LEMMA CreateSessionKeeps == BuiltInv /\ CreateSession => BuiltInv'
<1> SUFFICES ASSUME BuiltInv, CreateSession PROVE BuiltInv'
  OBVIOUS
<1> USE DEF BuiltInv, ConstructionInv
<1>1. UNCHANGED <<cfg, build, codex, dials>> /\ stage = "session" /\ calls = <<>>
  BY DEF CreateSession, Fails, SelectionInv
<1>2. calls' \in Seq(Call) /\ Len(calls') <= 5
  <2>1. calls' = calls \/ \E call \in Call : calls' = <<call>>
    BY DEF CreateSession, Call
  <2>2. CASE calls' = calls
    BY <2>2 DEF AcpConstructionTypeOK
  <2>3. ASSUME NEW call \in Call, calls' = <<call>>
        PROVE  calls' \in Seq(Call) /\ Len(calls') <= 5
    BY <2>3
  <2> QED BY <2>1, <2>2, <2>3
<1>3. SelectionInv'
  <2>1. CASE calls' = calls /\ stage' = "failed"
    BY <1>1, <2>1 DEF SelectionInv, Launched
  <2>2. CASE calls' = <<IF cfg.agentSession THEN "session/load" ELSE "session/new">>
             /\ stage' \in {"configure", "failed"}
    <3>1. /\ Len(calls') = 1 /\ calls' # <<>>
          /\ calls'[1] = IF cfg.agentSession THEN "session/load" ELSE "session/new"
      BY <2>2
    <3>2. Setup' \in Seq(Selections)
      BY <1>1, SameSetup, SetupFacts
    <3>3. Len(calls') <= Len(Setup') + 1 /\ (\A i \in 2..Len(calls') : calls'[i] = Setup'[i - 1])
      BY <3>1, <3>2
    <3>4. build.restored => cfg.agentSession = build.agentSession
      BY <1>1 DEF SelectionInv, Launched
    <3> QED BY <1>1, <2>2, <3>1, <3>3, <3>4 DEF SelectionInv
  <2> QED BY <2>1, <2>2 DEF CreateSession, Fails
<1>4. CASE stage' = "configure"
  BY <1>1, <1>2, <1>3, <1>4 DEF AcpConstructionTypeOK, NothingLeaks, ProgressInv, CreateSession,
                                Fails, Stages, Launched
<1>5. CASE stage' # "configure"
  BY <1>1, <1>2, <1>3, <1>5, FailsStep DEF CreateSession, Launched
<1> QED BY <1>4, <1>5

(* The next selection goes behind those that were made. *)
LEMMA NextSelection ==
  ASSUME BuiltInv, stage = "configure", UNCHANGED <<cfg, build>>,
         Len(calls) <= Len(Setup), calls' = Append(calls, Setup[Len(calls)]),
         stage' \in {"configure", "failed"}
  PROVE  calls' \in Seq(Call) /\ Len(calls') <= 5 /\ SelectionInv'
<1> DEFINE call == Setup[Len(calls)]
<1>1. /\ calls \in Seq(Call) /\ calls # <<>> /\ Len(calls) \in Nat /\ Len(calls) > 0
      /\ calls[1] = IF cfg.agentSession THEN "session/load" ELSE "session/new"
      /\ \A i \in 2..Len(calls) : calls[i] = Setup[i - 1]
      /\ build.restored => cfg.agentSession = build.agentSession
  BY DEF BuiltInv, ConstructionInv, AcpConstructionTypeOK, SelectionInv, Launched
<1>2. Setup \in Seq(Selections) /\ Len(Setup) <= 4 /\ Setup' = Setup /\ Selections \subseteq Call
  BY SetupFacts, SameSetup, SelectionsFacts
<1>3. call \in Call
  BY <1>1, <1>2
<1> HIDE DEF call
<1>4. calls' = Append(calls, call)
  BY DEF call
<1>5. /\ calls' \in Seq(Call) /\ Len(calls') = Len(calls) + 1 /\ calls' # <<>>
      /\ \A i \in 1..Len(calls) : calls'[i] = calls[i]
      /\ calls'[Len(calls) + 1] = call
  BY <1>1, <1>3, <1>4
<1>6. \A i \in 2..Len(calls') : calls'[i] = Setup[i - 1]
  <2> TAKE i \in 2..Len(calls')
  <2>1. CASE i <= Len(calls)
    BY <1>1, <1>5, <2>1
  <2>2. CASE i > Len(calls)
    BY <1>1, <1>5, <2>2 DEF call
  <2> QED BY <1>1, <1>5, <2>1, <2>2
<1>7. calls'[1] = calls[1] /\ Len(calls') <= Len(Setup) + 1 /\ Len(calls') <= 5
  BY <1>1, <1>2, <1>5
<1>8. SelectionInv'
  BY <1>1, <1>2, <1>5, <1>6, <1>7 DEF SelectionInv
<1> QED BY <1>5, <1>7, <1>8

LEMMA ConfigureKeeps == BuiltInv /\ Configure => BuiltInv'
<1> SUFFICES ASSUME BuiltInv, Configure PROVE BuiltInv'
  OBVIOUS
<1>1. CASE Len(calls) <= Len(Setup) /\ calls' = Append(calls, Setup[Len(calls)])
  <2>1. calls' \in Seq(Call) /\ Len(calls') <= 5 /\ SelectionInv'
    BY <1>1, NextSelection DEF Configure, Fails
  <2>2. CASE UNCHANGED <<cfg, build, stage, closes, abandoned, codex>>
    BY <2>1, <2>2 DEF BuiltInv, ConstructionInv, AcpConstructionTypeOK, NothingLeaks, ProgressInv,
                      Configure, Launched
  <2>3. CASE Fails /\ closes' = closes + 1
    BY <2>1, <2>3, FailsStep DEF Configure, Launched
  <2> QED BY <1>1, <2>2, <2>3 DEF Configure, GivesBack
<1>2. CASE /\ Len(calls) > Len(Setup) /\ stage' = "ready"
           /\ UNCHANGED <<cfg, build, calls, closes, abandoned, codex>>
  <2>1. Len(calls) = Len(Setup) + 1
    BY <1>2, SetupFacts DEF BuiltInv, ConstructionInv, AcpConstructionTypeOK, SelectionInv, Configure
  <2>2. SelectionInv'
    BY <1>2, <2>1, SameSetup DEF BuiltInv, SelectionInv, Configure, Launched
  <2> QED BY <1>2, <2>2 DEF BuiltInv, ConstructionInv, AcpConstructionTypeOK, NothingLeaks,
                            ProgressInv, Configure, Stages, Launched
<1> QED BY <1>1, <1>2 DEF Configure

LEMMA BackendKeeps == BuiltInv /\ Backend => BuiltInv'
<1> SUFFICES ASSUME BuiltInv, Backend PROVE BuiltInv'
  OBVIOUS
<1> USE DEF BuiltInv, ConstructionInv
<1>1. SelectionInv'
  BY SameSetup DEF SelectionInv, Backend, Fails, Launched
<1>2. CASE stage' = "built"
  BY <1>1, <1>2 DEF AcpConstructionTypeOK, NothingLeaks, ProgressInv, Backend, Fails, Stages,
                    Launched
<1>3. CASE stage' # "built"
  BY <1>1, <1>3, FailsStep DEF Backend, AcpConstructionTypeOK, Launched
<1> QED BY <1>2, <1>3

LEMMA ConstructionKeeps == BuiltInv /\ AcpConstructionNext => BuiltInv'
BY TakeSeedKeeps, ValidateKeeps, DialKeeps, TakeClientKeeps, CreateSessionKeeps, ConfigureKeeps,
   BackendKeeps DEF AcpConstructionNext

-----------------------------------------------------------------------------
(***************************************************************************)
(* What was built is what was asked for.                                   *)
(***************************************************************************)
(* Of the valid configurations, those that were launched are documented. *)
LEMMA ValidIsDocumented == BuiltInv => LaunchesOnlyDocumented
<1> SUFFICES ASSUME BuiltInv, dials > 0
             PROVE  /\ cfg.small = (cfg.harness = "claude-code" /\ cfg.alias)
                    /\ cfg.gatewayBacked => cfg.alias /\ cfg.binding /\ cfg.effort = ""
                    /\ cfg.effort # "" => cfg.alias
  BY DEF LaunchesOnlyDocumented
<1>1. Valid(cfg)
  BY DEF BuiltInv, ProgressInv
<1>2. cfg.small \in BOOLEAN /\ cfg.alias \in BOOLEAN
  BY DEF BuiltInv, ConstructionInv, AcpConstructionTypeOK, Config
<1>3. "claude-code" # "codex"
  OBVIOUS
<1>4. CASE cfg.harness = "claude-code"
  BY <1>1, <1>2, <1>4, Zenon DEF Valid, ValidClaude
<1>5. CASE cfg.harness = "codex"
  BY <1>1, <1>2, <1>3, <1>5, Zenon DEF Valid, ValidCodex
<1> QED BY <1>1, <1>4, <1>5, Zenon DEF Valid

(* Every selection is one of the posture's, and the mode comes last. *)
LEMMA SelectionsAreNoWider == BuiltInv => NeverWider
<1> SUFFICES ASSUME BuiltInv PROVE NeverWider
  OBVIOUS
<1>1. /\ calls \in Seq(Call)
      /\ calls # <<>> => Len(calls) <= Len(Setup) + 1
      /\ calls # <<>> => calls[1] \in {"session/load", "session/new"}
      /\ calls # <<>> => \A i \in 2..Len(calls) : calls[i] = Setup[i - 1]
  BY DEF BuiltInv, ConstructionInv, AcpConstructionTypeOK, SelectionInv
<1>2. Setup \in Seq(Selections)
  BY SetupFacts
<1>3. ASSUME cfg.posture # "workspaceWrite", NEW i \in 1..Len(calls)
      PROVE  calls[i] # "acceptEdits"
  <2>1. CASE i = 1
    BY <1>1, <1>3, <2>1
  <2>2. CASE i # 1
    <3>1. calls[i] \in Selections
      BY <1>1, <1>2, <1>3, <2>2
    <3> QED BY <1>3, <3>1, SelectionsFacts
  <2> QED BY <2>1, <2>2
<1>4. cfg.posture # "workspaceWrite" => codex # "workspace-write"
  BY DEF BuiltInv, ProgressInv
<1>5. ASSUME stage = "built", cfg.harness = "claude-code", ~cfg.agentSession
      PROVE  calls[Len(calls)] = ClaudePermissionMode(cfg.posture)
  <2>1. /\ Len(Setup) > 0 /\ Setup[Len(Setup)] = ClaudePermissionMode(cfg.posture)
        /\ Len(calls) = Len(Setup) + 1 /\ calls # <<>>
    BY <1>5, SetupFacts DEF BuiltInv, SelectionInv
  <2>2. calls[Len(calls)] = Setup[Len(calls) - 1]
    BY <1>1, <1>2, <2>1
  <2> QED BY <1>2, <2>1, <2>2
<1> QED BY <1>3, <1>4, <1>5 DEF NeverWider, ClaudePermissionMode

LEMMA SessionIsTheJournals == BuiltInv => ResumedIsLeftAlone
<1> SUFFICES ASSUME BuiltInv PROVE ResumedIsLeftAlone
  OBVIOUS
<1>1. cfg.agentSession \in BOOLEAN
  BY DEF BuiltInv, ConstructionInv, AcpConstructionTypeOK, Config
<1>2. calls # <<>> => (calls[1] = "session/load") = cfg.agentSession
  BY <1>1 DEF BuiltInv, SelectionInv
<1>3. build.restored /\ calls # <<>> => (calls[1] = "session/load") = build.agentSession
  BY <1>2 DEF BuiltInv, SelectionInv
<1>4. cfg.harness = "claude-code" /\ cfg.agentSession => Len(calls) <= 1
  BY SetupFacts DEF BuiltInv, SelectionInv, ConstructionInv, AcpConstructionTypeOK
<1> QED BY <1>2, <1>3, <1>4 DEF ResumedIsLeftAlone

LEMMA BuiltAsAsked == BuiltInv => ConstructionInv /\ RunsAsAsked
BY ValidIsDocumented, SelectionsAreNoWider, SessionIsTheJournals DEF BuiltInv, RunsAsAsked

-----------------------------------------------------------------------------
(***************************************************************************)
(* The driver: turns and calls of Close over one lock and one process.     *)
(***************************************************************************)
LEMMA DriverInitially == AcpDriverInit => DriverIInv
<1> SUFFICES ASSUME AcpDriverInit PROVE DriverIInv
  OBVIOUS
<1> USE AcpDriverAssumption DEF AcpDriverInit
<1>1. AcpDriverTypeOK
  <2>1. closed = FALSE /\ driverGone = FALSE /\ releases \in 0..1
    OBVIOUS
  <2>2. {closed, driverGone} \subseteq BOOLEAN
    BY <2>1, Zenon
  <2> QED BY <2>1, <2>2 DEF AcpDriverTypeOK, TurnPhases, CloserPhases
<1>2. ActiveIsTheTurn /\ NoTurnOnReleasedClient /\ LockInv
  BY DEF ActiveIsTheTurn, NoTurnOnReleasedClient, LockInv, InTurn
<1>3. CloserInv /\ PromptInv /\ OwnHit
  BY DEF CloserInv, PromptInv, OwnHit, InTurn
<1> QED BY <1>1, <1>2, <1>3 DEF DriverIInv, AcpDriverInv

LEMMA CallSpawnKeeps ==
  ASSUME NEW t \in Turns, DriverIInv, CallSpawn(t) PROVE DriverIInv'
<1> USE AcpDriverAssumption DEF DriverIInv, AcpDriverInv, AcpDriverTypeOK
<1>1. AcpDriverTypeOK'
  BY DEF CallSpawn, turnVars, closeVars, TurnPhases, CloserPhases
<1>2. ActiveIsTheTurn' /\ NoTurnOnReleasedClient'
  BY DEF CallSpawn, turnVars, closeVars, ActiveIsTheTurn, NoTurnOnReleasedClient, LockInv, CloserInv, InTurn
<1>3. LockInv'
  BY DEF CallSpawn, turnVars, closeVars, LockInv, CloserInv, InTurn
<1>4. CloserInv'
  BY DEF CallSpawn, turnVars, closeVars, CloserInv
<1>5. PromptInv'
  BY DEF CallSpawn, turnVars, closeVars, PromptInv, LockInv, InTurn
<1>6. OwnHit'
  BY DEF CallSpawn, turnVars, closeVars, OwnHit, PromptInv, LockInv, InTurn
<1> QED BY <1>1, <1>2, <1>3, <1>4, <1>5, <1>6

LEMMA RefuseKeeps ==
  ASSUME NEW t \in Turns, DriverIInv, Refuse(t) PROVE DriverIInv'
<1> USE AcpDriverAssumption DEF DriverIInv, AcpDriverInv, AcpDriverTypeOK
<1>1. AcpDriverTypeOK'
  BY DEF Refuse, Admits, LockFreed, turnVars, closeVars, TurnPhases, CloserPhases
<1>2. ActiveIsTheTurn' /\ NoTurnOnReleasedClient'
  BY DEF Refuse, Admits, LockFreed, turnVars, closeVars, ActiveIsTheTurn, NoTurnOnReleasedClient, LockInv, CloserInv, InTurn
<1>3. LockInv'
  BY DEF Refuse, Admits, LockFreed, turnVars, closeVars, LockInv, CloserInv, InTurn
<1>4. CloserInv'
  BY DEF Refuse, Admits, LockFreed, turnVars, closeVars, CloserInv
<1>5. PromptInv'
  BY DEF Refuse, Admits, LockFreed, turnVars, closeVars, PromptInv, LockInv, InTurn
<1>6. OwnHit'
  BY DEF Refuse, Admits, LockFreed, turnVars, closeVars, OwnHit, PromptInv, LockInv, InTurn
<1> QED BY <1>1, <1>2, <1>3, <1>4, <1>5, <1>6

LEMMA OpenKeeps ==
  ASSUME NEW t \in Turns, DriverIInv, Open(t) PROVE DriverIInv'
<1> USE AcpDriverAssumption DEF DriverIInv, AcpDriverInv, AcpDriverTypeOK
<1>1. AcpDriverTypeOK'
  BY DEF Open, Admits, turnVars, closeVars, TurnPhases, CloserPhases
<1>2. ActiveIsTheTurn' /\ NoTurnOnReleasedClient'
  BY DEF Open, Admits, turnVars, closeVars, ActiveIsTheTurn, NoTurnOnReleasedClient, LockInv, CloserInv, InTurn
<1>3. LockInv'
  BY DEF Open, Admits, turnVars, closeVars, LockInv, CloserInv, InTurn
<1>4. CloserInv'
  BY DEF Open, Admits, turnVars, closeVars, CloserInv
<1>5. PromptInv'
  BY DEF Open, Admits, turnVars, closeVars, PromptInv, LockInv, InTurn
<1>6. OwnHit'
  BY DEF Open, Admits, turnVars, closeVars, OwnHit, PromptInv, LockInv, InTurn
<1> QED BY <1>1, <1>2, <1>3, <1>4, <1>5, <1>6

LEMMA CancelTurnKeeps ==
  ASSUME NEW t \in Turns, DriverIInv, CancelTurn(t) PROVE DriverIInv'
<1> USE AcpDriverAssumption DEF DriverIInv, AcpDriverInv, AcpDriverTypeOK
<1>1. AcpDriverTypeOK'
  BY DEF CancelTurn, turnVars, closeVars, TurnPhases, CloserPhases
<1>2. ActiveIsTheTurn' /\ NoTurnOnReleasedClient'
  BY DEF CancelTurn, turnVars, closeVars, ActiveIsTheTurn, NoTurnOnReleasedClient, LockInv, CloserInv, InTurn
<1>3. LockInv'
  BY DEF CancelTurn, turnVars, closeVars, LockInv, CloserInv, InTurn
<1>4. CloserInv'
  BY DEF CancelTurn, turnVars, closeVars, CloserInv
<1>5. PromptInv'
  BY DEF CancelTurn, turnVars, closeVars, PromptInv, LockInv, InTurn
<1>6. OwnHit'
  BY DEF CancelTurn, turnVars, closeVars, OwnHit, PromptInv, LockInv, InTurn
<1> QED BY <1>1, <1>2, <1>3, <1>4, <1>5, <1>6

LEMMA PromptReturnsKeeps ==
  ASSUME NEW t \in Turns, DriverIInv, PromptReturns(t) PROVE DriverIInv'
<1> USE AcpDriverAssumption DEF DriverIInv, AcpDriverInv, AcpDriverTypeOK
<1>1. AcpDriverTypeOK'
  BY DEF PromptReturns, turnVars, closeVars, TurnPhases, CloserPhases
<1>2. ActiveIsTheTurn' /\ NoTurnOnReleasedClient'
  BY DEF PromptReturns, turnVars, closeVars, ActiveIsTheTurn, NoTurnOnReleasedClient, LockInv, CloserInv, InTurn
<1>3. LockInv'
  BY DEF PromptReturns, turnVars, closeVars, LockInv, CloserInv, InTurn
<1>4. CloserInv'
  BY DEF PromptReturns, turnVars, closeVars, CloserInv
<1>5. PromptInv'
  BY DEF PromptReturns, turnVars, closeVars, PromptInv, LockInv, InTurn
<1>6. OwnHit'
  BY DEF PromptReturns, turnVars, closeVars, OwnHit, PromptInv, LockInv, InTurn
<1> QED BY <1>1, <1>2, <1>3, <1>4, <1>5, <1>6

LEMMA WakeKeeps ==
  ASSUME NEW t \in Turns, DriverIInv, Wake(t) PROVE DriverIInv'
<1> USE AcpDriverAssumption DEF DriverIInv, AcpDriverInv, AcpDriverTypeOK
<1>1. AcpDriverTypeOK'
  BY DEF Wake, turnVars, closeVars, TurnPhases, CloserPhases
<1>2. ActiveIsTheTurn' /\ NoTurnOnReleasedClient'
  BY DEF Wake, turnVars, closeVars, ActiveIsTheTurn, NoTurnOnReleasedClient, LockInv, CloserInv, InTurn
<1>3. LockInv'
  BY DEF Wake, turnVars, closeVars, LockInv, CloserInv, InTurn
<1>4. CloserInv'
  BY DEF Wake, turnVars, closeVars, CloserInv
<1>5. PromptInv'
  BY DEF Wake, turnVars, closeVars, PromptInv, LockInv, InTurn
<1>6. OwnHit'
  BY DEF Wake, turnVars, closeVars, OwnHit, PromptInv, LockInv, InTurn
<1> QED BY <1>1, <1>2, <1>3, <1>4, <1>5, <1>6

LEMMA BeginCancelKeeps ==
  ASSUME NEW t \in Turns, DriverIInv, BeginCancel(t) PROVE DriverIInv'
<1> USE AcpDriverAssumption DEF DriverIInv, AcpDriverInv, AcpDriverTypeOK
<1>1. AcpDriverTypeOK'
  BY DEF BeginCancel, MayCancel, turnVars, closeVars, TurnPhases, CloserPhases
<1>2. ActiveIsTheTurn' /\ NoTurnOnReleasedClient'
  BY DEF BeginCancel, MayCancel, turnVars, closeVars, ActiveIsTheTurn, NoTurnOnReleasedClient, LockInv, CloserInv, InTurn
<1>3. LockInv'
  BY DEF BeginCancel, MayCancel, turnVars, closeVars, LockInv, CloserInv, InTurn
<1>4. CloserInv'
  BY DEF BeginCancel, MayCancel, turnVars, closeVars, CloserInv
<1>5. PromptInv'
  BY DEF BeginCancel, MayCancel, turnVars, closeVars, PromptInv, LockInv, InTurn
<1>6. OwnHit'
  BY DEF BeginCancel, MayCancel, turnVars, closeVars, OwnHit, PromptInv, LockInv, InTurn
<1> QED BY <1>1, <1>2, <1>3, <1>4, <1>5, <1>6

LEMMA SendCancelKeeps ==
  ASSUME NEW t \in Turns, DriverIInv, SendCancel(t) PROVE DriverIInv'
<1> USE AcpDriverAssumption DEF DriverIInv, AcpDriverInv, AcpDriverTypeOK
<1>1. AcpDriverTypeOK'
  BY DEF SendCancel, turnVars, closeVars, TurnPhases, CloserPhases
<1>2. ActiveIsTheTurn' /\ NoTurnOnReleasedClient'
  BY DEF SendCancel, turnVars, closeVars, ActiveIsTheTurn, NoTurnOnReleasedClient, LockInv, CloserInv, InTurn
<1>3. LockInv'
  BY DEF SendCancel, turnVars, closeVars, LockInv, CloserInv, InTurn
<1>4. CloserInv'
  BY DEF SendCancel, turnVars, closeVars, CloserInv
<1>5. PromptInv'
  BY DEF SendCancel, turnVars, closeVars, PromptInv, LockInv, InTurn
<1>6. OwnHit'
  <2>1. ordered => \A u \in Turns : prompt[u] = "inflight" => u = t
    <3> SUFFICES ASSUME ordered, NEW u \in Turns, prompt[u] = "inflight" PROVE u = t
      OBVIOUS
    <3>1. InTurn(t)
      BY DEF SendCancel, PromptInv
    <3>2. InTurn(u) \/ turn[u] = "over"
      BY DEF PromptInv, InTurn, TurnPhases
    <3>3. turn[u] # "over"
      BY DEF PromptInv
    <3> QED BY <3>1, <3>2, <3>3 DEF LockInv
  <2>2. /\ ordered' = ordered
        /\ hit' \in {hit, hit \cup {<<t, u>> : u \in {u \in Turns : prompt[u] = "inflight"}}}
    BY DEF SendCancel
  <2>3. ASSUME ordered, NEW p \in hit' PROVE p[1] = p[2]
    <3>1. CASE p \in hit
      BY <2>3, <3>1 DEF OwnHit
    <3>2. CASE p \notin hit
      <4>1. PICK u \in Turns : prompt[u] = "inflight" /\ p = <<t, u>>
        BY <2>2, <3>2
      <4> QED BY <2>1, <2>3, <4>1
    <3> QED BY <3>1, <3>2
  <2> QED BY <2>2, <2>3 DEF OwnHit
<1> QED BY <1>1, <1>2, <1>3, <1>4, <1>5, <1>6

LEMMA ArbiterReturnsKeeps ==
  ASSUME NEW t \in Turns, DriverIInv, ArbiterReturns(t) PROVE DriverIInv'
<1> USE AcpDriverAssumption DEF DriverIInv, AcpDriverInv, AcpDriverTypeOK
<1>1. AcpDriverTypeOK'
  BY DEF ArbiterReturns, turnVars, closeVars, TurnPhases, CloserPhases
<1>2. ActiveIsTheTurn' /\ NoTurnOnReleasedClient'
  BY DEF ArbiterReturns, turnVars, closeVars, ActiveIsTheTurn, NoTurnOnReleasedClient, LockInv, CloserInv, InTurn
<1>3. LockInv'
  BY DEF ArbiterReturns, turnVars, closeVars, LockInv, CloserInv, InTurn
<1>4. CloserInv'
  BY DEF ArbiterReturns, turnVars, closeVars, CloserInv
<1>5. PromptInv'
  BY DEF ArbiterReturns, turnVars, closeVars, PromptInv, LockInv, InTurn
<1>6. OwnHit'
  BY DEF ArbiterReturns, turnVars, closeVars, OwnHit, PromptInv, LockInv, InTurn
<1> QED BY <1>1, <1>2, <1>3, <1>4, <1>5, <1>6

LEMMA RetireKeeps ==
  ASSUME NEW t \in Turns, DriverIInv, Retire(t) PROVE DriverIInv'
<1> USE AcpDriverAssumption DEF DriverIInv, AcpDriverInv, AcpDriverTypeOK
<1>1. AcpDriverTypeOK'
  BY DEF Retire, WithoutHandle, turnVars, closeVars, TurnPhases, CloserPhases
<1>2. ActiveIsTheTurn' /\ NoTurnOnReleasedClient'
  BY DEF Retire, WithoutHandle, turnVars, closeVars, ActiveIsTheTurn, NoTurnOnReleasedClient, LockInv, CloserInv, InTurn
<1>3. LockInv'
  BY DEF Retire, WithoutHandle, turnVars, closeVars, LockInv, CloserInv, InTurn
<1>4. CloserInv'
  BY DEF Retire, WithoutHandle, turnVars, closeVars, CloserInv
<1>5. PromptInv'
  BY DEF Retire, WithoutHandle, turnVars, closeVars, PromptInv, LockInv, InTurn
<1>6. OwnHit'
  BY DEF Retire, WithoutHandle, turnVars, closeVars, OwnHit, PromptInv, LockInv, InTurn
<1> QED BY <1>1, <1>2, <1>3, <1>4, <1>5, <1>6

LEMMA FenceKeeps ==
  ASSUME NEW t \in Turns, DriverIInv, Fence(t) PROVE DriverIInv'
<1> USE AcpDriverAssumption DEF DriverIInv, AcpDriverInv, AcpDriverTypeOK
<1>1. AcpDriverTypeOK'
  BY DEF Fence, Fenced, turnVars, closeVars, TurnPhases, CloserPhases
<1>2. ActiveIsTheTurn' /\ NoTurnOnReleasedClient'
  BY DEF Fence, Fenced, turnVars, closeVars, ActiveIsTheTurn, NoTurnOnReleasedClient, LockInv, CloserInv, InTurn
<1>3. LockInv'
  BY DEF Fence, Fenced, turnVars, closeVars, LockInv, CloserInv, InTurn
<1>4. CloserInv'
  BY DEF Fence, Fenced, turnVars, closeVars, CloserInv
<1>5. PromptInv'
  BY DEF Fence, Fenced, turnVars, closeVars, PromptInv, LockInv, InTurn
<1>6. OwnHit'
  BY DEF Fence, Fenced, turnVars, closeVars, OwnHit, PromptInv, LockInv, InTurn
<1> QED BY <1>1, <1>2, <1>3, <1>4, <1>5, <1>6

LEMMA FinishLifecycleKeeps ==
  ASSUME NEW t \in Turns, DriverIInv, FinishLifecycle(t) PROVE DriverIInv'
<1> USE AcpDriverAssumption DEF DriverIInv, AcpDriverInv, AcpDriverTypeOK
<1>1. AcpDriverTypeOK'
  BY DEF FinishLifecycle, turnVars, closeVars, TurnPhases, CloserPhases
<1>2. ActiveIsTheTurn' /\ NoTurnOnReleasedClient'
  BY DEF FinishLifecycle, turnVars, closeVars, ActiveIsTheTurn, NoTurnOnReleasedClient, LockInv, CloserInv, InTurn
<1>3. LockInv'
  BY DEF FinishLifecycle, turnVars, closeVars, LockInv, CloserInv, InTurn
<1>4. CloserInv'
  BY DEF FinishLifecycle, turnVars, closeVars, CloserInv
<1>5. PromptInv'
  BY DEF FinishLifecycle, turnVars, closeVars, PromptInv, LockInv, InTurn
<1>6. OwnHit'
  BY DEF FinishLifecycle, turnVars, closeVars, OwnHit, PromptInv, LockInv, InTurn
<1> QED BY <1>1, <1>2, <1>3, <1>4, <1>5, <1>6

LEMMA UnwindKeeps ==
  ASSUME NEW t \in Turns, DriverIInv, Unwind(t) PROVE DriverIInv'
<1> USE AcpDriverAssumption DEF DriverIInv, AcpDriverInv, AcpDriverTypeOK
<1>1. AcpDriverTypeOK'
  BY DEF Unwind, WatcherOver, turnVars, closeVars, TurnPhases, CloserPhases
<1>2. ActiveIsTheTurn' /\ NoTurnOnReleasedClient'
  BY DEF Unwind, WatcherOver, turnVars, closeVars, ActiveIsTheTurn, NoTurnOnReleasedClient, LockInv, CloserInv, InTurn
<1>3. LockInv'
  BY DEF Unwind, WatcherOver, turnVars, closeVars, LockInv, CloserInv, InTurn
<1>4. CloserInv'
  BY DEF Unwind, WatcherOver, turnVars, closeVars, CloserInv
<1>5. PromptInv'
  BY DEF Unwind, WatcherOver, turnVars, closeVars, PromptInv, LockInv, InTurn
<1>6. OwnHit'
  BY DEF Unwind, WatcherOver, turnVars, closeVars, OwnHit, PromptInv, LockInv, InTurn
<1> QED BY <1>1, <1>2, <1>3, <1>4, <1>5, <1>6

LEMMA CallCloseKeeps ==
  ASSUME NEW c \in Closers, DriverIInv, CallClose(c) PROVE DriverIInv'
<1> USE AcpDriverAssumption DEF DriverIInv, AcpDriverInv, AcpDriverTypeOK
<1>1. AcpDriverTypeOK'
  BY DEF CallClose, Wins, turnVars, closeVars, TurnPhases, CloserPhases
<1>2. ActiveIsTheTurn' /\ NoTurnOnReleasedClient'
  BY DEF CallClose, Wins, turnVars, closeVars, ActiveIsTheTurn, NoTurnOnReleasedClient, LockInv, CloserInv, InTurn
<1>3. LockInv'
  BY DEF CallClose, Wins, turnVars, closeVars, LockInv, CloserInv, InTurn
<1>4. CloserInv'
  <2>1. CASE winner = "none"
    <3>1. /\ closer' = [closer EXCEPT ![c] = "cancelling"] /\ winner' = c
          /\ UNCHANGED <<closed, driverGone, releases>>
      BY <2>1 DEF CallClose, Wins
    <3>2. (\A d \in Closers : closer[d] = "idle") /\ c # "none"
      BY <2>1 DEF CloserInv
    <3>3. releases = 0
      BY <2>1 DEF CloserInv
    <3> QED BY <3>1, <3>2, <3>3 DEF CloserInv
  <2>2. CASE winner # "none"
    BY <2>2 DEF CallClose, Wins, turnVars, CloserInv
  <2> QED BY <2>1, <2>2
<1>5. PromptInv'
  BY DEF CallClose, Wins, turnVars, closeVars, PromptInv, LockInv, InTurn
<1>6. OwnHit'
  BY DEF CallClose, Wins, turnVars, closeVars, OwnHit, PromptInv, LockInv, InTurn
<1> QED BY <1>1, <1>2, <1>3, <1>4, <1>5, <1>6

LEMMA DriverCancelKeeps ==
  ASSUME NEW c \in Closers, DriverIInv, DriverCancel(c) PROVE DriverIInv'
<1> USE AcpDriverAssumption DEF DriverIInv, AcpDriverInv, AcpDriverTypeOK
<1>1. AcpDriverTypeOK'
  BY DEF DriverCancel, GoesDown, turnVars, closeVars, TurnPhases, CloserPhases
<1>2. ActiveIsTheTurn' /\ NoTurnOnReleasedClient'
  BY DEF DriverCancel, GoesDown, turnVars, closeVars, ActiveIsTheTurn, NoTurnOnReleasedClient, LockInv, CloserInv, InTurn
<1>3. LockInv'
  BY DEF DriverCancel, GoesDown, turnVars, closeVars, LockInv, CloserInv, InTurn
<1>4. CloserInv'
  BY DEF DriverCancel, GoesDown, turnVars, closeVars, CloserInv
<1>5. PromptInv'
  BY DEF DriverCancel, GoesDown, turnVars, closeVars, PromptInv, LockInv, InTurn
<1>6. OwnHit'
  BY DEF DriverCancel, GoesDown, turnVars, closeVars, OwnHit, PromptInv, LockInv, InTurn
<1> QED BY <1>1, <1>2, <1>3, <1>4, <1>5, <1>6

LEMMA MarkClosedKeeps ==
  ASSUME NEW c \in Closers, DriverIInv, MarkClosed(c) PROVE DriverIInv'
<1> USE AcpDriverAssumption DEF DriverIInv, AcpDriverInv, AcpDriverTypeOK
<1>1. AcpDriverTypeOK'
  BY DEF MarkClosed, turnVars, closeVars, TurnPhases, CloserPhases
<1>2. ActiveIsTheTurn' /\ NoTurnOnReleasedClient'
  BY DEF MarkClosed, turnVars, closeVars, ActiveIsTheTurn, NoTurnOnReleasedClient, LockInv, CloserInv, InTurn
<1>3. LockInv'
  BY DEF MarkClosed, turnVars, closeVars, LockInv, CloserInv, InTurn
<1>4. CloserInv'
  BY DEF MarkClosed, turnVars, closeVars, CloserInv
<1>5. PromptInv'
  BY DEF MarkClosed, turnVars, closeVars, PromptInv, LockInv, InTurn
<1>6. OwnHit'
  BY DEF MarkClosed, turnVars, closeVars, OwnHit, PromptInv, LockInv, InTurn
<1> QED BY <1>1, <1>2, <1>3, <1>4, <1>5, <1>6

LEMMA ReleaseOwnedKeeps ==
  ASSUME NEW c \in Closers, DriverIInv, ReleaseOwned(c) PROVE DriverIInv'
<1> USE AcpDriverAssumption DEF DriverIInv, AcpDriverInv, AcpDriverTypeOK
<1>1. AcpDriverTypeOK'
  BY DEF ReleaseOwned, turnVars, closeVars, CloserInv, TurnPhases, CloserPhases
<1>2. ActiveIsTheTurn' /\ NoTurnOnReleasedClient'
  BY DEF ReleaseOwned, turnVars, closeVars, ActiveIsTheTurn, NoTurnOnReleasedClient, LockInv, CloserInv, InTurn
<1>3. LockInv'
  BY DEF ReleaseOwned, turnVars, closeVars, LockInv, CloserInv, InTurn
<1>4. CloserInv'
  BY DEF ReleaseOwned, turnVars, closeVars, CloserInv
<1>5. PromptInv'
  BY DEF ReleaseOwned, turnVars, closeVars, PromptInv, LockInv, InTurn
<1>6. OwnHit'
  BY DEF ReleaseOwned, turnVars, closeVars, OwnHit, PromptInv, LockInv, InTurn
<1> QED BY <1>1, <1>2, <1>3, <1>4, <1>5, <1>6

LEMMA OnceOverKeeps ==
  ASSUME NEW c \in Closers, DriverIInv, OnceOver(c) PROVE DriverIInv'
<1> USE AcpDriverAssumption DEF DriverIInv, AcpDriverInv, AcpDriverTypeOK
<1>1. AcpDriverTypeOK'
  BY DEF OnceOver, turnVars, closeVars, TurnPhases, CloserPhases
<1>2. ActiveIsTheTurn' /\ NoTurnOnReleasedClient'
  BY DEF OnceOver, turnVars, closeVars, ActiveIsTheTurn, NoTurnOnReleasedClient, LockInv, CloserInv, InTurn
<1>3. LockInv'
  BY DEF OnceOver, turnVars, closeVars, LockInv, CloserInv, InTurn
<1>4. CloserInv'
  BY DEF OnceOver, turnVars, closeVars, CloserInv
<1>5. PromptInv'
  BY DEF OnceOver, turnVars, closeVars, PromptInv, LockInv, InTurn
<1>6. OwnHit'
  BY DEF OnceOver, turnVars, closeVars, OwnHit, PromptInv, LockInv, InTurn
<1> QED BY <1>1, <1>2, <1>3, <1>4, <1>5, <1>6

LEMMA DriverKeeps == DriverIInv /\ AcpDriverNext => DriverIInv'
BY CallSpawnKeeps, RefuseKeeps, OpenKeeps, CancelTurnKeeps, PromptReturnsKeeps, WakeKeeps,
   BeginCancelKeeps, SendCancelKeeps, ArbiterReturnsKeeps, RetireKeeps, FenceKeeps,
   FinishLifecycleKeeps, UnwindKeeps, CallCloseKeeps, DriverCancelKeeps, MarkClosedKeeps,
   ReleaseOwnedKeeps, OnceOverKeeps DEF AcpDriverNext, RunTurn, Watch, CloseStep

(* A prompt in flight is that of the turn which has the lock. *)
LEMMA PromptsAreFenced == DriverIInv => PromptsStayInTheirTurn
<1> SUFFICES ASSUME DriverIInv, ordered PROVE
      /\ \A p \in hit : p[1] = p[2]
      /\ releases > 0 => \A t \in Turns : prompt[t] # "inflight"
  BY DEF PromptsStayInTheirTurn
<1> USE DEF DriverIInv, AcpDriverInv
<1>1. \A p \in hit : p[1] = p[2]
  BY DEF OwnHit
<1>2. ASSUME releases > 0, NEW t \in Turns PROVE prompt[t] # "inflight"
  <2>1. ~InTurn(t)
    BY <1>2 DEF NoTurnOnReleasedClient
  <2>2. turn[t] \in {"idle", "waiting", "refused", "over"}
    BY <2>1 DEF InTurn, AcpDriverTypeOK, TurnPhases
  <2> QED BY <2>2 DEF PromptInv
<1> QED BY <1>1, <1>2

-----------------------------------------------------------------------------
(***************************************************************************)
(* The agent: the driver belongs to the loop once it is built.             *)
(***************************************************************************)
LEMMA AgentInitially == AcpAgentInit => AgentIInv
<1> SUFFICES ASSUME AcpAgentInit PROVE AgentIInv
  OBVIOUS
<1>1. BuiltInv /\ DriverIInv
  BY ConstructionInitially, DriverInitially DEF AcpAgentInit
<1>2. Untouched
  BY DEF AcpAgentInit, AcpDriverInit, Untouched
<1> QED BY <1>1, <1>2 DEF AgentIInv

LEMMA ConstructKeeps == AgentIInv /\ Construct => AgentIInv'
<1> SUFFICES ASSUME AgentIInv, Construct PROVE AgentIInv'
  OBVIOUS
<1>1. BuiltInv'
  BY ConstructionKeeps DEF AgentIInv, Construct
<1>2. DriverIInv' /\ stage # "built"
  <2>1. stage # "built"
    BY DEF Construct, AcpConstructionNext, TakeSeed, Validate, Dial, TakeClient, CreateSession,
           Configure, Backend
  <2>2. DriverIInv'
    BY DEF AgentIInv, Construct, dvars, turnVars, closeVars, DriverIInv, AcpDriverInv,
           AcpDriverTypeOK, ActiveIsTheTurn, NoTurnOnReleasedClient, LockInv, CloserInv, PromptInv,
           OwnHit, InTurn
  <2> QED BY <2>1, <2>2
<1>3. Untouched'
  BY <1>2 DEF AgentIInv, Construct, Untouched, dvars, turnVars, closeVars
<1> QED BY <1>1, <1>2, <1>3 DEF AgentIInv

LEMMA UnchangedBuilt == BuiltInv /\ UNCHANGED bvars => BuiltInv'
<1> SUFFICES ASSUME BuiltInv, UNCHANGED bvars PROVE BuiltInv'
  OBVIOUS
<1>1. Setup' = Setup
  BY SameSetup DEF bvars
<1>2. ConstructionInv'
  BY DEF bvars, BuiltInv, ConstructionInv, AcpConstructionTypeOK, NothingLeaks
<1>3. Valid(cfg)' = Valid(cfg)
  BY DEF bvars, Valid
<1>4. ProgressInv'
  BY <1>3 DEF bvars, BuiltInv, ProgressInv
<1>5. SelectionInv'
  BY <1>1 DEF bvars, BuiltInv, SelectionInv
<1> QED BY <1>2, <1>4, <1>5 DEF BuiltInv

LEMMA DriveKeeps == AgentIInv /\ Drive => AgentIInv'
<1> SUFFICES ASSUME AgentIInv, Drive PROVE AgentIInv'
  OBVIOUS
<1>1. BuiltInv' /\ DriverIInv'
  BY UnchangedBuilt, DriverKeeps DEF AgentIInv, Drive
<1>2. Untouched'
  BY DEF Drive, Usable, Untouched, bvars
<1> QED BY <1>1, <1>2 DEF AgentIInv

(* The driver's lock keeps Close away while a turn runs, and construction closes
   nothing that it built. *)
LEMMA TheProcessHasOneOwner == AgentIInv => OneOwner
<1> SUFFICES ASSUME AgentIInv PROVE OneOwner
  OBVIOUS
<1> USE DEF AgentIInv, DriverIInv, AcpDriverInv, BuiltInv, ConstructionInv
<1>1. CASE stage = "built"
  <2>1. dials = 1 /\ closes = 0 /\ releases \in 0..1
    BY <1>1 DEF ProgressInv, NothingLeaks, Launched, AcpDriverTypeOK
  <2>2. (\E t \in Turns : InTurn(t)) => releases = 0
    BY <2>1 DEF NoTurnOnReleasedClient
  <2> QED BY <2>1, <2>2 DEF OneOwner
<1>2. CASE stage # "built"
  <2>1. releases = 0 /\ \A t \in Turns : ~InTurn(t)
    BY <1>2 DEF Untouched, InTurn
  <2>2. dials \in 0..1 /\ closes \in 0..1 /\ closes <= dials
    BY DEF AcpConstructionTypeOK, NothingLeaks
  <2> QED BY <2>1, <2>2 DEF OneOwner
<1> QED BY <1>1, <1>2

LEMMA AgentStep == AgentIInv /\ [AcpAgentNext]_avars => AgentIInv'
<1> SUFFICES ASSUME AgentIInv, [AcpAgentNext]_avars PROVE AgentIInv'
  OBVIOUS
<1>1. CASE Construct
  BY <1>1, ConstructKeeps
<1>2. CASE Drive
  BY <1>2, DriveKeeps
<1>3. CASE UNCHANGED avars
  <2>1. BuiltInv'
    BY <1>3, UnchangedBuilt DEF avars, AgentIInv
  <2>2. DriverIInv' /\ Untouched'
    BY <1>3 DEF AgentIInv, avars, bvars, dvars, turnVars, closeVars, DriverIInv, AcpDriverInv,
           AcpDriverTypeOK, ActiveIsTheTurn, NoTurnOnReleasedClient, LockInv, CloserInv, PromptInv,
           OwnHit, InTurn, Untouched
  <2> QED BY <2>1, <2>2 DEF AgentIInv
<1> QED BY <1>1, <1>2, <1>3 DEF AcpAgentNext

LEMMA AgentHolds == AcpAgentSpec => []AgentIInv
BY AgentInitially, AgentStep, PTL DEF AcpAgentSpec

(***************************************************************************)
(* The construction keeps its books, the lock and the handle are the       *)
(* turn's, and a launched adapter process is closed at most once and not   *)
(* while a turn runs (New, runTurn, Close).                                *)
(***************************************************************************)
THEOREM ProcessHasOneOwner == AcpAgentSpec => []AgentInv
<1>1. AgentIInv => AgentInv
  BY TheProcessHasOneOwner DEF AgentIInv, AgentInv, BuiltInv, DriverIInv
<1> QED BY <1>1, AgentHolds, PTL

(***************************************************************************)
(* While no arbiter gives up its order, a session/cancel meets the prompt  *)
(* of its own turn or none, and the owned client outlives every prompt     *)
(* (watchTurnCancellation, runTurn, Close).                                *)
(***************************************************************************)
THEOREM CancelsMeetTheirOwnPrompt == AcpAgentSpec => []PromptsStayInTheirTurn
<1>1. AgentIInv => PromptsStayInTheirTurn
  BY PromptsAreFenced DEF AgentIInv
<1> QED BY <1>1, AgentHolds, PTL

-----------------------------------------------------------------------------
(***************************************************************************)
(* Permissions.                                                            *)
(***************************************************************************)
Refusals == {"reject_once", "reject_always", "denied"}

LEMMA MinIsThere == ASSUME NEW I \in SUBSET (1..3), I # {} PROVE Min(I) \in I
<1>1. \E x \in I : \A y \in I : x <= y
  <2>1. CASE 1 \in I
    BY <2>1
  <2>2. CASE 1 \notin I /\ 2 \in I
    BY <2>2
  <2>3. CASE 1 \notin I /\ 2 \notin I
    <3>1. \A y \in I : y = 3
      BY <2>3
    <3>2. 3 \in I
      BY <3>1
    <3> QED BY <3>1, <3>2
  <2> QED BY <2>1, <2>2, <2>3
<1> QED BY <1>1 DEF Min

(* A call that is not allowed is refused, whatever the options are. *)
LEMMA NotAllowed ==
  ASSUME NEW options, NEW allow, ~allow
  PROVE  SelectOption(options, allow) \in Refusals
<1> DEFINE kinds == <<"reject_once", "reject_always">>
           I == {i \in 1..Len(kinds) : Offers(options, kinds[i])}
           first == SelectInSeq(kinds, LAMBDA kind : Offers(options, kind))
<1>1. SelectOption(options, allow) = IF first = 0 THEN "denied" ELSE kinds[first]
  BY DEF SelectOption, Preferred
<1>2. first = IF I # {} THEN Min(I) ELSE 0
  BY DEF SelectInSeq
<1>3. I \subseteq 1..2 /\ (I # {} => Min(I) \in I)
  BY MinIsThere
<1>4. first \in {0, 1, 2}
  BY <1>2, <1>3
<1> HIDE DEF first
<1> QED BY <1>1, <1>4 DEF Refusals

(* One that is allowed is granted once, if that is offered, and nothing else is. *)
LEMMA Allowed ==
  ASSUME NEW options, NEW allow, allow
  PROVE  /\ SelectOption(options, allow) \in Refusals \cup {"allow_once"}
         /\ SelectOption(options, allow) = "allow_once" <=> Offers(options, "allow_once")
<1> DEFINE answer == SelectOption(options, allow)
           kinds == <<"allow_once", "reject_once", "reject_always">>
           I == {i \in 1..Len(kinds) : Offers(options, kinds[i])}
           first == SelectInSeq(kinds, LAMBDA kind : Offers(options, kind))
<1>1. answer = IF first = 0 THEN "denied" ELSE kinds[first]
  BY DEF SelectOption, Preferred
<1>2. first = IF I # {} THEN Min(I) ELSE 0
  BY DEF SelectInSeq
<1>3. I \subseteq 1..3 /\ (I # {} => Min(I) \in I) /\ (1 \in I <=> Offers(options, "allow_once"))
  BY MinIsThere
<1>4. first \in {0, 1, 2, 3}
  BY <1>2, <1>3
<1>5. 1 \in I <=> first = 1
  <2>1. ASSUME 1 \in I PROVE Min(I) = 1
    <3>1. \E x \in I : \A y \in I : x <= y
      BY <1>3, <2>1
    <3>2. Min(I) \in I /\ \A y \in I : Min(I) <= y
      BY <3>1 DEF Min
    <3> QED BY <1>3, <2>1, <3>2
  <2> QED BY <1>2, <1>3, <2>1
<1> HIDE DEF answer, first, I
<1>6. answer \in Refusals \cup {"allow_once"} /\ (answer = "allow_once" <=> first = 1)
  BY <1>1, <1>4 DEF Refusals
<1> QED BY <1>3, <1>5, <1>6 DEF answer

(* Whatever is granted is allowed, and granted once. *)
LEMMA GrantedIsAllowed ==
  ASSUME NEW posture, NEW tool
  PROVE  /\ Granted(posture, tool) => Allows(posture, tool)
         /\ \A options : RequestPermission(posture, tool, options) # "allow_always"
<1>1. ASSUME NEW options, ~Allows(posture, tool)
      PROVE  RequestPermission(posture, tool, options) \in Refusals
  <2> DEFINE allow == Allows(posture, tool)
  <2> HIDE DEF allow
  <2>1. ~allow => SelectOption(options, allow) \in Refusals
    BY NotAllowed
  <2> QED BY <1>1, <2>1 DEF RequestPermission, allow
<1>2. ASSUME NEW options, Allows(posture, tool)
      PROVE  RequestPermission(posture, tool, options) \in Refusals \cup {"allow_once"}
  <2> DEFINE allow == Allows(posture, tool)
  <2> HIDE DEF allow
  <2>1. allow => SelectOption(options, allow) \in Refusals \cup {"allow_once"}
    BY Allowed
  <2> QED BY <1>2, <2>1 DEF RequestPermission, allow
<1>3. Granted(posture, tool) => Allows(posture, tool)
  BY <1>1 DEF Granted, Refusals
<1>4. \A options : RequestPermission(posture, tool, options) # "allow_always"
  BY <1>1, <1>2 DEF Refusals
<1> QED BY <1>3, <1>4

(***************************************************************************)
(* A read-only session is granted no change and no command, a writing one  *)
(* nothing outside its workspace, nothing is granted for good, and writing *)
(* covers reading (RequestPermission, selectPermissionOption, allows).     *)
(***************************************************************************)
THEOREM PostureIsKept == PermissionsFollowPosture
<1>1. ReadOnlyChangesNothing
  <2> SUFFICES ASSUME NEW tool \in ToolCall, Allows("readOnly", tool)
               PROVE  tool.kind \in {"read", "search"} /\ tool.diffs = {} /\ ~tool.terminal
    BY GrantedIsAllowed DEF ReadOnlyChangesNothing
  <2> QED BY DEF Allows, ReadOnlyToolAllowed, HasConflictingContent, IsMutation
<1>2. WritesInside
  <2> SUFFICES ASSUME NEW tool \in ToolCall, Allows("workspaceWrite", tool)
               PROVE  /\ tool.locations \cup tool.diffs # {}
                      /\ {"outside", "unclear"} \cap (tool.locations \cup tool.diffs) = {}
                      /\ tool.terminal => tool.kind = "execute"
    BY GrantedIsAllowed DEF WritesInside
  <2>1. tool.locations \cup tool.diffs = {"inside"}
    BY DEF Allows, AllPathsWithinWorkspace
  <2>2. tool.terminal => tool.kind = "execute"
    BY DEF Allows, HasConflictingContent
  <2> QED BY <2>1, <2>2
<1>3. GrantsOnce
  <2>1. \A tool \in ToolCall : ~Granted("invalid", tool)
    BY GrantedIsAllowed DEF Allows
  <2>2. \A posture \in {"readOnly", "workspaceWrite", "invalid"}, tool \in ToolCall, o \in Options :
          RequestPermission(posture, tool, o) # "allow_always"
    BY GrantedIsAllowed, Zenon
  <2> QED BY <2>1, <2>2 DEF GrantsOnce
<1>4. WriteCoversRead
  <2> SUFFICES ASSUME NEW tool \in ToolCall, Granted("readOnly", tool), AllPathsWithinWorkspace(tool)
               PROVE  Granted("workspaceWrite", tool)
    BY DEF WriteCoversRead
  <2> DEFINE reads == Allows("readOnly", tool)
             writes == Allows("workspaceWrite", tool)
  <2>1. reads /\ writes
    BY GrantedIsAllowed DEF Allows, WorkspaceToolAllowed, ReadOnlyToolAllowed
  <2>2. PICK options \in Options :
          RequestPermission("readOnly", tool, options) \in {"allow_once", "allow_always"}
    BY DEF Granted
  <2>3. RequestPermission("readOnly", tool, options) = "allow_once"
    BY <2>2, GrantedIsAllowed
  <2>4. SelectOption(options, reads) = "allow_once"
    BY <2>3 DEF RequestPermission
  <2>5. SelectOption(options, writes) = "allow_once"
    <3> HIDE DEF reads, writes
    <3> QED BY <2>1, <2>4, Allowed
  <2> QED BY <2>5 DEF Granted, RequestPermission
<1> QED BY <1>1, <1>2, <1>3, <1>4 DEF PermissionsFollowPosture

(***************************************************************************)
(* What runs is what the configuration and the journal ask for, and what   *)
(* its turns are permitted is what its posture says (validate, New,        *)
(* BuildRestoredWithServices, RequestPermission).                          *)
(***************************************************************************)
THEOREM AccessIsAsAsked == AcpAgentSpec => []AccessAsAsked
<1>1. AgentIInv => AccessAsAsked
  BY BuiltAsAsked, PostureIsKept DEF AgentIInv, AccessAsAsked
<1> QED BY <1>1, AgentHolds, PTL
=============================================================================
