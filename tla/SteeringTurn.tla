---------------------------- MODULE SteeringTurn ----------------------------
(***************************************************************************)
(* One turn of the foreign loop with steering (backend/turn.go): the actor *)
(* in awaitTurn and its drains, the producer goroutine of                  *)
(* driveTurnToMailbox, one goroutine per adapter call (callSteerer), and   *)
(* the provider behind them.  The actor owns the steering machine of       *)
(* module SteeringMachine; every step of this module is one of that        *)
(* module's actions or leaves its variables alone.                         *)
(*                                                                         *)
(* What the provider does with a steered prompt is modelled by its         *)
(* contract in driver/steering.go: whenever its adapter call is out it may *)
(* acknowledge the prompt, at most once, on the ordered stream, with an    *)
(* outcome that is true of it; the call returns the same outcome or one    *)
(* that decides nothing, or never returns, whatever is cancelled.          *)
(***************************************************************************)
EXTENDS SteeringMachine

CONSTANTS
  QueueCapacity,   \* loop.ManagedInputQueueCapacity
  MailboxCapacity, \* cap(mailbox), 64 in runTurn
  Controls,        \* the control commands that may arrive
  Undecided        \* what a call may return that says nothing of the delivery

ASSUME TurnAssumption ==
  /\ QueueCapacity \in Nat /\ MailboxCapacity \in Nat \ {0}
  /\ Controls \subseteq {"interrupt", "cancel", "shutdown", "context"}
  /\ Undecided \subseteq {"boundedUnknown", "noResult", "invalid", "empty"}

VARIABLES
  \* the provider and the adapter calls
  verdict,      \* the outcome that is true of a request's prompt
  call,         \* the callSteerer goroutine of a request
  acked,        \* requests whose SteerObservation was emitted
  \* the producer, driveTurnToSink
  producer,     \* where it stands
  stream,       \* the kind of stream Spawn returned
  prompted,     \* the stream's terminal fact was read
  final,        \* the outcome it is about to report
  \* the channels between the goroutines
  completions,  \* m.completions
  streamReady,  \* the spawned stream waits in its one-slot channel
  mailbox,      \* ordered turn observations for the actor
  resultChan,   \* the one-slot outcome channel
  cancelled,    \* turnCtx is done
  \* the actor
  pc,           \* where awaitTurn stands
  picked,       \* the attempt whose clock tick was taken
  hold,         \* terminalHold
  outcome,      \* the turn outcome awaitTurn has
  serving,      \* the control command being served
  captured,     \* the outcome a drain kept
  waiting,      \* waitForTurnOutcome of the running drain
  exit,         \* awaitTurn returns true: the loop ends
  published,    \* lifecycle terminals published, in order
  lapsed        \* requests whose own reservation deadline fired (history)

providerVars == <<verdict, call, acked>>
producerVars == <<producer, stream, prompted, final>>
channelVars  == <<completions, streamReady, mailbox, resultChan>>
actorVars    == <<pc, picked, hold, outcome, serving, captured, waiting, exit, published>>
signalVars   == <<cancelled, lapsed>>
tvars == <<mvars, providerVars, producerVars, channelVars, actorVars, signalVars>>

Verdicts == {"injected", "fallback", "unknown", "untrackable"}
Outcomes == {"success", "failed", "interrupted"}
Observation == [kind : {"steer", "prompt", "done", "failed"},
                req : Steerable \cup {None}, says : Results]
Fact(k) == [kind |-> k, req |-> None, says |-> "empty"]

TurnTypeOK ==
  /\ TypeOK
  /\ call \in [Inputs -> {"idle", "calling", "returned"}]
  /\ verdict \in [Inputs -> Verdicts]
  /\ {acked, lapsed} \subseteq SUBSET Steerable
  /\ completions \in Seq([req : Steerable, says : Results])
  /\ mailbox \in Seq(Observation)
  /\ producer \in {"spawning", "streaming", "concluding", "reporting", "closed"}
  /\ stream \in {"none", "ordered", "legacy"}
  /\ {resultChan, final, outcome, captured} \subseteq Outcomes \cup {"none"}
  /\ pc \in {"await", "ackDrain", "deadlineDrain", "resultDrain", "serve",
             "apply", "flush", "shutdown", "leave", "cleanup", "left"}
  /\ picked \in Steerable \cup {None}
  /\ hold \in {"none", "done", "failed"}
  /\ serving \in Controls \cup {"none", "cancelReady"}
  /\ {prompted, streamReady, cancelled, waiting, exit} \subseteq BOOLEAN
  /\ published \in Seq({"done", "failed", "interrupted"})

TurnInit ==
  /\ Init
  /\ call = [i \in Inputs |-> "idle"] /\ acked = {} /\ lapsed = {}
  /\ \E v \in [Steerable -> Verdicts] :
       verdict = [i \in Inputs |-> IF i \in Steerable THEN v[i] ELSE "fallback"]
  /\ producer = "spawning" /\ stream = "none" /\ prompted = FALSE /\ final = "none"
  /\ completions = <<>> /\ streamReady = FALSE /\ mailbox = <<>> /\ resultChan = "none"
  /\ cancelled = FALSE
  /\ pc = "await" /\ picked = None /\ hold = "none" /\ outcome = "none"
  /\ serving = "none" /\ captured = "none" /\ waiting = FALSE
  /\ exit = FALSE /\ published = <<>>

-----------------------------------------------------------------------------
(***************************************************************************)
(* The provider and the adapter calls.                                     *)
(***************************************************************************)
(* What the provider does after the actor has left concerns no turn. *)
Running == pc # "left"

(* A fresh reservation starts the goroutine of its adapter call. *)
Started == call' = [i \in Inputs |-> IF i \in reserved' \ reserved THEN "calling" ELSE call[i]]

(* callSteerer sends what Steer returned: the outcome, or a result that
   decides nothing about the delivery. *)
Return(r, res) ==
  /\ Running /\ call[r] = "calling"
  /\ res = verdict[r] \/ res \in Undecided
  /\ call' = [call EXCEPT ![r] = "returned"]
  /\ completions' = Append(completions, [req |-> r, says |-> res])
  /\ UNCHANGED <<mvars, verdict, acked, producerVars, streamReady, mailbox, resultChan,
                 actorVars, signalVars>>

(* The acknowledgement, read by the producer in stream order. *)
Acknowledge(r) ==
  /\ Running /\ producer = "streaming" /\ stream = "ordered" /\ Len(mailbox) < MailboxCapacity
  /\ call[r] # "idle" /\ r \notin acked
  /\ acked' = acked \cup {r}
  /\ mailbox' = Append(mailbox, [kind |-> "steer", req |-> r, says |-> verdict[r]])
  /\ UNCHANGED <<mvars, verdict, call, producerVars, completions, streamReady,
                 resultChan, actorVars, signalVars>>

Provider ==
  \E r \in Steerable :
    \/ \E res \in Results : Return(r, res)
    \/ Acknowledge(r)

-----------------------------------------------------------------------------
(***************************************************************************)
(* The producer goroutine (driveTurnToSink under driveTurnToMailbox).  Its *)
(* sink drops an observation only when turnCtx is done, and then it stops  *)
(* reading: Conclude may follow at any moment once the turn is cancelled.  *)
(***************************************************************************)
(* The session lock and Spawn, and the hand-over of the stream. *)
Spawn ==
  /\ Running /\ producer = "spawning"
  /\ \/ /\ producer' = "concluding" /\ final' = "failed"
        /\ UNCHANGED <<stream, streamReady>>
     \/ /\ producer' = "streaming" /\ stream' \in {"ordered", "legacy"}
        /\ streamReady' \in {TRUE, ~cancelled} /\ UNCHANGED final
  /\ UNCHANGED <<mvars, providerVars, prompted, completions, mailbox, resultChan,
                 actorVars, signalVars>>

(* The prompt's terminal fact: an ordered stream forwards it to the actor,
   a legacy stream only records it. *)
Prompt ==
  /\ Running /\ producer = "streaming" /\ ~prompted /\ Len(mailbox) < MailboxCapacity
  /\ prompted' = TRUE
  /\ mailbox' = IF stream = "ordered" THEN Append(mailbox, Fact("prompt")) ELSE mailbox
  /\ UNCHANGED <<mvars, providerVars, producer, stream, final, completions, streamReady,
                 resultChan, actorVars, signalVars>>

(* The stream ended or was abandoned, or its session could not be bound. *)
Conclude ==
  /\ Running /\ producer = "streaming"
  /\ \/ cancelled /\ producer' = "reporting" /\ final' = "interrupted"
     \/ producer' = "concluding" /\ final' = "failed"
     \/ ~cancelled /\ prompted /\ producer' = "concluding" /\ final' = "success"
  /\ UNCHANGED <<mvars, providerVars, stream, prompted, channelVars, actorVars, signalVars>>

(* The terminal event goes through the sink, TurnDone or TurnFailed. *)
SendTerminal ==
  /\ Running /\ producer = "concluding" /\ producer' = "reporting"
  /\ \/ /\ Len(mailbox) < MailboxCapacity
        /\ mailbox' = Append(mailbox, Fact(IF final = "success" THEN "done" ELSE "failed"))
     \/ cancelled /\ UNCHANGED mailbox
  /\ UNCHANGED <<mvars, providerVars, stream, prompted, final, completions, streamReady,
                 resultChan, actorVars, signalVars>>

(* The lock is released, the outcome sent, turnCtx cancelled and the mailbox
   closed, with nothing in between that another goroutine could tell. *)
Report ==
  /\ Running /\ producer = "reporting" /\ producer' = "closed" /\ resultChan' = final
  /\ cancelled' = TRUE
  /\ UNCHANGED <<mvars, providerVars, stream, prompted, final, completions, streamReady,
                 mailbox, actorVars, lapsed>>

Producer == Spawn \/ Prompt \/ Conclude \/ SendTerminal \/ Report

-----------------------------------------------------------------------------
(***************************************************************************)
(* The actor.  Every step below is one case of a select of awaitTurn or of *)
(* a drain, or one of the calls made on the way out.                       *)
(***************************************************************************)
TerminalReady == fault \/ (~Unresolved /\ pending = <<>>)

(* What the head of awaitTurn's loop does before it selects. *)
HoldDue   == hold # "none" /\ TerminalReady
FinishDue == outcome # "none" /\ TerminalReady
Selecting == pc = "await" /\ ~HoldDue /\ ~FinishDue

(* Nothing is buffered on the channels a drain reads. *)
Quiet == resultChan = "none" /\ mailbox = <<>> /\ completions = <<>>

(* A call that failed cancels the turn and sends awaitTurn on its way out
   with true; otherwise it goes on at next. *)
Continue(next) ==
  /\ pc' = IF exit' THEN "leave" ELSE next
  /\ cancelled' = (cancelled \/ exit')

(* publishActor of a lifecycle terminal; it is checked, and may fail. *)
Publish(e) ==
  \/ published' = Append(published, e) /\ exit' = FALSE
  \/ HookFaults /\ UNCHANGED published /\ exit' = TRUE

IsTurnTerminal(o) == o.kind \in {"done", "failed"}

(* Mutant: the verdict of beforeTerminal is not asked for. *)
HoldsNever == FALSE

(* beforeTerminal has left an attempt without its verdict. *)
Holds == ~failed' /\ active' # None /\ active' \notin resolved'

(* processTurnOutcomeObservation: the machine sees the raw fact first; a
   terminal event is held while an attempt is unresolved. *)
Process(o, publishing) ==
  \/ /\ o.kind = "steer"
     /\ IF Unresolved THEN ObserveSteer(o.says) ELSE UNCHANGED mvars
     /\ exit' = failed' /\ UNCHANGED <<hold, published>>
  \/ /\ o.kind = "prompt" /\ MarkTerminal
     /\ exit' = failed' /\ UNCHANGED <<hold, published>>
  \/ /\ IsTurnTerminal(o) /\ MarkTerminal
     /\ hold' = IF Holds /\ publishing THEN o.kind ELSE hold
     /\ IF ~failed' /\ ~Holds /\ publishing
        THEN Publish(o.kind)
        ELSE exit' = failed' /\ UNCHANGED published

(* Mutant: a completion counts for whichever attempt is in the slot. *)
FinishAny(c) ==
  IF active # None THEN Complete(active, c.says) ELSE UNCHANGED mvars

(* A completion counts only for the attempt in the slot. *)
Finish(c) ==
  IF c.req = active THEN Complete(c.req, c.says) ELSE UNCHANGED mvars

TakeObservation(publishing, next) ==
  /\ mailbox # <<>> /\ mailbox' = Tail(mailbox)
  /\ Process(Head(mailbox), publishing) /\ Started /\ Continue(next)
  /\ UNCHANGED <<verdict, acked, producerVars, completions, streamReady,
                 resultChan, lapsed, picked, outcome, serving, captured, waiting>>

TakeCompletion(next) ==
  /\ completions # <<>> /\ completions' = Tail(completions)
  /\ Finish(Head(completions)) /\ exit' = failed' /\ Started /\ Continue(next)
  /\ UNCHANGED <<verdict, acked, producerVars, streamReady, mailbox, resultChan,
                 lapsed, picked, hold, outcome, serving, captured, waiting, published>>

TakeOutcome(next) ==
  /\ resultChan # "none" /\ outcome' = resultChan /\ resultChan' = "none" /\ pc' = next
  /\ UNCHANGED <<mvars, providerVars, producerVars, completions, streamReady, mailbox,
                 signalVars, picked, hold, serving, captured, waiting, exit, published>>

(* case <-result: then drainTurnObservations until the mailbox is closed. *)
SelectResult == Selecting /\ TakeOutcome("resultDrain")

DrainResult ==
  /\ pc = "resultDrain"
  /\ \/ TakeObservation(TRUE, "resultDrain")
     \/ /\ mailbox = <<>> /\ pc' = "await"
        /\ UNCHANGED <<mvars, providerVars, producerVars, channelVars, signalVars, picked,
                       hold, outcome, serving, captured, waiting, exit, published>>

(* case stream := <-streamReady. *)
SelectStream ==
  /\ Selecting /\ streamReady /\ streamReady' = FALSE
  /\ SetStream(stream = "ordered") /\ exit' = failed' /\ Started /\ Continue("await")
  /\ UNCHANGED <<verdict, acked, producerVars, completions, mailbox, resultChan,
                 lapsed, picked, hold, outcome, serving, captured, waiting, published>>

SelectObservation == Selecting /\ TakeObservation(TRUE, "await")
SelectCompletion  == Selecting /\ TakeCompletion("await")

(* case <-timerChan and case <-deadlineTimerChan: the tick is taken, and the
   attempt it was taken for is remembered while ready evidence is drained. *)
SelectTick ==
  /\ Selecting /\ Tick /\ picked' = active
  /\ \/ timer' = "spent" /\ timer # "spent" /\ pc' = "ackDrain" /\ UNCHANGED lapsed
     \/ /\ deadlineTimer' = "spent" /\ deadlineTimer # "spent" /\ pc' = "deadlineDrain"
        /\ lapsed' = lapsed \cup {active}
  /\ UNCHANGED <<providerVars, producerVars, channelVars, cancelled, hold, outcome, serving,
                 captured, waiting, exit, published>>

(* drainReadyTurnEvidence, one ready channel at a time. *)
DrainEvidence ==
  /\ pc \in {"ackDrain", "deadlineDrain"}
  /\ \/ TakeOutcome(pc)
     \/ TakeObservation(TRUE, pc)
     \/ TakeCompletion(pc)

(* With the evidence drained, the tick adjudicates the attempt it was taken
   for, and only that one. *)
(* Mutant: the tick is spent on whichever attempt is in the slot. *)
DeadlineExpiresAny == active # None

AckExpires == active = picked /\ timer = "spent"
DeadlineExpires == active = picked /\ deadlineTimer = "spent"

Expire ==
  /\ Quiet
  /\ \/ /\ pc = "ackDrain"
        /\ IF AckExpires /\ terminal /\ Unresolved THEN Timeout ELSE UNCHANGED mvars
     \/ /\ pc = "deadlineDrain"
        /\ IF DeadlineExpires /\ active # None THEN DeadlineTimeout ELSE UNCHANGED mvars
  /\ exit' = failed' /\ Started /\ Continue("await")
  /\ UNCHANGED <<verdict, acked, producerVars, channelVars, lapsed,
                 picked, hold, outcome, serving, captured, waiting, published>>

-----------------------------------------------------------------------------
(* case input := <-commands: a user input within the capacity. *)
Waiting == Len(loopPending) + Len(pending) + (IF active = None THEN 0 ELSE 1)

SelectInput(i) ==
  /\ Selecting /\ outcome = "none" /\ Waiting < QueueCapacity
  /\ Offer(i) /\ exit' = failed' /\ Started /\ Continue("await")
  /\ UNCHANGED <<verdict, acked, producerVars, channelVars, lapsed,
                 picked, hold, outcome, serving, captured, waiting, published>>

(* A user input beyond it: the loop goes on unless TurnRejected could not be
   published. *)
RejectInput(i) ==
  /\ Selecting /\ outcome = "none" /\ Waiting >= QueueCapacity
  /\ HookFaults /\ ticket[i] = 0
  /\ exit' = TRUE /\ Continue("await")
  /\ UNCHANGED <<mvars, providerVars, producerVars, channelVars, lapsed,
                 picked, hold, outcome, serving, captured, waiting, published>>

(* CancelDelegateRequest on a queued input; a failed publication ends the loop. *)
SelectRetract(k) ==
  /\ Selecting /\ outcome = "none"
  /\ \/ CancelQueued(k) /\ exit' = FALSE
     \/ HookFaults /\ UNCHANGED mvars /\ exit' = TRUE
  /\ Continue("await")
  /\ UNCHANGED <<providerVars, producerVars, channelVars, lapsed,
                 picked, hold, outcome, serving, captured, waiting, published>>

(* A control command, or loopCtx.Done.  Cancelling the active request when
   its outcome is already there drains without cancelling turnCtx; any other
   control cancels it first.  A turn with no steering to adjudicate also waits
   for its outcome, bounded by turnWait. *)
SelectControl(c) ==
  /\ Selecting /\ serving = "none" /\ (outcome = "none" \/ c = "context")
  /\ serving' = IF c = "cancel" /\ resultChan # "none" THEN "cancelReady" ELSE c
  /\ MarkTerminal /\ exit' = failed' /\ Started
  /\ pc' = IF failed' THEN "leave" ELSE "serve"
  /\ cancelled' = (cancelled \/ failed' \/ serving' # "cancelReady")
  /\ waiting' = (active' = None /\ ~disabled')
  /\ UNCHANGED <<verdict, acked, producerVars, channelVars, lapsed, picked, hold,
                 outcome, captured, published>>

(* drainSteeringShutdownWithOutcome: facts still resolve the delivery, no
   turn event is published, and an outcome is kept only for the commands
   that apply one. *)
Keeps == serving \in {"interrupt", "cancel", "cancelReady"}

ServeEvidence ==
  /\ pc = "serve"
  /\ \/ TakeObservation(FALSE, "serve")
     \/ TakeCompletion("serve")
     \/ /\ resultChan # "none" /\ resultChan' = "none"
        /\ captured' = IF Keeps THEN resultChan ELSE captured
        /\ UNCHANGED <<mvars, providerVars, producerVars, completions, streamReady, mailbox,
                       signalVars, pc, picked, hold, outcome, serving, waiting, exit, published>>

ServeTick ==
  /\ pc = "serve" /\ Quiet
  /\ \/ timer = "armed" /\ Unresolved /\ Timeout /\ UNCHANGED lapsed
     \/ /\ deadlineTimer = "armed" /\ active # None /\ DeadlineTimeout
        /\ lapsed' = lapsed \cup {active}
  /\ exit' = failed' /\ Started /\ Continue("serve")
  /\ UNCHANGED <<verdict, acked, producerVars, channelVars,
                 picked, hold, outcome, serving, captured, waiting, published>>

OutcomeTaken == (captured # "none" \/ outcome # "none") /\ producer = "closed"

(* Mutant: the wait for the outcome has no bound. *)
ServeDoneOnOutcome ==
  /\ pc = "serve"
  /\ Quiet /\ TerminalReady /\ (waiting => OutcomeTaken)
  /\ pc' = IF serving \in {"shutdown", "context"} THEN "shutdown" ELSE "apply"
  /\ UNCHANGED <<mvars, providerVars, producerVars, channelVars, signalVars, picked, hold,
                 outcome, serving, captured, waiting, exit, published>>
ServeDone ==
  /\ pc = "serve"
  /\ \/ Quiet /\ TerminalReady /\ (waiting => OutcomeTaken)
     \/ waiting
  /\ pc' = IF serving \in {"shutdown", "context"} THEN "shutdown" ELSE "apply"
  /\ UNCHANGED <<mvars, providerVars, producerVars, channelVars, signalVars, picked, hold,
                 outcome, serving, captured, waiting, exit, published>>

-----------------------------------------------------------------------------
(* The head of awaitTurn's loop: the held terminal is released. *)
PublishHold ==
  /\ pc = "await" /\ HoldDue
  /\ UNCHANGED mvars /\ Publish(hold) /\ hold' = "none" /\ Continue("await")
  /\ UNCHANGED <<providerVars, producerVars, channelVars, lapsed, picked,
                 outcome, serving, captured, waiting>>

(* applyOutcome, at the end of the turn or for an interrupted one. *)
Interrupted == serving # "none" \/ outcome = "interrupted"
(* Mutant: an interrupt leaves the queue as it is. *)
AfterApplyKeeps ==
  IF serving \in {"cancel", "cancelReady", "interrupt"} THEN "leave"
  ELSE IF outcome = "failed" THEN "flush"
  ELSE "shutdown"

AfterApply ==
  IF serving \in {"cancel", "cancelReady"} THEN "leave"
  ELSE IF serving = "interrupt" \/ outcome = "failed" THEN "flush"
  ELSE "shutdown"

ApplyOutcome ==
  /\ \/ pc = "await" /\ ~HoldDue /\ FinishDue
     \/ pc = "apply"
  /\ UNCHANGED mvars
  /\ IF Interrupted THEN Publish("interrupted") ELSE UNCHANGED <<published, exit>>
  /\ Continue(AfterApply)
  /\ UNCHANGED <<providerVars, producerVars, channelVars, lapsed, picked,
                 hold, outcome, serving, captured, waiting>>

(* cancelPending: InputCancelled is published before each input is dequeued,
   and a failed publication leaves the rest queued. *)
CancelPending ==
  /\ pc = "flush"
  /\ \E n \in IF HookFaults THEN 0..Len(loopPending) ELSE {Len(loopPending)} :
       /\ IF n = 0 THEN UNCHANGED mvars ELSE Flush(n)
       /\ exit' = (n < Len(loopPending) \/ serving = "shutdown")
  /\ Continue(IF serving = "none" THEN "shutdown" ELSE "leave")
  /\ UNCHANGED <<providerVars, producerVars, channelVars, lapsed, picked,
                 hold, outcome, serving, captured, waiting, published>>

(* machine.shutdown, then the way out of the turn or on to the queue. *)
ShutdownMachine ==
  /\ pc = "shutdown" /\ Shutdown /\ Started
  /\ exit' = (failed' \/ serving = "context")
  /\ Continue(IF serving = "shutdown" THEN "flush" ELSE "leave")
  /\ UNCHANGED <<verdict, acked, producerVars, channelVars, lapsed, picked,
                 hold, outcome, serving, captured, waiting, published>>

(* Mutant: the deferred shutdown closes the machine and finalises nothing. *)
DeferredShutdownEmpty ==
  /\ pc = "leave" /\ pc' = "cleanup" /\ stage' = "finalized" /\ terminal' = TRUE
  /\ UNCHANGED <<acceptVars, queueVars, streamVars, clockVars, attemptVars, slotVars,
                 verdictVars, errorVars, retracted>>
  /\ UNCHANGED <<providerVars, producerVars, channelVars, signalVars, picked,
                 hold, outcome, serving, captured, waiting, exit, published>>

(* The deferred shutdown and cleanup; a held terminal is lost with the frame. *)
DeferredShutdown ==
  /\ pc = "leave" /\ pc' = "cleanup" /\ Shutdown /\ Started
  /\ UNCHANGED <<verdict, acked, producerVars, channelVars, signalVars, picked,
                 hold, outcome, serving, captured, waiting, exit, published>>

DeferredCleanup ==
  /\ pc = "cleanup" /\ pc' = "left" /\ Cleanup /\ cancelled' = TRUE
  /\ UNCHANGED <<providerVars, producerVars, channelVars, lapsed, picked,
                 hold, outcome, serving, captured, waiting, exit, published>>

-----------------------------------------------------------------------------
Actor ==
  \/ SelectResult \/ DrainResult \/ SelectStream \/ SelectObservation \/ SelectCompletion
  \/ SelectTick \/ DrainEvidence \/ Expire
  \/ ServeEvidence \/ ServeTick \/ ServeDone
  \/ PublishHold \/ ApplyOutcome \/ CancelPending
  \/ ShutdownMachine \/ DeferredShutdown \/ DeferredCleanup

Commands ==
  \/ \E i \in Inputs : SelectInput(i) \/ RejectInput(i)
  \/ \E k \in 1..Len(loopPending) : SelectRetract(k)
  \/ \E c \in Controls : SelectControl(c)

TurnNext == Provider \/ Producer \/ Actor \/ Commands

(* The actor keeps running and armed clocks run out.  Nothing is assumed of
   the provider, of its adapter calls or of the producer. *)
TurnSpec == TurnInit /\ [][TurnNext]_tvars /\ WF_tvars(Actor)

-----------------------------------------------------------------------------
(***************************************************************************)
(* Properties.                                                             *)
(***************************************************************************)

(* The turn drives the machine only through its operations: every step of the
   actor, the drains and the way out is one of SteeringMachine's actions, and
   no goroutine but the actor touches the machine. *)
DrivesMachine == MachineSpec

(* observeSteer and complete credit an outcome to the attempt in the slot: an
   acknowledgement carries no request identity, so a late one must never be
   taken for the next request's.  What the hook is told of a steered request,
   other than "unknown", is what the provider said of that very request. *)
TrueVerdicts ==
  /\ \A r \in injected : verdict[r] = "injected"
  /\ \A r \in untrackable : verdict[r] = "untrackable"
  /\ \A r \in reserved \cap fallback : verdict[r] = "fallback"

(* The tick of one attempt's deadline, taken before its successor was
   reserved, retires the successor never: while the turn runs, an attempt is
   retired by the deadline only if its own deadline fired. *)
OwnDeadline == stage = "running" => deadlineExpired \subseteq lapsed

(* terminalHold and the drains: once a lifecycle terminal of the turn is out,
   no request is folded into that turn any more. *)
NoFoldAfterTerminal == [][published # <<>> => folded' = folded]_tvars

(* A turn that was interrupted, or failed, leaves nothing behind for the loop
   to run by itself, not even what the deferred shutdown hands back. *)
StoppedTurnFlushes ==
  /\ pc = "left" /\ ~exit
  /\ \/ serving = "interrupt"
     \/ serving = "none" /\ outcome = "failed"
  => loopPending = <<>>

(* A hook call or a checked publication that failed ends the loop, wherever
   in the turn it happened: the next turn never runs on a faulted delivery. *)
FailureEndsLoop == pc = "left" /\ failed => exit

(* What a turn leaves to the loop, however it ended (awaitTurn's returns). *)
LeavesWell == TurnTypeOK /\ StoppedTurnFlushes /\ FailureEndsLoop

(* The turn ends once it has an outcome or serves a control command, though the
   provider never acknowledges, the adapter never returns and the producer
   ignores its cancelled context (drainSteeringShutdownWithOutcome, turnWait). *)
SteeredTurnEnds == (serving # "none" \/ outcome # "none") ~> pc = "left"

(* A reserved request gets its verdict, though the provider never acknowledges
   and the adapter never returns, or the turn is at fault. *)
ReservationEnds ==
  \A r \in Steerable :
    r \in reserved ~> (r \in injected \cup fallback \cup unknown \cup untrackable \/ fault)
=============================================================================
