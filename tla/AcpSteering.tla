----------------------------- MODULE AcpSteering -----------------------------
(***************************************************************************)
(* Steering one ACP turn, from Driver.Steer to the observation: the        *)
(* callers (driver.go), the turn handle with its mailbox and its           *)
(* observation lane (turn.go, reservation.go), the arbiter as far as it    *)
(* owns steering calls (turn.go), and the dispatcher of SteerDispatcher.   *)
(* The order in which the arbiter lets observations leave is the subject   *)
(* of TurnArbiter; here a pending observation may leave at any time.       *)
(***************************************************************************)
EXTENDS SteerDispatcher

CONSTANTS
  Lanes,        \* capacities of the lane; steeringObservationCapacity is 128
  MailboxCap,   \* cap(commands), 512 in Spawn
  Answers,      \* what a provider may answer to a request it was sent
  CanClose,     \* the driver may be closed during the turn
  CanRegress    \* the arbiter may meet a sequence regression

ASSUME SteeringAssumption ==
  /\ Lanes \subseteq Nat /\ MailboxCap \in Nat
  /\ Answers \subseteq {"injected", "promptRequired", "startedNewTurn", "unrecognized",
                        "noDelivery", "error"}
  /\ {CanClose, CanRegress} \subseteq BOOLEAN

VARIABLES
  lane,          \* the capacity of the lane, chosen once
  \* the callers, Driver.Steer
  caller,        \* where the call stands
  preCanceled,   \* calls whose context had ended before the mailbox
  outcome,       \* what Steer returned
  replies,       \* the one-slot reply channels
  \* the handle
  discoverable,  \* Driver.active is this turn's handle
  retired,       \* handle.retired, and done is closed
  commands,      \* the mailbox
  ack,           \* steerSendAck.state
  tracked,       \* handle.pending
  laneUsed,      \* lane.used
  laneClosed,
  holding,       \* calls with a live reservation
  \* the arbiter
  arbiter,       \* where it stands
  steers,        \* calls the dispatcher has
  pendingSteers, \* steer observations waiting to leave
  promptEnded, terminalAsked, terminalReady,
  steeringOff,
  driverClosed,  \* driverCtx is done
  \* the provider and the stream
  answer,        \* what the provider made of a written request
  observed       \* the steer observations of a call

callerVars  == <<caller, preCanceled, outcome, replies>>
laneVars    == <<laneUsed, laneClosed, holding>>
handleVars  == <<discoverable, retired, commands, ack, tracked>>
arbiterVars == <<arbiter, steers, pendingSteers, promptEnded, terminalAsked,
                 terminalReady, steeringOff>>
svars == <<dvars, callerVars, laneVars, handleVars, arbiterVars, driverClosed,
           answer, observed>>

Outcomes == {"injected", "fallback", "unsupported", "admissionUnknown",
             "deliveryUnknown", "untrackable"}
RetrySafe == {"fallback", "unsupported"}
Undecided == {"admissionUnknown", "deliveryUnknown"}
Pending == [id : Calls, outcome : Outcomes]

SteeringTypeOK ==
  /\ DispatcherTypeOK
  /\ lane \in Lanes
  /\ caller \in [Calls -> {"idle", "found", "reserved", "sent", "refused", "entered",
                           "returned"}]
  /\ {preCanceled, tracked, holding, steers} \subseteq SUBSET Calls
  /\ outcome \in [Calls -> Outcomes \cup {"none"}]
  /\ replies \in [Calls -> Outcomes \cup {"none"}]
  /\ commands \in Seq(Calls) /\ Len(commands) <= MailboxCap
  /\ ack \in [Calls -> {"pending", "accepted", "rejected", "terminal"}]
  /\ laneUsed \in 0..lane
  /\ arbiter \in {"running", "marking", "ended", "hidden", "retired", "unlaned", "stopping", "done"}
  /\ pendingSteers \in Seq(Pending)
  /\ {discoverable, retired, laneClosed, promptEnded, terminalAsked, terminalReady,
      steeringOff, driverClosed} \subseteq BOOLEAN
  /\ answer \in [Calls -> Answers \cup {"none", "error"}]
  /\ observed \in [Calls -> Seq(Outcomes)]

SteeringInit ==
  /\ lane \in Lanes
  /\ DispatcherInit
  /\ caller = [c \in Calls |-> "idle"] /\ preCanceled = {}
  /\ outcome = [c \in Calls |-> "none"] /\ replies = [c \in Calls |-> "none"]
  /\ discoverable = TRUE /\ retired = FALSE /\ commands = <<>>
  /\ ack = [c \in Calls |-> "pending"] /\ tracked = {}
  /\ laneUsed = 0 /\ laneClosed = FALSE /\ holding = {}
  /\ arbiter = "running" /\ steers = {} /\ pendingSteers = <<>>
  /\ promptEnded = FALSE /\ terminalAsked = FALSE /\ terminalReady = FALSE
  /\ steeringOff = FALSE /\ driverClosed = FALSE
  /\ answer = [c \in Calls |-> "none"] /\ observed = [c \in Calls |-> <<>>]

-----------------------------------------------------------------------------
(***************************************************************************)
(* The lane: a counter, released once per reservation, reset when closed.  *)
(***************************************************************************)
LaneHasRoom == laneUsed < lane

LaneAfter(cs) == IF laneClosed THEN laneUsed ELSE laneUsed - Cardinality(cs \cap holding)

Release(cs) ==
  /\ laneUsed' = LaneAfter(cs)
  /\ holding' = holding \ cs
  /\ UNCHANGED laneClosed

-----------------------------------------------------------------------------
(***************************************************************************)
(* Driver.Steer.                                                           *)
(***************************************************************************)
Returns(c, o) ==
  /\ caller' = [caller EXCEPT ![c] = "returned"]
  /\ outcome' = [outcome EXCEPT ![c] = o]
  /\ UNCHANGED <<preCanceled, replies>>
Moves(c, to) ==
  /\ caller' = [caller EXCEPT ![c] = to]
  /\ UNCHANGED <<preCanceled, outcome, replies>>

(* activeHandle. *)
Find(c) ==
  /\ caller[c] = "idle"
  /\ IF discoverable THEN Moves(c, "found") ELSE Returns(c, "unsupported")
  /\ UNCHANGED <<dvars, laneVars, handleVars, arbiterVars, driverClosed, answer, observed>>

(* reserveSteer: only a full lane is told from a closed one. *)
Reserve(c) ==
  /\ caller[c] = "found" /\ ~laneClosed /\ LaneHasRoom
  /\ laneUsed' = laneUsed + 1 /\ holding' = holding \cup {c}
  /\ caller' = [caller EXCEPT ![c] = "reserved"]
  /\ preCanceled' = IF c \in ctxDone THEN preCanceled \cup {c} ELSE preCanceled
  /\ attempt' = IF c \in ctxDone THEN [attempt EXCEPT ![c] = Sealed(c)] ELSE attempt
  /\ UNCHANGED <<ctxDone, loopVars, channelVars, providerVars, historyVars, outcome,
                 replies, laneClosed, handleVars, arbiterVars, driverClosed, answer,
                 observed>>
NoLane(c) ==
  /\ caller[c] = "found"
  /\ laneClosed \/ ~LaneHasRoom
  /\ Returns(c, IF laneClosed /\ c \notin ctxDone THEN "unsupported" ELSE "fallback")
  /\ UNCHANGED <<dvars, laneVars, handleVars, arbiterVars, driverClosed, answer, observed>>

(* sendResult under the handle's mutex: a retired handle and a full mailbox
   refuse the command. *)
Send(c) ==
  /\ caller[c] = "reserved"
  /\ IF retired \/ Len(commands) >= MailboxCap
     THEN /\ ack' = [ack EXCEPT ![c] = IF retired THEN "terminal" ELSE "rejected"]
          /\ Moves(c, "refused")
          /\ UNCHANGED <<commands, tracked>>
     ELSE /\ commands' = Append(commands, c) /\ tracked' = tracked \cup {c}
          /\ Moves(c, "sent")
          /\ UNCHANGED ack
  /\ UNCHANGED <<dvars, laneVars, discoverable, retired, arbiterVars, driverClosed,
                 answer, observed>>

(* waitAndUntrack: the acknowledgement, or the end of the caller's context
   while it is pending. *)
AwaitAck(c) ==
  /\ caller[c] = "sent"
  /\ ack[c] # "pending" \/ c \in ctxDone
  /\ tracked' = tracked \ {c}
  /\ Moves(c, IF ack[c] = "terminal" THEN "refused" ELSE "entered")
  /\ UNCHANGED <<dvars, laneVars, discoverable, retired, commands, ack, arbiterVars,
                 driverClosed, answer, observed>>

(* The command was refused: nothing will ever be written. *)
GiveUp(c) ==
  /\ caller[c] = "refused"
  /\ Release({c})
  /\ Returns(c, IF c \in ctxDone THEN "fallback" ELSE "unsupported")
  /\ attempt' = IF c \in ctxDone THEN [attempt EXCEPT ![c] = Sealed(c)] ELSE attempt
  /\ UNCHANGED <<ctxDone, loopVars, channelVars, providerVars, historyVars, handleVars,
                 arbiterVars, driverClosed, answer, observed>>

(* A call cancelled before it entered was sealed and may be retried. *)
ReturnCanceled(c) ==
  /\ caller[c] = "entered" /\ c \in preCanceled
  /\ Returns(c, "fallback")
  /\ UNCHANGED <<dvars, laneVars, handleVars, arbiterVars, driverClosed, answer, observed>>

ReturnReply(c) ==
  /\ caller[c] = "entered" /\ c \notin preCanceled /\ replies[c] # "none"
  /\ caller' = [caller EXCEPT ![c] = "returned"]
  /\ outcome' = [outcome EXCEPT ![c] = replies[c]]
  /\ replies' = [replies EXCEPT ![c] = "none"]
  /\ UNCHANGED <<dvars, preCanceled, laneVars, handleVars, arbiterVars, driverClosed,
                 answer, observed>>

(* Mutant: a call still at the writer is reported retry-safe. *)
TimeoutResultTrusting(a) == CASE a = "admitted" -> "deliveryUnknown"
                              [] a = "pendingWriter" -> "fallback"
                              [] OTHER -> "admissionUnknown"
(* callerTimeoutSteerResult: the command crossed the mailbox, so even a sealed
   attempt is not proof. *)
TimeoutResult(a) == IF a = "admitted" THEN "deliveryUnknown" ELSE "admissionUnknown"

(* Mutant: the caller marks the attempt instead of taking its snapshot. *)
ReturnTimeoutMarks(c) ==
  /\ caller[c] = "entered" /\ c \notin preCanceled /\ c \in ctxDone
  /\ attempt' = [attempt EXCEPT ![c] = "notAdmitted"]
  /\ Returns(c, "fallback")
  /\ UNCHANGED <<ctxDone, loopVars, channelVars, providerVars, historyVars, laneVars,
                 handleVars, arbiterVars, driverClosed, answer, observed>>

ReturnTimeout(c) ==
  /\ caller[c] = "entered" /\ c \notin preCanceled /\ c \in ctxDone
  /\ attempt' = [attempt EXCEPT ![c] = Sealed(c)]
  /\ Returns(c, TimeoutResult(Sealed(c)))
  /\ UNCHANGED <<ctxDone, loopVars, channelVars, providerVars, historyVars, laneVars,
                 handleVars, arbiterVars, driverClosed, answer, observed>>

Caller(c) == \/ Find(c) \/ Reserve(c) \/ NoLane(c) \/ Send(c) \/ AwaitAck(c)
             \/ GiveUp(c) \/ ReturnCanceled(c) \/ ReturnReply(c) \/ ReturnTimeout(c)

-----------------------------------------------------------------------------
(***************************************************************************)
(* The arbiter's side of a call.                                           *)
(***************************************************************************)
arbiterStill == <<arbiter, promptEnded, terminalAsked>>

Queued(c, o) == pendingSteers' = Append(pendingSteers, [id |-> c, outcome |-> o])

Acknowledged(c) == ack' = IF ack[c] = "pending" THEN [ack EXCEPT ![c] = "accepted"] ELSE ack

(* acceptSteer answers without the dispatcher a call that is cancelled,
   sealed, or that steering cannot carry. *)
AnswerLocally(c) ==
  /\ IF c \in ctxDone \/ attempt[c] # "pending"
     THEN /\ attempt' = [attempt EXCEPT ![c] = Sealed(c)]
          /\ Queued(c, "fallback")
     ELSE /\ attempt' = [attempt EXCEPT ![c] = "notAdmitted"]
          /\ Queued(c, "unsupported")
  /\ UNCHANGED <<ctxDone, loopVars, channelVars, providerVars, historyVars, steers>>

Forward(c) ==
  /\ c \notin ctxDone /\ attempt[c] = "pending" /\ ~steeringOff
  /\ Submit(c)
  /\ steers' = steers \cup {c}
  /\ UNCHANGED pendingSteers

(* acknowledgeCommand and acceptSteer. *)
AcceptCommand ==
  LET c == Head(commands) IN
  /\ arbiter = "running" /\ commands # <<>>
  /\ commands' = Tail(commands)
  /\ Acknowledged(c)
  /\ AnswerLocally(c) \/ Forward(c)
  /\ UNCHANGED <<callerVars, laneVars, discoverable, retired, tracked, arbiterStill,
                 terminalReady, steeringOff, driverClosed, answer, observed>>

(* normalizeSteering: an answer that does not prove non-delivery is unknown. *)
Normalized(ans) == CASE ans = "injected" -> "injected"
                     [] ans = "startedNewTurn" -> "untrackable"
                     [] ans \in {"promptRequired", "noDelivery"} -> "fallback"
                     [] OTHER -> "deliveryUnknown"

(* acceptDispatcherEvent and lateSteerResult: what an event makes of its call. *)
OutcomeOf(e) ==
  CASE e.admission = "notAdmitted" -> "fallback"
    [] e.admission \in {"pending", "pendingWriter"} -> "admissionUnknown"
    [] e.late \/ ~e.completed -> "deliveryUnknown"
    [] OTHER -> Normalized(answer[e.id])

Disables(e) ==
  LET o == OutcomeOf(e) IN
  \/ o = "deliveryUnknown"
  \/ e.late /\ o = "admissionUnknown"
  \/ ~e.late /\ o = "untrackable"
  \/ ~e.late /\ e.completed /\ answer[e.id] = "noDelivery"

(* Mutant: a late event of a call already answered is answered again. *)
TakesEventAlways(e) == TRUE
TakesEvent(e) == e.id \in steers

ReadEvent ==
  LET e == Head(events) IN
  /\ arbiter = "running" /\ events # <<>> /\ Read
  /\ IF e = Complete
     THEN /\ terminalReady' = TRUE
          /\ UNCHANGED <<steers, pendingSteers, steeringOff>>
     ELSE /\ steeringOff' = (steeringOff \/ ~TakesEvent(e) \/ Disables(e))
          /\ steers' = steers \ {e.id}
          /\ IF TakesEvent(e) THEN Queued(e.id, OutcomeOf(e)) ELSE UNCHANGED pendingSteers
          /\ UNCHANGED terminalReady
  /\ UNCHANGED <<callerVars, laneVars, handleVars, arbiterStill, driverClosed, answer,
                 observed>>

(* A set of calls gets its observation, its reply and its slot back; the
   projection of a closing driver may drop the observation. *)
Answered(cs, result) ==
  /\ \E seen \in IF driverClosed THEN SUBSET cs ELSE {cs} :
       observed' = [c \in Calls |-> IF c \in seen THEN Append(observed[c], result[c])
                                    ELSE observed[c]]
  /\ replies' = [c \in Calls |-> IF c \in cs THEN result[c] ELSE replies[c]]
  /\ Release(cs)
  /\ UNCHANGED <<caller, preCanceled, outcome>>

(* emitObservation for a steer. *)
EmitSteer(i) ==
  /\ arbiter = "running" /\ i \in 1..Len(pendingSteers)
  /\ Answered({pendingSteers[i].id}, [c \in Calls |-> pendingSteers[i].outcome])
  /\ pendingSteers' = SubSeq(pendingSteers, 1, i - 1)
                      \o SubSeq(pendingSteers, i + 1, Len(pendingSteers))
  /\ UNCHANGED <<dvars, handleVars, arbiterStill, steers, terminalReady, steeringOff,
                 driverClosed, answer>>

PromptEnds ==
  /\ ~promptEnded /\ promptEnded' = TRUE
  /\ UNCHANGED <<dvars, callerVars, laneVars, handleVars, arbiter, steers, pendingSteers,
                 terminalAsked, terminalReady, steeringOff, driverClosed, answer, observed>>

(* beginTerminal: the mailbox is drained first, then the marker is sent. *)
BeginTerminal ==
  /\ arbiter = "running" /\ promptEnded /\ ~terminalAsked /\ commands = <<>>
  /\ arbiter' = "marking" /\ terminalAsked' = TRUE
  /\ UNCHANGED <<dvars, callerVars, laneVars, handleVars, steers, pendingSteers, promptEnded,
                 terminalReady, steeringOff, driverClosed, answer, observed>>
MarkTerminal ==
  /\ arbiter = "marking" /\ ResolveTerminal
  /\ arbiter' = "running"
  /\ UNCHANGED <<callerVars, laneVars, handleVars, steers, pendingSteers, promptEnded,
                 terminalAsked, terminalReady, steeringOff, driverClosed, answer, observed>>

Ends == arbiter' = "ended" /\ UNCHANGED <<promptEnded, terminalAsked, terminalReady>>

(* Mutant: the turn is over although an observation still waits. *)
FinishHasty ==
  /\ arbiter = "running" /\ terminalAsked /\ terminalReady /\ steers = {}
  /\ Ends
  /\ UNCHANGED <<dvars, callerVars, laneVars, handleVars, steers, pendingSteers, steeringOff,
                 driverClosed, answer, observed>>

(* The turn is over: nothing is left to resolve or to emit. *)
Finish ==
  /\ arbiter = "running" /\ terminalAsked /\ terminalReady
  /\ steers = {} /\ pendingSteers = <<>>
  /\ Ends
  /\ UNCHANGED <<dvars, callerVars, laneVars, handleVars, steers, pendingSteers, steeringOff,
                 driverClosed, answer, observed>>

PendingCalls == {pendingSteers[i].id : i \in 1..Len(pendingSteers)}
PlaceOf(c) == CHOOSE i \in 1..Len(pendingSteers) : pendingSteers[i].id = c

(* The driver is closed: reservations are released, nobody is answered. *)
Abandon ==
  /\ arbiter = "running" /\ driverClosed
  /\ Ends
  /\ Release(steers \cup PendingCalls)
  /\ steers' = {} /\ pendingSteers' = <<>>
  /\ UNCHANGED <<dvars, callerVars, handleVars, steeringOff, driverClosed, answer, observed>>

(* sequenceFailureResult. *)
FailureOutcome(c) == CASE attempt[c] = "admitted" -> "deliveryUnknown"
                       [] attempt[c] = "notAdmitted" -> "fallback"
                       [] OTHER -> "admissionUnknown"

(* failSequenceRegression: every call is answered with what is known of it. *)
FailRegression ==
  /\ CanRegress /\ arbiter = "running"
  /\ Ends /\ steeringOff' = TRUE
  /\ Answered(steers \cup PendingCalls,
              [c \in steers \cup PendingCalls |->
                 IF c \in steers THEN FailureOutcome(c)
                 ELSE pendingSteers[PlaceOf(c)].outcome])
  /\ steers' = {} /\ pendingSteers' = <<>>
  /\ UNCHANGED <<dvars, handleVars, driverClosed, answer>>

(* runTurn after the arbiter: discovery ends, then the handle is retired with
   every acknowledgement still pending, then its lane, then the dispatcher. *)
Hide ==
  /\ arbiter = "ended" /\ arbiter' = "hidden" /\ discoverable' = FALSE
  /\ UNCHANGED <<dvars, callerVars, laneVars, retired, commands, ack, tracked, steers,
                 pendingSteers, promptEnded, terminalAsked, terminalReady, steeringOff,
                 driverClosed, answer, observed>>

(* Mutant: retire leaves the acknowledgements of the mailbox pending. *)
RetiredAcksKept == ack
RetiredAcks == [c \in Calls |-> IF c \in tracked /\ ack[c] = "pending" THEN "terminal"
                                ELSE ack[c]]
Retire ==
  /\ arbiter = "hidden" /\ arbiter' = "retired" /\ retired' = TRUE
  /\ ack' = RetiredAcks
  /\ UNCHANGED <<dvars, callerVars, laneVars, discoverable, commands, tracked, steers,
                 pendingSteers, promptEnded, terminalAsked, terminalReady, steeringOff,
                 driverClosed, answer, observed>>
CloseLane ==
  /\ arbiter = "retired" /\ arbiter' = "unlaned"
  /\ laneClosed' = TRUE /\ laneUsed' = 0
  /\ UNCHANGED <<dvars, callerVars, holding, handleVars, steers, pendingSteers, promptEnded,
                 terminalAsked, terminalReady, steeringOff, driverClosed, answer, observed>>
StopDispatcher ==
  /\ arbiter = "unlaned" /\ (driverClosed => promptEnded)
  /\ CallStop /\ arbiter' = "stopping"
  /\ UNCHANGED <<callerVars, laneVars, handleVars, steers, pendingSteers, promptEnded,
                 terminalAsked, terminalReady, steeringOff, driverClosed, answer, observed>>
Leave ==
  /\ arbiter = "stopping" /\ ~running /\ arbiter' = "done"
  /\ UNCHANGED <<dvars, callerVars, laneVars, handleVars, steers, pendingSteers, promptEnded,
                 terminalAsked, terminalReady, steeringOff, driverClosed, answer, observed>>

Arbiter == \/ AcceptCommand \/ ReadEvent \/ BeginTerminal \/ MarkTerminal \/ Finish
           \/ \E i \in 1..Len(pendingSteers) : EmitSteer(i)
           \/ Abandon \/ Hide \/ Retire \/ CloseLane \/ StopDispatcher \/ Leave

-----------------------------------------------------------------------------
dispatcherOnly == <<callerVars, laneVars, handleVars, arbiterVars, driverClosed, observed>>

(* What the provider answers is true of the prompt; one it did not write it
   can only fail. *)
ProviderResponds(c, r, ans) ==
  /\ Respond(c, r)
  /\ ans \in IF wire[c] = "refused" THEN {"error"} ELSE Answers
  /\ answer' = [answer EXCEPT ![c] = ans]
  /\ UNCHANGED dispatcherOnly

ProviderStep == \E c \in Calls :
  \/ \E w \in {"written", "refused"} : Settle(c, w) /\ UNCHANGED <<dispatcherOnly, answer>>
  \/ \E r \in {"admitted", "silent"}, ans \in Answers \cup {"error"} : ProviderResponds(c, r, ans)

CloseDriver ==
  /\ CanClose /\ ~driverClosed /\ driverClosed' = TRUE
  /\ UNCHANGED <<dvars, callerVars, laneVars, handleVars, arbiterVars, answer, observed>>

DispatcherLoop == Loop /\ UNCHANGED <<dispatcherOnly, answer>>
StopEnters == PutStop /\ UNCHANGED <<dispatcherOnly, answer>>

Turn ==
  \/ Arbiter \/ FailRegression \/ DispatcherLoop \/ StopEnters \/ ProviderStep
  \/ \E c \in Calls : Caller(c) \/ (ContextEnds(c) /\ UNCHANGED <<dispatcherOnly, answer>>)
  \/ PromptEnds \/ CloseDriver

SteeringNext == Turn /\ UNCHANGED lane

SteeringSpec == SteeringInit /\ [][SteeringNext]_<<lane, svars>>

(* The goroutines of the driver are scheduled; a prompt is cancelled with the
   driver and then unwinds.  The provider answers or not. *)
SteeringFairSpec ==
  /\ SteeringSpec
  /\ WF_svars(Arbiter) /\ WF_svars(DispatcherLoop) /\ WF_svars(StopEnters)
  /\ \A c \in Calls : WF_svars(Caller(c))
  /\ WF_svars(PromptEnds /\ driverClosed)

-----------------------------------------------------------------------------
(***************************************************************************)
(* Properties.                                                             *)
(***************************************************************************)
(* The prompt of c may have reached the model of the provider. *)
MayBeDelivered(c) == wire[c] = "written" /\ answer[c] \notin {"promptRequired", "noDelivery"}

Said(c, os) == outcome[c] \in os \/ \E i \in 1..Len(observed[c]) : observed[c][i] \in os

(* What Steer returns or the stream observes as retry-safe was not and will
   not be delivered, so the backend may queue it as a turn of its own; what is
   called injected or untrackable was. *)
VerdictIsTrue == \A c \in Calls :
  /\ Said(c, RetrySafe) => ~MayBeDelivered(c) /\ wire[c] # "started"
  /\ Said(c, {"injected"}) => wire[c] = "written" /\ answer[c] = "injected"
  /\ Said(c, {"untrackable"}) => wire[c] = "written" /\ answer[c] = "startedNewTurn"

(* Whatever the dispatcher reports of an admission, Steer returns or the stream
   observes is true of what reached the provider (callerTimeoutSteerResult,
   resolveAdmission, releaseReservations). *)
ReportsAreTrue == AdmissionIsTrue /\ VerdictIsTrue

(* Steer and the stream agree on a call: the caller gets the observed outcome
   or one that decides nothing, and a call is observed at most once. *)
CallerAndStreamAgree == \A c \in Calls :
  /\ Len(observed[c]) <= 1
  /\ outcome[c] # "none" /\ observed[c] # <<>> =>
       outcome[c] = observed[c][1] \/ outcome[c] \in Undecided

(* A call refused by the mailbox or by retirement is never taken up by the
   arbiter: the caller may retry it although its command is in the mailbox. *)
RefusedIsNeverConsumed == \A c \in Calls : ack[c] \in {"rejected", "terminal"} =>
  /\ c \notin steers /\ ~WasSubmitted(c)
  /\ c \notin PendingCalls /\ observed[c] = <<>>

(* Every call the arbiter acknowledged has its one observation when the turn
   is over and the driver was not closed under it ("exactly one
   SteerObservation for every call accepted by the steering actor",
   driver/steering.go). *)
AcceptedIsObserved == arbiter = "done" /\ ~driverClosed =>
  \A c \in Calls : ack[c] = "accepted" => Len(observed[c]) = 1

(* An open lane counts the live reservations and never exceeds its capacity;
   what it admits fits the mailbox and both dispatcher channels, so that
   neither the arbiter nor the dispatcher blocks on the other. *)
LaneBoundsChannels ==
  /\ ~laneClosed => laneUsed = Cardinality(holding)
  /\ Cardinality(holding) <= lane
  /\ Len(commands) <= lane /\ Len(inputs) <= lane + 2 /\ Len(events) <= lane + 2

(* Caller, handle, lane and dispatcher keep their books together. *)
SteeringInv == /\ SteeringTypeOK /\ DispatcherInv /\ CallerAndStreamAgree
               /\ RefusedIsNeverConsumed /\ LaneBoundsChannels

(* The turn uses its dispatcher as the dispatcher expects, and nobody but the
   run loop, the provider and the three calls of the arbiter touches it. *)
DrivesDispatcher == DispatcherSpec

(* When the prompt has ended, the turn ends, although the provider may never
   answer a steering call. *)
TurnEndsAfterPrompt == promptEnded ~> (arbiter = "done")

(* A caller whose context has ended gets an answer; so does every caller once
   the turn ended without the driver being closed. *)
CallersReturn == \A c \in Calls :
  (caller[c] # "idle" /\ (c \in ctxDone \/ (promptEnded /\ ~driverClosed)))
    ~> (caller[c] = "returned" \/ (c \notin ctxDone /\ driverClosed))

(* Nobody who steers a turn, or ends it, waits for ever. *)
EveryoneReturns == TurnEndsAfterPrompt /\ CallersReturn
=============================================================================
