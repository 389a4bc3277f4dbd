--------------------------- MODULE SteerDispatcher ---------------------------
(***************************************************************************)
(* The goroutine that owns the provider steering calls of one ACP turn     *)
(* (driver/acp/dispatcher.go).  Jobs, the terminal marker and the stop     *)
(* marker arrive on one FIFO channel; the run loop starts at most one      *)
(* provider call at a time, reads its admission fact and its completion    *)
(* from two channels, and reports on the events channel.  The admission of *)
(* a call is also kept in its steerAttempt, which the caller seals when it *)
(* gives up.                                                               *)
(*                                                                         *)
(* The provider is the external ACP client, modelled from its use here: a  *)
(* started call is written to the wire or refused, the admission fact is   *)
(* published first and is true, the completion comes later or never.  A    *)
(* session without StartSteer (Async = FALSE) has no admission fact and    *)
(* its completion says truly whether the request was written.              *)
(***************************************************************************)
EXTENDS Naturals, Sequences, FiniteSets

CONSTANTS
  Calls,       \* the steering calls of the turn
  None,        \* no call
  InputCap,    \* cap(inputs), 256 in newSteerDispatcher
  EventCap,    \* cap(events), 256 in newSteerDispatcher
  Async        \* the session is an asyncSteerSession

ASSUME DispatcherAssumption ==
  /\ IsFiniteSet(Calls) /\ None \notin Calls
  /\ {"terminal", "stop"} \cap Calls = {}
  /\ InputCap \in Nat \ {0} /\ EventCap \in Nat \ {0}
  /\ Async \in BOOLEAN

VARIABLES
  ctxDone,            \* calls whose context has ended
  attempt,            \* steerAttempt.admission
  inputs,             \* d.inputs: calls, "terminal", "stop"
  queue,              \* jobs taken and not started
  active,             \* the call in flight, or NoActive
  events,             \* d.events
  terminalRequested,
  completeSent,       \* terminalCompleteSent
  running,            \* d.done is open
  stopping,           \* stop was called: the arbiter submits and reads no more
  wire,               \* what became of the request at the provider
  fact,               \* the one-slot admission channel of the handle
  reply,              \* the one-slot completion channel
  submitted,          \* the jobs sent, in order (history)
  told,               \* the events emitted for a call (history)
  starts              \* the calls started, in order (history)

attemptVars  == <<ctxDone, attempt>>
loopVars     == <<queue, active, terminalRequested, completeSent, running>>
channelVars  == <<inputs, events, stopping>>
providerVars == <<wire, fact, reply>>
historyVars  == <<submitted, told, starts>>
dvars == <<attemptVars, loopVars, channelVars, providerVars, historyVars>>

Admissions == {"pending", "notAdmitted", "pendingWriter", "admitted"}
NoActive == [id |-> None, admission |-> "pending", heard |-> FALSE,
             resolved |-> FALSE, terminal |-> FALSE, timer |-> FALSE]
Actives == [id : Calls \cup {None}, admission : Admissions, heard : BOOLEAN,
            resolved : BOOLEAN, terminal : BOOLEAN, timer : BOOLEAN]
(* completed: the event carries the provider's completion. *)
Event == [id : Calls, admission : Admissions, completed : BOOLEAN, late : BOOLEAN]
Complete == [id |-> None, admission |-> "pending", completed |-> FALSE, late |-> FALSE]

(* What travels to the run loop, and what it reports. *)
Items == Calls \cup {"terminal", "stop"}
Reports == Event \cup {Complete}

DispatcherTypeOK ==
  /\ ctxDone \subseteq Calls
  /\ attempt \in [Calls -> Admissions]
  /\ inputs \in Seq(Items) /\ Len(inputs) <= InputCap
  /\ queue \in Seq(Calls)
  /\ active \in Actives
  /\ events \in Seq(Reports) /\ Len(events) <= EventCap
  /\ {terminalRequested, completeSent, running, stopping} \subseteq BOOLEAN
  /\ wire \in [Calls -> {"idle", "started", "written", "refused"}]
  /\ fact \in [Calls -> {"none", "true", "false"}]
  /\ reply \in [Calls -> {"none", "admitted", "silent"}]
  /\ told \in [Calls -> Seq(Event)]
  /\ {starts, submitted} \subseteq Seq(Calls)

DispatcherInit ==
  /\ ctxDone = {} /\ attempt = [c \in Calls |-> "pending"]
  /\ inputs = <<>> /\ queue = <<>> /\ active = NoActive /\ events = <<>>
  /\ terminalRequested = FALSE /\ completeSent = FALSE /\ running = TRUE
  /\ stopping = FALSE
  /\ wire = [c \in Calls |-> "idle"]
  /\ fact = [c \in Calls |-> "none"] /\ reply = [c \in Calls |-> "none"]
  /\ submitted = <<>> /\ told = [c \in Calls |-> <<>>] /\ starts = <<>>

-----------------------------------------------------------------------------
(***************************************************************************)
(* steerAttempt: three operations under one mutex.                         *)
(***************************************************************************)
BeginsStart(c) == attempt[c] = "pending"

(* markAdmission: a sealed attempt stays sealed. *)
Marked(c, a) == IF attempt[c] = "notAdmitted" THEN "notAdmitted" ELSE a

(* cancelAndSnapshot: only an attempt that has not begun is sealed. *)
Sealed(c) == IF attempt[c] = "pending" THEN "notAdmitted" ELSE attempt[c]

WasSubmitted(c) == \E i \in 1..Len(submitted) : submitted[i] = c

(* The caller whose context ended takes its snapshot (callerTimeoutSteerResult);
   the arbiter marks a call it answers without the dispatcher (acceptSteer). *)
Seal(c) ==
  /\ c \in ctxDone \/ ~WasSubmitted(c)
  /\ attempt' = [attempt EXCEPT ![c] = Sealed(c)]
  /\ UNCHANGED <<ctxDone, loopVars, channelVars, providerVars, historyVars>>

ContextEnds(c) ==
  /\ c \notin ctxDone
  /\ ctxDone' = ctxDone \cup {c}
  /\ UNCHANGED <<attempt, loopVars, channelVars, providerVars, historyVars>>

-----------------------------------------------------------------------------
(***************************************************************************)
(* The events channel.  emit blocks while it is full, so a step that emits *)
(* waits for the room it needs.                                            *)
(***************************************************************************)
(* One step emits at most one event for a call. *)
Emitted(es) ==
  /\ Len(events) + Len(es) <= EventCap
  /\ events' = events \o es
  /\ told' = [c \in Calls |->
       IF \E i \in 1..Len(es) : es[i].id = c
       THEN Append(told[c], es[CHOOSE i \in 1..Len(es) : es[i].id = c]) ELSE told[c]]

Says(c, a) == [id |-> c, admission |-> a, completed |-> FALSE, late |-> FALSE]
Completion(c, a, late) == [id |-> c, admission |-> a, completed |-> TRUE, late |-> late]

-----------------------------------------------------------------------------
(***************************************************************************)
(* The head of the run loop: start the next job, report completion.        *)
(***************************************************************************)

StartDue == running /\ active.id = None /\ ~terminalRequested /\ queue # <<>>
CompleteDue == /\ running /\ terminalRequested /\ ~completeSent
               /\ active.id = None \/ active.resolved
               /\ queue = <<>>

(* The job's context has ended: it is sealed, if nothing came first, and
   reported with what its attempt says. *)
SkipCancelled ==
  LET c == Head(queue) IN
  /\ StartDue /\ c \in ctxDone
  /\ queue' = Tail(queue)
  /\ attempt' = [attempt EXCEPT ![c] = Sealed(c)]
  /\ Emitted(<<Says(c, Sealed(c))>>)
  /\ UNCHANGED <<ctxDone, active, terminalRequested, completeSent, running, inputs, stopping,
                 providerVars, submitted, starts>>

(* beginStart lost to the caller's cancelAndSnapshot. *)
SkipSealed ==
  LET c == Head(queue) IN
  /\ StartDue /\ c \notin ctxDone /\ ~BeginsStart(c)
  /\ queue' = Tail(queue)
  /\ Emitted(<<Says(c, attempt[c])>>)
  /\ UNCHANGED <<attemptVars, active, terminalRequested, completeSent, running, inputs, stopping,
                 providerVars, submitted, starts>>

(* StartSteer returned no handle, or the session cannot steer at all. *)
StartUnavailable ==
  LET c == Head(queue) IN
  /\ StartDue /\ c \notin ctxDone /\ BeginsStart(c)
  /\ queue' = Tail(queue)
  /\ attempt' = [attempt EXCEPT ![c] = "notAdmitted"]
  /\ Emitted(<<Says(c, "notAdmitted")>>)
  /\ UNCHANGED <<ctxDone, active, terminalRequested, completeSent, running, inputs, stopping,
                 providerVars, submitted, starts>>

Start ==
  LET c == Head(queue) IN
  /\ StartDue /\ c \notin ctxDone /\ BeginsStart(c)
  /\ queue' = Tail(queue)
  /\ attempt' = [attempt EXCEPT ![c] = "pendingWriter"]
  /\ active' = [NoActive EXCEPT !.id = c, !.admission = "pendingWriter"]
  /\ wire' = [wire EXCEPT ![c] = "started"]
  /\ starts' = Append(starts, c)
  /\ UNCHANGED <<ctxDone, terminalRequested, completeSent, running, channelVars,
                 fact, reply, submitted, told>>

ReportComplete ==
  /\ CompleteDue
  /\ Emitted(<<Complete>>)
  /\ completeSent' = TRUE
  /\ UNCHANGED <<attemptVars, queue, active, terminalRequested, running, inputs, stopping,
                 providerVars, submitted, starts>>

-----------------------------------------------------------------------------
(***************************************************************************)
(* The select of the run loop.                                             *)
(***************************************************************************)
Selecting == running /\ ~StartDue /\ ~CompleteDue

TakeJob ==
  LET c == Head(inputs) IN
  /\ Selecting /\ inputs # <<>> /\ c \in Calls
  /\ inputs' = Tail(inputs)
  /\ \/ /\ terminalRequested
        /\ attempt' = [attempt EXCEPT ![c] = "notAdmitted"]
        /\ Emitted(<<Says(c, "notAdmitted")>>)
        /\ UNCHANGED queue
     \/ /\ ~terminalRequested
        /\ queue' = Append(queue, c)
        /\ UNCHANGED <<attempt, events, told>>
  /\ UNCHANGED <<ctxDone, active, terminalRequested, completeSent, running, stopping,
                 providerVars, submitted, starts>>

(* resolveTerminalActive: the active call is reported with what is known of
   it, its handle is cancelled, and it stays active for its late completion. *)
Resolved(a) == [a EXCEPT !.resolved = TRUE, !.timer = FALSE]

(* What resolveTerminalActive leaves in the attempt. *)
ResolvedMark(a) == IF a.admission = "pendingWriter" THEN attempt[a.id]
                   ELSE Marked(a.id, a.admission)

(* The terminal marker: resolveQueued answers every waiting job, then the
   active call is resolved, or given the grace of steerTerminalGrace. *)
TakeTerminal ==
  LET refusals == [i \in 1..Len(queue) |-> Says(queue[i], "notAdmitted")]
      dropped  == {queue[i] : i \in 1..Len(queue)}
      now == active.id # None /\ ~active.resolved /\ active.admission # "pendingWriter"
  IN
  /\ Selecting /\ inputs # <<>> /\ Head(inputs) = "terminal"
  /\ inputs' = Tail(inputs)
  /\ terminalRequested' = TRUE
  /\ queue' = <<>>
  /\ attempt' = [c \in Calls |-> IF c \in dropped THEN "notAdmitted"
                                 ELSE IF now /\ c = active.id THEN ResolvedMark(active)
                                 ELSE attempt[c]]
  /\ Emitted(refusals \o IF now THEN <<Says(active.id, active.admission)>> ELSE <<>>)
  /\ active' = IF active.id = None THEN active
               ELSE IF now THEN Resolved([active EXCEPT !.terminal = TRUE])
               ELSE [active EXCEPT !.terminal = TRUE,
                                   !.timer = active.admission = "pendingWriter"]
  /\ UNCHANGED <<ctxDone, completeSent, running, stopping, providerVars, submitted, starts>>

(* The stop marker: the handle is cancelled, both channels close. *)
TakeStop ==
  /\ Selecting /\ inputs # <<>> /\ Head(inputs) = "stop"
  /\ inputs' = Tail(inputs)
  /\ running' = FALSE
  /\ UNCHANGED <<attemptVars, queue, active, terminalRequested, completeSent, events,
                 stopping, providerVars, historyVars>>

FactOf(c) == IF fact[c] = "true" THEN "admitted" ELSE "notAdmitted"

(* The admission fact of the active call wins the select. *)
TakeFact ==
  LET c == active.id
      known == [active EXCEPT !.admission = FactOf(c), !.heard = TRUE]
      ends == active.terminal /\ ~active.resolved
  IN
  /\ Selecting /\ c # None /\ ~active.resolved /\ ~active.heard
  /\ active.admission = "pendingWriter" /\ fact[c] # "none"
  /\ fact' = [fact EXCEPT ![c] = "none"]
  /\ attempt' = [attempt EXCEPT ![c] = Marked(c, FactOf(c))]
  /\ active' = IF ends THEN Resolved(known) ELSE known
  /\ Emitted(IF ends THEN <<Says(c, FactOf(c))>> ELSE <<>>)
  /\ UNCHANGED <<ctxDone, queue, terminalRequested, completeSent, running, inputs, stopping,
                 wire, reply, submitted, starts>>

(* resolveAdmission: a fact already published is read before the completion. *)
Drains == active.admission = "pendingWriter" /\ ~active.heard /\ fact[active.id] # "none"
Known == IF Drains THEN FactOf(active.id) ELSE active.admission

(* finishActive: what a completion makes of the admission known so far. *)
Finished(known, r) ==
  IF r = "admitted" THEN "admitted"
  ELSE IF known = "pendingWriter" THEN "notAdmitted"
  ELSE known

(* The mark finishActive leaves: nothing when the fact was known already. *)
FinishMark(c, known, r) ==
  IF r = "admitted" THEN Marked(c, "admitted")
  ELSE IF known = "pendingWriter" THEN Marked(c, "notAdmitted")
  ELSE IF Drains THEN Marked(c, known)
  ELSE attempt[c]

(* The completion: late when the call was resolved or its caller is gone. *)
TakeReply ==
  LET c == active.id
      a == Finished(Known, reply[c])
      late == active.resolved \/ c \in ctxDone
  IN
  /\ Selecting /\ c # None /\ reply[c] # "none"
  /\ reply' = [reply EXCEPT ![c] = "none"]
  /\ fact' = IF Drains THEN [fact EXCEPT ![c] = "none"] ELSE fact
  /\ attempt' = [attempt EXCEPT ![c] = FinishMark(c, Known, reply[c])]
  /\ Emitted(<<Completion(c, a, late)>>)
  /\ active' = NoActive
  /\ UNCHANGED <<ctxDone, queue, terminalRequested, completeSent, running, inputs, stopping,
                 wire, submitted, starts>>

(* The grace of steerTerminalGrace is over: reported as still unknown. *)
GraceEnds ==
  /\ Selecting /\ active.id # None /\ active.timer /\ ~active.resolved
  /\ active' = Resolved(active)
  /\ Emitted(<<Says(active.id, active.admission)>>)
  /\ UNCHANGED <<attemptVars, queue, terminalRequested, completeSent, running, inputs, stopping,
                 providerVars, submitted, starts>>

Loop ==
  \/ SkipCancelled \/ SkipSealed \/ Start \/ StartUnavailable \/ ReportComplete
  \/ TakeJob \/ TakeTerminal \/ TakeStop \/ TakeFact \/ TakeReply \/ GraceEnds

-----------------------------------------------------------------------------
(***************************************************************************)
(* The provider, external.  A call may also stay unanswered for ever.      *)
(***************************************************************************)
Settle(c, w) ==
  /\ wire[c] = "started"
  /\ wire' = [wire EXCEPT ![c] = w]
  /\ fact' = IF Async THEN [fact EXCEPT ![c] = IF w = "written" THEN "true" ELSE "false"]
             ELSE fact
  /\ UNCHANGED <<attemptVars, loopVars, channelVars, reply, historyVars>>

(* A completion may omit the admission, or its channel close without one, when
   the fact was published apart: "silent" is both. *)
Respond(c, r) ==
  /\ wire[c] \in {"written", "refused"} /\ active.id = c /\ reply[c] = "none"
  /\ IF r = "admitted" THEN wire[c] = "written" ELSE Async \/ wire[c] = "refused"
  /\ reply' = [reply EXCEPT ![c] = r]
  /\ UNCHANGED <<attemptVars, loopVars, channelVars, wire, fact, historyVars>>

Provider == \E c \in Calls :
  \/ \E w \in {"written", "refused"} : Settle(c, w)
  \/ \E r \in {"admitted", "silent"} : Respond(c, r)

-----------------------------------------------------------------------------
(***************************************************************************)
(* What the arbiter asks of the dispatcher.                                *)
(***************************************************************************)
Put(x) == Len(inputs) < InputCap /\ inputs' = Append(inputs, x)
Entered(x) == \E i \in 1..Len(inputs) : inputs[i] = x

Submit(c) ==
  /\ running /\ ~stopping /\ ~WasSubmitted(c)
  /\ Put(c) /\ submitted' = Append(submitted, c)
  /\ UNCHANGED <<attemptVars, loopVars, events, stopping, providerVars, told, starts>>

ResolveTerminal ==
  /\ running /\ ~stopping /\ ~terminalRequested /\ ~Entered("terminal")
  /\ Put("terminal")
  /\ UNCHANGED <<attemptVars, loopVars, events, stopping, providerVars, historyVars>>

Read ==
  /\ ~stopping /\ events # <<>>
  /\ events' = Tail(events)
  /\ UNCHANGED <<attemptVars, loopVars, inputs, stopping, providerVars, historyVars>>

(* stop enters the FIFO when there is room, and waits for done. *)
CallStop ==
  /\ ~stopping /\ stopping' = TRUE
  /\ UNCHANGED <<attemptVars, loopVars, inputs, events, providerVars, historyVars>>
PutStop ==
  /\ stopping /\ running /\ ~Entered("stop")
  /\ Put("stop")
  /\ UNCHANGED <<attemptVars, loopVars, events, stopping, providerVars, historyVars>>

DispatcherNext ==
  \/ Loop \/ Provider
  \/ \E c \in Calls : Submit(c) \/ ContextEnds(c) \/ Seal(c)
  \/ ResolveTerminal \/ Read \/ CallStop \/ PutStop

DispatcherSpec == DispatcherInit /\ [][DispatcherNext]_dvars

-----------------------------------------------------------------------------
(***************************************************************************)
(* Properties.                                                             *)
(***************************************************************************)
Reported(c, a) == \E i \in 1..Len(told[c]) : told[c][i].admission = a

(* A call whose attempt is sealed, or that was reported not admitted, is never
   written, not even later: only such a call is retried as a normal turn.  One
   reported admitted was written (beginStart, resolveAdmission, finishActive). *)
AdmissionIsTrue == \A c \in Calls :
  /\ (attempt[c] = "notAdmitted" \/ Reported(c, "notAdmitted")) => wire[c] \in {"idle", "refused"}
  /\ Reported(c, "admitted") => wire[c] = "written"

(* A provider call starts only when every earlier one was reported, and in the
   order the jobs were submitted (run, start). *)
OneAtATimeInOrder ==
  /\ \A i \in 1..(Len(starts) - 1) : told[starts[i]] # <<>>
  /\ \A i, j \in 1..Len(starts) : i < j =>
       \E m, n \in 1..Len(submitted) :
         m < n /\ submitted[m] = starts[i] /\ submitted[n] = starts[j]

(* A call is reported once; only a call resolved at the terminal is reported
   again, as late, and at most once (finishActive, resolveTerminalActive). *)
ReportedOnce == \A c \in Calls :
  /\ Len(told[c]) <= 2
  /\ Len(told[c]) = 2 => terminalRequested /\ ~told[c][1].late /\ told[c][2].late

(* When the arbiter has been told that the terminal is complete, every call
   the dispatcher took has been reported (run's terminalComplete). *)
CompleteCoversAll == completeSent =>
  \A c \in Calls : WasSubmitted(c) /\ ~Entered(c) => told[c] # <<>>

(* The events channel never holds more than one event per call, one late
   event and the completion: with a lane smaller than its capacity the run
   loop never blocks in emit (newSteerDispatcher). *)
EventsBounded == Len(events) <= Cardinality({c \in Calls : told[c] # <<>>}) + 2

(* The bookkeeping of the run loop: types, one call at a time in order, one
   report per call, nothing left out at the terminal, room to emit. *)
DispatcherInv == /\ DispatcherTypeOK /\ OneAtATimeInOrder /\ ReportedOnce
                 /\ CompleteCoversAll /\ EventsBounded
=============================================================================
