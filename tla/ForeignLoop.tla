------------------------------ MODULE ForeignLoop ------------------------------
(***************************************************************************)
(* The actor of a loop from its first turn to its last (backend/loop.go,   *)
(* turn.go, snapshot.go, restored.go), for turns that steer nothing: what  *)
(* it keeps between turns, the producers it starts and may have to         *)
(* abandon, the callers that wait for it, and the journal others fold.     *)
(*                                                                         *)
(* A turn is named by its input and inputs by the order they are received  *)
(* in.  SteeringTurn opens one turn for its steering; ForeignLock opens    *)
(* the lock.                                                               *)
(***************************************************************************)
EXTENDS Naturals, Sequences, FiniteSets

CONSTANTS
  MaxInputs,    \* inputs sent (a bound of the instance)
  Capacity,     \* ManagedInputQueueCapacity
  Controls,     \* the control commands that may be sent, each once
  MaxCalls      \* inputs, controls and snapshots together (a bound of the instance)

ASSUME LoopAssumption ==
  /\ MaxInputs \in Nat /\ MaxCalls \in Nat /\ Capacity \in Nat \ {0}
  /\ Controls \subseteq {"interrupt", "cancel", "shutdown"}

VARIABLES
  mode,         \* how the loop was made: prebound, late or restored
  phase,        \* where the actor stands
  cur,          \* its turn, or 0
  queue,        \* Loop.pending
  turnIndex, sid, sidBound, hasSpawned,  \* of Loop; sid names the turn that learned it
  serving,      \* what a drain is for
  outcome,      \* the outcome the actor has of its turn, or none
  loopGone,     \* loopCtx is done
  input,        \* what the sender of an input knows
  ask,          \* what a caller knows of its command or snapshot
  turn,         \* the producer of a turn
  mail,         \* its mailbox
  journal       \* what was published

own == <<turnIndex, sid, sidBound, hasSpawned>>
callers == <<input, ask>>
lvars == <<phase, cur, queue, own, serving, outcome, loopGone, callers,
           turn, mail, journal>>

Inputs == 1..MaxInputs
Modes == {"prebound", "late", "restored"}
Asks == Controls \cup {"snapshot"}
Kinds == {"started", "bound", "done", "failed", "interrupted", "cancelled", "rejected"}
Outcomes == {"none", "nothing", "failed", "done", "interrupted"}
Producing == {"none", "lock", "stream", "decide", "terminal", "report", "over"}
Turns == [at : Producing, holds : {"none", "temporary", "durable"}, bound : BOOLEAN,
          new : BOOLEAN, index : Nat, ran : BOOLEAN, learned : BOOLEAN, bindErr : BOOLEAN,
          out : Outcomes]
NoTurn == [at |-> "none", holds |-> "none", bound |-> FALSE, new |-> FALSE, index |-> 0,
           ran |-> FALSE, learned |-> FALSE, bindErr |-> FALSE, out |-> "none"]

LoopTypeOK ==
  /\ mode \in Modes /\ phase \in {"idle", "turn", "finishing", "draining", "exited"}
  /\ cur \in 0..MaxInputs /\ queue \in Seq(Inputs)
  /\ turnIndex \in Nat /\ sid \in 0..MaxInputs
  /\ {sidBound, hasSpawned, loopGone} \subseteq BOOLEAN
  /\ serving \in Controls \cup {"none", "late", "context"} /\ outcome \in Outcomes
  /\ input \in [Inputs -> {"unsent", "sent", "taken", "ok", "rejected", "error"}]
  /\ ask \in [Asks -> {"no", "asked", "taken", "answered"}]
  /\ turn \in [Inputs -> Turns] /\ mail \in [Inputs -> Seq({"bound", "done", "failed"})]
  /\ journal \in [of : [Inputs -> SUBSET Kinds], index : Nat]

(* New and newRestoredState: an id given in advance, or restored from the
   journal of a session that has run, is bound from the start. *)
LoopInit ==
  /\ mode \in Modes
  /\ phase = "idle" /\ cur = 0 /\ queue = <<>>
  /\ turnIndex = 0 /\ sid = 0 /\ sidBound = (mode # "late") /\ hasSpawned = (mode = "restored")
  /\ serving = "none" /\ outcome = "none" /\ loopGone = FALSE
  /\ input = [i \in Inputs |-> "unsent"] /\ ask = [c \in Asks |-> "no"]
  /\ turn = [t \in Inputs |-> NoTurn] /\ mail = [t \in Inputs |-> <<>>]
  /\ journal = [of |-> [t \in Inputs |-> {}], index |-> 0]

-----------------------------------------------------------------------------
(***************************************************************************)
(* What the outside does.                                                  *)
(***************************************************************************)
(* How often the outside has done something. *)
Calls == Cardinality({i \in Inputs : input[i] # "unsent"})
         + Cardinality({c \in Asks : ask[c] # "no"}) + (IF loopGone THEN 1 ELSE 0)
MayCall == phase # "exited" /\ Calls < MaxCalls

SendInput(i) ==
  /\ MayCall /\ input[i] = "unsent" /\ \A j \in 1..(i - 1) : input[j] # "unsent"
  /\ input' = [input EXCEPT ![i] = "sent"]
  /\ UNCHANGED <<phase, cur, queue, own, serving, outcome, loopGone, ask, turn,
                 mail, journal>>

Ask(c) ==
  /\ MayCall
  /\ ask[c] = "no" /\ ask' = [ask EXCEPT ![c] = "asked"]
  /\ UNCHANGED <<phase, cur, queue, own, serving, outcome, loopGone, input, turn,
                 mail, journal>>

EndContext ==
  /\ MayCall /\ ~loopGone /\ loopGone' = TRUE
  /\ UNCHANGED <<phase, cur, queue, own, serving, outcome, callers, turn, mail,
                 journal>>

-----------------------------------------------------------------------------
(***************************************************************************)
(* The producer of turn t: driveTurnToMailbox.                             *)
(***************************************************************************)
(* turnCtx is done: the loop's is, awaitTurn has returned, or the turn was
   cancelled. *)
Gone(t) == \/ loopGone
           \/ t # cur
           \/ phase = "draining" /\ serving # "late"

Goes(t, to) == turn' = [turn EXCEPT ![t].at = to]
(* The session a turn's producer locks: the loop's own, or the one its agent
   makes.  Temporary locks are the loop's, durable ones the session's. *)
SessionOf(t) == IF turn[t].bound THEN sid ELSE t
Free(t, kind) == \A u \in Inputs \ {t} :
  turn[u].holds = kind => kind = "durable" /\ SessionOf(u) # SessionOf(t)
(* Into the mailbox, which nobody reads once the turn is left. *)
Sent(t, kind) == mail' = IF t = cur THEN [mail EXCEPT ![t] = Append(@, kind)] ELSE mail

(* The lock, which another loop may have too, then Spawn, which may fail. *)
Spawn(t) ==
  LET kind == IF turn[t].bound THEN "durable" ELSE "temporary" IN
  /\ turn[t].at = "lock" /\ UNCHANGED mail
  /\ \/ turn' = [turn EXCEPT ![t].at = "terminal", ![t].out = "nothing"]
     \/ /\ Free(t, kind)
        /\ \/ turn' = [turn EXCEPT ![t].at = "terminal", ![t].out = "nothing", ![t].holds = kind]
           \/ turn' = [turn EXCEPT ![t].at = "stream", ![t].ran = TRUE, ![t].holds = kind]

(* KindInit on a session that is not bound: the lock is exchanged, or the
   failure kept until the stream ends; a mailbox that is gone ends the drain
   without it. *)
Learn(t) ==
  /\ turn[t].at = "stream" /\ ~turn[t].bound /\ ~turn[t].learned
  /\ \E exchanged \in BOOLEAN, sunk \in BOOLEAN :
       /\ exchanged => Free(t, "durable")
       /\ sunk \/ Gone(t)
       /\ turn' = [turn EXCEPT ![t].learned = TRUE, ![t].bindErr = ~exchanged /\ sunk,
                     ![t].holds = IF exchanged THEN "durable" ELSE @,
                     ![t].at = IF sunk THEN @ ELSE "decide"]
       /\ IF sunk THEN Sent(t, "bound") ELSE UNCHANGED mail

StreamEnds(t) == turn[t].at = "stream" /\ Goes(t, "decide") /\ UNCHANGED mail

(* What became of the turn; without an id its stream broke the protocol. *)
Decide(t) ==
  /\ turn[t].at = "decide" /\ UNCHANGED mail
  /\ \E out \in {"failed", "done", "interrupted"} :
       /\ turn[t].bindErr => out = "failed"
       /\ ~turn[t].bindErr => (out = "interrupted" <=> Gone(t))
       /\ out = "done" => turn[t].bound \/ turn[t].learned
       /\ turn' = [turn EXCEPT ![t].out = out,
                     ![t].at = IF out = "interrupted" THEN "report" ELSE "terminal"]

SendTerminal(t) ==
  /\ turn[t].at = "terminal" /\ Goes(t, "report")
  /\ \/ Sent(t, IF turn[t].out = "done" THEN "done" ELSE "failed")
     \/ Gone(t) /\ UNCHANGED mail

(* The lock is released before the outcome is reported; then the mailbox is
   closed. *)
Report(t) ==
  /\ turn[t].at = "report"
  /\ turn' = [turn EXCEPT ![t].at = "over", ![t].holds = "none"] /\ UNCHANGED mail

Winds(t) == Decide(t) \/ SendTerminal(t) \/ Report(t)
(* What a producer does after the loop has left it to itself is not followed. *)
Producer(t) ==
  /\ phase # "exited"
  /\ Spawn(t) \/ Learn(t) \/ StreamEnds(t) \/ Winds(t)
  /\ UNCHANGED <<phase, cur, queue, own, serving, outcome, loopGone, callers,
                 journal>>

Reported(t) == turn[t].at = "over"
Spawned(t) == turn[t].out # "nothing" /\ (turn[t].bound \/ turn[t].learned)

-----------------------------------------------------------------------------
(***************************************************************************)
(* The actor's state.                                                      *)
(***************************************************************************)
(* publishActor of some events, the ones of one step at a time. *)
Published(events) ==
  journal' = [of |-> [t \in Inputs |-> journal.of[t] \cup {k \in Kinds : <<t, k>> \in events}],
              index |-> IF <<cur, "done">> \in events THEN turn[cur].index ELSE journal.index]
Drops(k) == {<<queue[j], "cancelled">> : j \in 1..k}

(* applyBoundSID. *)
Binds(t) == sid' = t /\ sidBound' = TRUE /\ hasSpawned' = TRUE

Answer(i, what) == input' = [input EXCEPT ![i] = what]
(* run returns, having closed the agent; or the turn is over, and with it its
   mailbox. *)
Leaves == phase' = "exited" /\ UNCHANGED cur
TurnOver == phase' = "idle" /\ cur' = 0
Unread == mail' = [mail EXCEPT ![cur] = <<>>]

(* cancelPending: of the first k inputs, the next one's event failing. *)
Flushed(k) == queue' = SubSeq(queue, k + 1, Len(queue))
EndsAfter(k) == IF k = Len(queue) THEN TurnOver ELSE Leaves

(* runTurn: the turn begins, or TurnStarted cannot be published. *)
StartTurn(t) ==
  \/ /\ Published({<<t, "started">>})
     /\ turn' = [turn EXCEPT ![t] = [NoTurn EXCEPT !.at = "lock", !.bound = sidBound,
                                       !.new = ~hasSpawned, !.index = turnIndex + 1]]
     /\ phase' = "turn" /\ cur' = t
  \/ Leaves /\ UNCHANGED <<turn, journal>>

NextInput ==
  /\ phase = "idle" /\ queue # <<>>
  /\ queue' = Tail(queue) /\ StartTurn(Head(queue))
  /\ UNCHANGED <<own, serving, outcome, loopGone, callers, mail>>

-----------------------------------------------------------------------------
(***************************************************************************)
(* Between turns: run.                                                     *)
(***************************************************************************)
Idle == phase = "idle" /\ queue = <<>>

(* prepareInput may fail on an id or on publishAcceptance. *)
IdleInput(i) ==
  /\ Idle /\ input[i] = "sent" /\ \A j \in 1..(i - 1) : input[j] # "sent"
  /\ \/ Answer(i, "error") /\ UNCHANGED <<phase, cur, turn, journal>>
     \/ Answer(i, "ok") /\ StartTurn(i)
  /\ UNCHANGED <<queue, own, serving, outcome, loopGone, ask, mail>>

IdleControl(c) ==
  /\ Idle /\ ask[c] = "asked" /\ ask' = [ask EXCEPT ![c] = "answered"]
  /\ IF c = "shutdown" THEN Leaves ELSE UNCHANGED <<phase, cur>>
  /\ UNCHANGED <<queue, own, serving, outcome, loopGone, input, turn, mail, journal>>

IdleGone ==
  /\ Idle /\ loopGone /\ Leaves
  /\ UNCHANGED <<queue, own, serving, outcome, loopGone, callers, turn, mail, journal>>

Snapshot ==
  /\ Idle \/ phase = "turn"
  /\ ask["snapshot"] = "asked" /\ ask' = [ask EXCEPT !["snapshot"] = "answered"]
  /\ UNCHANGED <<phase, cur, queue, own, serving, outcome, loopGone, input, turn,
                 mail, journal>>

-----------------------------------------------------------------------------
(***************************************************************************)
(* In a turn: awaitTurn and handleTurnCommand.                             *)
(***************************************************************************)
(* processTurnObservation; a failed publication ends the loop. *)
Observe ==
  /\ phase \in {"turn", "finishing"} /\ mail[cur] # <<>>
  /\ mail' = [mail EXCEPT ![cur] = Tail(@)]
  /\ \/ /\ Published({<<cur, Head(mail[cur])>>}) /\ UNCHANGED <<phase, cur>>
        /\ IF Head(mail[cur]) = "bound" THEN Binds(cur) /\ UNCHANGED turnIndex ELSE UNCHANGED own
     \/ Leaves /\ UNCHANGED <<own, journal>>
  /\ UNCHANGED <<queue, serving, outcome, loopGone, callers, turn>>

TakeOutcome ==
  /\ phase = "turn" /\ Reported(cur)
  /\ outcome' = turn[cur].out /\ phase' = "finishing"
  /\ UNCHANGED <<cur, queue, own, serving, loopGone, callers, turn, mail, journal>>

(* Mutant: every turn that was not interrupted advances the index. *)
AdvancesAlways(t) == outcome # "interrupted"
Advances(t) == outcome = "done"

(* applyOutcome once the mailbox is drained and closed; the queue of a failed
   turn is cancelled. *)
Apply ==
  /\ phase = "finishing" /\ mail[cur] = <<>>
  /\ IF turn[cur].learned THEN Binds(cur)
     ELSE /\ hasSpawned' = (hasSpawned \/ (outcome # "interrupted" /\ Spawned(cur)))
          /\ UNCHANGED <<sid, sidBound>>
  /\ turnIndex' = IF Advances(cur) THEN turn[cur].index ELSE turnIndex
  /\ \/ /\ outcome = "interrupted" /\ UNCHANGED queue
        /\ \/ Published({<<cur, "interrupted">>}) /\ TurnOver
           \/ Leaves /\ UNCHANGED journal
     \/ outcome = "done" /\ TurnOver /\ UNCHANGED <<queue, journal>>
     \/ /\ outcome \in {"nothing", "failed"}
        /\ \E k \in 0..Len(queue) : Published(Drops(k)) /\ Flushed(k) /\ EndsAfter(k)
  /\ outcome' = "none"
  /\ UNCHANGED <<serving, loopGone, callers, turn, mail>>

(* UserInput: the queue is full, the input cannot be prepared, a steering
   machine that took it fails (and nobody answers), or it is queued. *)
TurnInput(i) ==
  /\ phase = "turn" /\ input[i] = "sent" /\ \A j \in 1..(i - 1) : input[j] # "sent"
  /\ \/ /\ Len(queue) >= Capacity /\ UNCHANGED queue
        /\ \/ Answer(i, "rejected") /\ Published({<<i, "rejected">>}) /\ UNCHANGED <<phase, cur>>
           \/ Answer(i, "error") /\ Leaves /\ UNCHANGED journal
     \/ /\ Len(queue) < Capacity /\ UNCHANGED journal
        /\ \/ Answer(i, "error") /\ UNCHANGED <<queue, phase, cur>>
           \/ Answer(i, "taken") /\ Leaves /\ UNCHANGED queue
           \/ Answer(i, "ok") /\ queue' = Append(queue, i) /\ UNCHANGED <<phase, cur>>
  /\ UNCHANGED <<own, serving, outcome, loopGone, ask, turn, mail>>

(* Mutant: the retracted input stays in the queue. *)
RetractedKept(j) == queue
Retracted(j) == SubSeq(queue, 1, j - 1) \o SubSeq(queue, j + 1, Len(queue))

(* CancelDelegateRequest of an input that is queued, or not to be found. *)
Retract(t) ==
  /\ phase = "turn" /\ "cancel" \in Controls /\ ask["cancel"] = "asked" /\ t # cur
  /\ ask' = [ask EXCEPT !["cancel"] = "answered"]
  /\ \/ \E j \in DOMAIN queue : queue[j] = t /\ queue' = Retracted(j)
        /\ Published({<<t, "cancelled">>}) /\ UNCHANGED <<phase, cur>>
     \/ (\E j \in DOMAIN queue : queue[j] = t) /\ Leaves /\ UNCHANGED <<queue, journal>>
     \/ (\A j \in DOMAIN queue : queue[j] # t) /\ UNCHANGED <<phase, cur, queue, journal>>
  /\ UNCHANGED <<own, serving, outcome, loopGone, input, turn, mail>>

(* What stops the turn starts its drain.  A cancellation that finds the outcome
   takes it and leaves the context alone. *)
Stop(c) ==
  /\ phase = "turn" /\ phase' = "draining"
  /\ \/ c = "context" /\ loopGone /\ UNCHANGED ask
     \/ c \in Controls /\ ask[c] = "asked" /\ ask' = [ask EXCEPT ![c] = "taken"]
  /\ IF c = "cancel" /\ Reported(cur) THEN serving' = "late" /\ outcome' = turn[cur].out
     ELSE serving' = c /\ UNCHANGED outcome
  /\ UNCHANGED <<cur, queue, own, loopGone, input, turn, mail, journal>>

-----------------------------------------------------------------------------
(***************************************************************************)
(* drainSteeringShutdownWithOutcome and what follows it.                   *)
(***************************************************************************)
Retaining == {"cancel", "late", "interrupt"}

(* The command that waits gets its answer. *)
Acknowledge ==
  /\ ask' = [c \in Asks |-> IF ask[c] = "taken" THEN "answered" ELSE ask[c]]
  /\ serving' = "none" /\ outcome' = "none"

(* Only a session's binding is published while draining. *)
DrainNext ==
  /\ phase = "draining" /\ mail[cur] # <<>>
  /\ mail' = [mail EXCEPT ![cur] = Tail(@)]
  /\ \/ /\ Head(mail[cur]) # "bound"
        /\ UNCHANGED <<phase, cur, own, journal, ask, serving, outcome>>
     \/ /\ Head(mail[cur]) = "bound" /\ Published({<<cur, "bound">>}) /\ Binds(cur)
        /\ UNCHANGED <<phase, cur, turnIndex, ask, serving, outcome>>
     \/ /\ Head(mail[cur]) = "bound" /\ Leaves /\ Acknowledge /\ UNCHANGED <<own, journal>>
  /\ UNCHANGED <<queue, loopGone, input, turn>>

Capture ==
  /\ phase = "draining" /\ serving \in Retaining /\ outcome = "none" /\ Reported(cur)
  /\ outcome' = turn[cur].out
  /\ UNCHANGED <<phase, cur, queue, own, serving, loopGone, callers, turn, mail,
                 journal>>

(* Mutant: a drain waits for the provider as long as it takes. *)
DrainOverUnbounded ==
  serving \in Retaining /\ outcome # "none" /\ mail[cur] = <<>>
(* Outcome and mailbox are through, or turnWait has fired, whatever is there. *)
DrainOver == phase = "draining"

(* interruptedTurnOutcome: whatever the outcome was, the turn was interrupted,
   and only the id it learned is kept. *)
StopTurn ==
  /\ phase = "draining" /\ DrainOver /\ serving \in Retaining
  /\ IF outcome # "none" /\ turn[cur].learned THEN Binds(cur)
     ELSE UNCHANGED <<sid, sidBound, hasSpawned>>
  /\ Acknowledge
  /\ \/ Leaves /\ UNCHANGED <<queue, journal>>
     \/ /\ serving # "interrupt" /\ Published({<<cur, "interrupted">>}) /\ TurnOver
        /\ UNCHANGED queue
     \/ /\ serving = "interrupt"
        /\ \E k \in 0..Len(queue) :
             Published({<<cur, "interrupted">>} \cup Drops(k)) /\ Flushed(k) /\ EndsAfter(k)
  /\ Unread /\ UNCHANGED <<turnIndex, loopGone, input, turn>>

(* Shutdown cancels the queue; a context that is done leaves it. *)
StopLoop ==
  /\ phase = "draining" /\ DrainOver /\ serving \in {"shutdown", "context"}
  /\ Leaves /\ Acknowledge
  /\ \E k \in 0..Len(queue) :
       /\ serving = "context" => k = 0
       /\ Published(Drops(k)) /\ Flushed(k)
  /\ Unread /\ UNCHANGED <<own, loopGone, input, turn>>

-----------------------------------------------------------------------------
Steps == \/ NextInput \/ IdleGone \/ Observe \/ TakeOutcome \/ Apply
         \/ Stop("context") \/ DrainNext \/ Capture \/ StopTurn \/ StopLoop
Receives ==
  \/ Snapshot
  \/ \E i \in Inputs : IdleInput(i) \/ TurnInput(i) \/ Retract(i)
  \/ \E c \in Controls : IdleControl(c) \/ Stop(c)

LoopNext ==
  /\ \/ Steps \/ Receives \/ EndContext
     \/ \E t \in Inputs : SendInput(t) \/ Producer(t)
     \/ \E c \in Asks : Ask(c)
  /\ UNCHANGED mode

(* The actor goes on by itself, its select passes over no sender for ever, and a
   producer winds up what has ended; it may spend for ever on its start or its
   stream.  Each of these can only happen finitely often. *)
LoopSpec ==
  /\ LoopInit /\ [][LoopNext]_<<mode, lvars>>
  /\ WF_lvars(Steps) /\ SF_lvars(Receives)
  /\ WF_lvars(\E t \in Inputs : Producer(t) /\ Winds(t))

-----------------------------------------------------------------------------
(***************************************************************************)
(* Properties.                                                             *)
(***************************************************************************)
Started(t) == turn[t].at # "none"

(* No input is both run and cancelled or refused, whichever of the retraction,
   the flushes, the capacity and an exiting actor gets to it (handleTurnCommand,
   cancelPending, run). *)
OneFate == \A t \in Inputs :
  /\ \A k, l \in journal.of[t] \cap {"started", "cancelled", "rejected"} : k = l
  /\ (\E j \in DOMAIN queue : queue[j] = t) => journal.of[t] = {}
  /\ Started(t) => input[t] = "ok"
  /\ Len(queue) <= Capacity

(* The session is bound in the journal once, whatever turns learned ids and were
   abandoned (applyBoundObservation). *)
BoundOnce == \A t, u \in Inputs :
  "bound" \in journal.of[t] /\ "bound" \in journal.of[u] => t = u /\ mode = "late"

(* A provider is told to start anew after it has run only behind a turn that was
   interrupted, or never learned its id, or ended the loop; and one that holds
   its lock beside the current turn was abandoned by a stop (runTurn,
   interruptedTurnOutcome, drainSteeringShutdownWithOutcome). *)
Successors == \A t, u \in Inputs : u < t /\ Started(t) /\ Started(u) =>
  /\ turn[t].new /\ turn[u].ran =>
       "interrupted" \in journal.of[u] \/ ~(turn[u].bound \/ turn[u].learned)
  /\ turn[u].holds # "none" => "interrupted" \in journal.of[u]

(* The loop across its turns. *)
LoopInv == LoopTypeOK /\ OneFate /\ BoundOnce /\ Successors

(* What the loop will hand to its next turn is what a restore would read from the
   journal, but for two cases of a turn that was stopped: its TurnDone may be
   out without its index being taken, and its session id taken from the outcome
   without ForeignSessionBound being out (applyOutcome, interruptedTurnOutcome,
   processTurnOutcomeObservation).  A loop whose context is done starts nothing
   that lasts. *)
Unsettled(t) == "interrupted" \in journal.of[t] \/ t = cur
JournalIsTrue == ~loopGone =>
  /\ turnIndex # journal.index =>
       \E t \in Inputs : /\ "done" \in journal.of[t] /\ turn[t].index = journal.index
                         /\ Unsettled(t)
  /\ turnIndex <= journal.index
  /\ sid # 0 => "bound" \in journal.of[sid] \/ Unsettled(sid)

(* A sent input, a control command and a snapshot are answered or find the loop
   gone, although no provider need ever answer the loop (Accepted, Ack, Done). *)
Waits == \/ \E i \in Inputs : input[i] \in {"sent", "taken"}
         \/ \E c \in Asks : ask[c] \in {"asked", "taken"}
EveryCommandAnswered == []<>(~Waits \/ phase = "exited")
=============================================================================
