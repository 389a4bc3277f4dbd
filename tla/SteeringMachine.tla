-------------------------- MODULE SteeringMachine --------------------------
(***************************************************************************)
(* The steering machine of one foreign turn (backend/steering.go).  It is  *)
(* owned by the loop actor: every action below is one call the actor makes *)
(* on it, run to completion, and nothing else touches its state.           *)
(*                                                                         *)
(* A delegate request that arrives while a turn runs is offered to the     *)
(* machine.  The machine either steers it into the running turn (reserve,  *)
(* call the adapter, adjudicate what came back, record the verdict through *)
(* the delivery hook) or hands it to the ordinary input queue of the loop, *)
(* l.pending, as a fallback.  One request is in flight at a time.          *)
(*                                                                         *)
(* The environment is left open here: completions, ordered observations,   *)
(* prompt terminals, timers and commands may come in any order.  Module    *)
(* SteeringTurn closes it with the turn's goroutines and channels.         *)
(***************************************************************************)
EXTENDS Naturals, Sequences, FiniteSets

CONSTANTS
  Inputs,      \* the user inputs of the turn's life, delegate or ordinary
  Delegates,   \* those isCandidate accepts: machine agency, this loop, intent
  Steerable,   \* the delegates NewSteerRequest can clone; none without a Steerer
  Backlog,     \* l.pending when the turn starts
  HookFaults,  \* whether a hook call or a checked publication may fail
  None         \* "no attempt": m.active = nil

ASSUME InputsAssumption ==
  /\ Delegates \subseteq Inputs
  /\ Steerable \subseteq Delegates
  /\ None \notin Inputs
  /\ HookFaults \in BOOLEAN

ASSUME BacklogAssumption ==
  /\ Backlog \in Seq(Inputs)
  /\ \A i, j \in 1..Len(Backlog) : Backlog[i] = Backlog[j] => i = j

VARIABLES
  loopPending,      \* l.pending, the loop's FIFO of inputs awaiting a turn
  ticket,           \* acceptance order of an input, 0 before it is accepted
  accepted,         \* how many inputs have been accepted
  retracted,        \* inputs an InputCancelled took off l.pending
  pending,          \* m.pending, requests waiting for the slot
  active,           \* m.active, the reserved attempt, or None
  terminal,         \* the turn's terminal fact was seen
  disabled,         \* a verdict was ambiguous: no more steering this turn
  fallbackBarrier,  \* a request went to l.pending: later ones must follow it
  fault,            \* m.fault # nil
  ordered,          \* the stream is a driver.OrderedStream
  streamKnown,      \* setStream was called
  timer,            \* the terminal-race clock
  deadlineTimer,    \* the reservation deadline of the active attempt
  done,             \* attempts whose adapter call has completed
  seen,             \* attempts whose ordered observation was taken
  resolved,         \* attempts with their verdict recorded
  deadlineExpired,  \* attempts retired by the actor's own deadline
  result,           \* what the adapter or the stream last said of an attempt
  reserved,         \* hook.Reserve succeeded
  folded,           \* TurnFoldedInto was published
  injected,         \* hook.Resolve(Injected) succeeded
  unknown,          \* hook.Resolve(Unknown) succeeded
  untrackable,      \* hook.Resolve(Untrackable) succeeded
  fallback,         \* hook.QueueFallback succeeded
  failed,           \* a call on the machine has returned an error
  stage             \* "running", "finalized" by shutdown, "left" after cleanup

acceptVars  == <<ticket, accepted>>
queueVars   == <<loopPending, fallback, fallbackBarrier>>
streamVars  == <<ordered, streamKnown>>
clockVars   == <<timer, deadlineTimer>>
attemptVars == <<done, seen, deadlineExpired, result>>
slotVars    == <<active, pending, reserved>>
verdictVars == <<folded, injected, unknown, untrackable, resolved, disabled>>
errorVars   == <<fault, failed>>
mvars == <<acceptVars, queueVars, streamVars, clockVars, attemptVars,
           slotVars, verdictVars, errorVars, retracted, terminal, stage>>

(***************************************************************************)
(* What an adapter call or an ordered observation can say, reduced to what *)
(* the machine tells apart: a valid outcome, a valid unknown that carries  *)
(* the call's deadline error, a result Validate refuses, an error without  *)
(* a result, and neither.                                                  *)
(***************************************************************************)
Results == {"injected", "fallback", "unknown", "untrackable",
            "boundedUnknown", "invalid", "noResult", "empty"}
Clock   == {"off", "armed", "spent"}

Elements(s) == {s[k] : k \in 1..Len(s)}

QueueTypeOK ==
  /\ loopPending \in Seq(Inputs) /\ fallback \subseteq Delegates
  /\ fallbackBarrier \in BOOLEAN

SlotTypeOK ==
  /\ active \in Steerable \cup {None} /\ pending \in Seq(Steerable)
  /\ reserved \subseteq Steerable

VerdictTypeOK ==
  /\ folded \subseteq Steerable /\ injected \subseteq Steerable
  /\ unknown \subseteq Steerable /\ untrackable \subseteq Steerable
  /\ resolved \subseteq Steerable /\ disabled \in BOOLEAN

ErrorTypeOK == fault \in BOOLEAN /\ failed \in BOOLEAN

TypeOK ==
  /\ QueueTypeOK /\ SlotTypeOK /\ VerdictTypeOK /\ ErrorTypeOK
  /\ ticket \in [Inputs -> Nat] /\ accepted \in Nat
  /\ ordered \in BOOLEAN /\ streamKnown \in BOOLEAN
  /\ timer \in Clock /\ deadlineTimer \in Clock
  /\ done \subseteq Steerable /\ seen \subseteq Steerable
  /\ deadlineExpired \subseteq Steerable /\ result \in [Inputs -> Results]
  /\ retracted \subseteq Inputs /\ terminal \in BOOLEAN
  /\ stage \in {"running", "finalized", "left"}

Init ==
  /\ loopPending = Backlog /\ accepted = Len(Backlog)
  /\ ticket \in [Inputs -> 0..Len(Backlog)]
  /\ \A k \in 1..Len(Backlog) : ticket[Backlog[k]] = k
  /\ \A i \in Inputs \ Elements(Backlog) : ticket[i] = 0
  /\ pending = <<>> /\ active = None /\ retracted = {}
  /\ terminal = FALSE /\ disabled = FALSE /\ fallbackBarrier = FALSE
  /\ ordered = FALSE /\ streamKnown = FALSE
  /\ timer = "off" /\ deadlineTimer = "off"
  /\ done = {} /\ seen = {} /\ resolved = {} /\ deadlineExpired = {}
  /\ result = [i \in Inputs |-> "empty"]
  /\ reserved = {} /\ folded = {} /\ injected = {}
  /\ unknown = {} /\ untrackable = {} /\ fallback = {}
  /\ fault = FALSE /\ failed = FALSE /\ stage = "running"

-----------------------------------------------------------------------------
(***************************************************************************)
(* Errors.  A failed call that sets m.fault, and one that only returns its *)
(* error; either way the actor stops driving the turn and leaves.          *)
(***************************************************************************)
NoError     == UNCHANGED errorVars
Fail        == fault' = TRUE /\ failed' = TRUE
ReturnError == UNCHANGED fault /\ failed' = TRUE

(* The actor makes no other call once one has failed or it is leaving. *)
Live == ~failed /\ stage = "running"

(* Mutant: an attempt in the slot is adjudicated again after its verdict. *)
UnresolvedAlways == active # None

Unresolved == active # None /\ active \notin resolved

(***************************************************************************)
(* queueFallback, over every waiting request in order: the first n calls   *)
(* of the hook succeed; if n < Len(pending) the next one fails, its        *)
(* request was already popped, and the rest is not tried.                  *)
(***************************************************************************)
Tries == IF HookFaults THEN 0..Len(pending) ELSE {Len(pending)}

(* Mutant: the waiting requests are queued and go on waiting. *)
QueuePendingTwice(n) ==
  /\ fallbackBarrier' = (fallbackBarrier \/ pending # <<>>)
  /\ loopPending' = loopPending \o SubSeq(pending, 1, n)
  /\ fallback' = fallback \cup {pending[k] : k \in 1..n}
  /\ UNCHANGED pending

QueuePending(n) ==
  /\ fallbackBarrier' = (fallbackBarrier \/ pending # <<>>)
  /\ loopPending' = loopPending \o SubSeq(pending, 1, n)
  /\ fallback' = fallback \cup {pending[k] : k \in 1..n}
  /\ pending' = SubSeq(pending, n + 2, Len(pending))

(***************************************************************************)
(* pump, called with the slot empty and p waiting: reserve the head and    *)
(* start its adapter call, unless the turn no longer steers.  A failed     *)
(* Reserve has already popped the request.                                 *)
(***************************************************************************)
CanPump(p) == ~fault /\ ~disabled /\ ~fallbackBarrier /\ ~terminal' /\ p # <<>>

(* Mutant: a request whose Reserve failed is left in the slot. *)
PumpFromFailed(p) ==
  \/ /\ ~CanPump(p)
     /\ active' = None /\ pending' = p
     /\ NoError /\ UNCHANGED reserved
  \/ /\ CanPump(p)
     /\ active' = Head(p) /\ pending' = Tail(p)
     /\ reserved' = reserved \cup {Head(p)}
     /\ NoError
  \/ /\ CanPump(p) /\ HookFaults
     /\ active' = Head(p) /\ pending' = Tail(p)
     /\ Fail /\ UNCHANGED reserved

(* Mutant: the newest waiting request is steered first. *)
PumpFromNewest(p) ==
  \/ /\ ~CanPump(p)
     /\ active' = None /\ pending' = p
     /\ NoError /\ UNCHANGED reserved
  \/ /\ CanPump(p)
     /\ active' = p[Len(p)] /\ pending' = SubSeq(p, 1, Len(p) - 1)
     /\ reserved' = reserved \cup {active'}
     /\ NoError
  \/ /\ CanPump(p) /\ HookFaults
     /\ active' = None /\ pending' = Tail(p)
     /\ Fail /\ UNCHANGED reserved

PumpFrom(p) ==
  \/ /\ ~CanPump(p)
     /\ active' = None /\ pending' = p
     /\ NoError /\ UNCHANGED reserved
  \/ /\ CanPump(p)
     /\ active' = Head(p) /\ pending' = Tail(p)
     /\ reserved' = reserved \cup {Head(p)}
     /\ NoError
  \/ /\ CanPump(p) /\ HookFaults
     /\ active' = None /\ pending' = Tail(p)
     /\ Fail /\ UNCHANGED reserved

(* retireIfDone: an attempt leaves the slot once its call has completed or *)
(* the actor's own deadline has expired for it.                            *)
Retires(a) == a \in done' \cup deadlineExpired'
Vacate(a) == active' = IF Retires(a) THEN None ELSE a

(* Mutant: only the first of two reservations in a row gets a deadline. *)
ArmsFirstOnly(d) ==
  deadlineTimer' = IF active' = active THEN d
                   ELSE IF active = None THEN "armed" ELSE "off"

(* A fresh reservation arms its deadline, and retiring stops it. *)
Arms(d) ==
  deadlineTimer' = IF active' = active THEN d
                   ELSE IF active' = None THEN "off" ELSE "armed"

Clocks(t, d) ==
  /\ timer' = IF active' = active THEN t ELSE "off"
  /\ Arms(d)

-----------------------------------------------------------------------------
(***************************************************************************)
(* resolveDisposition, with the calls it makes: the verdict on attempt a,  *)
(* the requests behind it, and the slot.                                   *)
(***************************************************************************)
(* Mutant: the injection is recorded before the fold is published. *)
ResolveInjectedUnfolded(a) ==
  /\ UNCHANGED <<unknown, untrackable, disabled>>
  /\ injected' = injected \cup {a} /\ resolved' = resolved \cup {a}
  /\ UNCHANGED <<folded, queueVars, slotVars>> /\ Fail

(* The fold is published before the injection is recorded. *)
ResolveInjected(a) ==
  /\ UNCHANGED <<unknown, untrackable, disabled>>
  /\ \/ /\ HookFaults /\ folded' \in {folded, folded \cup {a}} /\ Fail
        /\ UNCHANGED <<injected, resolved, queueVars, slotVars>>
     \/ /\ folded' = folded \cup {a} /\ injected' = injected \cup {a}
        /\ resolved' = resolved \cup {a}
        /\ \/ /\ terminal' /\ Vacate(a) /\ UNCHANGED reserved
              /\ \E n \in Tries :
                   /\ QueuePending(n)
                   /\ IF n = Len(pending) THEN NoError ELSE ReturnError
           \/ /\ ~terminal' /\ Retires(a) /\ PumpFrom(pending)
              /\ UNCHANGED queueVars
           \/ /\ ~terminal' /\ ~Retires(a)
              /\ NoError /\ UNCHANGED <<queueVars, slotVars>>

(* The request itself goes to l.pending first, then everything behind it. *)
ResolveFallback(a) ==
  /\ UNCHANGED <<reserved, folded, injected, unknown, untrackable, disabled>>
  /\ fallbackBarrier' = TRUE
  /\ \/ /\ HookFaults /\ Fail
        /\ UNCHANGED <<loopPending, fallback, resolved, active, pending>>
     \/ /\ resolved' = resolved \cup {a}
        /\ \E n \in Tries :
             /\ loopPending' = Append(loopPending, a) \o SubSeq(pending, 1, n)
             /\ fallback' = fallback \cup {a} \cup {pending[k] : k \in 1..n}
             /\ pending' = SubSeq(pending, n + 2, Len(pending))
             /\ IF n = Len(pending) THEN Vacate(a) /\ NoError
                                    ELSE UNCHANGED active /\ Fail

(* Mutant: the turn goes on steering after an ambiguous delivery. *)
ResolveUnknownSteering(a) ==
  /\ UNCHANGED <<reserved, folded, injected, untrackable, disabled>>
  /\ unknown' = unknown \cup {a} /\ resolved' = resolved \cup {a}
  /\ QueuePending(Len(pending)) /\ Vacate(a) /\ NoError

(* An ambiguous delivery is never retried: it is recorded and the turn
   stops steering; only the requests that were still waiting are queued. *)
ResolveUnknown(a) ==
  /\ UNCHANGED <<reserved, folded, injected, untrackable>>
  /\ \/ /\ HookFaults /\ Fail
        /\ UNCHANGED <<unknown, resolved, disabled, queueVars, active, pending>>
     \/ /\ unknown' = unknown \cup {a}
        /\ resolved' = resolved \cup {a} /\ disabled' = TRUE
        /\ \E n \in Tries :
             /\ QueuePending(n)
             /\ IF n = Len(pending) THEN Vacate(a) /\ NoError
                                    ELSE UNCHANGED active /\ Fail

(* Delivered as a turn nobody can follow: terminal for the whole loop. *)
ResolveUntrackable(a) ==
  /\ Fail
  /\ UNCHANGED <<queueVars, slotVars, folded, injected, unknown>>
  /\ \/ /\ untrackable' = untrackable \cup {a}
        /\ resolved' = resolved \cup {a} /\ disabled' = TRUE
     \/ HookFaults /\ UNCHANGED <<untrackable, resolved, disabled>>

(* resolveAttempt: what the recorded result r of attempt a means. *)
Adjudicate(a, r) ==
  \/ r = "injected" /\ ResolveInjected(a)
  \/ r = "fallback" /\ ResolveFallback(a)
  \/ r = "untrackable" /\ ResolveUntrackable(a)
  \/ r \notin {"injected", "fallback", "untrackable"} /\ ResolveUnknown(a)

-----------------------------------------------------------------------------
(* An input the actor has accepted takes the next ticket. *)
Accept(i) ==
  /\ ticket[i] = 0
  /\ accepted' = accepted + 1
  /\ ticket' = [ticket EXCEPT ![i] = accepted + 1]

(* offer sends a delegate straight to the queue when an older input still
   waits there, when the turn no longer steers, or when it cannot be cloned
   or the stream is not ordered. *)
QueuesDirectly(i) ==
  \/ loopPending # <<>> \/ terminal \/ disabled \/ fallbackBarrier
  \/ i \notin Steerable
  \/ streamKnown /\ ~ordered

(* handleTurnCommand's use of offer, and the legacy append for an input that
   is not a candidate. *)
Offer(i) ==
  /\ Live /\ Accept(i)
  /\ UNCHANGED <<streamVars, timer, attemptVars, verdictVars, retracted, terminal, stage>>
  /\ \/ /\ i \notin Delegates
        /\ loopPending' = Append(loopPending, i)
        /\ UNCHANGED <<fallback, fallbackBarrier, deadlineTimer, slotVars, errorVars>>
     \/ /\ i \in Delegates /\ QueuesDirectly(i)
        /\ fallbackBarrier' = TRUE
        /\ \/ /\ loopPending' = Append(loopPending, i)
              /\ fallback' = fallback \cup {i} /\ NoError
           \/ /\ HookFaults /\ ReturnError
              /\ UNCHANGED <<loopPending, fallback>>
        /\ UNCHANGED <<deadlineTimer, slotVars>>
     \/ /\ i \in Delegates /\ ~QueuesDirectly(i)
        /\ IF streamKnown /\ active = None
           THEN PumpFrom(Append(pending, i))
           ELSE /\ pending' = Append(pending, i)
                /\ NoError /\ UNCHANGED <<active, reserved>>
        /\ Arms(deadlineTimer)
        /\ UNCHANGED queueVars

(* setStream: an ordered stream starts steering, any other stream sends the
   waiting requests to the queue. *)
SetStream(isOrdered) ==
  /\ Live /\ ~streamKnown
  /\ streamKnown' = TRUE /\ ordered' = isOrdered
  /\ UNCHANGED <<acceptVars, timer, attemptVars, verdictVars, retracted, terminal, stage>>
  /\ \/ /\ ~isOrdered
        /\ \E n \in Tries :
             /\ QueuePending(n)
             /\ IF n = Len(pending) THEN NoError ELSE Fail
        /\ UNCHANGED <<deadlineTimer, active, reserved>>
     \/ /\ isOrdered /\ active = None /\ PumpFrom(pending)
        /\ Arms(deadlineTimer)
        /\ UNCHANGED queueVars

(* observeSteer: the stream's acknowledgement belongs to the attempt in the
   slot; with the slot empty or adjudicated it is ignored. *)
ObserveSteer(r) ==
  /\ Live /\ Unresolved
  /\ seen' = seen \cup {active} /\ result' = [result EXCEPT ![active] = r]
  /\ UNCHANGED <<acceptVars, streamVars, done, deadlineExpired, retracted, terminal, stage>>
  /\ Adjudicate(active, r)
  /\ Clocks(timer, deadlineTimer)

(* complete: an empty, refused or deadline-bounded result decides by itself;
   any other waits for its ordered observation while the prompt is open. *)
Decisive(a, r) ==
  \/ a \notin seen /\ r \in {"noResult", "invalid", "boundedUnknown"}
  \/ ~ordered \/ a \in seen \/ terminal

Complete(a, r) ==
  /\ Live /\ a = active /\ active # None
  /\ done' = done \cup {a} /\ result' = [result EXCEPT ![a] = r]
  /\ UNCHANGED <<acceptVars, streamVars, seen, deadlineExpired, retracted, terminal, stage>>
  /\ \/ /\ ~Decisive(a, r)
        /\ UNCHANGED <<queueVars, clockVars, slotVars, verdictVars, errorVars>>
     \/ /\ Decisive(a, r) /\ a \notin resolved /\ Adjudicate(a, r)
        /\ Clocks(timer, deadlineTimer)
     \/ /\ Decisive(a, r) /\ a \in resolved
        /\ PumpFrom(pending) /\ Clocks(timer, deadlineTimer)
        /\ UNCHANGED <<queueVars, verdictVars>>

(* A PromptObservation, or beforeTerminal on a terminal event: an attempt
   whose call completed is adjudicated on its result, one still in flight
   gets the terminal-race clock, and waiting requests are queued. *)
MarkTerminal ==
  /\ Live
  /\ terminal' = TRUE
  /\ UNCHANGED <<acceptVars, streamVars, attemptVars, retracted, stage>>
  /\ \/ /\ Unresolved /\ active \in done \cup seen
        /\ Adjudicate(active, result[active])
        /\ Clocks(timer, deadlineTimer)
     \/ /\ ~(Unresolved /\ active \in done \cup seen)
        /\ timer' = IF Unresolved /\ timer = "off" THEN "armed" ELSE timer
        /\ \E n \in Tries :
             /\ QueuePending(n)
             /\ IF n = Len(pending) THEN NoError ELSE ReturnError
        /\ UNCHANGED <<deadlineTimer, active, reserved, verdictVars>>

-----------------------------------------------------------------------------
(* The terminal-race clock ran out on the attempt in the slot. *)
Timeout ==
  /\ Live /\ terminal /\ Unresolved
  /\ UNCHANGED <<acceptVars, streamVars, attemptVars, retracted, terminal, stage>>
  /\ ResolveUnknown(active)
  /\ Clocks("off", deadlineTimer)

(* The reservation deadline ran out: an unresolved attempt is recorded as
   unknown, a resolved one whose adapter never returned is retired. *)
DeadlineTimeout ==
  /\ Live /\ active # None
  /\ deadlineExpired' = deadlineExpired \cup {active}
  /\ UNCHANGED <<acceptVars, streamVars, done, seen, result, retracted, terminal, stage>>
  /\ \/ active \notin resolved /\ ResolveUnknown(active)
     \/ /\ active \in resolved /\ PumpFrom(pending)
        /\ UNCHANGED <<queueVars, verdictVars>>
  /\ Clocks(timer, "off")

(* An armed clock fires and the actor takes its tick. *)
Tick ==
  /\ \/ timer = "armed" /\ timer' = "spent" /\ UNCHANGED deadlineTimer
     \/ deadlineTimer = "armed" /\ deadlineTimer' = "spent" /\ UNCHANGED timer
  /\ UNCHANGED <<acceptVars, queueVars, streamVars, attemptVars, slotVars,
                 verdictVars, errorVars, retracted, terminal, stage>>

(* CancelDelegateRequest on the k-th queued input: its InputCancelled is
   published, then it is taken out of the queue. *)
CancelQueued(k) ==
  /\ ~failed /\ stage # "left" /\ k \in 1..Len(loopPending)
  /\ loopPending' = SubSeq(loopPending, 1, k - 1)
                       \o SubSeq(loopPending, k + 1, Len(loopPending))
  /\ retracted' = retracted \cup {loopPending[k]}
  /\ UNCHANGED <<acceptVars, fallback, fallbackBarrier, streamVars, clockVars,
                 attemptVars, slotVars, verdictVars, errorVars, terminal, stage>>

(* cancelPending, as far as its n-th input: each InputCancelled is published
   before its input is dequeued. *)
Flush(n) ==
  /\ ~failed /\ stage # "left" /\ n \in 1..Len(loopPending)
  /\ loopPending' = SubSeq(loopPending, n + 1, Len(loopPending))
  /\ retracted' = retracted \cup {loopPending[k] : k \in 1..n}
  /\ UNCHANGED <<acceptVars, fallback, fallbackBarrier, streamVars, clockVars,
                 attemptVars, slotVars, verdictVars, errorVars, terminal, stage>>

-----------------------------------------------------------------------------
(***************************************************************************)
(* shutdown finalises the reservation before the actor leaves: unresolved  *)
(* becomes unknown, resolved is retired, and requests still waiting are    *)
(* queued unless the machine has faulted with the attempt in the slot.     *)
(* awaitTurn calls it again, deferred, on every way out.                   *)
(***************************************************************************)
(* Mutant: the slot is emptied without a verdict. *)
ShutdownSilent ==
  /\ stage # "left" /\ stage' = "finalized" /\ terminal' = TRUE
  /\ active' = None /\ QueuePending(Len(pending)) /\ NoError
  /\ Clocks(timer, deadlineTimer)
  /\ UNCHANGED <<acceptVars, streamVars, attemptVars, retracted, reserved, verdictVars>>

Shutdown ==
  /\ stage # "left" /\ stage' = "finalized"
  /\ terminal' = TRUE
  /\ deadlineExpired' = IF active = None THEN deadlineExpired
                                         ELSE deadlineExpired \cup {active}
  /\ UNCHANGED <<acceptVars, streamVars, done, seen, result, retracted>>
  /\ \/ Unresolved /\ ResolveUnknown(active)
     \/ /\ active \in resolved /\ fault
        /\ active' = None
        /\ Fail /\ UNCHANGED <<queueVars, pending, reserved, verdictVars>>
     \/ /\ active \in resolved => ~fault
        /\ ~Unresolved
        /\ active' = None
        /\ \E n \in Tries :
             /\ QueuePending(n)
             /\ IF n = Len(pending) THEN NoError ELSE ReturnError
        /\ UNCHANGED <<reserved, verdictVars>>
  /\ Clocks(timer, deadlineTimer)

(* cleanup, after the deferred shutdown: the machine is discarded. *)
Cleanup ==
  /\ stage = "finalized" /\ stage' = "left"
  /\ active' = None /\ pending' = <<>> /\ timer' = "off" /\ deadlineTimer' = "off"
  /\ UNCHANGED <<acceptVars, queueVars, streamVars, attemptVars, reserved,
                 verdictVars, errorVars, retracted, terminal>>

MachineNext ==
  \/ \E i \in Inputs : Offer(i)
  \/ \E isOrdered \in BOOLEAN : SetStream(isOrdered)
  \/ \E r \in Results : ObserveSteer(r)
  \/ \E a \in Steerable, r \in Results : Complete(a, r)
  \/ MarkTerminal
  \/ Timeout
  \/ DeadlineTimeout
  \/ Tick
  \/ \E k \in 1..Len(loopPending) : CancelQueued(k) \/ Flush(k)
  \/ Shutdown
  \/ Cleanup

MachineSpec == Init /\ [][MachineNext]_mvars

-----------------------------------------------------------------------------
(***************************************************************************)
(* Properties.                                                             *)
(***************************************************************************)

(* resolveDisposition and queueFallback: the delivery hook hears at most one
   verdict about a request.  A request that was handed to the queue was not
   also injected or declared unknown, whatever order completions,
   observations, clocks, failures and the shutdown came in. *)
DispositionOnce ==
  /\ injected \cap (unknown \cup untrackable \cup fallback) = {}
  /\ unknown \cap (untrackable \cup fallback) = {}
  /\ untrackable \cap fallback = {}

(* The fold is published before the injection is made durable, and a fold
   whose injection was not recorded is only left behind by a fault. *)
FoldedBeforeInjected ==
  /\ injected \subseteq folded
  /\ folded # injected => fault

(* Until a call fails, every accepted input is somewhere: in a queue, in the
   slot, injected, declared unknown, or retracted.  None is dropped between
   m.pending and l.pending, not even by shutdown and cleanup. *)
NothingLost ==
  ~failed => \A i \in Inputs : ticket[i] > 0 =>
    i \in Elements(loopPending) \cup Elements(pending) \cup {active}
          \cup injected \cup unknown \cup retracted

(* No input is queued twice or queued and also settled elsewhere: running
   l.pending replays nothing the turn already consumed. *)
QueuedOnce ==
  /\ \A j, k \in 1..Len(loopPending) : loopPending[j] = loopPending[k] => j = k
  /\ Elements(loopPending) \cap (Elements(pending) \cup injected \cup unknown
                                  \cup untrackable \cup retracted) = {}
  /\ active \in Elements(loopPending) => active \in resolved

(* Every accepted input is in one place: lost by none of the ways out of a
   turn, and queued by none of them twice (queueFallback, shutdown, cleanup). *)
EachInOnePlace == NothingLost /\ QueuedOnce

(* A request is reserved only after every input accepted before it was
   injected into this turn or retracted: steering never overtakes. *)
SteeredInOrder ==
  \A i, j \in Inputs :
    0 < ticket[i] /\ ticket[i] < ticket[j] /\ j \in reserved
      => i \in injected \cup retracted

(* What the hook has been told of a request. *)
FateOf(r) ==
  CASE r \in injected    -> "injected"
    [] r \in fallback    -> "fallback"
    [] r \in unknown     -> "unknown"
    [] r \in untrackable -> "untrackable"
    [] r \in reserved \ (injected \cup fallback \cup unknown \cup untrackable) -> "reserved"
    [] OTHER             -> "new"

Hook == INSTANCE Delivery WITH Requests <- Delegates, fate <- [r \in Delegates |-> FateOf(r)]

(* The machine implements Delivery: whatever arrives in whatever order, one
   reservation is in flight at a time, its fate is decided once, and nothing
   is reserved after a fallback or a delivery in doubt. *)
ImplementsDelivery == Hook!DeliverySpec

(* When the machine is gone, each reservation it made has its verdict, unless
   a checked publication or a hook call failed. *)
ReservationsSettled ==
  stage = "left" /\ ~fault => reserved \subseteq injected \cup unknown \cup fallback

(***************************************************************************)
(* The inductive invariant behind DispositionOnce, FoldedBeforeInjected,   *)
(* ReservationsSettled and ImplementsDelivery.                             *)
(***************************************************************************)
(* A request still waiting for the slot is accepted, is waiting once, and the
   hook has not heard of it; nor of an input that was not accepted. *)
WaitingInv ==
  /\ \A k \in 1..Len(pending) :
       ticket[pending[k]] > 0 /\ pending[k] \notin reserved \cup fallback
  /\ \A j, k \in 1..Len(pending) : pending[j] = pending[k] => j = k
  /\ \A i \in reserved \cup fallback : ticket[i] > 0

(* Of the requests reserved only the one in the slot lacks its verdict. *)
SlotInv ==
  /\ active # None => active \in reserved
  /\ resolved \subseteq reserved
  /\ stage # "left" \/ ~fault => reserved \subseteq resolved \cup {active}

(* An attempt is resolved exactly when a verdict is recorded, and each kind
   of verdict leaves its mark on the machine. *)
VerdictInv ==
  /\ resolved = injected \cup unknown \cup untrackable \cup (fallback \cap reserved)
  /\ DispositionOnce /\ FoldedBeforeInjected
  /\ fallback # {} => fallbackBarrier
  /\ unknown \cup untrackable # {} => disabled
  /\ untrackable # {} => fault

(* Only a fault keeps shutdown from settling the slot. *)
StageInv ==
  /\ fault => failed
  /\ stage # "running" /\ ~fault => active = None
  /\ stage # "running" => terminal

IInv == TypeOK /\ WaitingInv /\ SlotInv /\ VerdictInv /\ StageInv

(* "retains the FIFO order of accepted requests": the requests in l.pending
   stand in the order they were accepted. *)
QueuedInOrder ==
  \A j, k \in 1..Len(loopPending) :
    j < k /\ loopPending[j] \in Delegates /\ loopPending[k] \in Delegates
      => ticket[loopPending[j]] < ticket[loopPending[k]]
=============================================================================
