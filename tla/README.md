# A verification project for looprig/foreignloops

The repository runs agents that live outside the harness (ACP peers, the Claude and
Codex command line tools) as *foreign loops*. This directory holds TLA+ modules
translated from its Go source, TLC configurations that check them on small instances,
and TLAPS proofs for all instances. This file says what the system consists of, what is
modelled and how, what the checks and the proofs show, and what is left.

## 1. The system

### 1.1 Components

| component | source | state it keeps | operations | module |
|---|---|---|---|---|
| Foreign loop | `backend/loop.go`, `restored.go`, `builder.go` | queue `pending`, session id (`sid`, `sidBound`, `hasSpawned`), `turnIndex`, `msgs` | `run`: idle commands, next input, `closeAgent` once | `ForeignLoop` |
| Turn actor | `backend/turn.go` | the outcome, the held terminal, the channels of the turn | `awaitTurn` and its selects, `handleTurnCommand`, drains, `cancelPending`, `applyOutcome` | `SteeringTurn` (its steering), `ForeignLoop` (the rest) |
| Producer | `backend/turn.go` `driveTurnToSink` | the lock, the stream, what was drained | lock, spawn, read the stream, bind the session id, report | `ForeignLoop`, `ForeignLock` |
| Steering machine | `backend/steering.go` | slot `active`, `pending`, `terminal`, `disabled`, `fallbackBarrier`, `fault`, two clocks | `setStream`, `offer`, `observe`, `complete`, `timeout`, `deadlineTimeout`, `shutdown`, `cleanup` | `SteeringMachine` |
| Session lock | `backend/lock*.go` | one `flock` per session id, or per loop until the id is known | acquire without waiting, exchange, release once | `ForeignLock` |
| Snapshots, headers | `backend/snapshot.go`, `header.go`, `mapper.go` | none of their own | copy of the loop's state; checked publication | `ForeignLoop`, `SteeringTurn`, in part |
| ACP driver | `driver/acp/driver.go`, `config.go`, `builder.go`, `reservation.go` | connection, active turn handle, the steering lane | `New`, the builders, `Spawn`, `Steer`, `Close` | `AcpConstruction`, `AcpDriver`, `AcpAgent`, `AcpSteering` |
| ACP dispatcher | `driver/acp/dispatcher.go` | active attempt, what is known of its admission | `submit`, `run`, `resolveTerminal`, `stop` | `SteerDispatcher` |
| ACP turn | `driver/acp/turn.go` | handle, mailbox, prompt and barrier workers, arbiter | order of prompt, updates and responses; terminal; cancellation; retirement | `AcpSteering`, `TurnArbiter`, `AcpDriver` |
| ACP projection | `driver/acp/projection.go` | view, mailbox, generation channel, the owner's queue | the view of a stream is chosen once; emit; close; abort | `Projection` |
| ACP permissions | `driver/acp/permissions.go` | the posture | one answer per request of the agent | `AcpPermissions` |
| ACP initial stream, capability, translation | `driver/acp/builder.go` (`initStream`), `steering.go`, `translate.go` | none | pure decisions about data | `normalizeSteering` in `AcpSteering` only |
| Claude and Codex drivers | `driver/claude/`, `driver/codex/` | child process group, stdout pipe, event channels, `once` | `Spawn`, decoder, forwarder, watcher (Codex), `Close` and its signal ladder | `CliStream` |
| Scripted test agent | `internal/steertest/` | script position | test support | none |

One goroutine, the actor of a foreign loop, owns all state of the loop and of its current
turn. It publishes events to the session through a checked publisher and tells the
harness, through the *delivery hook* (`Reserve`, `Resolve`, `QueueFallback`), what became
of every delegate request. During a turn it talks over channels with the producer
goroutine, which drives the stream of the driver, and with one goroutine per steering
call. Commands reach the actor on an unbuffered channel; a context ends the loop.

In the ACP driver a call of `Steer` reserves a slot of the turn's lane, puts a command
into the mailbox of the turn's handle and waits. The arbiter of the turn takes it up and
submits it to the dispatcher, which makes the provider call and reports back. The arbiter
merges session updates, steering responses and the prompt's end into one sequence and
emits it into the projection, whose owner feeds the stream that the backend reads.

### 1.2 What is hard

*Steering in the backend.* A delegate request that arrives during a turn may be written
into the running prompt of the provider. The adapter call, the acknowledgement on the
ordered stream, the end of the prompt, the terminal-race clock, the reservation deadline,
a control command and the shutdown all race for the verdict on that request. The
acknowledgement carries no request identity. The adapter may ignore its context and never
return. Each hook call and each checked publication may fail between two of the machine's
own steps.

*Turn lifecycle.* The outcome, the lifecycle terminal and the raw stream facts arrive on
different channels; control commands cut in anywhere; a producer may be abandoned with its
lock; the session id may be learned late, with an exchange of locks in the middle of the
stream.

*Steering in the driver.* A caller's context may end before, while or after its request is
written; what is then known of the admission decides whether the request may be tried
again. Handles are retired while commands are being sent to them.

*Order.* Prompt completion, session updates and steering responses come from different
goroutines and must leave in receive order, over channels that may block their producers.

*Teardown.* `Close`, a caller that gives up and a turn that ends on its own race for the
lock, the handle, the prompt and the client; a projection may be closed while emitters
sleep and nobody reads. `Close` of a command line stream races the agent's own end, its
signals, a child it leaves behind, the decoder that still reads and a second caller.

`PROJECT.json` lists each hazard at its line with the properties that cover it.

## 2. Modules

| module | what it is |
|---|---|
| `Delivery` | what the machine promises the delivery hook, as the fate of each request |
| `SteeringMachine` | `backend/steering.go`: one action per call the actor makes |
| `SteeringTurn` | one steered turn: provider, producer and actor around `SteeringMachine` |
| `ForeignLoop` | the actor from its first turn to its last, its producers, callers and journal |
| `ForeignLock` | the lock files, their holders in several processes, crashes |
| `SteerDispatcher` | the goroutine that makes the provider's steering calls |
| `AcpSteering` | callers, lane, mailbox and the arbiter's side of a call, around `SteerDispatcher` |
| `TurnArbiter` | the order in which observations leave an ACP turn |
| `Projection` | the two views of a turn's stream, mailbox, owner and teardown |
| `AcpDriver` | `Spawn`, `runTurn`, the cancellation watcher and `Close` |
| `AcpConstruction` | `New` and the builders, each step of which may fail |
| `AcpPermissions` | the answers of the permission handler, as operators |
| `AcpAgent` | `AcpConstruction`, then `AcpDriver`, with `AcpPermissions`: the life of a driver |
| `CliStream` | the stream of a Claude or Codex turn: process group, pipe, goroutines, `Close` |
| `MC...` | the instances for TLC |
| `Steering_proofs` (machine and turn), `ForeignLoop_proofs`, `ForeignLock_proofs`, `AcpSteering_proofs` (with `SteerDispatcher`), `TurnArbiter_proofs`, `AcpAgent_proofs` (with what it composes), `Projection_proofs`, `CliStream_proofs` | the theorems about each, section 4 |

`SteeringTurn` extends `SteeringMachine` and `AcpSteering` extends `SteerDispatcher`; in
both, every step of the composition is a step of the component or leaves its variables
alone, which the properties `DrivesMachine` and `DrivesDispatcher` say. `SteeringTurn`
assumes of the driver's calls and stream what `AcpSteering` shows of them: a retry-safe
verdict is true, and an accepted call is observed once with a verdict that agrees with
what its caller is told. `TurnArbiter` assumes of the dispatcher what `SteerDispatcher`
shows: every submitted call is reported, and the terminal is complete behind them.
`AcpAgent` extends `AcpConstruction`, `AcpDriver` and `AcpPermissions`: the driver runs
only once its builder has returned it, and the adapter process has one owner throughout.

### 2.1 Delivery

Each request has a fate: new, reserved, then injected, fallback, unknown or untrackable,
or straight from new to fallback. At most one request is reserved, and none is reserved
any more once one has fallen back or is in doubt. `ImplementsDelivery` in
`SteeringMachine` states the refinement, with the fate read off the sets of hook calls
that succeeded (`FateOf`).

### 2.2 SteeringMachine

An action is a whole call: `Complete` includes the verdict, the fold, the requests behind
it that are queued, the retirement of the slot and the reservation of the next request.
Requests are model values. An attempt's Boolean fields are sets of requests (`done`,
`seen`, `resolved`, `deadlineExpired`), its last result is `result`. The clocks are off,
armed or spent. `reserved`, `folded`, `injected`, `unknown`, `untrackable` and `fallback`
record the hook calls and publications that succeeded; `ticket` is the order of
acceptance, for the order properties only. `HookFaults` lets every hook call and checked
publication fail; `fault` is `m.fault`, and `failed` says that some call returned an
error, after which the actor only leaves (`Live`). A loop over the waiting requests whose
n-th hook call fails is one step for each n (`Tries`, `QueuePending`). When such a call
fails the request already popped is gone from every queue, as in the code.

The environment is open: any result, observation, terminal, tick or command may come in
any order. The results are what the machine tells apart: four valid outcomes
(`unsupported` behaves as `fallback_required`, both unknowns as one), a valid unknown that
carries the call's deadline error, a result `Validate` refuses, an error without a result,
and neither.

### 2.3 SteeringTurn

Goroutines and channels around the machine:

- *Provider*: the adapter calls (`callSteerer`) and the acknowledgements on the ordered
  stream. Each request has a `verdict`, what really happened to its prompt. The stream
  acknowledges a call at most once, with the verdict; the call returns the verdict or one
  of the results in `Undecided`, or never returns. This is the contract of
  `OrderedStream` and `SteerResult` in `driver/steering.go`.
- *Producer*: `driveTurnToSink`. Lock and spawn are one step that may fail; the mailbox is
  a bounded queue whose sends are dropped only once the turn is cancelled; the outcome,
  the cancellation and the closing of the mailbox are one step (`Report`).
- *Actor*: one action per case of the selects in `awaitTurn`, per drain and per step on
  the way out, at `pc`. The drain after a clock tick is a loop of its own (`ackDrain`,
  `deadlineDrain`), so that evidence may retire the attempt the tick was taken for.
  `serve` is `drainSteeringShutdownWithOutcome`, `apply`, `flush` and `shutdown` the calls
  that follow, and `leave`, `cleanup` the deferred ones.
- *Commands*: user inputs within and beyond the queue's capacity, retraction of a queued
  input, and the controls: interrupt, cancellation of the active request, shutdown, and
  the end of the loop's context.

### 2.4 ForeignLoop

The loop across turns that steer nothing. Inputs are numbered in the order they are
received and name the turns they become. `mode` is how the loop was made (`New` with a
given id, `New` without, `newRestoredState`). `phase` is the actor's place: `idle` is
`run`, `turn` is `awaitTurn`, `finishing` what it does once it has the outcome, `draining`
is `drainSteeringShutdownWithOutcome`, with `serving` for what. Each turn has a producer
of its own (`turn[t]`), which goes on after the actor has abandoned it and keeps its lock,
the loop's temporary one or that of its session (`SessionOf`), until it winds up; `mail[t]` is its mailbox, which nobody reads any more. `input` and
`ask` are what the callers know, up to the answer on `Accepted`, `Ack` or the snapshot's
reply. `journal` is what was published. Every publication, acquisition, spawn and id may
fail. `turnWait` may end a drain at any moment.

### 2.5 ForeignLock

Acquisition is one action per system call of `acquirePlatformForeignLock`: open or create,
check the link count, `flock` without waiting, truncate, write the pid. A path has one
inode after its creation; locks belong to a file opened by a producer, so two producers of
one process exclude each other. `bindSID` acquires the durable lock while it holds the
temporary one and releases that afterwards (`Bind`, then an acquisition, then `Swap`). A
crash of a process releases what its producers hold and leaves the files.

### 2.6 SteerDispatcher and AcpSteering

`attempt[c]` is the `steerAttempt` of a call with its three operations under one mutex.
The loop's head (start the next job, report completion) is told apart from its select, as
a job that starts has precedence; `active` is the call at the provider. The provider,
external, writes a request or refuses it (`wire`), may publish the admission before its
answer (`fact`, only if `Async`) and answers or not (`reply`). Admission facts are true.

`AcpSteering` adds `Driver.Steer` at the places where others may cut in: finding the
handle, reserving, sending under the handle's mutex, waiting for the acknowledgement or
for the context, and each way to return. The lane (`lane` slots, chosen once) counts
reservations. Of the arbiter it has the taking of commands, dispatcher
events, the terminal marker, the failure for a violated order, and `runTurn`'s way out:
hide the handle, retire it, close the lane, stop the dispatcher. Which pending observation
may leave is left open here, being `TurnArbiter`'s subject.

### 2.7 TurnArbiter

`received` numbers the messages of the client's reader. `session` is chosen once from
`Sessions`: the slots of the updates channel (0 when an update is handed over), whether
sequences are stamped, whether the peer still sends after its answer. A round of `run`'s
loop is `drain` (the mailbox, then the terminal and the prompt's barrier), `settle` (is
something left to be drained after the prompt), `emit` (`tryEmit` until nothing can leave)
and `select`. `drainTerminalUpdates` takes an update at a time while the session goes on:
`Sweep` begins it in a round (`sweep`), `TakeBarrier` with the result of a barrier
(`resweep`), `SweepTakes` is one update and `SweepEnds` the `default` of its select, which
with an unbuffered channel may be taken while an update is on its way. `Best`, `Held`,
`Fenced` and `Regresses` are `nextObservationIndex` and the guards of `tryEmit`. `Fail` is
`failSequenceRegression`: it goes through a Go map, hence the unresolved calls leave in any
row (`Rows`), those with an answer waiting behind them in order. `out` is what was
emitted, with its key.

The barrier worker takes one request at a time and a further one is dropped, as in
`requestBarrierMode`. A barrier that waits returns once nothing it covers is on the sending
side (`BarrierReturns`). One that fails, or that of a session which has none
(`legacyTurnSession`), returns at any moment (`BarrierGivesUp`): its result counts as
completed all the same, as in the code, which logs the error and goes on (`TakeBarrier`).
`missed` is what such barriers left behind, for the properties only.

### 2.8 Projection

Each emitter runs through a program of commands; `reader` is the one whose `selectView`
won. `Enqueue` is a round of `enqueue` under `commandMu`: admitted, refused, or asleep on
the current generation, which `Advance` replaces. The owner's teardown is `Exit`.

### 2.9 AcpDriver and AcpConstruction

`turn[t]` is where a call of `Spawn` and the `runTurn` it started are, `watcher[t]` its
`watchTurnCancellation`, `prompt[t]` its `Session.Prompt`, `closer[c]` a call of `Close`.
`hit` records which prompts a `session/cancel` met. `ordered` is chosen once: when false,
an arbiter may return for a violated order with its prompt in flight. A `session/cancel`
may also fail to be sent, which the watcher only logs. `AcpConstruction`
runs one of the four builders on one configuration; `calls` are the protocol calls made,
in order, `dials` and `closes` what was acquired and given back.

### 2.10 AcpPermissions and AcpAgent

`RequestPermission` is a function of the posture, the tool call and the options offered.
A path is inside the workspace, outside, or not to be resolved; a tool call has the sets
of its locations and of its diffs' paths, and whether it carries a terminal. `AcpAgent`
has a step of the construction, and, once that is `built`, one of the driver; the driver
is followed for the configurations in `DrivenConfigs`, as it looks at none of their fields.

### 2.11 CliStream

`driver` says which of the two it is; they differ in the watcher of the context (Codex
only) and in what `Close` makes of a decode error. `text` is what the agent would write,
each line one that gives an event, does not decode, or is too long for the scanner. The
system part (`Fork`, `Detach`, `Write`, `Exit`, `Die`, `Reuse`) is the kernel's: the leader
ends by itself, by the driver's signal or by anybody else's at any moment; children inherit the group and descriptors, may leave the group, and the group's number is free
once the leader is reaped and nobody is left in it. `SIGINT` may be ignored, `SIGKILL` may
not; a process it was sent to acts no more (`Acting`). `decoder`, `forwarder`, `offer` and
`stop` are `decodeJSONL` and `forwardEvents`; `Take` and `EventsOver` are the producer of
the turn actor. `call` is where the two callers of `Close` are and `ladder` is where its
`once` is: interrupt, grace, kill before or after the leader has gone, reap, `cmd.Wait`'s
goroutine for stderr and its closing of the pipe, then the forwarder's end. `atClose`
records what decoder and leader had come to when `Close` began.

## 3. Runs

`CHECK_DEADLOCK FALSE` is set everywhere, for a turn, a loop, a driver or a construction
comes to an end and then nothing is left to do.

| run | configuration | bounds | what it shows |
|---|---|---|---|
| `turn_controls` | `TurnControls.cfg` | a delegate and one that cannot be cloned, queue capacity 1, mailbox 1, all controls, failing hooks | the machine's inductive invariant, single disposition, fold before injection, each request in one place and none lost, settled reservations; the turn drives the machine by its operations; interrupts and failures flush, failures end the loop (`LeavesWell`); no fold after the terminal; the turn ends, also under a control command that provider and producer ignore |
| `turn_two_requests` | `TurnTwoRequests.cfg` | two delegates behind an ordinary input, capacity 3, mailbox 1, calls that leave the delivery undecided, no failing hooks | requests are steered in order, refinement of `Delivery`; verdicts and deadlines belong to their request; every reservation gets its verdict |
| `queue_order` | `TurnQueueOrder.cfg` | two delegates, mailbox 1 | expected to fail, see section 5 |
| `acp_steering` | `AcpSteeringSafety.cfg` | two calls (symmetric), a lane of one or two slots, admission facts | what `Steer` and the stream say is true and agrees, every accepted call is observed, no channel blocks, the dispatcher is used as it expects |
| `acp_steering_liveness` | `AcpSteeringLiveness.cfg` | one call, no admission facts, a driver that may close, an order that may fail, a provider that may hang | callers return and the turn ends |
| `arbiter` | `Arbiter.cfg` | three kinds of session, two calls, two messages before the prompt's answer, one observation per update, barriers that may give up | observations once and in order; the prompt behind its updates, but for those a barrier gave up on; where the session gives no reason to fail, failure only over such an update or once the prompt has left; the turn ends |
| `arbiter_order` | `ArbiterOrder.cfg` | two calls, updates handed over, two messages before the prompt's answer | expected to fail, see section 5 |
| `projection` | `Projection.cfg` | two emitters and the reader, queue 2, mailbox 1, programs longer than both and the channel | the chosen view is a gapless prefix, acknowledgements are true, no lost wakeup, close ends, emitters get through |
| `acp_agent` | `AcpAgent.cfg` | all four builders, every configuration over three efforts and three postures, each step failing; for one fresh configuration two turns and two closers, with arbiters that keep or give up their order; permission requests of every kind with up to two options | one owner of the process, closed once; access is what was asked for; lock, handle and client are shared well; a cancel meets its own prompt; every call ends |
| `cli_stream` | `CliStream.cfg` | both drivers, one child that may detach, two texts of two lines, a pipe of one line | no signal meets another group, nobody of the group acts after the kill, the producer gets a prefix, `Close` reports the agent's own doing and returns |
| `foreign_lock` | `ForeignLock.cfg` | three turns, two of one process and one of another, one session | one holder per path, no gap in the exchange, true pids, no waiting |
| `foreign_loop` | `ForeignLoop.cfg` | three inputs, every control, a snapshot and the context's end, four of these together; capacity 1 | one fate per input, a state the journal justifies, every caller answered |

*Why the bounds are enough.* The steering machine holds one attempt in its slot and treats
all waiting requests alike, so two steerable requests show every handover of the slot, and
one that cannot be cloned shows the barrier in front of and behind one. The turn's
mailbox is 64 long in the code; it is 1 here so that a full mailbox, which blocks the
producer, occurs. The queue capacity is 1 in `turn_controls`, so that it is reached. Of the
results in `Undecided` there is one in `turn_two_requests`, a call that ran into its deadline
and says nothing of the delivery, and none in `turn_controls`: the machine's theorems have
all of them. Order and refinement are checked without failing
hooks, as the two steerable requests it takes to overtake would otherwise be too many
states; the theorems of 4.1 have every result, backlog and fault. The driver's lane has 128 slots (`steeringObservationCapacity`); it
has one or two in `acp_steering`, so that it fills with one call and calls meet in the
dispatcher with two. The mailbox (512 in the code) and the dispatcher's channels (256)
have their capacity as a constant larger than what the lane admits, and that they never
fill is an invariant (`LaneBoundsChannels`). Two calls and two
messages in front of the prompt's answer, each an update or a response, in any order of
their channels, are what a regression, a dropped barrier, one that gives up or one that
serves another's request takes; several observations of one update, and a peer that still
sends after its answer, are in the theorems of 4.9. A projection of depth 2 with a mailbox of 1 is full after a few commands, and each
program has more. Two turns and two closers show every pair of turns, of closers and of
both. The third lock user makes a holder, one that exchanges and one that is refused meet.
Three inputs are one that runs, one that waits and one the queue has no room for, or three
successive turns; four calls together are enough for a turn to be stopped, its successor
to run and both to be looked at. One child is enough for a descendant that outlives the
leader inside the group, outside of it, or with one of its descriptors; a pipe of one line
makes the agent wait for the decoder, and two lines leave one to be dropped by a stop, cut
off by the closed pipe, or masked by an earlier decode error. A permission request has at
most the one option preferred and one other. `AnyOfTwo` permutes the two steering calls, which nothing
tells apart; no symmetry is used where liveness is checked.

*Fairness.* In each case the fairness is that of the program's own goroutines.

- `SteeringTurn`: `WF_tvars(Actor)`. The actor is never blocked outside its selects, armed
  Go timers fire, and `turnWait` bounds the wait for an outcome. Nothing is assumed of the
  provider, the adapter calls, the producer or the sender of commands.
- `AcpSteering`: weak fairness of the arbiter, the dispatcher's loop, the entering of its
  stop marker and of each caller; the prompt returns once the driver is closed, as its
  context is then done. The provider may leave a steering call unanswered for ever.
- `TurnArbiter`: weak fairness of the loop with its select as one, which does not stop
  while some case is ready; the session delivers, a barrier whose updates are delivered
  returns and the dispatcher reports after the terminal marker. That no case is passed over for ever is not assumed:
  what the cases serve runs out.
- `Projection`: weak fairness of the owner and of each emitter, strong of the owner's stop
  and exit. That the consumer reads on is no part of it but a premise of `EmittersServed`.
- `AcpAgent`: of the driver it built, weak fairness of `runTurn`, watcher and closer, strong fairness of those
  who wait for `turnMu`, since Go's mutex hands itself to a waiter that starves. The agent
  answers a prompt once it is cancelled or its context is done, and not before. A prompt
  whose `session/cancel` could not be sent (`Untold`) is not claimed to end.
- `CliStream`: weak fairness of the decoder, the forwarder, the producer, the watcher, the
  exit observer and each step of `Close`; a killed process dies. Nothing is assumed of the
  agent, which may hang for ever, nor that the turn is cancelled.
- `ForeignLock`: weak fairness of a started acquisition. A turn may hold its lock for ever.
- `ForeignLoop`: weak fairness of the actor's own steps, strong fairness of its receiving
  (its select passes over no sender for ever), and a producer winds up a stream that has
  ended. A producer may spend for ever on its start or its stream.

*Mutants.* Each property has a mutant of the code, an operator next to the definition it
replaces, under which its run fails: a dropped guard, an order swapped, an error
swallowed, a clock not armed, a lock kept.

## 4. Proofs

Each theorem holds for every value of the constants under the assumption named with its
module. The assumptions exclude clashes of names (`None \notin Inputs`), give types, and
ask for finite sets and capacities of at least one where the code has them; TLC evaluates
them in the runs. Every proof has the same shape: an inductive invariant that says more
than the property, one lemma for each kind of step, a lemma that the property follows, and
a temporal step that combines them. TLC checked each invariant on the module's instance
before it was proved.

### 4.1 SteeringMachine (`InputsAssumption`, `BacklogAssumption`; in `Steering_proofs`)

| theorem | states |
|---|---|
| `InductiveInvariant`, `TypeInvariant` | `IInv`, `TypeOK` |
| `OneDisposition` | `DispositionOnce` |
| `FoldFirst` | `FoldedBeforeInjected` |
| `NoReservationLeftOpen` | `ReservationsSettled` |
| `MachineImplementsDelivery` | `ImplementsDelivery`, the refinement of `Delivery` |
| `InputsKeepOnePlace` | `EachInOnePlace` |
| `SteeringNeverOvertakes` | `SteeredInOrder` |

`DispositionOnce` is not inductive: that a verdict is not given twice depends on what the
flags of the slot mean. `IInv` adds `VerdictInv` (an attempt is resolved exactly when a
verdict of it is recorded, and each kind of verdict leaves its mark), `SlotInv` (only the
attempt in the slot may be reserved without a verdict), `WaitingInv` (what waits for the
slot is accepted, waits once, and is unknown to the hook) and `StageInv` (what shutdown
leaves). The part a verdict disturbs is `Core`. One lemma per kind of verdict shows that
it keeps `Core`, `PumpFacts` and `QueuePendingFacts` say what a reservation and a flush of
the waiting requests do, one lemma per operation joins them, and `StepInv` collects the
operations.

The refinement classifies every operation by what the hook hears (`HookEffect`): nothing,
one verdict on the attempt in the slot with the requests behind it, a reservation, or
both; each class is one step of `Delivery` or a stutter under `FateOf`.

`FullInv` adds three parts for place and order. `PlaceInv`: an input stands once in the
queue, and what stands there is neither waiting, injected, in doubt nor retracted.
`KeepInv`: unless a call has failed, whatever was accepted is in some place, also after an
attempt left the slot later than its verdict. `LineInv`: while the turn steers, whoever
came before a waiting request waits before it, is in the slot, or was injected or
retracted. The last one is why the barrier (`Closed`) must be raised before the queue
takes a request.

### 4.2 SteeringTurn (the same assumptions and module)

| theorem | states |
|---|---|
| `TurnDrivesMachine` | `DrivesMachine`: each step is one operation of the machine, or leaves it alone |
| `TurnDisposesOnce`, `TurnSettlesReservations` | `DispositionOnce`, `ReservationsSettled`, inherited from the machine |
| `VerdictsAreTrue` | `TrueVerdicts` |
| `DeadlineIsItsOwn` | `OwnDeadline` |
| `TurnLeavesWell` | `LeavesWell` |
| `NothingIsFoldedLate` | `NoFoldAfterTerminal`, an action property |

`TrueVerdicts` needs to know whose acknowledgement the anonymous one on the stream is.
`ClaimInv` says so: `CallInv` (a call exists only for a reserved request), `BoxInv` (an
acknowledgement in the mailbox is the only one of its request, tells the truth, and the
actor has taken none of it) and `EvidenceInv` (what the machine has seen agrees with the
provider). It uses `SeenInv` of the machine: while the turn steers, an attempt with a
verdict had its acknowledgement taken, so the next one on the stream belongs to the
attempt in the slot. `ArmedInv` ties a clock's tick to the attempt `picked` with it.
`WayOutInv` follows the actor on its way out: `ExitInv` (a failed call ends the turn with
`exit`, otherwise nothing is left to adjudicate) and `FlushedInv` (a stopped turn has
emptied the queue). `StillInv` says that once a terminal is published and the actor goes
on, the prompt has ended and no attempt is open; a machine in that state reserves nothing
(`StillStays`), and one that has failed gives no injected verdict (`NothingAfterFailure`).

### 4.3 ForeignLoop (`LoopAssumption`)

`LoopKeepsItsPromises` states `LoopInv` and `JournalStaysTrue` states `JournalIsTrue`, for
any number of inputs, calls and any capacity, however many producers were abandoned. The
invariant `LInv` follows an input from its caller to the journal:

- `SentInv`, `IntakeInv`: the queue is in the order of sending, each input in it once, and
  none in it is one that became a turn or was answered otherwise;
- `FateInv`: what is published of an input agrees with where it is;
- `TurnInv`, `MailInv`: what a producer has reported is what its stream came to, and its
  mailbox holds what it has still to say, also for a turn that was left;
- `NowInv` for the current turn, `PastInv` and `AnewInv` for those before it: what the
  journal says of a turn, and whether the next one resumes its session;
- `BindInv`, `BoundOnce`: the session id is of the turn that learned it, and one only.

The actor's steps are grouped by what they do to the turn (calm, begin, hear, end) and to
the queue (shrink, begin, answer), and a lemma for each group keeps each part of `LInv`.

### 4.4 ForeignLock (`LockAssumption`)

`WhoHoldsWhat` states `LockInv`. A lock belongs to a file and not to a path, so exclusion
on paths needs `MadeOnce`: a path's file is created once and never replaced. `Own(p)` says
of each producer which descriptors it has open, that the one under way is of the path it
wants, that a holder of a lock has its pid among the file's holders, and that a lock is
taken anew only for a learned id, with the first one still held.

### 4.5 SteerDispatcher and AcpSteering (`DispatcherAssumption`, `SteeringAssumption`)

| theorem | states |
|---|---|
| `DispatcherKeeps` | `DInv`, of the dispatcher alone |
| `AdmissionStaysTrue` | `AdmissionIsTrue` |
| `DispatcherKeepsItsBooks` | `DispatcherInv` |
| `TurnDrivesDispatcher` | `DrivesDispatcher` |
| `VerdictsAreTrue` | `ReportsAreTrue` |
| `AcceptedCallsAreObserved` | `AcceptedIsObserved` |
| `SteeringKeepsItsBooks` | `SteeringInv` |

`DInv` has the job's way (`LineInv`, `OrderInv`: submitted, waiting and started in one
order), what the provider knows (`ProviderInv`), the job in hand (`ActiveInv`), and what
was reported: `ToldInv` (a call is reported once, or once more and late at the terminal,
and truly) and `EventsInv` (each event on the channel is one of these). `AcpSteering`
inherits all three dispatcher theorems through `TurnDrivesDispatcher`. `SideInv` relates
caller, mailbox and arbiter; `CallInv` says of each call that what its caller is told, what
the stream says and what the wire did agree, also while one of them is still under way.
That no channel of the lane ever blocks is a matter of counting: `LaneInv` counts the
reservations (`BookInv`), what the dispatcher still owes (`OwedInv`) and for each call
which reservation stands for it (`HoldInv`); the channels hold no more than that.

### 4.6 Projection (`ProjectionAssumption`)

`ChannelIsTrue` states `ProjectionInv` and `CloseLosesOnlyWhenFull` the action property
`LosesOnlyWhenFull`, for any programs, mailbox and depth. `PInv`: what is in the mailbox is
the tail of what was admitted (`MailInv`); of the rest, what was seen comes before what is
pending, both in order of admission (`SeenInv`, `PendingInv`); nothing of the chosen view
is missing from the two (`CoverInv`); what is acknowledged was seen or is of no interest
(`AckInv`). That the output is a prefix without gaps follows from these. When the owner
has left, `DoneInv` keeps the consequences.

### 4.7 AcpAgent and what it composes (`AcpConstructionAssumption`, `AcpDriverAssumption`, `MaxOptionsAssumption`)

| theorem | states |
|---|---|
| `ProcessHasOneOwner` | `AgentInv` |
| `CancelsMeetTheirOwnPrompt` | `PromptsStayInTheirTurn` |
| `PostureIsKept` | `PermissionsFollowPosture`, of the permission handler's operators |
| `AccessIsAsAsked` | `AccessAsAsked` |

`AgentIInv` joins `BuiltInv` of the construction (`ProgressInv`: which protocol calls were
made at each stage; `SelectionInv`: what they selected), the driver's invariant (the lock
is the turn's exactly while it is in it; one call of `Close` goes through the steps; a
prompt in flight is of the turn that holds the lock, or of one that gave up its order;
`OwnHit`: what a cancel met) and `Untouched`: before the builder has returned the driver
nobody uses it. `PostureIsKept` is about every tool call and every list of options.

### 4.8 CliStream (`CliStreamAssumption`)

`TeardownIsClean` states `CliInv` and `CloseTellsTheTruth` states `TrueResult`, for any
children, texts and pipe. `CliIInv` adds the kernel's side (`ProcInv`: the group's number
is free only when the leader is reaped and nobody is left), the position of `Close`
(`LadderInv`: what is known at each rung), the lines (`OrderInv`: delivered, offered and
still to be sent are, in order, the events among the lines read) and the errors
(`ErrorInv`, `AtCloseInv`, `ReportInv`: a decode error is of a line or of the closed pipe,
and which of the two is known from what the decoder had come to when `Close` began).

### 4.9 TurnArbiter (`ArbiterAssumption`)

| theorem | states |
|---|---|
| `ArbiterKeepsOrder` | `ArbiterInv` |
| `PromptLeavesLast` | `PromptCoversUpdates` |
| `FailureIsLate` | `FailsOnlyLate` |

For any calls, any number of messages and updates, any observations per update and any
session. None of the three is inductive: each speaks of `out`, and what may join it depends
on what stands in five queues. `AInv` says, of the way of an observation to `out`:

- `ShapeInv`, `MarksInv`: what an observation may be, and that no mark is of a message not
  yet received;
- `KeysInv`: whatever left is at or below `lastRaw` and `lastOrder`, so a candidate that
  does not regress keeps the order;
- `QueuesInv`, `LineInv`: the updates stand in one line from the sender through the channel
  and `pending` to `out`. Whence `UpdatesInOrder`, as `Best` takes the first of equals
  (`BestFacts`, and `RemoveAtFacts`, which says what becomes of each index);
- `CallsInv`: a call is in the mailbox, unresolved, on the event channel, pending or out,
  in one of these and once. With `Rows`, a bijection, it gives `EachOnce` for a turn that
  fails as well;
- `PromptInv`: the prompt's observation is queued once, and before the turn is done;
- `BarrierInv`, `DrainInv`: what a barrier that returned says of the sender's side, but for
  `missed`, and what a sweep behind it says of the channel. Between the two a sweep is under way, and
  the mark is not yet true of the channel (`~Sweeping`);
- `ConserveInv`: a message the prompt covers is a response, on its way, or translated
  whole. With `DrainInv` nothing it covers is on its way when it leaves, save what a
  barrier gave up on, hence `PromptCoversUpdates`;
- `AnswersInv`, `StrictInv`: where updates are handed over, the peer is silent after its
  answer and no barrier has given up on an update, nothing on its way is below `lastRaw`, and the answers follow each other
  in order (`AheadInv`). This holds until the prompt leaves, which is why `FailsOnlyLate`
  claims no more; section 5 has the behaviour that follows.

### 4.10 What is only model-checked

- All liveness: `SteeredTurnEnds`, `TurnEnds`, `ReservationEnds`, `EveryoneReturns`, `CloseEnds`,
  `EmittersServed`, `EveryCallEnds`, `AcquireEnds`, `EveryCommandAnswered`, `CloseReturns`.
  The prover has neither fairness nor ENABLED.

- What a recursive definition computes for every input would need an induction that takes
  an operator as its parameter, which the installed provers cannot instantiate. No theorem
  above depends on one.

## 5. What the checks found

- `queue_order`. `steering.go:88` says the machine "retains the FIFO order of accepted
  requests". It does not when the prompt has ended and an earlier request still awaits its
  verdict: a later one is queued at once (`offer`, line 231), and if the earlier falls
  back it is appended behind it. TLC shows the behaviour in nine states.

- `arbiter_order`. `driver/steering.go:316` promises observations "in nondecreasing
  ReceiveSequence order". With two steering calls the prompt's observation may leave
  before a response received ahead of it: a barrier that the first, already answered call
  asked for returns after the prompt has ended, and its result alone makes
  `updatesDrained` true (`turn.go:766`), though the second call is unresolved and the
  prompt's own barrier was not asked for (line 991). The prompt is then queued and emitted
  (line 703); the second response has the smaller sequence, the turn fails for it, and
  what fails it emits that response, and the prompt a second time. `FailsOnlyLate` shows
  that in such a session the turn fails in no other way, but over an update some barrier
  gave up on.

The other modules are faithful to behaviours that one might not expect. A property that
would exclude one of them says so in its comment or its run.

*ACP driver.*

- `driver/steering.go:312` promises one observation for every accepted call. When the
  driver is closed the arbiter leaves without one (`releaseReservations`, `turn.go:795`);
  hence the premise `~driverClosed` of `AcceptedIsObserved`.
- A barrier whose wait failed counts as completed (`turn.go:757`), and so does that of a
  session without `WaitForUpdates`, which returns at once (`turn.go:44`). The response or
  the prompt it was asked for may then leave ahead of an update received before it, which
  regresses when it arrives; hence `missed` in `PromptCoversUpdates`, `FailsOnlyLate` and
  `ReceiveOrder`. `ArbiterInv` and `TurnEnds` hold in such a turn too.
- A loaded Claude session keeps the permission mode it had, as the mode is applied to a
  fresh one only (`driver.go:244`); `AccessAsAsked` is about what the driver asks for.
- A turn that fails for its order emits its last observations without keys
  (`turn.go:1260`), while `driver/steering.go:320` speaks of strictly increasing ones;
  `KeysIncrease` is about turns that have not failed. Such a turn also leaves its prompt in
  flight, and a `Close` that comes after it has unwound releases the client under it
  (`turn.go:524` waits for a prompt only while the driver is being closed); hence `ordered`
  in `PromptsStayInTheirTurn`.

*Foreign loop.*

- An interrupt between the publication of `TurnDone` and the outcome publishes
  `TurnInterrupted` for the same turn and leaves the index where it was, so the next turn
  takes the same index (`turn.go:363`). `JournalIsTrue` allows exactly this.
- The observation of a bound session may be dropped once the turn's context is done, while
  the id is applied from the outcome: the loop then uses an id that was never published.
- A turn with a prebound session id that is interrupted after `Spawn` leaves `hasSpawned`
  false, so the next turn starts the session anew (`turn.go:449`, `Successors`).
- When `offer` fails, the actor leaves without answering the command's `Accepted` channel
  (`turn.go:270`); the caller finds the loop gone by its `Done`.
- The comment on `drainSteeringShutdown` says that neither outcome nor mailbox is needed;
  with no attempt in the slot a `Shutdown` waits out `turnWait`, since the outcome it
  reads is not kept and its channel never set to nil.
- A producer that was abandoned keeps its lock until it winds up; the next turn of the
  same loop is then refused as busy by its own process, though `errors.go:23` speaks of
  another one. The pid in that error may be of an earlier holder, whose file is truncated
  only after the lock is taken (`PIDOfAHolder`).

*Command line drivers.*

- `codex.go:135` says that `Close` "waits for the decoder to drain, and reaps the child",
  and line 218 that the decoder is drained "until the child closes stdout". The code reaps
  first, and `cmd.Wait` then closes the driver's end of the pipe. A Codex `Close` in the
  middle of a stream may so report a decode error its own teardown made; `TrueResult`
  claims the truth of a decode error only for a stream read to its end before `Close`. The
  turn actor is not misled: it closes in mid-stream only for a turn that is cancelled, and
  does not look at the error then.
- `CONTRIBUTING.md:38-41` wants every process operation to honour cancellation and to
  terminate the full process group on it. Claude's `Spawn` ignores its context on purpose
  (`claude.go:35`, `TestAgentSpawnContextCancelDoesNotCloseEvents`): a cancelled turn of a
  silent agent keeps its process, its producer and its lock until the agent writes or
  ends. `CloseReturns` therefore claims the end of the group on cancellation for Codex
  only.
- `Close` waits without a bound for a descendant that has left the process group and keeps
  the agent's stderr open, as `cmd.Wait` waits for the goroutine that copies it;
  `CloseReturns` has this as its premise (`HeldOutside`).

## 6. What is abstracted or left out

Event payloads, headers, logging and message history are not in the modules; publication
is modelled by whether it fails and by what the journal then says. Time is an armed clock
that may run out at any moment; durations are not compared.

*Cut between modules.* `ForeignLoop` steers nothing, and takes the lock and spawns in one
step, releases it and reports in another, and closes the agent with its exit;
`SteeringTurn` and `ForeignLock` open these. `Report` in `SteeringTurn` joins sending the
outcome, the cancellation and the closing of the mailbox, which the actor cannot tell
apart: it reads the mailbox to its end after the outcome. `TurnArbiter` takes the
dispatcher's reports from an open environment; that it is used rightly is shown in
`AcpSteering`.

*External.* The ACP client, its session and the agent behind it, the kernel's file locks,
processes, signals, pipes and `exec.Cmd.Wait`, `launch.Dial`, the harness's hook and
publisher are modelled by what the code relies on.

*Not modelled.*

- Decoders, argument lists, environments, transcripts and their lookup, capability
  negotiation, translation and mapping of events: pure functions of strings, JSON and
  files, without state. `CliStream` tells lines apart by whether they decode,
  `AcpPermissions` paths by where they resolve to.
- Claude's prompt on stdin, which `cmd.Wait` copies like stderr.
- `initStream`: one value in front of a stream, forwarded by one goroutine into a
  projection of its own, whose order and teardown are those of `Projection`.
- Snapshots' deep copies and the stamping of headers: data.
- The scripted test agent: test support.

## 7. Plan

Done: the modules of section 2, the runs of section 3 and the theorems of section 4, which
state every invariant and action property of the passing runs.

Left:

1. That `TurnArbiter`'s open dispatcher is the one `DispatcherInv` describes, so that its
   results hold in `AcpSteering`.
2. Lemmas about pure decisions: validation of results, `joinTurnErrors`.
