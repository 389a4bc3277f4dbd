----------------------------- MODULE TurnArbiter -----------------------------
(***************************************************************************)
(* The order in which the arbiter of an ACP turn lets observations leave   *)
(* (driver/acp/turn.go): session updates, steering responses and the       *)
(* prompt's end reach it on different channels, each with the receive      *)
(* sequence the client's reader gave it, and leave in that order.          *)
(*                                                                         *)
(* A turn of run's loop is drain, settle, emit, select; a sweep takes what *)
(* updates there are (drainTerminalUpdates).  The dispatcher is what       *)
(* SteerDispatcher shows of it: each submitted call is reported, and the   *)
(* terminal is complete once those before the marker were.  The session is *)
(* external and of one kind for the whole turn: its updates channel has    *)
(* Buffer slots.  A barrier returns when no update it covers is left on    *)
(* the sending side, or fails, or waits for nothing: the arbiter takes     *)
(* each of them for the same.                                              *)
(***************************************************************************)
EXTENDS Naturals, FiniteSets, SequencesExt

CONSTANTS
  Calls,        \* the steering calls of the turn
  MaxReceived,  \* bound on messages before the prompt's answer
  PerUpdate,    \* observations translated from one update
  Sessions,     \* the kinds of session the turn may run in
  CanClose      \* the driver may be closed

(* cap(session.Updates()), 0 when an update is handed over; whether the client
   stamps receive sequences; whether the peer still sends after its answer. *)
Session == [buffer : Nat, sequenced : BOOLEAN, chatty : BOOLEAN]

NoCall == "no call"

ASSUME ArbiterAssumption ==
  /\ IsFiniteSet(Calls) /\ NoCall \notin Calls
  /\ {MaxReceived, PerUpdate} \subseteq Nat
  /\ Sessions \subseteq Session
  /\ CanClose \in BOOLEAN

VARIABLES
  session,        \* chosen once
  \* the peer and the session
  received,       \* messages the client's reader has numbered
  delivery,       \* updates on the sending side of the channel
  updates,        \* the channel
  promptState,    \* the Prompt goroutine: running, returned, taken
  promptAt,       \* the messages received before its end
  promptSeq,      \* the sequence of its result, 0 for none
  \* the calls
  commands,       \* the mailbox
  call,           \* where a call stands
  response,       \* the number of its response, 0 for none
  events,         \* the dispatcher's events
  covered,        \* calls submitted before the terminal marker
  completeSent,
  \* the barrier worker
  barrier,        \* idle, waiting, or a result to read
  \* the arbiter
  at,             \* where its loop stands
  pending,
  terminalAsked, terminalReady, updatesDrained, promptQueued, promptBarrierRequested,
  barrierCompleted, barrierFence,
  missed,         \* updates a barrier came back without (history)
  lastRaw, lastOrder,
  out             \* the observations emitted (history)

peerVars     == <<received, delivery, updates, promptAt, promptSeq>>
callVars     == <<commands, call, response, events, covered, completeSent>>
terminalVars == <<terminalAsked, terminalReady, updatesDrained, promptQueued,
                  promptBarrierRequested>>
fenceVars    == <<barrier, barrierCompleted, barrierFence, missed>>
orderVars    == <<lastRaw, lastOrder, out>>
avars == <<peerVars, promptState, callVars, terminalVars, fenceVars, orderVars, at, pending>>

Buffer == session.buffer
Sequenced == session.sequenced
Chatty == session.chatty

Sequences == 0..(MaxReceived + 1)
Observation == [kind : {"update", "steer", "prompt"}, id : Calls \cup {NoCall},
                from : Sequences, part : 0..PerUpdate, seq : Sequences]
Emitted == [kind : {"update", "steer", "prompt"}, id : Calls \cup {NoCall},
            from : Sequences, part : 0..PerUpdate, seq : Sequences, key : Nat]
Idle == [state |-> "idle", seq |-> 0, target |-> 0]

ArbiterTypeOK ==
  /\ session \in Sessions
  /\ received \in Sequences
  /\ {delivery, updates} \subseteq Seq(1..(MaxReceived + 1)) /\ Len(updates) <= Buffer
  /\ promptState \in {"running", "returned", "taken"}
  /\ {promptAt, promptSeq, barrierCompleted, lastRaw} \subseteq Sequences
  /\ commands \in Seq(Calls)
  /\ call \in [Calls -> {"idle", "sent", "out", "reported", "answered"}]
  /\ response \in [Calls -> Sequences]
  /\ events \in Seq([id : Calls \cup {NoCall}, seq : Sequences])
  /\ covered \subseteq Calls /\ missed \subseteq Sequences
  /\ barrier \in [state : {"idle", "waiting", "result"}, seq : Sequences, target : Sequences]
  /\ at \in {"drain", "settle", "sweep", "resweep", "emit", "select", "done", "failed", "closed"}
  /\ pending \in Seq(Observation)
  /\ {completeSent, terminalAsked, terminalReady, updatesDrained, promptQueued,
      promptBarrierRequested, barrierFence} \subseteq BOOLEAN
  /\ lastOrder \in Nat
  /\ out \in Seq(Emitted)

ArbiterInit ==
  /\ session \in Sessions
  /\ received = 0 /\ delivery = <<>> /\ updates = <<>>
  /\ promptState = "running" /\ promptAt = 0 /\ promptSeq = 0
  /\ commands = <<>> /\ call = [c \in Calls |-> "idle"] /\ response = [c \in Calls |-> 0]
  /\ events = <<>> /\ covered = {} /\ completeSent = FALSE
  /\ barrier = Idle /\ barrierCompleted = 0 /\ barrierFence = FALSE /\ missed = {}
  /\ at = "drain" /\ pending = <<>>
  /\ terminalAsked = FALSE /\ terminalReady = FALSE /\ updatesDrained = FALSE
  /\ promptQueued = FALSE /\ promptBarrierRequested = FALSE
  /\ lastRaw = 0 /\ lastOrder = 0 /\ out = <<>>

Stamp(n) == IF Sequenced THEN n ELSE 0

-----------------------------------------------------------------------------
(***************************************************************************)
(* The peer and the session, external.                                     *)
(***************************************************************************)
loopVars    == <<terminalVars, barrierCompleted, barrierFence, orderVars, at, pending>>
arbiterOnly == <<loopVars, missed>>

PeerUpdates ==
  /\ received < MaxReceived
  /\ promptState = "running" \/ Chatty
  /\ received' = received + 1
  /\ delivery' = Append(delivery, received + 1)
  /\ UNCHANGED <<updates, promptState, promptAt, promptSeq, callVars, barrier, arbiterOnly>>

(* The dispatcher has one call at the provider at a time. *)
PeerAnswers(c) ==
  /\ received < MaxReceived
  /\ promptState = "running" \/ Chatty
  /\ call[c] = "out" /\ response[c] = 0
  /\ \A d \in Calls : call[d] = "out" => response[d] = 0
  /\ received' = received + 1
  /\ response' = [response EXCEPT ![c] = received + 1]
  /\ UNCHANGED <<delivery, updates, promptState, promptAt, promptSeq, commands, call, events,
                 covered, completeSent, barrier, arbiterOnly>>

(* Prompt returns a result, or fails without one. *)
PromptReturns ==
  /\ promptState = "running" /\ promptState' = "returned"
  /\ \/ /\ received' = received + 1
        /\ promptSeq' = Stamp(received + 1)
     \/ UNCHANGED <<received, promptSeq>>
  /\ promptAt' = received
  /\ UNCHANGED <<delivery, updates, callVars, barrier, arbiterOnly>>

Deliver ==
  /\ delivery # <<>> /\ Len(updates) < Buffer
  /\ updates' = Append(updates, Head(delivery))
  /\ delivery' = Tail(delivery)
  /\ UNCHANGED <<received, promptState, promptAt, promptSeq, callVars, barrier, arbiterOnly>>

-----------------------------------------------------------------------------
(***************************************************************************)
(* The callers and the dispatcher.                                         *)
(***************************************************************************)
Command(c) ==
  /\ call[c] = "idle"
  /\ call' = [call EXCEPT ![c] = "sent"]
  /\ commands' = Append(commands, c)
  /\ UNCHANGED <<peerVars, promptState, response, events, covered, completeSent, barrier,
                 arbiterOnly>>

(* A call is reported with the sequence of its response, or without one when it
   was refused, is late, or was resolved at the terminal. *)
Report(c, s) ==
  /\ call[c] = "out" /\ s \in {0, Stamp(response[c])}
  /\ call' = [call EXCEPT ![c] = "reported"]
  /\ events' = Append(events, [id |-> c, seq |-> s])
  /\ UNCHANGED <<peerVars, promptState, commands, response, covered, completeSent, barrier,
                 arbiterOnly>>

Completes ==
  /\ terminalAsked /\ ~completeSent
  /\ \A c \in covered : call[c] # "out"
  /\ completeSent' = TRUE
  /\ events' = Append(events, [id |-> NoCall, seq |-> 0])
  /\ UNCHANGED <<peerVars, promptState, commands, call, response, covered, barrier, arbiterOnly>>

-----------------------------------------------------------------------------
(***************************************************************************)
(* The barrier worker.                                                     *)
(***************************************************************************)
Undelivered(n) == {delivery[i] : i \in {i \in 1..Len(delivery) : delivery[i] <= n}}

BarrierReturns ==
  /\ barrier.state = "waiting" /\ Undelivered(barrier.target) = {}
  /\ barrier' = [barrier EXCEPT !.state = "result"]
  /\ UNCHANGED <<peerVars, promptState, callVars, arbiterOnly>>

(* The wait fails, or the session is one that has none (legacyTurnSession): the
   error goes with the result, and is only logged. *)
BarrierGivesUp ==
  /\ barrier.state = "waiting"
  /\ barrier' = [barrier EXCEPT !.state = "result"]
  /\ missed' = missed \cup Undelivered(barrier.target)
  /\ UNCHANGED <<peerVars, promptState, callVars, loopVars>>

(* Mutant: the full barrier does not wait for the updates already received. *)
RequestedNow(s, full) ==
  LET covers == IF s # 0 THEN s <= barrierCompleted ELSE barrierFence IN
  IF covers \/ barrier.state # "idle" THEN barrier
  ELSE [state |-> "waiting", seq |-> s, target |-> 0]

(* requestBarrierMode: dropped when it is covered already or the worker is
   busy.  A full barrier, and one without a sequence, covers all received. *)
Requested(s, full) ==
  LET covers == IF s # 0 THEN s <= barrierCompleted ELSE barrierFence IN
  IF covers \/ barrier.state # "idle" THEN barrier
  ELSE [state |-> "waiting", seq |-> s, target |-> IF full \/ s = 0 THEN received ELSE s]

-----------------------------------------------------------------------------
(***************************************************************************)
(* Observations and their order.                                           *)
(***************************************************************************)
Steers == {c \in Calls : call[c] \in {"out", "reported"}}
Prompted == promptState = "taken"

(* acceptUpdate. *)
Translated(u) == [k \in 1..PerUpdate |->
  [kind |-> "update", id |-> NoCall, from |-> u, part |-> k, seq |-> Stamp(u)]]
Steer(c, s) == [kind |-> "steer", id |-> c, from |-> 0, part |-> 0, seq |-> s]
Prompt == [kind |-> "prompt", id |-> NoCall, from |-> promptAt, part |-> 0, seq |-> promptSeq]

(* An update the arbiter can take: from the buffer, or from the sender. *)
TakesUpdate(u) ==
  IF Buffer = 0
  THEN /\ delivery # <<>> /\ u = Head(delivery) /\ delivery' = Tail(delivery)
       /\ UNCHANGED updates
  ELSE /\ updates # <<>> /\ u = Head(updates) /\ updates' = Tail(updates)
       /\ UNCHANGED delivery
Upcoming == IF Buffer = 0 THEN delivery ELSE updates

(* nextObservationIndex: the least sequence, the first of equals; without one,
   the first local observation. *)
Best ==
  LET positive == {i \in 1..Len(pending) : pending[i].seq # 0} IN
  IF positive = {} THEN 1
  ELSE CHOOSE i \in positive : \A j \in positive :
         pending[i].seq < pending[j].seq \/ (pending[i].seq = pending[j].seq /\ i <= j)

Candidate == pending[Best]

Regresses == pending # <<>> /\ Candidate.seq # 0 /\ Candidate.seq < lastRaw

(* Mutant: updates do not wait for an unresolved call. *)
HeldNever == Candidate.seq = 0 /\ Steers # {}
(* An update or a local observation waits for every unresolved call. *)
Held == (Candidate.seq = 0 \/ Candidate.kind = "update") /\ Steers # {}

(* Mutant: the barrier must be past the sequence. *)
FencedInclusive ==
  IF Candidate.seq # 0 THEN Candidate.kind # "update" /\ Candidate.seq >= barrierCompleted
  ELSE Prompted /\ ~barrierFence
(* A response waits for the updates before it; a local observation, once the
   prompt has ended, for all of them. *)
Fenced ==
  IF Candidate.seq # 0 THEN Candidate.kind # "update" /\ Candidate.seq > barrierCompleted
  ELSE Prompted /\ ~barrierFence

Emittable == pending # <<>> /\ ~Regresses /\ ~Held /\ ~Fenced

LocalKey == (IF lastRaw > lastOrder THEN lastRaw ELSE lastOrder) + 1
Keyed(o, k) == [kind |-> o.kind, id |-> o.id, from |-> o.from, part |-> o.part,
                seq |-> o.seq, key |-> k]

-----------------------------------------------------------------------------
(***************************************************************************)
(* The loop: drain the mailbox and begin the terminal.                     *)
(***************************************************************************)
(* acceptSteer answers the call locally or submits it. *)
Accepts(c) ==
  \/ /\ call' = [call EXCEPT ![c] = "answered"]
     /\ pending' = Append(pending, Steer(c, 0))
  \/ /\ call' = [call EXCEPT ![c] = "out"]
     /\ UNCHANGED pending

TakeCommand ==
  /\ at \in {"drain", "select"} /\ commands # <<>>
  /\ commands' = Tail(commands)
  /\ Accepts(Head(commands))
  /\ at' = "drain"
  /\ UNCHANGED <<peerVars, promptState, response, events, covered, completeSent,
                 terminalVars, fenceVars, orderVars>>

HasPendingSteer == \E i \in 1..Len(pending) : pending[i].kind = "steer"
WantsPromptBarrier(steers) ==
  /\ Prompted /\ terminalReady /\ ~promptBarrierRequested
  /\ steers = {} /\ ~HasPendingSteer
PromptBarrier(wanted) ==
  /\ promptBarrierRequested' = (promptBarrierRequested \/ wanted)
  /\ barrier' = IF wanted THEN Requested(promptSeq, TRUE) ELSE barrier

(* beginTerminal, then maybeRequestPromptBarrier. *)
Drained ==
  /\ at = "drain" /\ commands = <<>>
  /\ at' = "settle"
  /\ terminalAsked' = (terminalAsked \/ Prompted)
  /\ covered' = IF Prompted /\ ~terminalAsked THEN Steers ELSE covered
  /\ updatesDrained' = (updatesDrained /\ (terminalAsked \/ ~Prompted))
  /\ PromptBarrier(WantsPromptBarrier(Steers))
  /\ UNCHANGED <<peerVars, promptState, commands, call, response, events, completeSent,
                 terminalReady, promptQueued, barrierCompleted, barrierFence, missed, orderVars,
                 pending>>

(* drainTerminalUpdates takes updates until there is none, and says by
   updatesDrained whether there was none to begin with.  With an unbuffered
   channel the sender may not be there yet although an update is on its way. *)
NothingToDrain == Buffer = 0 \/ updates = <<>>
DrainDue == Prompted /\ promptBarrierRequested /\ barrier.state = "idle" /\ ~updatesDrained
Sweeping == at \in {"sweep", "resweep"}

Sweep ==
  /\ at = "settle" /\ DrainDue /\ at' = "sweep"
  /\ updatesDrained' = TRUE
  /\ UNCHANGED <<peerVars, promptState, callVars, terminalAsked, terminalReady, promptQueued,
                 promptBarrierRequested, fenceVars, orderVars, pending>>
SweepTakes ==
  /\ Sweeping /\ Upcoming # <<>>
  /\ \E u \in {Head(Upcoming)} :
       TakesUpdate(u) /\ pending' = pending \o Translated(u)
  /\ updatesDrained' = FALSE
  /\ UNCHANGED <<received, promptState, promptAt, promptSeq, callVars, terminalAsked,
                 terminalReady, promptQueued, promptBarrierRequested, fenceVars, orderVars, at>>
SweepEnds ==
  /\ Sweeping /\ NothingToDrain
  /\ at' = IF at = "sweep" /\ updatesDrained THEN "settle" ELSE "drain"
  /\ UNCHANGED <<peerVars, promptState, callVars, terminalVars, fenceVars, orderVars, pending>>

(* Once the updates are drained the prompt's observation joins the others. *)
Settled ==
  /\ at = "settle" /\ ~DrainDue /\ at' = "emit"
  /\ LET queues == Prompted /\ updatesDrained /\ ~promptQueued IN
       /\ promptQueued' = (promptQueued \/ queues)
       /\ pending' = IF queues THEN Append(pending, Prompt) ELSE pending
  /\ UNCHANGED <<peerVars, promptState, callVars, terminalAsked, terminalReady, updatesDrained,
                 promptBarrierRequested, fenceVars, orderVars>>

-----------------------------------------------------------------------------
(***************************************************************************)
(* tryEmit.                                                                *)
(***************************************************************************)
Emit ==
  /\ at = "emit" /\ Emittable /\ at' = "drain"
  /\ LET o == Candidate
         k == IF o.seq # 0 THEN o.seq ELSE LocalKey
     IN
     /\ out' = Append(out, Keyed(o, k))
     /\ lastRaw' = IF o.seq # 0 THEN o.seq ELSE lastRaw
     /\ lastOrder' = IF k > lastOrder THEN k ELSE lastOrder
  /\ pending' = RemoveAt(pending, Best)
  /\ UNCHANGED <<peerVars, promptState, callVars, terminalVars, fenceVars>>

(* The ways to put a set in a row. *)
Rows(S) == Bijection(1..Cardinality(S), S)

(* failSequenceRegression: unresolved calls, as they come out of the map, and
   those with an answer waiting are observed as they are, and the prompt fails;
   everything else is lost. *)
Fail ==
  /\ at = "emit" /\ Regresses /\ at' = "failed"
  /\ LET answers == {i \in 1..Len(pending) : pending[i].kind = "steer"} IN
     \E calls \in Rows(Steers), waiting \in Rows(answers) :
       /\ \A i, j \in DOMAIN waiting : i < j => waiting[i] < waiting[j]
       /\ out' = out \o [i \in DOMAIN calls |-> Keyed(Steer(calls[i], 0), 0)]
                     \o [i \in DOMAIN waiting |->
                           Keyed(pending[waiting[i]], pending[waiting[i]].seq)]
                     \o <<Keyed([Prompt EXCEPT !.seq = 0], 0)>>
  /\ call' = [c \in Calls |-> IF c \in Steers THEN "answered" ELSE call[c]]
  /\ pending' = <<>>
  /\ UNCHANGED <<peerVars, promptState, commands, response, events, covered, completeSent,
                 terminalVars, fenceVars, lastRaw, lastOrder>>

(* Mutant: the turn ends without waiting for the calls. *)
OverEarly == Prompted /\ terminalAsked /\ updatesDrained /\ promptQueued /\ pending = <<>>
Over == /\ Prompted /\ terminalAsked /\ terminalReady /\ updatesDrained
        /\ Steers = {} /\ pending = <<>> /\ barrier.state = "idle"

(* Nothing can leave yet: the turn is over, or a barrier is asked for. *)
Rest ==
  /\ at = "emit" /\ ~Emittable /\ ~Regresses
  /\ at' = IF Over THEN "done" ELSE "select"
  /\ barrier' = IF pending # <<>> /\ ~Held /\ Fenced THEN Requested(Candidate.seq, FALSE)
                ELSE barrier
  /\ UNCHANGED <<peerVars, promptState, callVars, terminalVars, barrierCompleted, barrierFence,
                 missed, orderVars, pending>>

-----------------------------------------------------------------------------
(***************************************************************************)
(* select.                                                                 *)
(***************************************************************************)
TakeUpdate ==
  /\ at = "select" /\ Upcoming # <<>> /\ at' = "drain"
  /\ \E u \in {Head(Upcoming)} :
       TakesUpdate(u) /\ pending' = pending \o Translated(u)
  /\ UNCHANGED <<received, promptState, promptAt, promptSeq, callVars, terminalVars,
                 fenceVars, orderVars>>

TakePrompt ==
  /\ at = "select" /\ promptState = "returned" /\ at' = "drain"
  /\ promptState' = "taken"
  /\ UNCHANGED <<peerVars, callVars, terminalVars, fenceVars, orderVars, pending>>

(* acceptDispatcherEvent.  The last call answered in time asks for the prompt's
   barrier before its own observation is pending; a late one does not. *)
TakeEvent ==
  LET e == Head(events) IN
  /\ at = "select" /\ events # <<>> /\ at' = "drain"
  /\ events' = Tail(events)
  /\ IF e.id = NoCall
     THEN /\ terminalReady' = TRUE
          /\ UNCHANGED <<call, pending, promptBarrierRequested, barrier>>
     ELSE /\ \E late \in {FALSE, e.seq = 0} :
               PromptBarrier(~late /\ terminalAsked /\ WantsPromptBarrier(Steers \ {e.id}))
          /\ call' = [call EXCEPT ![e.id] = "answered"]
          /\ pending' = Append(pending, Steer(e.id, e.seq))
          /\ UNCHANGED terminalReady
  /\ UNCHANGED <<peerVars, promptState, commands, response, covered, completeSent, terminalAsked,
                 updatesDrained, promptQueued, barrierCompleted, barrierFence, missed, orderVars>>

(* The result of a barrier, of one that gave up too; after the prompt it also
   drains what is there. *)
TakeBarrier ==
  /\ at = "select" /\ barrier.state = "result"
  /\ barrier' = Idle
  /\ barrierCompleted' = IF barrier.seq > barrierCompleted THEN barrier.seq ELSE barrierCompleted
  /\ barrierFence' = (barrierFence \/ barrier.seq = 0)
  /\ at' = IF Prompted /\ terminalAsked THEN "resweep" ELSE "drain"
  /\ updatesDrained' = (updatesDrained \/ (Prompted /\ terminalAsked))
  /\ UNCHANGED <<peerVars, promptState, callVars, terminalAsked, terminalReady, promptQueued,
                 promptBarrierRequested, missed, orderVars, pending>>

(* The driver is closed. *)
Close ==
  /\ CanClose /\ at = "select" /\ at' = "closed"
  /\ UNCHANGED <<peerVars, promptState, callVars, terminalVars, fenceVars, orderVars, pending>>

Loop == \/ TakeCommand \/ Drained \/ Sweep \/ SweepTakes \/ SweepEnds \/ Settled
        \/ Emit \/ Fail \/ Rest \/ TakePrompt \/ TakeEvent \/ TakeBarrier

Running == at \notin {"done", "failed", "closed"}
Others == \/ PeerUpdates \/ PromptReturns \/ Deliver \/ Completes
          \/ BarrierReturns \/ BarrierGivesUp
          \/ \E c \in Calls : PeerAnswers(c) \/ Command(c) \/ (\E s \in Sequences : Report(c, s))

ArbiterNext == (Loop \/ TakeUpdate \/ Close \/ (Running /\ Others)) /\ UNCHANGED session

ArbiterSpec == ArbiterInit /\ [][ArbiterNext]_<<session, avars>>

(* The arbiter does not stop while a case of its select is ready, nor do the
   session, the worker and the dispatcher, which resolves what is left at the
   terminal.  That no case is passed over forever is not assumed: what they
   serve runs out. *)
ArbiterFairSpec ==
  /\ ArbiterSpec
  /\ WF_avars(Loop \/ TakeUpdate)
  /\ WF_avars(Running /\ (Deliver \/ BarrierReturns \/ Completes))
  /\ WF_avars(Running /\ terminalAsked /\ \E c \in Calls, s \in Sequences : Report(c, s))

-----------------------------------------------------------------------------
(***************************************************************************)
(* Properties.                                                             *)
(***************************************************************************)
RawInOrder == \A i, j \in 1..Len(out) :
  i < j /\ out[i].seq # 0 /\ out[j].seq # 0 => out[i].seq <= out[j].seq

(* Until a turn fails for its order, raw sequences have not decreased, whatever
   order the channels were read in, and observations without a sequence have
   strictly increasing keys above every raw one before them (tryEmit,
   withLocalOrder).  What a failed turn emits at its end has neither. *)
KeysIncrease == at # "failed" =>
  /\ RawInOrder
  /\ \A i, j \in 1..Len(out) : i < j /\ out[j].seq = 0 => out[i].key < out[j].key

(* Updates leave once and in the order they were received, those translated
   from one update in the order of translation. *)
UpdatesInOrder == \A i, j \in 1..Len(out) :
  i < j /\ out[i].kind = "update" /\ out[j].kind = "update" =>
    \/ out[i].from < out[j].from
    \/ out[i].from = out[j].from /\ out[i].part < out[j].part

Single(S) == \E x \in S : S = {x}
Observed(c) == {i \in 1..Len(out) : out[i].id = c}
Prompts == {i \in 1..Len(out) : out[i].kind = "prompt"}

(* Each call the arbiter accepted is observed exactly once in a turn that was
   not closed, failed or not.  The prompt is, in a turn that did not fail: one
   that fails observes it at the end, and may have before. *)
EachOnce == at \in {"done", "failed"} =>
  /\ Steers = {}
  /\ \A c \in Calls : call[c] = "answered" => Single(Observed(c))
  /\ at = "done" => Single(Prompts)
  /\ at = "failed" => out[Len(out)].kind = "prompt"

(* What leaves the arbiter, and in which order (tryEmit, nextObservationIndex,
   failSequenceRegression). *)
ArbiterInv == ArbiterTypeOK /\ KeysIncrease /\ UpdatesInOrder /\ EachOnce

(* The prompt is observed after every observation of every update received
   before its answer, but for those that were undelivered when a barrier that
   covers them gave up; in particular when its own barrier was dropped because
   the worker was busy (maybeRequestPromptBarrier, drainTerminalUpdates). *)
PromptCoversUpdates == \A p \in 1..Len(out) :
  out[p].kind = "prompt" /\ at # "failed" =>
    \A n \in (1..promptAt) \ missed, k \in 1..PerUpdate :
      n \notin {response[c] : c \in Calls} =>
        \E i \in 1..(p - 1) : out[i].kind = "update" /\ out[i].from = n /\ out[i].part = k

(* A peer and a client that give the arbiter no reason to fail: updates are
   handed over and the peer is silent after its answer, or nothing is stamped. *)
Strict == (Buffer = 0 /\ ~Chatty) \/ ~Sequenced

(* However the goroutines are scheduled, a turn in such a session fails for its
   order only over an update some barrier gave up on, or over the answer of a
   call that was left unresolved when the prompt was observed
   (requestBarrierMode, tryEmit). *)
FailsOnlyLate == Strict /\ at = "failed" =>
  /\ Sequenced
  /\ missed # {} \/ \E i \in 1..(Len(out) - 1) : out[i].kind = "prompt"

(* While no barrier gives up, what leaves such a session has nondecreasing
   receive sequences to the end (the contract of OrderedStream). *)
ReceiveOrder == Strict /\ missed = {} => RawInOrder

(* The turn ends after the prompt, although calls hung and barriers were
   dropped. *)
TurnEnds == promptState = "returned" ~> ~Running
=============================================================================
