------------------------- MODULE TurnArbiter_proofs -------------------------
(***************************************************************************)
(* The order in which the arbiter of a turn lets observations leave, for   *)
(* any calls, any number of messages and updates, and any session.         *)
(***************************************************************************)
EXTENDS TurnArbiter, WellFoundedInduction, FunctionTheorems, FiniteSetTheorems, TLAPS

(* What the reader has numbered; without sequences every mark is 0. *)
Numbered(s) == s <= received /\ (~Sequenced => s = 0)

PeerInv ==
  /\ promptState = "running" => received <= MaxReceived /\ promptSeq = 0 /\ promptAt = 0
  /\ promptAt <= received /\ promptSeq \in {0, promptAt + 1} /\ Numbered(promptSeq)
  /\ ~Chatty /\ promptSeq # 0 => promptSeq = received
  /\ \A c \in Calls : response[c] <= received

MarksInv ==
  /\ Numbered(barrierCompleted) /\ Numbered(lastRaw) /\ Numbered(barrier.seq)
  /\ barrier.seq <= barrier.target /\ barrier.target <= received
  /\ \A i \in 1..Len(events) : Numbered(events[i].seq)
  /\ \A i \in 1..Len(pending) : Numbered(pending[i].seq)

(* What an observation is. *)
Shaped(o) ==
  /\ o.kind = "update" => o.id = NoCall /\ o.from >= 1 /\ o.part >= 1 /\ o.seq = Stamp(o.from)
  /\ o.kind = "steer" <=> o.id # NoCall
  /\ o.kind = "prompt" => Prompted /\ o.seq = promptSeq
ShapeInv ==
  /\ \A i \in 1..Len(pending) : Shaped(pending[i])
  /\ \A i \in 1..Len(out) : out[i].kind = "steer" <=> out[i].id # NoCall

(* What has left is below the marks. *)
KeysInv == at # "failed" =>
  /\ KeysIncrease
  /\ \A i \in 1..Len(out) : out[i].key <= lastOrder /\ out[i].seq <= lastRaw

(* The updates on their way are in a line: those on the sender's side, those in
   the channel, those pending and those that left. *)
Before(o, p) == o.from < p.from \/ (o.from = p.from /\ o.part < p.part)
Increasing(s) == \A i, j \in 1..Len(s) : i < j => s[i] < s[j]
QueuesInv ==
  /\ Increasing(updates) /\ Increasing(delivery)
  /\ \A i \in 1..Len(updates), j \in 1..Len(delivery) : updates[i] < delivery[j]
  /\ \A i \in 1..Len(updates) : updates[i] <= received
  /\ \A i \in 1..Len(delivery) : delivery[i] <= received
Behind(o) == o.kind = "update" =>
  /\ \A i \in 1..Len(updates) : o.from < updates[i]
  /\ \A i \in 1..Len(delivery) : o.from < delivery[i]
  /\ o.from <= received
UpdatesBefore(s, t) == \A i \in 1..Len(s), j \in 1..Len(t) :
  s[i].kind = "update" /\ t[j].kind = "update" => Before(s[i], t[j])
UpdatesRise(s) == \A i, j \in 1..Len(s) :
  i < j /\ s[i].kind = "update" /\ s[j].kind = "update" => Before(s[i], s[j])
LineInv ==
  /\ \A i \in 1..Len(pending) : Behind(pending[i])
  /\ \A i \in 1..Len(out) : Behind(out[i])
  /\ UpdatesRise(pending) /\ UpdatesRise(out) /\ UpdatesBefore(out, pending)

(* Where each call is. *)
Distinct(s) == \A i, j \in 1..Len(s) : s[i].id # NoCall /\ s[i].id = s[j].id => i = j
InState(s, state) == \A i \in 1..Len(s) : s[i].id # NoCall => call[s[i].id] = state
Has(s, c) == \E i \in 1..Len(s) : s[i].id = c
MailInv ==
  /\ \A i, j \in 1..Len(commands) : commands[i] = commands[j] => i = j
  /\ \A i \in 1..Len(commands) : call[commands[i]] = "sent"
ReportsInv == Distinct(events) /\ (at # "failed" => InState(events, "reported"))
ObservedInv ==
  /\ Distinct(pending) /\ InState(pending, "answered")
  /\ Distinct(out) /\ InState(out, "answered")
  /\ \A i \in 1..Len(pending), j \in 1..Len(out) :
       pending[i].id # NoCall => pending[i].id # out[j].id
  /\ \A c \in Calls : call[c] = "answered" => Has(pending, c) \/ Has(out, c)
EndInv == at \in {"done", "failed"} => pending = <<>> /\ Steers = {}
CallsInv == MailInv /\ ReportsInv /\ ObservedInv /\ EndInv

(* The prompt's observation is queued once. *)
QueuedOnce ==
  /\ \A i, j \in 1..Len(pending) : pending[i].kind = "prompt" /\ pending[j].kind = "prompt" => i = j
  /\ \A i, j \in 1..Len(out) : out[i].kind = "prompt" /\ out[j].kind = "prompt" => i = j
  /\ \A i \in 1..Len(pending), j \in 1..Len(out) :
       ~(pending[i].kind = "prompt" /\ out[j].kind = "prompt")
  /\ promptQueued <=> \/ \E i \in 1..Len(pending) : pending[i].kind = "prompt"
                      \/ \E i \in 1..Len(out) : out[i].kind = "prompt"
PromptInv ==
  /\ promptQueued => Prompted
  /\ at # "failed" => QueuedOnce
  /\ at = "emit" /\ updatesDrained => promptQueued
  /\ at = "done" => promptQueued
  /\ at = "failed" => Len(out) # 0 /\ out[Len(out)].kind = "prompt"

(* What the barriers say: no update they cover is left before them, but those
   one gave up on. *)
Beyond(s, n) == \A i \in 1..Len(s) : s[i] > n \/ s[i] \in missed
BarrierInv ==
  /\ ~Prompted => ~updatesDrained /\ ~terminalAsked /\ ~promptBarrierRequested /\ ~barrierFence
  /\ Prompted /\ at # "drain" => terminalAsked
  /\ barrier.state = "result" => Beyond(delivery, barrier.target)
  /\ barrier.state # "idle" /\ barrier.seq = 0 => Prompted /\ promptAt <= barrier.target
  /\ barrierCompleted # 0 => Beyond(delivery, barrierCompleted)
  /\ barrierFence => Beyond(delivery, promptAt)

(* Once the prompt's observation is queued no update it covers is left behind
   the arbiter's back. *)
Follows(p, o) == p.kind = "prompt" /\ o.kind = "update" => o.from > promptAt \/ o.from \in missed
DrainInv ==
  /\ ~Sweeping /\ (updatesDrained \/ promptQueued) /\ promptSeq # 0 /\ promptSeq <= barrierCompleted =>
       Beyond(updates, promptSeq)
  /\ ~Sweeping /\ barrierFence => Beyond(updates, promptAt)
  /\ ~Sequenced /\ promptBarrierRequested /\ barrier.state = "idle" => barrierFence
  /\ ~Sequenced /\ updatesDrained => barrierFence
  /\ ~Sequenced /\ promptQueued => barrierFence /\ Beyond(updates, promptAt)
  /\ ~Sequenced => \A i, j \in 1..Len(pending) : i < j => Follows(pending[i], pending[j])

(* No message the prompt covers is lost. *)
Covered == 1..(IF promptState = "running" THEN received ELSE promptAt)
In(s, n) == \E i \in 1..Len(s) : s[i] = n
Carries(s, n, k) == \E i \in 1..Len(s) : s[i].kind = "update" /\ s[i].from = n /\ s[i].part = k
ConserveInv == at # "failed" => \A n \in Covered :
  \/ \E c \in Calls : response[c] = n
  \/ In(delivery, n) \/ In(updates, n)
  \/ \A k \in 1..PerUpdate : Carries(pending, n, k) \/ Carries(out, n, k)

(* The peer answers calls it was sent; the marker of the terminal has no
   sequence. *)
AnswersInv ==
  /\ \A c \in Calls : call[c] \in {"idle", "sent"} => response[c] = 0
  /\ \A i \in 1..Len(events) : events[i].id = NoCall => events[i].seq = 0

(* With updates handed over to the arbiter, a silent peer and no barrier that
   missed an update, whatever has a sequence is at the mark of what left or above
   it, until the prompt leaves. *)
Observing == at # "failed" /\ \A i \in 1..Len(out) : out[i].kind # "prompt"
Unreported(c) == call[c] = "out" /\ response[c] # 0
AnswerAhead(c) ==
  /\ response[c] > lastRaw
  /\ \A i \in 1..Len(events) : events[i].seq < response[c]
  /\ \A i \in 1..Len(pending) : pending[i].kind = "steer" => pending[i].seq < response[c]
EventAhead(i) ==
  /\ events[i].seq > lastRaw
  /\ \A j \in 1..Len(events) : j < i => events[j].seq < events[i].seq
  /\ \A j \in 1..Len(pending) : pending[j].kind = "steer" => pending[j].seq < events[i].seq
AheadInv ==
  /\ Beyond(delivery, lastRaw)
  /\ \A c, d \in Calls : Unreported(c) /\ Unreported(d) => c = d
  /\ \A c \in Calls : Unreported(c) => AnswerAhead(c)
  /\ \A i \in 1..Len(events) : events[i].seq # 0 => EventAhead(i)
  /\ \A i \in 1..Len(pending) : pending[i].seq # 0 => pending[i].seq >= lastRaw
StrictInv == Strict /\ Sequenced /\ missed = {} /\ Observing => AheadInv

-----------------------------------------------------------------------------
(***************************************************************************)
(* Rows, indices and sequences.                                            *)
(***************************************************************************)
LEMMA Least ==
  ASSUME NEW T \in SUBSET Nat, T # {}
  PROVE  \E x \in T : \A y \in T : x <= y
<1>1. IsWellFoundedOn(OpToRel(<, Nat), Nat)
  BY NatLessThanWellFounded
<1>2. PICK x \in T : \A y \in T : ~(<<y, x>> \in OpToRel(<, Nat))
  BY <1>1, WFMin
<1>3. \A y \in T : y < x => <<y, x>> \in OpToRel(<, Nat)
  BY DEF OpToRel
<1>4. \A y \in T : ~(y < x)
  BY <1>2, <1>3
<1> QED BY <1>4

LEMMA RowFacts ==
  ASSUME NEW S, IsFiniteSet(S), NEW f \in Rows(S)
  PROVE  /\ f \in [1..Cardinality(S) -> S] /\ Cardinality(S) \in Nat
         /\ DOMAIN f = 1..Cardinality(S)
         /\ \A i, j \in DOMAIN f : f[i] = f[j] => i = j
         /\ \A x \in S : \E i \in DOMAIN f : f[i] = x
<1>1. Cardinality(S) \in Nat
  BY FS_CardinalityType
<1>2. f \in Bijection(1..Cardinality(S), S)
  BY DEF Rows
<1> QED BY <1>1, <1>2, Fun_BijectionProperties

LEMMA RemoveAtFacts ==
  ASSUME NEW S, NEW s \in Seq(S), NEW b \in 1..Len(s)
  PROVE  LET t == RemoveAt(s, b) IN
         /\ t \in Seq(S) /\ Len(t) = Len(s) - 1
         /\ \A i \in 1..Len(t) : t[i] = s[IF i < b THEN i ELSE i + 1]
<1> DEFINE u == SubSeq(s, 1, b - 1)
           v == SubSeq(s, b + 1, Len(s))
<1>1. u \in Seq(S) /\ Len(u) = b - 1 /\ \A i \in 1..(b - 1) : u[i] = s[i]
  OBVIOUS
<1>2. v \in Seq(S) /\ Len(v) = Len(s) - b /\ \A i \in 1..(Len(s) - b) : v[i] = s[b + i]
  OBVIOUS
<1>3. RemoveAt(s, b) = u \o v
  BY DEF RemoveAt
<1> HIDE DEF u, v
<1>4. u \o v \in Seq(S) /\ Len(u \o v) = Len(s) - 1
  BY <1>1, <1>2
<1>5. \A i \in 1..(Len(s) - 1) : (u \o v)[i] = IF i < b THEN u[i] ELSE v[i - (b - 1)]
  BY <1>1, <1>2
<1>6. ASSUME NEW i \in 1..(Len(s) - 1) PROVE (u \o v)[i] = s[IF i < b THEN i ELSE i + 1]
  BY <1>1, <1>2, <1>5
<1> QED BY <1>3, <1>4, <1>6

LEMMA AppendFacts ==
  ASSUME NEW S, NEW s \in Seq(S), NEW x \in S
  PROVE  /\ Append(s, x) \in Seq(S) /\ Len(Append(s, x)) = Len(s) + 1
         /\ \A i \in 1..Len(s) : Append(s, x)[i] = s[i]
         /\ Append(s, x)[Len(s) + 1] = x
OBVIOUS

LEMMA TailFacts ==
  ASSUME NEW S, NEW s \in Seq(S), s # <<>>
  PROVE  /\ Tail(s) \in Seq(S) /\ Len(Tail(s)) = Len(s) - 1 /\ Head(s) \in S /\ Head(s) = s[1]
         /\ 1 \in 1..Len(s)
         /\ \A i \in 1..Len(Tail(s)) : Tail(s)[i] = s[i + 1]
OBVIOUS

LEMMA ConcatFacts ==
  ASSUME NEW S, NEW s \in Seq(S), NEW t \in Seq(S)
  PROVE  /\ s \o t \in Seq(S) /\ Len(s \o t) = Len(s) + Len(t)
         /\ \A i \in 1..Len(s) : (s \o t)[i] = s[i]
         /\ \A i \in 1..Len(t) : (s \o t)[Len(s) + i] = t[i]
OBVIOUS

LEMMA EntryType == ASSUME NEW S, NEW s \in Seq(S), NEW i \in 1..Len(s) PROVE s[i] \in S
OBVIOUS

LEMMA AssumedConstants ==
  /\ IsFiniteSet(Calls) /\ NoCall \notin Calls
  /\ MaxReceived \in Nat /\ PerUpdate \in Nat /\ Sessions \subseteq Session /\ CanClose \in BOOLEAN
BY ArbiterAssumption

-----------------------------------------------------------------------------
(***************************************************************************)
(* Types.                                                                  *)
(***************************************************************************)
PeerTypes ==
  /\ session \in Sessions /\ received \in Sequences
  /\ updates \in Seq(1..(MaxReceived + 1)) /\ delivery \in Seq(1..(MaxReceived + 1))
  /\ Len(updates) <= Buffer
  /\ promptState \in {"running", "returned", "taken"}
  /\ promptAt \in Sequences /\ promptSeq \in Sequences
  /\ response \in [Calls -> Sequences]
Event == [id : Calls \cup {NoCall}, seq : Sequences]
CallTypes ==
  /\ commands \in Seq(Calls)
  /\ call \in [Calls -> {"idle", "sent", "out", "reported", "answered"}]
  /\ events \in Seq(Event)
  /\ covered \subseteq Calls
Barrier == [state : {"idle", "waiting", "result"}, seq : Sequences, target : Sequences]
At == {"drain", "settle", "sweep", "resweep", "emit", "select", "done", "failed", "closed"}
LoopTypes ==
  /\ barrier \in Barrier /\ barrierCompleted \in Sequences
  /\ at \in At
  /\ {completeSent, terminalAsked, terminalReady, updatesDrained, promptQueued,
      promptBarrierRequested, barrierFence} \subseteq BOOLEAN
  /\ lastRaw \in Sequences /\ lastOrder \in Nat /\ missed \subseteq Sequences
OutTypes == pending \in Seq(Observation) /\ out \in Seq(Emitted)

LEMMA ArbiterTypes == ArbiterTypeOK <=> PeerTypes /\ CallTypes /\ LoopTypes /\ OutTypes
BY DEF ArbiterTypeOK, PeerTypes, CallTypes, LoopTypes, OutTypes, Event, Barrier, At

LEMMA SequencesAre == Sequences = 0..(MaxReceived + 1) /\ MaxReceived \in Nat /\ 0 \in Sequences
BY AssumedConstants DEF Sequences

LEMMA SessionIs ==
  ASSUME PeerTypes
  PROVE  Buffer \in Nat /\ Sequenced \in BOOLEAN /\ Chatty \in BOOLEAN
BY AssumedConstants DEF PeerTypes, Session, Buffer, Sequenced, Chatty

LEMMA StampType == ASSUME NEW n \in Sequences PROVE Stamp(n) \in Sequences
BY SequencesAre DEF Stamp

LEMMA TranslatedType ==
  ASSUME PeerTypes, NEW u \in 1..(MaxReceived + 1)
  PROVE  /\ Translated(u) \in Seq(Observation) /\ Len(Translated(u)) = PerUpdate
         /\ \A k \in 1..PerUpdate : Translated(u)[k] =
              [kind |-> "update", id |-> NoCall, from |-> u, part |-> k, seq |-> Stamp(u)]
<1>1. \A k \in 1..PerUpdate : Translated(u)[k] =
              [kind |-> "update", id |-> NoCall, from |-> u, part |-> k, seq |-> Stamp(u)]
  BY DEF Translated
<1>2. u \in Sequences
  BY SequencesAre
<1>3. Stamp(u) \in Sequences
  BY <1>2, StampType
<1>4. ASSUME NEW k \in 1..PerUpdate PROVE Translated(u)[k] \in Observation
  <2>1. k \in 0..PerUpdate
    BY AssumedConstants
  <2>2. [kind |-> "update", id |-> NoCall, from |-> u, part |-> k, seq |-> Stamp(u)] \in Observation
    BY <1>2, <1>3, <2>1 DEF Observation
  <2> QED BY <1>1, <2>2
<1>5. Translated(u) \in [1..PerUpdate -> Observation]
  BY <1>4 DEF Translated
<1> QED BY <1>1, <1>5, AssumedConstants

LEMMA SteerType ==
  ASSUME NEW c \in Calls, NEW s \in Sequences PROVE Steer(c, s) \in Observation
BY SequencesAre, AssumedConstants DEF Steer, Observation

LEMMA PromptType == ASSUME PeerTypes PROVE Prompt \in Observation
BY AssumedConstants DEF PeerTypes, Prompt, Observation

LEMMA KeyedType ==
  ASSUME NEW o \in Observation, NEW k \in Nat
  PROVE  /\ Keyed(o, k) \in Emitted
         /\ Keyed(o, k).kind = o.kind /\ Keyed(o, k).id = o.id /\ Keyed(o, k).from = o.from
         /\ Keyed(o, k).part = o.part /\ Keyed(o, k).seq = o.seq /\ Keyed(o, k).key = k
BY DEF Keyed, Observation, Emitted

LEMMA RequestedType ==
  ASSUME PeerTypes, LoopTypes, NEW s \in Sequences, NEW full \in BOOLEAN
  PROVE  Requested(s, full) \in Barrier
BY DEF PeerTypes, LoopTypes, Requested, Barrier

(* The observation nextObservationIndex chooses. *)
LEMMA BestFacts ==
  ASSUME OutTypes, pending # <<>>
  PROVE  /\ Best \in 1..Len(pending) /\ Candidate = pending[Best] /\ Candidate \in Observation
         /\ Candidate.seq = 0 => Best = 1 /\ \A i \in 1..Len(pending) : pending[i].seq = 0
         /\ Candidate.seq # 0 => \A j \in 1..Len(pending) : pending[j].seq # 0 =>
              \/ Candidate.seq < pending[j].seq
              \/ Candidate.seq = pending[j].seq /\ Best <= j
<1> DEFINE positive == {i \in 1..Len(pending) : pending[i].seq # 0}
           best(i) == \A j \in positive :
             pending[i].seq < pending[j].seq \/ (pending[i].seq = pending[j].seq /\ i <= j)
<1>0. ASSUME NEW i \in 1..Len(pending)
      PROVE  pending[i] \in Observation /\ pending[i].seq \in Nat
  <2>1. pending[i] \in Observation
    BY EntryType DEF OutTypes
  <2>2. pending[i].seq \in Sequences
    BY <2>1 DEF Observation
  <2> QED BY <2>1, <2>2, SequencesAre
<1>a. 1 \in 1..Len(pending)
  BY DEF OutTypes
<1>1. CASE positive = {}
  <2>1. Best = 1
    BY <1>1 DEF Best
  <2> QED BY <1>0, <1>1, <1>a, <2>1 DEF Candidate
<1>2. CASE positive # {}
  <2> DEFINE seqs == {pending[i].seq : i \in positive}
  <2>1. seqs \in SUBSET Nat /\ seqs # {}
    BY <1>0, <1>2
  <2>2. PICK s \in seqs : \A t \in seqs : s <= t
    BY <2>1, Least
  <2> DEFINE least == {i \in positive : pending[i].seq = s}
  <2>3. least \in SUBSET Nat /\ least # {}
    BY <2>2
  <2>4. PICK i \in least : \A j \in least : i <= j
    BY <2>3, Least
  <2>5. i \in positive /\ best(i)
    <3>1. ASSUME NEW j \in positive
          PROVE  pending[i].seq < pending[j].seq \/ (pending[i].seq = pending[j].seq /\ i <= j)
      <4>1. pending[j].seq \in seqs /\ pending[i].seq = s /\ pending[i].seq \in Nat
            /\ pending[j].seq \in Nat
        BY <1>0, <2>4
      <4>2. s <= pending[j].seq
        BY <2>2, <4>1
      <4>3. CASE s = pending[j].seq
        <5>1. j \in least
          BY <4>3
        <5> QED BY <2>4, <4>1, <4>3, <5>1
      <4> QED BY <4>1, <4>2, <4>3
    <3> QED BY <2>4, <3>1
  <2>6. Best = CHOOSE x \in positive : best(x)
    BY <1>2 DEF Best
  <2>7. Best \in positive /\ best(Best)
    <3> HIDE DEF best, positive
    <3> QED BY <2>5, <2>6
  <2> QED BY <1>0, <2>7 DEF Candidate
<1> QED BY <1>1, <1>2

(* What an action of the arbiter takes from the channel. *)
LEMMA Taking ==
  ASSUME PeerTypes, NEW u \in {Head(Upcoming)}, Upcoming # <<>>, TakesUpdate(u)
  PROVE  /\ u \in 1..(MaxReceived + 1)
         /\ \/ delivery # <<>> /\ u = Head(delivery) /\ delivery' = Tail(delivery)
               /\ updates' = updates /\ updates = <<>>
            \/ updates # <<>> /\ u = Head(updates) /\ updates' = Tail(updates)
               /\ delivery' = delivery
<1>1. CASE Buffer = 0
  <2>1. updates = <<>>
    BY <1>1 DEF PeerTypes
  <2>2. delivery # <<>> /\ u = Head(delivery) /\ delivery' = Tail(delivery) /\ updates' = updates
    BY <1>1 DEF TakesUpdate
  <2> QED BY <2>1, <2>2, TailFacts DEF PeerTypes
<1>2. CASE Buffer # 0
  <2>1. updates # <<>> /\ u = Head(updates) /\ updates' = Tail(updates) /\ delivery' = delivery
    BY <1>2 DEF TakesUpdate
  <2> QED BY <2>1, TailFacts DEF PeerTypes
<1> QED BY <1>1, <1>2

(* What each action leaves alone. *)
LEMMA PeerQuiet ==
  \/ \E c \in Calls : Command(c) \/ \E s \in Sequences : Report(c, s)
  \/ Completes \/ BarrierReturns \/ BarrierGivesUp \/ TakeCommand \/ Drained \/ Sweep
  \/ SweepEnds \/ Settled \/ Emit \/ Fail \/ Rest \/ TakeEvent \/ TakeBarrier \/ Close
  => UNCHANGED <<received, delivery, updates, promptAt, promptSeq, promptState, response>>
BY DEF Command, Report, Completes, BarrierReturns, BarrierGivesUp, TakeCommand, Drained, Sweep,
       SweepEnds, Settled, Emit, Fail, Rest, TakeEvent, TakeBarrier, Close, peerVars, callVars

LEMMA PeerTypesStep ==
  ASSUME PeerTypes, PeerInv, ArbiterNext PROVE PeerTypes'
<1> USE SequencesAre, AssumedConstants
<1>s. session' = session /\ Buffer' = Buffer
  BY DEF ArbiterNext, Buffer
<1>b. Buffer \in Nat
  BY SessionIs
<1>1. CASE PeerUpdates
  <2>1. received + 1 \in 1..(MaxReceived + 1) /\ received + 1 \in Sequences
    BY <1>1 DEF PeerUpdates, PeerTypes
  <2>2. delivery' \in Seq(1..(MaxReceived + 1))
    BY <1>1, <2>1 DEF PeerUpdates, PeerTypes
  <2> QED BY <1>s, <1>1, <2>1, <2>2 DEF PeerUpdates, PeerTypes, callVars
<1>2. ASSUME NEW c \in Calls, PeerAnswers(c) PROVE PeerTypes'
  <2>1. received + 1 \in Sequences
    BY <1>2 DEF PeerAnswers, PeerTypes
  <2> QED BY <1>s, <1>2, <2>1 DEF PeerAnswers, PeerTypes
<1>3. CASE PromptReturns
  <2>1. received + 1 \in Sequences /\ Stamp(received + 1) \in Sequences
    BY <1>3, StampType DEF PromptReturns, PeerTypes, PeerInv
  <2> QED BY <1>s, <1>3, <2>1 DEF PromptReturns, PeerTypes, callVars
<1>4. CASE Deliver
  <2>1. /\ Append(updates, Head(delivery)) \in Seq(1..(MaxReceived + 1))
        /\ Len(Append(updates, Head(delivery))) = Len(updates) + 1
        /\ Tail(delivery) \in Seq(1..(MaxReceived + 1))
    BY <1>4, TailFacts, AppendFacts DEF Deliver, PeerTypes
  <2> QED BY <1>s, <1>b, <1>4, <2>1 DEF Deliver, PeerTypes, callVars
<1>5. CASE TakePrompt
  BY <1>s, <1>5 DEF TakePrompt, PeerTypes, peerVars, callVars
<1>6. CASE SweepTakes \/ TakeUpdate
  <2>1. PICK u \in {Head(Upcoming)} : TakesUpdate(u) /\ Upcoming # <<>>
    BY <1>6 DEF SweepTakes, TakeUpdate
  <2>2. /\ delivery' \in Seq(1..(MaxReceived + 1)) /\ updates' \in Seq(1..(MaxReceived + 1))
        /\ Len(updates') <= Buffer
    <3>1. CASE delivery # <<>> /\ delivery' = Tail(delivery) /\ updates' = updates
      BY <3>1, TailFacts DEF PeerTypes
    <3>2. CASE updates # <<>> /\ updates' = Tail(updates) /\ delivery' = delivery
      <4>1. Tail(updates) \in Seq(1..(MaxReceived + 1)) /\ Len(Tail(updates)) = Len(updates) - 1
            /\ Len(updates) \in Nat
        BY <3>2, TailFacts DEF PeerTypes
      <4> QED BY <1>b, <3>2, <4>1 DEF PeerTypes
    <3> QED BY <2>1, <3>1, <3>2, Taking
  <2> QED BY <1>s, <1>6, <2>2 DEF SweepTakes, TakeUpdate, PeerTypes, callVars
<1>7. CASE UNCHANGED <<received, delivery, updates, promptAt, promptSeq, promptState, response>>
  BY <1>s, <1>7 DEF PeerTypes
<1> QED BY <1>1, <1>2, <1>3, <1>4, <1>5, <1>6, <1>7, PeerQuiet DEF ArbiterNext, Loop, Others

LEMMA PeerInvStep ==
  ASSUME PeerTypes, PeerInv, ArbiterNext PROVE PeerInv'
<1> USE SequencesAre, AssumedConstants
<1>s. Sequenced' = Sequenced /\ Chatty' = Chatty
  BY DEF ArbiterNext, Sequenced, Chatty
<1>t. Sequenced \in BOOLEAN /\ Chatty \in BOOLEAN
  BY SessionIs
<1>0. ASSUME NEW c \in Calls PROVE response[c] \in Nat
  BY DEF PeerTypes
<1>1. CASE PeerUpdates
  BY <1>0, <1>s, <1>1 DEF PeerUpdates, PeerTypes, PeerInv, Numbered, callVars
<1>2. ASSUME NEW c \in Calls, PeerAnswers(c) PROVE PeerInv'
  BY <1>0, <1>s, <1>2 DEF PeerAnswers, PeerTypes, PeerInv, Numbered
<1>3. CASE PromptReturns
  BY <1>0, <1>s, <1>3 DEF PromptReturns, PeerTypes, PeerInv, Numbered, callVars, Stamp
<1>4. CASE Deliver \/ TakePrompt \/ SweepTakes \/ TakeUpdate
  BY <1>s, <1>4 DEF Deliver, TakePrompt, SweepTakes, TakeUpdate, PeerInv, PeerTypes, Numbered, peerVars, callVars
<1>7. CASE UNCHANGED <<received, delivery, updates, promptAt, promptSeq, promptState, response>>
  BY <1>s, <1>7 DEF PeerInv, Numbered
<1> QED BY <1>1, <1>2, <1>3, <1>4, <1>7, PeerQuiet DEF ArbiterNext, Loop, Others

LEMMA CallQuiet ==
  \/ PeerUpdates \/ PromptReturns \/ Deliver \/ BarrierReturns \/ BarrierGivesUp \/ Drained
  \/ Sweep \/ SweepTakes \/ SweepEnds \/ Settled \/ Emit \/ Rest \/ TakeUpdate \/ TakePrompt
  \/ TakeBarrier \/ Close
  \/ \E c \in Calls : PeerAnswers(c)
  => UNCHANGED <<commands, call, events>>
BY DEF PeerUpdates, PeerAnswers, PromptReturns, Deliver, BarrierReturns, BarrierGivesUp, Drained, Sweep,
       SweepTakes, SweepEnds, Settled, Emit, Rest, TakeUpdate, TakePrompt, TakeBarrier, Close,
       callVars

LEMMA CallTypesStep ==
  ASSUME PeerTypes, CallTypes, ArbiterNext PROVE CallTypes'
<1> USE SequencesAre, AssumedConstants
<1>c. covered' \subseteq Calls
  <2>1. covered' = covered \/ covered' \subseteq Steers
    BY DEF ArbiterNext, Loop, Others, PeerUpdates, PeerAnswers, PromptReturns, Deliver, Command,
       Report, Completes, BarrierReturns, BarrierGivesUp, TakeCommand, Drained, Sweep, SweepTakes,
       SweepEnds, Settled, Emit, Fail, Rest, TakeUpdate, TakePrompt, TakeEvent, TakeBarrier, Close, callVars
  <2> QED BY <2>1 DEF Steers, CallTypes
<1>1. ASSUME NEW c \in Calls, Command(c) PROVE CallTypes'
  BY <1>1, <1>c DEF Command, CallTypes
<1>2. ASSUME NEW c \in Calls, NEW s \in Sequences, Report(c, s) PROVE CallTypes'
  <2>1. [id |-> c, seq |-> s] \in Event
    BY DEF Event
  <2> QED BY <1>2, <1>c, <2>1 DEF Report, CallTypes
<1>3. CASE Completes
  <2>1. [id |-> NoCall, seq |-> 0] \in Event
    BY DEF Event
  <2> QED BY <1>3, <1>c, <2>1 DEF Completes, CallTypes
<1>4. CASE TakeCommand
  <2>1. commands' \in Seq(Calls) /\ Head(commands) \in Calls
    BY <1>4, TailFacts DEF TakeCommand, CallTypes
  <2> QED BY <1>4, <1>c, <2>1 DEF TakeCommand, Accepts, CallTypes
<1>5. CASE TakeEvent
  <2>1. events' \in Seq(Event) /\ Head(events) \in Event
    BY <1>5, TailFacts DEF TakeEvent, CallTypes
  <2>2. call' = call \/ call' = [call EXCEPT ![Head(events).id] = "answered"]
    BY <1>5 DEF TakeEvent
  <2>3. commands' = commands
    BY <1>5 DEF TakeEvent
  <2> QED BY <1>c, <2>1, <2>2, <2>3 DEF CallTypes
<1>6. CASE Fail
  BY <1>6, <1>c DEF Fail, CallTypes
<1>7. CASE UNCHANGED <<commands, call, events>>
  BY <1>7, <1>c DEF CallTypes
<1> QED BY <1>1, <1>2, <1>3, <1>4, <1>5, <1>6, <1>7, CallQuiet DEF ArbiterNext, Loop, Others

LEMMA OutQuiet ==
  \/ PeerUpdates \/ PromptReturns \/ Deliver \/ BarrierReturns \/ BarrierGivesUp \/ Drained
  \/ Sweep \/ SweepEnds \/ Rest \/ TakePrompt \/ TakeBarrier \/ Close \/ Completes
  \/ \E c \in Calls : PeerAnswers(c) \/ Command(c) \/ \E s \in Sequences : Report(c, s)
  => UNCHANGED <<pending, out, lastRaw, lastOrder>>
BY DEF PeerUpdates, PeerAnswers, PromptReturns, Deliver, BarrierReturns, BarrierGivesUp, Drained,
       Sweep, Command, Report, Completes, SweepEnds, Rest, TakePrompt, TakeBarrier, Close, orderVars,
       arbiterOnly, loopVars

(* What joins the pending observations. *)
LEMMA PendingGrows ==
  ASSUME PeerTypes, CallTypes, OutTypes
  PROVE  /\ SweepTakes \/ TakeUpdate =>
              /\ UNCHANGED <<out, lastRaw, lastOrder>>
              /\ Upcoming # <<>>
              /\ \E u \in {Head(Upcoming)} : TakesUpdate(u) /\ pending' = pending \o Translated(u)
         /\ TakeCommand =>
              /\ UNCHANGED <<out, lastRaw, lastOrder>>
              /\ \/ pending' = pending
                 \/ pending' = Append(pending, Steer(Head(commands), 0)) /\ Head(commands) \in Calls
         /\ TakeEvent =>
              /\ UNCHANGED <<out, lastRaw, lastOrder>>
              /\ \/ pending' = pending /\ Head(events).id = NoCall
                 \/ /\ pending' = Append(pending, Steer(Head(events).id, Head(events).seq))
                    /\ Head(events).id \in Calls /\ Head(events).seq \in Sequences
         /\ Settled =>
              /\ UNCHANGED <<out, lastRaw, lastOrder>>
              /\ pending' = pending \/ pending' = Append(pending, Prompt)
<1>1. SweepTakes \/ TakeUpdate =>
        /\ UNCHANGED <<out, lastRaw, lastOrder>>
        /\ Upcoming # <<>>
        /\ \E u \in {Head(Upcoming)} : TakesUpdate(u) /\ pending' = pending \o Translated(u)
  BY DEF SweepTakes, TakeUpdate, orderVars
<1>2. TakeCommand =>
        /\ UNCHANGED <<out, lastRaw, lastOrder>>
        /\ \/ pending' = pending
           \/ pending' = Append(pending, Steer(Head(commands), 0)) /\ Head(commands) \in Calls
  BY TailFacts DEF TakeCommand, Accepts, CallTypes, orderVars
<1>3. TakeEvent =>
        /\ UNCHANGED <<out, lastRaw, lastOrder>>
        /\ \/ pending' = pending /\ Head(events).id = NoCall
           \/ /\ pending' = Append(pending, Steer(Head(events).id, Head(events).seq))
              /\ Head(events).id \in Calls /\ Head(events).seq \in Sequences
  <2> SUFFICES ASSUME TakeEvent
               PROVE  /\ UNCHANGED <<out, lastRaw, lastOrder>>
                      /\ \/ pending' = pending /\ Head(events).id = NoCall
                         \/ /\ pending' = Append(pending, Steer(Head(events).id, Head(events).seq))
                            /\ Head(events).id \in Calls /\ Head(events).seq \in Sequences
    OBVIOUS
  <2>1. Head(events) \in Event
    BY TailFacts DEF TakeEvent, CallTypes
  <2> QED BY <2>1 DEF TakeEvent, Event, orderVars
<1>4. Settled =>
        /\ UNCHANGED <<out, lastRaw, lastOrder>>
        /\ pending' = pending \/ pending' = Append(pending, Prompt)
  BY DEF Settled, orderVars
<1> QED BY <1>1, <1>2, <1>3, <1>4

LEMMA EmitFacts ==
  ASSUME PeerTypes, LoopTypes, OutTypes, Emit
  PROVE  /\ pending # <<>> /\ Best \in 1..Len(pending) /\ Candidate = pending[Best]
         /\ Candidate \in Observation
         /\ \E k \in Nat :
              /\ k = IF Candidate.seq # 0 THEN Candidate.seq ELSE LocalKey
              /\ out' = Append(out, Keyed(Candidate, k)) /\ Keyed(Candidate, k) \in Emitted
              /\ lastOrder' = IF k > lastOrder THEN k ELSE lastOrder
         /\ lastRaw' = IF Candidate.seq # 0 THEN Candidate.seq ELSE lastRaw
         /\ out' \in Seq(Emitted) /\ Len(out') = Len(out) + 1
         /\ \A i \in 1..Len(out) : out'[i] = out[i]
         /\ pending' \in Seq(Observation) /\ Len(pending') = Len(pending) - 1
         /\ \A i \in 1..Len(pending') : pending'[i] = pending[IF i < Best THEN i ELSE i + 1]
<1>1. pending # <<>> /\ Best \in 1..Len(pending) /\ Candidate = pending[Best]
      /\ Candidate \in Observation
  BY BestFacts DEF Emit, Emittable
<1>2. LocalKey \in Nat /\ Candidate.seq \in Nat
  BY <1>1, SequencesAre DEF LocalKey, LoopTypes, Observation
<1> DEFINE k == IF Candidate.seq # 0 THEN Candidate.seq ELSE LocalKey
<1>3. k \in Nat /\ Keyed(Candidate, k) \in Emitted
  BY <1>1, <1>2, KeyedType
<1>4. /\ out' = Append(out, Keyed(Candidate, k))
      /\ lastOrder' = IF k > lastOrder THEN k ELSE lastOrder
      /\ lastRaw' = IF Candidate.seq # 0 THEN Candidate.seq ELSE lastRaw
      /\ pending' = RemoveAt(pending, Best)
  BY DEF Emit
<1>5. /\ out' \in Seq(Emitted) /\ Len(out') = Len(out) + 1
      /\ \A i \in 1..Len(out) : out'[i] = out[i]
  <2> HIDE DEF k
  <2> QED BY <1>3, <1>4, AppendFacts DEF OutTypes
<1>6. /\ pending' \in Seq(Observation) /\ Len(pending') = Len(pending) - 1
      /\ \A i \in 1..Len(pending') : pending'[i] = pending[IF i < Best THEN i ELSE i + 1]
  BY <1>1, <1>4, RemoveAtFacts DEF OutTypes
<1> QED BY <1>1, <1>3, <1>4, <1>5, <1>6

(* What a turn that fails emits: the unresolved calls, those answered, the
   prompt. *)
Answers == {i \in 1..Len(pending) : pending[i].kind = "steer"}
Unresolved(a) ==
  /\ \A i \in 1..Len(a) : a[i].kind = "steer" /\ a[i].id \in Steers
  /\ \A i, j \in 1..Len(a) : a[i].id = a[j].id => i = j
  /\ \A c \in Steers : \E i \in 1..Len(a) : a[i].id = c
Waiting(b, w) ==
  /\ w \in [1..Len(b) -> Answers]
  /\ \A i, j \in 1..Len(b) : w[i] = w[j] => i = j
  /\ \A n \in Answers : \E i \in 1..Len(b) : w[i] = n
  /\ \A i \in 1..Len(b) : b[i].kind = "steer" /\ b[i].id = pending[w[i]].id
LEMMA FailFacts ==
  ASSUME PeerTypes, CallTypes, OutTypes, Fail
  PROVE  \E a, b, p, w :
           /\ a \in Seq(Emitted) /\ b \in Seq(Emitted) /\ p \in Emitted
           /\ out' = ((out \o a) \o b) \o <<p>>
           /\ p.kind = "prompt" /\ p.id = NoCall
           /\ Unresolved(a) /\ Waiting(b, w)
<1>1. IsFiniteSet(Steers) /\ Steers \subseteq Calls
  BY AssumedConstants, FS_Subset DEF Steers
<1>2. IsFiniteSet(Answers)
  <2>1. IsFiniteSet(1..Len(pending))
    BY FS_Interval DEF OutTypes
  <2> QED BY <2>1, FS_Subset DEF Answers
<1>3. PICK calls \in Rows(Steers), waiting \in Rows(Answers) :
        out' = ((out \o [i \in DOMAIN calls |-> Keyed(Steer(calls[i], 0), 0)])
                     \o [i \in DOMAIN waiting |->
                           Keyed(pending[waiting[i]], pending[waiting[i]].seq)])
                     \o <<Keyed([Prompt EXCEPT !.seq = 0], 0)>>
  BY DEF Fail, Answers
<1> DEFINE a == [i \in DOMAIN calls |-> Keyed(Steer(calls[i], 0), 0)]
           b == [i \in DOMAIN waiting |-> Keyed(pending[waiting[i]], pending[waiting[i]].seq)]
           p == Keyed([Prompt EXCEPT !.seq = 0], 0)
<1>4. /\ calls \in [1..Cardinality(Steers) -> Steers] /\ Cardinality(Steers) \in Nat
      /\ DOMAIN calls = 1..Cardinality(Steers)
      /\ \A i, j \in DOMAIN calls : calls[i] = calls[j] => i = j
      /\ \A x \in Steers : \E i \in DOMAIN calls : calls[i] = x
  BY <1>1, RowFacts
<1>5. /\ waiting \in [1..Cardinality(Answers) -> Answers] /\ Cardinality(Answers) \in Nat
      /\ DOMAIN waiting = 1..Cardinality(Answers)
      /\ \A i, j \in DOMAIN waiting : waiting[i] = waiting[j] => i = j
      /\ \A x \in Answers : \E i \in DOMAIN waiting : waiting[i] = x
  BY <1>2, RowFacts
<1>6. ASSUME NEW i \in DOMAIN calls
      PROVE  a[i] \in Emitted /\ a[i].kind = "steer" /\ a[i].id = calls[i]
  <2>1. Steer(calls[i], 0) \in Observation
    BY <1>1, <1>4, SteerType, SequencesAre
  <2>2. a[i] = Keyed(Steer(calls[i], 0), 0)
    OBVIOUS
  <2>3. Steer(calls[i], 0).kind = "steer" /\ Steer(calls[i], 0).id = calls[i]
    BY DEF Steer
  <2> HIDE DEF a
  <2> QED BY <2>1, <2>2, <2>3, KeyedType
<1>7. ASSUME NEW i \in DOMAIN waiting
      PROVE  b[i] \in Emitted /\ b[i].kind = "steer" /\ b[i].id = pending[waiting[i]].id
  <2>1. waiting[i] \in 1..Len(pending) /\ pending[waiting[i]].kind = "steer"
    BY <1>5 DEF Answers
  <2>2. pending[waiting[i]] \in Observation
    BY <2>1, EntryType DEF OutTypes
  <2>3. pending[waiting[i]].seq \in Nat
    BY <2>2, SequencesAre DEF Observation
  <2>4. b[i] = Keyed(pending[waiting[i]], pending[waiting[i]].seq)
    OBVIOUS
  <2> HIDE DEF b
  <2> QED BY <2>1, <2>2, <2>3, <2>4, KeyedType
<1>8. p \in Emitted /\ p.kind = "prompt" /\ p.id = NoCall
  <2>1. [Prompt EXCEPT !.seq = 0] \in Observation
    BY PromptType, SequencesAre DEF Observation
  <2>2. Prompt.kind = "prompt" /\ Prompt.id = NoCall
    BY DEF Prompt
  <2>3. [Prompt EXCEPT !.seq = 0].kind = "prompt" /\ [Prompt EXCEPT !.seq = 0].id = NoCall
    BY <2>2, PromptType DEF Observation
  <2> QED BY <2>1, <2>3, KeyedType
<1>9. a \in Seq(Emitted) /\ Len(a) = Cardinality(Steers)
  <2>1. a \in [1..Cardinality(Steers) -> Emitted]
    BY <1>4, <1>6
  <2> HIDE DEF a
  <2> QED BY <1>4, <2>1
<1>10. b \in Seq(Emitted) /\ Len(b) = Cardinality(Answers)
  <2>1. b \in [1..Cardinality(Answers) -> Emitted]
    BY <1>5, <1>7
  <2> HIDE DEF b
  <2> QED BY <1>5, <2>1
<1>11. out' = ((out \o a) \o b) \o <<p>>
  BY <1>3
<1> HIDE DEF a, b, p
<1>12. Unresolved(a)
  BY <1>4, <1>6, <1>9 DEF Unresolved
<1>13. Waiting(b, waiting)
  BY <1>5, <1>7, <1>10 DEF Waiting
<1> QED BY <1>8, <1>9, <1>10, <1>11, <1>12, <1>13

(* The entries of what a turn that fails emits. *)
LEMMA FailEntries ==
  ASSUME NEW a \in Seq(Emitted), NEW b \in Seq(Emitted), NEW p \in Emitted, OutTypes,
         out' = ((out \o a) \o b) \o <<p>>
  PROVE  /\ out' \in Seq(Emitted) /\ Len(out') = Len(out) + Len(a) + Len(b) + 1
         /\ \A i \in 1..Len(out) : out'[i] = out[i]
         /\ \A i \in 1..Len(a) : out'[Len(out) + i] = a[i]
         /\ \A i \in 1..Len(b) : out'[Len(out) + Len(a) + i] = b[i]
         /\ out'[Len(out')] = p
<1>0. PICK oa : oa = out \o a
  OBVIOUS
<1>1. /\ oa \in Seq(Emitted) /\ Len(oa) = Len(out) + Len(a)
      /\ \A i \in 1..Len(out) : oa[i] = out[i]
      /\ \A i \in 1..Len(a) : oa[Len(out) + i] = a[i]
  BY <1>0, ConcatFacts DEF OutTypes
<1>b. PICK ob : ob = oa \o b
  OBVIOUS
<1>2. /\ ob \in Seq(Emitted) /\ Len(ob) = Len(oa) + Len(b)
      /\ \A i \in 1..Len(oa) : ob[i] = oa[i]
      /\ \A i \in 1..Len(b) : ob[Len(oa) + i] = b[i]
  <2>1. oa \in Seq(Emitted) /\ b \in Seq(Emitted)
    BY <1>1
  <2> QED BY <1>b, <2>1, ConcatFacts
<1>3. out' = ob \o <<p>>
  BY <1>0, <1>b
<1>4. <<p>> \in Seq(Emitted) /\ Len(<<p>>) = 1 /\ <<p>>[1] = p /\ 1 \in 1..Len(<<p>>)
  OBVIOUS
<1>5. /\ out' \in Seq(Emitted) /\ Len(out') = Len(ob) + 1
      /\ \A i \in 1..Len(ob) : out'[i] = ob[i]
      /\ out'[Len(ob) + 1] = p
  <2>1. /\ ob \o <<p>> \in Seq(Emitted) /\ Len(ob \o <<p>>) = Len(ob) + Len(<<p>>)
        /\ \A i \in 1..Len(ob) : (ob \o <<p>>)[i] = ob[i]
        /\ \A i \in 1..Len(<<p>>) : (ob \o <<p>>)[Len(ob) + i] = <<p>>[i]
    BY <1>2, <1>4, ConcatFacts
  <2> QED BY <1>3, <1>4, <2>1
<1>6. Len(out) \in Nat /\ Len(a) \in Nat /\ Len(b) \in Nat /\ Len(oa) \in Nat /\ Len(ob) \in Nat
  BY <1>1, <1>2 DEF OutTypes
<1>7. ASSUME NEW i \in 1..Len(out) PROVE out'[i] = out[i]
  BY <1>1, <1>2, <1>5, <1>6
<1>8. ASSUME NEW i \in 1..Len(a) PROVE out'[Len(out) + i] = a[i]
  <2>1. Len(out) + i \in 1..Len(oa) /\ Len(out) + i \in 1..Len(ob)
    BY <1>1, <1>2, <1>6
  <2> QED BY <1>1, <1>2, <1>5, <2>1
<1>9. ASSUME NEW i \in 1..Len(b) PROVE out'[Len(out) + Len(a) + i] = b[i]
  <2>1. Len(out) + Len(a) + i = Len(oa) + i /\ Len(oa) + i \in 1..Len(ob)
    BY <1>1, <1>2, <1>6
  <2> QED BY <1>2, <1>5, <2>1
<1> QED BY <1>1, <1>2, <1>5, <1>6, <1>7, <1>8, <1>9

LEMMA OutTypesStep ==
  ASSUME PeerTypes, CallTypes, LoopTypes, OutTypes, ArbiterNext PROVE OutTypes'
<1> USE SequencesAre, AssumedConstants
<1>g. \A o \in Observation : Append(pending, o) \in Seq(Observation)
  BY AppendFacts DEF OutTypes
<1>1. CASE SweepTakes \/ TakeUpdate
  <2>1. PICK u \in {Head(Upcoming)} :
          TakesUpdate(u) /\ pending' = pending \o Translated(u) /\ Upcoming # <<>>
    BY <1>1, PendingGrows
  <2>2. u \in 1..(MaxReceived + 1)
    BY <2>1, Taking
  <2>3. Translated(u) \in Seq(Observation)
    BY <2>2, TranslatedType
  <2> QED BY <1>1, <2>1, <2>3, PendingGrows, ConcatFacts DEF OutTypes
<1>2. CASE TakeCommand
  BY <1>g, <1>2, PendingGrows, SteerType DEF OutTypes
<1>3. CASE TakeEvent
  BY <1>g, <1>3, PendingGrows, SteerType DEF OutTypes
<1>4. CASE Settled
  BY <1>g, <1>4, PendingGrows, PromptType DEF OutTypes
<1>5. CASE Emit
  BY <1>5, EmitFacts DEF OutTypes
<1>6. CASE Fail
  <2>1. PICK a, b, p :
          /\ a \in Seq(Emitted) /\ b \in Seq(Emitted) /\ p \in Emitted
          /\ out' = ((out \o a) \o b) \o <<p>>
    BY <1>6, FailFacts
  <2>2. out' \in Seq(Emitted)
    BY <2>1, FailEntries
  <2>3. pending' = <<>>
    BY <1>6 DEF Fail
  <2> QED BY <2>2, <2>3 DEF OutTypes
<1>7. CASE UNCHANGED <<pending, out, lastRaw, lastOrder>>
  BY <1>7 DEF OutTypes
<1> QED BY <1>1, <1>2, <1>3, <1>4, <1>5, <1>6, <1>7, OutQuiet DEF ArbiterNext, Loop, Others

LEMMA BarrierStep ==
  ASSUME PeerTypes, LoopTypes, OutTypes, ArbiterNext
  PROVE  \/ barrier' = barrier
         \/ /\ barrier.state = "idle" /\ barrier'.state = "waiting"
            /\ \/ (Drained \/ TakeEvent) /\ barrier' = Requested(promptSeq, TRUE)
               \/ /\ Rest /\ pending # <<>> /\ ~Held /\ Fenced
                  /\ barrier' = Requested(Candidate.seq, FALSE)
         \/ BarrierReturns \/ BarrierGivesUp
         \/ TakeBarrier
<1>1. \/ barrier' = barrier
      \/ (Drained \/ TakeEvent) /\ barrier' = Requested(promptSeq, TRUE)
      \/ Rest /\ pending # <<>> /\ ~Held /\ Fenced /\ barrier' = Requested(Candidate.seq, FALSE)
      \/ BarrierReturns \/ BarrierGivesUp
      \/ TakeBarrier
  BY DEF ArbiterNext, Loop, Others, PeerUpdates, PeerAnswers, PromptReturns, Deliver, Command,
       Report, Completes, TakeCommand, Drained, Sweep, SweepTakes, SweepEnds, PromptBarrier,
       Settled, Emit, Fail, Rest, TakeUpdate, TakePrompt, TakeEvent, Close, arbiterOnly, loopVars,
       fenceVars
<1>2. Requested(promptSeq, TRUE) = barrier
        \/ (barrier.state = "idle" /\ Requested(promptSeq, TRUE).state = "waiting")
  BY DEF Requested
<1>3. Requested(Candidate.seq, FALSE) = barrier
        \/ (barrier.state = "idle" /\ Requested(Candidate.seq, FALSE).state = "waiting")
  BY DEF Requested
<1>4. CASE (Drained \/ TakeEvent) /\ barrier' = Requested(promptSeq, TRUE)
  BY <1>2, <1>4
<1>5. CASE /\ Rest /\ pending # <<>> /\ ~Held /\ Fenced
           /\ barrier' = Requested(Candidate.seq, FALSE)
  BY <1>3, <1>5
<1> QED BY <1>1, <1>4, <1>5

(* What a barrier missed, only one that gives up adds to. *)
LEMMA MissedMoves == ArbiterNext => missed' = missed \/ BarrierGivesUp
BY DEF ArbiterNext, Loop, Others, PeerUpdates, PeerAnswers, PromptReturns, Deliver, Command, Report,
       Completes, BarrierReturns, TakeCommand, Drained, Sweep, SweepTakes, SweepEnds, Settled, Emit,
       Fail, Rest, TakeUpdate, TakePrompt, TakeEvent, TakeBarrier, Close, arbiterOnly, fenceVars

LEMMA LoopTypesStep ==
  ASSUME PeerTypes, LoopTypes, OutTypes, ArbiterNext PROVE LoopTypes'
<1> USE SequencesAre, AssumedConstants
<1>1. barrier' \in Barrier
  <2>1. promptSeq \in Sequences /\ barrier \in Barrier
    BY DEF PeerTypes, LoopTypes
  <2>2. pending # <<>> => Candidate.seq \in Sequences
    BY BestFacts DEF Observation
  <2>3. BarrierReturns \/ BarrierGivesUp \/ TakeBarrier => barrier' \in Barrier
    BY <2>1 DEF BarrierReturns, BarrierGivesUp, TakeBarrier, Barrier, Idle
  <2> QED BY <2>1, <2>2, <2>3, BarrierStep, RequestedType
<1>2. barrierCompleted' \in Sequences /\ barrierFence' \in BOOLEAN
  <2>1. CASE TakeBarrier
    BY <2>1 DEF TakeBarrier, LoopTypes, Barrier
  <2>2. CASE UNCHANGED <<barrierCompleted, barrierFence>>
    BY <2>2 DEF LoopTypes
  <2> QED BY <2>1, <2>2 DEF ArbiterNext, Loop, Others, PeerUpdates, PeerAnswers, PromptReturns,
       Deliver, Command, Report, Completes, BarrierReturns, BarrierGivesUp, TakeCommand, Drained, Sweep,
       SweepTakes, SweepEnds, Settled, Emit, Fail, Rest, TakeUpdate, TakePrompt, TakeEvent,
       Close, arbiterOnly, loopVars, fenceVars
<1>3. at' \in At
  <2>1. at \in At
    BY DEF LoopTypes
  <2> QED BY <2>1 DEF ArbiterNext, Loop, Others, PeerUpdates, PeerAnswers, PromptReturns,
       Deliver, Command, Report, Completes, BarrierReturns, BarrierGivesUp, TakeCommand, Drained, Sweep,
       SweepTakes, SweepEnds, Settled, Emit, Fail, Rest, TakeUpdate, TakePrompt, TakeEvent,
       TakeBarrier, Close, arbiterOnly, loopVars, At
<1>4. {completeSent', terminalAsked', terminalReady', updatesDrained', promptQueued',
       promptBarrierRequested'} \subseteq BOOLEAN
  <2> USE DEF LoopTypes, terminalVars, callVars, arbiterOnly, loopVars
  <2>1. CASE Running /\ Others
    BY <2>1 DEF Others, PeerUpdates, PeerAnswers, PromptReturns, Deliver, Command, Report,
         Completes, BarrierReturns, BarrierGivesUp
  <2>2. CASE Drained \/ TakeEvent
    BY <2>2 DEF Drained, TakeEvent, PromptBarrier, WantsPromptBarrier
  <2>3. CASE Loop \/ TakeUpdate \/ Close
    BY <2>2, <2>3 DEF Loop, TakeCommand, Sweep, SweepTakes, SweepEnds, Settled, Emit, Fail, Rest,
         TakeUpdate, TakePrompt, TakeBarrier, Close
  <2> QED BY <2>1, <2>3 DEF ArbiterNext
<1>5. lastRaw' \in Sequences /\ lastOrder' \in Nat
  <2>1. CASE Emit
    <3>1. Candidate.seq \in Sequences
      BY <2>1, EmitFacts DEF Observation
    <3> QED BY <2>1, <3>1, EmitFacts DEF LoopTypes
  <2>2. CASE UNCHANGED <<lastRaw, lastOrder>>
    BY <2>2 DEF LoopTypes
  <2> QED BY <2>1, <2>2 DEF ArbiterNext, Loop, Others, PeerUpdates, PeerAnswers, PromptReturns,
       Deliver, Command, Report, Completes, BarrierReturns, BarrierGivesUp, TakeCommand, Drained, Sweep,
       SweepTakes, SweepEnds, Settled, Fail, Rest, TakeUpdate, TakePrompt, TakeEvent,
       TakeBarrier, Close, arbiterOnly, loopVars, orderVars
<1>6. missed' \subseteq Sequences
  <2>1. BarrierGivesUp => missed' = missed \cup {delivery[i] : i \in {i \in 1..Len(delivery) :
                                                   delivery[i] <= barrier.target}}
    BY DEF BarrierGivesUp, Undelivered
  <2>2. \A i \in 1..Len(delivery) : delivery[i] \in Sequences
    BY EntryType DEF PeerTypes
  <2>3. missed' = missed \/ BarrierGivesUp
    BY MissedMoves
  <2> QED BY <2>1, <2>2, <2>3 DEF LoopTypes
<1> QED BY <1>1, <1>2, <1>3, <1>4, <1>5, <1>6 DEF LoopTypes

vars == <<session, avars>>
Typed == PeerTypes /\ CallTypes /\ LoopTypes /\ OutTypes /\ PeerInv

LEMMA TypedInitially == ArbiterInit => Typed
<1> SUFFICES ASSUME ArbiterInit PROVE Typed
  OBVIOUS
<1> USE SequencesAre, AssumedConstants
<1>1. PeerTypes
  <2>1. Buffer \in Nat
    BY DEF ArbiterInit, Session, Buffer
  <2> QED BY <2>1 DEF ArbiterInit, PeerTypes
<1>2. CallTypes
  BY DEF ArbiterInit, CallTypes
<1>3. LoopTypes
  BY DEF ArbiterInit, LoopTypes, Idle, Barrier, At
<1>4. OutTypes
  BY DEF ArbiterInit, OutTypes
<1>5. PeerInv
  BY DEF ArbiterInit, PeerInv, Numbered
<1> QED BY <1>1, <1>2, <1>3, <1>4, <1>5 DEF Typed

LEMMA Stutters ==
  UNCHANGED vars => UNCHANGED <<session, received, delivery, updates, promptState, promptAt,
    promptSeq, commands, call, response, events, covered, completeSent, barrier, at, pending,
    terminalAsked, terminalReady, updatesDrained, promptQueued, promptBarrierRequested,
    barrierCompleted, barrierFence, missed, lastRaw, lastOrder, out>>
BY DEF vars, avars, peerVars, callVars, terminalVars, fenceVars, orderVars

LEMMA TypedStep == Typed /\ [ArbiterNext]_vars => Typed'
<1> SUFFICES ASSUME Typed, [ArbiterNext]_vars PROVE Typed'
  OBVIOUS
<1>1. CASE ArbiterNext
  BY <1>1, PeerTypesStep, CallTypesStep, LoopTypesStep, OutTypesStep, PeerInvStep DEF Typed
<1>2. CASE UNCHANGED vars
  <2>1. Buffer' = Buffer /\ Sequenced' = Sequenced /\ Chatty' = Chatty
    BY <1>2, Stutters DEF Buffer, Sequenced, Chatty
  <2>2. PeerTypes' /\ CallTypes' /\ LoopTypes' /\ OutTypes'
    BY <1>2, <2>1, Stutters DEF Typed, PeerTypes, CallTypes, LoopTypes, OutTypes
  <2>3. PeerInv'
    BY <1>2, <2>1, Stutters DEF Typed, PeerInv, Numbered
  <2> QED BY <2>2, <2>3 DEF Typed
<1> QED BY <1>1, <1>2

-----------------------------------------------------------------------------
(***************************************************************************)
(* Marks and shapes.                                                       *)
(***************************************************************************)
LEMMA EntriesAre ==
  ASSUME Typed
  PROVE  /\ \A i \in 1..Len(pending) : pending[i] \in Observation
         /\ \A i \in 1..Len(out) : out[i] \in Emitted
         /\ \A i \in 1..Len(events) : events[i] \in Event
         /\ \A i \in 1..Len(commands) : commands[i] \in Calls
         /\ \A i \in 1..Len(updates) : updates[i] \in 1..(MaxReceived + 1)
         /\ \A i \in 1..Len(delivery) : delivery[i] \in 1..(MaxReceived + 1)
         /\ Len(pending) \in Nat /\ Len(out) \in Nat /\ Len(events) \in Nat
         /\ Len(updates) \in Nat /\ Len(delivery) \in Nat /\ Len(commands) \in Nat
<1>1. /\ pending \in Seq(Observation) /\ out \in Seq(Emitted) /\ events \in Seq(Event)
      /\ commands \in Seq(Calls) /\ updates \in Seq(1..(MaxReceived + 1))
      /\ delivery \in Seq(1..(MaxReceived + 1))
  BY DEF Typed, OutTypes, CallTypes, PeerTypes
<1>2. /\ \A i \in 1..Len(pending) : pending[i] \in Observation
      /\ \A i \in 1..Len(out) : out[i] \in Emitted
  BY <1>1
<1>3. /\ \A i \in 1..Len(events) : events[i] \in Event
      /\ \A i \in 1..Len(commands) : commands[i] \in Calls
  BY <1>1
<1>4. /\ \A i \in 1..Len(updates) : updates[i] \in 1..(MaxReceived + 1)
      /\ \A i \in 1..Len(delivery) : delivery[i] \in 1..(MaxReceived + 1)
  <2>1. ASSUME NEW i \in 1..Len(updates) PROVE updates[i] \in 1..(MaxReceived + 1)
    BY <1>1, EntryType
  <2>2. ASSUME NEW i \in 1..Len(delivery) PROVE delivery[i] \in 1..(MaxReceived + 1)
    BY <1>1, EntryType
  <2> QED BY <2>1, <2>2
<1>5. /\ Len(pending) \in Nat /\ Len(out) \in Nat /\ Len(events) \in Nat
      /\ Len(updates) \in Nat /\ Len(delivery) \in Nat /\ Len(commands) \in Nat
  BY <1>1
<1> QED BY <1>2, <1>3, <1>4, <1>5

LEMMA Naturals0 ==
  ASSUME Typed
  PROVE  /\ received \in Nat /\ promptAt \in Nat /\ promptSeq \in Nat /\ barrierCompleted \in Nat
         /\ lastRaw \in Nat /\ lastOrder \in Nat /\ barrier.seq \in Nat /\ barrier.target \in Nat
         /\ MaxReceived \in Nat /\ PerUpdate \in Nat
         /\ Sequenced \in BOOLEAN /\ Chatty \in BOOLEAN /\ Buffer \in Nat
         /\ \A c \in Calls : response[c] \in Nat
         /\ \A o \in Observation \cup Emitted : o.seq \in Nat /\ o.from \in Nat /\ o.part \in Nat
         /\ \A e \in Event : e.seq \in Nat
         /\ \A o \in Emitted : o.key \in Nat
<1> USE SequencesAre, AssumedConstants
<1>1. /\ received \in Nat /\ promptAt \in Nat /\ promptSeq \in Nat
      /\ \A c \in Calls : response[c] \in Nat
  BY DEF Typed, PeerTypes
<1>2. /\ barrierCompleted \in Nat /\ lastRaw \in Nat /\ lastOrder \in Nat
      /\ barrier.seq \in Nat /\ barrier.target \in Nat
  BY DEF Typed, LoopTypes, Barrier
<1>3. ASSUME NEW o \in Observation \cup Emitted
      PROVE  o.seq \in Nat /\ o.from \in Nat /\ o.part \in Nat
  BY DEF Observation, Emitted
<1>4. \A o \in Emitted : o.key \in Nat
  BY DEF Emitted
<1>5. \A e \in Event : e.seq \in Nat
  BY DEF Event
<1> QED BY <1>1, <1>2, <1>3, <1>4, <1>5, SessionIs DEF Typed

StillNumbered(s) == s <= received' /\ (~Sequenced => s = 0)

LEMMA PeerMoves ==
  ASSUME Typed, [ArbiterNext]_vars
  PROVE  /\ received \in Nat /\ received' \in Nat /\ received <= received'
         /\ Sequenced' = Sequenced /\ Chatty' = Chatty /\ Buffer' = Buffer
         /\ Prompted => Prompted' /\ promptSeq' = promptSeq /\ promptAt' = promptAt
         /\ promptState # "running" => promptState' # "running"
         /\ promptState # "running" => promptSeq' = promptSeq /\ promptAt' = promptAt
         /\ \A s \in Nat : Numbered(s) => StillNumbered(s)
<1>1. Sequenced' = Sequenced /\ Chatty' = Chatty /\ Buffer' = Buffer
  BY Stutters DEF ArbiterNext, Sequenced, Chatty, Buffer
<1>2. received \in Nat
  BY Naturals0
<1>3. /\ received' \in {received, received + 1}
      /\ promptState # "running" => promptSeq' = promptSeq /\ promptAt' = promptAt
      /\ promptState # "running" => promptState' # "running"
      /\ Prompted => promptState' = "taken"
  BY Stutters DEF ArbiterNext, Loop, Others, PeerUpdates, PeerAnswers, PromptReturns, Deliver, Command,
       Report, Completes, BarrierReturns, BarrierGivesUp, TakeCommand, Drained, Sweep, SweepTakes,
       SweepEnds, Settled, Emit, Fail, Rest, TakeUpdate, TakePrompt, TakeEvent, TakeBarrier, Close,
       peerVars, Prompted
<1>4. received' \in Nat /\ received <= received'
  BY <1>2, <1>3
<1>5. ASSUME NEW s \in Nat, Numbered(s) PROVE StillNumbered(s)
  BY <1>1, <1>2, <1>4, <1>5 DEF Numbered, StillNumbered
<1>6. Prompted => Prompted' /\ promptSeq' = promptSeq /\ promptAt' = promptAt
  BY <1>3 DEF Prompted
<1> QED BY <1>1, <1>2, <1>3, <1>4, <1>5, <1>6

Part(u, k) == [kind |-> "update", id |-> NoCall, from |-> u, part |-> k, seq |-> Stamp(u)]
Takes(u) ==
  /\ u \in 1..(MaxReceived + 1)
  /\ \/ delivery # <<>> /\ u = Head(delivery) /\ delivery' = Tail(delivery)
        /\ updates' = updates /\ updates = <<>>
     \/ updates # <<>> /\ u = Head(updates) /\ updates' = Tail(updates)
        /\ delivery' = delivery
  /\ Len(pending') = Len(pending) + PerUpdate
  /\ \A i \in 1..Len(pending) : pending'[i] = pending[i]
  /\ \A k \in 1..PerUpdate : pending'[Len(pending) + k] = Part(u, k)
Joins(o) ==
  /\ Len(pending') = Len(pending) + 1
  /\ \A i \in 1..Len(pending) : pending'[i] = pending[i]
  /\ pending'[Len(pending) + 1] = o

LEMMA TakesIs ==
  ASSUME Typed, SweepTakes \/ TakeUpdate
  PROVE  \E u \in 1..(MaxReceived + 1) : Takes(u)
<1>a. PeerTypes /\ CallTypes /\ LoopTypes /\ OutTypes
  BY DEF Typed
<1>1. PICK u \in {Head(Upcoming)} :
        TakesUpdate(u) /\ pending' = pending \o Translated(u) /\ Upcoming # <<>>
  BY <1>a, PendingGrows
<1>2. /\ u \in 1..(MaxReceived + 1)
      /\ \/ delivery # <<>> /\ u = Head(delivery) /\ delivery' = Tail(delivery)
            /\ updates' = updates /\ updates = <<>>
         \/ updates # <<>> /\ u = Head(updates) /\ updates' = Tail(updates)
            /\ delivery' = delivery
  BY <1>a, <1>1, Taking
<1>3. /\ Translated(u) \in Seq(Observation) /\ Len(Translated(u)) = PerUpdate
      /\ \A k \in 1..PerUpdate : Translated(u)[k] = Part(u, k)
  BY <1>a, <1>2, TranslatedType DEF Part
<1>4. /\ Len(pending') = Len(pending) + PerUpdate
      /\ \A i \in 1..Len(pending) : pending'[i] = pending[i]
      /\ \A k \in 1..PerUpdate : pending'[Len(pending) + k] = Part(u, k)
  <2>1. PICK t : t = Translated(u)
    OBVIOUS
  <2>2. /\ pending \o t \in Seq(Observation) /\ Len(pending \o t) = Len(pending) + Len(t)
        /\ \A i \in 1..Len(pending) : (pending \o t)[i] = pending[i]
        /\ \A i \in 1..Len(t) : (pending \o t)[Len(pending) + i] = t[i]
    BY <1>a, <1>3, <2>1, ConcatFacts DEF OutTypes
  <2>3. pending' = pending \o t
    BY <1>1, <2>1
  <2> QED BY <1>3, <2>1, <2>2, <2>3
<1>5. Takes(u)
  BY <1>2, <1>4 DEF Takes
<1> QED BY <1>2, <1>5

(* What an action does to the pending observations and to those that left. *)
LEMMA Actions ==
  ASSUME Typed, ArbiterNext
  PROVE  \/ UNCHANGED <<pending, out, lastRaw, lastOrder>> /\ ~Emit /\ ~Fail
         \/ /\ UNCHANGED <<out, lastRaw, lastOrder>> /\ (SweepTakes \/ TakeUpdate)
            /\ \E u \in 1..(MaxReceived + 1) : Takes(u)
         \/ /\ UNCHANGED <<out, lastRaw, lastOrder>> /\ TakeCommand
            /\ Head(commands) \in Calls /\ Joins(Steer(Head(commands), 0))
         \/ /\ UNCHANGED <<out, lastRaw, lastOrder>> /\ TakeEvent
            /\ Head(events).id \in Calls /\ Head(events).seq \in Sequences
            /\ Joins(Steer(Head(events).id, Head(events).seq))
         \/ /\ UNCHANGED <<out, lastRaw, lastOrder>> /\ Settled
            /\ Prompted /\ updatesDrained /\ ~promptQueued /\ Joins(Prompt)
         \/ Emit
         \/ Fail
<1> DEFINE Kept == UNCHANGED <<out, lastRaw, lastOrder>>
<1>a. PeerTypes /\ CallTypes /\ LoopTypes /\ OutTypes
  BY DEF Typed
<1>j. ASSUME NEW o \in Observation, pending' = Append(pending, o) PROVE Joins(o)
  BY <1>a, <1>j, AppendFacts DEF OutTypes, Joins
<1>1. CASE SweepTakes \/ TakeUpdate
  BY <1>1, <1>a, TakesIs, PendingGrows
<1>2. CASE TakeCommand
  <2>1. Kept /\ ~Emit /\ ~Fail
    BY <1>2, <1>a, PendingGrows DEF TakeCommand, Emit, Fail
  <2>2. CASE pending' = pending
    BY <2>1, <2>2
  <2>3. CASE pending' = Append(pending, Steer(Head(commands), 0)) /\ Head(commands) \in Calls
    <3>1. Joins(Steer(Head(commands), 0))
      BY <1>j, <2>3, SteerType, SequencesAre
    <3> QED BY <1>2, <2>1, <2>3, <3>1
  <2> QED BY <1>2, <1>a, <2>2, <2>3, PendingGrows
<1>3. CASE TakeEvent
  <2>1. Kept /\ ~Emit /\ ~Fail
    BY <1>3, <1>a, PendingGrows DEF TakeEvent, Emit, Fail
  <2>2. CASE pending' = pending
    BY <2>1, <2>2
  <2>3. CASE /\ pending' = Append(pending, Steer(Head(events).id, Head(events).seq))
             /\ Head(events).id \in Calls /\ Head(events).seq \in Sequences
    <3>1. Joins(Steer(Head(events).id, Head(events).seq))
      BY <1>j, <2>3, SteerType
    <3> QED BY <1>3, <2>1, <2>3, <3>1
  <2> QED BY <1>3, <1>a, <2>2, <2>3, PendingGrows
<1>4. CASE Settled
  <2>1. Kept /\ ~Emit /\ ~Fail
    BY <1>4, <1>a, PendingGrows DEF Settled, Emit, Fail
  <2>2. CASE pending' = pending
    BY <2>1, <2>2
  <2>3. CASE pending' # pending
    <3>1. pending' = Append(pending, Prompt) /\ Prompted /\ updatesDrained /\ ~promptQueued
      BY <1>4, <2>3 DEF Settled
    <3>2. Joins(Prompt)
      BY <1>a, <1>j, <3>1, PromptType
    <3> QED BY <1>4, <2>1, <3>1, <3>2
  <2> QED BY <2>2, <2>3
<1>5. CASE ~Emit /\ ~Fail /\ UNCHANGED <<pending, out, lastRaw, lastOrder>>
  BY <1>5
<1> QED BY <1>1, <1>2, <1>3, <1>4, <1>5, OutQuiet DEF ArbiterNext, Loop, Others

LEMMA OutMoves ==
  ASSUME Typed, ArbiterNext
  PROVE  (UNCHANGED <<out, lastRaw, lastOrder>> /\ ~Emit /\ ~Fail) \/ Emit \/ Fail
<1>1. SweepTakes \/ TakeUpdate \/ TakeCommand \/ TakeEvent \/ Settled =>
        UNCHANGED <<out, lastRaw, lastOrder>>
  BY PendingGrows DEF Typed
<1> QED BY <1>1, OutQuiet DEF ArbiterNext, Loop, Others

LEMMA MarksInitially == ArbiterInit => MarksInv /\ ShapeInv
<1> SUFFICES ASSUME ArbiterInit PROVE MarksInv /\ ShapeInv
  OBVIOUS
<1> QED BY SequencesAre DEF ArbiterInit, MarksInv, ShapeInv, Numbered, Idle

(* A new observation in pending is one of these. *)
LEMMA NewPending ==
  ASSUME Typed, ArbiterNext, Typed', NEW i \in 1..Len(pending')
  PROVE  \/ i \in 1..Len(pending) /\ pending'[i] = pending[i]
         \/ Emit /\ \E j \in 1..Len(pending) : pending'[i] = pending[j]
         \/ \E u \in 1..(MaxReceived + 1), k \in 1..PerUpdate : Takes(u) /\ pending'[i] = Part(u, k)
         \/ TakeCommand /\ Head(commands) \in Calls /\ pending'[i] = Steer(Head(commands), 0)
         \/ TakeEvent /\ Head(events).id \in Calls
            /\ pending'[i] = Steer(Head(events).id, Head(events).seq)
         \/ Settled /\ Prompted /\ pending'[i] = Prompt
<1>0. Len(pending) \in Nat /\ PerUpdate \in Nat /\ Len(pending') \in Nat
  BY EntriesAre, Naturals0
<1>1. CASE pending' = pending
  BY <1>1
<1>2. ASSUME NEW u \in 1..(MaxReceived + 1), Takes(u)
      PROVE  \/ i \in 1..Len(pending) /\ pending'[i] = pending[i]
             \/ \E k \in 1..PerUpdate : pending'[i] = Part(u, k)
  <2>1. CASE i <= Len(pending)
    BY <1>0, <1>2, <2>1 DEF Takes
  <2>2. CASE ~(i <= Len(pending))
    <3>1. i - Len(pending) \in 1..PerUpdate /\ i = Len(pending) + (i - Len(pending))
      BY <1>0, <1>2, <2>2 DEF Takes
    <3> QED BY <1>2, <3>1 DEF Takes
  <2> QED BY <2>1, <2>2
<1>3. ASSUME NEW o, Joins(o)
      PROVE  (i \in 1..Len(pending) /\ pending'[i] = pending[i]) \/ pending'[i] = o
  BY <1>0, <1>3 DEF Joins
<1>4. CASE Emit
  <2>1. /\ Len(pending') = Len(pending) - 1 /\ Best \in 1..Len(pending)
        /\ \A j \in 1..Len(pending') : pending'[j] = pending[IF j < Best THEN j ELSE j + 1]
    BY <1>4, EmitFacts DEF Typed
  <2>2. (IF i < Best THEN i ELSE i + 1) \in 1..Len(pending)
    BY <1>0, <2>1
  <2> QED BY <1>4, <2>1, <2>2
<1>5. CASE Fail
  <2>1. pending' = <<>>
    BY <1>5 DEF Fail
  <2> QED BY <2>1
<1> QED BY <1>1, <1>2, <1>3, <1>4, <1>5, Actions

LEMMA EventsMove ==
  ASSUME Typed, ArbiterNext, Typed', NEW i \in 1..Len(events')
  PROVE  \/ i \in 1..Len(events) /\ events'[i] = events[i]
         \/ TakeEvent /\ i + 1 \in 1..Len(events) /\ events'[i] = events[i + 1]
         \/ i = Len(events) + 1 /\ \E c \in Calls, s \in Sequences :
              Report(c, s) /\ events'[i] = [id |-> c, seq |-> s]
         \/ i = Len(events) + 1 /\ Completes /\ events'[i] = [id |-> NoCall, seq |-> 0]
<1>0. Len(events) \in Nat /\ Len(events') \in Nat /\ events \in Seq(Event)
  BY EntriesAre DEF Typed, CallTypes
<1>1. CASE TakeEvent
  <2>1. events # <<>> /\ events' = Tail(events)
    BY <1>1 DEF TakeEvent
  <2> QED BY <1>0, <1>1, <2>1, TailFacts
<1>2. ASSUME NEW c \in Calls, NEW s \in Sequences, Report(c, s)
      PROVE  \/ i \in 1..Len(events) /\ events'[i] = events[i]
             \/ i = Len(events) + 1 /\ Report(c, s) /\ events'[i] = [id |-> c, seq |-> s]
  <2>1. [id |-> c, seq |-> s] \in Event /\ events' = Append(events, [id |-> c, seq |-> s])
    BY <1>2 DEF Event, Report
  <2> QED BY <1>0, <1>2, <2>1, AppendFacts
<1>3. CASE Completes
  <2>1. [id |-> NoCall, seq |-> 0] \in Event /\ events' = Append(events, [id |-> NoCall, seq |-> 0])
    BY <1>3, SequencesAre DEF Event, Completes
  <2> QED BY <1>0, <1>3, <2>1, AppendFacts
<1>4. CASE events' = events
  BY <1>4
<1>5. TakeCommand \/ Fail \/ (\E c \in Calls : Command(c)) => events' = events
  BY DEF TakeCommand, Fail, Command
<1> QED BY <1>1, <1>2, <1>3, <1>4, <1>5, CallQuiet DEF ArbiterNext, Loop, Others

-----------------------------------------------------------------------------
(***************************************************************************)
(* The queues.                                                             *)
(***************************************************************************)
Passes == /\ delivery # <<>> /\ delivery' = Tail(delivery)
          /\ updates' = Append(updates, Head(delivery))
Shrinks ==
  \/ updates # <<>> /\ updates' = Tail(updates) /\ delivery' = delivery
  \/ delivery # <<>> /\ delivery' = Tail(delivery) /\ updates' = updates /\ updates = <<>>

LEMMA QueueMoves ==
  ASSUME Typed, [ArbiterNext]_vars
  PROVE  \/ UNCHANGED <<delivery, updates>>
         \/ /\ PeerUpdates /\ received' = received + 1 /\ updates' = updates
            /\ delivery' = Append(delivery, received + 1) /\ received + 1 \in 1..(MaxReceived + 1)
         \/ Deliver /\ Passes
         \/ (SweepTakes \/ TakeUpdate) /\ Shrinks
<1>1. CASE PeerUpdates
  BY <1>1, Naturals0 DEF PeerUpdates
<1>2. CASE Deliver
  BY <1>2 DEF Deliver, Passes
<1>3. CASE SweepTakes \/ TakeUpdate
  <2>1. PICK u \in {Head(Upcoming)} : TakesUpdate(u) /\ Upcoming # <<>>
    BY <1>3 DEF SweepTakes, TakeUpdate
  <2>2. Shrinks
    BY <2>1, Taking DEF Typed, Shrinks
  <2> QED BY <1>3, <2>2
<1>4. TakePrompt \/ PromptReturns \/ (\E c \in Calls : PeerAnswers(c)) => UNCHANGED <<delivery, updates>>
  BY DEF TakePrompt, PromptReturns, PeerAnswers, peerVars
<1> QED BY <1>1, <1>2, <1>3, <1>4, PeerQuiet, Stutters DEF ArbiterNext, Loop, Others

LEMMA QueuesInitially == ArbiterInit => QueuesInv
BY DEF ArbiterInit, QueuesInv, Increasing

LEMMA IncreasingAppend ==
  ASSUME NEW s \in Seq(Nat), NEW x \in Nat, Increasing(s), \A i \in 1..Len(s) : s[i] < x
  PROVE  Increasing(Append(s, x))
<1>1. /\ Len(Append(s, x)) = Len(s) + 1 /\ Append(s, x)[Len(s) + 1] = x
      /\ \A i \in 1..Len(s) : Append(s, x)[i] = s[i]
  BY AppendFacts
<1>2. ASSUME NEW i \in 1..(Len(s) + 1), NEW j \in 1..(Len(s) + 1), i < j
      PROVE  Append(s, x)[i] < Append(s, x)[j]
  BY <1>1, <1>2 DEF Increasing
<1> QED BY <1>1, <1>2 DEF Increasing

LEMMA IncreasingTail ==
  ASSUME NEW s \in Seq(Nat), s # <<>>, Increasing(s)
  PROVE  /\ Increasing(Tail(s)) /\ \A i \in 1..Len(Tail(s)) : Head(s) < Tail(s)[i]
         /\ \A i \in 1..Len(Tail(s)) : i + 1 \in 1..Len(s) /\ Tail(s)[i] = s[i + 1]
<1>1. /\ Len(Tail(s)) = Len(s) - 1 /\ Head(s) = s[1] /\ 1 \in 1..Len(s)
      /\ \A i \in 1..Len(Tail(s)) : Tail(s)[i] = s[i + 1]
  BY TailFacts
<1>2. \A i \in 1..(Len(s) - 1) : i + 1 \in 1..Len(s)
  OBVIOUS
<1>3. ASSUME NEW i \in 1..Len(Tail(s)), NEW j \in 1..Len(Tail(s)), i < j
      PROVE  Tail(s)[i] < Tail(s)[j]
  <2>1. i + 1 \in 1..Len(s) /\ j + 1 \in 1..Len(s) /\ i + 1 < j + 1
    BY <1>1, <1>2, <1>3
  <2> QED BY <1>1, <2>1 DEF Increasing
<1>4. ASSUME NEW i \in 1..Len(Tail(s)) PROVE Head(s) < Tail(s)[i]
  <2>1. i + 1 \in 1..Len(s) /\ 1 < i + 1
    BY <1>1, <1>2
  <2> QED BY <1>1, <2>1 DEF Increasing
<1> QED BY <1>1, <1>2, <1>3, <1>4 DEF Increasing

Marked(d, u, n) ==
  /\ Increasing(u) /\ Increasing(d)
  /\ \A i \in 1..Len(u), j \in 1..Len(d) : u[i] < d[j]
  /\ \A i \in 1..Len(u) : u[i] <= n
  /\ \A i \in 1..Len(d) : d[i] <= n

LEMMA MarkedAppend ==
  ASSUME NEW d \in Seq(Nat), NEW u \in Seq(Nat), NEW n \in Nat, Marked(d, u, n)
  PROVE  Marked(Append(d, n + 1), u, n + 1)
<1>1. /\ Len(Append(d, n + 1)) = Len(d) + 1 /\ Append(d, n + 1)[Len(d) + 1] = n + 1
      /\ \A i \in 1..Len(d) : Append(d, n + 1)[i] = d[i]
  BY AppendFacts
<1>2. /\ \A i \in 1..Len(d) : d[i] \in Nat
      /\ \A i \in 1..Len(u) : u[i] \in Nat
  BY EntryType
<1>3. Increasing(Append(d, n + 1))
  <2>1. ASSUME NEW i \in 1..Len(d) PROVE d[i] < n + 1
    BY <1>2 DEF Marked
  <2> QED BY <2>1, IncreasingAppend DEF Marked
<1>4. ASSUME NEW j \in 1..(Len(d) + 1)
      PROVE  /\ Append(d, n + 1)[j] <= n + 1
             /\ \A i \in 1..Len(u) : u[i] < Append(d, n + 1)[j]
  <2>1. CASE j = Len(d) + 1
    BY <1>1, <1>2, <2>1 DEF Marked
  <2>2. CASE j # Len(d) + 1
    <3>1. j \in 1..Len(d)
      BY <2>2
    <3> QED BY <1>1, <1>2, <3>1 DEF Marked
  <2> QED BY <2>1, <2>2
<1>5. \A i \in 1..Len(u) : u[i] <= n + 1
  BY <1>2 DEF Marked
<1> QED BY <1>1, <1>3, <1>4, <1>5 DEF Marked

LEMMA MarkedPasses ==
  ASSUME NEW d \in Seq(Nat), NEW u \in Seq(Nat), NEW n \in Nat, Marked(d, u, n), d # <<>>
  PROVE  Marked(Tail(d), Append(u, Head(d)), n)
<1>1. /\ Increasing(Tail(d)) /\ \A i \in 1..Len(Tail(d)) : Head(d) < Tail(d)[i]
      /\ \A i \in 1..Len(Tail(d)) : i + 1 \in 1..Len(d) /\ Tail(d)[i] = d[i + 1]
  BY IncreasingTail DEF Marked
<1>2. Head(d) = d[1] /\ 1 \in 1..Len(d) /\ d[1] \in Nat
  BY TailFacts
<1>3. /\ Len(Append(u, d[1])) = Len(u) + 1 /\ Append(u, d[1])[Len(u) + 1] = d[1]
      /\ \A i \in 1..Len(u) : Append(u, d[1])[i] = u[i]
  BY <1>2, AppendFacts
<1>4. Increasing(Append(u, d[1]))
  BY <1>2, IncreasingAppend DEF Marked
<1>5. ASSUME NEW j \in 1..Len(Tail(d)) PROVE Tail(d)[j] <= n
  BY <1>1 DEF Marked
<1>6. ASSUME NEW i \in 1..(Len(u) + 1)
      PROVE  /\ Append(u, d[1])[i] <= n
             /\ \A j \in 1..Len(Tail(d)) : Append(u, d[1])[i] < Tail(d)[j]
  <2>1. CASE i = Len(u) + 1
    BY <1>1, <1>2, <1>3, <2>1 DEF Marked
  <2>2. CASE i # Len(u) + 1
    <3>1. i \in 1..Len(u)
      BY <2>2
    <3> QED BY <1>1, <1>3, <3>1 DEF Marked
  <2> QED BY <2>1, <2>2
<1> QED BY <1>1, <1>2, <1>3, <1>4, <1>5, <1>6 DEF Marked

LEMMA MarkedTail ==
  ASSUME NEW d \in Seq(Nat), NEW u \in Seq(Nat), NEW n \in Nat, Marked(d, u, n)
  PROVE  /\ d # <<>> => Marked(Tail(d), u, n)
         /\ u # <<>> => Marked(d, Tail(u), n)
<1>1. ASSUME d # <<>> PROVE Marked(Tail(d), u, n)
  <2>1. /\ Increasing(Tail(d))
        /\ \A i \in 1..Len(Tail(d)) : i + 1 \in 1..Len(d) /\ Tail(d)[i] = d[i + 1]
    BY <1>1, IncreasingTail DEF Marked
  <2> QED BY <2>1 DEF Marked
<1>2. ASSUME u # <<>> PROVE Marked(d, Tail(u), n)
  <2>1. /\ Increasing(Tail(u))
        /\ \A i \in 1..Len(Tail(u)) : i + 1 \in 1..Len(u) /\ Tail(u)[i] = u[i + 1]
    BY <1>2, IncreasingTail DEF Marked
  <2> QED BY <2>1 DEF Marked
<1> QED BY <1>1, <1>2

LEMMA QueuesAreMarked == QueuesInv <=> Marked(delivery, updates, received)
BY DEF QueuesInv, Marked

LEMMA WiderSeq == ASSUME NEW S, NEW T, S \subseteq T, NEW s \in Seq(S) PROVE s \in Seq(T)
OBVIOUS

LEMMA NatSeq == ASSUME NEW s \in Seq(1..(MaxReceived + 1)) PROVE s \in Seq(Nat)
<1>1. 1..(MaxReceived + 1) \subseteq Nat
  BY AssumedConstants
<1> QED BY <1>1, WiderSeq

LEMMA QueuesStep ==
  ASSUME Typed, Typed', QueuesInv, [ArbiterNext]_vars
  PROVE  QueuesInv'
<1>0. /\ delivery \in Seq(Nat) /\ updates \in Seq(Nat) /\ received \in Nat
      /\ received' \in Nat /\ received <= received' /\ Marked(delivery, updates, received)
  BY PeerMoves, NatSeq, QueuesAreMarked DEF Typed, PeerTypes
<1>e. /\ \A i \in 1..Len(updates) : updates[i] \in Nat
      /\ \A i \in 1..Len(delivery) : delivery[i] \in Nat
  BY <1>0, EntryType
<1>m. ASSUME NEW d \in Seq(Nat), NEW u \in Seq(Nat), Marked(d, u, received)
      PROVE  Marked(d, u, received')
  <2>1. /\ \A i \in 1..Len(u) : u[i] \in Nat
        /\ \A i \in 1..Len(d) : d[i] \in Nat
    BY EntryType
  <2>2. \A i \in 1..Len(u) : u[i] <= received'
    BY <1>0, <1>m, <2>1 DEF Marked
  <2>3. \A i \in 1..Len(d) : d[i] <= received'
    BY <1>0, <1>m, <2>1 DEF Marked
  <2> QED BY <1>m, <2>2, <2>3 DEF Marked
<1>d. delivery' \in Seq(Nat) /\ updates' \in Seq(Nat)
  BY NatSeq DEF Typed, PeerTypes
<1>q. Marked(delivery', updates', received') => QueuesInv'
  BY QueuesAreMarked' DEF QueuesInv, Marked, Increasing
<1>1. CASE UNCHANGED <<delivery, updates>>
  BY <1>0, <1>1, <1>m, <1>q
<1>2. CASE /\ received' = received + 1 /\ updates' = updates
           /\ delivery' = Append(delivery, received + 1)
  BY <1>0, <1>2, <1>q, MarkedAppend
<1>3. CASE Passes
  BY <1>0, <1>3, <1>d, <1>m, <1>q, MarkedPasses DEF Passes
<1>4. CASE Shrinks
  BY <1>0, <1>4, <1>d, <1>m, <1>q, MarkedTail DEF Shrinks
<1> QED BY <1>1, <1>2, <1>3, <1>4, QueueMoves

LEMMA QueueEntries ==
  ASSUME Typed, Typed', [ArbiterNext]_vars
  PROVE  /\ \A i \in 1..Len(delivery') :
              \/ \E j \in 1..Len(delivery) : delivery'[i] = delivery[j]
              \/ PeerUpdates /\ delivery'[i] = received + 1
         /\ \A i \in 1..Len(updates') :
              \/ \E j \in 1..Len(updates) : updates'[i] = updates[j]
              \/ Deliver /\ \E j \in 1..Len(delivery) : updates'[i] = delivery[j]
<1>0. /\ delivery \in Seq(Nat) /\ updates \in Seq(Nat) /\ received \in Nat
  BY NatSeq, Naturals0 DEF Typed, PeerTypes
<1>1. CASE UNCHANGED <<delivery, updates>>
  BY <1>1
<1>2. CASE PeerUpdates /\ updates' = updates /\ delivery' = Append(delivery, received + 1)
  <2>1. /\ Len(delivery') = Len(delivery) + 1 /\ delivery'[Len(delivery) + 1] = received + 1
        /\ \A i \in 1..Len(delivery) : delivery'[i] = delivery[i]
    BY <1>0, <1>2, AppendFacts
  <2>2. \A i \in 1..Len(delivery') : i \in 1..Len(delivery) \/ i = Len(delivery) + 1
    BY <1>0, <2>1
  <2> QED BY <1>2, <2>1, <2>2
<1>t. ASSUME NEW s \in Seq(Nat), s # <<>>, NEW i \in 1..Len(Tail(s))
      PROVE  \E j \in 1..Len(s) : Tail(s)[i] = s[j]
  <2>1. i + 1 \in 1..Len(s) /\ Tail(s)[i] = s[i + 1]
    BY <1>t, TailFacts
  <2> QED BY <2>1
<1>3. CASE Deliver /\ Passes
  <2>1. Head(delivery) = delivery[1] /\ 1 \in 1..Len(delivery) /\ delivery[1] \in Nat
    BY <1>0, <1>3, TailFacts DEF Passes
  <2>2. /\ Len(updates') = Len(updates) + 1 /\ updates'[Len(updates) + 1] = delivery[1]
        /\ \A i \in 1..Len(updates) : updates'[i] = updates[i]
    BY <1>0, <1>3, <2>1, AppendFacts DEF Passes
  <2>3. \A i \in 1..Len(updates') : i \in 1..Len(updates) \/ i = Len(updates) + 1
    BY <1>0, <2>2
  <2>4. \A i \in 1..Len(updates') :
          \/ \E j \in 1..Len(updates) : updates'[i] = updates[j]
          \/ Deliver /\ \E j \in 1..Len(delivery) : updates'[i] = delivery[j]
    BY <1>3, <2>1, <2>2, <2>3
  <2>5. \A i \in 1..Len(delivery') : \E j \in 1..Len(delivery) : delivery'[i] = delivery[j]
    BY <1>0, <1>3, <1>t DEF Passes
  <2> QED BY <2>4, <2>5
<1>4. CASE updates # <<>> /\ updates' = Tail(updates) /\ delivery' = delivery
  BY <1>0, <1>4, <1>t
<1>5. CASE delivery # <<>> /\ delivery' = Tail(delivery) /\ updates' = updates
  BY <1>0, <1>5, <1>t
<1> QED BY <1>1, <1>2, <1>3, <1>4, <1>5, QueueMoves DEF Shrinks

LEMMA TakenIsNext ==
  ASSUME Typed, QueuesInv, NEW u \in 1..(MaxReceived + 1), Takes(u)
  PROVE  /\ u <= received
         /\ \A i \in 1..Len(updates') : u < updates'[i]
         /\ \A i \in 1..Len(delivery') : u < delivery'[i]
         /\ \/ \E i \in 1..Len(updates) : u = updates[i]
            \/ \E i \in 1..Len(delivery) : u = delivery[i]
<1>0. delivery \in Seq(Nat) /\ updates \in Seq(Nat)
  BY NatSeq DEF Typed, PeerTypes
<1>1. CASE /\ delivery # <<>> /\ u = Head(delivery) /\ delivery' = Tail(delivery)
           /\ updates' = updates /\ updates = <<>>
  <2>1. Head(delivery) = delivery[1] /\ 1 \in 1..Len(delivery)
    BY <1>0, <1>1, TailFacts
  <2>2. \A i \in 1..Len(delivery') : u < delivery'[i]
    BY <1>0, <1>1, IncreasingTail DEF QueuesInv
  <2> QED BY <1>1, <2>1, <2>2 DEF QueuesInv
<1>2. CASE updates # <<>> /\ u = Head(updates) /\ updates' = Tail(updates) /\ delivery' = delivery
  <2>1. Head(updates) = updates[1] /\ 1 \in 1..Len(updates)
    BY <1>0, <1>2, TailFacts
  <2>2. \A i \in 1..Len(updates') : u < updates'[i]
    BY <1>0, <1>2, IncreasingTail DEF QueuesInv
  <2> QED BY <1>2, <2>1, <2>2 DEF QueuesInv
<1> QED BY <1>1, <1>2 DEF Takes

LEMMA MarksStep ==
  ASSUME Typed, Typed', QueuesInv, MarksInv, ArbiterNext
  PROVE  MarksInv'
<1>0. \A s \in Nat : Numbered(s) => StillNumbered(s)
  BY PeerMoves
<1>1. Numbered(0) /\ \A c \in Calls : Numbered(Stamp(response[c]))
  BY Naturals0 DEF Numbered, Typed, PeerInv, Stamp
<1>2. Numbered(promptSeq) /\ promptSeq \in Nat /\ received \in Nat /\ received' \in Nat
      /\ received <= received'
  BY PeerMoves, Naturals0 DEF Typed, PeerInv
<1>3. \A i \in 1..Len(events) : Numbered(events[i].seq) /\ events[i].seq \in Nat
  BY EntriesAre, Naturals0 DEF MarksInv
<1>4. \A i \in 1..Len(pending) : Numbered(pending[i].seq) /\ pending[i].seq \in Nat
  BY EntriesAre, Naturals0 DEF MarksInv
<1>z. 0 \in Nat /\ StillNumbered(0)
  BY <1>0, <1>1
<1>5. ASSUME NEW i \in 1..Len(events') PROVE StillNumbered(events'[i].seq)
  <2>1. CASE i \in 1..Len(events) /\ events'[i] = events[i]
    BY <1>0, <1>3, <2>1
  <2>2. CASE i + 1 \in 1..Len(events) /\ events'[i] = events[i + 1]
    BY <1>0, <1>3, <2>2
  <2>3. ASSUME NEW c \in Calls, NEW s \in Sequences, Report(c, s),
               events'[i] = [id |-> c, seq |-> s]
        PROVE  StillNumbered(events'[i].seq)
    <3>1. Numbered(s) /\ s \in Nat
      BY <1>1, <2>3, SequencesAre DEF Report
    <3>2. events'[i].seq = s
      BY <2>3
    <3> QED BY <1>0, <3>1, <3>2
  <2>4. CASE events'[i] = [id |-> NoCall, seq |-> 0]
    BY <1>z, <2>4
  <2> QED BY <2>1, <2>2, <2>3, <2>4, EventsMove
<1>6. ASSUME NEW i \in 1..Len(pending') PROVE StillNumbered(pending'[i].seq)
  <2>1. CASE \E j \in 1..Len(pending) : pending'[i] = pending[j]
    BY <1>0, <1>4, <2>1
  <2>2. ASSUME NEW u \in 1..(MaxReceived + 1), NEW k \in 1..PerUpdate, Takes(u),
               pending'[i] = Part(u, k)
        PROVE  StillNumbered(pending'[i].seq)
    <3>1. u <= received /\ u \in Nat
      BY <2>2, TakenIsNext
    <3>2. Numbered(Stamp(u)) /\ Stamp(u) \in Nat
      BY <1>2, <3>1 DEF Numbered, Stamp
    <3>3. pending'[i].seq = Stamp(u)
      BY <2>2 DEF Part
    <3> QED BY <1>0, <3>2, <3>3
  <2>3. CASE pending'[i] = Steer(Head(commands), 0)
    <3>1. pending'[i].seq = 0
      BY <2>3 DEF Steer
    <3> QED BY <1>z, <3>1
  <2>4. CASE TakeEvent /\ pending'[i] = Steer(Head(events).id, Head(events).seq)
    <3>1. Head(events) = events[1] /\ 1 \in 1..Len(events)
      BY <2>4, TailFacts DEF TakeEvent, Typed, CallTypes
    <3>2. pending'[i].seq = events[1].seq
      BY <2>4, <3>1 DEF Steer
    <3> QED BY <1>0, <1>3, <3>1, <3>2
  <2>5. CASE pending'[i] = Prompt
    <3>1. pending'[i].seq = promptSeq
      BY <2>5 DEF Prompt
    <3> QED BY <1>0, <1>2, <3>1
  <2> QED BY <2>1, <2>2, <2>3, <2>4, <2>5, NewPending
<1>7. StillNumbered(lastRaw')
  <2>1. CASE Emit
    <3>1. Numbered(Candidate.seq) /\ Candidate.seq \in Nat
      BY <1>4, <2>1, EmitFacts DEF Typed
    <3>2. lastRaw' = lastRaw \/ lastRaw' = Candidate.seq
      BY <2>1, EmitFacts DEF Typed
    <3>3. Numbered(lastRaw) /\ lastRaw \in Nat
      BY Naturals0 DEF MarksInv
    <3> QED BY <1>0, <3>1, <3>2, <3>3
  <2>2. CASE lastRaw' = lastRaw
    BY <1>0, <2>2, Naturals0 DEF MarksInv
  <2>3. Fail => lastRaw' = lastRaw
    BY DEF Fail
  <2> QED BY <2>1, <2>2, <2>3, OutMoves
<1>b. /\ Numbered(barrier.seq) /\ barrier.seq \in Nat /\ barrier.target \in Nat
      /\ barrier.seq <= barrier.target /\ barrier.target <= received
      /\ Numbered(barrierCompleted) /\ barrierCompleted \in Nat
  BY Naturals0 DEF MarksInv
<1>8. StillNumbered(barrierCompleted')
  <2>1. CASE TakeBarrier
    BY <1>0, <1>b, <2>1 DEF TakeBarrier
  <2>2. CASE barrierCompleted' = barrierCompleted
    BY <1>0, <1>b, <2>2
  <2> QED BY <2>1, <2>2 DEF ArbiterNext, Loop, Others, PeerUpdates, PeerAnswers, PromptReturns,
       Deliver, Command, Report, Completes, BarrierReturns, BarrierGivesUp, TakeCommand, Drained, Sweep,
       SweepTakes, SweepEnds, Settled, Emit, Fail, Rest, TakeUpdate, TakePrompt, TakeEvent,
       Close, arbiterOnly, loopVars, fenceVars
<1>9. StillNumbered(barrier'.seq) /\ barrier'.seq <= barrier'.target /\ barrier'.target <= received'
  <2>1. ASSUME NEW s \in Nat, Numbered(s), NEW full \in BOOLEAN, barrier' = Requested(s, full),
               barrier' # barrier
        PROVE  barrier'.seq = s /\ barrier'.seq <= barrier'.target /\ barrier'.target <= received
    BY <1>2, <2>1 DEF Requested, Numbered
  <2>2. pending # <<>> => Candidate.seq \in Nat /\ Numbered(Candidate.seq)
    BY <1>4, BestFacts DEF Typed
  <2>3. CASE TakeBarrier
    BY <1>z, <2>3, <1>2 DEF TakeBarrier, Idle
  <2>4. CASE BarrierReturns \/ BarrierGivesUp
    <3>1. barrier'.seq = barrier.seq /\ barrier'.target = barrier.target
      BY <2>4 DEF BarrierReturns, BarrierGivesUp, Typed, LoopTypes, Barrier
    <3> QED BY <1>0, <1>2, <1>b, <3>1
  <2>5. CASE barrier' = barrier
    BY <1>0, <1>2, <1>b, <2>5
  <2>6. CASE barrier' # barrier /\ barrier' = Requested(promptSeq, TRUE)
    <3>1. barrier'.seq = promptSeq /\ barrier'.seq <= barrier'.target /\ barrier'.target <= received
      BY <1>2, <2>1, <2>6
    <3>2. barrier'.target \in Nat
      BY DEF Typed, LoopTypes, Barrier, Sequences
    <3> QED BY <1>0, <1>2, <3>1, <3>2
  <2>7. CASE barrier' # barrier /\ pending # <<>> /\ barrier' = Requested(Candidate.seq, FALSE)
    <3>1. barrier'.seq = Candidate.seq /\ barrier'.seq <= barrier'.target /\ barrier'.target <= received
      BY <2>1, <2>2, <2>7
    <3>2. barrier'.target \in Nat
      BY DEF Typed, LoopTypes, Barrier, Sequences
    <3>3. StillNumbered(barrier'.seq)
      BY <1>0, <2>2, <2>7, <3>1
    <3> QED BY <1>2, <3>1, <3>2, <3>3
  <2> QED BY <2>3, <2>4, <2>5, <2>6, <2>7, BarrierStep DEF Typed
<1>s. Sequenced' = Sequenced
  BY PeerMoves
<1> QED BY <1>5, <1>6, <1>7, <1>8, <1>9, <1>s DEF MarksInv, Numbered, StillNumbered

LEMMA Positions ==
  ASSUME NEW n \in Nat, NEW m \in Nat, NEW k \in Nat, NEW i \in 1..(n + m + k + 1)
  PROVE  \/ i \in 1..n
         \/ \E j \in 1..m : i = n + j
         \/ \E j \in 1..k : i = n + m + j
         \/ i = n + m + k + 1
<1>1. CASE i > n /\ i <= n + m
  <2>1. i - n \in 1..m /\ i = n + (i - n)
    BY <1>1
  <2> QED BY <2>1
<1>2. CASE i > n + m /\ i # n + m + k + 1
  <2>1. i - (n + m) \in 1..k /\ i = n + m + (i - (n + m))
    BY <1>2
  <2> QED BY <2>1
<1> QED BY <1>1, <1>2

StillShaped(o) ==
  /\ o.kind = "update" => o.id = NoCall /\ o.from >= 1 /\ o.part >= 1 /\ o.seq = Stamp(o.from)
  /\ o.kind = "steer" <=> o.id # NoCall
  /\ o.kind = "prompt" => Prompted' /\ o.seq = promptSeq'

(* The observations an action makes. *)
LEMMA NewShapes ==
  /\ \A u, k : Part(u, k).kind = "update" /\ Part(u, k).id = NoCall /\ Part(u, k).from = u
               /\ Part(u, k).part = k /\ Part(u, k).seq = Stamp(u)
  /\ \A c, s : Steer(c, s).kind = "steer" /\ Steer(c, s).id = c /\ Steer(c, s).seq = s
               /\ Steer(c, s).from = 0
  /\ Prompt.kind = "prompt" /\ Prompt.id = NoCall /\ Prompt.seq = promptSeq
     /\ Prompt.from = promptAt
BY DEF Part, Steer, Prompt

LEMMA ShapeStep ==
  ASSUME Typed, Typed', ShapeInv, ArbiterNext
  PROVE  ShapeInv'
<1>0. /\ Prompted => Prompted' /\ promptSeq' = promptSeq
      /\ Sequenced' = Sequenced
  BY PeerMoves
<1>1. ASSUME NEW o, Shaped(o) PROVE StillShaped(o)
  BY <1>0, <1>1 DEF Shaped, StillShaped
<1>2. \A i \in 1..Len(pending) : Shaped(pending[i])
  BY DEF ShapeInv
<1>3. ASSUME NEW i \in 1..Len(pending') PROVE StillShaped(pending'[i])
  <2>1. CASE \E j \in 1..Len(pending) : pending'[i] = pending[j]
    BY <1>1, <1>2, <2>1
  <2>2. ASSUME NEW u \in 1..(MaxReceived + 1), NEW k \in 1..PerUpdate, pending'[i] = Part(u, k)
        PROVE  StillShaped(pending'[i])
    BY <2>2, NewShapes, AssumedConstants DEF StillShaped
  <2>3. ASSUME NEW c \in Calls, NEW s, pending'[i] = Steer(c, s) PROVE StillShaped(pending'[i])
    BY <2>3, NewShapes, AssumedConstants DEF StillShaped
  <2>4. CASE Prompted /\ pending'[i] = Prompt
    BY <1>0, <2>4, NewShapes DEF StillShaped
  <2> QED BY <2>1, <2>2, <2>3, <2>4, NewPending
<1>4. ASSUME NEW i \in 1..Len(out') PROVE out'[i].kind = "steer" <=> out'[i].id # NoCall
  <2>0. Len(out) \in Nat
    BY EntriesAre
  <2>1. CASE i \in 1..Len(out) /\ out'[i] = out[i]
    BY <2>1 DEF ShapeInv
  <2>2. CASE Emit
    <3>1. /\ Len(out') = Len(out) + 1 /\ \A j \in 1..Len(out) : out'[j] = out[j]
          /\ \E k \in Nat : out' = Append(out, Keyed(Candidate, k)) /\ Keyed(Candidate, k) \in Emitted
          /\ Best \in 1..Len(pending) /\ Candidate = pending[Best] /\ Candidate \in Observation
      BY <2>2, EmitFacts DEF Typed
    <3>2. CASE i = Len(out) + 1
      <4>1. \E k \in Nat : out'[i] = Keyed(Candidate, k)
        BY <3>1, <3>2, AppendFacts DEF Typed, OutTypes
      <4>2. out'[i].kind = Candidate.kind /\ out'[i].id = Candidate.id
        BY <3>1, <4>1, KeyedType
      <4> QED BY <1>2, <3>1, <4>2 DEF Shaped
    <3> QED BY <2>0, <2>1, <3>1, <3>2
  <2>3. CASE Fail
    <3>1. PICK a, b, p, w :
            /\ a \in Seq(Emitted) /\ b \in Seq(Emitted) /\ p \in Emitted
            /\ out' = ((out \o a) \o b) \o <<p>>
            /\ p.kind = "prompt" /\ p.id = NoCall
            /\ Unresolved(a) /\ Waiting(b, w)
      BY <2>3, FailFacts DEF Typed
    <3>2. /\ Len(out') = Len(out) + Len(a) + Len(b) + 1
          /\ \A j \in 1..Len(out) : out'[j] = out[j]
          /\ \A j \in 1..Len(a) : out'[Len(out) + j] = a[j]
          /\ \A j \in 1..Len(b) : out'[Len(out) + Len(a) + j] = b[j]
          /\ out'[Len(out')] = p
      BY <3>1, FailEntries DEF Typed
    <3>3. Len(a) \in Nat /\ Len(b) \in Nat
      BY <3>1
    <3>4. ASSUME NEW j \in 1..Len(a) PROVE a[j].kind = "steer" /\ a[j].id # NoCall
      BY <3>1, AssumedConstants DEF Unresolved, Steers
    <3>5. ASSUME NEW j \in 1..Len(b) PROVE b[j].kind = "steer" /\ b[j].id # NoCall
      <4>1. w[j] \in 1..Len(pending) /\ pending[w[j]].kind = "steer"
        <5>1. w[j] \in Answers
          BY <3>1 DEF Waiting
        <5> QED BY <5>1 DEF Answers
      <4> QED BY <3>1, <1>2, <4>1 DEF Waiting, Shaped
    <3>6. \/ i \in 1..Len(out)
          \/ \E j \in 1..Len(a) : i = Len(out) + j
          \/ \E j \in 1..Len(b) : i = Len(out) + Len(a) + j
          \/ i = Len(out')
      <4>1. i \in 1..(Len(out) + Len(a) + Len(b) + 1)
        BY <3>2
      <4> QED BY <2>0, <3>2, <3>3, <4>1, Positions
    <3>7. CASE \E j \in 1..Len(a) : i = Len(out) + j
      BY <3>2, <3>4, <3>7
    <3>8. CASE \E j \in 1..Len(b) : i = Len(out) + Len(a) + j
      BY <3>2, <3>5, <3>8
    <3>9. CASE i = Len(out')
      BY <3>1, <3>2, <3>9
    <3> QED BY <2>1, <3>2, <3>6, <3>7, <3>8, <3>9
  <2>4. CASE out' = out
    BY <2>1, <2>4
  <2> QED BY <2>2, <2>3, <2>4, OutMoves
<1>5. \A n : Stamp(n)' = Stamp(n)
  BY <1>0 DEF Stamp
<1> QED BY <1>3, <1>4, <1>5 DEF ShapeInv, Shaped, StillShaped

-----------------------------------------------------------------------------
(***************************************************************************)
(* The order of what leaves.                                               *)
(***************************************************************************)
(* One more observation, at the mark or above what has left. *)
LEMMA KeysStep ==
  ASSUME Typed, Typed', KeysInv, ArbiterNext
  PROVE  KeysInv'
<1>0. SUFFICES ASSUME at' # "failed" PROVE KeysInv'
  BY DEF KeysInv
<1>1. at # "failed" /\ ~Fail
  BY <1>0 DEF ArbiterNext, Loop, Running, TakeCommand, Drained, Sweep, SweepTakes, Sweeping, SweepEnds,
       Settled, Emit, Fail, Rest, TakePrompt, TakeEvent, TakeBarrier, TakeUpdate, Close
<1>n. /\ lastRaw \in Nat /\ lastOrder \in Nat /\ Len(out) \in Nat
      /\ \A i \in 1..Len(out) : out[i].seq \in Nat /\ out[i].key \in Nat
  BY EntriesAre, Naturals0
<1>2. CASE UNCHANGED <<out, lastRaw, lastOrder>>
  BY <1>0, <1>1, <1>2 DEF KeysInv, KeysIncrease, RawInOrder
<1>3. CASE Emit
  <2>1. /\ Len(out') = Len(out) + 1 /\ \A i \in 1..Len(out) : out'[i] = out[i]
        /\ Candidate \in Observation
        /\ lastRaw' = IF Candidate.seq # 0 THEN Candidate.seq ELSE lastRaw
    BY <1>3, EmitFacts DEF Typed
  <2>2. PICK k \in Nat :
          /\ k = IF Candidate.seq # 0 THEN Candidate.seq ELSE LocalKey
          /\ out' = Append(out, Keyed(Candidate, k)) /\ Keyed(Candidate, k) \in Emitted
          /\ lastOrder' = IF k > lastOrder THEN k ELSE lastOrder
    BY <1>3, EmitFacts DEF Typed
  <2>3. out'[Len(out) + 1].seq = Candidate.seq /\ out'[Len(out) + 1].key = k
    BY <2>1, <2>2, AppendFacts, KeyedType DEF Typed, OutTypes
  <2>4. Candidate.seq \in Nat /\ (Candidate.seq # 0 => Candidate.seq >= lastRaw)
    <3>1. ~Regresses /\ pending # <<>>
      BY <1>3 DEF Emit, Emittable
    <3>2. Candidate.seq \in Nat
      BY <2>1, Naturals0
    <3> QED BY <1>n, <3>1, <3>2 DEF Regresses
  <2>5. Candidate.seq = 0 => k > lastOrder
    BY <1>n, <2>2 DEF LocalKey
  <2>6. ASSUME NEW i \in 1..Len(out') PROVE i \in 1..Len(out) \/ i = Len(out) + 1
    BY <1>n, <2>1
  <2>7. ASSUME NEW i \in 1..Len(out')
        PROVE  out'[i].key <= lastOrder' /\ out'[i].seq <= lastRaw'
    <3>1. CASE i \in 1..Len(out)
      BY <1>1, <1>n, <2>1, <2>2, <2>4, <3>1 DEF KeysInv
    <3>2. CASE i = Len(out) + 1
      BY <1>n, <2>1, <2>2, <2>3, <2>4, <3>2
    <3> QED BY <2>6, <3>1, <3>2
  <2>8. ASSUME NEW i \in 1..Len(out'), NEW j \in 1..Len(out'), i < j
        PROVE  /\ out'[i].seq # 0 /\ out'[j].seq # 0 => out'[i].seq <= out'[j].seq
               /\ out'[j].seq = 0 => out'[i].key < out'[j].key
    <3>1. i \in 1..Len(out)
      BY <1>n, <2>1, <2>8
    <3>2. CASE j \in 1..Len(out)
      BY <1>1, <2>1, <2>8, <3>1, <3>2 DEF KeysInv, KeysIncrease, RawInOrder
    <3>3. CASE j = Len(out) + 1
      <4>1. out[i].seq <= lastRaw /\ out[i].key <= lastOrder
        BY <1>1, <3>1 DEF KeysInv
      <4> QED BY <1>n, <2>1, <2>3, <2>4, <2>5, <3>1, <3>3, <4>1
    <3> QED BY <2>6, <3>2, <3>3
  <2> QED BY <2>7, <2>8 DEF KeysInv, KeysIncrease, RawInOrder
<1> QED BY <1>1, <1>2, <1>3, OutMoves

LEMMA KeysInitially == ArbiterInit => KeysInv
BY DEF ArbiterInit, KeysInv, KeysIncrease, RawInOrder

-----------------------------------------------------------------------------
(***************************************************************************)
(* The line of the updates.                                                *)
(***************************************************************************)
(* What joins those that left. *)
LEMMA NewOut ==
  ASSUME Typed, ArbiterNext, Typed'
  PROVE  /\ Len(out) <= Len(out') /\ \A i \in 1..Len(out) : out'[i] = out[i]
         /\ \A i \in 1..Len(out') :
              \/ i \in 1..Len(out) /\ out'[i] = out[i]
              \/ /\ Emit /\ i = Len(out) + 1
                 /\ out'[i].kind = Candidate.kind /\ out'[i].id = Candidate.id
                 /\ out'[i].from = Candidate.from /\ out'[i].part = Candidate.part
                 /\ out'[i].seq = Candidate.seq
              \/ /\ Fail /\ i > Len(out)
                 /\ out'[i].kind = IF i = Len(out') THEN "prompt" ELSE "steer"
<1>0. Len(out) \in Nat /\ Len(out') \in Nat
  BY EntriesAre DEF Typed, OutTypes
<1>1. CASE Emit
  <2>1. /\ Len(out') = Len(out) + 1 /\ \A j \in 1..Len(out) : out'[j] = out[j]
        /\ \E k \in Nat : out' = Append(out, Keyed(Candidate, k)) /\ Keyed(Candidate, k) \in Emitted
        /\ Candidate \in Observation
    BY <1>1, EmitFacts DEF Typed
  <2>2. PICK k \in Nat : out' = Append(out, Keyed(Candidate, k)) /\ Keyed(Candidate, k) \in Emitted
    BY <2>1
  <2>3. out'[Len(out) + 1] = Keyed(Candidate, k)
    BY <2>2, AppendFacts DEF Typed, OutTypes
  <2>4. ASSUME NEW i \in 1..Len(out') PROVE i \in 1..Len(out) \/ i = Len(out) + 1
    BY <1>0, <2>1
  <2>5. /\ out'[Len(out) + 1].kind = Candidate.kind /\ out'[Len(out) + 1].id = Candidate.id
        /\ out'[Len(out) + 1].from = Candidate.from /\ out'[Len(out) + 1].part = Candidate.part
        /\ out'[Len(out) + 1].seq = Candidate.seq
    BY <2>1, <2>3, KeyedType
  <2> QED BY <1>0, <1>1, <2>1, <2>4, <2>5
<1>2. CASE Fail
  <2>1. PICK a, b, p, w :
          /\ a \in Seq(Emitted) /\ b \in Seq(Emitted) /\ p \in Emitted
          /\ out' = ((out \o a) \o b) \o <<p>>
          /\ p.kind = "prompt" /\ p.id = NoCall
          /\ Unresolved(a) /\ Waiting(b, w)
    BY <1>2, FailFacts DEF Typed
  <2>2. /\ Len(out') = Len(out) + Len(a) + Len(b) + 1
        /\ \A j \in 1..Len(out) : out'[j] = out[j]
        /\ \A j \in 1..Len(a) : out'[Len(out) + j] = a[j]
        /\ \A j \in 1..Len(b) : out'[Len(out) + Len(a) + j] = b[j]
        /\ out'[Len(out')] = p
    BY <2>1, FailEntries DEF Typed
  <2>3. Len(a) \in Nat /\ Len(b) \in Nat
    BY <2>1
  <2>4. ASSUME NEW i \in 1..Len(out'), i \notin 1..Len(out)
        PROVE  i > Len(out) /\ out'[i].kind = IF i = Len(out') THEN "prompt" ELSE "steer"
    <3>1. i \in 1..(Len(out) + Len(a) + Len(b) + 1) /\ i > Len(out)
      BY <1>0, <2>2, <2>4
    <3>2. CASE \E j \in 1..Len(a) : i = Len(out) + j
      <4>1. PICK j \in 1..Len(a) : i = Len(out) + j
        BY <3>2
      <4>2. i # Len(out')
        BY <1>0, <2>2, <2>3, <4>1
      <4> QED BY <2>1, <2>2, <3>1, <4>1, <4>2 DEF Unresolved
    <3>3. CASE \E j \in 1..Len(b) : i = Len(out) + Len(a) + j
      <4>1. PICK j \in 1..Len(b) : i = Len(out) + Len(a) + j
        BY <3>3
      <4>2. i # Len(out')
        BY <1>0, <2>2, <2>3, <4>1
      <4> QED BY <2>1, <2>2, <3>1, <4>1, <4>2 DEF Waiting
    <3>4. CASE i = Len(out')
      BY <2>1, <2>2, <3>1, <3>4
    <3>5. \/ \E j \in 1..Len(a) : i = Len(out) + j
          \/ \E j \in 1..Len(b) : i = Len(out) + Len(a) + j
          \/ i = Len(out')
      <4>1. PICK n \in Nat, m \in Nat, k \in Nat : n = Len(out) /\ m = Len(a) /\ k = Len(b)
        BY <1>0, <2>3
      <4>2. i \in 1..(n + m + k + 1)
        BY <3>1, <4>1
      <4>3. i \in 1..n \/ (\E j \in 1..m : i = n + j) \/ (\E j \in 1..k : i = n + m + j)
            \/ i = n + m + k + 1
        BY <4>2, Positions
      <4> QED BY <2>2, <2>4, <4>1, <4>3
    <3> QED BY <3>2, <3>3, <3>4, <3>5
  <2>5. Len(out) <= Len(out')
    BY <1>0, <2>2, <2>3
  <2> QED BY <1>2, <2>2, <2>4, <2>5
<1>3. CASE out' = out
  BY <1>0, <1>3
<1> QED BY <1>1, <1>2, <1>3, OutMoves

StillBehind(o) == o.kind = "update" =>
  /\ \A i \in 1..Len(updates') : o.from < updates'[i]
  /\ \A i \in 1..Len(delivery') : o.from < delivery'[i]
  /\ o.from <= received'

LEMMA BehindStays ==
  ASSUME Typed, Typed', [ArbiterNext]_vars, NEW o, o.from \in Nat, Behind(o)
  PROVE  StillBehind(o)
<1>1. received \in Nat /\ received' \in Nat /\ received <= received'
  BY PeerMoves
<1>2. SUFFICES ASSUME o.kind = "update"
      PROVE  /\ \A i \in 1..Len(updates') : o.from < updates'[i]
             /\ \A i \in 1..Len(delivery') : o.from < delivery'[i]
             /\ o.from <= received'
  BY DEF StillBehind
<1>3. /\ \A i \in 1..Len(updates) : o.from < updates[i]
      /\ \A i \in 1..Len(delivery) : o.from < delivery[i]
      /\ o.from <= received
  BY <1>2 DEF Behind
<1>4. o.from < received + 1 /\ o.from <= received'
  BY <1>1, <1>3
<1> QED BY <1>3, <1>4, QueueEntries

(* What nextObservationIndex chooses is before every other update. *)
LEMMA BestIsBefore ==
  ASSUME Typed, ShapeInv, LineInv, pending # <<>>, NEW m \in 1..Len(pending), m # Best,
         Candidate.kind = "update", pending[m].kind = "update"
  PROVE  Before(Candidate, pending[m])
<1>1. Best \in 1..Len(pending) /\ Candidate = pending[Best] /\ Candidate \in Observation
  BY BestFacts DEF Typed
<1>2. /\ Candidate.from \in Nat /\ Candidate.part \in Nat /\ Candidate.seq = Stamp(Candidate.from)
      /\ pending[m].from \in Nat /\ pending[m].part \in Nat /\ pending[m].seq = Stamp(pending[m].from)
      /\ Candidate.from >= 1 /\ pending[m].from >= 1
  BY <1>1, EntriesAre, Naturals0 DEF ShapeInv, Shaped
<1>3. CASE Best < m
  BY <1>1, <1>3 DEF LineInv, UpdatesRise
<1>4. CASE m < Best
  <2>1. Before(pending[m], Candidate)
    BY <1>1, <1>4 DEF LineInv, UpdatesRise
  <2>2. pending[m].from <= Candidate.from
    BY <1>2, <2>1 DEF Before
  <2>3. CASE Sequenced
    <3>1. Candidate.seq = Candidate.from /\ pending[m].seq = pending[m].from
      BY <1>2, <2>3 DEF Stamp
    <3>2. Candidate.seq # 0 /\ pending[m].seq # 0
      BY <1>2, <3>1
    <3>3. Candidate.seq < pending[m].seq \/ (Candidate.seq = pending[m].seq /\ Best <= m)
      BY <3>2, BestFacts DEF Typed
    <3> QED BY <1>1, <1>2, <1>4, <2>2, <3>1, <3>3
  <2>4. CASE ~Sequenced
    <3>1. Candidate.seq = 0
      BY <1>2, <2>4 DEF Stamp
    <3>2. Best = 1
      BY <3>1, BestFacts DEF Typed
    <3> QED BY <1>4, <3>2
  <2> QED BY <2>3, <2>4
<1> QED BY <1>1, <1>3, <1>4

LEMMA LineInitially == ArbiterInit => LineInv
BY DEF ArbiterInit, LineInv, UpdatesRise, UpdatesBefore

Rising == UpdatesRise(pending) /\ UpdatesRise(out) /\ UpdatesBefore(out, pending)

LEMMA LineStep ==
  ASSUME Typed, Typed', QueuesInv, ShapeInv, LineInv, ArbiterNext
  PROVE  LineInv'
<1>n. /\ \A i \in 1..Len(pending) : pending[i].from \in Nat /\ pending[i].part \in Nat
      /\ \A i \in 1..Len(out) : out[i].from \in Nat /\ out[i].part \in Nat
      /\ Len(pending) \in Nat /\ Len(out) \in Nat /\ PerUpdate \in Nat
      /\ Len(pending') \in Nat /\ Len(out') \in Nat
  <2>1. \A i \in 1..Len(pending) : pending[i].from \in Nat /\ pending[i].part \in Nat
    BY EntriesAre, Naturals0
  <2>2. \A i \in 1..Len(out) : out[i].from \in Nat /\ out[i].part \in Nat
    BY EntriesAre, Naturals0
  <2>3. Len(pending') \in Nat /\ Len(out') \in Nat
    BY DEF Typed, OutTypes
  <2> QED BY <2>1, <2>2, <2>3, EntriesAre, Naturals0
<1>b. /\ \A i \in 1..Len(pending) : StillBehind(pending[i])
      /\ \A i \in 1..Len(out) : StillBehind(out[i])
  BY <1>n, BehindStays DEF LineInv
<1>1. ASSUME NEW i \in 1..Len(pending') PROVE StillBehind(pending'[i])
  <2>1. CASE \E j \in 1..Len(pending) : pending'[i] = pending[j]
    BY <1>b, <2>1
  <2>2. ASSUME NEW u \in 1..(MaxReceived + 1), NEW k \in 1..PerUpdate, Takes(u),
               pending'[i] = Part(u, k)
        PROVE  StillBehind(pending'[i])
    <3>1. received \in Nat /\ received' \in Nat /\ received <= received' /\ u \in Nat
      BY PeerMoves
    <3> QED BY <2>2, <3>1, TakenIsNext, NewShapes DEF StillBehind
  <2>3. ASSUME NEW c, NEW s, pending'[i] = Steer(c, s) PROVE StillBehind(pending'[i])
    BY <2>3, NewShapes DEF StillBehind
  <2>4. CASE pending'[i] = Prompt
    BY <2>4, NewShapes DEF StillBehind
  <2> QED BY <2>1, <2>2, <2>3, <2>4, NewPending
<1>2. ASSUME NEW i \in 1..Len(out') PROVE StillBehind(out'[i])
  <2>1. CASE Emit /\ out'[i].kind = Candidate.kind /\ out'[i].from = Candidate.from
    <3>1. Best \in 1..Len(pending) /\ Candidate = pending[Best]
      BY <2>1, EmitFacts DEF Typed
    <3> QED BY <1>b, <2>1, <3>1 DEF StillBehind
  <2>2. CASE out'[i].kind # "update"
    BY <2>2 DEF StillBehind
  <2> QED BY <1>b, <2>1, <2>2, NewOut
<1>3. ASSUME NEW u \in 1..(MaxReceived + 1), Takes(u), UNCHANGED out
      PROVE  Rising'
  <2>1. /\ Len(pending') = Len(pending) + PerUpdate
        /\ \A i \in 1..Len(pending) : pending'[i] = pending[i]
        /\ \A k \in 1..PerUpdate : pending'[Len(pending) + k] = Part(u, k)
    BY <1>3 DEF Takes
  <2>2. ASSUME NEW j \in 1..Len(pending')
        PROVE  \/ j \in 1..Len(pending) /\ pending'[j] = pending[j]
               \/ /\ j - Len(pending) \in 1..PerUpdate /\ j > Len(pending)
                  /\ pending'[j] = Part(u, j - Len(pending))
    <3>1. CASE j <= Len(pending)
      BY <1>n, <2>1, <3>1
    <3>2. CASE j > Len(pending)
      <4>1. j - Len(pending) \in 1..PerUpdate /\ j = Len(pending) + (j - Len(pending))
        BY <1>n, <2>1, <3>2
      <4> QED BY <2>1, <3>2, <4>1
    <3> QED BY <1>n, <3>1, <3>2
  <2>3. ASSUME NEW o, o.from \in Nat, Behind(o), o.kind = "update" PROVE o.from < u
    BY <1>3, <2>3, TakenIsNext DEF Behind
  <2>4. ASSUME NEW i \in 1..Len(pending'), NEW j \in 1..Len(pending'), i < j,
               pending'[i].kind = "update", pending'[j].kind = "update"
        PROVE  Before(pending'[i], pending'[j])
    <3>1. CASE i \in 1..Len(pending) /\ j \in 1..Len(pending)
      BY <2>1, <2>4, <3>1 DEF LineInv, UpdatesRise
    <3>2. CASE i \in 1..Len(pending) /\ j - Len(pending) \in 1..PerUpdate
               /\ pending'[j] = Part(u, j - Len(pending))
      <4>1. pending[i].from < u
        BY <1>n, <2>1, <2>3, <2>4, <3>2 DEF LineInv
      <4> QED BY <2>1, <3>2, <4>1, NewShapes DEF Before
    <3>3. CASE /\ pending'[i] = Part(u, i - Len(pending)) /\ pending'[j] = Part(u, j - Len(pending))
               /\ i > Len(pending)
      <4>1. i - Len(pending) < j - Len(pending)
        BY <1>n, <2>4
      <4> QED BY <3>3, <4>1, NewShapes DEF Before
    <3>4. j \in 1..Len(pending) => i \in 1..Len(pending)
      BY <1>n, <2>4
    <3> QED BY <2>2, <3>1, <3>2, <3>3, <3>4
  <2>5. ASSUME NEW i \in 1..Len(out), NEW j \in 1..Len(pending'),
               out[i].kind = "update", pending'[j].kind = "update"
        PROVE  Before(out[i], pending'[j])
    <3>1. CASE j \in 1..Len(pending) /\ pending'[j] = pending[j]
      BY <2>5, <3>1 DEF LineInv, UpdatesBefore
    <3>2. CASE pending'[j] = Part(u, j - Len(pending))
      <4>1. out[i].from < u
        BY <1>n, <2>3, <2>5 DEF LineInv
      <4> QED BY <3>2, <4>1, NewShapes DEF Before
    <3> QED BY <2>2, <3>1, <3>2
  <2> QED BY <1>3, <2>4, <2>5 DEF LineInv, Rising, UpdatesRise, UpdatesBefore, Before
<1>4. ASSUME NEW o, Joins(o), o.kind # "update", UNCHANGED out
      PROVE  Rising'
  <2>1. ASSUME NEW j \in 1..Len(pending')
        PROVE  (j \in 1..Len(pending) /\ pending'[j] = pending[j]) \/ pending'[j].kind # "update"
    BY <1>n, <1>4 DEF Joins
  <2>2. ASSUME NEW i \in 1..Len(pending'), NEW j \in 1..Len(pending'), i < j,
               pending'[i].kind = "update", pending'[j].kind = "update"
        PROVE  Before(pending'[i], pending'[j])
    <3>1. /\ i \in 1..Len(pending) /\ pending'[i] = pending[i]
          /\ j \in 1..Len(pending) /\ pending'[j] = pending[j]
      BY <2>1, <2>2
    <3> QED BY <2>2, <3>1 DEF LineInv, UpdatesRise
  <2>3. ASSUME NEW i \in 1..Len(out), NEW j \in 1..Len(pending'),
               out[i].kind = "update", pending'[j].kind = "update"
        PROVE  Before(out[i], pending'[j])
    <3>1. j \in 1..Len(pending) /\ pending'[j] = pending[j]
      BY <2>1, <2>3
    <3> QED BY <2>3, <3>1 DEF LineInv, UpdatesBefore
  <2> QED BY <1>4, <2>2, <2>3 DEF LineInv, Rising, UpdatesRise, UpdatesBefore, Before
<1>5. ASSUME Emit PROVE Rising'
  <2>1. /\ pending # <<>> /\ Best \in 1..Len(pending) /\ Candidate = pending[Best]
        /\ Len(out') = Len(out) + 1
        /\ \A i \in 1..Len(out) : out'[i] = out[i]
        /\ Len(pending') = Len(pending) - 1
        /\ \A i \in 1..Len(pending') : pending'[i] = pending[IF i < Best THEN i ELSE i + 1]
    BY <1>5, EmitFacts DEF Typed
  <2> DEFINE old(i) == IF i < Best THEN i ELSE i + 1
  <2>2. ASSUME NEW i \in 1..Len(pending')
        PROVE  old(i) \in 1..Len(pending) /\ old(i) # Best /\ pending'[i] = pending[old(i)]
    <3>1. Best \in Nat /\ i \in Nat /\ i >= 1 /\ i <= Len(pending) - 1
      BY <1>n, <2>1
    <3> QED BY <1>n, <2>1, <3>1
  <2>3. ASSUME NEW i \in 1..Len(pending'), NEW j \in 1..Len(pending'), i < j PROVE old(i) < old(j)
    BY <1>n, <2>1, <2>3
  <2> HIDE DEF old
  <2>4. UpdatesRise(pending)'
    BY <2>2, <2>3 DEF LineInv, UpdatesRise, Before
  <2>5. ASSUME NEW i \in 1..Len(out') PROVE i \in 1..Len(out) \/ i = Len(out) + 1
    BY <1>n, <2>1
  <2>6. \A m \in 1..Len(pending) : m # Best /\ Candidate.kind = "update" /\ pending[m].kind = "update"
          => Before(Candidate, pending[m])
    BY <2>1, BestIsBefore
  <2>7. /\ out'[Len(out) + 1].kind = Candidate.kind
        /\ out'[Len(out) + 1].from = Candidate.from /\ out'[Len(out) + 1].part = Candidate.part
    <3>1. Len(out) + 1 \in 1..Len(out') /\ Len(out) + 1 \notin 1..Len(out) /\ ~Fail
      BY <1>n, <1>5, <2>1 DEF Emit, Fail, Emittable
    <3> QED BY <3>1, NewOut
  <2>8. ASSUME NEW i \in 1..Len(out'), NEW j \in 1..Len(pending'),
               out'[i].kind = "update", pending'[j].kind = "update"
        PROVE  Before(out'[i], pending'[j])
    <3>1. CASE i \in 1..Len(out)
      BY <2>1, <2>2, <2>8, <3>1 DEF LineInv, UpdatesBefore
    <3>2. CASE i = Len(out) + 1
      BY <2>2, <2>6, <2>7, <2>8, <3>2 DEF Before
    <3> QED BY <2>5, <3>1, <3>2
  <2>9. ASSUME NEW i \in 1..Len(out'), NEW j \in 1..Len(out'), i < j,
               out'[i].kind = "update", out'[j].kind = "update"
        PROVE  Before(out'[i], out'[j])
    <3>1. i \in 1..Len(out)
      BY <1>n, <2>1, <2>9
    <3>2. CASE j \in 1..Len(out)
      BY <2>1, <2>9, <3>1, <3>2 DEF LineInv, UpdatesRise
    <3>3. CASE j = Len(out) + 1
      BY <2>1, <2>7, <2>9, <3>1, <3>3 DEF LineInv, UpdatesBefore, Before
    <3> QED BY <2>5, <3>2, <3>3
  <2> QED BY <2>4, <2>8, <2>9 DEF Rising, UpdatesRise, UpdatesBefore, Before
<1>6. ASSUME Fail PROVE Rising'
  <2>1. pending' = <<>>
    BY <1>6 DEF Fail
  <2>2. ~Emit
    BY <1>6 DEF Emit, Fail, Emittable
  <2>3. \A i \in 1..Len(out') :
          (i \in 1..Len(out) /\ out'[i] = out[i]) \/ out'[i].kind # "update"
    BY <2>2, NewOut
  <2> QED BY <2>1, <2>3 DEF LineInv, Rising, UpdatesRise, UpdatesBefore, Before
<1>7. ASSUME UNCHANGED <<pending, out>> PROVE Rising'
  BY <1>7 DEF LineInv, Rising, UpdatesRise, UpdatesBefore, Before
<1>8. Rising'
  <2>1. \A c, s : Joins(Steer(c, s)) /\ UNCHANGED out => Rising'
    BY <1>4, NewShapes
  <2>2. Joins(Prompt) /\ UNCHANGED out => Rising'
    BY <1>4, NewShapes
  <2>3. \/ UNCHANGED <<pending, out>>
        \/ UNCHANGED out /\ \E u \in 1..(MaxReceived + 1) : Takes(u)
        \/ UNCHANGED out /\ Joins(Steer(Head(commands), 0))
        \/ UNCHANGED out /\ Joins(Steer(Head(events).id, Head(events).seq))
        \/ UNCHANGED out /\ Joins(Prompt)
        \/ Emit
        \/ Fail
    BY Actions
  <2> QED BY <1>3, <1>5, <1>6, <1>7, <2>1, <2>2, <2>3
<1> QED BY <1>1, <1>2, <1>8 DEF LineInv, Rising, Behind, StillBehind

OrderInv == QueuesInv /\ ShapeInv /\ LineInv /\ MarksInv /\ KeysInv
LEMMA OrderStep == Typed /\ OrderInv /\ [ArbiterNext]_vars => OrderInv'
<1> SUFFICES ASSUME Typed, OrderInv, [ArbiterNext]_vars PROVE OrderInv'
  OBVIOUS
<1>0. Typed'
  BY TypedStep
<1>1. CASE ArbiterNext
  BY <1>0, <1>1, QueuesStep, ShapeStep, LineStep, MarksStep, KeysStep DEF OrderInv
<1>2. CASE UNCHANGED vars
  <2>1. Sequenced' = Sequenced
    BY <1>2, PeerMoves
  <2>2. QueuesInv'
    BY <1>0, <1>2, QueuesStep DEF OrderInv
  <2>3. ShapeInv' /\ LineInv' /\ MarksInv' /\ KeysInv'
    BY <1>2, <2>1, Stutters DEF OrderInv, ShapeInv, Shaped, Stamp, Prompted, LineInv, Behind,
       UpdatesRise, UpdatesBefore, Before, MarksInv, Numbered, KeysInv, KeysIncrease, RawInOrder
  <2> QED BY <2>2, <2>3 DEF OrderInv
<1> QED BY <1>1, <1>2

-----------------------------------------------------------------------------
(***************************************************************************)
(* The calls.                                                              *)
(***************************************************************************)
Begun(c, from, to) == call[c] = from /\ call' = [call EXCEPT ![c] = to]

LEMMA CallMoves ==
  ASSUME Typed, MailInv, ReportsInv, ArbiterNext
  PROVE  \/ /\ UNCHANGED <<call, commands>> /\ ~Fail /\ ~TakeCommand
            /\ TakeEvent => Head(events).id = NoCall
            /\ events' = events \/ TakeEvent \/ Completes
         \/ \E c \in Calls : Command(c) /\ Begun(c, "idle", "sent")
         \/ \E c \in Calls, s \in Sequences : Report(c, s) /\ Begun(c, "out", "reported")
         \/ /\ TakeCommand /\ Head(commands) \in Calls
            /\ \/ Begun(Head(commands), "sent", "answered") /\ Joins(Steer(Head(commands), 0))
               \/ Begun(Head(commands), "sent", "out") /\ UNCHANGED pending
         \/ /\ TakeEvent /\ Head(events).id \in Calls /\ Head(events).seq \in Sequences
            /\ Begun(Head(events).id, "reported", "answered")
            /\ Joins(Steer(Head(events).id, Head(events).seq))
         \/ Fail
<1>1. CASE \E c \in Calls : Command(c)
  BY <1>1 DEF Command, Begun
<1>2. CASE \E c \in Calls, s \in Sequences : Report(c, s)
  BY <1>2 DEF Report, Begun
<1>3. CASE TakeCommand
  <2>1. Head(commands) \in Calls /\ Head(commands) = commands[1] /\ 1 \in 1..Len(commands)
    BY <1>3, TailFacts DEF TakeCommand, Typed, CallTypes
  <2>2. call[Head(commands)] = "sent"
    BY <2>1 DEF MailInv
  <2>3. \/ Begun(Head(commands), "sent", "answered")
           /\ pending' = Append(pending, Steer(Head(commands), 0))
        \/ Begun(Head(commands), "sent", "out") /\ UNCHANGED pending
    BY <1>3, <2>2 DEF TakeCommand, Accepts, Begun
  <2>4. CASE pending' = Append(pending, Steer(Head(commands), 0))
    <3>1. Steer(Head(commands), 0) \in Observation
      BY <2>1, SteerType, SequencesAre
    <3>2. Joins(Steer(Head(commands), 0))
      BY <2>4, <3>1, AppendFacts DEF Typed, OutTypes, Joins
    <3> QED BY <1>3, <2>1, <2>3, <3>2
  <2> QED BY <1>3, <2>1, <2>3, <2>4
<1>4. CASE TakeEvent
  <2>1. Head(events) \in Event /\ Head(events) = events[1] /\ 1 \in 1..Len(events)
    BY <1>4, TailFacts DEF TakeEvent, Typed, CallTypes
  <2>2. CASE Head(events).id = NoCall
    <3>1. UNCHANGED <<call, commands>> /\ ~Fail
      BY <1>4, <2>2 DEF TakeEvent, Fail
    <3>2. Len(events') = Len(events) - 1 /\ Len(events) \in Nat
      BY <1>4, TailFacts DEF TakeEvent, Typed, CallTypes
    <3>3. events' # events
      BY <3>2
    <3>4. ~TakeCommand
      BY <3>3 DEF TakeCommand
    <3> QED BY <1>4, <2>2, <3>1, <3>4
  <2>3. CASE Head(events).id # NoCall
    <3>1. Head(events).id \in Calls /\ Head(events).seq \in Sequences
      BY <2>1, <2>3 DEF Event
    <3>2. Begun(Head(events).id, "reported", "answered")
      BY <1>4, <2>1, <2>3 DEF TakeEvent, ReportsInv, InState, Begun
    <3>3. pending' = Append(pending, Steer(Head(events).id, Head(events).seq))
      BY <1>4, <2>3 DEF TakeEvent
    <3>4. Steer(Head(events).id, Head(events).seq) \in Observation
      BY <3>1, SteerType
    <3>5. Joins(Steer(Head(events).id, Head(events).seq))
      BY <3>3, <3>4, AppendFacts DEF Typed, OutTypes, Joins
    <3> QED BY <1>4, <3>1, <3>2, <3>5
  <2> QED BY <2>2, <2>3
<1>5. CASE UNCHANGED <<commands, call, events>> /\ ~TakeEvent /\ ~Fail /\ ~TakeCommand
  BY <1>5
<1>6. CASE Completes /\ ~TakeCommand /\ ~TakeEvent
  <2>1. UNCHANGED <<call, commands>> /\ ~Fail
    BY <1>6 DEF Completes, Fail, arbiterOnly, loopVars
  <2> QED BY <1>6, <2>1
<1> QED BY <1>1, <1>2, <1>3, <1>4, <1>5, <1>6, CallQuiet DEF ArbiterNext, Loop, Others

LEMMA MailStep ==
  ASSUME Typed, Typed', MailInv, ReportsInv, ArbiterNext
  PROVE  MailInv'
<1>0. /\ commands \in Seq(Calls) /\ call \in [Calls -> {"idle", "sent", "out", "reported", "answered"}]
      /\ \A i \in 1..Len(commands) : commands[i] \in Calls
      /\ Len(commands) \in Nat
  BY EntriesAre DEF Typed, CallTypes
<1>1. CASE commands' = commands /\ \A c \in Calls : call[c] = "sent" => call'[c] = "sent"
  BY <1>0, <1>1 DEF MailInv
<1>2. ASSUME NEW c \in Calls, Command(c), Begun(c, "idle", "sent") PROVE MailInv'
  <2>1. commands' = Append(commands, c) /\ call[c] = "idle" /\ call' = [call EXCEPT ![c] = "sent"]
    BY <1>2 DEF Command, Begun
  <2>2. /\ Len(commands') = Len(commands) + 1 /\ commands'[Len(commands) + 1] = c
        /\ \A i \in 1..Len(commands) : commands'[i] = commands[i]
    BY <1>0, <2>1, AppendFacts
  <2>3. \A i \in 1..Len(commands) : commands[i] # c
    BY <2>1 DEF MailInv
  <2>4. ASSUME NEW i \in 1..Len(commands') PROVE i \in 1..Len(commands) \/ i = Len(commands) + 1
    BY <1>0, <2>2
  <2>5. \A i \in 1..Len(commands') : call'[commands'[i]] = "sent"
    BY <1>0, <2>1, <2>2, <2>4 DEF MailInv
  <2>6. \A i, j \in 1..Len(commands') : commands'[i] = commands'[j] => i = j
    BY <2>2, <2>3, <2>4 DEF MailInv
  <2> QED BY <2>5, <2>6 DEF MailInv
<1>3. ASSUME TakeCommand, NEW x, Begun(Head(commands), "sent", x) PROVE MailInv'
  <2>1. /\ commands' = Tail(commands) /\ Head(commands) = commands[1] /\ 1 \in 1..Len(commands)
        /\ Len(commands') = Len(commands) - 1
        /\ \A i \in 1..Len(commands') : commands'[i] = commands[i + 1]
    BY <1>0, <1>3, TailFacts DEF TakeCommand
  <2>2. \A i \in 1..Len(commands') : i + 1 \in 1..Len(commands) /\ i + 1 # 1
    BY <1>0, <2>1
  <2>3. \A i \in 1..Len(commands') : commands[i + 1] # commands[1]
    BY <2>1, <2>2 DEF MailInv
  <2>4. \A i \in 1..Len(commands') : call'[commands'[i]] = "sent"
    BY <1>0, <1>3, <2>1, <2>2, <2>3 DEF MailInv, Begun
  <2>5. \A i, j \in 1..Len(commands') : commands'[i] = commands'[j] => i = j
    <3> SUFFICES ASSUME NEW i \in 1..Len(commands'), NEW j \in 1..Len(commands'),
                        commands'[i] = commands'[j]
                 PROVE  i = j
      OBVIOUS
    <3>1. i + 1 = j + 1
      BY <2>1, <2>2 DEF MailInv
    <3> QED BY <3>1
  <2> QED BY <2>4, <2>5 DEF MailInv
<1>4. ASSUME NEW c \in Calls, NEW s \in Sequences, Report(c, s), Begun(c, "out", "reported")
      PROVE  MailInv'
  BY <1>0, <1>1, <1>4 DEF Report, Begun
<1>5. ASSUME TakeEvent, Head(events).id \in Calls, Begun(Head(events).id, "reported", "answered")
      PROVE  MailInv'
  BY <1>0, <1>1, <1>5 DEF TakeEvent, Begun
<1>6. CASE Fail
  <2>1. commands' = commands /\ \A c \in Calls : call[c] = "sent" => call'[c] = "sent"
    BY <1>0, <1>6 DEF Fail, Steers
  <2> QED BY <1>1, <2>1
<1>7. CASE UNCHANGED <<call, commands>>
  BY <1>1, <1>7
<1> QED BY <1>2, <1>3, <1>4, <1>5, <1>6, <1>7, CallMoves

LEMMA AtMoves ==
  ASSUME ArbiterNext
  PROVE  /\ at # "failed" /\ at # "done" /\ at # "closed"
         /\ at' = "failed" <=> Fail
         /\ at' = "done" => Rest /\ Over /\ UNCHANGED <<call, pending>>
BY DEF ArbiterNext, Loop, Others, Running, PeerUpdates, PeerAnswers, PromptReturns,
       Deliver, Command, Report, Completes, BarrierReturns, BarrierGivesUp, TakeCommand, Drained, Sweep,
       Sweeping, SweepTakes, SweepEnds, Settled, Emit, Fail, Rest, TakeUpdate, TakePrompt, TakeEvent,
       TakeBarrier, Close, arbiterOnly, loopVars, callVars

LEMMA EndStep == ASSUME Typed, ArbiterNext PROVE EndInv'
<1>1. CASE Fail
  <2>1. pending' = <<>> /\ call' = [c \in Calls |-> IF c \in Steers THEN "answered" ELSE call[c]]
    BY <1>1 DEF Fail
  <2>2. Steers' = {}
    BY <2>1 DEF Steers
  <2> QED BY <2>1, <2>2 DEF EndInv
<1>2. CASE at' = "done"
  <2>1. pending = <<>> /\ Steers = {} /\ UNCHANGED <<call, pending>>
    BY <1>2, AtMoves DEF Over
  <2>2. Steers' = {}
    BY <2>1 DEF Steers
  <2> QED BY <2>1, <2>2 DEF EndInv
<1> QED BY <1>1, <1>2, AtMoves DEF EndInv

LEMMA ReportsStep ==
  ASSUME Typed, Typed', MailInv, ReportsInv, ArbiterNext
  PROVE  ReportsInv'
<1>0. /\ events \in Seq(Event) /\ call \in [Calls -> {"idle", "sent", "out", "reported", "answered"}]
      /\ \A i \in 1..Len(events) : events[i] \in Event /\ (events[i].id # NoCall => events[i].id \in Calls)
      /\ Len(events) \in Nat
  BY EntriesAre DEF Typed, CallTypes, Event
<1>f. at # "failed" /\ InState(events, "reported") /\ Distinct(events)
  BY AtMoves DEF ReportsInv
<1>1. ASSUME events' = events, \A c \in Calls : call[c] = "reported" => call'[c] = "reported"
      PROVE  ReportsInv'
  BY <1>0, <1>1, <1>f DEF ReportsInv, Distinct, InState
<1>2. ASSUME NEW c \in Calls, NEW s \in Sequences, Report(c, s), Begun(c, "out", "reported")
      PROVE  ReportsInv'
  <2>1. [id |-> c, seq |-> s] \in Event /\ events' = Append(events, [id |-> c, seq |-> s])
    BY <1>2 DEF Report, Event
  <2>2. /\ Len(events') = Len(events) + 1 /\ events'[Len(events) + 1].id = c
        /\ \A i \in 1..Len(events) : events'[i] = events[i]
    BY <1>0, <2>1, AppendFacts
  <2>3. \A i \in 1..Len(events) : events[i].id # c
    BY <1>2, <1>f, AssumedConstants DEF Begun, InState
  <2>4. ASSUME NEW i \in 1..Len(events') PROVE i \in 1..Len(events) \/ i = Len(events) + 1
    BY <1>0, <2>2
  <2>5. InState(events, "reported")'
    <3> SUFFICES ASSUME NEW i \in 1..Len(events'), events'[i].id # NoCall
                 PROVE  call'[events'[i].id] = "reported"
      BY DEF InState
    <3> QED BY <1>0, <1>2, <1>f, <2>2, <2>4 DEF Begun, InState
  <2>6. Distinct(events)'
    <3> SUFFICES ASSUME NEW i \in 1..Len(events'), NEW j \in 1..Len(events'),
                        events'[i].id # NoCall, events'[i].id = events'[j].id
                 PROVE  i = j
      BY DEF Distinct
    <3> QED BY <1>f, <2>2, <2>3, <2>4 DEF Distinct
  <2> QED BY <2>5, <2>6 DEF ReportsInv
<1>3. ASSUME TakeEvent, \A i \in 1..Len(events) : i # 1 /\ events[i].id # NoCall =>
               call'[events[i].id] = "reported"
      PROVE  ReportsInv'
  <2>1. /\ events' = Tail(events) /\ Len(events') = Len(events) - 1
        /\ \A i \in 1..Len(events') : events'[i] = events[i + 1]
    BY <1>0, <1>3, TailFacts DEF TakeEvent
  <2>2. \A i \in 1..Len(events') : i + 1 \in 1..Len(events) /\ i + 1 # 1
    BY <1>0, <2>1
  <2>3. InState(events, "reported")'
    <3> SUFFICES ASSUME NEW i \in 1..Len(events'), events'[i].id # NoCall
                 PROVE  call'[events'[i].id] = "reported"
      BY DEF InState
    <3> QED BY <1>3, <2>1, <2>2
  <2>4. Distinct(events)'
    <3> SUFFICES ASSUME NEW i \in 1..Len(events'), NEW j \in 1..Len(events'),
                        events'[i].id # NoCall, events'[i].id = events'[j].id
                 PROVE  i = j
      BY DEF Distinct
    <3>1. i + 1 = j + 1
      BY <1>f, <2>1, <2>2 DEF Distinct
    <3> QED BY <3>1
  <2> QED BY <2>3, <2>4 DEF ReportsInv
<1>4. ASSUME TakeEvent, Head(events).id \in Calls, Begun(Head(events).id, "reported", "answered")
      PROVE  ReportsInv'
  <2>1. Head(events) = events[1] /\ 1 \in 1..Len(events)
    BY <1>0, <1>4, TailFacts DEF TakeEvent
  <2>2. \A i \in 1..Len(events) : i # 1 /\ events[i].id # NoCall => events[i].id # events[1].id
    BY <1>f, <2>1 DEF Distinct
  <2>3. \A i \in 1..Len(events) : i # 1 /\ events[i].id # NoCall => call'[events[i].id] = "reported"
    BY <1>0, <1>4, <1>f, <2>1, <2>2 DEF Begun, InState
  <2> QED BY <1>3, <1>4, <2>3
<1>5. ASSUME TakeEvent, call' = call PROVE ReportsInv'
  BY <1>3, <1>5, <1>f DEF InState
<1>6. ASSUME Completes, call' = call PROVE ReportsInv'
  <2>1. /\ [id |-> NoCall, seq |-> 0] \in Event
        /\ events' = Append(events, [id |-> NoCall, seq |-> 0])
    BY <1>6, SequencesAre DEF Completes, Event
  <2>2. /\ Len(events') = Len(events) + 1 /\ events'[Len(events) + 1].id = NoCall
        /\ \A i \in 1..Len(events) : events'[i] = events[i]
    BY <1>0, <2>1, AppendFacts
  <2>3. ASSUME NEW i \in 1..Len(events'), events'[i].id # NoCall
        PROVE  i \in 1..Len(events) /\ events'[i] = events[i]
    BY <1>0, <2>2, <2>3
  <2>4. InState(events, "reported")'
    BY <1>6, <1>f, <2>3 DEF InState
  <2>5. Distinct(events)'
    BY <1>f, <2>3 DEF Distinct
  <2> QED BY <2>4, <2>5 DEF ReportsInv
<1>7. ASSUME Fail PROVE ReportsInv'
  <2>1. events' = events /\ at' = "failed"
    BY <1>7 DEF Fail
  <2> QED BY <1>f, <2>1 DEF ReportsInv, Distinct
<1>8. ASSUME NEW c \in Calls, Command(c), Begun(c, "idle", "sent") PROVE ReportsInv'
  BY <1>0, <1>1, <1>8 DEF Command, Begun
<1>9. ASSUME TakeCommand, NEW x, Begun(Head(commands), "sent", x) PROVE ReportsInv'
  BY <1>0, <1>1, <1>9 DEF TakeCommand, Begun
<1>10. ASSUME UNCHANGED <<call, events>> PROVE ReportsInv'
  BY <1>1, <1>10
<1> QED BY <1>2, <1>4, <1>5, <1>6, <1>7, <1>8, <1>9, <1>10, CallMoves

(* A position of what is left once the chosen observation has gone, and back. *)
Place(i) == IF i < Best THEN i ELSE i + 1
LEMMA Places ==
  ASSUME Typed, Emit, Typed'
  PROVE  /\ \A i \in 1..Len(pending') : Place(i) \in 1..Len(pending) /\ Place(i) # Best
                                        /\ pending'[i] = pending[Place(i)]
         /\ \A i, j \in 1..Len(pending') : i < j => Place(i) < Place(j)
         /\ \A i, j \in 1..Len(pending') : Place(i) = Place(j) => i = j
         /\ \A m \in 1..Len(pending) : m # Best => \E i \in 1..Len(pending') : Place(i) = m
<1>0. /\ Len(pending') = Len(pending) - 1 /\ Len(pending) \in Nat /\ Best \in 1..Len(pending)
      /\ \A i \in 1..Len(pending') : pending'[i] = pending[Place(i)]
  BY EmitFacts, EntriesAre DEF Typed, Place
<1>1. ASSUME NEW i \in 1..Len(pending') PROVE Place(i) \in 1..Len(pending) /\ Place(i) # Best
  <2>1. Best \in Nat /\ i \in Nat /\ i >= 1 /\ i <= Len(pending) - 1
    BY <1>0
  <2> QED BY <1>0, <2>1 DEF Place
<1>2. ASSUME NEW i \in 1..Len(pending'), NEW j \in 1..Len(pending')
      PROVE  /\ i < j => Place(i) < Place(j)
             /\ Place(i) = Place(j) => i = j
  BY <1>0 DEF Place
<1>3. ASSUME NEW m \in 1..Len(pending), m # Best PROVE \E i \in 1..Len(pending') : Place(i) = m
  <2>1. CASE m < Best
    <3>1. m \in 1..Len(pending') /\ Place(m) = m
      BY <1>0, <2>1 DEF Place
    <3> QED BY <3>1
  <2>2. CASE m > Best
    <3>1. m - 1 \in 1..Len(pending') /\ Place(m - 1) = m
      BY <1>0, <2>2 DEF Place
    <3> QED BY <3>1
  <2> QED BY <1>0, <1>3, <2>1, <2>2
<1> QED BY <1>0, <1>1, <1>2, <1>3

LEMMA ObservedEmit ==
  ASSUME Typed, Typed', ObservedInv, Emit, call' = call
  PROVE  ObservedInv'
<1>n. Len(out) \in Nat /\ Len(pending) \in Nat
  BY EntriesAre
<1>1. /\ Best \in 1..Len(pending) /\ Candidate = pending[Best] /\ Candidate \in Observation
      /\ Len(out') = Len(out) + 1
      /\ \A i \in 1..Len(out) : out'[i] = out[i]
      /\ \E k \in Nat : out' = Append(out, Keyed(Candidate, k)) /\ Keyed(Candidate, k) \in Emitted
  BY EmitFacts DEF Typed
<1>2. out'[Len(out) + 1].id = Candidate.id
  BY <1>1, AppendFacts, KeyedType DEF Typed, OutTypes
<1>3. ASSUME NEW i \in 1..Len(out') PROVE i \in 1..Len(out) \/ i = Len(out) + 1
  BY <1>n, <1>1
<1>d. /\ Distinct(pending) /\ Distinct(out) /\ InState(pending, "answered") /\ InState(out, "answered")
      /\ \A i \in 1..Len(pending), j \in 1..Len(out) :
           pending[i].id # NoCall => pending[i].id # out[j].id
  BY DEF ObservedInv
<1>4. \A i, j \in 1..Len(pending') : pending'[i].id # NoCall /\ pending'[i].id = pending'[j].id => i = j
  BY <1>d, Places DEF Distinct
<1>5. \A i \in 1..Len(pending') : pending'[i].id # NoCall => call'[pending'[i].id] = "answered"
  BY <1>d, Places DEF InState
<1>6. \A i \in 1..Len(out') : out'[i].id # NoCall => call'[out'[i].id] = "answered"
  BY <1>d, <1>1, <1>2, <1>3 DEF InState
<1>7. ASSUME NEW i \in 1..Len(out'), NEW j \in 1..Len(out'), out'[i].id # NoCall,
             out'[i].id = out'[j].id
      PROVE  i = j
  <2>1. CASE i \in 1..Len(out) /\ j \in 1..Len(out)
    BY <1>d, <1>1, <1>7, <2>1 DEF Distinct
  <2>2. CASE i \in 1..Len(out) /\ j = Len(out) + 1
    BY <1>d, <1>1, <1>2, <1>7, <2>2
  <2>3. CASE j \in 1..Len(out) /\ i = Len(out) + 1
    BY <1>d, <1>1, <1>2, <1>7, <2>3
  <2> QED BY <1>3, <2>1, <2>2, <2>3
<1>8. ASSUME NEW i \in 1..Len(pending'), NEW j \in 1..Len(out'), pending'[i].id # NoCall
      PROVE  pending'[i].id # out'[j].id
  <2>1. Place(i) \in 1..Len(pending) /\ Place(i) # Best /\ pending'[i] = pending[Place(i)]
    BY Places
  <2>2. CASE j \in 1..Len(out)
    BY <1>d, <1>1, <1>8, <2>1, <2>2
  <2>3. CASE j = Len(out) + 1
    BY <1>d, <1>1, <1>2, <1>8, <2>1, <2>3 DEF Distinct
  <2> QED BY <1>3, <2>2, <2>3
<1>9. ASSUME NEW c \in Calls, call'[c] = "answered"
      PROVE  (\E i \in 1..Len(pending') : pending'[i].id = c) \/ (\E i \in 1..Len(out') : out'[i].id = c)
  <2>0. 1..Len(out) \subseteq 1..Len(out') /\ Len(out) + 1 \in 1..Len(out')
    BY <1>n, <1>1
  <2>1. Has(pending, c) \/ Has(out, c)
    BY <1>9 DEF ObservedInv
  <2>2. CASE Has(out, c)
    BY <1>1, <2>0, <2>2 DEF Has
  <2>3. CASE Has(pending, c)
    <3>1. PICK m \in 1..Len(pending) : pending[m].id = c
      BY <2>3 DEF Has
    <3>2. CASE m = Best
      BY <1>1, <1>2, <2>0, <3>1, <3>2
    <3>3. CASE m # Best
      BY <3>1, <3>3, Places
    <3> QED BY <3>2, <3>3
  <2> QED BY <2>1, <2>2, <2>3
<1> QED BY <1>4, <1>5, <1>6, <1>7, <1>8, <1>9 DEF ObservedInv, Distinct, InState, Has

LEMMA ObservedFail ==
  ASSUME Typed, Typed', ShapeInv, ObservedInv, Fail
  PROVE  ObservedInv'
<1>n. Len(out) \in Nat /\ Len(pending) \in Nat
  BY EntriesAre
<1>c. /\ pending' = <<>> /\ call' = [c \in Calls |-> IF c \in Steers THEN "answered" ELSE call[c]]
      /\ Steers = {c \in Calls : call[c] \in {"out", "reported"}}
  BY DEF Fail, Steers
<1>1. PICK a, b, p, w :
        /\ a \in Seq(Emitted) /\ b \in Seq(Emitted) /\ p \in Emitted
        /\ out' = ((out \o a) \o b) \o <<p>>
        /\ p.kind = "prompt" /\ p.id = NoCall
        /\ Unresolved(a) /\ Waiting(b, w)
  BY FailFacts DEF Typed
<1>2. /\ Len(out') = Len(out) + Len(a) + Len(b) + 1
      /\ \A j \in 1..Len(out) : out'[j] = out[j]
      /\ \A j \in 1..Len(a) : out'[Len(out) + j] = a[j]
      /\ \A j \in 1..Len(b) : out'[Len(out) + Len(a) + j] = b[j]
      /\ out'[Len(out')] = p
  BY <1>1, FailEntries DEF Typed
<1>3. Len(a) \in Nat /\ Len(b) \in Nat
  BY <1>1
<1>4. /\ \A j \in 1..Len(a) : a[j].id \in Steers
      /\ \A i, j \in 1..Len(a) : a[i].id = a[j].id => i = j
      /\ \A c \in Steers : \E i \in 1..Len(a) : a[i].id = c
  BY <1>1 DEF Unresolved
<1>5. ASSUME NEW j \in 1..Len(b)
      PROVE  /\ w[j] \in 1..Len(pending) /\ pending[w[j]].kind = "steer"
             /\ b[j].id = pending[w[j]].id /\ b[j].id # NoCall /\ call[b[j].id] = "answered"
  <2>1. w[j] \in Answers
    BY <1>1 DEF Waiting
  <2>2. w[j] \in 1..Len(pending) /\ pending[w[j]].kind = "steer"
    BY <2>1 DEF Answers
  <2> QED BY <1>1, <2>2 DEF Waiting, ShapeInv, Shaped, ObservedInv, InState
<1>6. \A i, j \in 1..Len(b) : b[i].id = b[j].id => i = j
  <2> SUFFICES ASSUME NEW i \in 1..Len(b), NEW j \in 1..Len(b), b[i].id = b[j].id PROVE i = j
    OBVIOUS
  <2>1. /\ w[i] \in 1..Len(pending) /\ w[j] \in 1..Len(pending)
        /\ pending[w[i]].id # NoCall /\ pending[w[i]].id = pending[w[j]].id
    BY <1>5
  <2>2. w[i] = w[j]
    BY <2>1 DEF ObservedInv, Distinct
  <2> QED BY <1>1, <2>2 DEF Waiting
<1>7. \A j \in 1..Len(a) : a[j].id \in Calls /\ a[j].id # NoCall /\ call[a[j].id] # "answered"
  BY <1>4, AssumedConstants DEF Steers
<1>8. \A i \in 1..Len(out) : out[i].id # NoCall => call[out[i].id] = "answered"
  BY DEF ObservedInv, InState
<1>9. \A i \in 1..Len(b), j \in 1..Len(out) : b[i].id # out[j].id
  BY <1>5 DEF ObservedInv
<1>p. ASSUME NEW i \in 1..Len(out')
      PROVE  \/ i \in 1..Len(out) /\ out'[i] = out[i]
             \/ \E j \in 1..Len(a) : i = Len(out) + j /\ out'[i] = a[j]
             \/ \E j \in 1..Len(b) : i = Len(out) + Len(a) + j /\ out'[i] = b[j]
             \/ i = Len(out') /\ out'[i].id = NoCall
  <2>1. i \in 1..(Len(out) + Len(a) + Len(b) + 1)
    BY <1>2
  <2>2. \/ i \in 1..Len(out)
        \/ \E j \in 1..Len(a) : i = Len(out) + j
        \/ \E j \in 1..Len(b) : i = Len(out) + Len(a) + j
        \/ i = Len(out) + Len(a) + Len(b) + 1
    <3>1. PICK n \in Nat, m \in Nat, k \in Nat : n = Len(out) /\ m = Len(a) /\ k = Len(b)
      BY <1>n, <1>3
    <3>2. i \in 1..(n + m + k + 1)
      BY <2>1, <3>1
    <3>3. i \in 1..n \/ (\E j \in 1..m : i = n + j) \/ (\E j \in 1..k : i = n + m + j) \/ i = n + m + k + 1
      BY <3>2, Positions
    <3> QED BY <3>1, <3>3
  <2>3. CASE i \in 1..Len(out)
    BY <1>2, <2>3
  <2>4. CASE \E j \in 1..Len(a) : i = Len(out) + j
    BY <1>2, <2>4
  <2>5. CASE \E j \in 1..Len(b) : i = Len(out) + Len(a) + j
    BY <1>2, <2>5
  <2>6. CASE i = Len(out) + Len(a) + Len(b) + 1
    BY <1>1, <1>2, <2>6
  <2> QED BY <2>2, <2>3, <2>4, <2>5, <2>6
<1>10. ASSUME NEW i \in 1..Len(out'), NEW j \in 1..Len(out'), out'[i].id # NoCall,
              out'[i].id = out'[j].id
       PROVE  i = j
  <2>1. CASE i \in 1..Len(out) /\ out'[i] = out[i]
    <3>1. out[i].id # NoCall /\ out[i].id = out'[j].id /\ call[out[i].id] = "answered"
      BY <1>8, <1>10, <2>1
    <3>2. ~(\E m \in 1..Len(a) : j = Len(out) + m /\ out'[j] = a[m])
      BY <1>7, <3>1
    <3>3. ~(\E m \in 1..Len(b) : j = Len(out) + Len(a) + m /\ out'[j] = b[m])
      BY <1>9, <2>1, <3>1
    <3>4. j \in 1..Len(out) /\ out'[j] = out[j]
      BY <1>p, <3>1, <3>2, <3>3
    <3> QED BY <2>1, <3>1, <3>4 DEF ObservedInv, Distinct
  <2>2. CASE \E m \in 1..Len(a) : i = Len(out) + m /\ out'[i] = a[m]
    <3>1. PICK m \in 1..Len(a) : i = Len(out) + m /\ out'[i] = a[m]
      BY <2>2
    <3>2. ~(j \in 1..Len(out) /\ out'[j] = out[j])
      BY <1>7, <1>8, <1>10, <3>1
    <3>3. ~(\E k \in 1..Len(b) : out'[j] = b[k])
      BY <1>5, <1>7, <1>10, <3>1
    <3>4. PICK k \in 1..Len(a) : j = Len(out) + k /\ out'[j] = a[k]
      BY <1>10, <1>p, <3>2, <3>3
    <3>5. m = k
      BY <1>4, <1>10, <3>1, <3>4
    <3> QED BY <3>1, <3>4, <3>5
  <2>3. CASE \E m \in 1..Len(b) : i = Len(out) + Len(a) + m /\ out'[i] = b[m]
    <3>1. PICK m \in 1..Len(b) : i = Len(out) + Len(a) + m /\ out'[i] = b[m]
      BY <2>3
    <3>2. ~(j \in 1..Len(out) /\ out'[j] = out[j])
      BY <1>9, <1>10, <3>1
    <3>3. ~(\E k \in 1..Len(a) : out'[j] = a[k])
      BY <1>5, <1>7, <1>10, <3>1
    <3>4. PICK k \in 1..Len(b) : j = Len(out) + Len(a) + k /\ out'[j] = b[k]
      BY <1>10, <1>p, <3>2, <3>3
    <3>5. m = k
      BY <1>6, <1>10, <3>1, <3>4
    <3> QED BY <3>1, <3>4, <3>5
  <2> QED BY <1>10, <1>p, <2>1, <2>2, <2>3
<1>11. ASSUME NEW i \in 1..Len(out'), out'[i].id # NoCall PROVE call'[out'[i].id] = "answered"
  <2>1. \A c \in Calls : call[c] = "answered" \/ c \in Steers => call'[c] = "answered"
    BY <1>c
  <2>2. out'[i].id \in Calls
    <3>1. out'[i] \in Emitted
      BY EntryType DEF Typed, OutTypes
    <3> QED BY <1>11, <3>1 DEF Emitted
  <2>3. call[out'[i].id] = "answered" \/ out'[i].id \in Steers
    <3>1. CASE i \in 1..Len(out) /\ out'[i] = out[i]
      BY <1>8, <1>11, <3>1
    <3>2. CASE \E m \in 1..Len(a) : out'[i] = a[m]
      BY <1>4, <3>2
    <3>3. CASE \E m \in 1..Len(b) : out'[i] = b[m]
      BY <1>5, <3>3
    <3> QED BY <1>11, <1>p, <3>1, <3>2, <3>3
  <2> QED BY <2>1, <2>2, <2>3
<1>12. ASSUME NEW c \in Calls, call'[c] = "answered" PROVE \E i \in 1..Len(out') : out'[i].id = c
  <2>0. /\ \A m \in 1..Len(out) : m \in 1..Len(out')
        /\ \A m \in 1..Len(a) : Len(out) + m \in 1..Len(out')
        /\ \A m \in 1..Len(b) : Len(out) + Len(a) + m \in 1..Len(out')
    BY <1>n, <1>2, <1>3
  <2>1. CASE c \in Steers
    <3>1. PICK m \in 1..Len(a) : a[m].id = c
      BY <1>4, <2>1
    <3> QED BY <1>2, <2>0, <3>1
  <2>2. CASE c \notin Steers
    <3>1. call[c] = "answered"
      BY <1>c, <1>12, <2>2
    <3>2. CASE Has(out, c)
      BY <1>2, <2>0, <3>2 DEF Has
    <3>3. CASE Has(pending, c)
      <4>1. PICK n \in 1..Len(pending) : pending[n].id = c
        BY <3>3 DEF Has
      <4>2. n \in Answers
        BY <4>1, AssumedConstants DEF Answers, ShapeInv, Shaped
      <4>3. PICK m \in 1..Len(b) : w[m] = n
        BY <1>1, <4>2 DEF Waiting
      <4>4. b[m].id = c
        BY <1>5, <4>1, <4>3
      <4> QED BY <1>2, <2>0, <4>4
    <3> QED BY <3>1, <3>2, <3>3 DEF ObservedInv
  <2> QED BY <2>1, <2>2
<1> QED BY <1>c, <1>10, <1>11, <1>12 DEF ObservedInv, Distinct, InState, Has

LEMMA ObservedJoins ==
  ASSUME Typed, Typed', ObservedInv, NEW c \in Calls, NEW s, NEW from, Joins(Steer(c, s)),
         UNCHANGED out, Begun(c, from, "answered"), from # "answered"
  PROVE  ObservedInv'
<1>0. /\ Len(pending) \in Nat /\ call \in [Calls -> {"idle", "sent", "out", "reported", "answered"}]
      /\ \A i \in 1..Len(pending) : pending[i].id # NoCall => pending[i].id \in Calls
      /\ \A i \in 1..Len(out) : out[i].id # NoCall => out[i].id \in Calls
  BY EntriesAre DEF Typed, CallTypes, Observation, Emitted
<1>1. /\ Len(pending') = Len(pending) + 1
      /\ \A i \in 1..Len(pending) : pending'[i] = pending[i]
      /\ pending'[Len(pending) + 1].id = c
  BY NewShapes DEF Joins
<1>2. ASSUME NEW i \in 1..Len(pending') PROVE i \in 1..Len(pending) \/ i = Len(pending) + 1
  BY <1>0, <1>1
<1>3. /\ \A i \in 1..Len(pending) : pending[i].id # c
      /\ \A i \in 1..Len(out) : out[i].id # c
  BY AssumedConstants DEF ObservedInv, InState, Begun
<1>4. \A d \in Calls : call[d] = "answered" \/ d = c <=> call'[d] = "answered"
  BY <1>0 DEF Begun
<1>5. Distinct(pending)'
  <2> SUFFICES ASSUME NEW i \in 1..Len(pending'), NEW j \in 1..Len(pending'),
                      pending'[i].id # NoCall, pending'[i].id = pending'[j].id
               PROVE  i = j
    BY DEF Distinct
  <2> QED BY <1>1, <1>2, <1>3 DEF ObservedInv, Distinct
<1>6. InState(pending, "answered")'
  <2> SUFFICES ASSUME NEW i \in 1..Len(pending'), pending'[i].id # NoCall
               PROVE  call'[pending'[i].id] = "answered"
    BY DEF InState
  <2> QED BY <1>0, <1>1, <1>2, <1>4 DEF ObservedInv, InState
<1>7. Distinct(out)' /\ InState(out, "answered")'
  BY <1>0, <1>4 DEF ObservedInv, Distinct, InState
<1>8. \A i \in 1..Len(pending'), j \in 1..Len(out') :
           pending'[i].id # NoCall => pending'[i].id # out'[j].id
  BY <1>1, <1>2, <1>3 DEF ObservedInv
<1>9. ASSUME NEW d \in Calls, call'[d] = "answered" PROVE Has(pending, d)' \/ Has(out, d)'
  <2>1. 1..Len(pending) \subseteq 1..Len(pending') /\ Len(pending) + 1 \in 1..Len(pending')
    BY <1>0, <1>1
  <2>2. CASE d = c
    BY <1>1, <2>1, <2>2 DEF Has
  <2>3. CASE call[d] = "answered"
    BY <1>1, <2>1, <2>3 DEF ObservedInv, Has
  <2> QED BY <1>4, <1>9, <2>2, <2>3
<1> QED BY <1>5, <1>6, <1>7, <1>8, <1>9 DEF ObservedInv

LEMMA ObservedGrows ==
  ASSUME Typed, Typed', ObservedInv, UNCHANGED out, call' = call, Len(pending) <= Len(pending'),
         \A i \in 1..Len(pending') :
           (i \in 1..Len(pending) /\ pending'[i] = pending[i]) \/ pending'[i].id = NoCall,
         \A i \in 1..Len(pending) : pending'[i] = pending[i]
  PROVE  ObservedInv'
<1>1. Distinct(pending)' /\ InState(pending, "answered")'
  BY DEF ObservedInv, Distinct, InState
<1>2. Distinct(out)' /\ InState(out, "answered")'
  BY DEF ObservedInv, Distinct, InState
<1>3. \A i \in 1..Len(pending'), j \in 1..Len(out') :
           pending'[i].id # NoCall => pending'[i].id # out'[j].id
  BY DEF ObservedInv
<1>4. 1..Len(pending) \subseteq 1..Len(pending')
  BY EntriesAre DEF Typed, OutTypes
<1>5. \A c \in Calls : call'[c] = "answered" => Has(pending, c)' \/ Has(out, c)'
  BY <1>4 DEF ObservedInv, Has
<1> QED BY <1>1, <1>2, <1>3, <1>5 DEF ObservedInv

LEMMA ObservedSame ==
  ASSUME Typed, Typed', ObservedInv, UNCHANGED <<pending, out>>,
         \A c \in Calls : call'[c] = "answered" <=> call[c] = "answered"
  PROVE  ObservedInv'
<1>1. /\ \A i \in 1..Len(pending) : pending[i].id # NoCall => pending[i].id \in Calls
      /\ \A i \in 1..Len(out) : out[i].id # NoCall => out[i].id \in Calls
  BY EntriesAre DEF Observation, Emitted
<1> QED BY <1>1 DEF ObservedInv, Distinct, InState, Has

LEMMA ObservedStep ==
  ASSUME Typed, Typed', MailInv, ReportsInv, ShapeInv, ObservedInv, ArbiterNext
  PROVE  ObservedInv'
<1>0. call \in [Calls -> {"idle", "sent", "out", "reported", "answered"}] /\ Len(pending) \in Nat
      /\ PerUpdate \in Nat
  BY EntriesAre, Naturals0 DEF Typed, CallTypes
<1>1. ASSUME UNCHANGED call, ~Fail, ~TakeCommand, TakeEvent => Head(events).id = NoCall
      PROVE  ObservedInv'
  <2>1. CASE UNCHANGED <<pending, out>>
    BY <1>1, <2>1, ObservedSame
  <2>2. ASSUME UNCHANGED out, NEW u \in 1..(MaxReceived + 1), Takes(u) PROVE ObservedInv'
    <3>1. /\ Len(pending') = Len(pending) + PerUpdate
          /\ \A i \in 1..Len(pending) : pending'[i] = pending[i]
          /\ \A k \in 1..PerUpdate : pending'[Len(pending) + k].id = NoCall
      BY <2>2, NewShapes DEF Takes
    <3>2. ASSUME NEW i \in 1..Len(pending'), i \notin 1..Len(pending) PROVE pending'[i].id = NoCall
      <4>1. i - Len(pending) \in 1..PerUpdate /\ i = Len(pending) + (i - Len(pending))
        BY <1>0, <3>1, <3>2
      <4> QED BY <3>1, <4>1
    <3>3. Len(pending) <= Len(pending')
      BY <1>0, <3>1
    <3> QED BY <1>1, <2>2, <3>1, <3>2, <3>3, ObservedGrows
  <2>3. ASSUME UNCHANGED out, Joins(Prompt) PROVE ObservedInv'
    <3>1. \A i \in 1..Len(pending') :
            (i \in 1..Len(pending) /\ pending'[i] = pending[i]) \/ pending'[i].id = NoCall
      BY <1>0, <2>3, NewShapes DEF Joins
    <3>2. Len(pending) <= Len(pending') /\ \A i \in 1..Len(pending) : pending'[i] = pending[i]
      BY <1>0, <2>3 DEF Joins
    <3> QED BY <1>1, <2>3, <3>1, <3>2, ObservedGrows
  <2>4. CASE Emit
    BY <1>1, <2>4, ObservedEmit
  <2>5. TakeEvent => Head(events).id \notin Calls
    BY <1>1, AssumedConstants
  <2> QED BY <1>1, <2>1, <2>2, <2>3, <2>4, <2>5, Actions
<1>2. ASSUME NEW c \in Calls, Command(c), Begun(c, "idle", "sent") PROVE ObservedInv'
  <2>1. UNCHANGED <<pending, out>>
    BY <1>2, OutQuiet
  <2> QED BY <1>0, <1>2, <2>1, ObservedSame DEF Begun
<1>3. ASSUME NEW c \in Calls, NEW s \in Sequences, Report(c, s), Begun(c, "out", "reported")
      PROVE  ObservedInv'
  <2>1. UNCHANGED <<pending, out>>
    BY <1>3, OutQuiet
  <2> QED BY <1>0, <1>3, <2>1, ObservedSame DEF Begun
<1>4. ASSUME TakeCommand, Head(commands) \in Calls PROVE UNCHANGED out
  BY <1>4, PendingGrows DEF Typed
<1>5. ASSUME TakeCommand, Head(commands) \in Calls, Begun(Head(commands), "sent", "out"),
             UNCHANGED pending
      PROVE  ObservedInv'
  BY <1>0, <1>4, <1>5, ObservedSame DEF Begun
<1>6. ASSUME TakeCommand, Head(commands) \in Calls, Begun(Head(commands), "sent", "answered"),
             Joins(Steer(Head(commands), 0))
      PROVE  ObservedInv'
  BY <1>4, <1>6, ObservedJoins
<1>7. ASSUME TakeEvent, Head(events).id \in Calls, Begun(Head(events).id, "reported", "answered"),
             Joins(Steer(Head(events).id, Head(events).seq))
      PROVE  ObservedInv'
  <2>1. UNCHANGED out
    BY <1>7, PendingGrows DEF Typed
  <2> QED BY <1>7, <2>1, ObservedJoins
<1>8. CASE Fail
  BY <1>8, ObservedFail
<1> QED BY <1>1, <1>2, <1>3, <1>5, <1>6, <1>7, <1>8, CallMoves

LEMMA CallsInitially == ArbiterInit => CallsInv
<1> SUFFICES ASSUME ArbiterInit PROVE CallsInv
  OBVIOUS
<1>1. commands = <<>> /\ events = <<>> /\ pending = <<>> /\ out = <<>> /\ at = "drain"
      /\ \A c \in Calls : call[c] = "idle"
  BY DEF ArbiterInit
<1> QED BY <1>1 DEF CallsInv, MailInv, ReportsInv, ObservedInv, EndInv, Distinct, InState

LEMMA CallsStep ==
  ASSUME Typed, OrderInv, CallsInv, [ArbiterNext]_vars
  PROVE  CallsInv'
<1>0. Typed'
  BY TypedStep
<1>1. CASE ArbiterNext
  BY <1>0, <1>1, MailStep, ReportsStep, ObservedStep, EndStep DEF CallsInv, OrderInv
<1>2. CASE UNCHANGED vars
  BY <1>2, Stutters DEF CallsInv, MailInv, ReportsInv, ObservedInv, EndInv, Distinct, InState, Has,
     Steers
<1> QED BY <1>1, <1>2

-----------------------------------------------------------------------------
(***************************************************************************)
(* The barriers.                                                           *)
(***************************************************************************)
StillBeyond(n) == \A i \in 1..Len(delivery') : delivery'[i] > n \/ delivery'[i] \in missed'

LEMMA MissedGrows == ASSUME [ArbiterNext]_vars PROVE missed \subseteq missed'
<1>1. BarrierGivesUp => missed \subseteq missed'
  BY DEF BarrierGivesUp
<1> QED BY <1>1, MissedMoves, Stutters

LEMMA BeyondStays ==
  ASSUME Typed, [ArbiterNext]_vars, NEW n \in Nat, n <= received, Beyond(delivery, n)
  PROVE  StillBeyond(n)
<1>1. Typed' /\ received \in Nat
  BY TypedStep, Naturals0
<1>2. received + 1 > n
  BY <1>1
<1> QED BY <1>1, <1>2, MissedGrows, QueueEntries DEF Beyond, StillBeyond

(* What the terminal's flags become. *)
LEMMA FlagsMove ==
  ASSUME Typed, ArbiterNext
  PROVE  /\ terminalAsked' => terminalAsked \/ (Drained /\ Prompted)
         /\ terminalAsked => terminalAsked'
         /\ updatesDrained' => updatesDrained \/ Sweep \/ (TakeBarrier /\ Prompted /\ terminalAsked)
         /\ promptBarrierRequested' =>
              \/ promptBarrierRequested
              \/ ((Drained \/ TakeEvent) /\ Prompted /\ barrier' = Requested(promptSeq, TRUE))
         /\ promptQueued => promptQueued'
         /\ promptQueued' => promptQueued \/ (Settled /\ Prompted /\ updatesDrained)
         /\ barrierFence' => barrierFence \/ (TakeBarrier /\ barrier.seq = 0)
         /\ barrierFence => barrierFence'
         /\ barrierCompleted' = barrierCompleted \/ (TakeBarrier /\ barrierCompleted' = barrier.seq)
         /\ Prompted' => Prompted \/ TakePrompt
<1> USE DEF terminalVars, fenceVars, arbiterOnly, loopVars
<1> DEFINE Quiet == /\ UNCHANGED <<terminalAsked, updatesDrained, promptBarrierRequested,
                                   promptQueued, barrierFence, barrierCompleted>>
                    /\ Prompted' => Prompted \/ TakePrompt
<1>0. CASE Quiet
  BY <1>0
<1> HIDE DEF Quiet
<1>1. CASE Running /\ Others
  <2>1. Others => Quiet
    BY DEF Others, PeerUpdates, PeerAnswers, PromptReturns, Deliver, Command, Report,
       Completes, BarrierReturns, BarrierGivesUp, Prompted, Quiet
  <2> QED BY <1>0, <1>1, <2>1
<1>2. CASE TakeCommand \/ SweepEnds \/ Emit \/ Fail \/ Rest \/ TakePrompt \/ TakeUpdate \/ Close
  <2>1. Quiet
    BY <1>2 DEF TakeCommand, SweepEnds, Emit, Fail, Rest, TakePrompt, TakeUpdate, Close, Prompted,
       Quiet
  <2> QED BY <1>0, <2>1
<1>3. CASE Sweep \/ SweepTakes \/ Settled
  <2>1. CASE Sweep
    BY <2>1 DEF Sweep, Prompted
  <2>2. CASE SweepTakes
    BY <2>2 DEF SweepTakes, Prompted
  <2>3. CASE Settled
    BY <2>3 DEF Settled, Prompted
  <2> QED BY <1>3, <2>1, <2>2, <2>3
<1>4. CASE TakeBarrier
  BY <1>4 DEF TakeBarrier, Prompted
<1>5. CASE Drained
  BY <1>5 DEF Drained, PromptBarrier, WantsPromptBarrier, Prompted
<1>6. CASE TakeEvent
  <2>1. CASE Head(events).id = NoCall
    BY <1>6, <2>1 DEF TakeEvent, Prompted
  <2>2. CASE Head(events).id # NoCall
    BY <1>6, <2>2 DEF TakeEvent, PromptBarrier, WantsPromptBarrier, Prompted
  <2> QED BY <2>1, <2>2
<1> QED BY <1>1, <1>2, <1>3, <1>4, <1>5, <1>6 DEF ArbiterNext, Loop

(* The barrier the worker has. *)
LEMMA BarrierMoves ==
  ASSUME Typed, MarksInv, ArbiterNext
  PROVE  \/ barrier' = barrier
         \/ /\ barrier.state = "idle" /\ barrier'.state = "waiting"
            /\ barrier'.seq = 0 => Prompted /\ barrier'.target = received
         \/ /\ barrier.state = "waiting" /\ barrier'.state = "result"
            /\ StillBeyond(barrier.target)
            /\ barrier'.seq = barrier.seq /\ barrier'.target = barrier.target
         \/ TakeBarrier /\ barrier' = Idle
<1>1. CASE /\ Drained \/ TakeEvent
           /\ barrier' = Requested(promptSeq, TRUE) /\ barrier' # barrier
  <2>1. Prompted
    BY <1>1 DEF Drained, TakeEvent, PromptBarrier, WantsPromptBarrier
  <2> QED BY <1>1, <2>1 DEF Requested
<1>2. CASE /\ Rest /\ pending # <<>> /\ ~Held /\ Fenced
           /\ barrier' = Requested(Candidate.seq, FALSE)
  <2>1. Candidate.seq = 0 => Prompted
    BY <1>2 DEF Fenced
  <2> QED BY <1>2, <2>1 DEF Requested
<1>3. CASE BarrierReturns \/ BarrierGivesUp
  <2>1. /\ barrier.state = "waiting" /\ barrier' = [barrier EXCEPT !.state = "result"]
        /\ delivery' = delivery
    BY <1>3, PeerQuiet DEF BarrierReturns, BarrierGivesUp
  <2>2. \A i \in 1..Len(delivery) :
          delivery[i] <= barrier.target => delivery[i] \in Undelivered(barrier.target)
    BY DEF Undelivered
  <2>3. Undelivered(barrier.target) = {} \/ Undelivered(barrier.target) \subseteq missed'
    BY <1>3 DEF BarrierReturns, BarrierGivesUp
  <2>4. \A i \in 1..Len(delivery) : delivery[i] \in Nat
    BY NatSeq, EntryType DEF Typed, PeerTypes
  <2>5. barrier.target \in Nat
    BY Naturals0
  <2>6. StillBeyond(barrier.target)
    BY <2>1, <2>2, <2>3, <2>4, <2>5 DEF StillBeyond
  <2> QED BY <2>1, <2>6 DEF Typed, LoopTypes, Barrier
<1>4. CASE TakeBarrier
  BY <1>4 DEF TakeBarrier
<1> QED BY <1>1, <1>2, <1>3, <1>4, BarrierStep DEF Typed

LEMMA BarrierInitially == ArbiterInit => BarrierInv
BY DEF ArbiterInit, BarrierInv, Idle, Prompted

LEMMA BarrierInvStep ==
  ASSUME Typed, MarksInv, BarrierInv, ArbiterNext
  PROVE  BarrierInv'
<1>0. Typed' /\ received \in Nat /\ promptAt \in Nat /\ promptAt <= received
      /\ barrier.seq \in Nat /\ barrier.target \in Nat /\ barrierCompleted \in Nat
      /\ barrier.seq <= barrier.target /\ barrier.target <= received
      /\ barrierCompleted <= received
  BY TypedStep, Naturals0 DEF Typed, PeerInv, MarksInv, Numbered
<1>p. Prompted => Prompted' /\ promptAt' = promptAt
  BY PeerMoves
<1>e. /\ \A i \in 1..Len(delivery) : delivery[i] \in Nat
      /\ \A i \in 1..Len(delivery') : delivery'[i] \in Nat
  <2>1. delivery \in Seq(Nat) /\ delivery' \in Seq(Nat)
    BY <1>0, NatSeq DEF Typed, PeerTypes
  <2> QED BY <2>1, EntryType
<1>1. ~Prompted' =>
        ~updatesDrained' /\ ~terminalAsked' /\ ~promptBarrierRequested' /\ ~barrierFence'
  <2> SUFFICES ASSUME ~Prompted'
               PROVE  ~updatesDrained' /\ ~terminalAsked' /\ ~promptBarrierRequested' /\ ~barrierFence'
    OBVIOUS
  <2>1. ~Prompted
    BY <1>p
  <2>2. ~Sweep
    BY <2>1 DEF Sweep, DrainDue
  <2>3. TakeBarrier => barrier.state # "idle"
    BY DEF TakeBarrier
  <2> QED BY <2>1, <2>2, <2>3, FlagsMove DEF BarrierInv
<1>2. Prompted' /\ at' # "drain" => terminalAsked'
  <2>1. CASE Running /\ Others
    <3>1. at' = at /\ (Prompted' => Prompted)
      BY <2>1 DEF Others, PeerUpdates, PeerAnswers, PromptReturns, Deliver, Command, Report,
         Completes, BarrierReturns, BarrierGivesUp, arbiterOnly, loopVars, Prompted
    <3> QED BY <3>1, FlagsMove DEF BarrierInv
  <2>2. CASE Drained
    BY <2>2 DEF Drained, Prompted
  <2>3. CASE at' = "drain"
    BY <2>3
  <2>4. CASE TakeBarrier
    BY <2>4 DEF TakeBarrier, terminalVars, Prompted
  <2>5. CASE Sweep \/ SweepTakes \/ SweepEnds \/ Settled \/ Fail \/ Rest \/ Close
    <3>1. at # "drain" /\ (Prompted' => Prompted)
      BY <2>5, FlagsMove DEF Sweep, SweepTakes, Sweeping, SweepEnds, Settled, Fail, Rest, Close, TakePrompt
    <3> QED BY <3>1, FlagsMove DEF BarrierInv
  <2>6. TakeCommand \/ Emit \/ TakePrompt \/ TakeEvent \/ TakeUpdate => at' = "drain"
    BY DEF TakeCommand, Emit, TakePrompt, TakeEvent, TakeUpdate
  <2> QED BY <2>1, <2>2, <2>3, <2>4, <2>5, <2>6 DEF ArbiterNext, Loop
<1>3. barrier'.state = "result" => StillBeyond(barrier'.target)
  <2>1. CASE barrier' = barrier
    BY <1>0, <2>1, BeyondStays DEF BarrierInv
  <2>2. CASE StillBeyond(barrier.target) /\ barrier'.target = barrier.target
    BY <2>2
  <2> QED BY <2>1, <2>2, BarrierMoves DEF Idle
<1>4. barrier'.state # "idle" /\ barrier'.seq = 0 => Prompted' /\ promptAt' <= barrier'.target
  <2>1. CASE barrier' = barrier
    BY <1>p, <2>1 DEF BarrierInv
  <2>2. CASE /\ barrier.state = "waiting"
             /\ barrier'.seq = barrier.seq /\ barrier'.target = barrier.target
    BY <1>p, <2>2 DEF BarrierInv
  <2>3. CASE barrier'.seq = 0 => Prompted /\ barrier'.target = received
    BY <1>0, <1>p, <2>3
  <2> QED BY <2>1, <2>2, <2>3, BarrierMoves DEF Idle
<1>5. barrierCompleted' # 0 => StillBeyond(barrierCompleted')
  <2>1. CASE barrierCompleted' = barrierCompleted
    BY <1>0, <2>1, BeyondStays DEF BarrierInv
  <2>2. CASE TakeBarrier /\ barrierCompleted' = barrier.seq
    <3>1. Beyond(delivery, barrier.target)
      BY <2>2 DEF TakeBarrier, BarrierInv
    <3>2. StillBeyond(barrier.target)
      BY <1>0, <3>1, BeyondStays
    <3> QED BY <1>0, <1>e, <2>2, <3>2 DEF StillBeyond
  <2> QED BY <2>1, <2>2, FlagsMove
<1>6. barrierFence' => StillBeyond(promptAt')
  <2>1. CASE barrierFence
    <3>1. Prompted /\ Beyond(delivery, promptAt)
      BY <2>1 DEF BarrierInv
    <3> QED BY <1>0, <1>p, <3>1, BeyondStays
  <2>2. CASE TakeBarrier /\ barrier.seq = 0
    <3>1. Beyond(delivery, barrier.target) /\ Prompted /\ promptAt <= barrier.target
      BY <2>2 DEF TakeBarrier, BarrierInv
    <3>2. StillBeyond(barrier.target)
      BY <1>0, <3>1, BeyondStays
    <3> QED BY <1>0, <1>e, <1>p, <3>1, <3>2 DEF StillBeyond
  <2> QED BY <2>1, <2>2, FlagsMove
<1> QED BY <1>1, <1>2, <1>3, <1>4, <1>5, <1>6 DEF BarrierInv, Beyond, StillBeyond

-----------------------------------------------------------------------------
(***************************************************************************)
(* The prompt's observation.                                               *)
(***************************************************************************)
LEMMA PromptInitially == ArbiterInit => PromptInv
BY DEF ArbiterInit, PromptInv, QueuedOnce

(* Nothing changes when what joins the pending observations is no prompt. *)
LEMMA PromptsStay ==
  ASSUME QueuedOnce, promptQueued' <=> promptQueued, UNCHANGED out,
         \A i \in 1..Len(pending) : i \in 1..Len(pending') /\ pending'[i] = pending[i],
         \A i \in 1..Len(pending') :
           (i \in 1..Len(pending) /\ pending'[i] = pending[i]) \/ pending'[i].kind # "prompt"
  PROVE  QueuedOnce'
BY DEF QueuedOnce

LEMMA PromptJoins ==
  ASSUME Typed, Typed', QueuedOnce, ~promptQueued, promptQueued', UNCHANGED out, Joins(Prompt)
  PROVE  QueuedOnce'
<1>0. Len(pending) \in Nat /\ Len(pending') = Len(pending) + 1
      /\ pending'[Len(pending) + 1].kind = "prompt"
      /\ \A i \in 1..Len(pending) : pending'[i] = pending[i]
  BY EntriesAre, NewShapes DEF Joins
<1>1. /\ \A i \in 1..Len(pending) : pending[i].kind # "prompt"
      /\ \A i \in 1..Len(out) : out[i].kind # "prompt"
  BY DEF QueuedOnce
<1>2. ASSUME NEW i \in 1..Len(pending'), pending'[i].kind = "prompt" PROVE i = Len(pending) + 1
  BY <1>0, <1>1, <1>2
<1>3. Len(pending) + 1 \in 1..Len(pending')
  BY <1>0
<1> QED BY <1>0, <1>1, <1>2, <1>3 DEF QueuedOnce

LEMMA PromptEmits ==
  ASSUME Typed, Typed', QueuedOnce, promptQueued' <=> promptQueued, ArbiterNext, Emit
  PROVE  QueuedOnce'
<1>0. /\ Best \in 1..Len(pending) /\ Candidate = pending[Best] /\ Len(out') = Len(out) + 1
      /\ Len(out) \in Nat /\ ~Fail
      /\ \A i \in 1..Len(out) : out'[i] = out[i]
  BY EmitFacts, EntriesAre DEF Typed, Emit, Emittable, Fail
<1>1. /\ Len(out) + 1 \in 1..Len(out')
      /\ \A i \in 1..Len(out') : i \in 1..Len(out) \/ i = Len(out) + 1
      /\ \A i \in 1..Len(out) : i \in 1..Len(out')
      /\ Len(out) + 1 \notin 1..Len(out)
  BY <1>0
<1>2. out'[Len(out) + 1].kind = Candidate.kind
  BY <1>0, <1>1, NewOut
<1>3. \A i, j \in 1..Len(pending') :
        pending'[i].kind = "prompt" /\ pending'[j].kind = "prompt" => i = j
  BY Places DEF QueuedOnce
<1>4. ASSUME NEW i \in 1..Len(out'), NEW j \in 1..Len(out'), out'[i].kind = "prompt",
             out'[j].kind = "prompt"
      PROVE  i = j
  <2>1. CASE i \in 1..Len(out) /\ j \in 1..Len(out)
    BY <1>0, <1>4, <2>1 DEF QueuedOnce
  <2>2. CASE (i = Len(out) + 1 /\ j \in 1..Len(out)) \/ (j = Len(out) + 1 /\ i \in 1..Len(out))
    BY <1>0, <1>2, <1>4, <2>2 DEF QueuedOnce
  <2> QED BY <1>1, <2>1, <2>2
<1>5. ASSUME NEW i \in 1..Len(pending'), NEW j \in 1..Len(out'), pending'[i].kind = "prompt",
             out'[j].kind = "prompt"
      PROVE  FALSE
  <2>1. Place(i) \in 1..Len(pending) /\ Place(i) # Best /\ pending[Place(i)].kind = "prompt"
    BY <1>5, Places
  <2>2. CASE j \in 1..Len(out)
    BY <1>0, <1>5, <2>1, <2>2 DEF QueuedOnce
  <2>3. CASE j = Len(out) + 1
    BY <1>0, <1>2, <1>5, <2>1, <2>3 DEF QueuedOnce
  <2> QED BY <1>1, <2>2, <2>3
<1>6. ASSUME promptQueued'
      PROVE  \/ \E i \in 1..Len(pending') : pending'[i].kind = "prompt"
             \/ \E i \in 1..Len(out') : out'[i].kind = "prompt"
  <2>1. CASE \E i \in 1..Len(out) : out[i].kind = "prompt"
    BY <1>0, <1>1, <2>1
  <2>2. ASSUME NEW m \in 1..Len(pending), pending[m].kind = "prompt"
        PROVE  \/ \E i \in 1..Len(pending') : pending'[i].kind = "prompt"
               \/ \E i \in 1..Len(out') : out'[i].kind = "prompt"
    <3>1. CASE m = Best
      BY <1>0, <1>1, <1>2, <2>2, <3>1
    <3>2. CASE m # Best
      BY <2>2, <3>2, Places
    <3> QED BY <3>1, <3>2
  <2> QED BY <1>6, <2>1, <2>2 DEF QueuedOnce
<1>7. ASSUME \/ \E i \in 1..Len(pending') : pending'[i].kind = "prompt"
             \/ \E i \in 1..Len(out') : out'[i].kind = "prompt"
      PROVE  promptQueued'
  <2>1. CASE \E i \in 1..Len(pending') : pending'[i].kind = "prompt"
    BY <2>1, Places DEF QueuedOnce
  <2>2. CASE \E i \in 1..Len(out') : out'[i].kind = "prompt"
    BY <1>0, <1>1, <1>2, <2>2 DEF QueuedOnce
  <2> QED BY <1>7, <2>1, <2>2
<1> QED BY <1>3, <1>4, <1>5, <1>6, <1>7 DEF QueuedOnce

LEMMA PromptStep ==
  ASSUME Typed, ShapeInv, BarrierInv, PromptInv, EndInv, ArbiterNext
  PROVE  PromptInv'
<1>0. Typed' /\ at # "failed" /\ QueuedOnce /\ Len(pending) \in Nat /\ PerUpdate \in Nat
      /\ Len(pending') \in Nat /\ Len(out) \in Nat /\ Len(out') \in Nat
  <2>1. Typed'
    BY TypedStep
  <2>2. Len(pending') \in Nat /\ Len(out') \in Nat
    BY <2>1 DEF Typed, OutTypes
  <2> QED BY <2>1, <2>2, AtMoves, EntriesAre, Naturals0 DEF PromptInv
<1>1. promptQueued' => Prompted'
  BY FlagsMove, PeerMoves DEF PromptInv
<1>q. ~Settled => (promptQueued' <=> promptQueued)
  BY FlagsMove
<1>2. ASSUME at' # "failed" PROVE QueuedOnce'
  <2>1. CASE UNCHANGED <<pending, out>>
    <3>1. promptQueued' <=> promptQueued
      <4>1. CASE Settled
        <5>1. pending # Append(pending, Prompt)
          <6>1. Len(Append(pending, Prompt)) = Len(pending) + 1
            BY PromptType, AppendFacts DEF Typed, OutTypes
          <6> QED BY <1>0, <6>1
        <5> QED BY <2>1, <4>1, <5>1 DEF Settled
      <4> QED BY <1>q, <4>1
    <3> QED BY <1>0, <2>1, <3>1 DEF QueuedOnce
  <2>2. ASSUME SweepTakes \/ TakeUpdate, UNCHANGED out, NEW u \in 1..(MaxReceived + 1), Takes(u)
        PROVE  QueuedOnce'
    <3>1. /\ Len(pending') = Len(pending) + PerUpdate
          /\ \A i \in 1..Len(pending) : pending'[i] = pending[i]
          /\ \A k \in 1..PerUpdate : pending'[Len(pending) + k].kind = "update"
      BY <2>2, NewShapes DEF Takes
    <3>2. ASSUME NEW i \in 1..Len(pending'), i \notin 1..Len(pending)
          PROVE  pending'[i].kind # "prompt"
      <4>1. i - Len(pending) \in 1..PerUpdate /\ i = Len(pending) + (i - Len(pending))
        BY <1>0, <3>1, <3>2
      <4> QED BY <3>1, <4>1
    <3>3. \A i \in 1..Len(pending) : i \in 1..Len(pending')
      BY <1>0, <3>1
    <3>4. promptQueued' <=> promptQueued
      BY <1>q, <2>2 DEF SweepTakes, TakeUpdate, Settled, Sweeping
    <3> QED BY <1>0, <2>2, <3>1, <3>2, <3>3, <3>4, PromptsStay
  <2>3. ASSUME NEW c, NEW s, Joins(Steer(c, s)), UNCHANGED out, ~Settled PROVE QueuedOnce'
    <3>1. /\ Len(pending') = Len(pending) + 1
          /\ \A i \in 1..Len(pending) : pending'[i] = pending[i]
          /\ pending'[Len(pending) + 1].kind = "steer"
      BY <2>3, NewShapes DEF Joins
    <3>2. \A i \in 1..Len(pending') : i \in 1..Len(pending) \/ i = Len(pending) + 1
      BY <1>0, <3>1
    <3>3. \A i \in 1..Len(pending) : i \in 1..Len(pending')
      BY <1>0, <3>1
    <3> QED BY <1>0, <1>q, <2>3, <3>1, <3>2, <3>3, PromptsStay
  <2>4. ASSUME Joins(Prompt), UNCHANGED out, Settled, Prompted, updatesDrained, ~promptQueued
        PROVE  QueuedOnce'
    <3>1. promptQueued'
      BY <2>4 DEF Settled
    <3> QED BY <1>0, <2>4, <3>1, PromptJoins
  <2>5. CASE Emit
    <3>1. promptQueued' <=> promptQueued
      BY <1>q, <2>5 DEF Emit, Settled
    <3> QED BY <1>0, <2>5, <3>1, PromptEmits
  <2>6. ~Fail
    BY <1>2, AtMoves
  <2>7. TakeCommand \/ TakeEvent => ~Settled
    BY DEF TakeCommand, TakeEvent, Settled
  <2> QED BY <2>1, <2>2, <2>3, <2>4, <2>5, <2>6, <2>7, Actions
<1>3. at' = "emit" /\ updatesDrained' => promptQueued'
  <2>1. CASE Settled
    <3>1. updatesDrained => Prompted
      BY DEF BarrierInv
    <3> QED BY <2>1, <3>1 DEF Settled
  <2>2. CASE Running /\ Others
    <3>1. at' = at /\ ~Sweep /\ ~TakeBarrier
      BY <2>2 DEF Others, PeerUpdates, PeerAnswers, PromptReturns, Deliver, Command, Report,
         Completes, BarrierReturns, BarrierGivesUp, arbiterOnly, loopVars, Sweep, TakeBarrier,
         terminalVars, fenceVars, Idle
    <3> QED BY <3>1, FlagsMove DEF PromptInv
  <2>3. CASE ~Settled /\ (Loop \/ TakeUpdate \/ Close)
    <3>1. at' # "emit"
      BY <2>3 DEF Loop, TakeCommand, Drained, Sweep, SweepTakes, Sweeping, SweepEnds, Emit, Fail,
         Rest, TakeUpdate, TakePrompt, TakeEvent, TakeBarrier, Close
    <3> QED BY <3>1
  <2> QED BY <2>1, <2>2, <2>3 DEF ArbiterNext
<1>4. at' = "done" => promptQueued'
  <2> SUFFICES ASSUME at' = "done" PROVE promptQueued'
    OBVIOUS
  <2>1. Rest /\ Over
    BY AtMoves
  <2>2. promptQueued
    BY <2>1 DEF Rest, Over, PromptInv
  <2> QED BY <2>2, FlagsMove
<1>5. at' = "failed" => Len(out') # 0 /\ out'[Len(out')].kind = "prompt"
  <2> SUFFICES ASSUME at' = "failed" PROVE Len(out') # 0 /\ out'[Len(out')].kind = "prompt"
    OBVIOUS
  <2>1. Fail
    BY AtMoves
  <2>2. PICK a, b, p, w :
          /\ a \in Seq(Emitted) /\ b \in Seq(Emitted) /\ p \in Emitted
          /\ out' = ((out \o a) \o b) \o <<p>>
          /\ p.kind = "prompt" /\ p.id = NoCall
          /\ Unresolved(a) /\ Waiting(b, w)
    BY <2>1, FailFacts DEF Typed
  <2>3. Len(out') = Len(out) + Len(a) + Len(b) + 1 /\ out'[Len(out')] = p
    BY <2>2, FailEntries DEF Typed
  <2>4. Len(a) \in Nat /\ Len(b) \in Nat
    BY <2>2
  <2> QED BY <1>0, <2>2, <2>3, <2>4
<1> QED BY <1>1, <1>2, <1>3, <1>4, <1>5 DEF PromptInv

-----------------------------------------------------------------------------
(***************************************************************************)
(* The updates left in the channel.                                        *)
(***************************************************************************)
LEMMA DrainInitially == ArbiterInit => DrainInv
BY DEF ArbiterInit, DrainInv

StillAbove(n) == \A i \in 1..Len(updates') : updates'[i] > n \/ updates'[i] \in missed'

LEMMA AboveStays ==
  ASSUME Typed, [ArbiterNext]_vars, NEW n \in Nat, Beyond(delivery, n), Beyond(updates, n)
  PROVE  StillAbove(n)
<1>1. Typed'
  BY TypedStep
<1> QED BY <1>1, MissedGrows, QueueEntries DEF Beyond, StillAbove

(* A sweep ends with the channel empty; no other action leaves one. *)
LEMMA SweepsEnd ==
  ASSUME Typed, ArbiterNext, Sweeping, ~Sweeping' PROVE updates' = <<>>
<1>1. SweepEnds
  <2>1. ~(Running /\ Others)
    BY DEF Others, PeerUpdates, PeerAnswers, PromptReturns, Deliver, Command, Report,
       Completes, BarrierReturns, BarrierGivesUp, arbiterOnly, loopVars, Sweeping
  <2> QED BY <2>1 DEF ArbiterNext, Loop, TakeCommand, Drained, Sweep, SweepTakes, Sweeping, Settled,
     Emit, Fail, Rest, TakeUpdate, TakePrompt, TakeEvent, TakeBarrier, Close
<1>2. updates' = updates /\ NothingToDrain
  BY <1>1 DEF SweepEnds, peerVars
<1>3. Buffer = 0 => Len(updates) = 0
  BY DEF Typed, PeerTypes
<1> QED BY <1>2, <1>3 DEF NothingToDrain, Typed, PeerTypes

LEMMA Swept ==
  ASSUME Typed, BarrierInv, ArbiterNext
  PROVE  /\ Sweep => Sweeping'
         /\ TakeBarrier /\ Prompted => Sweeping'
         /\ Settled => ~Sweeping
<1>1. Sweep => Sweeping'
  BY DEF Sweep, Sweeping
<1>2. TakeBarrier /\ Prompted => Sweeping'
  BY DEF TakeBarrier, Sweeping, BarrierInv
<1> QED BY <1>1, <1>2 DEF Settled, Sweeping

(* Without sequences every barrier is the last one. *)
LEMMA UnsequencedFence ==
  ASSUME Typed, MarksInv, BarrierInv, DrainInv, ArbiterNext, ~Sequenced
  PROVE  /\ promptBarrierRequested' /\ barrier'.state = "idle" => barrierFence'
         /\ updatesDrained' => barrierFence'
<1>1. promptSeq = 0 /\ barrier.seq = 0
  BY DEF Typed, PeerInv, MarksInv, Numbered
<1>2. TakeBarrier => barrierFence' /\ barrier.state # "idle"
  BY <1>1 DEF TakeBarrier
<1>3. promptBarrierRequested' /\ barrier'.state = "idle" => barrierFence'
  <2> SUFFICES ASSUME promptBarrierRequested', barrier'.state = "idle", ~TakeBarrier PROVE barrierFence'
    BY <1>2
  <2>1. barrier' = barrier
    BY BarrierMoves
  <2>2. CASE promptBarrierRequested
    BY <2>1, <2>2, FlagsMove DEF DrainInv
  <2>3. CASE barrier' = Requested(promptSeq, TRUE)
    <3>1. barrierFence
      BY <1>1, <2>1, <2>3 DEF Requested
    <3> QED BY <3>1, FlagsMove
  <2> QED BY <2>2, <2>3, FlagsMove
<1>4. updatesDrained' => barrierFence'
  <2>1. Sweep => barrierFence
    BY DEF Sweep, DrainDue, DrainInv
  <2> QED BY <1>2, <2>1, FlagsMove DEF DrainInv
<1> QED BY <1>3, <1>4

StillFollows(p, o) ==
  p.kind = "prompt" /\ o.kind = "update" => o.from > promptAt' \/ o.from \in missed'

LEMMA FollowStep ==
  ASSUME Typed, OrderInv, PromptInv, BarrierInv, DrainInv, ArbiterNext, ~Sequenced,
         NEW i \in 1..Len(pending'), NEW j \in 1..Len(pending'), i < j
  PROVE  StillFollows(pending'[i], pending'[j])
<1>0. Typed' /\ Len(pending) \in Nat /\ PerUpdate \in Nat /\ promptAt \in Nat
      /\ at # "failed"
  BY TypedStep, EntriesAre, Naturals0, AtMoves
<1>p. \A m \in 1..Len(pending) : pending[m].kind = "prompt" =>
        promptQueued /\ promptAt' = promptAt
  BY <1>0, PeerMoves DEF PromptInv, QueuedOnce
<1>1. CASE i \in 1..Len(pending) /\ j \in 1..Len(pending)
           /\ pending'[i] = pending[i] /\ pending'[j] = pending[j]
  BY <1>1, <1>p, MissedGrows DEF DrainInv, Follows, StillFollows
<1>2. ASSUME NEW u \in 1..(MaxReceived + 1), Takes(u) PROVE StillFollows(pending'[i], pending'[j])
  <2>1. /\ Len(pending') = Len(pending) + PerUpdate
        /\ \A m \in 1..Len(pending) : pending'[m] = pending[m]
        /\ \A k \in 1..PerUpdate : pending'[Len(pending) + k].kind = "update"
                                   /\ pending'[Len(pending) + k].from = u
    BY <1>2, NewShapes DEF Takes
  <2>2. ASSUME NEW m \in 1..Len(pending'), m \notin 1..Len(pending)
        PROVE  pending'[m].kind = "update" /\ pending'[m].from = u
    <3>1. m - Len(pending) \in 1..PerUpdate /\ m = Len(pending) + (m - Len(pending))
      BY <1>0, <2>1, <2>2
    <3> QED BY <2>1, <3>1
  <2>3. CASE i \in 1..Len(pending) /\ j \notin 1..Len(pending) /\ pending[i].kind = "prompt"
    <3>1. Beyond(updates, promptAt) /\ Beyond(delivery, promptAt) /\ promptAt' = promptAt
      BY <1>p, <2>3 DEF DrainInv, BarrierInv
    <3>2. u > promptAt \/ u \in missed'
      BY <1>0, <1>2, <3>1, TakenIsNext, MissedGrows DEF OrderInv, Beyond
    <3> QED BY <2>2, <2>3, <3>1, <3>2 DEF StillFollows
  <2>4. j \in 1..Len(pending) => i \in 1..Len(pending)
    BY <1>0
  <2> QED BY <1>1, <2>1, <2>2, <2>3, <2>4 DEF StillFollows
<1>3. ASSUME NEW o, Joins(o), o.kind # "update" PROVE StillFollows(pending'[i], pending'[j])
  <2>1. /\ Len(pending') = Len(pending) + 1
        /\ \A m \in 1..Len(pending) : pending'[m] = pending[m]
        /\ pending'[Len(pending) + 1].kind # "update"
    BY <1>3 DEF Joins
  <2>2. CASE j = Len(pending) + 1
    BY <2>1, <2>2 DEF StillFollows
  <2>3. CASE j # Len(pending) + 1
    <3>1. i \in 1..Len(pending) /\ j \in 1..Len(pending)
      BY <1>0, <2>1, <2>3
    <3> QED BY <1>1, <2>1, <3>1
  <2> QED BY <2>2, <2>3
<1>4. CASE Emit
  <2>1. /\ Place(i) \in 1..Len(pending) /\ pending'[i] = pending[Place(i)]
        /\ Place(j) \in 1..Len(pending) /\ pending'[j] = pending[Place(j)]
        /\ Place(i) < Place(j)
    BY <1>0, <1>4, Places
  <2> QED BY <1>p, <2>1, MissedGrows DEF DrainInv, Follows, StillFollows
<1>5. CASE Fail
  <2>1. pending' = <<>>
    BY <1>5 DEF Fail
  <2> QED BY <2>1
<1>6. CASE pending' = pending
  BY <1>1, <1>6
<1>7. (\A c, s : Steer(c, s).kind # "update") /\ Prompt.kind # "update"
  BY NewShapes
<1> QED BY <1>2, <1>3, <1>4, <1>5, <1>6, <1>7, Actions

LEMMA DrainStep ==
  ASSUME Typed, OrderInv, PromptInv, BarrierInv, DrainInv, ArbiterNext
  PROVE  DrainInv'
<1>0. /\ Typed' /\ MarksInv /\ promptSeq \in Nat /\ promptAt \in Nat /\ barrierCompleted \in Nat
      /\ Sequenced' = Sequenced /\ barrier.seq \in Nat
  BY TypedStep, Naturals0, PeerMoves DEF OrderInv
<1>e. /\ \A i \in 1..Len(delivery) : delivery[i] \in Nat
      /\ \A i \in 1..Len(updates) : updates[i] \in Nat
  <2>1. delivery \in Seq(Nat) /\ updates \in Seq(Nat)
    BY NatSeq DEF Typed, PeerTypes
  <2> QED BY <2>1, EntryType
<1>1. ASSUME ~Sweeping', updatesDrained' \/ promptQueued', promptSeq' # 0,
             promptSeq' <= barrierCompleted'
      PROVE  StillAbove(promptSeq')
  <2>1. CASE Sweeping
    <3>1. updates' = <<>>
      BY <1>1, <2>1, SweepsEnd
    <3> QED BY <3>1 DEF StillAbove
  <2>2. CASE ~Sweeping
    <3>1. ~Sweep /\ (TakeBarrier => ~Prompted)
      BY <1>1, Swept
    <3>2. updatesDrained \/ promptQueued
      BY <1>1, <3>1, FlagsMove
    <3>3. Prompted
      BY <3>2 DEF BarrierInv, PromptInv
    <3>4. promptSeq' = promptSeq /\ barrierCompleted' = barrierCompleted
      BY <3>1, <3>3, FlagsMove, PeerMoves
    <3>5. Beyond(updates, promptSeq)
      BY <1>1, <2>2, <3>2, <3>4 DEF DrainInv
    <3>6. barrierCompleted # 0
      BY <1>0, <1>1, <3>4
    <3>7. Beyond(delivery, promptSeq)
      BY <1>0, <1>1, <1>e, <3>4, <3>6 DEF BarrierInv, Beyond
    <3> QED BY <1>0, <3>4, <3>5, <3>7, AboveStays
  <2> QED BY <2>1, <2>2
<1>2. ASSUME ~Sweeping', barrierFence' PROVE StillAbove(promptAt')
  <2>1. CASE Sweeping
    <3>1. updates' = <<>>
      BY <1>2, <2>1, SweepsEnd
    <3> QED BY <3>1 DEF StillAbove
  <2>2. CASE ~Sweeping
    <3>1. ~(TakeBarrier /\ barrier.seq = 0)
      <4>1. TakeBarrier /\ barrier.seq = 0 => Prompted
        BY DEF TakeBarrier, BarrierInv
      <4> QED BY <1>2, <4>1, Swept
    <3>2. barrierFence
      BY <1>2, <3>1, FlagsMove
    <3>3. Prompted /\ Beyond(delivery, promptAt) /\ Beyond(updates, promptAt)
      BY <2>2, <3>2 DEF BarrierInv, DrainInv
    <3>4. promptAt' = promptAt
      BY <3>3, PeerMoves
    <3> QED BY <1>0, <3>3, <3>4, AboveStays
  <2> QED BY <2>1, <2>2
<1>3. ASSUME ~Sequenced PROVE promptBarrierRequested' /\ barrier'.state = "idle" => barrierFence'
  BY <1>0, <1>3, UnsequencedFence
<1>4. ASSUME ~Sequenced PROVE updatesDrained' => barrierFence'
  BY <1>0, <1>4, UnsequencedFence
<1>5. ASSUME ~Sequenced, promptQueued' PROVE barrierFence' /\ StillAbove(promptAt')
  <2>1. barrierFence /\ Beyond(updates, promptAt) /\ Prompted
    <3>1. CASE promptQueued
      BY <1>5, <3>1 DEF DrainInv, PromptInv
    <3>2. CASE Settled /\ Prompted /\ updatesDrained
      BY <1>5, <3>2, Swept DEF DrainInv
    <3> QED BY <1>5, <3>1, <3>2, FlagsMove
  <2>2. Beyond(delivery, promptAt)
    BY <2>1 DEF BarrierInv
  <2>3. promptAt' = promptAt /\ barrierFence'
    BY <2>1, PeerMoves, FlagsMove
  <2> QED BY <1>0, <2>1, <2>2, <2>3, AboveStays
<1>6. ASSUME ~Sequenced
      PROVE  \A i, j \in 1..Len(pending') : i < j => StillFollows(pending'[i], pending'[j])
  BY <1>6, FollowStep
<1> QED BY <1>0, <1>1, <1>2, <1>3, <1>4, <1>5, <1>6
        DEF DrainInv, Beyond, StillAbove, Follows, StillFollows

-----------------------------------------------------------------------------
(***************************************************************************)
(* No message is lost.                                                     *)
(***************************************************************************)
StillIn(n) == \/ \E c \in Calls : response'[c] = n
              \/ \E i \in 1..Len(delivery') : delivery'[i] = n
              \/ \E i \in 1..Len(updates') : updates'[i] = n
StillCarries(n, k) ==
  \/ \E i \in 1..Len(pending') :
       pending'[i].kind = "update" /\ pending'[i].from = n /\ pending'[i].part = k
  \/ \E i \in 1..Len(out') :
       out'[i].kind = "update" /\ out'[i].from = n /\ out'[i].part = k
Kept(n) == \/ \E c \in Calls : response[c] = n
           \/ In(delivery, n) \/ In(updates, n)
           \/ \A k \in 1..PerUpdate : Carries(pending, n, k) \/ Carries(out, n, k)
StillKept(n) == StillIn(n) \/ \A k \in 1..PerUpdate : StillCarries(n, k)

LEMMA ConserveInitially == ArbiterInit => ConserveInv
BY DEF ArbiterInit, ConserveInv, Covered

(* What an observation carries it carries until it has left. *)
LEMMA CarriesStays ==
  ASSUME Typed, ArbiterNext, ~Fail, NEW n, NEW k, Carries(pending, n, k) \/ Carries(out, n, k)
  PROVE  StillCarries(n, k)
<1>0. Typed' /\ Len(pending) \in Nat /\ PerUpdate \in Nat /\ Len(out) \in Nat /\ Len(out') \in Nat
  <2>1. Typed'
    BY TypedStep
  <2> QED BY <2>1, EntriesAre, Naturals0 DEF Typed, OutTypes
<1>o. \A i \in 1..Len(out) : i \in 1..Len(out') /\ out'[i] = out[i]
  <2>1. Len(out) <= Len(out') /\ \A i \in 1..Len(out) : out'[i] = out[i]
    BY <1>0, NewOut
  <2> QED BY <1>0, <2>1
<1>1. CASE Carries(out, n, k)
  BY <1>o, <1>1 DEF Carries, StillCarries
<1>2. CASE Carries(pending, n, k)
  <2>1. PICK m \in 1..Len(pending) :
          pending[m].kind = "update" /\ pending[m].from = n /\ pending[m].part = k
    BY <1>2 DEF Carries
  <2>2. CASE m \in 1..Len(pending') /\ pending'[m] = pending[m]
    BY <2>1, <2>2 DEF StillCarries
  <2>3. CASE Emit
    <3>1. CASE m = Best
      <4>1. /\ Candidate = pending[m] /\ Len(out') = Len(out) + 1
        BY <2>3, <3>1, EmitFacts DEF Typed
      <4>2. Len(out) + 1 \in 1..Len(out') /\ Len(out) + 1 \notin 1..Len(out)
        BY <1>0, <4>1
      <4>3. /\ out'[Len(out) + 1].kind = Candidate.kind
            /\ out'[Len(out) + 1].from = Candidate.from
            /\ out'[Len(out) + 1].part = Candidate.part
        BY <1>0, <4>2, NewOut
      <4> QED BY <2>1, <4>1, <4>2, <4>3 DEF StillCarries
    <3>2. CASE m # Best
      BY <1>0, <2>1, <2>3, <3>2, Places DEF StillCarries
    <3> QED BY <3>1, <3>2
  <2>4. ASSUME NEW u \in 1..(MaxReceived + 1), Takes(u)
        PROVE  m \in 1..Len(pending') /\ pending'[m] = pending[m]
    BY <1>0, <2>4 DEF Takes
  <2>5. ASSUME NEW o, Joins(o) PROVE m \in 1..Len(pending') /\ pending'[m] = pending[m]
    BY <1>0, <2>5 DEF Joins
  <2> QED BY <2>2, <2>3, <2>4, <2>5, Actions
<1> QED BY <1>1, <1>2

LEMMA ResponsesStay ==
  ASSUME Typed, ArbiterNext
  PROVE  \A c \in Calls : response[c] # 0 => response'[c] = response[c]
<1>1. ASSUME NEW d \in Calls, PeerAnswers(d)
      PROVE  \A c \in Calls : response[c] # 0 => response'[c] = response[c]
  BY <1>1 DEF PeerAnswers, Typed, PeerTypes
<1>2. PeerUpdates \/ PromptReturns \/ Deliver \/ TakePrompt \/ SweepTakes \/ TakeUpdate =>
        response' = response
  BY DEF PeerUpdates, PromptReturns, Deliver, TakePrompt, SweepTakes, TakeUpdate, callVars
<1> QED BY <1>1, <1>2, PeerQuiet DEF ArbiterNext, Loop, Others

LEMMA InStays ==
  ASSUME Typed, ArbiterNext, NEW n \in Nat, n # 0,
         (\E c \in Calls : response[c] = n) \/ In(delivery, n) \/ In(updates, n)
  PROVE  StillKept(n)
<1>0. /\ Typed' /\ delivery \in Seq(Nat) /\ updates \in Seq(Nat) /\ received \in Nat
      /\ PerUpdate \in Nat /\ Len(pending) \in Nat
  BY TypedStep, NatSeq, Naturals0, EntriesAre DEF Typed, PeerTypes
<1>1. CASE \E c \in Calls : response[c] = n
  BY <1>1, ResponsesStay DEF StillKept, StillIn
<1>t. ASSUME NEW s \in Seq(Nat), s # <<>>, In(s, n), n # Head(s)
      PROVE  \E i \in 1..Len(Tail(s)) : Tail(s)[i] = n
  <2>1. PICK j \in 1..Len(s) : s[j] = n
    BY <1>t DEF In
  <2>2. /\ Len(Tail(s)) = Len(s) - 1 /\ Head(s) = s[1]
        /\ \A i \in 1..Len(Tail(s)) : Tail(s)[i] = s[i + 1]
    BY <1>t, TailFacts
  <2>3. j # 1
    BY <1>t, <2>1, <2>2
  <2>4. j - 1 \in 1..Len(Tail(s)) /\ (j - 1) + 1 = j
    BY <2>2, <2>3
  <2>5. Tail(s)[j - 1] = n
    BY <2>1, <2>2, <2>4
  <2> QED BY <2>4, <2>5
<1>2. CASE In(delivery, n) \/ In(updates, n)
  <2>1. CASE UNCHANGED <<delivery, updates>>
    BY <1>2, <2>1 DEF In, StillKept, StillIn
  <2>2. CASE updates' = updates /\ delivery' = Append(delivery, received + 1)
    <3>1. /\ Len(delivery') = Len(delivery) + 1
          /\ \A i \in 1..Len(delivery) : delivery'[i] = delivery[i] /\ i \in 1..Len(delivery')
      BY <1>0, <2>2, AppendFacts
    <3> QED BY <1>2, <2>2, <3>1 DEF In, StillKept, StillIn
  <2>3. CASE Passes
    <3>1. Head(delivery) \in Nat
      BY <1>0, <2>3, TailFacts DEF Passes
    <3>2. /\ Len(updates') = Len(updates) + 1 /\ updates'[Len(updates) + 1] = Head(delivery)
          /\ \A i \in 1..Len(updates) : updates'[i] = updates[i]
      BY <1>0, <2>3, <3>1, AppendFacts DEF Passes
    <3>3. /\ \A i \in 1..Len(updates) : i \in 1..Len(updates')
          /\ Len(updates) + 1 \in 1..Len(updates')
      BY <1>0, <3>2
    <3>4. CASE In(updates, n)
      BY <3>2, <3>3, <3>4 DEF In, StillKept, StillIn
    <3>5. CASE In(delivery, n) /\ n = Head(delivery)
      BY <3>2, <3>3, <3>5 DEF StillKept, StillIn
    <3>6. CASE In(delivery, n) /\ n # Head(delivery)
      BY <1>0, <1>t, <2>3, <3>6 DEF Passes, StillKept, StillIn
    <3> QED BY <1>2, <3>4, <3>5, <3>6
  <2>4. CASE (SweepTakes \/ TakeUpdate) /\ Shrinks
    <3>1. PICK u \in 1..(MaxReceived + 1) : Takes(u)
      BY <2>4, TakesIs
    <3>2. CASE u = n
      <4>1. ASSUME NEW k \in 1..PerUpdate PROVE StillCarries(n, k)
        <5>0. Len(pending) \in Nat /\ PerUpdate \in Nat
          BY EntriesAre, AssumedConstants
        <5>1. pending'[Len(pending) + k] = Part(n, k) /\ Len(pending') = Len(pending) + PerUpdate
          BY <3>1, <3>2 DEF Takes
        <5>3. Len(pending) + k \in 1..Len(pending')
          BY <5>0, <5>1
        <5>2. Part(n, k).kind = "update" /\ Part(n, k).from = n /\ Part(n, k).part = k
          BY NewShapes
        <5> QED BY <5>1, <5>2, <5>3 DEF StillCarries
      <4> QED BY <4>1 DEF StillKept
    <3>3. CASE u # n /\ delivery # <<>> /\ u = Head(delivery) /\ delivery' = Tail(delivery)
               /\ updates' = updates
      BY <1>0, <1>2, <1>t, <3>3 DEF In, StillKept, StillIn
    <3>4. CASE u # n /\ updates # <<>> /\ u = Head(updates) /\ updates' = Tail(updates)
               /\ delivery' = delivery
      BY <1>0, <1>2, <1>t, <3>4 DEF In, StillKept, StillIn
    <3> QED BY <3>1, <3>2, <3>3, <3>4 DEF Takes
  <2> QED BY <2>1, <2>2, <2>3, <2>4, QueueMoves DEF Passes
<1> QED BY <1>1, <1>2

LEMMA ConserveStep ==
  ASSUME Typed, OrderInv, PromptInv, BarrierInv, DrainInv, ConserveInv, ArbiterNext
  PROVE  ConserveInv'
<1>0. at # "failed" /\ received \in Nat /\ promptAt \in Nat /\ MaxReceived \in Nat
  BY Naturals0, AtMoves
<1>1. ASSUME at' # "failed", NEW n \in Covered, n \in Nat, n # 0 PROVE StillKept(n)
  <2>1. ~Fail
    BY <1>1, AtMoves
  <2>2. Kept(n)
    BY <1>0, <1>1 DEF ConserveInv, Kept
  <2>3. CASE (\E c \in Calls : response[c] = n) \/ In(delivery, n) \/ In(updates, n)
    BY <1>1, <2>3, InStays
  <2>4. CASE \A k \in 1..PerUpdate : Carries(pending, n, k) \/ Carries(out, n, k)
    BY <2>1, <2>4, CarriesStays DEF StillKept
  <2> QED BY <2>2, <2>3, <2>4 DEF Kept
<1>2. ASSUME at' # "failed", NEW n \in Covered' PROVE n \in Covered \/ StillKept(n)
  <2>1. CASE PeerUpdates
    <3>1. delivery \in Seq(Nat)
      BY NatSeq DEF Typed, PeerTypes
    <3>2. /\ Len(delivery') = Len(delivery) + 1 /\ delivery'[Len(delivery) + 1] = received + 1
          /\ Len(delivery) + 1 \in 1..Len(delivery') /\ received' = received + 1
          /\ promptState' = promptState /\ promptAt' = promptAt
      BY <1>0, <2>1, <3>1, AppendFacts DEF PeerUpdates
    <3>3. n \in Covered \/ n = received + 1
      BY <1>0, <1>2, <3>2 DEF Covered
    <3> QED BY <3>2, <3>3 DEF StillKept, StillIn
  <2>2. ASSUME NEW c \in Calls, PeerAnswers(c) PROVE n \in Covered \/ StillKept(n)
    <3>1. /\ response'[c] = received + 1 /\ received' = received + 1
          /\ promptState' = promptState /\ promptAt' = promptAt
      BY <2>2 DEF PeerAnswers, Typed, PeerTypes
    <3>2. n \in Covered \/ n = received + 1
      BY <1>0, <1>2, <3>1 DEF Covered
    <3> QED BY <3>1, <3>2 DEF StillKept, StillIn
  <2>3. CASE PromptReturns
    BY <1>2, <2>3 DEF PromptReturns, Covered
  <2>4. CASE Deliver \/ SweepTakes \/ TakeUpdate
    BY <1>2, <2>4 DEF Deliver, SweepTakes, TakeUpdate, Covered
  <2>5. CASE TakePrompt
    BY <1>2, <2>5 DEF TakePrompt, Covered, peerVars
  <2>6. CASE UNCHANGED <<received, promptAt, promptState>>
    BY <1>2, <2>6 DEF Covered
  <2> QED BY <2>1, <2>2, <2>3, <2>4, <2>5, <2>6, PeerQuiet DEF ArbiterNext, Loop, Others
<1>3. ConserveInv' <=> (at' # "failed" => \A n \in Covered' : StillKept(n))
  BY DEF ConserveInv, StillKept, StillIn, StillCarries, In, Carries
<1>4. \A n \in Covered : n \in Nat /\ n # 0
  BY <1>0 DEF Covered
<1> QED BY <1>1, <1>2, <1>3, <1>4

-----------------------------------------------------------------------------
(***************************************************************************)
(* The prompt leaves after what it covers.                                 *)
(***************************************************************************)
LEMMA NothingLeft ==
  ASSUME Typed, OrderInv, PromptInv, BarrierInv, DrainInv, Emit, Candidate.kind = "prompt"
  PROVE  /\ Prompted
         /\ Beyond(delivery, promptAt) /\ Beyond(updates, promptAt)
         /\ \A i \in 1..Len(pending) :
              pending[i].kind = "update" => pending[i].from > promptAt \/ pending[i].from \in missed
<1>0. /\ at # "failed" /\ ~Sweeping /\ pending # <<>> /\ ~Fenced
      /\ Best \in 1..Len(pending) /\ Candidate = pending[Best]
      /\ promptAt \in Nat /\ promptSeq \in Nat /\ barrierCompleted \in Nat
      /\ Len(pending) \in Nat
  BY EmitFacts, Naturals0, EntriesAre DEF Emit, Emittable, Sweeping, Typed
<1>e. /\ \A i \in 1..Len(delivery) : delivery[i] \in Nat
      /\ \A i \in 1..Len(updates) : updates[i] \in Nat
      /\ \A i \in 1..Len(pending) : pending[i].from \in Nat
  <2>1. delivery \in Seq(Nat) /\ updates \in Seq(Nat)
    BY NatSeq DEF Typed, PeerTypes
  <2> QED BY <2>1, EntryType, EntriesAre, Naturals0
<1>1. Prompted /\ promptQueued /\ Candidate.seq = promptSeq
  BY <1>0 DEF OrderInv, ShapeInv, Shaped, PromptInv, QueuedOnce
<1>2. ASSUME NEW i \in 1..Len(pending), pending[i].kind = "update"
      PROVE  pending[i].from >= 1 /\ pending[i].seq = Stamp(pending[i].from) /\ i # Best
  BY <1>0, <1>2 DEF OrderInv, ShapeInv, Shaped
<1>3. CASE promptSeq # 0
  <2>1. promptSeq <= barrierCompleted /\ promptSeq = promptAt + 1 /\ Sequenced
    BY <1>0, <1>1, <1>3 DEF Fenced, Typed, PeerInv, Numbered
  <2>2. Beyond(delivery, barrierCompleted) /\ Beyond(updates, promptSeq)
    BY <1>0, <1>1, <1>3, <2>1 DEF BarrierInv, DrainInv
  <2>3. ASSUME NEW i \in 1..Len(pending), pending[i].kind = "update"
        PROVE  pending[i].from > promptAt
    <3>1. pending[i].seq = pending[i].from /\ pending[i].from \in Nat /\ pending[i].from >= 1
      BY <1>2, <1>e, <2>1, <2>3 DEF Stamp
    <3>2. promptSeq <= pending[i].seq
      BY <1>0, <1>1, <1>3, <3>1, BestFacts DEF Typed
    <3> QED BY <1>0, <2>1, <3>1, <3>2
  <2> QED BY <1>0, <1>1, <1>e, <2>1, <2>2, <2>3 DEF Beyond
<1>4. CASE promptSeq = 0
  <2>1. barrierFence /\ Best = 1 /\ \A i \in 1..Len(pending) : pending[i].seq = 0
    BY <1>0, <1>1, <1>4, BestFacts DEF Fenced, Typed
  <2>2. Beyond(delivery, promptAt) /\ Beyond(updates, promptAt)
    BY <1>0, <2>1 DEF BarrierInv, DrainInv
  <2>3. ASSUME NEW i \in 1..Len(pending), pending[i].kind = "update"
        PROVE  pending[i].from > promptAt \/ pending[i].from \in missed
    <3>1. ~Sequenced
      BY <1>2, <1>e, <2>1, <2>3 DEF Stamp
    <3>2. 1 < i /\ pending[1].kind = "prompt" /\ 1 \in 1..Len(pending)
      BY <1>0, <1>2, <2>1, <2>3
    <3> QED BY <2>3, <3>1, <3>2 DEF DrainInv, Follows
  <2> QED BY <1>1, <2>2, <2>3
<1> QED BY <1>3, <1>4

LEMMA CoversInitially == ArbiterInit => PromptCoversUpdates
BY DEF ArbiterInit, PromptCoversUpdates

LEMMA CoversStep ==
  ASSUME Typed, OrderInv, PromptInv, BarrierInv, DrainInv, ConserveInv,
         PromptCoversUpdates, ArbiterNext
  PROVE  PromptCoversUpdates'
<1> SUFFICES ASSUME at' # "failed", NEW p \in 1..Len(out'), out'[p].kind = "prompt",
                    NEW n \in (1..promptAt') \ missed', NEW k \in 1..PerUpdate,
                    n \notin {response'[c] : c \in Calls}
             PROVE  \E i \in 1..(p - 1) :
                      out'[i].kind = "update" /\ out'[i].from = n /\ out'[i].part = k
  BY DEF PromptCoversUpdates
<1>0. /\ Typed' /\ at # "failed" /\ ~Fail /\ Len(out) \in Nat /\ promptAt \in Nat
      /\ promptAt' \in Nat /\ \A i \in 1..Len(out) : out'[i] = out[i]
  <2>1. Typed'
    BY TypedStep
  <2>2. promptAt' \in Nat
    BY <2>1, SequencesAre DEF Typed, PeerTypes
  <2> QED BY <2>1, <2>2, AtMoves, EntriesAre, Naturals0, NewOut
<1>1. ASSUME NEW c \in Calls PROVE response[c] # n
  BY <1>0, ResponsesStay
<1>m. n \notin missed
  BY MissedGrows
<1>2. CASE p \in 1..Len(out) /\ out'[p] = out[p]
  <2>1. Prompted
    BY <1>0, <1>2 DEF PromptInv, QueuedOnce
  <2>2. promptAt' = promptAt
    BY <2>1, PeerMoves
  <2>3. out[p].kind = "prompt" /\ n \in 1..promptAt /\ n \notin {response[c] : c \in Calls}
    BY <1>1, <1>2, <2>2
  <2>4. PICK i \in 1..(p - 1) : out[i].kind = "update" /\ out[i].from = n /\ out[i].part = k
    BY <1>0, <1>2, <1>m, <2>3 DEF PromptCoversUpdates
  <2>5. i \in 1..Len(out)
    BY <1>0, <1>2
  <2> QED BY <1>0, <2>4, <2>5
<1>3. CASE Emit /\ p = Len(out) + 1 /\ out'[p].kind = Candidate.kind
  <2>1. /\ Prompted
        /\ Beyond(delivery, promptAt) /\ Beyond(updates, promptAt)
        /\ \A i \in 1..Len(pending) :
             pending[i].kind = "update" => pending[i].from > promptAt \/ pending[i].from \in missed
    BY <1>3, NothingLeft
  <2>2. promptAt' = promptAt
    BY <2>1, PeerMoves
  <2>3. n \in Covered /\ ~(n > promptAt)
    BY <1>0, <2>1, <2>2 DEF Covered, Prompted
  <2>4. ~In(delivery, n) /\ ~In(updates, n) /\ ~Carries(pending, n, k)
    BY <1>m, <2>1, <2>3 DEF In, Carries, Beyond
  <2>5. Carries(out, n, k)
    BY <1>0, <1>1, <2>3, <2>4 DEF ConserveInv
  <2>6. PICK i \in 1..Len(out) : out[i].kind = "update" /\ out[i].from = n /\ out[i].part = k
    BY <2>5 DEF Carries
  <2>7. i \in 1..(p - 1)
    BY <1>0, <1>3, <2>6
  <2> QED BY <1>0, <2>6, <2>7
<1> QED BY <1>0, <1>2, <1>3, NewOut

-----------------------------------------------------------------------------
(***************************************************************************)
(* No reason to fail.                                                      *)
(***************************************************************************)
LEMMA StrictInitially == ArbiterInit => StrictInv /\ AnswersInv
BY DEF ArbiterInit, StrictInv, AheadInv, Unreported, AnswersInv, Beyond

LEMMA AnswersStep ==
  ASSUME Typed, CallsInv, AnswersInv, ArbiterNext
  PROVE  AnswersInv'
<1>0. /\ Typed' /\ MailInv /\ ReportsInv
      /\ call \in [Calls -> {"idle", "sent", "out", "reported", "answered"}]
      /\ Len(events) \in Nat
  BY TypedStep, EntriesAre DEF CallsInv, Typed, CallTypes
<1>1. ASSUME NEW c \in Calls, call'[c] \in {"idle", "sent"} PROVE response'[c] = 0
  <2>1. call[c] \in {"idle", "sent"}
    <3>1. ASSUME NEW d \in Calls, NEW x, NEW y, Begun(d, x, y),
                 y \in {"idle", "sent"} => x \in {"idle", "sent"}
          PROVE  call[c] \in {"idle", "sent"}
      BY <1>0, <1>1, <3>1 DEF Begun
    <3>2. CASE Fail
      BY <1>0, <1>1, <3>2 DEF Fail
    <3>3. CASE UNCHANGED call
      BY <1>1, <3>3
    <3> QED BY <1>0, <3>1, <3>2, <3>3, CallMoves
  <2>2. response[c] = 0
    BY <2>1 DEF AnswersInv
  <2>3. ASSUME NEW d \in Calls, PeerAnswers(d) PROVE response'[c] = response[c]
    <3>1. d # c
      BY <2>1, <2>3 DEF PeerAnswers
    <3> QED BY <2>3, <3>1 DEF PeerAnswers, Typed, PeerTypes
  <2>4. PeerUpdates \/ PromptReturns \/ Deliver \/ TakePrompt \/ SweepTakes \/ TakeUpdate =>
          response' = response
    BY DEF PeerUpdates, PromptReturns, Deliver, TakePrompt, SweepTakes, TakeUpdate, callVars
  <2>5. response'[c] = response[c]
    BY <2>3, <2>4, PeerQuiet DEF ArbiterNext, Loop, Others
  <2> QED BY <2>2, <2>5
<1>2. ASSUME NEW i \in 1..Len(events'), events'[i].id = NoCall PROVE events'[i].seq = 0
  <2>1. ASSUME NEW c \in Calls, NEW s, events'[i] = [id |-> c, seq |-> s] PROVE FALSE
    BY <1>2, <2>1, AssumedConstants
  <2>2. CASE \E j \in 1..Len(events) : events'[i] = events[j]
    BY <1>2, <2>2 DEF AnswersInv
  <2>3. CASE events'[i] = [id |-> NoCall, seq |-> 0]
    BY <2>3
  <2> QED BY <1>0, <2>1, <2>2, <2>3, EventsMove
<1> QED BY <1>1, <1>2 DEF AnswersInv

(* What is on its way stays ahead of the mark when an observation leaves. *)
LEMMA MarkMoves ==
  ASSUME Typed, OrderInv, BarrierInv, CallsInv, AnswersInv, Sequenced, missed = {}, AheadInv,
         ArbiterNext, ~Fail, Emit => Candidate.kind # "prompt"
  PROVE  /\ \A i \in 1..Len(delivery) : delivery[i] > lastRaw'
         /\ \A c \in Calls : Unreported(c) => response[c] > lastRaw'
         /\ \A i \in 1..Len(events) : events[i].seq # 0 => events[i].seq > lastRaw'
         /\ \A i \in 1..Len(pending) :
              pending[i].seq # 0 /\ (Emit => i # Best) => pending[i].seq >= lastRaw'
<1>0. /\ lastRaw \in Nat /\ barrierCompleted \in Nat
      /\ \A c \in Calls : response[c] \in Nat
      /\ \A i \in 1..Len(pending) : pending[i].seq \in Nat /\ pending[i].from \in Nat
      /\ \A i \in 1..Len(events) : events[i].seq \in Nat /\ events[i].id \in Calls \cup {NoCall}
      /\ \A i \in 1..Len(delivery) : delivery[i] \in Nat
  <2>1. \A i \in 1..Len(delivery) : delivery[i] \in Nat
    BY NatSeq, EntryType DEF Typed, PeerTypes
  <2>2. \A i \in 1..Len(events) : events[i].seq \in Nat /\ events[i].id \in Calls \cup {NoCall}
    BY EntriesAre, Naturals0 DEF Event
  <2> QED BY <2>1, <2>2, EntriesAre, Naturals0
<1>1. CASE lastRaw' = lastRaw
  BY <1>1 DEF AheadInv, AnswerAhead, EventAhead, Beyond
<1>2. CASE Emit /\ lastRaw' # lastRaw
  <2>1. /\ at # "failed" /\ pending # <<>> /\ ~Held /\ ~Fenced
        /\ Best \in 1..Len(pending) /\ Candidate = pending[Best]
        /\ Candidate.seq # 0 /\ lastRaw' = Candidate.seq
    BY <1>2, EmitFacts DEF Emit, Emittable, Typed
  <2>2. \A i \in 1..Len(pending) : pending[i].seq # 0 => pending[i].seq >= Candidate.seq
    BY <1>0, <2>1, BestFacts DEF Typed
  <2>3. CASE Candidate.kind = "update"
    <3>1. Steers = {}
      BY <2>1, <2>3 DEF Held
    <3>2. \A c \in Calls : ~Unreported(c)
      BY <3>1 DEF Steers, Unreported
    <3>3. \A i \in 1..Len(events) : events[i].seq = 0
      <4> SUFFICES ASSUME NEW i \in 1..Len(events), events[i].seq # 0 PROVE FALSE
        OBVIOUS
      <4>1. events[i].id \in Calls
        BY <1>0 DEF AnswersInv
      <4>2. call[events[i].id] = "reported"
        BY <2>1, <4>1, AssumedConstants DEF CallsInv, ReportsInv, InState
      <4> QED BY <3>1, <4>1, <4>2 DEF Steers
    <3>4. Candidate.seq = Candidate.from
      BY <2>1, <2>3 DEF OrderInv, ShapeInv, Shaped, Stamp
    <3>5. \A i \in 1..Len(delivery) : delivery[i] > Candidate.seq
      BY <1>0, <2>1, <2>3, <3>4 DEF OrderInv, LineInv, Behind
    <3> QED BY <2>1, <2>2, <3>2, <3>3, <3>5
  <2>4. CASE Candidate.kind = "steer"
    <3>1. Candidate.seq <= barrierCompleted /\ barrierCompleted # 0
      BY <1>0, <2>1, <2>4 DEF Fenced
    <3>2. \A i \in 1..Len(delivery) : delivery[i] > Candidate.seq
      BY <1>0, <2>1, <3>1 DEF BarrierInv, Beyond
    <3>3. \A c \in Calls : Unreported(c) => response[c] > Candidate.seq
      BY <1>0, <2>1, <2>4 DEF AheadInv, AnswerAhead
    <3>4. \A i \in 1..Len(events) : events[i].seq # 0 => events[i].seq > Candidate.seq
      BY <1>0, <2>1, <2>4 DEF AheadInv, EventAhead
    <3> QED BY <2>1, <2>2, <3>2, <3>3, <3>4
  <2>5. Candidate.kind \in {"update", "steer", "prompt"}
    BY <1>2, EmitFacts DEF Typed, Observation
  <2> QED BY <1>2, <2>3, <2>4, <2>5
<1> QED BY <1>1, <1>2, OutMoves

(* A call is answered at the provider once it is out. *)
LEMMA Answering ==
  ASSUME Typed, CallsInv, AnswersInv, ArbiterNext, NEW c \in Calls,
         call'[c] = "out", response'[c] # 0
  PROVE  \/ Unreported(c) /\ response'[c] = response[c]
         \/ /\ PeerAnswers(c) /\ response'[c] = received + 1
            /\ \A d \in Calls : d # c => response'[d] = response[d]
<1>0. call \in [Calls -> {"idle", "sent", "out", "reported", "answered"}] /\ MailInv /\ ReportsInv
      /\ response \in [Calls -> Sequences]
  BY DEF Typed, CallTypes, PeerTypes, CallsInv
<1>1. CASE PeerAnswers(c)
  BY <1>0, <1>1 DEF PeerAnswers
<1>2. CASE ~PeerAnswers(c)
  <2>1. response'[c] = response[c]
    <3>1. ASSUME NEW d \in Calls, PeerAnswers(d) PROVE response'[c] = response[c]
      BY <1>0, <1>2, <3>1 DEF PeerAnswers
    <3>2. PeerUpdates \/ PromptReturns \/ Deliver \/ TakePrompt \/ SweepTakes \/ TakeUpdate =>
            response' = response
      BY DEF PeerUpdates, PromptReturns, Deliver, TakePrompt, SweepTakes, TakeUpdate, callVars
    <3> QED BY <3>1, <3>2, PeerQuiet DEF ArbiterNext, Loop, Others
  <2>2. call[c] \notin {"idle", "sent"}
    BY <2>1 DEF AnswersInv
  <2>3. call[c] = "out"
    <3>1. ASSUME NEW d \in Calls, NEW x, NEW y, Begun(d, x, y), y # "out" \/ x = "sent"
          PROVE  call[c] = "out"
      BY <1>0, <2>2, <3>1 DEF Begun
    <3>2. CASE Fail
      BY <1>0, <3>2 DEF Fail
    <3>3. CASE UNCHANGED call
      BY <3>3
    <3> QED BY <1>0, <3>1, <3>2, <3>3, CallMoves
  <2> QED BY <2>1, <2>3 DEF Unreported
<1> QED BY <1>1, <1>2

(* The events after an action: the first is taken, or one joins. *)
LEMMA EventShapes ==
  ASSUME Typed, ArbiterNext
  PROVE  \/ TakeEvent /\ Len(events') = Len(events) - 1 /\ 1 \in 1..Len(events)
            /\ Head(events) = events[1]
            /\ \A i \in 1..Len(events') : i + 1 \in 1..Len(events) /\ events'[i] = events[i + 1]
         \/ ~TakeEvent /\ events' = events
         \/ ~TakeEvent /\ Len(events') = Len(events) + 1
            /\ (\A i \in 1..Len(events) : events'[i] = events[i])
            /\ pending' = pending
            /\ \/ events'[Len(events) + 1].seq = 0
               \/ \E c \in Calls : call[c] = "out" /\ call'[c] = "reported"
                                   /\ events'[Len(events) + 1].seq = response[c]
<1>0. events \in Seq(Event) /\ Len(events) \in Nat
      /\ call \in [Calls -> {"idle", "sent", "out", "reported", "answered"}]
  BY EntriesAre DEF Typed, CallTypes
<1>1. CASE TakeEvent
  <2>1. events # <<>> /\ events' = Tail(events)
    BY <1>1 DEF TakeEvent
  <2>2. /\ Len(events') = Len(events) - 1 /\ 1 \in 1..Len(events) /\ Head(events) = events[1]
        /\ \A i \in 1..Len(events') : events'[i] = events[i + 1]
    BY <1>0, <2>1, TailFacts
  <2>3. \A i \in 1..Len(events') : i + 1 \in 1..Len(events)
    BY <1>0, <2>2
  <2> QED BY <1>1, <2>2, <2>3
<1>2. ASSUME NEW c \in Calls, NEW s \in Sequences, Report(c, s)
      PROVE  /\ ~TakeEvent /\ Len(events') = Len(events) + 1 /\ pending' = pending
             /\ \A i \in 1..Len(events) : events'[i] = events[i]
             /\ \/ events'[Len(events) + 1].seq = 0
                \/ call[c] = "out" /\ call'[c] = "reported"
                   /\ events'[Len(events) + 1].seq = response[c]
  <2>1. [id |-> c, seq |-> s] \in Event /\ events' = Append(events, [id |-> c, seq |-> s])
    BY <1>2 DEF Event, Report
  <2>2. /\ Len(events') = Len(events) + 1 /\ events'[Len(events) + 1] = [id |-> c, seq |-> s]
        /\ \A i \in 1..Len(events) : events'[i] = events[i]
    BY <1>0, <2>1, AppendFacts
  <2>3. pending' = pending /\ call[c] = "out" /\ call'[c] = "reported"
        /\ (s = 0 \/ s = response[c])
    BY <1>0, <1>2 DEF Report, Stamp, arbiterOnly, loopVars
  <2>4. ~TakeEvent
    <3>1. TakeEvent => Len(events') = Len(events) - 1
      BY <1>0, TailFacts DEF TakeEvent
    <3> QED BY <1>0, <2>2, <3>1
  <2> QED BY <2>2, <2>3, <2>4
<1>3. CASE Completes
  <2>1. [id |-> NoCall, seq |-> 0] \in Event /\ events' = Append(events, [id |-> NoCall, seq |-> 0])
    BY <1>3, SequencesAre DEF Event, Completes
  <2>2. /\ Len(events') = Len(events) + 1 /\ events'[Len(events) + 1] = [id |-> NoCall, seq |-> 0]
        /\ \A i \in 1..Len(events) : events'[i] = events[i]
    BY <1>0, <2>1, AppendFacts
  <2>3. pending' = pending
    BY <1>3 DEF Completes, arbiterOnly, loopVars
  <2>4. ~TakeEvent
    <3>1. TakeEvent => Len(events') = Len(events) - 1
      BY <1>0, TailFacts DEF TakeEvent
    <3> QED BY <1>0, <2>2, <3>1
  <2> QED BY <2>2, <2>3, <2>4
<1>4. CASE events' = events /\ ~TakeEvent
  BY <1>4
<1>5. TakeCommand \/ Fail \/ (\E c \in Calls : Command(c)) => events' = events
  BY DEF TakeCommand, Fail, Command
<1> QED BY <1>1, <1>2, <1>3, <1>4, <1>5, CallQuiet DEF ArbiterNext, Loop, Others

(* The steering observations that wait were waiting, or carry the first event. *)
LEMMA NewSteers ==
  ASSUME Typed, ArbiterNext, NEW i \in 1..Len(pending'), pending'[i].kind = "steer"
  PROVE  \/ \E j \in 1..Len(pending) : pending'[i] = pending[j]
         \/ pending'[i].seq = 0
         \/ TakeEvent /\ pending'[i].seq = Head(events).seq
<1>1. Typed'
  BY TypedStep
<1> QED BY <1>1, NewPending, NewShapes

LEMMA AheadStep ==
  ASSUME Typed, OrderInv, BarrierInv, CallsInv, AnswersInv, Buffer = 0, ~Chatty, Sequenced,
         missed = {}, AheadInv, ArbiterNext, ~Fail, Emit => Candidate.kind # "prompt"
  PROVE  AheadInv'
<1>0. /\ Typed' /\ MarksInv' /\ received \in Nat /\ lastRaw \in Nat /\ lastRaw' \in Nat
      /\ lastRaw <= received /\ promptSeq \in Nat /\ Len(events) \in Nat /\ Len(events') \in Nat
      /\ updates = <<>>
  <2>1. Typed' /\ OrderInv'
    BY TypedStep, OrderStep
  <2>2. lastRaw' \in Nat /\ Len(events') \in Nat
    BY <2>1, SequencesAre DEF Typed, LoopTypes, CallTypes
  <2>3. lastRaw <= received
    BY DEF OrderInv, MarksInv, Numbered
  <2>4. updates = <<>>
    BY DEF Typed, PeerTypes
  <2> QED BY <2>1, <2>2, <2>3, <2>4, Naturals0, EntriesAre DEF OrderInv
<1>n. /\ \A c \in Calls : response[c] \in Nat
      /\ \A i \in 1..Len(pending) : pending[i].seq \in Nat /\ pending[i].seq <= received
      /\ \A i \in 1..Len(events) : events[i].seq \in Nat /\ events[i].seq <= received
      /\ \A i \in 1..Len(delivery) : delivery[i] \in Nat
  <2>1. \A i \in 1..Len(delivery) : delivery[i] \in Nat
    BY NatSeq, EntryType DEF Typed, PeerTypes
  <2> QED BY <2>1, EntriesAre, Naturals0 DEF OrderInv, MarksInv, Numbered
<1>m. /\ \A i \in 1..Len(delivery) : delivery[i] > lastRaw'
      /\ \A c \in Calls : Unreported(c) => response[c] > lastRaw'
      /\ \A i \in 1..Len(events) : events[i].seq # 0 => events[i].seq > lastRaw'
      /\ \A i \in 1..Len(pending) :
           pending[i].seq # 0 /\ (Emit => i # Best) => pending[i].seq >= lastRaw'
  BY MarkMoves
<1>q. ~Emit => lastRaw' = lastRaw
  BY OutMoves
<1>1. \A i \in 1..Len(delivery') : delivery'[i] > lastRaw'
  <2>1. PeerUpdates => received + 1 > lastRaw'
    <3>1. PeerUpdates => lastRaw' = lastRaw
      BY OutQuiet
    <3> QED BY <1>0, <3>1
  <2> QED BY <1>0, <1>m, <2>1, QueueEntries
<1>u. \A c, d \in Calls : Unreported(c) /\ Unreported(d) => c = d
  BY DEF AheadInv
<1>2. ASSUME NEW c \in Calls, NEW d \in Calls, call'[c] = "out", response'[c] # 0,
             call'[d] = "out", response'[d] # 0
      PROVE  c = d
  <2>1. ASSUME NEW a \in Calls, NEW b \in Calls, PeerAnswers(a), Unreported(b) PROVE FALSE
    BY <2>1 DEF PeerAnswers, Unreported
  <2>2. ASSUME PeerAnswers(c), PeerAnswers(d) PROVE c = d
    <3>1. response' = [response EXCEPT ![c] = received + 1] /\ response[d] = 0
      BY <2>2 DEF PeerAnswers
    <3> QED BY <1>2, <3>1 DEF Typed, PeerTypes
  <2> QED BY <1>2, <1>u, <2>1, <2>2, Answering
<1>3. ASSUME NEW c \in Calls, call'[c] = "out", response'[c] # 0
      PROVE  /\ response'[c] > lastRaw'
             /\ \A i \in 1..Len(events') : events'[i].seq < response'[c]
             /\ \A i \in 1..Len(pending') : pending'[i].kind = "steer" => pending'[i].seq < response'[c]
  <2>1. CASE PeerAnswers(c) /\ response'[c] = received + 1
    <3>1. lastRaw' = lastRaw /\ events' = events /\ pending' = pending
      BY <2>1, OutQuiet, CallQuiet
    <3> QED BY <1>0, <1>n, <2>1, <3>1
  <2>2. CASE Unreported(c) /\ response'[c] = response[c]
    <3>1. AnswerAhead(c) /\ response[c] \in Nat /\ response[c] > 0
      BY <1>n, <2>2 DEF AheadInv, Unreported
    <3>2. ASSUME NEW d \in Calls, call[d] = "out", call'[d] = "reported" PROVE response[d] = 0
      BY <1>3, <1>u, <2>2, <3>2 DEF Unreported
    <3>3. \A i \in 1..Len(events') : events'[i].seq < response[c]
      <4>1. CASE \A i \in 1..Len(events') : i + 1 \in 1..Len(events) /\ events'[i] = events[i + 1]
        BY <3>1, <4>1 DEF AnswerAhead
      <4>2. CASE events' = events
        BY <3>1, <4>2 DEF AnswerAhead
      <4>3. CASE /\ Len(events') = Len(events) + 1
                 /\ \A i \in 1..Len(events) : events'[i] = events[i]
                 /\ \/ events'[Len(events) + 1].seq = 0
                    \/ \E d \in Calls : call[d] = "out" /\ call'[d] = "reported"
                                        /\ events'[Len(events) + 1].seq = response[d]
        <5>1. events'[Len(events) + 1].seq = 0
          BY <3>2, <4>3
        <5>2. \A i \in 1..Len(events') : i \in 1..Len(events) \/ i = Len(events) + 1
          BY <1>0, <4>3
        <5> QED BY <3>1, <4>3, <5>1, <5>2 DEF AnswerAhead
      <4> QED BY <4>1, <4>2, <4>3, EventShapes
    <3>4. ASSUME NEW i \in 1..Len(pending'), pending'[i].kind = "steer"
          PROVE  pending'[i].seq < response[c]
      <4>1. CASE \E j \in 1..Len(pending) : pending'[i] = pending[j]
        BY <3>1, <3>4, <4>1 DEF AnswerAhead
      <4>2. CASE pending'[i].seq = 0
        BY <3>1, <4>2
      <4>3. CASE TakeEvent /\ pending'[i].seq = Head(events).seq
        <5>1. Head(events) = events[1] /\ 1 \in 1..Len(events)
          BY <4>3, TailFacts DEF TakeEvent, Typed, CallTypes
        <5> QED BY <3>1, <4>3, <5>1 DEF AnswerAhead
      <4> QED BY <3>4, <4>1, <4>2, <4>3, NewSteers
    <3> QED BY <1>m, <2>2, <3>3, <3>4
  <2> QED BY <1>3, <2>1, <2>2, Answering
<1>4. ASSUME NEW i \in 1..Len(events'), events'[i].seq # 0
      PROVE  /\ events'[i].seq > lastRaw'
             /\ \A j \in 1..Len(events') : j < i => events'[j].seq < events'[i].seq
             /\ \A j \in 1..Len(pending') : pending'[j].kind = "steer" => pending'[j].seq < events'[i].seq
  <2>1. CASE TakeEvent /\ 1 \in 1..Len(events) /\ Head(events) = events[1]
             /\ \A j \in 1..Len(events') : j + 1 \in 1..Len(events) /\ events'[j] = events[j + 1]
    <3>1. EventAhead(i + 1) /\ events'[i] = events[i + 1] /\ i + 1 \in 1..Len(events)
      BY <1>4, <2>1 DEF AheadInv
    <3>2. \A j \in 1..Len(events') : j < i => events'[j].seq < events'[i].seq
      <4> SUFFICES ASSUME NEW j \in 1..Len(events'), j < i PROVE events'[j].seq < events'[i].seq
        OBVIOUS
      <4>1. j + 1 < i + 1 /\ j + 1 \in 1..Len(events) /\ events'[j] = events[j + 1]
        BY <1>0, <2>1
      <4> QED BY <3>1, <4>1 DEF EventAhead
    <3>3. events[1].seq < events'[i].seq
      <4>1. 1 < i + 1
        BY <1>0
      <4> QED BY <2>1, <3>1, <4>1 DEF EventAhead
    <3>4. events'[i].seq \in Nat /\ events'[i].seq > 0 /\ events'[i].seq > lastRaw'
      BY <1>4, <1>m, <1>n, <3>1
    <3>5. \A j \in 1..Len(pending') : pending'[j].kind = "steer" => pending'[j].seq < events'[i].seq
      BY <2>1, <3>1, <3>3, <3>4, NewSteers DEF EventAhead
    <3> QED BY <3>2, <3>4, <3>5
  <2>2. CASE ~TakeEvent /\ events' = events
    <3>1. EventAhead(i) /\ events[i].seq \in Nat /\ events[i].seq > 0 /\ events[i].seq > lastRaw'
      BY <1>4, <1>m, <1>n, <2>2 DEF AheadInv
    <3>2. \A j \in 1..Len(pending') : pending'[j].kind = "steer" => pending'[j].seq < events[i].seq
      BY <2>2, <3>1, NewSteers DEF EventAhead
    <3> QED BY <2>2, <3>1, <3>2 DEF EventAhead
  <2>3. CASE /\ Len(events') = Len(events) + 1 /\ pending' = pending
             /\ \A j \in 1..Len(events) : events'[j] = events[j]
             /\ \/ events'[Len(events) + 1].seq = 0
                \/ \E c \in Calls : call[c] = "out" /\ call'[c] = "reported"
                                    /\ events'[Len(events) + 1].seq = response[c]
    <3>1. i \in 1..Len(events) \/ i = Len(events) + 1
      BY <1>0, <2>3
    <3>2. CASE i \in 1..Len(events)
      <4>1. EventAhead(i) /\ events'[i] = events[i]
        BY <1>4, <2>3, <3>2 DEF AheadInv
      <4>2. \A j \in 1..Len(events') : j < i => j \in 1..Len(events)
        BY <1>0, <3>2
      <4> QED BY <1>4, <1>m, <2>3, <3>2, <4>1, <4>2 DEF EventAhead
    <3>3. CASE i = Len(events) + 1
      <4>1. PICK c \in Calls : call[c] = "out" /\ events'[i].seq = response[c]
        BY <1>4, <2>3, <3>3
      <4>2. Unreported(c) /\ AnswerAhead(c)
        BY <1>4, <4>1 DEF AheadInv, Unreported
      <4>3. \A j \in 1..Len(events') : j < i => j \in 1..Len(events)
        BY <1>0, <2>3, <3>3
      <4> QED BY <1>m, <2>3, <4>1, <4>2, <4>3 DEF AnswerAhead
    <3> QED BY <3>1, <3>2, <3>3
  <2> QED BY <2>1, <2>2, <2>3, EventShapes
<1>5. ASSUME NEW i \in 1..Len(pending'), pending'[i].seq # 0 PROVE pending'[i].seq >= lastRaw'
  <2>1. CASE Emit
    BY <1>0, <1>5, <1>m, <2>1, Places
  <2>2. CASE ~Emit
    <3>1. lastRaw' = lastRaw
      BY <1>q, <2>2
    <3>2. CASE \E j \in 1..Len(pending) : pending'[i] = pending[j]
      BY <1>5, <3>1, <3>2 DEF AheadInv
    <3>3. ASSUME NEW u \in 1..(MaxReceived + 1), NEW k \in 1..PerUpdate, Takes(u),
                 pending'[i] = Part(u, k)
          PROVE  pending'[i].seq >= lastRaw'
      <4>1. pending'[i].seq = u
        BY <3>3, NewShapes DEF Stamp
      <4>2. \E j \in 1..Len(delivery) : u = delivery[j]
        BY <1>0, <3>3, TakenIsNext DEF OrderInv
      <4> QED BY <1>0, <1>m, <1>n, <4>1, <4>2
    <3>4. CASE TakeEvent /\ pending'[i] = Steer(Head(events).id, Head(events).seq)
      <4>1. Head(events) = events[1] /\ 1 \in 1..Len(events)
        BY <3>4, TailFacts DEF TakeEvent, Typed, CallTypes
      <4>2. pending'[i].seq = events[1].seq
        BY <3>4, <4>1, NewShapes
      <4> QED BY <1>0, <1>5, <1>m, <1>n, <4>1, <4>2
    <3>5. CASE pending'[i] = Prompt
      <4>1. pending'[i].seq = promptSeq /\ promptSeq = received
        BY <1>5, <3>5, NewShapes DEF Typed, PeerInv
      <4> QED BY <1>0, <3>1, <4>1
    <3>6. \A c : Steer(c, 0).seq = 0
      BY NewShapes
    <3> QED BY <1>0, <1>5, <3>2, <3>3, <3>4, <3>5, <3>6, NewPending
  <2> QED BY <2>1, <2>2
<1> QED BY <1>1, <1>2, <1>3, <1>4, <1>5 DEF AheadInv, Beyond, Unreported, AnswerAhead, EventAhead

LEMMA StrictStep ==
  ASSUME Typed, OrderInv, BarrierInv, CallsInv, AnswersInv, StrictInv, ArbiterNext
  PROVE  StrictInv'
<1>0. Typed' /\ Sequenced' = Sequenced /\ Chatty' = Chatty /\ Buffer' = Buffer
  BY TypedStep, PeerMoves
<1> SUFFICES ASSUME Strict', Sequenced', missed' = {}, Observing' PROVE AheadInv'
  BY DEF StrictInv
<1>m. missed = {}
  BY MissedGrows
<1>1. Sequenced /\ Strict /\ Buffer = 0 /\ ~Chatty
  BY <1>0 DEF Strict
<1>2. ~Fail /\ at # "failed"
  BY AtMoves DEF Observing
<1>3. Len(out) \in Nat /\ Len(out') \in Nat /\ Len(out) <= Len(out')
      /\ \A i \in 1..Len(out) : out'[i] = out[i]
  BY <1>0, NewOut, EntriesAre DEF Typed, OutTypes
<1>4. \A i \in 1..Len(out) : out[i].kind # "prompt"
  <2>1. \A i \in 1..Len(out) : i \in 1..Len(out')
    BY <1>3
  <2> QED BY <1>3, <2>1 DEF Observing
<1>5. AheadInv
  BY <1>1, <1>2, <1>4, <1>m DEF StrictInv, Observing
<1>6. Emit => Candidate.kind # "prompt"
  <2> SUFFICES ASSUME Emit PROVE Candidate.kind # "prompt"
    OBVIOUS
  <2>1. Len(out') = Len(out) + 1
    BY EmitFacts DEF Typed
  <2>2. Len(out') \in 1..Len(out') /\ Len(out') \notin 1..Len(out)
    BY <1>3, <2>1
  <2>3. out'[Len(out')].kind = Candidate.kind
    BY <1>0, <1>2, <2>2, NewOut
  <2> QED BY <2>2, <2>3 DEF Observing
<1> QED BY <1>1, <1>2, <1>5, <1>6, <1>m, AheadStep

(* A turn does not fail while every sequence that waits is at the mark or above
   it. *)
LEMMA LateStep ==
  ASSUME Typed, OrderInv, StrictInv, FailsOnlyLate, ArbiterNext
  PROVE  FailsOnlyLate'
<1>0. Typed' /\ Sequenced' = Sequenced /\ Chatty' = Chatty /\ Buffer' = Buffer
  BY TypedStep, PeerMoves
<1> SUFFICES ASSUME Strict', at' = "failed"
             PROVE  /\ Sequenced'
                    /\ missed' # {} \/ \E i \in 1..(Len(out') - 1) : out'[i].kind = "prompt"
  BY DEF FailsOnlyLate
<1>1. Fail /\ at # "failed" /\ Strict
  BY <1>0, AtMoves DEF Strict
<1>2. pending # <<>> /\ Candidate.seq # 0 /\ Candidate.seq < lastRaw
  BY <1>1 DEF Fail, Regresses
<1>3. Best \in 1..Len(pending) /\ Candidate = pending[Best] /\ Candidate.seq \in Nat
  <2>1. OutTypes
    BY DEF Typed
  <2>2. Best \in 1..Len(pending) /\ Candidate = pending[Best] /\ Candidate \in Observation
    BY <1>2, <2>1, BestFacts
  <2> QED BY <2>2, Naturals0
<1>4. Sequenced
  BY <1>2, <1>3 DEF OrderInv, MarksInv, Numbered
<1>5. ~AheadInv
  <2>1. lastRaw \in Nat /\ ~(Candidate.seq >= lastRaw)
    BY <1>2, <1>3, Naturals0
  <2> QED BY <1>2, <1>3, <2>1 DEF AheadInv
<1>m. CASE missed' # {}
  BY <1>0, <1>4, <1>m
<1> SUFFICES ASSUME missed' = {}
             PROVE  Sequenced' /\ \E i \in 1..(Len(out') - 1) : out'[i].kind = "prompt"
  BY <1>m
<1>6. PICK i \in 1..Len(out) : out[i].kind = "prompt"
  BY <1>1, <1>4, <1>5, MissedGrows DEF StrictInv, Observing
<1>7. Len(out) < Len(out') /\ Len(out) \in Nat /\ Len(out') \in Nat
  <2>1. PICK a, b, p, w :
          /\ a \in Seq(Emitted) /\ b \in Seq(Emitted) /\ p \in Emitted
          /\ out' = ((out \o a) \o b) \o <<p>>
          /\ p.kind = "prompt" /\ p.id = NoCall
          /\ Unresolved(a) /\ Waiting(b, w)
    BY <1>1, FailFacts DEF Typed
  <2>2. Len(out') = Len(out) + Len(a) + Len(b) + 1
    BY <2>1, FailEntries DEF Typed
  <2>3. Len(a) \in Nat /\ Len(b) \in Nat /\ Len(out) \in Nat
    BY <2>1, EntriesAre
  <2> QED BY <2>2, <2>3
<1>8. i \in 1..(Len(out') - 1) /\ out'[i] = out[i]
  BY <1>0, <1>6, <1>7, NewOut
<1> QED BY <1>0, <1>4, <1>6, <1>8

-----------------------------------------------------------------------------
(***************************************************************************)
(* The theorems.                                                           *)
(***************************************************************************)
(* The inductive invariant. *)
AInv == /\ Typed /\ OrderInv /\ CallsInv /\ PromptInv /\ BarrierInv /\ DrainInv /\ ConserveInv
        /\ AnswersInv /\ StrictInv /\ PromptCoversUpdates /\ FailsOnlyLate

LEMMA AInvInitially == ArbiterInit => AInv
<1> SUFFICES ASSUME ArbiterInit PROVE AInv
  OBVIOUS
<1>1. FailsOnlyLate
  BY DEF ArbiterInit, FailsOnlyLate
<1>2. Typed /\ OrderInv /\ CallsInv
  BY TypedInitially, MarksInitially, KeysInitially, QueuesInitially, LineInitially, CallsInitially
     DEF OrderInv
<1>3. PromptInv /\ BarrierInv /\ DrainInv /\ ConserveInv /\ StrictInv /\ AnswersInv
      /\ PromptCoversUpdates
  BY PromptInitially, BarrierInitially, DrainInitially, ConserveInitially, StrictInitially,
     CoversInitially
<1> QED BY <1>1, <1>2, <1>3 DEF AInv

LEMMA AInvStutters == AInv /\ UNCHANGED vars => AInv'
<1> SUFFICES ASSUME AInv, UNCHANGED vars PROVE AInv'
  OBVIOUS
<1>1. Typed' /\ OrderInv' /\ CallsInv'
  BY TypedStep, OrderStep, CallsStep DEF AInv
<1>2. Sequenced' = Sequenced /\ Chatty' = Chatty /\ Buffer' = Buffer
  BY PeerMoves DEF AInv
<1>3. PromptInv' /\ BarrierInv'
  BY <1>2, Stutters DEF AInv, PromptInv, QueuedOnce, BarrierInv, Prompted, Beyond
<1>4. DrainInv'
  BY <1>2, Stutters DEF AInv, DrainInv, Sweeping, Follows, Beyond
<1>5. ConserveInv'
  BY Stutters DEF AInv, ConserveInv, Covered, In, Carries
<1>6. AnswersInv'
  BY Stutters DEF AInv, AnswersInv
<1>7. StrictInv'
  BY <1>2, Stutters DEF AInv, StrictInv, Strict, Observing, AheadInv, Unreported, AnswerAhead,
     EventAhead, Beyond
<1>8. PromptCoversUpdates'
  BY Stutters DEF AInv, PromptCoversUpdates
<1>9. FailsOnlyLate'
  BY <1>2, Stutters DEF AInv, FailsOnlyLate, Strict
<1> QED BY <1>1, <1>3, <1>4, <1>5, <1>6, <1>7, <1>8, <1>9 DEF AInv

LEMMA AInvStep == AInv /\ [ArbiterNext]_vars => AInv'
<1> SUFFICES ASSUME AInv, [ArbiterNext]_vars PROVE AInv'
  OBVIOUS
<1>1. CASE ArbiterNext
  <2>1. Typed' /\ OrderInv' /\ CallsInv'
    BY TypedStep, OrderStep, CallsStep DEF AInv
  <2>2. MarksInv /\ ShapeInv /\ EndInv
    BY DEF AInv, OrderInv, CallsInv
  <2>3. PromptInv' /\ BarrierInv' /\ DrainInv' /\ ConserveInv'
    BY <1>1, <2>2, PromptStep, BarrierInvStep, DrainStep, ConserveStep DEF AInv
  <2>4. AnswersInv' /\ StrictInv' /\ FailsOnlyLate'
    BY <1>1, AnswersStep, StrictStep, LateStep DEF AInv
  <2>5. PromptCoversUpdates'
    BY <1>1, CoversStep DEF AInv
  <2> QED BY <2>1, <2>3, <2>4, <2>5 DEF AInv
<1>2. CASE UNCHANGED vars
  BY <1>2, AInvStutters
<1> QED BY <1>1, <1>2

LEMMA AInvAlways == ArbiterSpec => []AInv
<1>1. ArbiterInit => AInv
  BY AInvInitially
<1>2. AInv /\ [ArbiterNext]_vars => AInv'
  BY AInvStep
<1> QED BY <1>1, <1>2, PTL DEF ArbiterSpec, vars

LEMMA OnceInv == AInv => EachOnce
<1> SUFFICES ASSUME AInv, at \in {"done", "failed"}
             PROVE  /\ Steers = {}
                    /\ \A c \in Calls : call[c] = "answered" => Single(Observed(c))
                    /\ at = "done" => Single(Prompts)
                    /\ at = "failed" => out[Len(out)].kind = "prompt"
  BY DEF EachOnce
<1>1. pending = <<>> /\ Steers = {}
  BY DEF AInv, CallsInv, EndInv
<1>2. ASSUME NEW c \in Calls, call[c] = "answered" PROVE Single(Observed(c))
  <2>1. ~Has(pending, c)
    BY <1>1 DEF Has
  <2>2. PICK i \in 1..Len(out) : out[i].id = c
    BY <1>2, <2>1 DEF AInv, CallsInv, ObservedInv, Has
  <2>3. c # NoCall
    BY AssumedConstants
  <2>4. \A j \in 1..Len(out) : out[j].id = c => j = i
    BY <2>2, <2>3 DEF AInv, CallsInv, ObservedInv, Distinct
  <2>5. Observed(c) = {i}
    BY <2>2, <2>4 DEF Observed
  <2> QED BY <2>5 DEF Single
<1>3. ASSUME at = "done" PROVE Single(Prompts)
  <2>1. QueuedOnce /\ promptQueued
    BY <1>3 DEF AInv, PromptInv
  <2>2. PICK i \in 1..Len(out) : out[i].kind = "prompt"
    BY <1>1, <2>1 DEF QueuedOnce
  <2>3. Prompts = {i}
    BY <2>1, <2>2 DEF QueuedOnce, Prompts
  <2> QED BY <2>3 DEF Single
<1>4. at = "failed" => out[Len(out)].kind = "prompt"
  BY DEF AInv, PromptInv
<1> QED BY <1>1, <1>2, <1>3, <1>4

(* In every session and for any number of calls and messages: until a turn
   fails, what the arbiter lets leave has nondecreasing receive sequences, and
   what has none a key above all before it; updates leave once and in the order
   they were received; and at the end each accepted call was observed once, the
   prompt too if the turn did not fail, and last if it did (tryEmit,
   nextObservationIndex, failSequenceRegression). *)
THEOREM ArbiterKeepsOrder == ArbiterSpec => []ArbiterInv
<1>1. AInv => ArbiterInv
  <2> SUFFICES ASSUME AInv PROVE ArbiterInv
    OBVIOUS
  <2>1. ArbiterTypeOK
    BY ArbiterTypes DEF AInv, Typed
  <2>2. KeysIncrease
    BY DEF AInv, OrderInv, KeysInv, KeysIncrease
  <2>3. UpdatesInOrder
    BY DEF AInv, OrderInv, LineInv, UpdatesRise, Before, UpdatesInOrder
  <2> QED BY <2>1, <2>2, <2>3, OnceInv DEF ArbiterInv
<1> QED BY <1>1, AInvAlways, PTL

(* Whichever barriers the busy worker dropped or returned without what they wait
   for, the prompt leaves after every observation of every update received before
   its answer that no barrier gave up on (maybeRequestPromptBarrier,
   requestBarrierMode, barrierWorker, drainTerminalUpdates). *)
THEOREM PromptLeavesLast == ArbiterSpec => []PromptCoversUpdates
<1>1. AInv => PromptCoversUpdates
  BY DEF AInv
<1> QED BY <1>1, AInvAlways, PTL

(* With updates handed over by a peer that is silent after its answer, or with
   nothing stamped, however the goroutines are scheduled, a turn fails for its
   order only over an update a barrier gave up on, or after the prompt was
   observed (tryEmit, barrierWorker, failSequenceRegression). *)
THEOREM FailureIsLate == ArbiterSpec => []FailsOnlyLate
<1>1. AInv => FailsOnlyLate
  BY DEF AInv
<1> QED BY <1>1, AInvAlways, PTL
=============================================================================
