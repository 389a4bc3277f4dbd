------------------------------ MODULE Projection ------------------------------
(***************************************************************************)
(* The projection of an ACP turn (driver/acp/projection.go): the goroutine *)
(* that owns the two public channels of a stream.  Producers put commands  *)
(* into a bounded mailbox; the owner moves those of the selected view to   *)
(* its channel, through a bounded queue of its own, and closes both        *)
(* channels when it ends.  A producer that finds the mailbox full sleeps   *)
(* on the current generation channel, which the owner closes and replaces  *)
(* after each command it took.                                             *)
(***************************************************************************)
EXTENDS Naturals, Sequences

CONSTANTS
  Producers,    \* goroutines that emit
  Program,      \* the kinds of command each of them emits, in order
  Depth,        \* projectionBufferDepth, 4096
  MailboxCap    \* cap(commands), 128

ASSUME ProjectionAssumption ==
  /\ Program \in [Producers -> Seq({"events", "observations"})]
  /\ Depth \in Nat \ {0} /\ MailboxCap \in Nat \ {0}
  /\ "reader" \notin Producers

VARIABLES
  chooser,      \* the view whose selectView won selectOnce
  sent,         \* commands admitted of each emitter
  sleeping,     \* emitters waiting on the current generation channel
  refused,      \* emitters whose last enqueue returned false
  commands, closed,
  stopped,      \* close was called: p.stop is closed
  aborted,      \* p.abort is closed
  owner,        \* loop, consumed (a command was taken), done
  view,         \* selected
  stopping,
  pending,
  output,       \* the selected channel
  acked,        \* commands whose ack is closed
  admitted,     \* commands admitted, in order (history)
  received      \* what the consumer read (history)

emitterVars == <<chooser, sent, refused>>
ownerVars   == <<view, stopping, pending, output>>
pvars == <<emitterVars, sleeping, commands, closed, stopped, aborted, owner, ownerVars,
           acked, admitted, received>>

Views == {"events", "observations"}
Emitters == Producers \cup {"reader"}
Command == [by : Emitters, n : Nat, kind : Views \cup {"select"}]

ProjectionTypeOK ==
  /\ {chooser, view} \subseteq Views \cup {"none"}
  /\ sent \in [Emitters -> Nat]
  /\ {sleeping, refused} \subseteq SUBSET Emitters
  /\ commands \in Seq(Command) /\ Len(commands) <= MailboxCap
  /\ pending \in Seq(Command) /\ Len(pending) <= Depth
  /\ output \in Seq(Command) /\ Len(output) <= Depth
  /\ owner \in {"loop", "consumed", "done"}
  /\ {closed, stopped, aborted, stopping} \subseteq BOOLEAN
  /\ acked \subseteq Command
  /\ {admitted, received} \subseteq Seq(Command)

ProjectionInit ==
  /\ chooser = "none" /\ sent = [e \in Emitters |-> 0]
  /\ sleeping = {} /\ refused = {}
  /\ commands = <<>> /\ closed = FALSE /\ stopped = FALSE /\ aborted = FALSE
  /\ owner = "loop" /\ view = "none" /\ stopping = FALSE
  /\ pending = <<>> /\ output = <<>>
  /\ acked = {} /\ admitted = <<>> /\ received = <<>>

-----------------------------------------------------------------------------
(***************************************************************************)
(* Emitters.                                                               *)
(***************************************************************************)
(* selectView: the first of all readers, in Spawn; the others return. *)
Choose(v) ==
  /\ chooser = "none" /\ chooser' = v
  /\ UNCHANGED <<sent, refused, sleeping, commands, closed, stopped, aborted, owner, ownerVars,
                 acked, admitted, received>>

(* Mutant: production starts before a view is selected. *)
SelectedLate == TRUE
(* Spawn selects the view, and waits for it, before the turn may emit. *)
Selected == view # "none" \/ "reader" \in refused

Wants(e) == IF e = "reader" THEN chooser # "none" /\ sent[e] = 0
            ELSE Selected /\ sent[e] < Len(Program[e])
NextCommand(e) == [by |-> e, n |-> sent[e] + 1,
                   kind |-> IF e = "reader" THEN "select" ELSE Program[e][sent[e] + 1]]

(* One round of enqueue under commandMu.  A sleeper also hears done and abort,
   but both follow markClosed, so it leaves by the first disjunct. *)
Enqueue(e) ==
  /\ Wants(e) /\ e \notin sleeping \cup refused
  /\ \/ /\ closed
        /\ refused' = refused \cup {e}
        /\ UNCHANGED <<sent, commands, admitted, sleeping>>
     \/ /\ ~closed /\ Len(commands) < MailboxCap
        /\ commands' = Append(commands, NextCommand(e))
        /\ admitted' = Append(admitted, NextCommand(e))
        /\ sent' = [sent EXCEPT ![e] = @ + 1]
        /\ UNCHANGED <<refused, sleeping>>
     \/ /\ ~closed /\ Len(commands) >= MailboxCap
        /\ sleeping' = sleeping \cup {e}
        /\ UNCHANGED <<sent, refused, commands, admitted>>
  /\ UNCHANGED <<chooser, closed, stopped, aborted, owner, ownerVars, acked, received>>

-----------------------------------------------------------------------------
(***************************************************************************)
(* Teardown.                                                               *)
(***************************************************************************)
(* Mutant: closing does not close the generation channel. *)
SleepersForgotten == sleeping
(* markClosed: the last generation is closed. *)
SleepersWoken == IF closed THEN sleeping ELSE {}

(* close: markClosed, then the stop channel; it returns with done. *)
Close ==
  /\ ~stopped /\ stopped' = TRUE
  /\ closed' = TRUE /\ sleeping' = SleepersWoken
  /\ UNCHANGED <<emitterVars, commands, aborted, owner, ownerVars, acked, admitted, received>>

(* abortOwner, called when the driver's context ends (stopOn). *)
AbortOwner ==
  /\ ~aborted /\ owner # "done" /\ aborted' = TRUE
  /\ closed' = TRUE /\ sleeping' = SleepersWoken
  /\ UNCHANGED <<emitterVars, commands, stopped, owner, ownerVars, acked, admitted, received>>

-----------------------------------------------------------------------------
(***************************************************************************)
(* The owner.                                                              *)
(***************************************************************************)
Waiting == pending # <<>> /\ view # "none"
Matches == pending[1].kind = view

SkipDue == Waiting /\ ~Matches
(* Mutant: the owner leaves with commands still in its mailbox. *)
ExitDueHasty == stopping /\ ~SkipDue /\ (~Waiting \/ Len(output) = Depth)
ExitDue ==
  /\ stopping /\ ~SkipDue
  /\ IF Waiting THEN Len(output) = Depth ELSE commands = <<>>
Selecting == owner = "loop" /\ ~SkipDue /\ ~ExitDue

(* A command of the other view is only acknowledged. *)
Skip ==
  /\ owner = "loop" /\ SkipDue
  /\ acked' = acked \cup {pending[1]} /\ pending' = Tail(pending)
  /\ UNCHANGED <<emitterVars, sleeping, commands, closed, stopped, aborted, owner, view,
                 stopping, output, admitted, received>>

Queued(c) == Append(pending, c)

Retains == Len(pending) < Depth

Receive ==
  LET c == Head(commands) IN
  /\ Selecting /\ Retains /\ commands # <<>>
  /\ commands' = Tail(commands)
  /\ owner' = "consumed"
  /\ IF c.kind = "select"
     THEN /\ view' = chooser /\ acked' = acked \cup {c}
          /\ UNCHANGED pending
     ELSE /\ pending' = Queued(c)
          /\ UNCHANGED <<view, acked>>
  /\ UNCHANGED <<emitterVars, sleeping, closed, stopped, aborted, stopping, output, admitted,
                 received>>

(* Mutant: the generation is not advanced. *)
GenerationKept == sleeping
(* commandConsumed, under commandMu. *)
NextGeneration == IF closed THEN sleeping ELSE {}
Advance ==
  /\ owner = "consumed" /\ owner' = "loop"
  /\ sleeping' = NextGeneration
  /\ UNCHANGED <<emitterVars, commands, closed, stopped, aborted, ownerVars, acked, admitted,
                 received>>

TakeStop ==
  /\ Selecting /\ stopped /\ ~stopping
  /\ stopping' = TRUE
  /\ UNCHANGED <<emitterVars, sleeping, commands, closed, stopped, aborted, owner, view, pending,
                 output, acked, admitted, received>>

Output ==
  /\ Selecting /\ Waiting /\ Len(output) < Depth
  /\ output' = Append(output, pending[1])
  /\ acked' = acked \cup {pending[1]} /\ pending' = Tail(pending)
  /\ UNCHANGED <<emitterVars, sleeping, commands, closed, stopped, aborted, owner, view,
                 stopping, admitted, received>>

(* The deferred teardown: what is left is acknowledged, unsent. *)
Left == {pending[i] : i \in 1..Len(pending)} \cup {commands[i] : i \in 1..Len(commands)}
Exit ==
  /\ owner = "loop"
  /\ ExitDue \/ (Selecting /\ aborted)
  /\ owner' = "done"
  /\ closed' = TRUE /\ sleeping' = SleepersWoken
  /\ acked' = acked \cup Left
  /\ commands' = <<>> /\ pending' = <<>>
  /\ UNCHANGED <<emitterVars, stopped, aborted, view, stopping, output, admitted, received>>

Owner == Skip \/ Receive \/ Advance \/ TakeStop \/ Output \/ Exit

(* The consumer of the selected channel. *)
Read ==
  /\ output # <<>>
  /\ output' = Tail(output) /\ received' = Append(received, Head(output))
  /\ UNCHANGED <<emitterVars, sleeping, commands, closed, stopped, aborted, owner, view,
                 stopping, pending, acked, admitted>>

ProjectionNext ==
  \/ Owner \/ Read \/ Close \/ AbortOwner
  \/ \E v \in Views : Choose(v)
  \/ \E e \in Emitters : Enqueue(e)

ProjectionSpec == ProjectionInit /\ [][ProjectionNext]_pvars

(* The owner's goroutine and the emitters are scheduled; the consumer may stop
   reading for ever.  The abort case of a select is taken in the end. *)
ProjectionFairSpec ==
  /\ ProjectionSpec
  /\ WF_pvars(Owner) /\ SF_pvars(TakeStop) /\ SF_pvars(Exit)
  /\ \A e \in Emitters : WF_pvars(Enqueue(e))

-----------------------------------------------------------------------------
(***************************************************************************)
(* Properties.                                                             *)
(***************************************************************************)
Seen == received \o output
SeenBefore(i) == {Seen[j] : j \in 1..(i - 1)}
RelevantBefore(p) == {admitted[q] : q \in {b \in 1..(p - 1) : admitted[b].kind = view}}

(* The selected channel carries what was admitted for its view, in order and
   without a gap; the other one nothing (run, selectView).  No two commands are
   equal (an emitter numbers its own), so equal sets before each one say it. *)
OutputIsPrefix == \A i \in 1..Len(Seen) : \E p \in 1..Len(admitted) :
  /\ admitted[p] = Seen[i] /\ Seen[i].kind = view
  /\ SeenBefore(i) = RelevantBefore(p)

EverythingSeen == \A p \in 1..Len(admitted) :
  admitted[p].kind = view => \E i \in 1..Len(Seen) : Seen[i] = admitted[p]

(* An acknowledgement is true: the command is in the channel, belongs to the
   other view, or the projection is over; then all are given (run's deferred
   teardown, on which the arbiter's emitObservation waits before it replies). *)
AckIsTrue ==
  /\ owner # "done" => \A c \in acked :
       c.kind \in Views => c.kind # view \/ \E i \in 1..Len(Seen) : Seen[i] = c
  /\ owner = "done" => \A i \in 1..Len(admitted) : admitted[i] \in acked

(* Nobody sleeps through the only generation that could wake him: the
   projection is open, and the mailbox is full or the owner is about to advance
   the generation (enqueue, commandConsumed, markClosed). *)
NoLostWakeup == sleeping # {} =>
  ~closed /\ (Len(commands) = MailboxCap \/ owner = "consumed")

(* What the owner, the mailbox and the selected channel hold at any time. *)
ProjectionInv == ProjectionTypeOK /\ OutputIsPrefix /\ AckIsTrue /\ NoLostWakeup

(* A projection that was closed and not aborted loses something only when its
   consumer left the channel full ("the owner detects a full output/pending
   bound and exits without waiting forever", close). *)
LosesOnlyWhenFull == [][
  (owner # "done" /\ owner' = "done" /\ ~aborted /\ view # "none") =>
    EverythingSeen \/ Len(output) = Depth]_pvars

(* close and abort end the owner although nobody reads (run, abortOwner). *)
CloseEnds == (stopped \/ aborted) ~> owner = "done"

(* While the consumer goes on reading, every emitter gets through (enqueue,
   commandConsumed). *)
EmittersServed ==
  WF_pvars(Read) /\ WF_pvars(\E v \in Views : Choose(v)) =>
    \A e \in Emitters : Wants(e) ~> (~Wants(e) \/ e \in refused)
=============================================================================
