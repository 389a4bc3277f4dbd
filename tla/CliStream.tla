------------------------------- MODULE CliStream -------------------------------
(***************************************************************************)
(* The stream of one turn of a command line agent, as Spawn of the Claude  *)
(* and of the Codex driver returns it (driver/claude/claude.go,            *)
(* driver/codex/codex.go): a child process that leads a process group, a   *)
(* decoder that reads its stdout, a forwarder that hands the events to the *)
(* turn's producer, and Close, which interrupts the group, kills it when   *)
(* the leader has gone or the grace is over, and reaps the leader.  The    *)
(* two drivers differ in what they do with the turn's context and with a   *)
(* decode error.  Processes, signals, pipes and exec.Cmd.Wait are the      *)
(* system's.                                                               *)
(***************************************************************************)
EXTENDS Naturals, Sequences, FiniteSets

(* A line gives an event, does not decode, or is longer than the scanner takes.
   A last line that a signal cut short is one that does not decode. *)
LineKinds == {"event", "malformed", "oversized"}

CONSTANTS
  Leader,       \* the process that was started
  Children,     \* processes it and its descendants may fork
  Texts,        \* what an agent may write, line by line
  PipeCap       \* the number of lines the stdout pipe holds

ASSUME CliStreamAssumption ==
  /\ Leader \notin Children /\ IsFiniteSet(Children)
  /\ \A t \in Texts : t \in Seq(LineKinds)
  /\ PipeCap \in Nat \ {0}

VARIABLES
  driver,       \* "claude" or "codex"
  text,         \* what this agent writes, if it gets so far
  cancelled,    \* the turn's context is done
  alive, doomed,        \* running processes, and those SIGKILL was sent to
  group,        \* members of the leader's process group, alive or not
  fds,          \* which of stdout and stderr each process has open
  status,       \* how the leader ended: none, ok, failed (code > 0), signaled
  reaped,
  reused,       \* the leader's number names another process group
  interrupted,  \* SIGINT was sent to the leader's group
  struck,       \* a signal met another process group (history)
  sent,         \* lines written
  filled,       \* lines the decoder's buffer took from the pipe
  read,         \* lines it scanned
  readOpen,     \* the driver's end of the stdout pipe
  decoder,      \* reading, sending, done
  firstErr,     \* none, line, closed: the first decode error
  stop,         \* stopEvents was called
  offer,        \* the line whose event is on offer, or 0
  forwarder,    \* running, done
  stopped,      \* the forwarder saw the stop
  delivered,    \* lines whose event the producer took, in order (history)
  call,         \* where the producer and the watcher are with Close
  ladder,       \* where shutdown is
  observer,     \* none, watching, exited
  atClose,      \* decoder and status when shutdown began (history)
  closeErr      \* what Close returns

procVars    == <<alive, doomed, group, fds, status, reaped, reused>>
signalVars  == <<interrupted, struck>>
pipeVars    == <<sent, filled, readOpen>>
decodeVars  == <<read, decoder, firstErr>>
forwardVars == <<offer, forwarder, stopped, delivered>>
closeVars   == <<stop, call, ladder, observer, atClose, closeErr>>
svars == <<driver, text, cancelled, procVars, signalVars, pipeVars, decodeVars, forwardVars,
           closeVars>>

Processes == Children \cup {Leader}
Streams == {"stdout", "stderr"}
Closers == {"producer", "watcher"}
Ladder == {"idle", "interrupt", "grace", "killExited", "killTimer", "observe", "reap", "copiers",
           "drain", "done"}

CliStreamTypeOK ==
  /\ driver \in {"claude", "codex"} /\ text \in Texts
  /\ {cancelled, reaped, reused, interrupted, struck, readOpen, stop, stopped} \subseteq BOOLEAN
  /\ {alive, doomed, group} \subseteq SUBSET Processes
  /\ fds \in [Processes -> SUBSET Streams]
  /\ status \in {"none", "ok", "failed", "signaled"}
  /\ sent \in 0..Len(text) /\ filled \in 0..sent /\ read \in 0..filled
  /\ decoder \in {"reading", "sending", "done"} /\ firstErr \in {"none", "line", "closed"}
  /\ offer \in 0..read /\ forwarder \in {"running", "done"} /\ delivered \in Seq(1..read)
  /\ call \in [Closers -> {"none", "working", "calling", "returned"}]
  /\ ladder \in Ladder /\ observer \in {"none", "watching", "exited"}
  /\ closeErr \subseteq {"decode", "exit"}

(* Spawn: the child runs in a group of its own, the goroutines are started, and
   Codex has one more, which waits for the context. *)
CliStreamInit ==
  /\ driver \in {"claude", "codex"} /\ text \in Texts
  /\ cancelled \in BOOLEAN
  /\ alive = {Leader} /\ doomed = {} /\ group = {Leader}
  /\ fds = [p \in Processes |-> IF p = Leader THEN Streams ELSE {}]
  /\ status = "none" /\ reaped = FALSE /\ reused = FALSE
  /\ interrupted = FALSE /\ struck = FALSE
  /\ sent = 0 /\ filled = 0 /\ read = 0 /\ readOpen = TRUE
  /\ decoder = "reading" /\ firstErr = "none"
  /\ stop = FALSE /\ offer = 0 /\ forwarder = "running" /\ stopped = FALSE /\ delivered = <<>>
  /\ call = [c \in Closers |-> IF c = "producer" \/ driver = "codex" THEN "working" ELSE "none"]
  /\ ladder = "idle" /\ observer = "none" /\ atClose = <<>> /\ closeErr = {}

-----------------------------------------------------------------------------
(***************************************************************************)
(* The system: processes, the pipe, and the number of a process group.     *)
(***************************************************************************)
Acting == alive \ doomed
Holds(s) == {p \in alive : s \in fds[p]}

(* A child inherits what it is not given another file for, and the group. *)
Fork(p, c) ==
  /\ p \in Acting /\ c \notin alive \cup doomed /\ fds[c] = {}
  /\ \E inherited \in SUBSET fds[p] : inherited # {} /\ fds' = [fds EXCEPT ![c] = inherited]
  /\ alive' = alive \cup {c}
  /\ group' = IF p \in group THEN group \cup {c} ELSE group
  /\ UNCHANGED <<driver, text, cancelled, doomed, status, reaped, reused, signalVars, pipeVars,
                 decodeVars, forwardVars, closeVars>>

(* A child makes a session of its own and is no longer in the group. *)
Detach(c) ==
  /\ c \in Acting \cap group \cap Children
  /\ group' = group \ {c}
  /\ UNCHANGED <<driver, text, cancelled, alive, doomed, fds, status, reaped, reused, signalVars,
                 pipeVars, decodeVars, forwardVars, closeVars>>

Write(p) ==
  /\ p \in Acting \cap Holds("stdout") /\ readOpen
  /\ sent < Len(text) /\ sent - filled < PipeCap
  /\ sent' = sent + 1
  /\ UNCHANGED <<driver, text, cancelled, procVars, signalVars, filled, readOpen, decodeVars,
                 forwardVars, closeVars>>

(* A process ends by itself or by a signal, of the driver or of anybody else. *)
Exit(p) ==
  /\ p \in Acting
  /\ alive' = alive \ {p}
  /\ IF p = Leader
     THEN status' \in {"ok", "failed", "signaled"}
     ELSE UNCHANGED status
  /\ UNCHANGED <<driver, text, cancelled, doomed, group, fds, reaped, reused, signalVars, pipeVars,
                 decodeVars, forwardVars, closeVars>>

Die(p) ==
  /\ p \in doomed \cap alive
  /\ alive' = alive \ {p}
  /\ status' = IF p = Leader THEN "signaled" ELSE status
  /\ UNCHANGED <<driver, text, cancelled, doomed, group, fds, reaped, reused, signalVars, pipeVars,
                 decodeVars, forwardVars, closeVars>>

(* The number is free once its leader is reaped and no member is left. *)
Reuse ==
  /\ reaped /\ group \cap alive = {} /\ ~reused
  /\ reused' = TRUE
  /\ UNCHANGED <<driver, text, cancelled, alive, doomed, group, fds, status, reaped, signalVars,
                 pipeVars, decodeVars, forwardVars, closeVars>>

(* The turn is interrupted, or its loop shut down. *)
Cancel ==
  /\ ~cancelled /\ cancelled' = TRUE
  /\ UNCHANGED <<driver, text, procVars, signalVars, pipeVars, decodeVars, forwardVars, closeVars>>

System ==
  \/ \E p \in Processes : Write(p) \/ Exit(p) \/ Die(p) \/ \E c \in Children : Fork(p, c)
  \/ (\E c \in Children : Detach(c)) \/ Reuse \/ Cancel

-----------------------------------------------------------------------------
(***************************************************************************)
(* decodeStream and decodeJSONL.                                           *)
(***************************************************************************)
FirstErr(e) == IF firstErr = "none" THEN e ELSE firstErr

Fill ==
  /\ decoder = "reading" /\ read = filled /\ readOpen /\ filled < sent
  /\ filled' = sent
  /\ UNCHANGED <<driver, text, cancelled, procVars, signalVars, sent, readOpen, decodeVars,
                 forwardVars, closeVars>>

(* One round of the scan loop; an oversized line ends it. *)
Scan ==
  /\ decoder = "reading" /\ read < filled
  /\ read' = read + 1
  /\ decoder' = CASE text[read'] = "event" -> "sending"
                  [] text[read'] = "malformed" -> "reading"
                  [] text[read'] = "oversized" -> "done"
  /\ firstErr' = IF text[read'] = "event" THEN firstErr ELSE FirstErr("line")
  /\ UNCHANGED <<driver, text, cancelled, procVars, signalVars, pipeVars, forwardVars, closeVars>>

(* End of file, or the error of a read end that was closed. *)
EndScan ==
  /\ decoder = "reading" /\ read = filled
  /\ \/ /\ readOpen /\ filled = sent /\ Holds("stdout") = {}
        /\ UNCHANGED firstErr
     \/ /\ ~readOpen
        /\ firstErr' = FirstErr("closed")
  /\ decoder' = "done"
  /\ UNCHANGED <<driver, text, cancelled, procVars, signalVars, pipeVars, read, forwardVars,
                 closeVars>>

Decoder == Fill \/ Scan \/ EndScan

-----------------------------------------------------------------------------
(***************************************************************************)
(* forwardEvents, and the producer that reads the events it forwards.      *)
(***************************************************************************)
(* After the stop events are only drained. *)
Hand ==
  /\ decoder = "sending" /\ offer = 0
  /\ decoder' = "reading" /\ offer' = IF stopped THEN 0 ELSE read
  /\ UNCHANGED <<driver, text, cancelled, procVars, signalVars, pipeVars, read, firstErr, forwarder,
                 stopped, delivered, closeVars>>

(* Mutant: a blocked offer does not hear the stop. *)
StopUnheard == FALSE
StopHeard == stop

SeeStop ==
  /\ offer # 0 /\ StopHeard
  /\ stopped' = TRUE /\ offer' = 0
  /\ UNCHANGED <<driver, text, cancelled, procVars, signalVars, pipeVars, decodeVars, forwarder,
                 delivered, closeVars>>

EndForward ==
  /\ forwarder = "running" /\ offer = 0 /\ decoder = "done"
  /\ forwarder' = "done"
  /\ UNCHANGED <<driver, text, cancelled, procVars, signalVars, pipeVars, decodeVars, offer,
                 stopped, delivered, closeVars>>

Forwarder == Hand \/ SeeStop \/ EndForward

(* drainLegacyStream: a sink that finds the turn cancelled may refuse the event
   that was read, which ends the loop; an event that maps to nothing is not sunk. *)
Take ==
  /\ offer # 0 /\ call["producer"] = "working"
  /\ offer' = 0 /\ delivered' = Append(delivered, offer)
  /\ \/ UNCHANGED call
     \/ cancelled /\ call' = [call EXCEPT !["producer"] = "calling"]
  /\ UNCHANGED <<driver, text, cancelled, procVars, signalVars, pipeVars, decodeVars, forwarder, stopped,
                 stop, ladder, observer, atClose, closeErr>>

EventsOver ==
  /\ forwarder = "done" /\ call["producer"] = "working"
  /\ call' = [call EXCEPT !["producer"] = "calling"]
  /\ UNCHANGED <<driver, text, cancelled, procVars, signalVars, pipeVars, decodeVars, forwardVars,
                 stop, ladder, observer, atClose, closeErr>>

(* The goroutine of the Codex driver. *)
Watch ==
  /\ call["watcher"] = "working"
  /\ \/ cancelled /\ call' = [call EXCEPT !["watcher"] = "calling"]
     \/ ladder # "idle" /\ call' = [call EXCEPT !["watcher"] = "returned"]
  /\ UNCHANGED <<driver, text, cancelled, procVars, signalVars, pipeVars, decodeVars, forwardVars,
                 stop, ladder, observer, atClose, closeErr>>

-----------------------------------------------------------------------------
(***************************************************************************)
(* Close and shutdown.                                                     *)
(***************************************************************************)
StepTo(pc) == ladder' = pc

(* once.Do: the first caller goes on, with the stop and the observer. *)
Begin(c) ==
  /\ call[c] = "calling" /\ ladder = "idle" /\ StepTo("interrupt")
  /\ stop' = TRUE /\ observer' = "watching"
  /\ atClose' = <<decoder, status>>
  /\ UNCHANGED <<driver, text, cancelled, procVars, signalVars, pipeVars, decodeVars, forwardVars,
                 call, closeErr>>

(* waitProcessExit returns when the leader is gone, or because it cannot tell. *)
Observe ==
  /\ observer = "watching" /\ observer' = "exited"
  /\ UNCHANGED <<driver, text, cancelled, procVars, signalVars, pipeVars, decodeVars, forwardVars,
                 stop, call, ladder, atClose, closeErr>>

Interrupt ==
  /\ ladder = "interrupt" /\ StepTo("grace")
  /\ interrupted' = TRUE /\ struck' = (struck \/ reused)
  /\ UNCHANGED <<driver, text, cancelled, procVars, pipeVars, decodeVars, forwardVars, stop, call,
                 observer, atClose, closeErr>>

Grace ==
  /\ ladder = "grace"
  /\ \/ observer = "exited" /\ StepTo("killExited")
     \/ StepTo("killTimer")
  /\ UNCHANGED <<driver, text, cancelled, procVars, signalVars, pipeVars, decodeVars, forwardVars,
                 stop, call, observer, atClose, closeErr>>

(* Mutant: a leader that went by itself took its group along. *)
KilledByTimer == IF ladder = "killTimer" THEN doomed \cup (group \cap alive) ELSE doomed
Killed == doomed \cup (group \cap alive)

Kill ==
  /\ ladder \in {"killExited", "killTimer"}
  /\ doomed' = Killed /\ struck' = (struck \/ reused)
  /\ StepTo(IF ladder = "killExited" THEN "reap" ELSE "observe")
  /\ UNCHANGED <<driver, text, cancelled, alive, group, fds, status, reaped, reused, interrupted,
                 pipeVars, decodeVars, forwardVars, stop, call, observer, atClose, closeErr>>

AwaitExit ==
  /\ ladder = "observe" /\ observer = "exited" /\ StepTo("reap")
  /\ UNCHANGED <<driver, text, cancelled, procVars, signalVars, pipeVars, decodeVars, forwardVars,
                 stop, call, observer, atClose, closeErr>>

(* cmd.Wait: the process, then the goroutine that copies stderr to io.Discard,
   which goes on while any process has stderr open; then the pipe is closed.
   (Claude's prompt is copied to stdin the same way.) *)
Reap ==
  /\ ladder = "reap" /\ Leader \notin alive /\ StepTo("copiers")
  /\ reaped' = TRUE
  /\ UNCHANGED <<driver, text, cancelled, alive, doomed, group, fds, status, reused, signalVars,
                 pipeVars, decodeVars, forwardVars, stop, call, observer, atClose, closeErr>>

ClosePipe ==
  /\ ladder = "copiers" /\ Holds("stderr") = {} /\ StepTo("drain")
  /\ readOpen' = FALSE
  /\ UNCHANGED <<driver, text, cancelled, procVars, signalVars, sent, filled, decodeVars,
                 forwardVars, stop, call, observer, atClose, closeErr>>

(* Mutant: a negative code is an exit error too. *)
ExitErrorOfAny(s) == IF s \in {"failed", "signaled"} THEN {"exit"} ELSE {}
ExitError(s) == IF s = "failed" THEN {"exit"} ELSE {}
(* Claude only logs a decode error, Codex returns it. *)
DecodeError == IF driver = "codex" /\ firstErr # "none" THEN {"decode"} ELSE {}

Report ==
  /\ ladder = "drain" /\ forwarder = "done" /\ StepTo("done")
  /\ closeErr' = DecodeError \cup ExitError(status)
  /\ UNCHANGED <<driver, text, cancelled, procVars, signalVars, pipeVars, decodeVars, forwardVars,
                 stop, call, observer, atClose>>

Shutdown ==
  Interrupt \/ Grace \/ Kill \/ AwaitExit \/ Reap \/ ClosePipe \/ Report

(* Every caller of once.Do returns after its first one, with the same result. *)
Return(c) ==
  /\ call[c] = "calling" /\ ladder = "done"
  /\ call' = [call EXCEPT ![c] = "returned"]
  /\ UNCHANGED <<driver, text, cancelled, procVars, signalVars, pipeVars, decodeVars, forwardVars,
                 stop, ladder, observer, atClose, closeErr>>

CliStreamNext ==
  \/ System \/ Decoder \/ Forwarder \/ Take \/ EventsOver \/ Watch \/ Observe \/ Shutdown
  \/ \E c \in Closers : Begin(c) \/ Return(c)

CliStreamSpec == CliStreamInit /\ [][CliStreamNext]_svars

(* The driver's goroutines are scheduled, a killed process dies, and the grace
   is over some time.  What the agent does, and the cancellation, is not forced. *)
CliStreamFairSpec ==
  /\ CliStreamSpec
  /\ WF_svars(Decoder) /\ WF_svars(Forwarder) /\ WF_svars(Take) /\ WF_svars(EventsOver)
  /\ WF_svars(Watch) /\ WF_svars(Observe) /\ WF_svars(Shutdown)
  /\ \A p \in Processes : WF_svars(Die(p))
  /\ \A c \in Closers : WF_svars(Begin(c)) /\ WF_svars(Return(c))

-----------------------------------------------------------------------------
(***************************************************************************)
(* Properties.                                                             *)
(***************************************************************************)
AfterKill == {"observe", "reap", "copiers", "drain", "done"}

(* No signal of the driver meets a process group that is not the agent's: the
   leader stays unreaped for as long as its number is used (shutdown: "no
   process-group signal can occur after it"). *)
OnlyOwnGroup == ~struck

(* Once the group was killed nobody in it acts any more, whichever way the
   leader went: a descendant that ignored the interrupt does not outlive Close. *)
NobodySurvives == ladder \in AfterKill => group \cap Acting = {}

(* When Close returns the decoder, the forwarder and the observer are gone and
   Events is closed, although nobody need have read it. *)
NothingGoesOn == ladder = "done" =>
  decoder = "done" /\ forwarder = "done" /\ observer = "exited"

(* The producer gets the events in the agent's order and without a gap: what a
   stop drops is the tail (forwardEvents). *)
DeliversPrefix ==
  /\ \A i, j \in 1..Len(delivered) : i < j => delivered[i] < delivered[j]
  /\ \A i \in 1..Len(delivered) : \A n \in 1..delivered[i] :
       text[n] = "event" <=> \E j \in 1..i : delivered[j] = n

(* The process group, its signals and what is left behind. *)
CliInv == CliStreamTypeOK /\ OnlyOwnGroup /\ NobodySurvives /\ NothingGoesOn /\ DeliversPrefix

(* The teardown does not colour its own result.  An exit error is the leader's
   own code; a leader that was gone before Close is reported for what it did; so
   is a stream that was read to its end (exitError, shutdown). *)
TrueResult == ladder = "done" =>
  /\ "exit" \in closeErr => status = "failed"
  /\ atClose[2] # "none" => (("exit" \in closeErr) = (atClose[2] = "failed"))
  /\ atClose[1] = "done" =>
       (("decode" \in closeErr) = (driver = "codex" /\ \E n \in 1..read : text[n] # "event"))

(* A process that left the group and has the agent's stderr. *)
HeldOutside == \E p \in alive \ group : "stderr" \in fds[p]

(* Close returns to every caller, also while nobody reads the events and the
   agent ignores the interrupt, and a cancelled Codex turn ends with its whole
   group - unless a descendant that left the group keeps stderr open, for which
   cmd.Wait waits without a bound. *)
CloseReturns == <>[]~HeldOutside =>
  /\ \A c \in Closers : call[c] = "calling" ~> call[c] = "returned"
  /\ (driver = "codex" /\ cancelled) ~> (ladder = "done" /\ group \cap alive = {})
=============================================================================
