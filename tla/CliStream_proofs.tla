--------------------------- MODULE CliStream_proofs ---------------------------
(***************************************************************************)
(* What the teardown of a command line agent keeps, for any agent, any     *)
(* number of descendants and any text.                                     *)
(***************************************************************************)
EXTENDS CliStream, SequenceTheorems, TLAPS

(* The number of the group is the leader's until shutdown has waited for it, and
   the leader stays dead.  A process in the group inherited a stream, so what is
   forked later is not in the group by its name. *)
ProcInv ==
  /\ reused => reaped
  /\ reaped => ladder \in {"copiers", "drain", "done"}
  /\ ladder \in {"copiers", "drain", "done"} => Leader \notin alive
  /\ status = "none" <=> Leader \in alive
  /\ \A p \in group : fds[p] # {}

(* Shutdown goes past the observer and the forwarder, the forwarder past the
   decoder. *)
LadderInv ==
  /\ ladder \in {"killExited", "reap", "copiers", "drain", "done"} => observer = "exited"
  /\ forwarder = "done" => decoder = "done"
  /\ ladder = "done" => forwarder = "done"
  /\ readOpen <=> ladder \notin {"drain", "done"}

(* An event is read, then on offer, then delivered; none is passed over before
   the stop. *)
Pending == decoder = "sending"
OrderInv ==
  /\ Pending => read # 0 /\ text[read] = "event" /\ offer < read
                /\ \A i \in 1..Len(delivered) : delivered[i] < read
  /\ offer # 0 => ~stopped /\ text[offer] = "event"
                  /\ \A i \in 1..Len(delivered) : delivered[i] < offer
  /\ ~stopped => \A n \in 1..read : text[n] = "event" =>
       \/ \E i \in 1..Len(delivered) : delivered[i] = n
       \/ n = offer
       \/ Pending /\ n = read

(* The first decode error is of a line, or of the end that Close closed. *)
ErrorInv ==
  /\ firstErr = "none" => \A n \in 1..read : text[n] = "event"
  /\ firstErr = "line" => \E n \in 1..read : text[n] # "event"
  /\ firstErr = "closed" => ~readOpen

(* What was so when shutdown began still is. *)
AtCloseInv == ladder # "idle" =>
  /\ atClose[2] # "none" => status = atClose[2]
  /\ atClose[1] = "done" => decoder = "done" /\ firstErr # "closed"

ReportInv == ladder = "done" => closeErr = DecodeError \cup ExitError(status)

CliIInv == CliInv /\ ProcInv /\ LadderInv /\ OrderInv /\ ErrorInv /\ AtCloseInv /\ ReportInv

-----------------------------------------------------------------------------
(***************************************************************************)
(* Types.                                                                  *)
(***************************************************************************)
Flags == {cancelled, reaped, reused, interrupted, struck, readOpen, stop, stopped} \subseteq BOOLEAN
Procs ==
  /\ {alive, doomed, group} \subseteq SUBSET Processes
  /\ fds \in [Processes -> SUBSET Streams]
  /\ status \in {"none", "ok", "failed", "signaled"}
Stream ==
  /\ driver \in {"claude", "codex"} /\ text \in Texts
  /\ sent \in 0..Len(text) /\ filled \in 0..sent /\ read \in 0..filled
  /\ decoder \in {"reading", "sending", "done"} /\ firstErr \in {"none", "line", "closed"}
  /\ offer \in 0..read /\ forwarder \in {"running", "done"} /\ delivered \in Seq(1..read)
Teardown ==
  /\ call \in [Closers -> {"none", "working", "calling", "returned"}]
  /\ ladder \in Ladder /\ observer \in {"none", "watching", "exited"}
  /\ closeErr \subseteq {"decode", "exit"}

LEMMA CliTypes == CliStreamTypeOK <=> Flags /\ Procs /\ Stream /\ Teardown
BY DEF CliStreamTypeOK, Flags, Procs, Stream, Teardown

LEMMA CliTypeInitially == CliStreamInit => CliStreamTypeOK
<1> SUFFICES ASSUME CliStreamInit PROVE CliStreamTypeOK
  OBVIOUS
<1>1. Flags
  BY DEF CliStreamInit, Flags
<1>2. Procs
  BY DEF CliStreamInit, Procs, Processes
<1>3. Stream
  <2>1. Len(text) \in Nat
    BY CliStreamAssumption DEF CliStreamInit
  <2>2. delivered \in Seq(1..read)
    BY DEF CliStreamInit
  <2> QED BY <2>1, <2>2 DEF CliStreamInit, Stream
<1>4. Teardown
  BY DEF CliStreamInit, Teardown, Ladder
<1> QED BY <1>1, <1>2, <1>3, <1>4, CliTypes

LEMMA FlagsStep == Flags /\ CliStreamNext => Flags'
<1> SUFFICES ASSUME Flags, CliStreamNext PROVE Flags'
  OBVIOUS
<1> USE DEF Flags, procVars, signalVars, pipeVars, decodeVars, forwardVars, closeVars
<1>1. CASE System
  <2>1. CASE (\E p \in Processes : Write(p) \/ Exit(p) \/ Die(p)) \/ Reuse \/ Cancel
    BY <2>1 DEF Write, Exit, Die, Reuse, Cancel
  <2>2. CASE (\E p \in Processes, c \in Children : Fork(p, c)) \/ \E c \in Children : Detach(c)
    BY <2>2 DEF Fork, Detach
  <2> QED BY <1>1, <2>1, <2>2 DEF System
<1>2. CASE Decoder
  BY <1>2 DEF Decoder, Fill, Scan, EndScan
<1>3. CASE Forwarder \/ Take \/ EventsOver \/ Watch
  BY <1>3 DEF Forwarder, Hand, SeeStop, EndForward, Take, EventsOver, Watch
<1>4. CASE Interrupt \/ Grace \/ Kill
  BY <1>4 DEF Interrupt, Grace, Kill
<1>5. CASE AwaitExit \/ Reap \/ ClosePipe \/ Report
  BY <1>5 DEF AwaitExit, Reap, ClosePipe, Report
<1>6. CASE Observe \/ \E c \in Closers : Begin(c) \/ Return(c)
  BY <1>6 DEF Observe, Begin, Return
<1> QED BY <1>1, <1>2, <1>3, <1>4, <1>5, <1>6 DEF CliStreamNext, Shutdown

LEMMA ProcsStep == Procs /\ CliStreamNext => Procs'
<1> SUFFICES ASSUME Procs, CliStreamNext PROVE Procs'
  OBVIOUS
<1>1. ASSUME NEW p \in Processes, NEW c \in Children, Fork(p, c) PROVE Procs'
  BY <1>1 DEF Fork, Procs, Processes
<1>2. ASSUME NEW p \in Processes, Exit(p) \/ Die(p) PROVE Procs'
  BY <1>2 DEF Exit, Die, Procs
<1>3. ASSUME NEW c \in Children, Detach(c) PROVE Procs'
  BY <1>3 DEF Detach, Procs
<1>4. CASE Kill
  BY <1>4 DEF Kill, Killed, Procs
<1>5. CASE UNCHANGED <<alive, doomed, group, fds, status>>
  BY <1>5 DEF Procs
<1>6. ASSUME NEW p \in Processes, Write(p) PROVE UNCHANGED <<alive, doomed, group, fds, status>>
  BY <1>6 DEF Write, procVars
<1>7. Reuse \/ Cancel => UNCHANGED <<alive, doomed, group, fds, status>>
  BY DEF Reuse, Cancel, procVars
<1>8. Decoder \/ Forwarder \/ Take \/ EventsOver \/ Watch =>
        UNCHANGED <<alive, doomed, group, fds, status>>
  BY DEF Decoder, Fill, Scan, EndScan, Forwarder, Hand, SeeStop, EndForward, Take, EventsOver,
         Watch, procVars
<1>9. Shutdown => Kill \/ UNCHANGED <<alive, doomed, group, fds, status>>
  BY DEF Shutdown, Interrupt, Grace, AwaitExit, Reap, ClosePipe, Report, procVars
<1>10. Observe \/ (\E c \in Closers : Begin(c) \/ Return(c)) =>
        UNCHANGED <<alive, doomed, group, fds, status>>
  BY DEF Observe, Begin, Return, procVars
<1> QED BY <1>1, <1>2, <1>3, <1>4, <1>5, <1>6, <1>7, <1>8, <1>9, <1>10 DEF CliStreamNext, System

(* Who touches the text, the decoder and the forwarder. *)
StreamVars == <<driver, text, sent, filled, decodeVars, forwardVars>>
LEMMA StreamFrame ==
  ASSUME CliStreamNext
  PROVE  \/ \E p \in Processes : Write(p)
         \/ Decoder \/ Forwarder \/ Take
         \/ UNCHANGED StreamVars
<1> USE DEF StreamVars, pipeVars
<1>1. System => UNCHANGED StreamVars \/ \E p \in Processes : Write(p)
  BY DEF System, Exit, Die, Fork, Detach, Reuse, Cancel
<1>2. EventsOver \/ Watch \/ Observe => UNCHANGED StreamVars
  BY DEF EventsOver, Watch, Observe
<1>3. Shutdown => UNCHANGED StreamVars
  BY DEF Shutdown, Interrupt, Grace, Kill, AwaitExit, Reap, ClosePipe, Report
<1>4. (\E c \in Closers : Begin(c) \/ Return(c)) => UNCHANGED StreamVars
  BY DEF Begin, Return
<1> QED BY <1>1, <1>2, <1>3, <1>4 DEF CliStreamNext

LEMMA LongerSeq ==
  ASSUME NEW m \in Nat, NEW n \in Nat, m <= n, NEW d \in Seq(1..m)
  PROVE  d \in Seq(1..n)
OBVIOUS

LEMMA StreamStep == Stream /\ CliStreamNext => Stream'
<1> SUFFICES ASSUME Stream, CliStreamNext PROVE Stream'
  OBVIOUS
<1> USE DEF pipeVars, decodeVars, forwardVars
<1>0. Len(text) \in Nat /\ sent \in Nat /\ filled \in Nat /\ read \in Nat
  BY CliStreamAssumption DEF Stream
<1>1. ASSUME NEW p \in Processes, Write(p) PROVE Stream'
  BY <1>0, <1>1 DEF Write, Stream
<1>2. CASE Fill
  BY <1>0, <1>2 DEF Fill, Stream
<1>3. CASE Scan
  <2>1. read' = read + 1 /\ read' <= filled /\ filled \in 0..Len(text)
    BY <1>0, <1>3 DEF Scan, Stream
  <2>2. text[read'] \in LineKinds
    BY <1>0, <2>1, CliStreamAssumption DEF Stream
  <2>3. delivered' \in Seq(1..read')
    BY <1>0, <1>3, <2>1, LongerSeq DEF Scan, Stream
  <2>4. decoder' \in {"reading", "sending", "done"} /\ firstErr' \in {"none", "line", "closed"}
    BY <1>3, <2>2 DEF Scan, LineKinds, FirstErr, Stream
  <2>5. read' \in 0..filled' /\ offer' \in 0..read' /\ UNCHANGED <<driver, text, sent, filled>>
    BY <1>0, <1>3, <2>1 DEF Scan, Stream
  <2>6. UNCHANGED forwarder
    BY <1>3 DEF Scan
  <2> QED BY <2>3, <2>4, <2>5, <2>6 DEF Stream
<1>4. CASE EndScan
  BY <1>4 DEF EndScan, FirstErr, Stream
<1>5. CASE Hand
  BY <1>0, <1>5 DEF Hand, Stream
<1>6. CASE SeeStop \/ EndForward
  BY <1>0, <1>6 DEF SeeStop, EndForward, Stream
<1>7. CASE Take
  <2>1. delivered' \in Seq(1..read)
    BY <1>0, <1>7 DEF Take, Stream
  <2> QED BY <1>0, <1>7, <2>1 DEF Take, Stream
<1>8. CASE UNCHANGED StreamVars
  BY <1>8 DEF StreamVars, Stream
<1> QED BY <1>1, <1>2, <1>3, <1>4, <1>5, <1>6, <1>7, <1>8, StreamFrame DEF Decoder, Forwarder

LEMMA TeardownStep == Teardown /\ CliStreamNext => Teardown'
<1> SUFFICES ASSUME Teardown, CliStreamNext PROVE Teardown'
  OBVIOUS
<1>1. CASE System
  BY <1>1 DEF System, Write, Exit, Die, Fork, Detach, Reuse, Cancel, closeVars, Teardown
<1>2. CASE Decoder \/ Forwarder
  BY <1>2 DEF Decoder, Fill, Scan, EndScan, Forwarder, Hand, SeeStop, EndForward, closeVars,
              Teardown
<1>3. CASE Take \/ EventsOver \/ Watch \/ Observe
  BY <1>3 DEF Take, EventsOver, Watch, Observe, Teardown
<1>4. CASE Interrupt \/ Grace \/ Kill \/ AwaitExit \/ Reap \/ ClosePipe
  BY <1>4 DEF Interrupt, Grace, Kill, AwaitExit, Reap, ClosePipe, StepTo, Ladder, Teardown
<1>5. CASE Report
  BY <1>5 DEF Report, DecodeError, ExitError, StepTo, Ladder, Teardown
<1>6. ASSUME NEW c \in Closers, Begin(c) \/ Return(c) PROVE Teardown'
  BY <1>6 DEF Begin, Return, StepTo, Ladder, Teardown
<1> QED BY <1>1, <1>2, <1>3, <1>4, <1>5, <1>6 DEF CliStreamNext, Shutdown

-----------------------------------------------------------------------------
(***************************************************************************)
(* The process group.                                                      *)
(***************************************************************************)
GroupVars == <<procVars, struck, ladder>>
LEMMA GroupFrame ==
  ASSUME CliStreamNext
  PROVE  \/ System \/ Shutdown
         \/ \E c \in Closers : Begin(c)
         \/ UNCHANGED GroupVars
<1> USE DEF GroupVars, signalVars, closeVars
<1>1. Decoder \/ Forwarder \/ Take => UNCHANGED GroupVars
  BY DEF Decoder, Fill, Scan, EndScan, Forwarder, Hand, SeeStop, EndForward, Take
<1>2. EventsOver \/ Watch \/ Observe \/ (\E c \in Closers : Return(c)) => UNCHANGED GroupVars
  BY DEF EventsOver, Watch, Observe, Return
<1> QED BY <1>1, <1>2 DEF CliStreamNext

Group == ProcInv /\ OnlyOwnGroup /\ NobodySurvives

LEMMA GroupStep == Procs /\ Group /\ CliStreamNext => Group'
<1> SUFFICES ASSUME Procs, Group, CliStreamNext PROVE Group'
  OBVIOUS
<1> USE CliStreamAssumption DEF Group, ProcInv, OnlyOwnGroup, NobodySurvives, AfterKill, Acting,
        procVars, signalVars, closeVars, StepTo
<1>1. ASSUME NEW p \in Processes, NEW c \in Children, Fork(p, c) PROVE Group'
  <2>1. fds'[c] # {} /\ \A q \in Processes : q # c => fds'[q] = fds[q]
    BY <1>1 DEF Fork, Procs, Processes
  <2>2. fds[c] = {} /\ \A q \in group : fds[q] # {}
    BY <1>1 DEF Fork
  <2>5. c \notin group
    BY <2>2
  <2>3. \A q \in group' : fds'[q] # {}
    BY <1>1, <2>1 DEF Fork, Procs
  <2>4. ladder \in AfterKill => p \notin group
    BY <1>1 DEF Fork
  <2>6. /\ ladder' = ladder /\ status' = status /\ struck' = struck /\ reused' = reused
        /\ reaped' = reaped /\ doomed' = doomed /\ alive' = alive \cup {c} /\ c # Leader
        /\ p \in alive \ doomed /\ group' = IF p \in group THEN group \cup {c} ELSE group
    BY <1>1 DEF Fork
  <2> QED BY <2>3, <2>4, <2>5, <2>6
<1>2. ASSUME NEW p \in Processes, Exit(p) \/ Die(p) PROVE Group'
  BY <1>2 DEF Exit, Die
<1>3. ASSUME NEW c \in Children, Detach(c) PROVE Group'
  BY <1>3 DEF Detach
<1>4. CASE Reuse
  BY <1>4 DEF Reuse
<1>5. ASSUME UNCHANGED <<procVars, struck, ladder>> PROVE Group'
  BY <1>5
<1>6. Cancel \/ (\E p \in Processes : Write(p)) => UNCHANGED <<procVars, struck, ladder>>
  BY DEF Cancel, Write
<1>7. CASE Interrupt
  BY <1>7 DEF Interrupt
<1>8. CASE Kill
  BY <1>8 DEF Kill, Killed
<1>9. CASE Grace
  BY <1>9 DEF Grace
<1>10. CASE AwaitExit \/ Report
  BY <1>10 DEF AwaitExit, Report
<1>11. CASE Reap \/ ClosePipe
  BY <1>11 DEF Reap, ClosePipe
<1>12. ASSUME NEW c \in Closers, Begin(c) PROVE Group'
  BY <1>12 DEF Begin
<1> QED
  BY <1>1, <1>2, <1>3, <1>4, <1>5, <1>6, <1>7, <1>8, <1>9, <1>10, <1>11, <1>12, GroupFrame
  DEF System, Shutdown, GroupVars

-----------------------------------------------------------------------------
(***************************************************************************)
(* The order of the teardown.                                              *)
(***************************************************************************)
LEMMA LadderStep == Flags /\ LadderInv /\ CliStreamNext => LadderInv'
<1> SUFFICES ASSUME Flags, LadderInv, CliStreamNext PROVE LadderInv'
  OBVIOUS
<1> USE DEF LadderInv, pipeVars, decodeVars, forwardVars, closeVars, StepTo
<1>1. CASE System
  BY <1>1 DEF System, Write, Exit, Die, Fork, Detach, Reuse, Cancel
<1>2. CASE Decoder
  BY <1>2 DEF Decoder, Fill, Scan, EndScan
<1>3. CASE Forwarder \/ Take
  BY <1>3 DEF Forwarder, Hand, SeeStop, EndForward, Take
<1>4. CASE EventsOver \/ Watch \/ Observe
  BY <1>4 DEF EventsOver, Watch, Observe
<1>5. CASE Interrupt \/ Grace \/ Kill \/ AwaitExit
  BY <1>5 DEF Interrupt, Grace, Kill, AwaitExit
<1>6. CASE Reap \/ ClosePipe \/ Report
  BY <1>6 DEF Reap, ClosePipe, Report
<1>7. ASSUME NEW c \in Closers, Begin(c) \/ Return(c) PROVE LadderInv'
  BY <1>7 DEF Begin, Return
<1> QED BY <1>1, <1>2, <1>3, <1>4, <1>5, <1>6, <1>7 DEF CliStreamNext, Shutdown

-----------------------------------------------------------------------------
(***************************************************************************)
(* What the producer gets.                                                 *)
(***************************************************************************)
LEMMA AppendFacts ==
  ASSUME NEW S, NEW d \in Seq(S), NEW e \in S
  PROVE  /\ Len(Append(d, e)) = Len(d) + 1
         /\ \A i \in 1..Len(d) : Append(d, e)[i] = d[i]
         /\ Append(d, e)[Len(d) + 1] = e
OBVIOUS

Order == OrderInv /\ DeliversPrefix

LEMMA TakeOrder == Stream /\ Order /\ Take => Order'
<1> SUFFICES ASSUME Stream, Order, Take PROVE Order'
  OBVIOUS
<1>1. /\ offer # 0 /\ offer' = 0 /\ delivered' = Append(delivered, offer)
      /\ UNCHANGED <<text, read, decoder, stopped>>
  BY DEF Take, decodeVars
<1>2. /\ Len(text) \in Nat /\ read \in Nat /\ offer \in 1..read /\ delivered \in Seq(1..read)
      /\ Len(delivered) \in Nat
  BY <1>1, CliStreamAssumption DEF Stream
<1>3. /\ Len(delivered') = Len(delivered) + 1
      /\ \A i \in 1..Len(delivered) : delivered'[i] = delivered[i] /\ delivered[i] \in 1..read
      /\ delivered'[Len(delivered) + 1] = offer
  BY <1>1, <1>2, AppendFacts
<1>4. /\ ~stopped /\ text[offer] = "event"
      /\ \A i \in 1..Len(delivered) : delivered[i] < offer
  BY <1>1 DEF Order, OrderInv
<1>5. ASSUME NEW n \in 1..offer
      PROVE  text[n] = "event" <=> \E j \in 1..Len(delivered') : delivered'[j] = n
  <2>1. CASE n = offer
    BY <1>2, <1>3, <1>4, <2>1
  <2>2. ASSUME n # offer, text[n] = "event" PROVE \E j \in 1..Len(delivered') : delivered'[j] = n
    <3>1. n \in 1..read /\ ~(Pending /\ n = read)
      BY <1>1, <1>2, <2>2 DEF Order, OrderInv
    <3>2. PICK j \in 1..Len(delivered) : delivered[j] = n
      BY <1>4, <2>2, <3>1 DEF Order, OrderInv
    <3> QED BY <1>2, <1>3, <3>2
  <2>3. ASSUME n # offer, NEW j \in 1..Len(delivered'), delivered'[j] = n PROVE text[n] = "event"
    <3>1. j \in 1..Len(delivered) /\ delivered[j] = n
      BY <1>2, <1>3, <2>3
    <3>2. n \in 1..delivered[j]
      BY <1>3, <3>1
    <3>3. text[n] = "event" <=> \E k \in 1..j : delivered[k] = n
      BY <3>1, <3>2 DEF Order, DeliversPrefix
    <3> QED BY <1>2, <3>1, <3>3
  <2> QED BY <2>1, <2>2, <2>3
<1>6. DeliversPrefix'
  <2>1. ASSUME NEW i \in 1..Len(delivered'), NEW j \in 1..Len(delivered'), i < j
        PROVE  delivered'[i] < delivered'[j]
    <3>1. i \in 1..Len(delivered) /\ delivered'[i] = delivered[i]
      <4>1. i \in 1..Len(delivered)
        <5>1. /\ i \in 1..(Len(delivered) + 1) /\ j \in 1..(Len(delivered) + 1)
              /\ Len(delivered) \in Nat
          BY ONLY <1>2, <1>3, <2>1
        <5> QED BY ONLY <5>1, i < j
      <4> QED BY <1>3, <4>1
    <3>2. CASE j = Len(delivered) + 1
      BY <1>3, <1>4, <3>1, <3>2
    <3>3. CASE j \in 1..Len(delivered)
      <4>1. delivered[i] < delivered[j]
        BY <2>1, <3>1, <3>3 DEF Order, DeliversPrefix
      <4> QED BY <1>3, <3>1, <3>3, <4>1
    <3>4. j = Len(delivered) + 1 \/ j \in 1..Len(delivered)
      <4>1. j \in 1..(Len(delivered) + 1) /\ Len(delivered) \in Nat
        BY ONLY <1>2, <1>3, j \in 1..Len(delivered')
      <4> QED BY ONLY <4>1
    <3> QED BY <3>2, <3>3, <3>4
  <2>2. ASSUME NEW i \in 1..Len(delivered'), NEW n \in 1..delivered'[i]
        PROVE  text'[n] = "event" <=> \E j \in 1..i : delivered'[j] = n
    <3>1. CASE i = Len(delivered) + 1
      BY <1>1, <1>3, <1>5, <3>1
    <3>2. CASE i \in 1..Len(delivered)
      <4>1. \A j \in 1..i : delivered'[j] = delivered[j]
        BY <1>2, <1>3, <3>2
      <4>2. n \in 1..delivered[i]
        BY <1>3, <3>2
      <4> QED BY <1>1, <3>2, <4>1, <4>2 DEF Order, DeliversPrefix
    <3> QED BY <1>2, <1>3, <3>1, <3>2
  <2> QED BY <2>1, <2>2 DEF DeliversPrefix
<1>7. OrderInv'
  <2>1. Pending' = Pending /\ offer' = 0
    BY <1>1 DEF Pending
  <2>2. Pending => read # 0 /\ text[read] = "event" /\ 0 < read
                   /\ \A i \in 1..Len(delivered') : delivered'[i] < read
    <3>1. Pending => read # 0 /\ text[read] = "event" /\ offer < read
                     /\ \A i \in 1..Len(delivered) : delivered[i] < read
      BY DEF Order, OrderInv
    <3> QED BY <1>2, <1>3, <3>1
  <2>3. ASSUME NEW n \in 1..read, text[n] = "event"
        PROVE  (\E i \in 1..Len(delivered') : delivered'[i] = n) \/ (Pending /\ n = read)
    <3>1. (\E i \in 1..Len(delivered) : delivered[i] = n) \/ n = offer \/ (Pending /\ n = read)
      BY <1>4, <2>3 DEF Order, OrderInv
    <3> QED BY <1>2, <1>3, <3>1
  <2> QED BY <1>1, <2>1, <2>2, <2>3 DEF OrderInv
<1> QED BY <1>6, <1>7 DEF Order

LEMMA OrderStep == Stream /\ Order /\ CliStreamNext => Order'
<1> SUFFICES ASSUME Stream, Order, CliStreamNext PROVE Order'
  OBVIOUS
<1>0. /\ Len(text) \in Nat /\ read \in Nat /\ filled \in Nat /\ offer \in 0..read
      /\ Len(delivered) \in Nat
      /\ \A i \in 1..Len(delivered) : delivered[i] \in 1..read
  BY CliStreamAssumption DEF Stream
<1>1. ASSUME UNCHANGED <<text, read, decoder, offer, stopped, delivered>> PROVE Order'
  BY <1>1 DEF Order, OrderInv, Pending, DeliversPrefix
<1>2. Fill \/ (\E p \in Processes : Write(p)) \/ UNCHANGED StreamVars =>
        UNCHANGED <<text, read, decoder, offer, stopped, delivered>>
  BY DEF Fill, Write, StreamVars, decodeVars, forwardVars
<1>3. CASE EndScan \/ EndForward
  <2>1. /\ Pending' = Pending
        /\ UNCHANGED <<text, read, offer, stopped, delivered>>
    BY <1>3 DEF EndScan, EndForward, Pending, decodeVars, forwardVars
  <2> QED BY <2>1 DEF Order, OrderInv, DeliversPrefix
<1>4. CASE Scan
  <2>0. text[read + 1] \in LineKinds
    BY <1>0, <1>4, CliStreamAssumption DEF Scan, Stream
  <2>1. /\ read' = read + 1 /\ ~Pending /\ UNCHANGED <<text, offer, stopped, delivered>>
        /\ Pending' <=> text[read + 1] = "event"
    BY <1>4, <2>0 DEF Scan, Pending, forwardVars, LineKinds
  <2>2. DeliversPrefix'
    BY <2>1 DEF Order, DeliversPrefix
  <2>3. ASSUME NEW n \in 1..read', text[n] = "event", ~stopped
        PROVE  (\E i \in 1..Len(delivered) : delivered[i] = n) \/ n = offer \/ (Pending' /\ n = read')
    BY <1>0, <2>1, <2>3 DEF Order, OrderInv
  <2>4. offer' # 0 => ~stopped' /\ text'[offer'] = "event"
                      /\ \A i \in 1..Len(delivered') : delivered'[i] < offer'
    BY <2>1 DEF Order, OrderInv
  <2>5. Pending' => read' # 0 /\ text'[read'] = "event" /\ offer' < read'
                    /\ \A i \in 1..Len(delivered') : delivered'[i] < read'
    BY <1>0, <2>1
  <2> QED BY <2>1, <2>2, <2>3, <2>4, <2>5 DEF Order, OrderInv
<1>5. CASE Hand
  <2>1. /\ Pending /\ ~Pending' /\ offer = 0 /\ offer' = IF stopped THEN 0 ELSE read
        /\ UNCHANGED <<text, read, stopped, delivered>>
    BY <1>5 DEF Hand, Pending
  <2> QED BY <2>1 DEF Order, OrderInv, DeliversPrefix
<1>6. CASE SeeStop
  <2>1. /\ Pending' = Pending /\ stopped' /\ offer' = 0 /\ UNCHANGED <<text, read, delivered>>
    BY <1>6 DEF SeeStop, Pending, decodeVars
  <2> QED BY <1>0, <2>1 DEF Order, OrderInv, DeliversPrefix
<1> QED BY <1>1, <1>2, <1>3, <1>4, <1>5, <1>6, TakeOrder, StreamFrame DEF Decoder, Forwarder

-----------------------------------------------------------------------------
(***************************************************************************)
(* What Close reports.                                                     *)
(***************************************************************************)
LEMMA ErrorStep == Stream /\ ErrorInv /\ CliStreamNext => ErrorInv'
<1> SUFFICES ASSUME Stream, ErrorInv, CliStreamNext PROVE ErrorInv'
  OBVIOUS
<1>0. Len(text) \in Nat /\ read \in Nat /\ filled \in Nat
  BY CliStreamAssumption DEF Stream
<1>1. ASSUME UNCHANGED <<text, read, firstErr>>, readOpen' => readOpen PROVE ErrorInv'
  BY <1>1 DEF ErrorInv
<1>2. Fill \/ Forwarder \/ Take \/ (\E p \in Processes : Write(p)) =>
        UNCHANGED <<text, read, firstErr, readOpen>>
  BY DEF Fill, Forwarder, Hand, SeeStop, EndForward, Take, Write, pipeVars, decodeVars
<1>3. UNCHANGED StreamVars => UNCHANGED <<text, read, firstErr>>
  BY DEF StreamVars, decodeVars
<1>4. readOpen' => readOpen
  <2>1. System \/ Decoder \/ Forwarder \/ Take \/ EventsOver \/ Watch \/ Observe =>
          UNCHANGED readOpen
    BY DEF System, Write, Exit, Die, Fork, Detach, Reuse, Cancel, Decoder, Fill, Scan, EndScan,
           Forwarder, Hand, SeeStop, EndForward, Take, EventsOver, Watch, Observe, pipeVars
  <2>2. Shutdown => (readOpen' => readOpen)
    BY DEF Shutdown, Interrupt, Grace, Kill, AwaitExit, Reap, ClosePipe, Report, pipeVars
  <2>3. (\E c \in Closers : Begin(c) \/ Return(c)) => UNCHANGED readOpen
    BY DEF Begin, Return, pipeVars
  <2> QED BY <2>1, <2>2, <2>3 DEF CliStreamNext
<1>5. CASE Scan
  <2>1. /\ read' = read + 1 /\ UNCHANGED text
        /\ firstErr' = IF text[read + 1] = "event" THEN firstErr
                       ELSE IF firstErr = "none" THEN "line" ELSE firstErr
    BY <1>5 DEF Scan, FirstErr
  <2> QED BY <1>0, <1>4, <2>1 DEF ErrorInv
<1>6. CASE EndScan
  <2>1. UNCHANGED <<text, read>> /\ (firstErr' = firstErr \/ (~readOpen /\ firstErr' = FirstErr("closed")))
    BY <1>6 DEF EndScan
  <2>2. firstErr' = "none" => firstErr = "none"
    BY <2>1 DEF FirstErr
  <2>3. firstErr' = "line" => firstErr = "line"
    BY <2>1 DEF FirstErr
  <2>4. firstErr' = "closed" => ~readOpen
    BY <2>1 DEF ErrorInv
  <2> QED BY <1>4, <2>1, <2>2, <2>3, <2>4 DEF ErrorInv
<1> QED BY <1>1, <1>2, <1>3, <1>4, <1>5, <1>6, StreamFrame DEF Decoder

(* A leader that is gone stays what it was. *)
LEMMA StatusStays ==
  ASSUME Procs, ProcInv, CliStreamNext, Leader \notin alive
  PROVE  status' = status
<1> USE DEF procVars
<1>1. System => status' = status
  BY DEF System, Write, Exit, Die, Fork, Detach, Reuse, Cancel, Acting
<1>2. Decoder \/ Forwarder \/ Take \/ EventsOver \/ Watch \/ Observe => status' = status
  BY DEF Decoder, Fill, Scan, EndScan, Forwarder, Hand, SeeStop, EndForward, Take, EventsOver,
         Watch, Observe
<1>3. Shutdown \/ (\E c \in Closers : Begin(c) \/ Return(c)) => status' = status
  BY DEF Shutdown, Interrupt, Grace, Kill, AwaitExit, Reap, ClosePipe, Report, Begin, Return
<1> QED BY <1>1, <1>2, <1>3 DEF CliStreamNext

(* A decoder that is done stays so. *)
LEMMA DecoderStays ==
  ASSUME CliStreamNext, decoder = "done"
  PROVE  UNCHANGED <<decoder, firstErr, read, text, driver>>
<1> USE DEF decodeVars, StreamVars
<1>1. Decoder => FALSE
  BY DEF Decoder, Fill, Scan, EndScan
<1>2. Forwarder \/ Take \/ (\E p \in Processes : Write(p)) =>
        UNCHANGED <<decoder, firstErr, read, text, driver>>
  BY DEF Forwarder, Hand, SeeStop, EndForward, Take, Write
<1> QED BY <1>1, <1>2, StreamFrame

(* Shutdown begins once, and reports once. *)
LEMMA LadderMoves ==
  ASSUME CliStreamNext
  PROVE  /\ ladder = "idle" => ladder' = "idle" \/ \E c \in Closers : Begin(c)
         /\ ladder # "idle" => atClose' = atClose
         /\ ladder' = "done" => Report \/ (ladder = "done" /\ closeErr' = closeErr)
<1> USE DEF closeVars, StepTo
<1>1. System \/ Decoder \/ Forwarder \/ Take \/ EventsOver \/ Watch \/ Observe =>
        UNCHANGED <<ladder, atClose, closeErr>>
  BY DEF System, Write, Exit, Die, Fork, Detach, Reuse, Cancel, Decoder, Fill, Scan, EndScan,
         Forwarder, Hand, SeeStop, EndForward, Take, EventsOver, Watch, Observe
<1>2. ASSUME Shutdown, ~Report PROVE ladder # "idle" /\ atClose' = atClose /\ ladder' # "done"
  BY <1>2 DEF Shutdown, Interrupt, Grace, Kill, AwaitExit, Reap, ClosePipe
<1>3. Report => ladder # "idle" /\ atClose' = atClose
  BY DEF Report
<1>4. \A c \in Closers : Begin(c) => ladder = "idle" /\ ladder' # "done"
  BY DEF Begin
<1>5. \A c \in Closers : Return(c) => UNCHANGED <<ladder, atClose, closeErr>>
  BY DEF Return
<1> QED BY <1>1, <1>2, <1>3, <1>4, <1>5 DEF CliStreamNext

LEMMA AtCloseStep ==
  ASSUME Procs, ProcInv, LadderInv, ErrorInv, AtCloseInv, CliStreamNext
  PROVE  AtCloseInv'
<1>1. CASE ladder = "idle"
  <2> SUFFICES ASSUME NEW c \in Closers, Begin(c) PROVE AtCloseInv'
    BY <1>1, LadderMoves DEF AtCloseInv
  <2>1. atClose' = <<decoder, status>> /\ UNCHANGED <<decoder, status, firstErr>>
    BY DEF Begin, decodeVars, procVars
  <2>2. firstErr # "closed"
    BY <1>1 DEF LadderInv, ErrorInv
  <2> QED BY <2>1, <2>2 DEF AtCloseInv
<1>2. CASE ladder # "idle"
  <2>1. atClose' = atClose
    BY <1>2, LadderMoves
  <2>2. atClose[2] # "none" => status' = atClose[2]
    BY <1>2, StatusStays DEF AtCloseInv, ProcInv
  <2>3. atClose[1] = "done" => decoder' = "done" /\ firstErr' # "closed"
    BY <1>2, DecoderStays DEF AtCloseInv
  <2> QED BY <2>1, <2>2, <2>3 DEF AtCloseInv
<1> QED BY <1>1, <1>2

LEMMA ReportStep ==
  ASSUME Procs, ProcInv, LadderInv, ReportInv, CliStreamNext
  PROVE  ReportInv'
<1> SUFFICES ASSUME ladder' = "done" PROVE closeErr' = (DecodeError \cup ExitError(status))'
  BY DEF ReportInv
<1>1. CASE Report
  BY <1>1 DEF Report, DecodeError, ExitError, decodeVars, procVars
<1>2. CASE ladder = "done" /\ closeErr' = closeErr
  <2>1. status' = status
    BY <1>2, StatusStays DEF ProcInv
  <2>2. UNCHANGED <<firstErr, driver>>
    BY <1>2, DecoderStays DEF LadderInv
  <2> QED BY <1>2, <2>1, <2>2 DEF ReportInv, DecodeError, ExitError
<1> QED BY <1>1, <1>2, LadderMoves

-----------------------------------------------------------------------------
LEMMA CliInitially == CliStreamInit => CliIInv
<1> SUFFICES ASSUME CliStreamInit PROVE CliIInv
  OBVIOUS
<1>1. CliStreamTypeOK
  BY CliTypeInitially
<1>2. Group
  BY DEF CliStreamInit, Group, ProcInv, OnlyOwnGroup, NobodySurvives, AfterKill, Processes, Streams
<1>3. NothingGoesOn /\ LadderInv /\ ReportInv /\ AtCloseInv
  BY DEF CliStreamInit, NothingGoesOn, LadderInv, ReportInv, AtCloseInv
<1>4. Order /\ ErrorInv
  BY DEF CliStreamInit, Order, OrderInv, Pending, DeliversPrefix, ErrorInv
<1> QED BY <1>1, <1>2, <1>3, <1>4 DEF CliIInv, CliInv, Group, Order

LEMMA CliStep == CliIInv /\ [CliStreamNext]_svars => CliIInv'
<1> SUFFICES ASSUME CliIInv, [CliStreamNext]_svars PROVE CliIInv'
  OBVIOUS
<1>1. Flags /\ Procs /\ Stream /\ Teardown /\ Group /\ Order
  BY CliTypes DEF CliIInv, CliInv, Group, Order
<1>2. CASE CliStreamNext
  <2>1. CliStreamTypeOK'
    BY <1>1, <1>2, FlagsStep, ProcsStep, StreamStep, TeardownStep
    DEF CliStreamTypeOK, Flags, Procs, Stream, Teardown
  <2>2. ProcInv' /\ OnlyOwnGroup' /\ NobodySurvives'
    BY <1>1, <1>2, GroupStep DEF Group
  <2>3. LadderInv' /\ NothingGoesOn'
    BY <1>1, <1>2, LadderStep DEF CliIInv, LadderInv, NothingGoesOn
  <2>4. OrderInv' /\ DeliversPrefix'
    BY <1>1, <1>2, OrderStep DEF Order
  <2>5. ErrorInv' /\ AtCloseInv' /\ ReportInv'
    BY <1>1, <1>2, ErrorStep, AtCloseStep, ReportStep DEF CliIInv
  <2> QED BY <2>1, <2>2, <2>3, <2>4, <2>5 DEF CliIInv, CliInv
<1>3. CASE UNCHANGED svars
  <2> USE <1>3 DEF CliIInv, CliInv, svars, procVars, signalVars, pipeVars, decodeVars, forwardVars,
                   closeVars
  <2>1. CliStreamTypeOK'
    BY DEF CliStreamTypeOK
  <2>2. ProcInv' /\ OnlyOwnGroup' /\ NobodySurvives'
    BY DEF ProcInv, OnlyOwnGroup, NobodySurvives, Acting
  <2>3. LadderInv' /\ NothingGoesOn' /\ AtCloseInv' /\ ReportInv'
    BY DEF LadderInv, NothingGoesOn, AtCloseInv, ReportInv, DecodeError, ExitError
  <2>4. OrderInv' /\ DeliversPrefix' /\ ErrorInv'
    BY DEF OrderInv, Pending, DeliversPrefix, ErrorInv
  <2> QED BY <2>1, <2>2, <2>3, <2>4
<1> QED BY <1>2, <1>3

(* The driver signals no process group but the agent's; when its kill is out
   nobody of that group acts any more; Close returns with nothing of the stream
   going on; and what the producer got is the agent's events from the first on.
   For any agent, any number of descendants and any text (shutdown,
   forwardEvents). *)
THEOREM TeardownIsClean == CliStreamSpec => []CliInv
<1>1. CliIInv => CliInv
  BY DEF CliIInv
<1> QED BY <1>1, CliInitially, CliStep, PTL DEF CliStreamSpec

(* Close reports what the agent did and nothing the teardown did to it
   (exitError, shutdown). *)
THEOREM CloseTellsTheTruth == CliStreamSpec => []TrueResult
<1>1. CliIInv => TrueResult
  <2> SUFFICES ASSUME CliIInv, ladder = "done" PROVE TrueResult
    BY DEF TrueResult
  <2>1. closeErr = DecodeError \cup ExitError(status)
    BY DEF CliIInv, ReportInv
  <2>2. "exit" \in closeErr <=> status = "failed"
    BY <2>1 DEF DecodeError, ExitError
  <2>3. "decode" \in closeErr <=> driver = "codex" /\ firstErr # "none"
    BY <2>1 DEF DecodeError, ExitError
  <2>4. atClose[2] # "none" => status = atClose[2]
    BY DEF CliIInv, AtCloseInv
  <2>5. atClose[1] = "done" => (firstErr # "none" <=> \E n \in 1..read : text[n] # "event")
    BY DEF CliIInv, AtCloseInv, ErrorInv, CliInv, CliStreamTypeOK
  <2> QED BY <2>2, <2>3, <2>4, <2>5 DEF TrueResult
<1> QED BY <1>1, CliInitially, CliStep, PTL DEF CliStreamSpec
=============================================================================
