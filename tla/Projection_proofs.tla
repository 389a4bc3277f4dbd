-------------------------- MODULE Projection_proofs --------------------------
(***************************************************************************)
(* Proofs about Projection, for any number of emitters with any programs   *)
(* and any depth of mailbox and channel.                                   *)
(*                                                                         *)
(* The invariants a run checks relate the selected channel to everything   *)
(* that was ever admitted.  What makes them inductive is where a command   *)
(* is on its way: the mailbox is the tail of what was admitted (MailInv),  *)
(* and what the owner took is in the channel, in its queue or of the other *)
(* view, the channel before the queue, both in the order of admission      *)
(* (OwnerInv).                                                             *)
(***************************************************************************)
EXTENDS Projection, SequenceTheorems, TLAPS

In(c, s) == \E i \in 1..Len(s) : s[i] = c

(* c was admitted before d. *)
Before(c, d) == \E p, q \in 1..Len(admitted) : p < q /\ admitted[p] = c /\ admitted[q] = d

(* How many commands the owner took. *)
Taken == Len(admitted) - Len(commands)

(* c is among the first n commands. *)
TookOf(n, c) == \E p \in 1..n : admitted[p] = c

NumberedInv ==
  /\ \A p \in 1..Len(admitted) : admitted[p].n <= sent[admitted[p].by]
  /\ \A p, q \in 1..Len(admitted) : admitted[p] = admitted[q] => p = q

MailInv ==
  /\ Len(commands) <= Len(admitted)
  /\ \A i \in 1..Len(commands) : commands[i] = admitted[Taken + i]

SeenInv ==
  /\ \A i \in 1..Len(Seen) : TookOf(Taken, Seen[i]) /\ Seen[i].kind = view /\ view # "none"
  /\ \A i, j \in 1..Len(Seen) : i < j => Before(Seen[i], Seen[j])
  /\ \A i \in 1..Len(Seen), j \in 1..Len(pending) : Before(Seen[i], pending[j])

PendingInv ==
  /\ \A i \in 1..Len(pending) : TookOf(Taken, pending[i]) /\ pending[i].kind \in Views
  /\ \A i, j \in 1..Len(pending) : i < j => Before(pending[i], pending[j])

CoverInv == \A p \in 1..Taken :
  \/ admitted[p].kind \notin Views
  \/ In(admitted[p], pending)
  \/ view # "none" /\ (admitted[p].kind # view \/ In(admitted[p], Seen))

AckInv ==
  /\ \A c \in acked : c.kind \in Views =>
       view # "none" /\ (c.kind # view \/ In(c, Seen))
  /\ \A p \in 1..Taken : admitted[p] \in acked \/ In(admitted[p], pending)

OwnerInv == MailInv /\ SeenInv /\ PendingInv /\ CoverInv /\ AckInv

DoneInv ==
  /\ closed /\ commands = <<>> /\ pending = <<>>
  /\ OutputIsPrefix
  /\ \A i \in 1..Len(admitted) : admitted[i] \in acked

ShutInv ==
  /\ stopped \/ aborted => closed
  /\ view # "none" => view = chooser
  /\ NoLostWakeup

PInv ==
  /\ ProjectionTypeOK /\ NumberedInv /\ ShutInv
  /\ owner # "done" => OwnerInv
  /\ owner = "done" => DoneInv

-----------------------------------------------------------------------------
(* Types. *)
LEMMA TypesStart == ProjectionInit => ProjectionTypeOK
<1> SUFFICES ASSUME ProjectionInit PROVE ProjectionTypeOK
  OBVIOUS
<1>1. /\ commands \in Seq(Command) /\ Len(commands) <= MailboxCap
      /\ pending \in Seq(Command) /\ Len(pending) <= Depth
      /\ output \in Seq(Command) /\ Len(output) <= Depth
      /\ admitted \in Seq(Command) /\ received \in Seq(Command)
  BY ProjectionAssumption DEF ProjectionInit
<1>2. sent \in [Emitters -> Nat]
  BY DEF ProjectionInit
<1> QED BY <1>1, <1>2 DEF ProjectionInit, ProjectionTypeOK

LEMMA NextIsCommand ==
  ASSUME ProjectionTypeOK, NEW e \in Emitters, Wants(e)
  PROVE  /\ NextCommand(e) \in Command
         /\ NextCommand(e).by = e /\ NextCommand(e).n = sent[e] + 1
<1>1. sent[e] \in Nat
  BY DEF ProjectionTypeOK
<1>2. CASE e = "reader"
  BY <1>1, <1>2 DEF NextCommand, Command
<1>3. CASE e # "reader"
  <2>1. e \in Producers /\ sent[e] < Len(Program[e]) /\ Program[e] \in Seq(Views)
    BY <1>3, ProjectionAssumption DEF Wants, Emitters, Views
  <2>2. Program[e][sent[e] + 1] \in Views
    BY <1>1, <2>1
  <2> QED BY <1>1, <1>3, <2>2 DEF NextCommand, Command
<1> QED BY <1>2, <1>3

LEMMA TypesKept == ProjectionTypeOK /\ [ProjectionNext]_pvars => ProjectionTypeOK'
<1> SUFFICES ASSUME ProjectionTypeOK, [ProjectionNext]_pvars PROVE ProjectionTypeOK'
  OBVIOUS
<1> USE DEF ProjectionTypeOK, emitterVars, ownerVars
<1>1. ASSUME NEW v \in Views, Choose(v) PROVE ProjectionTypeOK'
  BY <1>1 DEF Choose
<1>2. ASSUME NEW e \in Emitters, Enqueue(e) PROVE ProjectionTypeOK'
  <2>1. NextCommand(e) \in Command
    BY <1>2, NextIsCommand DEF Enqueue
  <2>a. Len(commands) \in Nat /\ MailboxCap \in Nat
    BY ProjectionAssumption
  <2>2. CASE closed
    BY <1>2, <2>2 DEF Enqueue
  <2>3. CASE ~closed /\ Len(commands) < MailboxCap
    <3>1. /\ commands' = Append(commands, NextCommand(e))
          /\ admitted' = Append(admitted, NextCommand(e))
          /\ sent' = [sent EXCEPT ![e] = @ + 1]
      BY <1>2, <2>3, <2>a DEF Enqueue
    <3>2. commands' \in Seq(Command) /\ Len(commands') <= MailboxCap /\ admitted' \in Seq(Command)
      BY <2>1, <2>3, <3>1, ProjectionAssumption
    <3>3. sent' \in [Emitters -> Nat]
      BY <3>1
    <3> QED BY <1>2, <3>2, <3>3 DEF Enqueue
  <2>4. CASE ~closed /\ Len(commands) >= MailboxCap
    BY <1>2, <2>4, <2>a DEF Enqueue
  <2> QED BY <2>a, <2>2, <2>3, <2>4
<1>3. CASE Close
  BY <1>3 DEF Close, SleepersWoken
<1>4. CASE AbortOwner
  BY <1>4 DEF AbortOwner, SleepersWoken
<1>5. CASE Skip
  <2>1. pending # <<>>
    BY <1>5 DEF Skip, SkipDue, Waiting
  <2>2. pending' \in Seq(Command) /\ Len(pending') <= Depth /\ pending[1] \in Command
    BY <1>5, <2>1, ProjectionAssumption DEF Skip
  <2> QED BY <1>5, <2>2 DEF Skip
<1>6. CASE Receive
  <2>1. commands # <<>> /\ Len(pending) < Depth
    BY <1>6 DEF Receive, Retains
  <2>2. /\ commands' = Tail(commands)
        /\ \/ pending' = pending /\ acked' = acked \cup {Head(commands)} /\ view' = chooser
           \/ pending' = Append(pending, Head(commands)) /\ UNCHANGED <<acked, view>>
    BY <1>6 DEF Receive, Queued
  <2>3. commands' \in Seq(Command) /\ Len(commands') <= MailboxCap /\ Head(commands) \in Command
    BY <2>1, <2>2, ProjectionAssumption
  <2>4. pending' \in Seq(Command) /\ Len(pending') <= Depth
    <3>1. Append(pending, Head(commands)) \in Seq(Command)
          /\ Len(Append(pending, Head(commands))) = Len(pending) + 1
      BY <2>3, AppendProperties
    <3>2. Len(pending) \in Nat /\ Depth \in Nat
      BY ProjectionAssumption
    <3>3. CASE pending' = pending
      BY <3>3
    <3>4. CASE pending' = Append(pending, Head(commands))
      BY <2>1, <3>1, <3>2, <3>4
    <3> QED BY <2>2, <3>3, <3>4
  <2> QED BY <1>6, <2>2, <2>3, <2>4 DEF Receive
<1>7. CASE Advance
  BY <1>7 DEF Advance, NextGeneration
<1>8. CASE TakeStop
  BY <1>8 DEF TakeStop
<1>9. CASE Output
  <2>1. pending # <<>> /\ Len(output) < Depth
    BY <1>9 DEF Output, Waiting
  <2>2. pending' \in Seq(Command) /\ Len(pending') <= Depth /\ pending[1] \in Command
    BY <1>9, <2>1, ProjectionAssumption DEF Output
  <2>3. output' \in Seq(Command) /\ Len(output') <= Depth
    BY <1>9, <2>1, <2>2, ProjectionAssumption DEF Output
  <2> QED BY <1>9, <2>2, <2>3 DEF Output
<1>10. CASE Exit
  <2>1. Left \subseteq Command
    BY DEF Left
  <2> QED BY <1>10, <2>1, ProjectionAssumption DEF Exit, SleepersWoken
<1>11. CASE Read
  <2>1. output # <<>> /\ output' = Tail(output) /\ received' = Append(received, Head(output))
    BY <1>11 DEF Read
  <2>2. output' \in Seq(Command) /\ Len(output') <= Depth /\ Head(output) \in Command
    BY <2>1, ProjectionAssumption
  <2> QED BY <1>11, <2>1, <2>2 DEF Read
<1>12. CASE UNCHANGED pvars
  BY <1>12 DEF pvars
<1> QED
  BY <1>1, <1>2, <1>3, <1>4, <1>5, <1>6, <1>7, <1>8, <1>9, <1>10, <1>11, <1>12
  DEF ProjectionNext, Owner

-----------------------------------------------------------------------------
(* Who closes, who wakes, and which view is selected. *)
LEMMA ShutKept ==
  ASSUME PInv, [ProjectionNext]_pvars
  PROVE  ShutInv'
<1> USE DEF emitterVars, ownerVars, ShutInv, NoLostWakeup
<1>0. ProjectionTypeOK /\ ShutInv /\ (owner = "done" => closed)
  BY DEF PInv, DoneInv
<1>a. Len(commands) \in Nat /\ MailboxCap \in Nat /\ Len(commands) <= MailboxCap
  BY <1>0, ProjectionAssumption DEF ProjectionTypeOK
<1>1. ASSUME NEW v \in Views, Choose(v) PROVE ShutInv'
  BY <1>0, <1>1 DEF Choose, Views
<1>2. ASSUME NEW e \in Emitters, Enqueue(e) PROVE ShutInv'
  <2>1. CASE closed
    BY <1>0, <1>2, <2>1 DEF Enqueue
  <2>2. CASE ~closed /\ Len(commands) < MailboxCap
    <3>1. sleeping # {} => owner = "consumed"
      BY <1>0, <1>a, <2>2
    <3> QED BY <1>0, <1>2, <1>a, <2>2, <3>1 DEF Enqueue
  <2>3. CASE ~closed /\ Len(commands) >= MailboxCap
    BY <1>0, <1>2, <1>a, <2>3 DEF Enqueue
  <2> QED BY <1>a, <2>1, <2>2, <2>3
<1>3. CASE Close
  BY <1>0, <1>3 DEF Close, SleepersWoken
<1>4. CASE AbortOwner
  BY <1>0, <1>4 DEF AbortOwner, SleepersWoken
<1>5. CASE Skip
  BY <1>0, <1>5 DEF Skip
<1>6. CASE Receive
  BY <1>0, <1>6 DEF Receive
<1>7. CASE Advance
  BY <1>0, <1>7 DEF Advance, NextGeneration
<1>8. CASE TakeStop
  BY <1>0, <1>8 DEF TakeStop
<1>9. CASE Output
  BY <1>0, <1>9 DEF Output
<1>10. CASE Exit
  BY <1>0, <1>10 DEF Exit, SleepersWoken
<1>11. CASE Read
  BY <1>0, <1>11 DEF Read
<1>12. CASE UNCHANGED pvars
  BY <1>0, <1>12 DEF pvars
<1> QED
  BY <1>1, <1>2, <1>3, <1>4, <1>5, <1>6, <1>7, <1>8, <1>9, <1>10, <1>11, <1>12
  DEF ProjectionNext, Owner
-----------------------------------------------------------------------------
(* What was admitted keeps its numbers and its places. *)
LEMMA EnqueueAdmits ==
  ASSUME ProjectionTypeOK, NEW e \in Emitters, Enqueue(e)
  PROVE  \/ UNCHANGED <<sent, commands, admitted>>
         \/ /\ owner # "done" \/ ~closed
            /\ ~closed
            /\ NextCommand(e) \in Command
            /\ commands' = Append(commands, NextCommand(e))
            /\ admitted' = Append(admitted, NextCommand(e))
            /\ sent' = [sent EXCEPT ![e] = @ + 1]
BY NextIsCommand DEF Enqueue

LEMMA NumbersKept ==
  ASSUME PInv, [ProjectionNext]_pvars
  PROVE  NumberedInv'
<1> USE DEF emitterVars, ownerVars, NumberedInv
<1>0. ProjectionTypeOK /\ NumberedInv
  BY DEF PInv
<1>1. ASSUME UNCHANGED <<sent, admitted>> PROVE NumberedInv'
  BY <1>0, <1>1
<1>2. ASSUME NEW e \in Emitters, Enqueue(e) PROVE NumberedInv'
  <2>1. CASE UNCHANGED <<sent, commands, admitted>>
    BY <1>1, <2>1
  <2>2. CASE /\ admitted' = Append(admitted, NextCommand(e))
             /\ sent' = [sent EXCEPT ![e] = @ + 1]
    <3> DEFINE c == NextCommand(e)
    <3>1. c \in Command /\ c.by = e /\ c.n = sent[e] + 1
      BY <1>0, <1>2, NextIsCommand DEF Enqueue
    <3> HIDE DEF c
    <3>2. admitted \in Seq(Command) /\ sent \in [Emitters -> Nat]
      BY <1>0 DEF ProjectionTypeOK
    <3>3. PICK n \in Nat : n = Len(admitted)
      BY <3>2
    <3>4. /\ Len(admitted') = n + 1 /\ admitted'[n + 1] = c
          /\ \A p \in 1..n : admitted'[p] = admitted[p] /\ admitted[p] \in Command
      BY <2>2, <3>1, <3>2, <3>3, AppendProperties DEF c
    <3>5. \A p \in 1..n : /\ admitted[p].n <= sent[admitted[p].by]
                          /\ admitted[p].by \in Emitters /\ admitted[p].n \in Nat
      BY <1>0, <3>3, <3>4 DEF Command
    <3>6. \A p \in 1..n : admitted[p] # c
      BY <3>1, <3>2, <3>5
    <3>7. \A x \in Emitters : sent'[x] = IF x = e THEN sent[x] + 1 ELSE sent[x]
      BY <2>2, <3>2
    <3>8. \A p \in 1..(n + 1) : admitted'[p].n <= sent'[admitted'[p].by]
      <4> SUFFICES ASSUME NEW p \in 1..(n + 1) PROVE admitted'[p].n <= sent'[admitted'[p].by]
        OBVIOUS
      <4>1. CASE p = n + 1
        BY <3>1, <3>2, <3>4, <3>7, <4>1
      <4>2. CASE p \in 1..n
        BY <3>2, <3>4, <3>5, <3>7, <4>2
      <4> QED BY <4>1, <4>2
    <3>9. \A p, q \in 1..(n + 1) : admitted'[p] = admitted'[q] => p = q
      <4> SUFFICES ASSUME NEW p \in 1..(n + 1), NEW q \in 1..(n + 1), admitted'[p] = admitted'[q]
                   PROVE  p = q
        OBVIOUS
      <4>1. CASE p \in 1..n /\ q \in 1..n
        BY <1>0, <3>3, <3>4, <4>1
      <4>2. CASE p = n + 1 \/ q = n + 1
        BY <3>4, <3>6, <4>2
      <4> QED BY <4>1, <4>2
    <3> QED BY <3>4, <3>8, <3>9
  <2> QED BY <1>0, <1>2, <2>1, <2>2, EnqueueAdmits
<1> QED
  BY <1>1, <1>2 DEF ProjectionNext, Owner, pvars, Choose, Close, AbortOwner, Skip, Receive,
     Advance, TakeStop, Output, Exit, Read

-----------------------------------------------------------------------------
(* Facts about sequences. *)
LEMMA AppendConcat ==
  ASSUME NEW S, NEW s \in Seq(S), NEW t \in Seq(S), NEW e \in S
  PROVE  s \o Append(t, e) = Append(s \o t, e)
<1>1. <<e>> \in Seq(S) /\ s \o t \in Seq(S)
  BY ConcatProperties
<1>2. Append(t, e) = t \o <<e>> /\ Append(s \o t, e) = (s \o t) \o <<e>>
  BY <1>1, AppendIsConcat
<1>3. (s \o t) \o <<e>> = s \o (t \o <<e>>)
  BY ONLY <1>1, ConcatAssociative, s \in Seq(S), t \in Seq(S)
<1> QED BY <1>2, <1>3

LEMMA HeadIsFirst ==
  ASSUME NEW S, NEW s \in Seq(S), s # <<>>
  PROVE  /\ Head(s) \in S /\ Tail(s) \in Seq(S) /\ s = <<Head(s)>> \o Tail(s)
         /\ Head(s) = s[1]
<1>1. Head(s) \in S /\ Tail(s) \in Seq(S) /\ Len(Tail(s)) = Len(s) - 1
      /\ \A i \in 1..Len(Tail(s)) : Tail(s)[i] = s[i + 1]
  BY HeadTailProperties
<1>2. Head(s) = s[1]
  OBVIOUS
<1> DEFINE h == Head(s)
           t == Tail(s)
           w == <<h>> \o t
<1>3. <<h>> \in Seq(S) /\ Len(<<h>>) = 1 /\ <<h>>[1] = h
  BY <1>1
<1>4. w \in Seq(S) /\ Len(w) = Len(s)
      /\ \A i \in 1..Len(s) : w[i] = IF i <= 1 THEN h ELSE t[i - 1]
  BY <1>1, <1>3, ConcatProperties
<1>5. \A i \in 1..Len(s) : w[i] = s[i]
  <2> SUFFICES ASSUME NEW i \in 1..Len(s) PROVE w[i] = s[i]
    OBVIOUS
  <2>1. CASE i = 1
    BY <1>2, <1>4, <2>1
  <2>2. CASE i # 1
    BY <1>1, <1>4, <2>2
  <2> QED BY <2>1, <2>2
<1>6. w = s
  BY <1>4, <1>5
<1> QED BY <1>1, <1>2, <1>6

(* Seen is one sequence: what was read, then what waits in the channel. *)
LEMMA SeenIsSeq == ProjectionTypeOK => Seen \in Seq(Command)
BY ConcatProperties DEF ProjectionTypeOK, Seen

LEMMA OutputSeen ==
  ASSUME ProjectionTypeOK, Output
  PROVE  /\ pending # <<>> /\ pending[1] \in Command
         /\ Seen' = Append(Seen, pending[1])
<1>1. pending \in Seq(Command) /\ output \in Seq(Command) /\ received \in Seq(Command)
  BY DEF ProjectionTypeOK
<1>2. pending # <<>> /\ output' = Append(output, pending[1]) /\ received' = received
  BY DEF Output, Waiting
<1>3. pending[1] \in Command
  BY <1>1, <1>2
<1>4. received \o Append(output, pending[1]) = Append(received \o output, pending[1])
  BY ONLY <1>1, <1>3, AppendConcat
<1> QED BY <1>2, <1>3, <1>4 DEF Seen

LEMMA ReadSeen ==
  ASSUME ProjectionTypeOK, Read
  PROVE  Seen' = Seen
<1>1. output \in Seq(Command) /\ received \in Seq(Command)
  BY DEF ProjectionTypeOK
<1>2. output # <<>> /\ output' = Tail(output) /\ received' = Append(received, Head(output))
  BY DEF Read
<1> DEFINE h == Head(output)
           t == Tail(output)
<1>3. h \in Command /\ t \in Seq(Command) /\ output = <<h>> \o t
  BY <1>1, <1>2, HeadIsFirst
<1> HIDE DEF h, t
<1>4. Append(received, h) \o t = received \o (<<h>> \o t)
  <2>1. <<h>> \in Seq(Command) /\ Append(received, h) = received \o <<h>>
    BY ONLY <1>1, <1>3, AppendIsConcat
  <2>2. (received \o <<h>>) \o t = received \o (<<h>> \o t)
    BY ONLY <1>1, <1>3, <2>1, ConcatAssociative
  <2> QED BY <2>1, <2>2
<1> QED BY <1>2, <1>3, <1>4 DEF Seen, h, t
-----------------------------------------------------------------------------
(* What the books of a running owner say of the channel. *)
LEMMA Sizes ==
  ASSUME ProjectionTypeOK
  PROVE  /\ Len(admitted) \in Nat /\ Len(commands) \in Nat /\ Len(pending) \in Nat
         /\ Len(Seen) \in Nat /\ Taken \in Int
         /\ \A p \in 1..Len(admitted) : admitted[p] \in Command
         /\ \A i \in 1..Len(pending) : pending[i] \in Command
         /\ \A i \in 1..Len(commands) : commands[i] \in Command
         /\ \A i \in 1..Len(Seen) : Seen[i] \in Command
         /\ MailInv => Taken \in 0..Len(admitted)
<1>1. /\ admitted \in Seq(Command) /\ commands \in Seq(Command) /\ pending \in Seq(Command)
      /\ Seen \in Seq(Command)
  BY SeenIsSeq DEF ProjectionTypeOK
<1>2. Len(admitted) \in Nat /\ Len(commands) \in Nat
  BY <1>1
<1> QED BY <1>1, <1>2 DEF Taken, MailInv

LEMMA PrefixFollows ==
  ASSUME ProjectionTypeOK, NumberedInv, OwnerInv
  PROVE  OutputIsPrefix
<1> SUFFICES ASSUME NEW i \in 1..Len(Seen)
             PROVE  \E p \in 1..Len(admitted) :
                      /\ admitted[p] = Seen[i] /\ Seen[i].kind = view
                      /\ SeenBefore(i) = RelevantBefore(p)
  BY DEF OutputIsPrefix
<1>1. PICK t \in 0..Len(admitted) : t = Taken
  BY Sizes DEF OwnerInv
<1>2. Len(admitted) \in Nat /\ Len(Seen) \in Nat
  BY Sizes
<1>3. PICK p \in 1..t : admitted[p] = Seen[i]
  BY <1>1 DEF OwnerInv, SeenInv, TookOf
<1>4. p \in 1..Len(admitted) /\ Seen[i].kind = view /\ view # "none" /\ view \in Views
  <2>1. Seen[i].kind = view /\ view # "none"
    BY DEF OwnerInv, SeenInv
  <2>2. view \in Views \cup {"none"}
    BY DEF ProjectionTypeOK
  <2> QED BY <1>1, <1>2, <1>3, <2>1, <2>2
<1>5. \A q \in 1..Len(admitted) : admitted[q] = Seen[i] => q = p
  BY <1>3, <1>4 DEF NumberedInv
<1>6. ASSUME NEW j \in 1..(i - 1)
      PROVE  \E q \in 1..(p - 1) : admitted[q].kind = view /\ admitted[q] = Seen[j]
  <2>1. j \in 1..Len(Seen) /\ j < i
    BY <1>2, <1>6
  <2>2. PICK q, r \in 1..Len(admitted) : q < r /\ admitted[q] = Seen[j] /\ admitted[r] = Seen[i]
    BY <2>1 DEF OwnerInv, SeenInv, Before
  <2>3. r = p /\ q \in 1..(p - 1)
    BY <1>2, <1>5, <2>2
  <2> QED BY <2>1, <2>2, <2>3 DEF OwnerInv, SeenInv
<1>7. ASSUME NEW q \in 1..(p - 1), admitted[q].kind = view
      PROVE  \E j \in 1..(i - 1) : Seen[j] = admitted[q]
  <2>1. q \in 1..t /\ q < p /\ q \in 1..Len(admitted)
    BY <1>1, <1>2, <1>7
  <2>2. \/ In(admitted[q], pending)
        \/ In(admitted[q], Seen)
    BY <1>1, <1>4, <1>7, <2>1 DEF OwnerInv, CoverInv
  <2>3. ASSUME NEW a, NEW r, a \in 1..Len(admitted), r \in 1..Len(admitted),
               a < r, admitted[a] = Seen[i], admitted[r] = admitted[q]
        PROVE  FALSE
    <3>1. a = p /\ r = q
      BY <1>5, <2>1, <2>3 DEF NumberedInv
    <3> QED BY <1>2, <2>1, <2>3, <3>1
  <2>4. ~Before(Seen[i], admitted[q])
    BY <2>3 DEF Before
  <2>5. CASE In(admitted[q], pending)
    <3>1. PICK j \in 1..Len(pending) : pending[j] = admitted[q]
      BY <2>5 DEF In
    <3>2. Before(Seen[i], pending[j])
      BY DEF OwnerInv, SeenInv
    <3> QED BY <2>4, <3>1, <3>2
  <2>6. CASE In(admitted[q], Seen)
    <3>1. PICK j \in 1..Len(Seen) : Seen[j] = admitted[q]
      BY <2>6 DEF In
    <3>2. j # i
      BY <1>3, <1>5, <2>1, <3>1
    <3>3. ~(i < j)
      BY <2>4, <3>1 DEF OwnerInv, SeenInv
    <3> QED BY <1>2, <3>1, <3>2, <3>3
  <2> QED BY <2>2, <2>5, <2>6
<1>8. SeenBefore(i) = RelevantBefore(p)
  <2>1. \A c : c \in SeenBefore(i) => c \in RelevantBefore(p)
    BY <1>6 DEF SeenBefore, RelevantBefore
  <2>2. \A c : c \in RelevantBefore(p) => c \in SeenBefore(i)
    BY <1>7 DEF SeenBefore, RelevantBefore
  <2> QED BY <2>1, <2>2
<1> QED BY <1>3, <1>4, <1>8

LEMMA AckFollows ==
  ASSUME PInv
  PROVE  AckIsTrue
<1>1. CASE owner # "done"
  BY <1>1 DEF PInv, OwnerInv, AckInv, AckIsTrue, In
<1>2. CASE owner = "done"
  BY <1>2 DEF PInv, DoneInv, AckIsTrue
<1> QED BY <1>1, <1>2

LEMMA InvFollows == PInv => ProjectionInv
<1> SUFFICES ASSUME PInv PROVE ProjectionInv
  OBVIOUS
<1>1. OutputIsPrefix
  BY PrefixFollows DEF PInv, DoneInv
<1> QED BY <1>1, AckFollows DEF PInv, ProjectionInv, ShutInv

-----------------------------------------------------------------------------
(* The steps that leave the way of every command alone. *)
LEMMA QuietKeeps ==
  ASSUME PInv, UNCHANGED <<admitted, commands, pending, view, acked>>, Seen' = Seen,
         owner' = "done" <=> owner = "done", closed => closed'
  PROVE  /\ owner' # "done" => OwnerInv'
         /\ owner' = "done" => DoneInv'
<1>1. CASE owner # "done"
  <2>1. OwnerInv
    BY <1>1 DEF PInv
  <2>2. OwnerInv'
    BY <2>1 DEF OwnerInv, MailInv, SeenInv, PendingInv, CoverInv, AckInv, Taken, TookOf, Before, In
  <2> QED BY <1>1, <2>2
<1>2. CASE owner = "done"
  <2>1. DoneInv
    BY <1>2 DEF PInv
  <2>2. \A i : SeenBefore(i)' = SeenBefore(i)
    BY DEF SeenBefore
  <2>3. \A p : RelevantBefore(p)' = RelevantBefore(p)
    BY DEF RelevantBefore
  <2>4. OutputIsPrefix'
    BY <2>1, <2>2, <2>3 DEF DoneInv, OutputIsPrefix
  <2>5. DoneInv'
    BY <2>1, <2>4 DEF DoneInv
  <2> QED BY <1>2, <2>5
<1> QED BY <1>1, <1>2

(* An admitted command goes to the end of the mailbox. *)
LEMMA AdmitKeeps ==
  ASSUME PInv, owner # "done", owner' # "done", NEW c \in Command,
         commands' = Append(commands, c), admitted' = Append(admitted, c),
         UNCHANGED <<pending, view, acked>>, Seen' = Seen
  PROVE  OwnerInv'
<1>0. OwnerInv /\ ProjectionTypeOK
  BY DEF PInv
<1>1. admitted \in Seq(Command) /\ commands \in Seq(Command)
  BY <1>0 DEF ProjectionTypeOK
<1>2. PICK a \in Nat : a = Len(admitted)
  BY <1>1
<1>3. PICK m \in Nat : m = Len(commands)
  BY <1>1
<1>4. /\ Len(admitted') = a + 1 /\ admitted'[a + 1] = c
      /\ \A p \in 1..a : admitted'[p] = admitted[p]
  BY <1>1, <1>2, AppendProperties
<1>5. /\ Len(commands') = m + 1 /\ commands'[m + 1] = c
      /\ \A i \in 1..m : commands'[i] = commands[i]
  BY <1>1, <1>3, AppendProperties
<1>6. PICK t \in 0..a : t = Taken /\ t = a - m /\ m <= a
  BY <1>0, <1>2, <1>3, Sizes DEF OwnerInv, MailInv, Taken
<1>7. Taken' = t
  BY <1>4, <1>5, <1>6 DEF Taken
<1>8. MailInv'
  <2>1. \A i \in 1..m : commands[i] = admitted[t + i]
    BY <1>0, <1>3, <1>6 DEF OwnerInv, MailInv
  <2>2. ASSUME NEW i \in 1..(m + 1) PROVE commands'[i] = admitted'[t + i]
    <3>1. CASE i = m + 1
      <4>1. t + i = a + 1
        BY ONLY <1>6, <3>1, a \in Nat, m \in Nat
      <4>2. admitted'[t + i] = c
        BY ONLY <4>1, <1>4
      <4>3. commands'[i] = c
        BY ONLY <3>1, <1>5
      <4> QED BY ONLY <4>2, <4>3
    <3>2. CASE i \in 1..m
      <4>1. t + i \in 1..a
        BY <1>6, <3>2
      <4> QED BY <1>4, <1>5, <2>1, <3>2, <4>1
    <3>3. i = m + 1 \/ i \in 1..m
      BY ONLY m \in Nat, <2>2
    <3> QED BY <3>1, <3>2, <3>3
  <2>3. m + 1 <= a + 1
    BY ONLY <1>6, a \in Nat, m \in Nat
  <2>4. /\ Len(commands') <= Len(admitted')
        /\ \A i \in 1..Len(commands') : commands'[i] = admitted'[Taken' + i]
    BY <1>4, <1>5, <1>7, <2>2, <2>3
  <2> QED BY <2>4 DEF MailInv
<1>9. \A p \in 1..t : admitted'[p] = admitted[p]
  BY <1>4, <1>6
<1>10. \A d : TookOf(t, d) <=> TookOf(t, d)'
  BY <1>9 DEF TookOf
<1>11. \A d, f : Before(d, f) => Before(d, f)'
  <2> SUFFICES ASSUME NEW d, NEW f, Before(d, f) PROVE Before(d, f)'
    OBVIOUS
  <2>1. PICK p, q \in 1..a : p < q /\ admitted[p] = d /\ admitted[q] = f
    BY <1>2 DEF Before
  <2>2. p \in 1..(a + 1) /\ q \in 1..(a + 1) /\ admitted'[p] = d /\ admitted'[q] = f
    BY <1>4, <2>1
  <2> QED BY <1>4, <2>1, <2>2 DEF Before
<1>12. SeenInv' /\ PendingInv'
  <2>1. \A d : TookOf(Taken, d) => TookOf(Taken, d)'
    BY <1>6, <1>7, <1>9 DEF TookOf
  <2> QED BY <1>0, <1>11, <2>1 DEF OwnerInv, SeenInv, PendingInv
<1>13. \A d : (In(d, Seen) <=> In(d, Seen)') /\ (In(d, pending) <=> In(d, pending)')
  BY DEF In
<1>14. CoverInv'
  <2>1. \A p \in 1..t : \/ admitted[p].kind \notin Views
                        \/ In(admitted[p], pending)
                        \/ view # "none" /\ (admitted[p].kind # view \/ In(admitted[p], Seen))
    BY <1>0, <1>6 DEF OwnerInv, CoverInv
  <2> QED BY <1>7, <1>9, <1>13, <2>1 DEF CoverInv
<1>15. AckInv'
  <2>1. \A p \in 1..t : admitted[p] \in acked \/ In(admitted[p], pending)
    BY <1>0, <1>6 DEF OwnerInv, AckInv
  <2>2. \A d \in acked : d.kind \in Views => view # "none" /\ (d.kind # view \/ In(d, Seen))
    BY <1>0 DEF OwnerInv, AckInv
  <2> QED BY <1>7, <1>9, <1>13, <2>1, <2>2 DEF AckInv
<1> QED BY <1>8, <1>12, <1>14, <1>15 DEF OwnerInv
(* The owner takes the first command of the mailbox. *)
LEMMA TakenOne ==
  ASSUME ProjectionTypeOK, OwnerInv, commands # <<>>, commands' = Tail(commands),
         admitted' = admitted
  PROVE  /\ Taken \in Nat /\ Taken' = Taken + 1 /\ Taken + 1 \in 1..Len(admitted)
         /\ Head(commands) = admitted[Taken + 1] /\ Head(commands) \in Command
         /\ MailInv'
<1>1. commands \in Seq(Command) /\ Head(commands) = commands[1]
  BY HeadIsFirst DEF ProjectionTypeOK
<1>2. PICK a \in Nat : a = Len(admitted)
  BY DEF ProjectionTypeOK
<1>3. PICK m \in Nat : m = Len(commands)
  BY <1>1
<1>4. m >= 1 /\ Head(commands) \in Command
  BY <1>1, <1>3
<1>5. Len(commands') = m - 1 /\ \A i \in 1..(m - 1) : commands'[i] = commands[i + 1]
  BY <1>1, <1>3, HeadTailProperties
<1>6. PICK t \in 0..a : t = Taken /\ t = a - m /\ m <= a
  BY <1>2, <1>3, Sizes DEF OwnerInv, MailInv, Taken
<1>7. Taken' = t + 1
  BY <1>2, <1>3, <1>5, <1>6 DEF Taken
<1>8. \A i \in 1..m : commands[i] = admitted[t + i]
  BY <1>3, <1>6 DEF OwnerInv, MailInv
<1>9. \A i \in 1..(m - 1) : commands'[i] = admitted[(t + 1) + i]
  <2> SUFFICES ASSUME NEW i \in 1..(m - 1) PROVE commands'[i] = admitted[(t + 1) + i]
    OBVIOUS
  <2>1. i + 1 \in 1..m /\ t + (i + 1) = (t + 1) + i
    BY <1>6
  <2> QED BY <1>5, <1>8, <2>1
<1>10. m - 1 <= a
  BY ONLY <1>6, a \in Nat, m \in Nat
<1>11. MailInv'
  <2>1. /\ Len(commands') <= Len(admitted)
        /\ \A i \in 1..Len(commands') : commands'[i] = admitted[Taken' + i]
    BY <1>2, <1>5, <1>7, <1>9, <1>10
  <2> QED BY <2>1 DEF MailInv
<1>12. Head(commands) = admitted[t + 1]
  BY <1>1, <1>4, <1>8
<1>13. t + 1 \in 1..a
  BY ONLY <1>6, <1>4, a \in Nat, m \in Nat
<1> QED BY <1>2, <1>4, <1>6, <1>7, <1>11, <1>12, <1>13

LEMMA ReceiveKeeps ==
  ASSUME PInv, Receive
  PROVE  owner' # "done" /\ OwnerInv'
<1> USE DEF emitterVars, ownerVars
<1>0. ProjectionTypeOK /\ ShutInv /\ OwnerInv /\ owner' # "done"
  BY DEF PInv, Receive, Selecting
<1>1. /\ commands # <<>> /\ commands' = Tail(commands) /\ admitted' = admitted
      /\ Seen' = Seen
  BY DEF Receive, Seen
<1>2. PICK t \in Nat : t = Taken
  BY <1>0, <1>1, TakenOne
<1>3. PICK c \in Command : c = Head(commands)
  BY <1>0, <1>1, TakenOne
<1>4. Taken' = t + 1 /\ t + 1 \in 1..Len(admitted) /\ c = admitted[t + 1] /\ MailInv'
  BY <1>0, <1>1, <1>2, <1>3, TakenOne
<1>5. \A d : TookOf(Taken, d) => TookOf(Taken, d)'
  BY <1>1, <1>2, <1>4 DEF TookOf
<1>6. \A d, e : Before(d, e) => Before(d, e)'
  BY <1>1 DEF Before
<1>7. \A p \in 1..(t + 1) : p \in 1..t \/ p = t + 1
  BY ONLY t \in Nat
<1>8. CASE c.kind = "select"
  <2>1. view' = chooser /\ acked' = acked \cup {c} /\ pending' = pending
    BY <1>3, <1>8 DEF Receive
  <2>2. view # "none" => view' = view
    BY <1>0, <2>1 DEF ShutInv
  <2>3. SeenInv' /\ PendingInv'
    BY <1>0, <1>1, <1>5, <1>6, <2>1, <2>2 DEF OwnerInv, SeenInv, PendingInv
  <2>4. c.kind \notin Views
    BY <1>8 DEF Views
  <2>5. \A d : (In(d, Seen) <=> In(d, Seen)') /\ (In(d, pending) <=> In(d, pending)')
    BY <1>1, <2>1 DEF In
  <2>6. CoverInv'
    <3>1. \A p \in 1..t : \/ admitted[p].kind \notin Views
                          \/ In(admitted[p], pending)
                          \/ view # "none" /\ (admitted[p].kind # view \/ In(admitted[p], Seen))
      BY <1>0, <1>2 DEF OwnerInv, CoverInv
    <3> QED BY <1>1, <1>4, <1>7, <2>2, <2>4, <2>5, <3>1 DEF CoverInv
  <2>7. AckInv'
    <3>1. \A p \in 1..t : admitted[p] \in acked \/ In(admitted[p], pending)
      BY <1>0, <1>2 DEF OwnerInv, AckInv
    <3>2. \A d \in acked : d.kind \in Views => view # "none" /\ (d.kind # view \/ In(d, Seen))
      BY <1>0 DEF OwnerInv, AckInv
    <3> QED BY <1>1, <1>4, <1>7, <2>1, <2>2, <2>4, <2>5, <3>1, <3>2 DEF AckInv
  <2> QED BY <1>0, <1>4, <2>3, <2>6, <2>7 DEF OwnerInv
<1>9. CASE c.kind # "select"
  <2>1. UNCHANGED <<view, acked>> /\ pending' = Append(pending, c)
    BY <1>3, <1>9 DEF Receive, Queued
  <2>2. c.kind \in Views
    BY <1>9 DEF Command
  <2>3. PICK n \in Nat : n = Len(pending)
    BY <1>0 DEF ProjectionTypeOK
  <2>4. /\ Len(pending') = n + 1 /\ pending'[n + 1] = c
        /\ \A i \in 1..n : pending'[i] = pending[i]
    BY <1>0, <2>1, <2>3, AppendProperties DEF ProjectionTypeOK
  <2>5. \A i \in 1..(n + 1) : i \in 1..n \/ i = n + 1
    BY ONLY n \in Nat
  <2>6. TookOf(t + 1, c) /\ \A d : TookOf(Taken, d) => TookOf(t + 1, d)
    BY <1>2, <1>4 DEF TookOf
  <2>7. ASSUME NEW d, TookOf(Taken, d) PROVE Before(d, c)
    <3>1. PICK p \in 1..t : admitted[p] = d
      BY <1>2, <2>7 DEF TookOf
    <3>2. p < t + 1 /\ p \in 1..Len(admitted)
      BY <1>4, <3>1
    <3> QED BY <1>1, <1>4, <3>1, <3>2 DEF Before
  <2>8. PendingInv'
    <3>1. \A i \in 1..n : TookOf(Taken, pending[i]) /\ pending[i].kind \in Views
      BY <1>0, <2>3 DEF OwnerInv, PendingInv
    <3>2. \A i \in 1..(n + 1) : TookOf(t + 1, pending'[i]) /\ pending'[i].kind \in Views
      BY <2>2, <2>4, <2>5, <2>6, <3>1
    <3>3. ASSUME NEW i \in 1..(n + 1), NEW j \in 1..(n + 1), i < j
          PROVE  Before(pending'[i], pending'[j])
      <4>1. i \in 1..n
        BY <2>3, <3>3
      <4>2. CASE j \in 1..n
        <5>1. Before(pending[i], pending[j])
          BY <1>0, <2>3, <3>3, <4>1, <4>2 DEF OwnerInv, PendingInv
        <5> QED BY <2>4, <4>1, <4>2, <5>1
      <4>3. CASE j = n + 1
        BY <2>4, <2>7, <3>1, <4>1, <4>3
      <4> QED BY <2>5, <4>2, <4>3
    <3>4. /\ \A i \in 1..(n + 1) : TookOf(Taken, pending[i])'
          /\ \A i, j \in 1..(n + 1) : i < j => Before(pending[i], pending[j])'
      BY <1>1, <1>4, <3>2, <3>3 DEF TookOf, Before
    <3> QED BY <2>4, <3>2, <3>4 DEF PendingInv
  <2>9. SeenInv'
    <3>1. ASSUME NEW i \in 1..Len(Seen), NEW j \in 1..(n + 1)
          PROVE  Before(Seen[i], pending'[j])
      <4>1. CASE j \in 1..n
        BY <1>0, <2>3, <2>4, <3>1, <4>1 DEF OwnerInv, SeenInv
      <4>2. CASE j = n + 1
        <5>1. TookOf(Taken, Seen[i])
          BY <1>0 DEF OwnerInv, SeenInv
        <5> QED BY <2>4, <2>7, <4>2, <5>1
      <4> QED BY <2>5, <4>1, <4>2
    <3>2. /\ \A i \in 1..Len(Seen) : TookOf(Taken, Seen[i])' /\ Seen[i].kind = view /\ view # "none"
          /\ \A i, j \in 1..Len(Seen) : i < j => Before(Seen[i], Seen[j])'
      BY <1>0, <1>1, <1>5, <1>6 DEF OwnerInv, SeenInv
    <3>3. \A i \in 1..Len(Seen), j \in 1..(n + 1) : Before(Seen[i], pending[j])'
      BY <1>1, <3>1 DEF Before
    <3> QED BY <1>1, <2>1, <2>4, <3>2, <3>3 DEF SeenInv
  <2>10. \A d : (In(d, Seen) <=> In(d, Seen)') /\ (In(d, pending) => In(d, pending)') /\ In(c, pending)'
    BY <1>1, <1>3, <2>3, <2>4 DEF In
  <2>11. CoverInv'
    <3>1. \A p \in 1..t : \/ admitted[p].kind \notin Views
                          \/ In(admitted[p], pending)
                          \/ view # "none" /\ (admitted[p].kind # view \/ In(admitted[p], Seen))
      BY <1>0, <1>2 DEF OwnerInv, CoverInv
    <3> QED BY <1>1, <1>3, <1>4, <1>7, <2>1, <2>10, <3>1 DEF CoverInv
  <2>12. AckInv'
    <3>1. \A p \in 1..t : admitted[p] \in acked \/ In(admitted[p], pending)
      BY <1>0, <1>2 DEF OwnerInv, AckInv
    <3>2. \A d \in acked : d.kind \in Views => view # "none" /\ (d.kind # view \/ In(d, Seen))
      BY <1>0 DEF OwnerInv, AckInv
    <3> QED BY <1>1, <1>3, <1>4, <1>7, <2>1, <2>10, <3>1, <3>2 DEF AckInv
  <2> QED BY <1>0, <1>4, <2>8, <2>9, <2>11, <2>12 DEF OwnerInv
<1> QED BY <1>8, <1>9
(* The head of the queue goes, the rest moves up. *)
LEMMA PendingTail ==
  ASSUME ProjectionTypeOK, pending # <<>>, pending' = Tail(pending)
  PROVE  \E n \in Nat :
           /\ Len(pending) = n + 1 /\ Len(pending') = n
           /\ 1 \in 1..Len(pending) /\ pending[1] \in Command
           /\ \A i \in 1..n : pending'[i] = pending[i + 1] /\ i + 1 \in 1..Len(pending)
           /\ \A i \in 1..Len(pending) : i = 1 \/ \E j \in 1..n : i = j + 1
<1>1. pending \in Seq(Command)
  BY DEF ProjectionTypeOK
<1>2. PICK m \in Nat : m = Len(pending)
  BY <1>1
<1>3. m >= 1
  BY <1>1, <1>2
<1>4. PICK n \in Nat : m = n + 1
  BY <1>3
<1>5. Len(pending') = n /\ \A i \in 1..n : pending'[i] = pending[i + 1]
  <2>1. Len(Tail(pending)) = m - 1 /\ \A i \in 1..(m - 1) : Tail(pending)[i] = pending[i + 1]
    BY <1>1, <1>2, HeadTailProperties
  <2>2. m - 1 = n
    BY <1>4
  <2> QED BY <2>1, <2>2
<1>6. \A i \in 1..n : i + 1 \in 1..m
  BY ONLY <1>4, n \in Nat
<1>7. \A i \in 1..m : i = 1 \/ \E j \in 1..n : i = j + 1
  <2> SUFFICES ASSUME NEW i \in 1..m, i # 1 PROVE \E j \in 1..n : i = j + 1
    OBVIOUS
  <2>1. i - 1 \in 1..n /\ i = (i - 1) + 1
    BY <1>4
  <2> QED BY <2>1
<1>8. pending[1] \in Command /\ 1 \in 1..m
  BY <1>1, <1>2, <1>3
<1> QED BY <1>2, <1>4, <1>5, <1>6, <1>7, <1>8

(* The owner disposes of the head of its queue: it is of the other view, or it
   goes to the end of the channel. *)
LEMMA HeadKeeps ==
  ASSUME PInv, owner # "done", owner' # "done",
         pending # <<>>, pending' = Tail(pending), view # "none",
         acked' = acked \cup {pending[1]},
         UNCHANGED <<admitted, commands, view>>,
         \/ Seen' = Seen /\ pending[1].kind # view
         \/ Seen' = Append(Seen, pending[1]) /\ pending[1].kind = view
  PROVE  OwnerInv'
<1>0. ProjectionTypeOK /\ OwnerInv
  BY DEF PInv
<1>1. PICK n \in Nat :
        /\ Len(pending) = n + 1 /\ Len(pending') = n
        /\ 1 \in 1..Len(pending) /\ pending[1] \in Command
        /\ \A i \in 1..n : pending'[i] = pending[i + 1] /\ i + 1 \in 1..Len(pending)
        /\ \A i \in 1..Len(pending) : i = 1 \/ \E j \in 1..n : i = j + 1
  BY <1>0, PendingTail
<1>2. PICK c \in Command : c = pending[1]
  BY <1>1
<1>3. PICK t \in 0..Len(admitted) : t = Taken
  BY <1>0, Sizes DEF OwnerInv
<1>4. Taken' = t
  BY <1>3 DEF Taken
<1>5. MailInv'
  BY <1>0, <1>3, <1>4 DEF OwnerInv, MailInv
<1>6. /\ TookOf(t, c) /\ c.kind \in Views
      /\ \A i \in 1..n : /\ TookOf(t, pending'[i]) /\ pending'[i].kind \in Views
                         /\ Before(c, pending'[i])
      /\ \A i, j \in 1..n : i < j => Before(pending'[i], pending'[j])
  <2>1. TookOf(t, c) /\ c.kind \in Views
    BY <1>0, <1>1, <1>2, <1>3 DEF OwnerInv, PendingInv
  <2>2. ASSUME NEW i \in 1..n
        PROVE  TookOf(t, pending'[i]) /\ pending'[i].kind \in Views /\ Before(c, pending'[i])
    <3>1. 1 < i + 1
      BY <1>1
    <3> QED BY <1>0, <1>1, <1>2, <1>3, <3>1 DEF OwnerInv, PendingInv
  <2>3. ASSUME NEW i \in 1..n, NEW j \in 1..n, i < j
        PROVE  Before(pending'[i], pending'[j])
    <3>1. i + 1 < j + 1
      BY <1>1, <2>3
    <3> QED BY <1>0, <1>1, <3>1 DEF OwnerInv, PendingInv
  <2> QED BY <2>1, <2>2, <2>3
<1>7. PendingInv'
  <2>1. \A i \in 1..n : TookOf(Taken, pending[i])' /\ pending'[i].kind \in Views
    BY ONLY <1>4, <1>6, admitted' = admitted DEF TookOf
  <2>2. ASSUME NEW i \in 1..n, NEW j \in 1..n, i < j PROVE Before(pending[i], pending[j])'
    <3>1. Before(pending'[i], pending'[j])
      BY <1>6, <2>2
    <3>2. PICK p, q \in 1..Len(admitted) : p < q /\ admitted[p] = pending'[i] /\ admitted[q] = pending'[j]
      BY <3>1 DEF Before
    <3> QED BY <3>2 DEF Before
  <2> QED BY <1>1, <2>1, <2>2 DEF PendingInv
<1>8. \A d : In(d, pending) => d = c \/ In(d, pending)'
  <2> SUFFICES ASSUME NEW i \in 1..Len(pending) PROVE pending[i] = c \/ In(pending[i], pending')
    BY DEF In
  <2>1. CASE i = 1
    BY <1>2, <2>1
  <2>2. CASE \E j \in 1..n : i = j + 1
    <3>1. PICK j \in 1..n : i = j + 1
      BY <2>2
    <3>2. pending'[j] = pending[i]
      BY <1>1, <3>1
    <3> QED BY <1>1, <3>1, <3>2 DEF In
  <2> QED BY <1>1, <2>1, <2>2
<1>9. /\ \A i \in 1..Len(Seen) : TookOf(t, Seen[i]) /\ Seen[i].kind = view
      /\ \A i, j \in 1..Len(Seen) : i < j => Before(Seen[i], Seen[j])
      /\ \A i \in 1..Len(Seen) : Before(Seen[i], c)
      /\ \A i \in 1..Len(Seen), j \in 1..n : Before(Seen[i], pending'[j])
  BY <1>0, <1>1, <1>2, <1>3 DEF OwnerInv, SeenInv
<1>10. /\ \A p \in 1..t : \/ admitted[p].kind \notin Views
                          \/ In(admitted[p], pending)
                          \/ admitted[p].kind # view \/ In(admitted[p], Seen)
       /\ \A d \in acked : d.kind \in Views => d.kind # view \/ In(d, Seen)
       /\ \A p \in 1..t : admitted[p] \in acked \/ In(admitted[p], pending)
  BY <1>0, <1>3 DEF OwnerInv, CoverInv, AckInv
<1>11. ASSUME \A d : In(d, Seen) => In(d, Seen)', c.kind # view \/ In(c, Seen)'
       PROVE  CoverInv' /\ AckInv'
  <2>1. CoverInv'
    <3> SUFFICES ASSUME NEW p \in 1..t
                 PROVE  \/ admitted[p].kind \notin Views
                        \/ In(admitted[p], pending)'
                        \/ admitted[p].kind # view \/ In(admitted[p], Seen)'
      BY <1>4 DEF CoverInv, In
    <3>1. CASE In(admitted[p], pending)
      BY <1>8, <1>11, <3>1
    <3>2. CASE ~In(admitted[p], pending)
      BY <1>10, <1>11, <3>2
    <3> QED BY <3>1, <3>2
  <2>2. AckInv'
    <3>1. \A p \in 1..t : admitted[p] \in acked' \/ In(admitted[p], pending)'
      BY <1>2, <1>8, <1>10
    <3>2. \A d \in acked' : d.kind \in Views => d.kind # view \/ In(d, Seen)'
      BY <1>2, <1>10, <1>11
    <3> QED BY <1>4, <3>1, <3>2 DEF AckInv, In
  <2> QED BY <2>1, <2>2
<1>12. CASE Seen' = Seen /\ c.kind # view
  <2>1. SeenInv'
    <3>0. /\ \A i \in 1..Len(Seen) : TookOf(t, Seen'[i])
          /\ \A i, j \in 1..Len(Seen) : i < j => Before(Seen'[i], Seen'[j])
          /\ \A i \in 1..Len(Seen), j \in 1..n : Before(Seen'[i], pending'[j])
      BY <1>9, <1>12
    <3>1. \A i \in 1..Len(Seen) : TookOf(Taken, Seen[i])'
      BY ONLY <1>4, <3>0, admitted' = admitted DEF TookOf
    <3>2. ASSUME NEW i \in 1..Len(Seen), NEW j \in 1..Len(Seen), i < j PROVE Before(Seen[i], Seen[j])'
      <4>1. Before(Seen'[i], Seen'[j])
        BY <3>0, <3>2
      <4>2. PICK p, q \in 1..Len(admitted) : p < q /\ admitted[p] = Seen'[i] /\ admitted[q] = Seen'[j]
        BY <4>1 DEF Before
      <4> QED BY <4>2 DEF Before
    <3>3. ASSUME NEW i \in 1..Len(Seen), NEW j \in 1..n PROVE Before(Seen[i], pending[j])'
      <4>1. Before(Seen'[i], pending'[j])
        BY <3>0, <3>3
      <4>2. PICK p, q \in 1..Len(admitted) : p < q /\ admitted[p] = Seen'[i] /\ admitted[q] = pending'[j]
        BY <4>1 DEF Before
      <4> QED BY <4>2 DEF Before
    <3> QED BY <1>1, <1>9, <1>12, <3>1, <3>2, <3>3 DEF SeenInv
  <2>2. \A d : In(d, Seen) => In(d, Seen)'
    BY <1>12 DEF In
  <2> QED BY <1>5, <1>7, <1>11, <1>12, <2>1, <2>2 DEF OwnerInv
<1>13. CASE Seen' = Append(Seen, c) /\ c.kind = view
  <2>1. PICK m \in Nat : m = Len(Seen)
    BY <1>0, Sizes
  <2>2. /\ Len(Seen') = m + 1 /\ Seen'[m + 1] = c
        /\ \A i \in 1..m : Seen'[i] = Seen[i]
    BY <1>0, <1>13, <2>1, SeenIsSeq, AppendProperties
  <2>3. \A i \in 1..(m + 1) : i \in 1..m \/ i = m + 1
    BY ONLY m \in Nat
  <2>4. \A i \in 1..(m + 1) : TookOf(t, Seen'[i]) /\ Seen'[i].kind = view
    BY <1>6, <1>9, <1>13, <2>1, <2>2, <2>3
  <2>5. ASSUME NEW i \in 1..(m + 1), NEW j \in 1..(m + 1), i < j
        PROVE  Before(Seen'[i], Seen'[j])
    <3>1. i \in 1..m
      BY <2>1, <2>5
    <3>2. CASE j \in 1..m
      BY <1>9, <2>1, <2>2, <2>5, <3>1, <3>2
    <3>3. CASE j = m + 1
      BY <1>9, <2>1, <2>2, <3>1, <3>3
    <3> QED BY <2>3, <3>2, <3>3
  <2>6. \A i \in 1..(m + 1), j \in 1..n : Before(Seen'[i], pending'[j])
    BY <1>6, <1>9, <2>1, <2>2, <2>3
  <2>7. SeenInv'
    <3>1. \A i \in 1..(m + 1) : TookOf(Taken, Seen[i])'
      BY ONLY <1>4, <2>4, admitted' = admitted DEF TookOf
    <3>2. ASSUME NEW i \in 1..(m + 1), NEW j \in 1..(m + 1), i < j PROVE Before(Seen[i], Seen[j])'
      <4>1. Before(Seen'[i], Seen'[j])
        BY <2>5, <3>2
      <4>2. PICK p, q \in 1..Len(admitted) : p < q /\ admitted[p] = Seen'[i] /\ admitted[q] = Seen'[j]
        BY <4>1 DEF Before
      <4> QED BY <4>2 DEF Before
    <3>3. ASSUME NEW i \in 1..(m + 1), NEW j \in 1..n PROVE Before(Seen[i], pending[j])'
      <4>1. Before(Seen'[i], pending'[j])
        BY <2>6, <3>3
      <4>2. PICK p, q \in 1..Len(admitted) : p < q /\ admitted[p] = Seen'[i] /\ admitted[q] = pending'[j]
        BY <4>1 DEF Before
      <4> QED BY <4>2 DEF Before
    <3> QED BY <1>1, <2>2, <2>4, <3>1, <3>2, <3>3 DEF SeenInv
  <2>8. (\A d : In(d, Seen) => In(d, Seen)') /\ In(c, Seen)'
    <3>1. ASSUME NEW d, NEW i \in 1..Len(Seen), Seen[i] = d PROVE In(d, Seen)'
      BY <2>1, <2>2, <3>1 DEF In
    <3>2. m + 1 \in 1..(m + 1)
      BY ONLY m \in Nat
    <3>3. In(c, Seen)'
      BY <2>2, <3>2 DEF In
    <3> QED BY <3>1, <3>3 DEF In
  <2> QED BY <1>5, <1>7, <1>11, <2>7, <2>8 DEF OwnerInv
<1> QED BY <1>2, <1>12, <1>13

(* The owner leaves: what it had not disposed of is acknowledged. *)
LEMMA ExitKeeps ==
  ASSUME PInv, Exit
  PROVE  owner' = "done" /\ DoneInv'
<1>0. ProjectionTypeOK /\ OwnerInv /\ NumberedInv /\ owner' = "done"
  BY DEF PInv, Exit
<1>1. /\ closed' = TRUE /\ commands' = <<>> /\ pending' = <<>> /\ acked' = acked \cup Left
      /\ UNCHANGED <<admitted, view>> /\ Seen' = Seen
  BY DEF Exit, ownerVars, emitterVars, Seen
<1>2. OutputIsPrefix
  BY <1>0, PrefixFollows
<1>3. OutputIsPrefix'
  <2>1. \A i : SeenBefore(i)' = SeenBefore(i)
    BY <1>1 DEF SeenBefore
  <2>2. \A p : RelevantBefore(p)' = RelevantBefore(p)
    BY <1>1 DEF RelevantBefore
  <2> QED BY <1>1, <1>2, <2>1, <2>2 DEF OutputIsPrefix
<1>4. ASSUME NEW i \in 1..Len(admitted) PROVE admitted[i] \in acked'
  <2>1. PICK t \in Nat : t = Taken
    BY <1>0, Sizes DEF OwnerInv
  <2>2. CASE i \in 1..t
    <3>1. admitted[i] \in acked \/ In(admitted[i], pending)
      BY <1>0, <2>1, <2>2 DEF OwnerInv, AckInv
    <3> QED BY <1>1, <3>1 DEF In, Left
  <2>3. CASE i \notin 1..t
    <3>1. PICK a \in Nat : a = Len(admitted)
      BY <1>0, Sizes
    <3>2. PICK m \in Nat : m = Len(commands)
      BY <1>0, Sizes
    <3>3. t = a - m
      BY <2>1, <3>1, <3>2 DEF Taken
    <3>4. i - t \in 1..m /\ t + (i - t) = i
      BY <2>3, <3>1, <3>3
    <3>5. commands[i - t] = admitted[i]
      BY <1>0, <2>1, <3>2, <3>4 DEF OwnerInv, MailInv
    <3>6. admitted[i] \in Left
      BY <3>2, <3>4, <3>5 DEF Left
    <3> QED BY <1>1, <3>6
  <2> QED BY <2>2, <2>3
<1>5. \A i \in 1..Len(admitted') : admitted'[i] \in acked'
  BY <1>1, <1>4
<1> QED BY <1>0, <1>1, <1>3, <1>5 DEF DoneInv
-----------------------------------------------------------------------------
(* The steps together. *)
LEMMA WayKept ==
  ASSUME PInv, [ProjectionNext]_pvars
  PROVE  /\ owner' # "done" => OwnerInv'
         /\ owner' = "done" => DoneInv'
<1> USE DEF emitterVars, ownerVars
<1>0. ProjectionTypeOK
  BY DEF PInv
<1> DEFINE Kept == /\ owner' # "done" => OwnerInv'
                   /\ owner' = "done" => DoneInv'
<1> SUFFICES Kept
  OBVIOUS
<1>1. ASSUME NEW v \in Views, Choose(v) PROVE Kept
  BY <1>1, QuietKeeps DEF Choose, Seen
<1>2. ASSUME NEW e \in Emitters, Enqueue(e) PROVE Kept
  <2>1. UNCHANGED <<pending, view, acked, owner, closed, output, received>> /\ Seen' = Seen
    BY <1>2 DEF Enqueue, Seen
  <2>2. CASE UNCHANGED <<sent, commands, admitted>>
    BY <2>1, <2>2, QuietKeeps
  <2>3. CASE /\ ~closed /\ NextCommand(e) \in Command
             /\ commands' = Append(commands, NextCommand(e))
             /\ admitted' = Append(admitted, NextCommand(e))
    <3>1. PICK c \in Command : c = NextCommand(e)
      BY <2>3
    <3>2. owner # "done" /\ owner' # "done"
      BY <2>1, <2>3 DEF PInv, DoneInv
    <3>3. OwnerInv'
      BY <2>1, <2>3, <3>1, <3>2, AdmitKeeps
    <3> QED BY <3>2, <3>3
  <2> QED BY <1>0, <1>2, <2>2, <2>3, EnqueueAdmits
<1>3. CASE Close
  BY <1>3, QuietKeeps DEF Close, Seen
<1>4. CASE AbortOwner
  BY <1>4, QuietKeeps DEF AbortOwner, Seen
<1>5. CASE Skip
  <2>1. /\ owner # "done" /\ owner' # "done" /\ pending # <<>> /\ view # "none"
        /\ pending' = Tail(pending) /\ acked' = acked \cup {pending[1]}
        /\ UNCHANGED <<admitted, commands, view>>
        /\ Seen' = Seen /\ pending[1].kind # view
    BY <1>5 DEF Skip, SkipDue, Waiting, Matches, Seen
  <2>2. OwnerInv'
    BY <2>1, HeadKeeps
  <2> QED BY <2>1, <2>2
<1>6. CASE Receive
  BY <1>6, ReceiveKeeps
<1>7. CASE Advance
  BY <1>7, QuietKeeps DEF Advance, Seen
<1>8. CASE TakeStop
  BY <1>8, QuietKeeps DEF TakeStop, Seen
<1>9. CASE Output
  <2>1. /\ owner # "done" /\ owner' # "done" /\ pending # <<>> /\ view # "none"
        /\ pending' = Tail(pending) /\ acked' = acked \cup {pending[1]}
        /\ UNCHANGED <<admitted, commands, view>>
        /\ pending[1].kind = view
    BY <1>9 DEF Output, Selecting, SkipDue, Waiting, Matches
  <2>2. Seen' = Append(Seen, pending[1])
    BY <1>0, <1>9, OutputSeen
  <2>3. OwnerInv'
    BY <2>1, <2>2, HeadKeeps
  <2> QED BY <2>1, <2>3
<1>10. CASE Exit
  BY <1>10, ExitKeeps
<1>11. CASE Read
  <2>1. Seen' = Seen
    BY <1>0, <1>11, ReadSeen
  <2> QED BY <1>11, <2>1, QuietKeeps DEF Read
<1>12. CASE UNCHANGED pvars
  BY <1>12, QuietKeeps DEF pvars, Seen
<1> HIDE DEF Kept
<1> QED
  BY <1>1, <1>2, <1>3, <1>4, <1>5, <1>6, <1>7, <1>8, <1>9, <1>10, <1>11, <1>12
  DEF ProjectionNext, Owner

LEMMA InvStarts == ProjectionInit => PInv
<1> SUFFICES ASSUME ProjectionInit PROVE PInv
  OBVIOUS
<1>1. ProjectionTypeOK
  BY TypesStart
<1>2. /\ Len(admitted) = 0 /\ Len(commands) = 0 /\ Len(pending) = 0
      /\ owner = "loop" /\ acked = {} /\ sleeping = {} /\ view = "none"
      /\ ~stopped /\ ~aborted
  BY DEF ProjectionInit
<1>3. Len(Seen) = 0
  <2>1. <<>> \o <<>> = <<>>
    OBVIOUS
  <2> QED BY <2>1 DEF ProjectionInit, Seen
<1>4. Taken = 0
  BY <1>2 DEF Taken
<1>5. NumberedInv /\ ShutInv
  BY <1>2 DEF NumberedInv, ShutInv, NoLostWakeup
<1>6. OwnerInv
  BY <1>2, <1>3, <1>4 DEF OwnerInv, MailInv, SeenInv, PendingInv, CoverInv, AckInv
<1> QED BY <1>1, <1>2, <1>5, <1>6 DEF PInv

LEMMA InvKept == PInv /\ [ProjectionNext]_pvars => PInv'
<1> SUFFICES ASSUME PInv, [ProjectionNext]_pvars PROVE PInv'
  OBVIOUS
<1>1. ProjectionTypeOK'
  BY TypesKept DEF PInv
<1> QED BY <1>1, ShutKept, NumbersKept, WayKept DEF PInv

LEMMA ProjectionKeeps == ProjectionSpec => []PInv
BY InvStarts, InvKept, PTL DEF ProjectionSpec

(* The selected channel is what was admitted for its view, in order and without
   a gap, every acknowledgement is true, and no emitter sleeps through the
   generation that could wake it: for any emitters and programs, any depth, and
   a consumer, close and abort at any moment (projection.run, enqueue). *)
THEOREM ChannelIsTrue == ProjectionSpec => []ProjectionInv
BY ProjectionKeeps, InvFollows, PTL

(* An owner that was not aborted leaves only when everything admitted for the
   view is in the channel, or the channel is full (projection.run). *)
LEMMA ExitLosesNothing ==
  ASSUME PInv, Exit, ~aborted, view # "none"
  PROVE  EverythingSeen \/ Len(output) = Depth
<1>0. ProjectionTypeOK /\ OwnerInv
  BY DEF PInv, Exit
<1>1. ExitDue
  BY DEF Exit
<1>2. CASE pending # <<>>
  BY <1>1, <1>2 DEF ExitDue, Waiting
<1>3. CASE pending = <<>>
  <2>1. commands = <<>>
    BY <1>1, <1>3 DEF ExitDue, Waiting
  <2>2. Taken = Len(admitted) /\ Len(pending) = 0
    <3>1. Len(commands) = 0 /\ Len(admitted) \in Nat
      BY <1>0, <2>1, Sizes
    <3> QED BY <1>3, <3>1 DEF Taken
  <2>3. \A p \in 1..Len(admitted) : admitted[p].kind = view => In(admitted[p], Seen)
    <3>1. view \in Views
      BY <1>0 DEF ProjectionTypeOK
    <3>2. \A d : ~In(d, pending)
      BY <2>2 DEF In
    <3> QED BY <1>0, <2>2, <3>1, <3>2 DEF OwnerInv, CoverInv
  <2> QED BY <2>3 DEF EverythingSeen, In
<1> QED BY <1>2, <1>3

(* A projection that closes loses something only when its consumer left the
   channel full: a stalled consumer, not a race with a producer, is the only way
   to lose an observation short of abort (close, run). *)
THEOREM CloseLosesOnlyWhenFull == ProjectionSpec => LosesOnlyWhenFull
<1> DEFINE Lossless == (owner # "done" /\ owner' = "done" /\ ~aborted /\ view # "none") =>
                          EverythingSeen \/ Len(output) = Depth
<1>1. PInv /\ [ProjectionNext]_pvars => Lossless
  <2> SUFFICES ASSUME PInv, [ProjectionNext]_pvars, owner # "done", owner' = "done",
                      ~aborted, view # "none"
               PROVE  EverythingSeen \/ Len(output) = Depth
    OBVIOUS
  <2>1. Exit
    BY DEF ProjectionNext, Owner, pvars, Choose, Enqueue, Close, AbortOwner, Skip, Receive,
       Advance, TakeStop, Output, Read
  <2> QED BY <2>1, ExitLosesNothing
<1>2. PInv /\ [ProjectionNext]_pvars => [Lossless]_pvars
  BY <1>1
<1> HIDE DEF Lossless
<1>3. ProjectionSpec => [][Lossless]_pvars
  BY <1>2, ProjectionKeeps, PTL DEF ProjectionSpec
<1> QED BY <1>3 DEF LosesOnlyWhenFull, Lossless
=============================================================================
