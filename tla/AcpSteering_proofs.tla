------------------------- MODULE AcpSteering_proofs -------------------------
(***************************************************************************)
(* Proofs about AcpSteering.  First the dispatcher by itself, driven by    *)
(* any arbiter that asks of it what SteerDispatcher allows: its lines are  *)
(* in order and without duplicates, its reports are complete and true.     *)
(* Then the whole turn drives its dispatcher so, and what callers and the  *)
(* stream are told follows.                                                *)
(***************************************************************************)
EXTENDS AcpSteering, TLAPS, FiniteSetTheorems

-----------------------------------------------------------------------------
(***************************************************************************)
(* Sequences.                                                              *)
(***************************************************************************)
In(x, s) == \E i \in 1..Len(s) : s[i] = x
Distinct(s) == \A i, j \in 1..Len(s) : s[i] = s[j] => i = j

(* c precedes d in w; the calls of s occur in the order of w. *)
Before(w, c, d) == \E m, n \in 1..Len(w) : m < n /\ w[m] = c /\ w[n] = d
Sorted(w, s) == \A i, j \in 1..Len(s) :
                  i < j /\ s[i] \in Calls /\ s[j] \in Calls => Before(w, s[i], s[j])

LEMMA AppendFacts ==
  ASSUME NEW S, NEW s \in Seq(S), NEW x \in S
  PROVE  /\ Append(s, x) \in Seq(S)
         /\ Len(Append(s, x)) = Len(s) + 1
         /\ Append(s, x)[Len(s) + 1] = x
         /\ \A i \in 1..Len(s) : Append(s, x)[i] = s[i]
         /\ \A y : In(y, Append(s, x)) <=> In(y, s) \/ y = x
         /\ Distinct(s) /\ ~In(x, s) => Distinct(Append(s, x))
<1> DEFINE t == Append(s, x)
<1>1. /\ t \in Seq(S) /\ Len(t) = Len(s) + 1 /\ Len(s) \in Nat
      /\ t[Len(s) + 1] = x /\ \A i \in 1..Len(s) : t[i] = s[i]
  OBVIOUS
<1> HIDE DEF t
<1>2. \A y : In(y, t) <=> In(y, s) \/ y = x
  <2> TAKE y
  <2>1. ASSUME In(y, t) PROVE In(y, s) \/ y = x
    <3>1. PICK i \in 1..Len(t) : t[i] = y
      BY <2>1 DEF In
    <3>2. CASE i = Len(s) + 1
      BY <3>1, <3>2, <1>1
    <3>3. CASE i # Len(s) + 1
      <4>1. i \in 1..Len(s)
        BY <3>3, <1>1
      <4> QED BY <4>1, <3>1, <1>1 DEF In
    <3> QED BY <3>2, <3>3
  <2>2. ASSUME In(y, s) PROVE In(y, t)
    <3>1. PICK i \in 1..Len(s) : s[i] = y
      BY <2>2 DEF In
    <3>2. i \in 1..Len(t) /\ t[i] = y
      BY <3>1, <1>1
    <3> QED BY <3>2 DEF In
  <2>3. In(x, t)
    <3>1. Len(s) + 1 \in 1..Len(t)
      BY <1>1
    <3> QED BY <3>1, <1>1 DEF In
  <2> QED BY <2>1, <2>2, <2>3
<1>3. ASSUME Distinct(s), ~In(x, s), NEW i \in 1..Len(t), NEW j \in 1..Len(t), t[i] = t[j]
      PROVE  i = j
  <2>1. i \in 1..Len(s) \/ i = Len(s) + 1
    BY <1>1
  <2>2. j \in 1..Len(s) \/ j = Len(s) + 1
    BY <1>1
  <2>3. CASE i \in 1..Len(s) /\ j \in 1..Len(s)
    BY <2>3, <1>1, <1>3 DEF Distinct
  <2>4. CASE i \in 1..Len(s) /\ j = Len(s) + 1
    BY <2>4, <1>1, <1>3 DEF In
  <2>5. CASE j \in 1..Len(s) /\ i = Len(s) + 1
    BY <2>5, <1>1, <1>3 DEF In
  <2> QED BY <2>1, <2>2, <2>3, <2>4, <2>5
<1>4. Distinct(s) /\ ~In(x, s) => Distinct(t)
  BY <1>3 DEF Distinct
<1> QED BY <1>1, <1>2, <1>4 DEF t

LEMMA AppendSecond ==
  ASSUME NEW S, NEW s \in Seq(S), NEW x \in S, s # <<>>, Len(s) < 2
  PROVE  /\ Append(s, x) # <<>> /\ Len(Append(s, x)) > 1 /\ Len(Append(s, x)) <= 2
         /\ Append(s, x)[1] = s[1] /\ Append(s, x)[2] = x
<1> DEFINE t == Append(s, x)
<1>1. /\ Len(t) = Len(s) + 1 /\ t[Len(s) + 1] = x
      /\ \A i \in 1..Len(s) : t[i] = s[i]
  BY ONLY s \in Seq(S), x \in S, AppendFacts
<1> HIDE DEF t
<1>2. 1 \in 1..Len(s) /\ Len(s) + 1 = 2
  OBVIOUS
<1>3. Len(t) > 1 /\ Len(t) <= 2 /\ t[1] = s[1] /\ t[2] = x
  BY <1>1, <1>2
<1>4. t # <<>>
  <2>1. Len(<<>>) = 0
    OBVIOUS
  <2>2. Len(t) # 0
    BY <1>3
  <2> QED BY ONLY <2>1, <2>2, Zenon
<1> QED BY <1>3, <1>4 DEF t

LEMMA AppendFirst ==
  ASSUME NEW S, NEW x \in S
  PROVE  /\ Append(<<>>, x) \in Seq(S) /\ Append(<<>>, x) # <<>>
         /\ Len(Append(<<>>, x)) >= 1 /\ Len(Append(<<>>, x)) < 2 /\ Append(<<>>, x)[1] = x
  OBVIOUS

LEMMA TailFacts ==
  ASSUME NEW S, NEW s \in Seq(S), s # <<>>
  PROVE  /\ Tail(s) \in Seq(S) /\ Len(s) \in Nat /\ Len(s) >= 1
         /\ Len(Tail(s)) = Len(s) - 1
         /\ Head(s) \in S /\ Head(s) = s[1] /\ In(Head(s), s)
         /\ \A i \in 1..Len(Tail(s)) : i + 1 \in 1..Len(s) /\ Tail(s)[i] = s[i + 1]
         /\ \A y : In(y, Tail(s)) => In(y, s)
         /\ \A y : In(y, s) => In(y, Tail(s)) \/ y = Head(s)
         /\ Distinct(s) => Distinct(Tail(s)) /\ ~In(Head(s), Tail(s))
<1> DEFINE t == Tail(s)
<1>1. /\ t \in Seq(S) /\ Len(s) \in Nat /\ Len(s) >= 1 /\ Len(t) = Len(s) - 1
      /\ \A i \in 1..Len(t) : i + 1 \in 1..Len(s) /\ t[i] = s[i + 1]
  OBVIOUS
<1>2. Head(s) = s[1] /\ s[1] \in S
  OBVIOUS
<1>3. 1 \in 1..Len(s)
  BY <1>1
<1> HIDE DEF t
<1>4. In(Head(s), s)
  BY <1>2, <1>3 DEF In
<1>5. \A y : In(y, t) => In(y, s)
  BY <1>1 DEF In
<1>6. ASSUME NEW y, In(y, s) PROVE In(y, t) \/ y = Head(s)
  <2>1. PICK i \in 1..Len(s) : s[i] = y
    BY <1>6 DEF In
  <2>2. CASE i = 1
    BY <2>1, <2>2, <1>2
  <2>3. CASE i # 1
    <3>1. i - 1 \in 1..Len(t) /\ (i - 1) + 1 = i
      BY <2>3, <1>1
    <3>2. t[i - 1] = s[(i - 1) + 1]
      BY <3>1, <1>1
    <3>3. t[i - 1] = y
      BY <3>1, <3>2, <2>1
    <3> QED BY <3>1, <3>3 DEF In
  <2> QED BY <2>2, <2>3
<1>7. ASSUME Distinct(s) PROVE Distinct(t) /\ ~In(Head(s), t)
  <2>1. ASSUME NEW i \in 1..Len(t), NEW j \in 1..Len(t), t[i] = t[j] PROVE i = j
    <3>1. i + 1 = j + 1
      BY <1>7, <2>1, <1>1 DEF Distinct
    <3> QED BY <3>1, <1>1
  <2>2. ASSUME NEW i \in 1..Len(t), t[i] = Head(s) PROVE FALSE
    <3>1. i + 1 = 1
      BY <1>7, <2>2, <1>1, <1>2, <1>3 DEF Distinct
    <3> QED BY <3>1, <1>1
  <2> QED BY <2>1, <2>2 DEF Distinct, In
<1> QED BY <1>1, <1>2, <1>4, <1>5, <1>6, <1>7 DEF t

LEMMA ConcatFacts ==
  ASSUME NEW S, NEW s \in Seq(S), NEW t \in Seq(S)
  PROVE  /\ s \o t \in Seq(S)
         /\ Len(s \o t) = Len(s) + Len(t)
         /\ \A i \in 1..Len(s) : (s \o t)[i] = s[i]
         /\ \A i \in 1..Len(t) : Len(s) + i \in 1..Len(s \o t) /\ (s \o t)[Len(s) + i] = t[i]
         /\ \A i \in 1..Len(s \o t) :
              i \in 1..Len(s) \/ (i - Len(s) \in 1..Len(t) /\ (s \o t)[i] = t[i - Len(s)])
<1> DEFINE u == s \o t
<1>1. /\ u \in Seq(S) /\ Len(s) \in Nat /\ Len(t) \in Nat /\ Len(u) = Len(s) + Len(t)
  OBVIOUS
<1>2. \A i \in 1..Len(u) : u[i] = IF i <= Len(s) THEN s[i] ELSE t[i - Len(s)]
  OBVIOUS
<1> HIDE DEF u
<1>3. \A i \in 1..Len(s) : u[i] = s[i]
  BY <1>1, <1>2
<1>4. ASSUME NEW i \in 1..Len(t)
      PROVE  Len(s) + i \in 1..Len(u) /\ u[Len(s) + i] = t[i]
  <2>1. Len(s) + i \in 1..Len(u) /\ ~(Len(s) + i <= Len(s)) /\ (Len(s) + i) - Len(s) = i
    BY <1>1
  <2> QED BY <2>1, <1>2
<1>5. ASSUME NEW i \in 1..Len(u)
      PROVE  i \in 1..Len(s) \/ (i - Len(s) \in 1..Len(t) /\ u[i] = t[i - Len(s)])
  <2>1. i \in 1..Len(s) \/ (~(i <= Len(s)) /\ i - Len(s) \in 1..Len(t))
    BY <1>1
  <2> QED BY <2>1, <1>2
<1> QED BY <1>1, <1>3, <1>4, <1>5 DEF u

LEMMA SortedAppend ==
  ASSUME NEW w, NEW S, NEW s \in Seq(S), NEW x \in S, Sorted(w, s),
         x \in Calls => \A y \in Calls : In(y, s) => Before(w, y, x)
  PROVE  Sorted(w, Append(s, x))
<1> DEFINE t == Append(s, x)
<1>1. /\ Len(t) = Len(s) + 1 /\ t[Len(s) + 1] = x /\ Len(s) \in Nat
      /\ \A i \in 1..Len(s) : t[i] = s[i]
  BY AppendFacts
<1> HIDE DEF t
<1>2. SUFFICES ASSUME NEW i \in 1..Len(t), NEW j \in 1..Len(t), i < j, t[i] \in Calls,
                      t[j] \in Calls
               PROVE  Before(w, t[i], t[j])
  BY DEF Sorted, t
<1>3. i \in 1..Len(s) /\ t[i] = s[i]
  BY <1>1, <1>2
<1>4. CASE j = Len(s) + 1
  BY <1>1, <1>2, <1>3, <1>4 DEF In
<1>5. CASE j # Len(s) + 1
  <2>1. j \in 1..Len(s) /\ t[j] = s[j]
    BY <1>1, <1>5
  <2> QED BY <2>1, <1>2, <1>3 DEF Sorted
<1> QED BY <1>4, <1>5

LEMMA SortedTail ==
  ASSUME NEW w, NEW S, NEW s \in Seq(S), s # <<>>, Sorted(w, s)
  PROVE  /\ Sorted(w, Tail(s))
         /\ \A y \in Calls : Head(s) \in Calls /\ In(y, Tail(s)) => Before(w, Head(s), y)
<1> DEFINE t == Tail(s)
<1>1. /\ Len(s) \in Nat /\ Len(s) >= 1 /\ Len(t) = Len(s) - 1 /\ Head(s) = s[1]
      /\ \A i \in 1..Len(t) : i + 1 \in 1..Len(s) /\ t[i] = s[i + 1]
  BY TailFacts
<1> HIDE DEF t
<1>2. ASSUME NEW i \in 1..Len(t), NEW j \in 1..Len(t), i < j, t[i] \in Calls, t[j] \in Calls
      PROVE  Before(w, t[i], t[j])
  <2>1. i + 1 < j + 1
    BY <1>2, <1>1
  <2> QED BY <2>1, <1>2, <1>1 DEF Sorted
<1>3. ASSUME NEW y \in Calls, Head(s) \in Calls, In(y, t) PROVE Before(w, Head(s), y)
  <2>1. PICK i \in 1..Len(t) : t[i] = y
    BY <1>3 DEF In
  <2>2. i + 1 \in 1..Len(s) /\ s[i + 1] = y /\ 1 < i + 1 /\ 1 \in 1..Len(s)
    BY <2>1, <1>1
  <2> QED BY <2>2, <1>1, <1>3 DEF Sorted
<1> QED BY <1>2, <1>3 DEF Sorted, t

(* What precedes in w precedes in every extension of w, and all of w precedes
   what is appended to it. *)
LEMMA BeforeAppend ==
  ASSUME NEW S, NEW w \in Seq(S), NEW x \in S
  PROVE  /\ \A c, d : Before(w, c, d) => Before(Append(w, x), c, d)
         /\ \A c : In(c, w) => Before(Append(w, x), c, x)
         /\ \A s : Sorted(w, s) => Sorted(Append(w, x), s)
<1> DEFINE t == Append(w, x)
<1>1. /\ Len(t) = Len(w) + 1 /\ t[Len(w) + 1] = x /\ Len(w) \in Nat
      /\ \A i \in 1..Len(w) : t[i] = w[i]
  BY AppendFacts
<1> HIDE DEF t
<1>2. ASSUME NEW c, NEW d, Before(w, c, d) PROVE Before(t, c, d)
  <2>1. PICK m \in 1..Len(w), n \in 1..Len(w) : m < n /\ w[m] = c /\ w[n] = d
    BY <1>2 DEF Before
  <2>2. m \in 1..Len(t) /\ n \in 1..Len(t) /\ t[m] = c /\ t[n] = d
    BY <2>1, <1>1
  <2> QED BY <2>1, <2>2 DEF Before
<1>3. ASSUME NEW c, In(c, w) PROVE Before(t, c, x)
  <2>1. PICK m \in 1..Len(w) : w[m] = c
    BY <1>3 DEF In
  <2>2. m \in 1..Len(t) /\ Len(w) + 1 \in 1..Len(t) /\ m < Len(w) + 1 /\ t[m] = c
    BY <2>1, <1>1
  <2> QED BY <2>2, <1>1 DEF Before
<1>4. ASSUME NEW s, Sorted(w, s) PROVE Sorted(t, s)
  BY <1>4, <1>2 DEF Sorted
<1> QED BY <1>2, <1>3, <1>4 DEF t

(* A sequence without duplicates is no longer than the set it is drawn from. *)
LEMMA DistinctLength ==
  ASSUME NEW S, IsFiniteSet(S), NEW s \in Seq(S), Distinct(s)
  PROVE  Len(s) <= Cardinality(S)
<1>1. Len(s) \in Nat /\ s \in [1..Len(s) -> S]
  OBVIOUS
<1>2. s \in Injection(1..Len(s), S)
  BY <1>1 DEF Distinct, Injection, IsInjective
<1>3. Cardinality(1..Len(s)) <= Cardinality(S)
  BY <1>2, FS_Injection
<1>4. Cardinality(1..Len(s)) = Len(s)
  <2>1. 1 \in Int /\ Len(s) \in Int
    BY <1>1
  <2>2. Cardinality(1..Len(s)) = IF 1 > Len(s) THEN 0 ELSE Len(s) - 1 + 1
    BY <2>1, FS_Interval
  <2> QED BY <2>2, <1>1
<1> QED BY <1>3, <1>4

-----------------------------------------------------------------------------
(***************************************************************************)
(* What the dispatcher keeps.                                              *)
(***************************************************************************)
InQueue(c) == In(c, queue)
InLine(c) == Entered(c) \/ InQueue(c)
Started(c) == In(c, starts)

(* A job waits in one place, once, before anything is made of it. *)
LineInv ==
  /\ Distinct(inputs) /\ Distinct(queue)
  /\ \A c \in Calls : InQueue(c) => ~Entered(c)
  /\ \A c \in Calls : InLine(c) => WasSubmitted(c) /\ wire[c] = "idle" /\ told[c] = <<>>
  /\ Entered("terminal") => ~terminalRequested
  /\ terminalRequested => queue = <<>>

(* Jobs are started, wait and arrive in the order they were submitted. *)
OrderInv ==
  /\ Sorted(submitted, starts) /\ Sorted(submitted, queue) /\ Sorted(submitted, inputs)
  /\ \A c, d \in Calls : Started(c) /\ InLine(d) => Before(submitted, c, d)
  /\ \A c, d \in Calls : InQueue(c) /\ Entered(d) => Before(submitted, c, d)
  /\ \A i \in 1..Len(starts) :
       told[starts[i]] # <<>> \/ (active.id = starts[i] /\ i = Len(starts))

(* What attempt, admission fact and completion say of a call is true. *)
ProviderInv == \A c \in Calls :
  /\ wire[c] = "idle" <=> ~Started(c)
  /\ wire[c] # "idle" => WasSubmitted(c) /\ attempt[c] # "pending"
  /\ wire[c] = "idle" => attempt[c] \in {"pending", "notAdmitted"}
  /\ wire[c] \in {"idle", "started"} => fact[c] = "none" /\ reply[c] = "none"
  /\ attempt[c] = "notAdmitted" => wire[c] \in {"idle", "refused"}
  /\ fact[c] = "true" => wire[c] = "written"
  /\ fact[c] = "false" => wire[c] = "refused"
  /\ reply[c] = "admitted" => wire[c] = "written"
  /\ reply[c] = "silent" => Async \/ wire[c] = "refused"
  /\ reply[c] # "none" => active.id = c

(* So is what the run loop knows of the active call; a session that publishes
   facts has one for it once the request was written or refused. *)
ActiveInv ==
  /\ active.id = None => active = NoActive
  /\ active.id # None =>
       /\ wire[active.id] # "idle" /\ active.admission # "pending"
       /\ active.admission = "admitted" => wire[active.id] = "written"
       /\ active.admission = "notAdmitted" => wire[active.id] = "refused"
       /\ active.heard => active.admission # "pendingWriter"
       /\ Async /\ wire[active.id] \in {"written", "refused"} =>
            active.heard \/ fact[active.id] # "none"
       /\ active.terminal <=> terminalRequested
       /\ active.resolved => /\ active.terminal /\ told[active.id] # <<>> /\ Len(told[active.id]) < 2
                             /\ ~told[active.id][1].late /\ ~told[active.id][1].completed
       /\ ~active.resolved => told[active.id] = <<>>
       /\ active.timer => active.terminal

(* Every submitted call waits, is active or was reported; the reports of a call
   are true and at most two, the second one late. *)
ToldCovers(c) ==
  /\ told[c] # <<>> => WasSubmitted(c) /\ attempt[c] # "pending"
  /\ WasSubmitted(c) => InLine(c) \/ active.id = c \/ told[c] # <<>>
ToldTwice(c) ==
  /\ Len(told[c]) <= 2
  /\ Len(told[c]) > 1 => /\ terminalRequested /\ active.id = None
                         /\ ~told[c][1].late /\ told[c][2].late
  /\ \A d \in Calls : Len(told[c]) > 1 /\ Len(told[d]) > 1 => c = d
ToldTrue(c) == \A i \in 1..Len(told[c]) :
  /\ told[c][i].id = c
  /\ told[c][i].completed => active.id # c
  /\ told[c][i].admission = "notAdmitted" => wire[c] \in {"idle", "refused"}
  /\ told[c][i].admission = "admitted" => wire[c] = "written"
ToldInv == \A c \in Calls : ToldCovers(c) /\ ToldTwice(c) /\ ToldTrue(c)

(* An event on the channel is the first of its call, its second, or the
   completion, and each of them is there once. *)
First(h, e) == e # Complete /\ h[e.id] # <<>> /\ e = h[e.id][1]
Second(h, e) == e # Complete /\ Len(h[e.id]) > 1 /\ e = h[e.id][2]
EventsCore ==
  /\ Distinct(events)
  /\ \A i \in 1..Len(events) :
       (events[i] = Complete /\ completeSent) \/ First(told, events[i]) \/ Second(told, events[i])
  /\ \A i, j \in 1..Len(events) :
       First(told, events[i]) /\ Second(told, events[j]) /\ events[i].id = events[j].id => i < j
EventsInv ==
  /\ EventsCore
  /\ completeSent => terminalRequested /\ (active.id = None \/ active.resolved)

DInv == DispatcherTypeOK /\ LineInv /\ OrderInv /\ ProviderInv /\ ActiveInv /\ ToldInv /\ EventsInv

-----------------------------------------------------------------------------
(***************************************************************************)
(* What an emission does: the batch goes to the channel and each event of  *)
(* it to the history of its call.                                          *)
(***************************************************************************)
LEMMA ReportTypes ==
  /\ Complete \in Reports /\ Event \subseteq Reports
  /\ \A e \in Event : e.id \in Calls /\ e # Complete
  /\ \A e \in Reports : e \in Event \/ e = Complete
  /\ Complete.id \notin Calls /\ None \notin Calls
  /\ \A c \in Calls, a \in Admissions, late \in BOOLEAN :
       Says(c, a) \in Event /\ Completion(c, a, late) \in Event
  BY DispatcherAssumption DEF Reports, Event, Complete, Says, Completion

LEMMA ItemTypes ==
  /\ Calls \subseteq Items /\ "terminal" \in Items /\ "stop" \in Items
  /\ "terminal" \notin Calls /\ "stop" \notin Calls
  BY DispatcherAssumption DEF Items

LEMMA EmittedFacts ==
  ASSUME events \in Seq(Reports), told \in [Calls -> Seq(Event)],
         NEW es \in Seq(Reports), Emitted(es),
         \A i, j \in 1..Len(es) : es[i].id = es[j].id => i = j
  PROVE  /\ events' \in Seq(Reports) /\ Len(events') <= EventCap
         /\ events' = events \o es
         /\ told' \in [Calls -> Seq(Event)]
         /\ \A i \in 1..Len(es) : es[i] \in Event =>
              told'[es[i].id] = Append(told[es[i].id], es[i])
         /\ \A c \in Calls : (\A i \in 1..Len(es) : es[i].id # c) => told'[c] = told[c]
<1>1. /\ events' \in Seq(Reports) /\ Len(events') <= EventCap /\ events' = events \o es
  <2>1. events' = events \o es /\ Len(events) + Len(es) <= EventCap
    BY DEF Emitted
  <2>2. events \o es \in Seq(Reports) /\ Len(events \o es) = Len(events) + Len(es)
    BY ConcatFacts
  <2> QED BY <2>1, <2>2
<1> DEFINE has(c) == \E i \in 1..Len(es) : es[i].id = c
           at(c) == CHOOSE i \in 1..Len(es) : es[i].id = c
<1>2. told' = [c \in Calls |-> IF has(c) THEN Append(told[c], es[at(c)]) ELSE told[c]]
  BY DEF Emitted
<1>3. ASSUME NEW c, has(c) PROVE at(c) \in 1..Len(es) /\ es[at(c)].id = c
  BY <1>3
<1>4. ASSUME NEW i \in 1..Len(es) PROVE has(es[i].id) /\ at(es[i].id) = i
  <2>1. has(es[i].id)
    OBVIOUS
  <2> QED BY <2>1, <1>3
<1> HIDE DEF has, at
<1>5. ASSUME NEW i \in 1..Len(es), es[i] \in Event
      PROVE  told'[es[i].id] = Append(told[es[i].id], es[i])
  <2>1. es[i].id \in Calls
    BY <1>5, ReportTypes
  <2> QED BY <2>1, <1>2, <1>4
<1>6. ASSUME NEW c \in Calls, \A i \in 1..Len(es) : es[i].id # c
      PROVE  told'[c] = told[c]
  BY <1>6, <1>2 DEF has
<1>7. told' \in [Calls -> Seq(Event)]
  <2>1. ASSUME NEW c \in Calls PROVE told'[c] \in Seq(Event)
    <3>1. CASE has(c)
      <4>1. at(c) \in 1..Len(es) /\ es[at(c)].id = c
        BY <3>1, <1>3
      <4>2. es[at(c)] \in Event
        <5>1. es[at(c)] \in Reports
          BY <4>1
        <5> QED BY <5>1, <4>1, ReportTypes
      <4>3. Append(told[c], es[at(c)]) \in Seq(Event)
        BY <4>2, AppendFacts
      <4> QED BY <4>3, <3>1, <1>2
    <3>2. CASE ~has(c)
      BY <3>2, <1>2
    <3> QED BY <3>1, <3>2
  <2>2. told' = [c \in Calls |-> told'[c]]
    BY <1>2
  <2> QED BY <2>1, <2>2
<1> QED BY <1>1, <1>5, <1>6, <1>7

(* One event. *)
LEMMA EmittedOne ==
  ASSUME events \in Seq(Reports), told \in [Calls -> Seq(Event)],
         NEW e \in Reports, Emitted(<<e>>)
  PROVE  /\ events' \in Seq(Reports) /\ Len(events') <= EventCap
         /\ events' = Append(events, e)
         /\ told' \in [Calls -> Seq(Event)]
         /\ e \in Event => told' = [told EXCEPT ![e.id] = Append(told[e.id], e)]
         /\ e = Complete => told' = told
<1> DEFINE es == <<e>>
<1>1. es \in Seq(Reports) /\ Len(es) = 1 /\ es[1] = e
  OBVIOUS
<1>2. events \o es = Append(events, e)
  OBVIOUS
<1>3. Emitted(es)
  OBVIOUS
<1> HIDE DEF es
<1>4. \A i, j \in 1..Len(es) : es[i].id = es[j].id => i = j
  BY <1>1
<1>5. /\ events' \in Seq(Reports) /\ Len(events') <= EventCap
      /\ events' = events \o es
      /\ told' \in [Calls -> Seq(Event)]
      /\ \A i \in 1..Len(es) : es[i] \in Event =>
           told'[es[i].id] = Append(told[es[i].id], es[i])
      /\ \A c \in Calls : (\A i \in 1..Len(es) : es[i].id # c) => told'[c] = told[c]
  BY <1>1, <1>3, <1>4, EmittedFacts
<1>6. \A c \in Calls : e.id # c => told'[c] = told[c]
  BY <1>1, <1>5
<1>7. e \in Event => told'[e.id] = Append(told[e.id], e)
  <2>1. 1 \in 1..Len(es)
    BY <1>1
  <2> QED BY <2>1, <1>1, <1>5
<1>8. e \in Event => told' = [told EXCEPT ![e.id] = Append(told[e.id], e)]
  BY <1>5, <1>6, <1>7, ReportTypes
<1>9. e = Complete => told' = told
  BY <1>5, <1>6, ReportTypes
<1> QED BY <1>2, <1>5, <1>8, <1>9
(* First reports. *)
LEMMA FirstReports ==
  ASSUME events \in Seq(Reports), told \in [Calls -> Seq(Event)], EventsCore,
         NEW es \in Seq(Event), Emitted(es), completeSent' = completeSent,
         \A i, j \in 1..Len(es) : es[i].id = es[j].id => i = j,
         \A i \in 1..Len(es) : told[es[i].id] = <<>>
  PROVE  EventsCore'
<1>1. es \in Seq(Reports)
  BY ReportTypes
<1>2. /\ events' \in Seq(Reports) /\ events' = events \o es
      /\ told' \in [Calls -> Seq(Event)]
      /\ \A i \in 1..Len(es) : es[i] \in Event =>
           told'[es[i].id] = Append(told[es[i].id], es[i])
      /\ \A c \in Calls : (\A i \in 1..Len(es) : es[i].id # c) => told'[c] = told[c]
  BY <1>1, EmittedFacts
<1>3. /\ Len(events) \in Nat /\ Len(es) \in Nat /\ Len(events') = Len(events) + Len(es)
      /\ \A i \in 1..Len(events) : events'[i] = events[i] /\ events[i] \in Reports
      /\ \A i \in 1..Len(es) : events'[Len(events) + i] = es[i]
      /\ \A i \in 1..Len(events') : i \in 1..Len(events) \/ i - Len(events) \in 1..Len(es)
  BY <1>1, <1>2, ConcatFacts
<1> DEFINE old(i) == i \in 1..Len(events)
           new(i) == i - Len(events) \in 1..Len(es) /\ events'[i] = es[i - Len(events)]
<1>4. \A i \in 1..Len(events') : old(i) \/ new(i)
  BY <1>3
<1>5. ASSUME NEW i \in 1..Len(events'), old(i)
      PROVE  /\ events'[i] = events[i]
             /\ First(told', events[i]) <=> First(told, events[i])
             /\ Second(told', events[i]) <=> Second(told, events[i])
             /\ \A k \in 1..Len(es) : events[i].id # es[k].id
  <2> DEFINE e == events[i]
  <2>1. e \in Reports /\ events'[i] = e
    BY <1>5, <1>3
  <2>2. CASE e = Complete
    <3>1. \A k \in 1..Len(es) : e.id # es[k].id
      BY <2>2, ReportTypes
    <3> QED BY <2>1, <2>2, <3>1 DEF First, Second
  <2>3. CASE e # Complete
    <3>1. e.id \in Calls /\ told[e.id] \in Seq(Event)
      BY <2>1, <2>3, ReportTypes
    <3>2. told[e.id] # <<>>
      BY <2>3, <3>1, <1>5 DEF EventsCore, First, Second
    <3>3. \A k \in 1..Len(es) : e.id # es[k].id
      BY <3>2
    <3>4. told'[e.id] = told[e.id]
      BY <3>1, <3>3, <1>2
    <3> QED BY <2>1, <3>3, <3>4 DEF First, Second
  <2> QED BY <2>2, <2>3
<1>6. ASSUME NEW i \in 1..Len(events'), new(i)
      PROVE  /\ events'[i] \in Event
             /\ First(told', events'[i]) /\ ~Second(told', events'[i])
             /\ events'[i] = es[i - Len(events)]
  <2> DEFINE e == es[i - Len(events)]
  <2>1. e \in Event /\ events'[i] = e
    BY <1>6
  <2>0. told[e.id] = <<>> /\ told'[e.id] = Append(told[e.id], e)
    BY <2>1, <1>6, <1>2
  <2> HIDE DEF e
  <2>2. told'[e.id] # <<>> /\ Len(told'[e.id]) < 2 /\ told'[e.id][1] = e
    BY <2>0, <2>1
  <2>3. e # Complete
    BY <2>1, ReportTypes
  <2> QED BY <2>1, <2>2, <2>3 DEF First, Second, e
<1>7. ASSUME NEW i \in 1..Len(events'), NEW j \in 1..Len(events'), events'[i] = events'[j]
      PROVE  i = j
  <2>1. CASE old(i) /\ old(j)
    BY <2>1, <1>5, <1>7 DEF EventsCore, Distinct, old
  <2>2. CASE new(i) /\ new(j)
    <3>1. i - Len(events) = j - Len(events)
      BY <2>2, <1>6, <1>7 DEF new
    <3> QED BY <3>1, <1>3
  <2>3. CASE old(i) /\ new(j)
    BY <2>3, <1>5, <1>6, <1>7 DEF new
  <2>4. CASE new(i) /\ old(j)
    BY <2>4, <1>5, <1>6, <1>7 DEF new
  <2> QED BY <1>4, <2>1, <2>2, <2>3, <2>4
<1>8. ASSUME NEW i \in 1..Len(events')
      PROVE  \/ events'[i] = Complete /\ completeSent'
             \/ First(told', events'[i]) \/ Second(told', events'[i])
  <2>1. CASE old(i)
    BY <2>1, <1>5 DEF EventsCore, old
  <2>2. CASE new(i)
    BY <2>2, <1>6
  <2> QED BY <1>4, <2>1, <2>2
<1>9. ASSUME NEW i \in 1..Len(events'), NEW j \in 1..Len(events'),
             First(told', events'[i]), Second(told', events'[j]), events'[i].id = events'[j].id
      PROVE  i < j
  <2>1. old(j)
    BY <1>4, <1>6, <1>9
  <2>2. old(i)
    BY <1>4, <1>5, <1>6, <1>9, <2>1 DEF new
  <2> QED BY <2>1, <2>2, <1>5, <1>9 DEF EventsCore, old
<1> QED BY <1>7, <1>8, <1>9 DEF EventsCore, Distinct

(* A single first report. *)
LEMMA FirstReport ==
  ASSUME events \in Seq(Reports), told \in [Calls -> Seq(Event)], EventsCore,
         NEW e \in Event, Emitted(<<e>>), told[e.id] = <<>>, completeSent' = completeSent
  PROVE  EventsCore'
<1> DEFINE es == <<e>>
<1>1. es \in Seq(Event) /\ Len(es) = 1 /\ es[1] = e /\ Emitted(es)
  OBVIOUS
<1> HIDE DEF es
<1>2. /\ \A i, j \in 1..Len(es) : es[i].id = es[j].id => i = j
      /\ \A i \in 1..Len(es) : told[es[i].id] = <<>>
  BY <1>1
<1> QED BY <1>1, <1>2, FirstReports

(* The late report of a call that was reported. *)
LEMMA SecondReport ==
  ASSUME events \in Seq(Reports), told \in [Calls -> Seq(Event)], EventsCore,
         NEW e \in Event, Emitted(<<e>>), told[e.id] # <<>>, Len(told[e.id]) < 2, e # told[e.id][1],
         completeSent' = completeSent
  PROVE  EventsCore'
<1>1. /\ events' \in Seq(Reports) /\ events' = Append(events, e)
      /\ told' = [told EXCEPT ![e.id] = Append(told[e.id], e)]
  BY ReportTypes, EmittedOne
<1>2. /\ Len(events) \in Nat /\ Len(events') = Len(events) + 1 /\ events'[Len(events) + 1] = e
      /\ \A i \in 1..Len(events) : events'[i] = events[i] /\ events[i] \in Reports
  BY <1>1, AppendFacts, ReportTypes
<1>3. e.id \in Calls /\ e # Complete /\ told[e.id] \in Seq(Event)
  BY ReportTypes
<1>4. /\ told'[e.id] # <<>> /\ told'[e.id][1] = told[e.id][1]
      /\ Len(told'[e.id]) > 1 /\ told'[e.id][2] = e
  <2>1. told'[e.id] = Append(told[e.id], e)
    BY <1>1, <1>3
  <2> QED BY <2>1, <1>3, AppendSecond
<1>5. First(told', e) <=> FALSE
  BY <1>4 DEF First
<1>6. Second(told', e)
  BY <1>3, <1>4 DEF Second
<1>7. ASSUME NEW i \in 1..Len(events)
      PROVE  /\ events'[i] = events[i] /\ events[i] # e
             /\ First(told', events[i]) <=> First(told, events[i])
             /\ Second(told', events[i]) <=> Second(told, events[i])
  <2> DEFINE f == events[i]
  <2>1. f \in Reports /\ events'[i] = f
    BY <1>2
  <2>2. CASE f = Complete
    BY <2>1, <2>2, <1>3 DEF First, Second
  <2>3. CASE f # Complete
    <3>1. f.id \in Calls /\ told[f.id] \in Seq(Event)
      BY <2>1, <2>3, ReportTypes
    <3>2. CASE f.id = e.id
      <4>1. ~Second(told, f)
        BY <3>2 DEF Second
      <4>2. First(told, f)
        BY <4>1, <2>3 DEF EventsCore
      <4>3. f = told[e.id][1]
        BY <4>2, <3>2 DEF First
      <4>4. First(told', f)
        BY <4>3, <3>2, <2>3, <1>4 DEF First
      <4>5. ~Second(told', f)
        BY <4>3, <3>2, <1>4 DEF Second
      <4> QED BY <2>1, <4>1, <4>2, <4>3, <4>4, <4>5
    <3>3. CASE f.id # e.id
      <4>1. told'[f.id] = told[f.id]
        BY <3>1, <3>3, <1>1, <1>3
      <4> QED BY <2>1, <3>3, <4>1 DEF First, Second
    <3> QED BY <3>2, <3>3
  <2> QED BY <2>2, <2>3
<1>8. \A i \in 1..Len(events') : i \in 1..Len(events) \/ i = Len(events) + 1
  BY <1>2
<1>9. ASSUME NEW i \in 1..Len(events'), NEW j \in 1..Len(events'), events'[i] = events'[j]
      PROVE  i = j
  BY <1>9, <1>8, <1>7, <1>2 DEF EventsCore, Distinct
<1>10. ASSUME NEW i \in 1..Len(events')
       PROVE  \/ events'[i] = Complete /\ completeSent'
              \/ First(told', events'[i]) \/ Second(told', events'[i])
  <2>1. CASE i \in 1..Len(events)
    BY <2>1, <1>7 DEF EventsCore
  <2>2. CASE i = Len(events) + 1
    BY <2>2, <1>2, <1>6
  <2> QED BY <1>8, <2>1, <2>2
<1>11. ASSUME NEW i \in 1..Len(events'), NEW j \in 1..Len(events'),
              First(told', events'[i]), Second(told', events'[j]), events'[i].id = events'[j].id
       PROVE  i < j
  <2>1. i \in 1..Len(events)
    BY <1>11, <1>8, <1>2, <1>5
  <2>2. CASE j \in 1..Len(events)
    BY <2>1, <2>2, <1>7, <1>11 DEF EventsCore
  <2>3. CASE j = Len(events) + 1
    BY <2>1, <2>3, <1>2
  <2> QED BY <1>8, <2>2, <2>3
<1> QED BY <1>9, <1>10, <1>11 DEF EventsCore, Distinct

(* The completion, and the arbiter's reading. *)
LEMMA CompletionReport ==
  ASSUME events \in Seq(Reports), told \in [Calls -> Seq(Event)], EventsCore,
         Emitted(<<Complete>>), ~completeSent, completeSent'
  PROVE  EventsCore'
<1>1. /\ events' \in Seq(Reports) /\ events' = Append(events, Complete) /\ told' = told
  BY ReportTypes, EmittedOne
<1>2. /\ Len(events) \in Nat /\ Len(events') = Len(events) + 1
      /\ events'[Len(events) + 1] = Complete
      /\ \A i \in 1..Len(events) : events'[i] = events[i]
  BY <1>1, AppendFacts, ReportTypes
<1>3. \A e : (First(told', e) <=> First(told, e)) /\ (Second(told', e) <=> Second(told, e))
  BY <1>1 DEF First, Second
<1>4. ~First(told, Complete) /\ ~Second(told, Complete)
  BY DEF First, Second
<1>5. \A i \in 1..Len(events') : i \in 1..Len(events) \/ i = Len(events) + 1
  BY <1>2
<1>6. \A i \in 1..Len(events) : events[i] # Complete
  BY <1>4 DEF EventsCore
<1>7. ASSUME NEW i \in 1..Len(events'), NEW j \in 1..Len(events'), events'[i] = events'[j]
      PROVE  i = j
  BY <1>7, <1>5, <1>6, <1>2 DEF EventsCore, Distinct
<1>8. ASSUME NEW i \in 1..Len(events')
      PROVE  \/ events'[i] = Complete /\ completeSent'
             \/ First(told', events'[i]) \/ Second(told', events'[i])
  BY <1>2, <1>3, <1>5 DEF EventsCore
<1>9. ASSUME NEW i \in 1..Len(events'), NEW j \in 1..Len(events'),
             First(told', events'[i]), Second(told', events'[j]), events'[i].id = events'[j].id
      PROVE  i < j
  BY <1>2, <1>3, <1>4, <1>5, <1>9 DEF EventsCore
<1> QED BY <1>7, <1>8, <1>9 DEF EventsCore, Distinct

LEMMA EventRead ==
  ASSUME events \in Seq(Reports), EventsCore, events # <<>>, events' = Tail(events),
         told' = told, completeSent' = completeSent
  PROVE  EventsCore'
<1>1. /\ Len(events') = Len(events) - 1 /\ Len(events) \in Nat /\ Distinct(events')
      /\ \A i \in 1..Len(events') : i + 1 \in 1..Len(events) /\ events'[i] = events[i + 1]
  BY TailFacts DEF EventsCore
<1>2. \A e : (First(told', e) <=> First(told, e)) /\ (Second(told', e) <=> Second(told, e))
  BY DEF First, Second
<1>3. ASSUME NEW i \in 1..Len(events')
      PROVE  \/ events'[i] = Complete /\ completeSent'
             \/ First(told', events'[i]) \/ Second(told', events'[i])
  BY <1>1, <1>2 DEF EventsCore
<1>4. ASSUME NEW i \in 1..Len(events'), NEW j \in 1..Len(events'),
             First(told', events'[i]), Second(told', events'[j]), events'[i].id = events'[j].id
      PROVE  i < j
  <2>1. i + 1 < j + 1
    BY <1>1, <1>2, <1>4 DEF EventsCore
  <2> QED BY <2>1, <1>1
<1> QED BY <1>1, <1>3, <1>4 DEF EventsCore
-----------------------------------------------------------------------------
(***************************************************************************)
(* The steps of the dispatcher.                                            *)
(***************************************************************************)
LEMMA ActiveTypes ==
  /\ \A a \in Actives : /\ a.id \in Calls \cup {None} /\ a.admission \in Admissions
                        /\ a.heard \in BOOLEAN /\ a.resolved \in BOOLEAN
                        /\ a.terminal \in BOOLEAN /\ a.timer \in BOOLEAN
  /\ NoActive \in Actives /\ NoActive.id = None
  BY DEF Actives, NoActive, Admissions

LEMMA SaysFields ==
  ASSUME NEW c, NEW a, NEW late
  PROVE  /\ Says(c, a).id = c /\ Says(c, a).admission = a
         /\ Says(c, a).completed = FALSE /\ Says(c, a).late = FALSE
         /\ Completion(c, a, late).id = c /\ Completion(c, a, late).admission = a
         /\ Completion(c, a, late).completed = TRUE /\ Completion(c, a, late).late = late
  BY DEF Says, Completion

(* The head of the waiting jobs is reported as not admitted. *)
RejectHead(c) ==
  /\ StartDue /\ c = Head(queue)
  /\ queue' = Tail(queue)
  /\ attempt' = [attempt EXCEPT ![c] = "notAdmitted"]
  /\ Emitted(<<Says(c, "notAdmitted")>>)
  /\ UNCHANGED <<ctxDone, active, terminalRequested, completeSent, running, inputs, stopping,
                 providerVars, submitted, starts>>

LEMMA HeadIsIdle ==
  ASSUME DInv, StartDue
  PROVE  LET c == Head(queue) IN
         /\ c \in Calls /\ InQueue(c) /\ ~Entered(c) /\ WasSubmitted(c)
         /\ wire[c] = "idle" /\ told[c] = <<>> /\ ~Started(c)
         /\ attempt[c] \in {"pending", "notAdmitted"}
         /\ fact[c] = "none" /\ reply[c] = "none"
         /\ active = NoActive /\ ~terminalRequested /\ ~completeSent
<1> DEFINE c == Head(queue)
<1>1. c \in Calls /\ In(c, queue)
  BY TailFacts DEF DInv, DispatcherTypeOK, StartDue
<1> HIDE DEF c
<1>2. InQueue(c) /\ InLine(c)
  BY <1>1 DEF InQueue, InLine
<1>3. ~Entered(c) /\ WasSubmitted(c) /\ wire[c] = "idle" /\ told[c] = <<>>
  BY <1>1, <1>2 DEF DInv, LineInv
<1>4. /\ ~Started(c) /\ attempt[c] \in {"pending", "notAdmitted"}
      /\ fact[c] = "none" /\ reply[c] = "none"
  BY <1>1, <1>3 DEF DInv, ProviderInv
<1>5. active = NoActive /\ ~terminalRequested
  BY DEF DInv, ActiveInv, StartDue
<1>6. ~completeSent
  BY <1>5 DEF DInv, EventsInv
<1> QED BY <1>1, <1>2, <1>3, <1>4, <1>5, <1>6 DEF c

LEMMA SkipsReject ==
  ASSUME DInv, SkipCancelled \/ SkipSealed \/ StartUnavailable
  PROVE  RejectHead(Head(queue))
<1> DEFINE c == Head(queue)
<1>1. StartDue
  BY DEF SkipCancelled, SkipSealed, StartUnavailable
<1>2. c \in Calls /\ attempt[c] \in {"pending", "notAdmitted"} /\ attempt \in [Calls -> Admissions]
  BY <1>1, HeadIsIdle DEF DInv, DispatcherTypeOK
<1> HIDE DEF c
<1>3. CASE SkipCancelled
  <2>1. Sealed(c) = "notAdmitted"
    BY <1>2 DEF Sealed
  <2> QED BY <1>3, <2>1 DEF SkipCancelled, RejectHead, c
<1>4. CASE SkipSealed
  <2>1. attempt[c] = "notAdmitted"
    BY <1>2, <1>4 DEF SkipSealed, BeginsStart, c
  <2>2. attempt' = attempt
    BY <1>4 DEF SkipSealed, attemptVars
  <2>3. attempt' = [attempt EXCEPT ![c] = "notAdmitted"]
    BY <1>2, <2>1, <2>2
  <2> QED BY <1>4, <2>1, <2>3 DEF SkipSealed, RejectHead, attemptVars, c
<1>5. CASE StartUnavailable
  BY <1>5 DEF StartUnavailable, RejectHead, c
<1> QED BY <1>3, <1>4, <1>5

LEMMA RejectKeeps ==
  ASSUME DInv, NEW c, RejectHead(c)
  PROVE  DInv'
<1> DEFINE e == Says(c, "notAdmitted")
<1>1. /\ c \in Calls /\ InQueue(c) /\ ~Entered(c) /\ WasSubmitted(c)
      /\ wire[c] = "idle" /\ told[c] = <<>> /\ ~Started(c)
      /\ active = NoActive /\ ~terminalRequested /\ ~completeSent
  BY HeadIsIdle DEF RejectHead
<1>2. /\ c = Head(queue) /\ queue # <<>> /\ queue' = Tail(queue) /\ attempt' = [attempt EXCEPT ![c] = "notAdmitted"]
      /\ Emitted(<<e>>)
      /\ ctxDone' = ctxDone /\ active' = active /\ terminalRequested' = terminalRequested
      /\ completeSent' = completeSent /\ running' = running /\ inputs' = inputs
      /\ stopping' = stopping /\ wire' = wire /\ fact' = fact /\ reply' = reply
      /\ submitted' = submitted /\ starts' = starts
  BY DEF RejectHead, StartDue, providerVars
<1>3. e \in Event /\ e.id = c /\ e.admission = "notAdmitted" /\ ~e.completed /\ ~e.late
  <2>1. "notAdmitted" \in Admissions
    BY DEF Admissions
  <2>2. e \in Event
    BY <1>1, <2>1, ReportTypes
  <2> QED BY <2>2 DEF Says
<1> HIDE DEF e
<1>4. queue \in Seq(Calls) /\ events \in Seq(Reports) /\ told \in [Calls -> Seq(Event)]
  BY DEF DInv, DispatcherTypeOK
<1>5. /\ events' \in Seq(Reports) /\ Len(events') <= EventCap
      /\ told' \in [Calls -> Seq(Event)]
      /\ told' = [told EXCEPT ![c] = Append(<<>>, e)]
  BY <1>1, <1>2, <1>3, <1>4, ReportTypes, EmittedOne
<1>6. /\ told'[c] # <<>> /\ Len(told'[c]) >= 1 /\ Len(told'[c]) < 2 /\ told'[c][1] = e
      /\ \A d \in Calls : d # c => told'[d] = told[d]
  BY <1>1, <1>3, <1>4, <1>5, AppendFirst
<1>7. /\ queue' \in Seq(Calls) /\ Distinct(queue') /\ ~InQueue(c)'
      /\ \A d : InQueue(d)' => InQueue(d)
      /\ \A d : InQueue(d) => InQueue(d)' \/ d = c
      /\ Sorted(submitted, queue')
  BY <1>2, <1>4, TailFacts, SortedTail DEF DInv, LineInv, OrderInv, InQueue
<1>8. /\ \A x : Entered(x)' <=> Entered(x)
      /\ \A d : Started(d)' <=> Started(d)
      /\ \A d : WasSubmitted(d)' <=> WasSubmitted(d)
  BY <1>2 DEF Entered, Started, WasSubmitted
<1>9. \A d : /\ InLine(d)' => InLine(d) /\ d # c
             /\ InLine(d) => InLine(d)' \/ d = c
  BY <1>1, <1>7, <1>8 DEF InLine
<1>10. DispatcherTypeOK'
  BY <1>1, <1>2, <1>5, <1>7 DEF DInv, DispatcherTypeOK, Admissions
<1>11. LineInv'
  BY <1>1, <1>2, <1>6, <1>7, <1>8, <1>9 DEF DInv, LineInv
<1>12. OrderInv'
  <2>1. /\ Sorted(submitted', starts') /\ Sorted(submitted', queue')
        /\ Sorted(submitted', inputs')
    BY <1>2, <1>7 DEF DInv, OrderInv
  <2>2. \A x, y \in Calls : Started(x)' /\ InLine(y)' => Before(submitted', x, y)
    BY <1>2, <1>8, <1>9 DEF DInv, OrderInv
  <2>3. \A x, y \in Calls : InQueue(x)' /\ Entered(y)' => Before(submitted', x, y)
    BY <1>2, <1>7, <1>8 DEF DInv, OrderInv
  <2>4. ASSUME NEW i \in 1..Len(starts)
        PROVE  told'[starts[i]] # <<>>
    <3>1. starts[i] # c /\ starts[i] \in Calls
      BY <1>1 DEF Started, In, DInv, DispatcherTypeOK
    <3>2. told[starts[i]] # <<>>
      BY <1>1, <3>1, ReportTypes, ActiveTypes DEF DInv, OrderInv
    <3> QED BY <3>1, <3>2, <1>6
  <2> QED BY <1>2, <2>1, <2>2, <2>3, <2>4 DEF OrderInv
<1>13. ProviderInv'
  BY <1>1, <1>2, <1>8 DEF DInv, ProviderInv, DispatcherTypeOK
<1>14. ActiveInv'
  BY <1>1, <1>2 DEF DInv, ActiveInv, NoActive
<1>15. ToldInv'
  <2>1. \A d \in Calls : ToldCovers(d) /\ ToldTwice(d) /\ ToldTrue(d)
    BY DEF DInv, ToldInv
  <2>2. ASSUME NEW d \in Calls PROVE ToldCovers(d)'
    BY <2>1, <1>1, <1>2, <1>6, <1>8, <1>9 DEF ToldCovers, DInv, DispatcherTypeOK
  <2>3. ASSUME NEW d \in Calls PROVE ToldTwice(d)'
    BY <2>1, <1>1, <1>2, <1>6 DEF ToldTwice
  <2>4. ASSUME NEW d \in Calls PROVE ToldTrue(d)'
    BY <2>1, <1>1, <1>2, <1>3, <1>6 DEF ToldTrue
  <2> QED BY <2>2, <2>3, <2>4 DEF ToldInv
<1>16. EventsInv'
  BY <1>1, <1>2, <1>3, <1>4, FirstReport DEF DInv, EventsInv
<1> QED BY <1>10, <1>11, <1>12, <1>13, <1>14, <1>15, <1>16 DEF DInv
LEMMA InputTaken ==
  ASSUME DInv, NEW x, x = Head(inputs), inputs # <<>>, inputs' = Tail(inputs)
  PROVE  /\ x \in Items /\ Entered(x) /\ ~Entered(x)'
         /\ inputs' \in Seq(Items) /\ Len(inputs') <= InputCap /\ Distinct(inputs')
         /\ \A y : Entered(y)' => Entered(y)
         /\ \A y : Entered(y) => Entered(y)' \/ y = x
         /\ Sorted(submitted, inputs')
         /\ \A y \in Calls : x \in Calls /\ Entered(y)' => Before(submitted, x, y)
<1>1. /\ inputs \in Seq(Items) /\ Len(inputs) <= InputCap /\ Distinct(inputs)
      /\ Sorted(submitted, inputs) /\ InputCap \in Nat
  BY DispatcherAssumption DEF DInv, DispatcherTypeOK, LineInv, OrderInv
<1>2. \A y : (Entered(y) <=> In(y, inputs)) /\ (Entered(y)' <=> In(y, inputs'))
  BY DEF Entered, In
<1>3. /\ x \in Items /\ In(x, inputs) /\ ~In(x, inputs')
      /\ inputs' \in Seq(Items) /\ Len(inputs') = Len(inputs) - 1 /\ Distinct(inputs')
      /\ \A y : In(y, inputs') => In(y, inputs)
      /\ \A y : In(y, inputs) => In(y, inputs') \/ y = x
  BY <1>1, TailFacts
<1>4. /\ Sorted(submitted, inputs')
      /\ \A y \in Calls : x \in Calls /\ In(y, inputs') => Before(submitted, x, y)
  BY <1>1, SortedTail
<1> QED BY <1>1, <1>2, <1>3, <1>4

LEMMA InputPut ==
  ASSUME DInv, NEW x \in Items, Put(x), ~Entered(x)
  PROVE  /\ inputs' \in Seq(Items) /\ Len(inputs') <= InputCap /\ Distinct(inputs')
         /\ inputs' = Append(inputs, x) /\ inputs \in Seq(Items)
         /\ \A y : Entered(y)' <=> Entered(y) \/ y = x
<1>1. /\ inputs \in Seq(Items) /\ Distinct(inputs) /\ InputCap \in Nat
  BY DispatcherAssumption DEF DInv, DispatcherTypeOK, LineInv
<1>2. \A y : (Entered(y) <=> In(y, inputs)) /\ (Entered(y)' <=> In(y, inputs'))
  BY DEF Entered, In
<1>3. inputs' = Append(inputs, x) /\ Len(inputs) < InputCap
  BY DEF Put
<1>4. /\ inputs' \in Seq(Items) /\ Len(inputs') = Len(inputs) + 1 /\ Len(inputs) \in Nat
      /\ \A y : In(y, inputs') <=> In(y, inputs) \/ y = x
      /\ Distinct(inputs')
  BY <1>1, <1>2, <1>3, AppendFacts
<1> QED BY <1>1, <1>2, <1>3, <1>4

(* A line that is left alone, seen from the next state. *)
LEMMA SameLine ==
  /\ inputs' = inputs => \A x : Entered(x)' <=> Entered(x)
  /\ queue' = queue => \A x : InQueue(x)' <=> InQueue(x)
  /\ starts' = starts => \A x : Started(x)' <=> Started(x)
  /\ submitted' = submitted => \A x : WasSubmitted(x)' <=> WasSubmitted(x)
  /\ inputs' = inputs /\ queue' = queue => \A x : InLine(x)' <=> InLine(x)
  /\ events' = events /\ told' = told /\ completeSent' = completeSent =>
       (EventsCore' <=> EventsCore)
<1>1. inputs' = inputs => \A x : Entered(x)' <=> Entered(x)
  BY DEF Entered
<1>2. queue' = queue => \A x : InQueue(x)' <=> InQueue(x)
  BY DEF InQueue
<1>3. starts' = starts => \A x : Started(x)' <=> Started(x)
  BY DEF Started
<1>4. submitted' = submitted => \A x : WasSubmitted(x)' <=> WasSubmitted(x)
  BY DEF WasSubmitted
<1>5. inputs' = inputs /\ queue' = queue => \A x : InLine(x)' <=> InLine(x)
  BY <1>1, <1>2 DEF InLine
<1>6. events' = events /\ told' = told /\ completeSent' = completeSent =>
        (EventsCore' <=> EventsCore)
  BY DEF EventsCore
<1> QED BY <1>1, <1>2, <1>3, <1>4, <1>5, <1>6

LEMMA StartKeeps ==
  ASSUME DInv, NEW c, c = Head(queue), Start
  PROVE  DInv'
<1>1. /\ c \in Calls /\ InQueue(c) /\ ~Entered(c) /\ WasSubmitted(c) /\ InLine(c)
      /\ wire[c] = "idle" /\ told[c] = <<>> /\ ~Started(c)
      /\ fact[c] = "none" /\ reply[c] = "none"
      /\ active = NoActive /\ ~terminalRequested /\ ~completeSent
  BY HeadIsIdle DEF Start, InLine
<1>2. /\ queue # <<>> /\ queue' = Tail(queue)
      /\ attempt' = [attempt EXCEPT ![c] = "pendingWriter"]
      /\ active' = [NoActive EXCEPT !.id = c, !.admission = "pendingWriter"]
      /\ wire' = [wire EXCEPT ![c] = "started"] /\ starts' = Append(starts, c)
      /\ ctxDone' = ctxDone /\ terminalRequested' = terminalRequested
      /\ completeSent' = completeSent /\ running' = running /\ inputs' = inputs
      /\ events' = events /\ stopping' = stopping /\ fact' = fact /\ reply' = reply
      /\ submitted' = submitted /\ told' = told
  BY DEF Start, StartDue, channelVars
<1>3. /\ active' \in Actives /\ active'.id = c /\ active'.admission = "pendingWriter"
      /\ ~active'.heard /\ ~active'.resolved /\ ~active'.terminal /\ ~active'.timer
      /\ c # None
  BY <1>1, <1>2, DispatcherAssumption DEF NoActive, Actives, Admissions
<1>4. queue \in Seq(Calls) /\ starts \in Seq(Calls) /\ inputs \in Seq(Items)
  BY DEF DInv, DispatcherTypeOK
<1>5. /\ queue' \in Seq(Calls) /\ Distinct(queue') /\ ~InQueue(c)'
      /\ \A d : InQueue(d)' => InQueue(d)
      /\ \A d : InQueue(d) => InQueue(d)' \/ d = c
      /\ Sorted(submitted, queue')
      /\ \A d \in Calls : InQueue(d)' => Before(submitted, c, d)
  BY <1>1, <1>2, <1>4, TailFacts, SortedTail DEF DInv, LineInv, OrderInv, InQueue
<1>6. /\ starts' \in Seq(Calls) /\ \A d : Started(d)' <=> Started(d) \/ d = c
      /\ Len(starts') = Len(starts) + 1 /\ starts'[Len(starts) + 1] = c
      /\ \A i \in 1..Len(starts) : starts'[i] = starts[i]
  BY <1>1, <1>2, <1>4, AppendFacts DEF Started
<1>7. /\ \A x : Entered(x)' <=> Entered(x)
      /\ \A d : WasSubmitted(d)' <=> WasSubmitted(d)
  BY <1>2, SameLine
<1>8. \A d : /\ InLine(d)' => InLine(d) /\ d # c
             /\ InLine(d) => InLine(d)' \/ d = c
  BY <1>1, <1>5, <1>7 DEF InLine
<1>9. DispatcherTypeOK'
  BY <1>1, <1>2, <1>3, <1>5, <1>6 DEF DInv, DispatcherTypeOK, Admissions
<1>10. LineInv'
  BY <1>1, <1>2, <1>5, <1>7, <1>8 DEF DInv, LineInv, DispatcherTypeOK
<1>11. OrderInv'
  <2>1. Sorted(submitted', starts')
    <3>1. \A y \in Calls : In(y, starts) => Before(submitted, y, c)
      BY <1>1 DEF DInv, OrderInv, Started
    <3> QED BY <1>1, <1>2, <1>4, <3>1, SortedAppend DEF DInv, OrderInv
  <2>2. ASSUME NEW x \in Calls, NEW y \in Calls, Started(x)', InLine(y)'
        PROVE  Before(submitted', x, y)
    <3>1. CASE x = c
      BY <1>1, <1>2, <1>5, <1>7, <2>2, <3>1 DEF DInv, OrderInv, InLine
    <3>2. CASE x # c
      BY <1>2, <1>6, <1>8, <2>2, <3>2 DEF DInv, OrderInv
    <3> QED BY <3>1, <3>2
  <2>3. \A x, y \in Calls : InQueue(x)' /\ Entered(y)' => Before(submitted', x, y)
    BY <1>2, <1>5, <1>7 DEF DInv, OrderInv
  <2>4. ASSUME NEW i \in 1..Len(starts')
        PROVE  told'[starts'[i]] # <<>> \/ (active'.id = starts'[i] /\ i = Len(starts'))
    <3>1. CASE i \in 1..Len(starts)
      <4>1. starts'[i] = starts[i] /\ starts[i] \in Calls
        BY <3>1, <1>4, <1>6
      <4>2. active.id # starts[i]
        BY <4>1, <1>1, ActiveTypes, DispatcherAssumption
      <4> QED BY <3>1, <4>1, <4>2, <1>2 DEF DInv, OrderInv
    <3>2. CASE i = Len(starts) + 1
      BY <3>2, <1>3, <1>6
    <3> QED BY <3>1, <3>2, <1>4, <1>6
  <2> QED BY <1>2, <1>5, <2>1, <2>2, <2>3, <2>4 DEF OrderInv, DInv
<1>12. ProviderInv'
  <2>1. \A d \in Calls : reply[d] = "none"
    BY <1>1, ActiveTypes, DispatcherAssumption DEF DInv, ProviderInv
  <2>2. /\ attempt \in [Calls -> Admissions]
        /\ wire \in [Calls -> {"idle", "started", "written", "refused"}]
    BY DEF DInv, DispatcherTypeOK
  <2>3. ProviderInv
    BY DEF DInv
  <2>4. ASSUME NEW d \in Calls, d # c
        PROVE  /\ wire'[d] = wire[d] /\ attempt'[d] = attempt[d] /\ fact'[d] = fact[d]
               /\ reply'[d] = "none" /\ (Started(d)' <=> Started(d))
               /\ (WasSubmitted(d)' <=> WasSubmitted(d))
    BY <1>2, <1>6, <1>7, <2>1, <2>2, <2>4
  <2>5. /\ wire'[c] = "started" /\ attempt'[c] = "pendingWriter" /\ fact'[c] = "none"
        /\ reply'[c] = "none" /\ Started(c)' /\ WasSubmitted(c)'
    BY <1>1, <1>2, <1>6, <1>7, <2>2
  <2> QED BY <2>1, <2>3, <2>4, <2>5 DEF ProviderInv
<1>13. ActiveInv'
  BY <1>1, <1>2, <1>3 DEF DInv, ActiveInv, DispatcherTypeOK
<1>14. ToldInv'
  <2>1. \A d \in Calls : ToldCovers(d) /\ ToldTwice(d) /\ ToldTrue(d)
    BY DEF DInv, ToldInv
  <2>2. ASSUME NEW d \in Calls PROVE ToldCovers(d)'
    <3>1. attempt'[d] = IF d = c THEN "pendingWriter" ELSE attempt[d]
      BY <1>1, <1>2 DEF DInv, DispatcherTypeOK
    <3>2. active.id # d
      BY <1>1, ActiveTypes, DispatcherAssumption
    <3> QED BY <3>1, <3>2, <2>1, <1>2, <1>3, <1>7, <1>8 DEF ToldCovers
  <2>3. ASSUME NEW d \in Calls PROVE ToldTwice(d)'
    BY <2>1, <1>1, <1>2 DEF ToldTwice
  <2>4. ASSUME NEW d \in Calls PROVE ToldTrue(d)'
    <3>1. CASE d = c
      BY <3>1, <1>1, <1>2 DEF ToldTrue
    <3>2. CASE d # c
      <4>1. told'[d] = told[d] /\ wire'[d] = wire[d] /\ active'.id # d
        BY <3>2, <1>1, <1>2, <1>3 DEF DInv, DispatcherTypeOK
      <4>2. ToldTrue(d)
        BY <2>1
      <4> QED BY <4>1, <4>2 DEF ToldTrue
    <3> QED BY <3>1, <3>2
  <2> QED BY <2>2, <2>3, <2>4 DEF ToldInv
<1>15. EventsInv'
  BY <1>1, <1>2, SameLine DEF DInv, EventsInv
<1> QED BY <1>9, <1>10, <1>11, <1>12, <1>13, <1>14, <1>15 DEF DInv
(* A job taken after the terminal is refused, one taken before it waits. *)
LEMMA JobFacts ==
  ASSUME DInv, NEW c, c = Head(inputs), inputs # <<>>, c \in Calls
  PROVE  /\ Entered(c) /\ InLine(c) /\ ~InQueue(c) /\ WasSubmitted(c) /\ wire[c] = "idle"
         /\ told[c] = <<>> /\ ~Started(c) /\ reply[c] = "none" /\ active.id # c
<1>1. Entered(c)
  <2>1. In(c, inputs)
    BY TailFacts DEF DInv, DispatcherTypeOK
  <2> QED BY <2>1 DEF Entered, In
<1>2. InLine(c) /\ ~InQueue(c) /\ WasSubmitted(c) /\ wire[c] = "idle" /\ told[c] = <<>>
  BY <1>1 DEF DInv, LineInv, InLine
<1>3. ~Started(c) /\ reply[c] = "none"
  BY <1>2 DEF DInv, ProviderInv
<1>4. active.id # c
  BY <1>2, DispatcherAssumption DEF DInv, ActiveInv
<1> QED BY <1>1, <1>2, <1>3, <1>4

LEMMA TakeJobKeeps ==
  ASSUME DInv, NEW c, c = Head(inputs), TakeJob
  PROVE  DInv'
<1>1. /\ c \in Calls /\ Entered(c) /\ InLine(c) /\ ~InQueue(c) /\ WasSubmitted(c)
      /\ wire[c] = "idle" /\ told[c] = <<>> /\ ~Started(c)
      /\ reply[c] = "none" /\ active.id # c
  BY JobFacts DEF TakeJob
<1>2. /\ inputs # <<>> /\ inputs' = Tail(inputs)
      /\ ctxDone' = ctxDone /\ active' = active /\ terminalRequested' = terminalRequested
      /\ completeSent' = completeSent /\ running' = running
      /\ stopping' = stopping /\ wire' = wire /\ fact' = fact /\ reply' = reply
      /\ submitted' = submitted /\ starts' = starts
  BY DEF TakeJob, providerVars
<1>3. /\ queue \in Seq(Calls) /\ events \in Seq(Reports) /\ told \in [Calls -> Seq(Event)]
      /\ attempt \in [Calls -> Admissions]
  BY DEF DInv, DispatcherTypeOK
<1>4. /\ inputs' \in Seq(Items) /\ Len(inputs') <= InputCap /\ Distinct(inputs')
      /\ \A y : Entered(y)' => Entered(y) /\ y # c
      /\ \A y : Entered(y) => Entered(y)' \/ y = c
      /\ Sorted(submitted, inputs')
      /\ \A y \in Calls : Entered(y)' => Before(submitted, c, y)
  BY <1>1, <1>2, InputTaken
<1>5. /\ \A x : Started(x)' <=> Started(x)
      /\ \A x : WasSubmitted(x)' <=> WasSubmitted(x)
  BY <1>2, SameLine
<1>6. \A d \in Calls : ToldCovers(d) /\ ToldTwice(d) /\ ToldTrue(d)
  BY DEF DInv, ToldInv
<1>7. CASE terminalRequested
  <2> DEFINE e == Says(c, "notAdmitted")
  <2>1. /\ queue' = queue /\ Emitted(<<e>>)
        /\ attempt' = [attempt EXCEPT ![c] = "notAdmitted"]
    BY <1>7 DEF TakeJob
  <2>2. e \in Event /\ e.id = c /\ e.admission = "notAdmitted" /\ ~e.completed /\ ~e.late
    <3>1. "notAdmitted" \in Admissions
      BY DEF Admissions
    <3>2. e \in Event
      BY <1>1, <3>1, ReportTypes
    <3> QED BY <3>2 DEF Says
  <2> HIDE DEF e
  <2>3. /\ events' \in Seq(Reports) /\ Len(events') <= EventCap
        /\ told' \in [Calls -> Seq(Event)]
        /\ told' = [told EXCEPT ![c] = Append(<<>>, e)]
    BY <1>1, <1>3, <2>1, <2>2, ReportTypes, EmittedOne
  <2>4. /\ told'[c] # <<>> /\ Len(told'[c]) >= 1 /\ Len(told'[c]) < 2 /\ told'[c][1] = e
        /\ \A d \in Calls : d # c => told'[d] = told[d]
    BY <1>1, <1>3, <2>2, <2>3, AppendFirst
  <2>5. \A x : InQueue(x)' <=> InQueue(x)
    BY <2>1, SameLine
  <2>6. \A d : /\ InLine(d)' => InLine(d) /\ d # c
               /\ InLine(d) => InLine(d)' \/ d = c
    BY <1>1, <1>4, <2>5 DEF InLine
  <2>7. DispatcherTypeOK'
    BY <1>1, <1>2, <1>4, <2>1, <2>3 DEF DInv, DispatcherTypeOK, Admissions
  <2>8. LineInv'
    BY <1>1, <1>2, <1>4, <1>5, <2>1, <2>4, <2>5, <2>6 DEF DInv, LineInv
  <2>9. OrderInv'
    <3>1. \A x, y \in Calls : Started(x)' /\ InLine(y)' => Before(submitted', x, y)
      BY <1>2, <1>5, <2>6 DEF DInv, OrderInv
    <3>2. \A x, y \in Calls : InQueue(x)' /\ Entered(y)' => Before(submitted', x, y)
      BY <1>2, <1>4, <2>5 DEF DInv, OrderInv
    <3>3. ASSUME NEW i \in 1..Len(starts)
          PROVE  told'[starts[i]] # <<>> \/ (active.id = starts[i] /\ i = Len(starts))
      <4>1. starts[i] \in Calls
        BY DEF DInv, DispatcherTypeOK
      <4> QED BY <4>1, <2>4 DEF DInv, OrderInv
    <3> QED BY <1>2, <1>4, <2>1, <3>1, <3>2, <3>3 DEF DInv, OrderInv
  <2>10. ProviderInv'
    BY <1>1, <1>2, <1>3, <1>5, <2>1 DEF DInv, ProviderInv
  <2>11. ActiveInv'
    <3>1. active.id # None => active.id \in Calls /\ told'[active.id] = told[active.id]
      BY <1>1, <2>4, ActiveTypes DEF DInv, DispatcherTypeOK
    <3> QED BY <1>2, <3>1 DEF DInv, ActiveInv
  <2>12. ToldInv'
    <3>1. ASSUME NEW d \in Calls PROVE ToldCovers(d)'
      <4>1. attempt'[d] = IF d = c THEN "notAdmitted" ELSE attempt[d]
        BY <1>1, <1>3, <2>1
      <4> QED BY <4>1, <1>1, <1>2, <1>5, <1>6, <2>4, <2>6 DEF ToldCovers
    <3>2. ASSUME NEW d \in Calls PROVE ToldTwice(d)'
      BY <1>1, <1>2, <1>6, <2>4 DEF ToldTwice
    <3>3. ASSUME NEW d \in Calls PROVE ToldTrue(d)'
      BY <1>1, <1>2, <1>6, <2>2, <2>4 DEF ToldTrue
    <3> QED BY <3>1, <3>2, <3>3 DEF ToldInv
  <2>13. EventsInv'
    BY <1>1, <1>2, <1>3, <2>1, <2>2, FirstReport DEF DInv, EventsInv
  <2> QED BY <2>7, <2>8, <2>9, <2>10, <2>11, <2>12, <2>13 DEF DInv
<1>8. CASE ~terminalRequested
  <2>1. /\ queue' = Append(queue, c)
        /\ attempt' = attempt /\ events' = events /\ told' = told
    BY <1>8 DEF TakeJob
  <2>2. /\ queue' \in Seq(Calls) /\ Distinct(queue')
        /\ \A d : InQueue(d)' <=> InQueue(d) \/ d = c
        /\ Sorted(submitted, queue')
    <3>1. \A y \in Calls : In(y, queue) => Before(submitted, y, c)
      BY <1>1 DEF DInv, OrderInv, InQueue
    <3>2. Sorted(submitted, queue')
      BY <1>1, <1>3, <2>1, <3>1, SortedAppend DEF DInv, OrderInv
    <3> QED BY <1>1, <1>3, <2>1, <3>2, AppendFacts DEF DInv, LineInv, InQueue
  <2>3. \A d \in Calls : InLine(d)' <=> InLine(d)
    BY <1>1, <1>4, <2>2 DEF InLine
  <2>4. DispatcherTypeOK'
    BY <1>2, <1>4, <2>1, <2>2 DEF DInv, DispatcherTypeOK
  <2>5. LineInv'
    BY <1>1, <1>2, <1>4, <1>5, <1>8, <2>1, <2>2, <2>3 DEF DInv, LineInv
  <2>6. OrderInv'
    <3>1. \A x, y \in Calls : Started(x)' /\ InLine(y)' => Before(submitted', x, y)
      BY <1>2, <1>5, <2>3 DEF DInv, OrderInv
    <3>2. \A x, y \in Calls : InQueue(x)' /\ Entered(y)' => Before(submitted', x, y)
      BY <1>2, <1>4, <2>2 DEF DInv, OrderInv
    <3> QED BY <1>2, <1>4, <2>1, <2>2, <3>1, <3>2 DEF DInv, OrderInv
  <2>7. ProviderInv'
    BY <1>2, <1>5, <2>1 DEF DInv, ProviderInv
  <2>8. ActiveInv'
    BY <1>2, <2>1 DEF DInv, ActiveInv
  <2>9. ToldInv'
    BY <1>2, <1>5, <1>6, <2>1, <2>3 DEF ToldInv, ToldCovers, ToldTwice, ToldTrue
  <2>10. EventsInv'
    BY <1>2, <2>1, SameLine DEF DInv, EventsInv
  <2> QED BY <2>4, <2>5, <2>6, <2>7, <2>8, <2>9, <2>10 DEF DInv
<1> QED BY <1>7, <1>8

(* The loop reports completion. *)
LEMMA ReportCompleteKeeps ==
  ASSUME DInv, ReportComplete
  PROVE  DInv'
<1>1. /\ CompleteDue /\ Emitted(<<Complete>>) /\ completeSent' = TRUE
      /\ ctxDone' = ctxDone /\ attempt' = attempt /\ queue' = queue /\ active' = active
      /\ terminalRequested' = terminalRequested /\ running' = running /\ inputs' = inputs
      /\ stopping' = stopping /\ wire' = wire /\ fact' = fact /\ reply' = reply
      /\ submitted' = submitted /\ starts' = starts
  BY DEF ReportComplete, attemptVars, providerVars
<1>2. events \in Seq(Reports) /\ told \in [Calls -> Seq(Event)]
  BY DEF DInv, DispatcherTypeOK
<1>3. events' \in Seq(Reports) /\ Len(events') <= EventCap /\ told' = told
  BY <1>1, <1>2, ReportTypes, EmittedOne
<1>4. /\ \A x : Entered(x)' <=> Entered(x)
      /\ \A x : InQueue(x)' <=> InQueue(x)
      /\ \A x : InLine(x)' <=> InLine(x)
      /\ \A x : Started(x)' <=> Started(x)
      /\ \A x : WasSubmitted(x)' <=> WasSubmitted(x)
  BY <1>1, SameLine
<1>5. DispatcherTypeOK'
  BY <1>1, <1>2, <1>3 DEF DInv, DispatcherTypeOK
<1>6. LineInv'
  BY <1>1, <1>3, <1>4 DEF DInv, LineInv
<1>7. OrderInv'
  BY <1>1, <1>3, <1>4 DEF DInv, OrderInv
<1>8. ProviderInv'
  BY <1>1, <1>3, <1>4 DEF DInv, ProviderInv
<1>9. ActiveInv'
  BY <1>1, <1>3 DEF DInv, ActiveInv
<1>10. ToldInv'
  BY <1>1, <1>3, <1>4 DEF DInv, ToldInv, ToldCovers, ToldTwice, ToldTrue
<1>11. EventsInv'
  <2>1. EventsCore'
    BY <1>1, <1>2, CompletionReport DEF DInv, EventsInv, CompleteDue
  <2> QED BY <1>1, <2>1 DEF EventsInv, CompleteDue
<1> QED BY <1>5, <1>6, <1>7, <1>8, <1>9, <1>10, <1>11 DEF DInv
(* Markers come and go on the line of inputs; nothing else moves. *)
LEMMA MarkerKeeps ==
  ASSUME DInv, NEW x \in {"terminal", "stop"},
         \/ inputs # <<>> /\ x = Head(inputs) /\ inputs' = Tail(inputs)
         \/ Put(x) /\ ~Entered(x) /\ (x = "terminal" => ~terminalRequested),
         running' \in BOOLEAN,
         UNCHANGED <<attemptVars, queue, active, terminalRequested, completeSent, events,
                     stopping, providerVars, historyVars>>
  PROVE  DInv'
<1>1. /\ ctxDone' = ctxDone /\ attempt' = attempt /\ queue' = queue /\ active' = active
      /\ terminalRequested' = terminalRequested /\ completeSent' = completeSent
      /\ events' = events /\ stopping' = stopping
      /\ wire' = wire /\ fact' = fact /\ reply' = reply
      /\ submitted' = submitted /\ told' = told /\ starts' = starts
  BY DEF attemptVars, providerVars, historyVars
<1>2. x \in Items /\ x \notin Calls
  BY ItemTypes
<1>3. /\ inputs' \in Seq(Items) /\ Len(inputs') <= InputCap /\ Distinct(inputs')
      /\ Sorted(submitted, inputs')
      /\ \A y \in Calls : Entered(y)' <=> Entered(y)
      /\ Entered("terminal")' => ~terminalRequested
  <2>1. CASE inputs # <<>> /\ x = Head(inputs) /\ inputs' = Tail(inputs)
    <3>1. /\ inputs' \in Seq(Items) /\ Len(inputs') <= InputCap /\ Distinct(inputs')
          /\ Sorted(submitted, inputs')
          /\ \A y : Entered(y)' => Entered(y)
          /\ \A y : Entered(y) => Entered(y)' \/ y = x
      BY <2>1, InputTaken
    <3> QED BY <3>1, <1>2 DEF DInv, LineInv
  <2>2. CASE Put(x) /\ ~Entered(x) /\ (x = "terminal" => ~terminalRequested)
    <3>1. /\ inputs' \in Seq(Items) /\ Len(inputs') <= InputCap /\ Distinct(inputs')
          /\ inputs' = Append(inputs, x) /\ inputs \in Seq(Items)
          /\ \A y : Entered(y)' <=> Entered(y) \/ y = x
      BY <2>2, <1>2, InputPut
    <3>2. Sorted(submitted, inputs')
      BY <3>1, <1>2, SortedAppend DEF DInv, OrderInv
    <3> QED BY <3>1, <3>2, <2>2, <1>2 DEF DInv, LineInv
  <2> QED BY <2>1, <2>2
<1>4. /\ \A d : InQueue(d)' <=> InQueue(d)
      /\ \A d : Started(d)' <=> Started(d)
      /\ \A d : WasSubmitted(d)' <=> WasSubmitted(d)
  BY <1>1, SameLine
<1>5. \A d \in Calls : InLine(d)' <=> InLine(d)
  BY <1>3, <1>4 DEF InLine
<1>6. DispatcherTypeOK'
  BY <1>1, <1>3 DEF DInv, DispatcherTypeOK
<1>7. LineInv'
  BY <1>1, <1>3, <1>4, <1>5 DEF DInv, LineInv
<1>8. OrderInv'
  BY <1>1, <1>3, <1>4, <1>5 DEF DInv, OrderInv
<1>9. ProviderInv' /\ ActiveInv'
  BY <1>1, <1>4 DEF DInv, ProviderInv, ActiveInv
<1>10. ToldInv'
  BY <1>1, <1>4, <1>5 DEF DInv, ToldInv, ToldCovers, ToldTwice, ToldTrue
<1>11. EventsInv'
  BY <1>1, SameLine DEF DInv, EventsInv
<1> QED BY <1>6, <1>7, <1>8, <1>9, <1>10, <1>11 DEF DInv

(* A step that leaves the lines, the reports and the active call alone. *)
LEMMA AsideFacts ==
  ASSUME DInv, UNCHANGED <<loopVars, inputs, historyVars>>, events' = events \/ events' = Tail(events)
  PROVE  /\ LineInv /\ wire' = wire => LineInv'
         /\ OrderInv'
         /\ active' = active /\ terminalRequested' = terminalRequested
         /\ completeSent' = completeSent /\ queue' = queue /\ running' = running
         /\ inputs' = inputs /\ submitted' = submitted /\ told' = told /\ starts' = starts
         /\ \A x : InLine(x)' <=> InLine(x)
         /\ \A x : Started(x)' <=> Started(x)
         /\ \A x : WasSubmitted(x)' <=> WasSubmitted(x)
<1>1. /\ active' = active /\ terminalRequested' = terminalRequested
      /\ completeSent' = completeSent /\ queue' = queue /\ running' = running
      /\ inputs' = inputs /\ submitted' = submitted /\ told' = told /\ starts' = starts
  BY DEF loopVars, historyVars
<1>2. /\ \A x : Entered(x)' <=> Entered(x)
      /\ \A x : InQueue(x)' <=> InQueue(x)
      /\ \A x : InLine(x)' <=> InLine(x)
      /\ \A x : Started(x)' <=> Started(x)
      /\ \A x : WasSubmitted(x)' <=> WasSubmitted(x)
  BY <1>1, SameLine
<1>3. LineInv /\ wire' = wire => LineInv'
  BY <1>1, <1>2 DEF LineInv
<1>4. OrderInv'
  BY <1>1, <1>2 DEF DInv, OrderInv
<1> QED BY <1>1, <1>2, <1>3, <1>4

LEMMA SealKeeps ==
  ASSUME DInv, NEW c \in Calls, attempt' = [attempt EXCEPT ![c] = Sealed(c)],
         UNCHANGED <<ctxDone, loopVars, channelVars, providerVars, historyVars>>
  PROVE  DInv'
<1>1. /\ active' = active /\ terminalRequested' = terminalRequested
      /\ completeSent' = completeSent /\ queue' = queue /\ running' = running
      /\ inputs' = inputs /\ submitted' = submitted /\ told' = told /\ starts' = starts
      /\ ctxDone' = ctxDone /\ events' = events /\ stopping' = stopping
      /\ wire' = wire /\ fact' = fact /\ reply' = reply
  BY DEF loopVars, historyVars, channelVars, providerVars
<1>2. /\ OrderInv' /\ LineInv'
      /\ \A x : InLine(x)' <=> InLine(x)
      /\ \A x : Started(x)' <=> Started(x)
      /\ \A x : WasSubmitted(x)' <=> WasSubmitted(x)
  BY <1>1, AsideFacts DEF DInv
<1>3. attempt \in [Calls -> Admissions]
  BY DEF DInv, DispatcherTypeOK
<1>4. \A d \in Calls :
        attempt'[d] = IF d = c /\ attempt[d] = "pending" THEN "notAdmitted" ELSE attempt[d]
  BY <1>3 DEF Sealed
<1>5. attempt' \in [Calls -> Admissions]
  BY <1>3, <1>4 DEF Sealed, Admissions
<1>6. DispatcherTypeOK'
  BY <1>1, <1>5 DEF DInv, DispatcherTypeOK
<1>7. ProviderInv'
  BY <1>1, <1>2, <1>4 DEF DInv, ProviderInv
<1>8. ActiveInv'
  BY <1>1 DEF DInv, ActiveInv
<1>9. ToldInv'
  BY <1>1, <1>2, <1>4 DEF DInv, ToldInv, ToldCovers, ToldTwice, ToldTrue
<1>10. EventsInv'
  BY <1>1, SameLine DEF DInv, EventsInv
<1> QED BY <1>2, <1>6, <1>7, <1>8, <1>9, <1>10 DEF DInv

(* The end of a context, a read of the arbiter, its call of stop. *)
LEMMA ArbiterKeeps ==
  ASSUME DInv, UNCHANGED <<attempt, loopVars, inputs, providerVars, historyVars>>,
         ctxDone' \subseteq Calls, stopping' \in BOOLEAN,
         events' = events \/ (events # <<>> /\ events' = Tail(events))
  PROVE  DInv'
<1>1. /\ active' = active /\ terminalRequested' = terminalRequested
      /\ completeSent' = completeSent /\ queue' = queue /\ running' = running
      /\ inputs' = inputs /\ submitted' = submitted /\ told' = told /\ starts' = starts
      /\ attempt' = attempt /\ wire' = wire /\ fact' = fact /\ reply' = reply
  BY DEF loopVars, historyVars, providerVars
<1>2. /\ OrderInv' /\ LineInv'
      /\ \A x : InLine(x)' <=> InLine(x)
      /\ \A x : Started(x)' <=> Started(x)
      /\ \A x : WasSubmitted(x)' <=> WasSubmitted(x)
  BY <1>1, AsideFacts DEF DInv
<1>3. events \in Seq(Reports) /\ Len(events) <= EventCap /\ EventCap \in Nat
  BY DispatcherAssumption DEF DInv, DispatcherTypeOK
<1>4. events' \in Seq(Reports) /\ Len(events') <= EventCap
  BY <1>3, TailFacts
<1>5. DispatcherTypeOK'
  BY <1>1, <1>4 DEF DInv, DispatcherTypeOK
<1>6. ProviderInv' /\ ActiveInv'
  BY <1>1, <1>2 DEF DInv, ProviderInv, ActiveInv
<1>7. ToldInv'
  BY <1>1, <1>2 DEF DInv, ToldInv, ToldCovers, ToldTwice, ToldTrue
<1>8. EventsCore'
  BY <1>1, <1>3, SameLine, EventRead DEF DInv, EventsInv
<1>9. EventsInv'
  BY <1>1, <1>8 DEF DInv, EventsInv
<1> QED BY <1>2, <1>5, <1>6, <1>7, <1>9 DEF DInv

LEMMA SubmitKeeps ==
  ASSUME DInv, NEW c \in Calls, Submit(c)
  PROVE  DInv'
<1>1. /\ active' = active /\ terminalRequested' = terminalRequested
      /\ completeSent' = completeSent /\ queue' = queue /\ running' = running
      /\ told' = told /\ starts' = starts /\ events' = events /\ stopping' = stopping
      /\ ctxDone' = ctxDone /\ attempt' = attempt
      /\ wire' = wire /\ fact' = fact /\ reply' = reply
      /\ submitted' = Append(submitted, c) /\ Put(c) /\ ~WasSubmitted(c)
  BY DEF Submit, loopVars, attemptVars, providerVars
<1>2. /\ submitted \in Seq(Calls) /\ inputs \in Seq(Items) /\ c \in Items
      /\ c # "terminal" /\ starts \in Seq(Calls)
  BY ItemTypes DEF DInv, DispatcherTypeOK
<1>3. /\ ~InLine(c) /\ ~Entered(c) /\ wire[c] = "idle" /\ told[c] = <<>> /\ active.id # c
  <2>1. ~InLine(c)
    BY <1>1 DEF DInv, LineInv
  <2>2. wire[c] = "idle"
    BY <1>1 DEF DInv, ProviderInv
  <2>3. told[c] = <<>>
    BY <1>1 DEF DInv, ToldInv, ToldCovers
  <2>4. active.id # c
    BY <2>2, DispatcherAssumption DEF DInv, ActiveInv
  <2> QED BY <2>1, <2>2, <2>3, <2>4 DEF InLine
<1>4. /\ inputs' \in Seq(Items) /\ Len(inputs') <= InputCap /\ Distinct(inputs')
      /\ inputs' = Append(inputs, c)
      /\ \A y : Entered(y)' <=> Entered(y) \/ y = c
  BY <1>1, <1>2, <1>3, InputPut
<1>5. /\ submitted' \in Seq(Calls)
      /\ \A d : WasSubmitted(d)' <=> WasSubmitted(d) \/ d = c
      /\ \A x, y : Before(submitted, x, y) => Before(submitted', x, y)
      /\ \A x : WasSubmitted(x) => Before(submitted', x, c)
      /\ \A s : Sorted(submitted, s) => Sorted(submitted', s)
  <2>1. /\ \A d : WasSubmitted(d) <=> In(d, submitted)
        /\ \A d : WasSubmitted(d)' <=> In(d, submitted')
    BY DEF WasSubmitted, In
  <2> QED BY <2>1, <1>1, <1>2, AppendFacts, BeforeAppend
<1>6. /\ \A d : InQueue(d)' <=> InQueue(d)
      /\ \A d : Started(d)' <=> Started(d)
  BY <1>1, SameLine
<1>7. \A d : InLine(d)' <=> InLine(d) \/ d = c
  BY <1>4, <1>6 DEF InLine
<1>8. \A d \in Calls : InLine(d) \/ Started(d) => WasSubmitted(d)
  BY DEF DInv, LineInv, ProviderInv
<1>9. DispatcherTypeOK'
  BY <1>1, <1>4, <1>5 DEF DInv, DispatcherTypeOK
<1>10. LineInv'
  BY <1>1, <1>2, <1>3, <1>4, <1>5, <1>6, <1>7 DEF DInv, LineInv, InLine
<1>11. OrderInv'
  <2>1. Sorted(submitted', inputs')
    <3>1. \A y \in Calls : In(y, inputs) => Before(submitted', y, c)
      BY <1>5, <1>8 DEF InLine, Entered, In
    <3> QED BY <1>2, <1>4, <1>5, <3>1, SortedAppend DEF DInv, OrderInv
  <2>2. \A x, y \in Calls : Started(x)' /\ InLine(y)' => Before(submitted', x, y)
    BY <1>5, <1>6, <1>7, <1>8 DEF DInv, OrderInv
  <2>3. \A x, y \in Calls : InQueue(x)' /\ Entered(y)' => Before(submitted', x, y)
    BY <1>4, <1>5, <1>6, <1>8 DEF DInv, OrderInv, InLine
  <2>4. Sorted(submitted', starts') /\ Sorted(submitted', queue')
    BY <1>1, <1>5 DEF DInv, OrderInv
  <2> QED BY <1>1, <2>1, <2>2, <2>3, <2>4 DEF DInv, OrderInv
<1>12. ProviderInv' /\ ActiveInv'
  BY <1>1, <1>5, <1>6 DEF DInv, ProviderInv, ActiveInv
<1>13. ToldInv'
  BY <1>1, <1>5, <1>7 DEF DInv, ToldInv, ToldCovers, ToldTwice, ToldTrue
<1>14. EventsInv'
  BY <1>1, SameLine DEF DInv, EventsInv
<1> QED BY <1>9, <1>10, <1>11, <1>12, <1>13, <1>14 DEF DInv

(* The provider. *)
LEMMA ProviderKeeps ==
  ASSUME DInv, Provider
  PROVE  DInv'
<1>1. PICK c \in Calls : \/ \E w \in {"written", "refused"} : Settle(c, w)
                         \/ \E r \in {"admitted", "silent"} : Respond(c, r)
  BY DEF Provider
<1>2. /\ active' = active /\ terminalRequested' = terminalRequested
      /\ completeSent' = completeSent /\ queue' = queue /\ running' = running
      /\ inputs' = inputs /\ submitted' = submitted /\ told' = told /\ starts' = starts
      /\ events' = events /\ stopping' = stopping /\ ctxDone' = ctxDone /\ attempt' = attempt
  BY <1>1 DEF Settle, Respond, attemptVars, loopVars, channelVars, historyVars
<1>3. /\ OrderInv' /\ (wire' = wire => LineInv')
      /\ \A x : InLine(x)' <=> InLine(x)
      /\ \A x : Started(x)' <=> Started(x)
      /\ \A x : WasSubmitted(x)' <=> WasSubmitted(x)
      /\ \A x : Entered(x)' <=> Entered(x)
      /\ \A x : InQueue(x)' <=> InQueue(x)
  BY <1>2, AsideFacts, SameLine DEF DInv, loopVars, historyVars
<1>4. /\ wire \in [Calls -> {"idle", "started", "written", "refused"}]
      /\ fact \in [Calls -> {"none", "true", "false"}]
      /\ reply \in [Calls -> {"none", "admitted", "silent"}]
  BY DEF DInv, DispatcherTypeOK
<1>5. EventsInv'
  BY <1>2, SameLine DEF DInv, EventsInv
<1>6. ASSUME NEW w \in {"written", "refused"}, Settle(c, w) PROVE DInv'
  <2>1. /\ wire[c] = "started" /\ wire' = [wire EXCEPT ![c] = w] /\ reply' = reply
        /\ fact' = IF Async THEN [fact EXCEPT ![c] = IF w = "written" THEN "true" ELSE "false"]
                   ELSE fact
    BY <1>6 DEF Settle
  <2>2. /\ \A d \in Calls : wire'[d] = IF d = c THEN w ELSE wire[d]
        /\ \A d \in Calls : fact'[d] = IF d = c /\ Async
                                       THEN IF w = "written" THEN "true" ELSE "false"
                                       ELSE fact[d]
        /\ fact' \in [Calls -> {"none", "true", "false"}]
        /\ wire' \in [Calls -> {"idle", "started", "written", "refused"}]
    BY <2>1, <1>4
  <2>3. DispatcherTypeOK'
    BY <1>2, <2>1, <2>2 DEF DInv, DispatcherTypeOK
  <2>4. LineInv'
    BY <1>2, <1>3, <2>1, <2>2 DEF DInv, LineInv
  <2>5. ProviderInv'
    BY <1>2, <1>3, <2>1, <2>2 DEF DInv, ProviderInv
  <2>6. ActiveInv'
    <3>1. active.id # None => active.id \in Calls
      BY ActiveTypes DEF DInv, DispatcherTypeOK
    <3> QED BY <3>1, <1>2, <2>1, <2>2 DEF DInv, ActiveInv
  <2>7. ToldInv'
    BY <1>2, <1>3, <2>1, <2>2 DEF DInv, ToldInv, ToldCovers, ToldTwice, ToldTrue
  <2> QED BY <1>3, <1>5, <2>3, <2>4, <2>5, <2>6, <2>7 DEF DInv
<1>7. ASSUME NEW r \in {"admitted", "silent"}, Respond(c, r) PROVE DInv'
  <2>1. /\ wire[c] \in {"written", "refused"} /\ active.id = c /\ reply[c] = "none"
        /\ r = "admitted" => wire[c] = "written"
        /\ r = "silent" => Async \/ wire[c] = "refused"
        /\ reply' = [reply EXCEPT ![c] = r] /\ wire' = wire /\ fact' = fact
    BY <1>7 DEF Respond
  <2>2. /\ \A d \in Calls : reply'[d] = IF d = c THEN r ELSE reply[d]
        /\ reply' \in [Calls -> {"none", "admitted", "silent"}]
    BY <2>1, <1>4
  <2>3. DispatcherTypeOK'
    BY <1>2, <2>1, <2>2 DEF DInv, DispatcherTypeOK
  <2>4. LineInv'
    BY <1>3, <2>1
  <2>5. ProviderInv'
    BY <1>2, <1>3, <2>1, <2>2 DEF DInv, ProviderInv
  <2>6. ActiveInv'
    BY <1>2, <2>1 DEF DInv, ActiveInv
  <2>7. ToldInv'
    BY <1>2, <1>3, <2>1 DEF DInv, ToldInv, ToldCovers, ToldTwice, ToldTrue
  <2> QED BY <1>3, <1>5, <2>3, <2>4, <2>5, <2>6, <2>7 DEF DInv
<1> QED BY <1>1, <1>6, <1>7
(* The active call: something is learnt of it, and at the terminal it is
   reported with what is known. *)
LEMMA ActiveFacts ==
  ASSUME DInv, NEW c, c = active.id, c # None
  PROVE  /\ c \in Calls /\ wire[c] # "idle" /\ ~InLine(c) /\ WasSubmitted(c)
         /\ attempt[c] # "pending" /\ active \in Actives
         /\ active.admission \in Admissions /\ active.admission # "pending"
         /\ active.resolved => terminalRequested /\ told[c] # <<>> /\ Len(told[c]) < 2
                               /\ ~told[c][1].late /\ ~told[c][1].completed
         /\ ~active.resolved => told[c] = <<>> /\ ~completeSent
         /\ \A d \in Calls : Len(told[d]) <= 1
         /\ \A d \in Calls : d # c => reply[d] = "none"
<1>1. c \in Calls /\ active \in Actives /\ active.admission \in Admissions
  BY ActiveTypes DEF DInv, DispatcherTypeOK
<1>2. /\ wire[c] # "idle" /\ active.admission # "pending"
      /\ active.resolved => terminalRequested /\ told[c] # <<>> /\ Len(told[c]) < 2
                            /\ ~told[c][1].late /\ ~told[c][1].completed
      /\ ~active.resolved => told[c] = <<>>
  BY DEF DInv, ActiveInv
<1>3. ~InLine(c) /\ WasSubmitted(c) /\ attempt[c] # "pending"
  BY <1>1, <1>2 DEF DInv, LineInv, ProviderInv
<1>4. ~active.resolved => ~completeSent
  BY DEF DInv, EventsInv
<1>5. ASSUME NEW d \in Calls PROVE Len(told[d]) <= 1
  <2>1. Len(told[d]) \in Nat
    BY DEF DInv, DispatcherTypeOK
  <2>2. ~(Len(told[d]) > 1)
    BY DEF DInv, ToldInv, ToldTwice
  <2> QED BY <2>1, <2>2
<1>6. \A d \in Calls : d # c => reply[d] = "none"
  BY DEF DInv, ProviderInv
<1> QED BY <1>1, <1>2, <1>3, <1>4, <1>5, <1>6

LEMMA EmittedNone ==
  ASSUME events \in Seq(Reports), told \in [Calls -> Seq(Event)], Emitted(<<>>)
  PROVE  events' = events /\ told' = told
<1> DEFINE es == <<>>
<1>1. Emitted(es) /\ events \o es = events
  OBVIOUS
<1>2. \A c : ~\E i \in 1..Len(es) : es[i].id = c
  OBVIOUS
<1> HIDE DEF es
<1>3. told' = [c \in Calls |-> told[c]]
  BY <1>1, <1>2 DEF Emitted
<1> QED BY <1>1, <1>3 DEF Emitted

LEMMA KnownKeeps ==
  ASSUME DInv, NEW c, c = active.id, c # None, ~active.resolved,
         NEW k \in Actives, k.id = c, ~k.resolved, k.admission # "pending",
         k.admission = "admitted" => wire[c] = "written",
         k.admission = "notAdmitted" => wire[c] = "refused",
         k.heard => k.admission # "pendingWriter",
         Async /\ wire[c] \in {"written", "refused"} => k.heard \/ fact'[c] # "none",
         k.terminal = active.terminal, k.timer => k.terminal,
         NEW m \in Admissions, attempt' = [attempt EXCEPT ![c] = m], m # "pending",
         m = "notAdmitted" => wire[c] = "refused",
         fact' = fact \/ fact' = [fact EXCEPT ![c] = "none"],
         \/ active' = k /\ told' = told /\ events' = events
         \/ active' = Resolved(k) /\ k.terminal /\ Emitted(<<Says(c, k.admission)>>),
         UNCHANGED <<ctxDone, queue, terminalRequested, completeSent, running, inputs,
                     stopping, wire, reply, submitted, starts>>
  PROVE  DInv'
<1>1. /\ c \in Calls /\ wire[c] # "idle" /\ ~InLine(c) /\ WasSubmitted(c)
      /\ told[c] = <<>> /\ ~completeSent
  BY ActiveFacts
<1>2. /\ active' \in Actives /\ active'.id = c /\ active'.admission = k.admission
      /\ active'.heard = k.heard /\ active'.terminal = k.terminal
      /\ active'.timer => active'.terminal
  BY DEF Resolved, Actives
<1>3. /\ events \in Seq(Reports) /\ told \in [Calls -> Seq(Event)]
      /\ attempt \in [Calls -> Admissions] /\ fact \in [Calls -> {"none", "true", "false"}]
  BY DEF DInv, DispatcherTypeOK
<1>4. /\ \A d \in Calls : attempt'[d] = IF d = c THEN m ELSE attempt[d]
      /\ \A d \in Calls : fact'[d] \in {fact[d], "none"} /\ (d # c => fact'[d] = fact[d])
      /\ attempt' \in [Calls -> Admissions] /\ fact' \in [Calls -> {"none", "true", "false"}]
  BY <1>3
<1>5. /\ \A x : Entered(x)' <=> Entered(x)
      /\ \A x : InQueue(x)' <=> InQueue(x)
      /\ \A x : InLine(x)' <=> InLine(x)
      /\ \A x : Started(x)' <=> Started(x)
      /\ \A x : WasSubmitted(x)' <=> WasSubmitted(x)
  BY SameLine
<1>6. /\ told' \in [Calls -> Seq(Event)]
      /\ events' \in Seq(Reports) /\ Len(events') <= EventCap
      /\ \A d \in Calls : d # c => told'[d] = told[d]
      /\ EventsCore'
      /\ \/ told'[c] = <<>> /\ ~active'.resolved
         \/ /\ told'[c] # <<>> /\ Len(told'[c]) >= 1 /\ Len(told'[c]) < 2
            /\ told'[c][1].id = c /\ told'[c][1].admission = k.admission
            /\ ~told'[c][1].late /\ ~told'[c][1].completed
            /\ active'.resolved /\ k.terminal
  <2>1. CASE active' = k /\ told' = told /\ events' = events
    BY <2>1, <1>1, <1>3, SameLine DEF DInv, EventsInv, DispatcherTypeOK
  <2>2. CASE active' = Resolved(k) /\ k.terminal /\ Emitted(<<Says(c, k.admission)>>)
    <3> DEFINE e == Says(c, k.admission)
    <3>1. /\ e \in Event /\ e.id = c /\ e.admission = k.admission
          /\ ~e.completed /\ ~e.late /\ Emitted(<<e>>)
      <4>1. k.admission \in Admissions
        BY ActiveTypes
      <4>2. e \in Event
        BY <1>1, <4>1, ReportTypes
      <4> QED BY <2>2, <4>2 DEF Says
    <3>2. active'.resolved
      BY <2>2 DEF Resolved, Actives
    <3> HIDE DEF e
    <3>3. /\ events' \in Seq(Reports) /\ Len(events') <= EventCap
          /\ told' \in [Calls -> Seq(Event)]
          /\ told' = [told EXCEPT ![c] = Append(<<>>, e)]
      BY <1>1, <1>3, <3>1, ReportTypes, EmittedOne
    <3>4. /\ told'[c] # <<>> /\ Len(told'[c]) >= 1 /\ Len(told'[c]) < 2 /\ told'[c][1] = e
          /\ \A d \in Calls : d # c => told'[d] = told[d]
      BY <1>1, <1>3, <3>1, <3>3, AppendFirst
    <3>5. EventsCore'
      BY <1>1, <1>3, <3>1, FirstReport DEF DInv, EventsInv
    <3> QED BY <2>2, <3>1, <3>2, <3>3, <3>4, <3>5
  <2> QED BY <2>1, <2>2
<1>7. DispatcherTypeOK'
  BY <1>2, <1>4, <1>6 DEF DInv, DispatcherTypeOK
<1>8. LineInv'
  BY <1>1, <1>5, <1>6 DEF DInv, LineInv
<1>9. OrderInv'
  <2>1. ASSUME NEW i \in 1..Len(starts)
        PROVE  told'[starts[i]] # <<>> \/ (active'.id = starts[i] /\ i = Len(starts))
    <3>1. starts[i] \in Calls
      BY DEF DInv, DispatcherTypeOK
    <3>2. told[starts[i]] # <<>> \/ (c = starts[i] /\ i = Len(starts))
      BY DEF DInv, OrderInv
    <3>3. CASE starts[i] = c
      <4>1. i = Len(starts)
        BY <3>2, <3>3, <1>1
      <4> QED BY <3>3, <4>1, <1>2
    <3>4. CASE starts[i] # c
      BY <3>1, <3>2, <3>4, <1>6
    <3> QED BY <3>3, <3>4
  <2> QED BY <2>1, <1>5 DEF DInv, OrderInv
<1>10. ProviderInv'
  BY <1>1, <1>2, <1>4, <1>5 DEF DInv, ProviderInv
<1>11. ActiveInv'
  BY <1>1, <1>2, <1>4, <1>6 DEF DInv, ActiveInv
<1>12. ToldInv'
  <2>1. \A d \in Calls : ToldCovers(d) /\ ToldTwice(d) /\ ToldTrue(d)
    BY DEF DInv, ToldInv
  <2>2. ASSUME NEW d \in Calls PROVE ToldCovers(d)'
    BY <2>1, <1>1, <1>2, <1>4, <1>5, <1>6 DEF ToldCovers
  <2>3. ASSUME NEW d \in Calls PROVE ToldTwice(d)'
    <3>1. \A x \in Calls : Len(told'[x]) <= 1
      <4>1. ASSUME NEW x \in Calls PROVE Len(told'[x]) <= 1
        <5>1. CASE x # c
          BY <5>1, <1>6, ActiveFacts
        <5>2. CASE x = c /\ told'[c] = <<>>
          BY <5>2
        <5>3. CASE x = c /\ told'[c] # <<>>
          <6>1. Len(told'[c]) \in Nat /\ Len(told'[c]) < 2
            BY <1>1, <1>6, <5>3
          <6> QED BY <6>1, <5>3
        <5> QED BY <5>1, <5>2, <5>3
      <4> QED BY <4>1
    <3>2. \A x \in Calls : Len(told'[x]) \in Nat
      BY <1>6
    <3>3. \A x \in Calls : ~(Len(told'[x]) > 1) /\ Len(told'[x]) <= 2
      BY <3>1, <3>2
    <3> QED BY <3>3 DEF ToldTwice
  <2>4. ASSUME NEW d \in Calls PROVE ToldTrue(d)'
    <3>1. CASE d # c
      BY <3>1, <2>1, <1>2, <1>6 DEF ToldTrue
    <3>2. CASE d = c
      BY <3>2, <1>1, <1>6 DEF ToldTrue
    <3> QED BY <3>1, <3>2
  <2> QED BY <2>2, <2>3, <2>4 DEF ToldInv
<1>13. EventsInv'
  BY <1>1, <1>6 DEF EventsInv
<1> QED BY <1>7, <1>8, <1>9, <1>10, <1>11, <1>12, <1>13 DEF DInv

LEMMA GraceEndsKeeps ==
  ASSUME DInv, GraceEnds
  PROVE  DInv'
<1> DEFINE c == active.id
<1>1. /\ c # None /\ active.timer /\ ~active.resolved /\ active' = Resolved(active)
      /\ Emitted(<<Says(c, active.admission)>>) /\ attempt' = attempt /\ fact' = fact
      /\ UNCHANGED <<ctxDone, queue, terminalRequested, completeSent, running, inputs,
                     stopping, wire, reply, submitted, starts>>
  BY DEF GraceEnds, attemptVars, providerVars
<1>2. /\ c \in Calls /\ active \in Actives /\ active.admission # "pending"
      /\ attempt[c] # "pending" /\ wire[c] # "idle"
  BY <1>1, ActiveFacts
<1>3. /\ active.admission = "admitted" => wire[c] = "written"
      /\ active.admission = "notAdmitted" => wire[c] = "refused"
      /\ active.heard => active.admission # "pendingWriter"
      /\ Async /\ wire[c] \in {"written", "refused"} => active.heard \/ fact[c] # "none"
      /\ active.timer => active.terminal
  BY <1>1 DEF DInv, ActiveInv
<1>4. /\ attempt \in [Calls -> Admissions]
      /\ attempt[c] = "notAdmitted" => wire[c] = "refused"
  BY <1>2 DEF DInv, DispatcherTypeOK, ProviderInv
<1>5. attempt[c] \in Admissions /\ attempt' = [attempt EXCEPT ![c] = attempt[c]]
  BY <1>1, <1>2, <1>4
<1> QED BY <1>1, <1>2, <1>3, <1>4, <1>5, KnownKeeps

LEMMA TakeFactKeeps ==
  ASSUME DInv, TakeFact
  PROVE  DInv'
<1> DEFINE c == active.id
           known == [active EXCEPT !.admission = FactOf(c), !.heard = TRUE]
           m == Marked(c, FactOf(c))
<1>1. /\ c # None /\ ~active.resolved /\ fact[c] # "none"
      /\ fact' = [fact EXCEPT ![c] = "none"] /\ attempt' = [attempt EXCEPT ![c] = m]
      /\ active' = IF active.terminal /\ ~active.resolved THEN Resolved(known) ELSE known
      /\ Emitted(IF active.terminal /\ ~active.resolved THEN <<Says(c, FactOf(c))>> ELSE <<>>)
      /\ UNCHANGED <<ctxDone, queue, terminalRequested, completeSent, running, inputs,
                     stopping, wire, reply, submitted, starts>>
  BY DEF TakeFact
<1>2. /\ c \in Calls /\ active \in Actives /\ active.admission # "pending"
      /\ attempt[c] # "pending" /\ wire[c] # "idle"
  BY <1>1, ActiveFacts
<1>3. /\ events \in Seq(Reports) /\ told \in [Calls -> Seq(Event)]
      /\ attempt \in [Calls -> Admissions] /\ fact \in [Calls -> {"none", "true", "false"}]
  BY DEF DInv, DispatcherTypeOK
<1>4. /\ FactOf(c) \in {"admitted", "notAdmitted"}
      /\ FactOf(c) = "admitted" => wire[c] = "written"
      /\ FactOf(c) = "notAdmitted" => wire[c] = "refused"
  BY <1>1, <1>2, <1>3 DEF FactOf, DInv, ProviderInv
<1>5. /\ m \in Admissions /\ m # "pending" /\ (m = "notAdmitted" => wire[c] = "refused")
  BY <1>2, <1>4 DEF Marked, Admissions, DInv, ProviderInv
<1>6. /\ known \in Actives /\ known.id = c /\ known.admission = FactOf(c) /\ known.heard
      /\ known.terminal = active.terminal /\ known.timer = active.timer
      /\ known.resolved = active.resolved
  BY <1>2, <1>4 DEF Actives, Admissions
<1>7. known.timer => known.terminal
  BY <1>1, <1>6 DEF DInv, ActiveInv
<1> HIDE DEF known, m
<1>8. \/ active' = known /\ told' = told /\ events' = events
      \/ active' = Resolved(known) /\ known.terminal /\ Emitted(<<Says(c, known.admission)>>)
  <2>1. CASE active.terminal
    BY <2>1, <1>1, <1>6
  <2>2. CASE ~active.terminal
    <3>1. Emitted(<<>>) /\ active' = known
      BY <2>2, <1>1
    <3> QED BY <3>1, <1>3, EmittedNone
  <2> QED BY <2>1, <2>2
<1> QED BY <1>1, <1>2, <1>4, <1>5, <1>6, <1>7, <1>8, KnownKeeps

(* The completion of the active call: its first report, or its late one. *)
LEMMA ReplyFacts ==
  ASSUME DInv, NEW c, c = active.id, c # None, NEW r, r = reply[c], r # "none",
         NEW k, k = Known, NEW a, a = Finished(k, r), NEW m, m = FinishMark(c, k, r)
  PROVE  /\ a \in Admissions
         /\ a = "admitted" => wire[c] = "written"
         /\ a = "notAdmitted" => wire[c] = "refused"
         /\ m \in Admissions /\ m # "pending"
         /\ m = "notAdmitted" => wire[c] = "refused"
<1>1. /\ c \in Calls /\ wire[c] # "idle" /\ attempt[c] # "pending"
      /\ active.admission \in Admissions /\ active.admission # "pending"
  BY ActiveFacts
<1>2. /\ fact[c] \in {"none", "true", "false"} /\ attempt[c] \in Admissions
      /\ r \in {"none", "admitted", "silent"}
      /\ wire[c] \in {"idle", "started", "written", "refused"}
  BY <1>1 DEF DInv, DispatcherTypeOK
<1>3. /\ wire[c] \in {"idle", "started"} => r = "none"
      /\ attempt[c] = "notAdmitted" => wire[c] \in {"idle", "refused"}
      /\ fact[c] = "true" => wire[c] = "written"
      /\ fact[c] = "false" => wire[c] = "refused"
      /\ r = "admitted" => wire[c] = "written"
      /\ r = "silent" => Async \/ wire[c] = "refused"
  BY <1>1 DEF DInv, ProviderInv
<1>4. /\ active.admission = "admitted" => wire[c] = "written"
      /\ active.admission = "notAdmitted" => wire[c] = "refused"
      /\ active.heard => active.admission # "pendingWriter"
      /\ Async /\ wire[c] \in {"written", "refused"} => active.heard \/ fact[c] # "none"
  BY DEF DInv, ActiveInv
<1>5. /\ k \in Admissions /\ k # "pending"
      /\ k = "admitted" => wire[c] = "written"
      /\ k = "notAdmitted" => wire[c] = "refused"
      /\ k = "pendingWriter" => ~Async
  <2>1. CASE Drains
    BY <2>1, <1>2, <1>3 DEF Known, Drains, FactOf, Admissions
  <2>2. CASE ~Drains
    BY <2>2, <1>1, <1>2, <1>3, <1>4 DEF Known, Drains
  <2> QED BY <2>1, <2>2
<1>6. /\ a \in Admissions
      /\ a = "admitted" => wire[c] = "written"
      /\ a = "notAdmitted" => wire[c] = "refused"
  BY <1>2, <1>3, <1>5 DEF Finished, Admissions
<1>7. /\ m \in Admissions /\ m # "pending" /\ (m = "notAdmitted" => wire[c] = "refused")
  <2>1. CASE attempt[c] = "notAdmitted"
    BY <2>1, <1>1, <1>2, <1>3 DEF FinishMark, Marked, Admissions
  <2>2. CASE attempt[c] # "notAdmitted"
    BY <2>2, <1>1, <1>2, <1>3, <1>5 DEF FinishMark, Marked, Admissions
  <2> QED BY <2>1, <2>2
<1> QED BY <1>6, <1>7

LEMMA TakeReplyKeeps ==
  ASSUME DInv, TakeReply
  PROVE  DInv'
<1>1. PICK c, a, m, late :
        /\ c = active.id /\ a = Finished(Known, reply[c]) /\ m = FinishMark(c, Known, reply[c])
        /\ late = (active.resolved \/ c \in ctxDone) /\ late \in BOOLEAN
        /\ c # None /\ reply[c] # "none"
        /\ reply' = [reply EXCEPT ![c] = "none"]
        /\ fact' = IF Drains THEN [fact EXCEPT ![c] = "none"] ELSE fact
        /\ attempt' = [attempt EXCEPT ![c] = m]
        /\ Emitted(<<Completion(c, a, late)>>)
        /\ active' = NoActive
        /\ UNCHANGED <<ctxDone, queue, terminalRequested, completeSent, running, inputs,
                       stopping, wire, submitted, starts>>
  BY DEF TakeReply
<1>2. /\ c \in Calls /\ wire[c] # "idle" /\ ~InLine(c) /\ WasSubmitted(c)
      /\ active.resolved => terminalRequested /\ told[c] # <<>> /\ Len(told[c]) < 2
                            /\ ~told[c][1].late /\ ~told[c][1].completed
      /\ ~active.resolved => told[c] = <<>> /\ ~completeSent
      /\ \A d \in Calls : Len(told[d]) <= 1
      /\ \A d \in Calls : d # c => reply[d] = "none"
  BY <1>1, ActiveFacts
<1>3. /\ a \in Admissions
      /\ a = "admitted" => wire[c] = "written"
      /\ a = "notAdmitted" => wire[c] = "refused"
      /\ m \in Admissions /\ m # "pending"
      /\ m = "notAdmitted" => wire[c] = "refused"
  BY <1>1, ReplyFacts
<1>4. /\ events \in Seq(Reports) /\ told \in [Calls -> Seq(Event)]
      /\ attempt \in [Calls -> Admissions] /\ fact \in [Calls -> {"none", "true", "false"}]
      /\ reply \in [Calls -> {"none", "admitted", "silent"}]
      /\ \A d \in Calls : Len(told[d]) \in Nat
  BY DEF DInv, DispatcherTypeOK
<1>5. PICK e \in Event : /\ e = Completion(c, a, late) /\ e.id = c /\ e.admission = a
                         /\ e.completed /\ e.late = late /\ Emitted(<<e>>)
  <2>1. Completion(c, a, late) \in Event
    BY <1>1, <1>2, <1>3, ReportTypes
  <2> DEFINE f == Completion(c, a, late)
  <2>2. f.id = c /\ f.admission = a /\ f.completed = TRUE /\ f.late = late
    BY DEF Completion
  <2>3. f \in Event /\ Emitted(<<f>>)
    BY <2>1, <1>1
  <2>4. f = Completion(c, a, late)
    OBVIOUS
  <2> HIDE DEF f
  <2> QED BY <2>2, <2>3, <2>4
<1>6. /\ events' \in Seq(Reports) /\ Len(events') <= EventCap
      /\ told' \in [Calls -> Seq(Event)]
      /\ told' = [told EXCEPT ![c] = Append(told[c], e)]
  BY <1>2, <1>4, <1>5, ReportTypes, EmittedOne
<1>7. told'[c] = Append(told[c], e) /\ \A d \in Calls : d # c => told'[d] = told[d]
  BY <1>2, <1>4, <1>6
<1>8. /\ \A d \in Calls : attempt'[d] = IF d = c THEN m ELSE attempt[d]
      /\ \A d \in Calls : fact'[d] \in {fact[d], "none"}
      /\ \A d \in Calls : reply'[d] = "none"
      /\ attempt' \in [Calls -> Admissions] /\ fact' \in [Calls -> {"none", "true", "false"}]
      /\ reply' \in [Calls -> {"none", "admitted", "silent"}]
  BY <1>1, <1>2, <1>3, <1>4
<1>9. /\ \A x : Entered(x)' <=> Entered(x)
      /\ \A x : InQueue(x)' <=> InQueue(x)
      /\ \A x : InLine(x)' <=> InLine(x)
      /\ \A x : Started(x)' <=> Started(x)
      /\ \A x : WasSubmitted(x)' <=> WasSubmitted(x)
  BY <1>1, SameLine
<1>10. active'.id = None /\ active' = NoActive /\ active' \in Actives /\ None \notin Calls
  BY <1>1, ActiveTypes, DispatcherAssumption
<1>11. /\ told'[c] # <<>> /\ Len(told'[c]) <= 2 /\ Len(told'[c]) \in Nat
       /\ Len(told'[c]) > 1 => /\ terminalRequested /\ ~told'[c][1].late /\ told'[c][2].late
       /\ \A i \in 1..Len(told'[c]) :
            told'[c][i] = e \/ (told'[c][i] = told[c][i] /\ i \in 1..Len(told[c]))
       /\ EventsCore'
  <2>1. CASE active.resolved
    <3>1. /\ told'[c] # <<>> /\ Len(told'[c]) > 1 /\ Len(told'[c]) <= 2
          /\ told'[c][1] = told[c][1] /\ told'[c][2] = e
      BY <2>1, <1>2, <1>4, <1>7, AppendSecond
    <3>2. e.late /\ e # told[c][1]
      BY <2>1, <1>1, <1>2, <1>5
    <3>3. EventsCore'
      BY <2>1, <3>2, <1>1, <1>2, <1>4, <1>5, SecondReport DEF DInv, EventsInv
    <3>4. Len(told'[c]) \in Nat /\ Len(told[c]) \in Nat /\ 1 \in 1..Len(told[c])
      BY <2>1, <1>2, <1>4, <1>6
    <3>5. \A i \in 1..Len(told'[c]) : i = 1 \/ i = 2
      BY <3>1, <3>4
    <3> QED BY <2>1, <3>1, <3>2, <3>3, <3>4, <3>5, <1>2
  <2>2. CASE ~active.resolved
    <3>1. /\ told'[c] # <<>> /\ Len(told'[c]) >= 1 /\ Len(told'[c]) < 2 /\ told'[c][1] = e
      BY <2>2, <1>2, <1>7, AppendFirst
    <3>2. EventsCore'
      BY <2>2, <1>1, <1>2, <1>4, <1>5, FirstReport DEF DInv, EventsInv
    <3>3. Len(told'[c]) \in Nat
      BY <1>2, <1>6
    <3>4. \A i \in 1..Len(told'[c]) : i = 1
      BY <3>1, <3>3
    <3> QED BY <3>1, <3>2, <3>3, <3>4
  <2> QED BY <2>1, <2>2
<1>12. DispatcherTypeOK'
  BY <1>1, <1>6, <1>8, <1>10 DEF DInv, DispatcherTypeOK
<1>13. LineInv'
  BY <1>1, <1>2, <1>7, <1>9 DEF DInv, LineInv
<1>14. OrderInv'
  <2>1. ASSUME NEW i \in 1..Len(starts) PROVE told'[starts[i]] # <<>>
    <3>1. starts[i] \in Calls
      BY DEF DInv, DispatcherTypeOK
    <3>2. told[starts[i]] # <<>> \/ c = starts[i]
      BY <1>1 DEF DInv, OrderInv
    <3> QED BY <3>1, <3>2, <1>7, <1>11
  <2> QED BY <2>1, <1>1, <1>9 DEF DInv, OrderInv
<1>15. ProviderInv'
  BY <1>1, <1>2, <1>3, <1>8, <1>9 DEF DInv, ProviderInv
<1>16. ActiveInv'
  BY <1>10 DEF ActiveInv
<1>17. ToldInv'
  <2>1. \A d \in Calls : ToldCovers(d) /\ ToldTwice(d) /\ ToldTrue(d)
    BY DEF DInv, ToldInv
  <2>2. ASSUME NEW d \in Calls PROVE ToldCovers(d)'
    <3>1. ToldCovers(d)
      BY <2>1
    <3>2. CASE d = c
      BY <3>1, <3>2, <1>1, <1>2, <1>3, <1>7, <1>8, <1>9, <1>11 DEF ToldCovers
    <3>3. CASE d # c
      BY <3>1, <3>3, <1>1, <1>2, <1>3, <1>7, <1>8, <1>9, <1>11 DEF ToldCovers
    <3> QED BY <3>2, <3>3
  <2>3. ASSUME NEW d \in Calls PROVE ToldTwice(d)'
    <3>1. \A x \in Calls : x # c => ~(Len(told'[x]) > 1) /\ Len(told'[x]) <= 2
      BY <1>2, <1>4, <1>7
    <3>2. CASE d = c
      BY <3>1, <3>2, <1>1, <1>10, <1>11 DEF ToldTwice
    <3>3. CASE d # c
      BY <3>1, <3>3 DEF ToldTwice
    <3> QED BY <3>2, <3>3
  <2>4. ASSUME NEW d \in Calls PROVE ToldTrue(d)'
    <3>1. CASE d # c
      <4>1. told'[d] = told[d] /\ wire'[d] = wire[d]
        BY <3>1, <1>1, <1>7
      <4>2. active'.id # d
        BY <1>10
      <4>3. ToldTrue(d)
        BY <2>1
      <4> QED BY <4>1, <4>2, <4>3 DEF ToldTrue
    <3>2. ASSUME d = c, NEW i \in 1..Len(told'[c])
          PROVE  /\ told'[c][i].id = c
                 /\ told'[c][i].completed => active'.id # c
                 /\ told'[c][i].admission = "notAdmitted" => wire'[c] \in {"idle", "refused"}
                 /\ told'[c][i].admission = "admitted" => wire'[c] = "written"
      <4>1. CASE told'[c][i] = e
        BY <4>1, <1>1, <1>2, <1>3, <1>5, <1>10
      <4>2. CASE told'[c][i] = told[c][i] /\ i \in 1..Len(told[c])
        <5>1. ToldTrue(c)
          BY <2>1, <1>2
        <5> QED BY <4>2, <5>1, <1>1, <1>2, <1>10 DEF ToldTrue
      <4> QED BY <4>1, <4>2, <1>11
    <3> QED BY <3>1, <3>2 DEF ToldTrue
  <2> QED BY <2>2, <2>3, <2>4 DEF ToldInv
<1>18. EventsInv'
  BY <1>1, <1>10, <1>11 DEF DInv, EventsInv
<1> QED BY <1>12, <1>13, <1>14, <1>15, <1>16, <1>17, <1>18 DEF DInv

(* The batch of resolveQueued and resolveTerminalActive: a refusal for every
   waiting job, and perhaps one event more. *)
LEMMA BatchFacts ==
  ASSUME NEW q \in Seq(Calls), Distinct(q), NEW t \in Seq(Event), Len(t) <= 1,
         \A i \in 1..Len(t) : ~In(t[i].id, q)
  PROVE  LET es == [i \in 1..Len(q) |-> Says(q[i], "notAdmitted")] \o t IN
         /\ es \in Seq(Event)
         /\ \A i, j \in 1..Len(es) : es[i].id = es[j].id => i = j
         /\ \A c : In(c, q) => \E k \in 1..Len(es) : es[k] = Says(c, "notAdmitted")
         /\ \A i \in 1..Len(t) : \E k \in 1..Len(es) : es[k] = t[i]
         /\ \A k \in 1..Len(es) : \/ \E i \in 1..Len(q) : es[k] = Says(q[i], "notAdmitted")
                                  \/ \E i \in 1..Len(t) : es[k] = t[i]
<1> DEFINE r == [i \in 1..Len(q) |-> Says(q[i], "notAdmitted")]
           es == r \o t
<1>1. Len(q) \in Nat /\ \A i \in 1..Len(q) : q[i] \in Calls
  OBVIOUS
<1>2. \A i \in 1..Len(q) : Says(q[i], "notAdmitted") \in Event
  BY <1>1, ReportTypes DEF Admissions
<1>0. r \in Seq(Event)
  BY <1>1, <1>2
<1>3. Len(r) = Len(q)
  BY <1>1, <1>2
<1>4. \A i \in 1..Len(q) : r[i] = Says(q[i], "notAdmitted") /\ r[i].id = q[i]
  BY DEF Says
<1> HIDE DEF r
<1>6. /\ es \in Seq(Event)
      /\ Len(es) = Len(r) + Len(t)
      /\ \A i \in 1..Len(r) : es[i] = r[i]
      /\ \A i \in 1..Len(t) : Len(r) + i \in 1..Len(es) /\ es[Len(r) + i] = t[i]
      /\ \A i \in 1..Len(es) :
           i \in 1..Len(r) \/ (i - Len(r) \in 1..Len(t) /\ es[i] = t[i - Len(r)])
  BY ONLY <1>0, t \in Seq(Event), ConcatFacts
<1> HIDE DEF es
<1>7. Len(t) \in Nat /\ \A i, j \in 1..Len(t) : i = j
  OBVIOUS
<1>8. ASSUME NEW i \in 1..Len(es), NEW j \in 1..Len(es), es[i].id = es[j].id
      PROVE  i = j
  <2>1. CASE i \in 1..Len(r) /\ j \in 1..Len(r)
    <3>1. es[i].id = q[i] /\ es[j].id = q[j]
      BY <2>1, <1>3, <1>4, <1>6
    <3>2. i \in 1..Len(q) /\ j \in 1..Len(q)
      BY ONLY <2>1, <1>3
    <3>3. q[i] = q[j]
      BY ONLY <1>8, <3>1
    <3> QED BY <3>2, <3>3 DEF Distinct
  <2>2. CASE i \in 1..Len(r) /\ j - Len(r) \in 1..Len(t) /\ es[j] = t[j - Len(r)]
    <3>1. es[i].id = q[i] /\ i \in 1..Len(q)
      BY <2>2, <1>3, <1>4, <1>6
    <3>2. In(t[j - Len(r)].id, q)
      BY <3>1, <2>2, <1>8 DEF In
    <3> QED BY <3>2, <2>2
  <2>3. CASE j \in 1..Len(r) /\ i - Len(r) \in 1..Len(t) /\ es[i] = t[i - Len(r)]
    <3>1. es[j].id = q[j] /\ j \in 1..Len(q)
      BY <2>3, <1>3, <1>4, <1>6
    <3>2. In(t[i - Len(r)].id, q)
      BY <3>1, <2>3, <1>8 DEF In
    <3> QED BY <3>2, <2>3
  <2>4. CASE i - Len(r) \in 1..Len(t) /\ j - Len(r) \in 1..Len(t)
    <3>1. i - Len(r) = j - Len(r)
      BY <2>4, <1>7
    <3> QED BY <3>1, <1>1, <1>3
  <2> QED BY <1>6, <2>1, <2>2, <2>3, <2>4
<1>9. ASSUME NEW c, In(c, q) PROVE \E k \in 1..Len(es) : es[k] = Says(c, "notAdmitted")
  <2>1. PICK i \in 1..Len(q) : q[i] = c
    BY <1>9 DEF In
  <2>2. i \in 1..Len(es) /\ es[i] = Says(c, "notAdmitted")
    BY <2>1, <1>1, <1>3, <1>4, <1>6, <1>7
  <2> QED BY <2>2
<1>10. ASSUME NEW k \in 1..Len(es)
       PROVE  \/ \E i \in 1..Len(q) : es[k] = Says(q[i], "notAdmitted")
              \/ \E i \in 1..Len(t) : es[k] = t[i]
  BY <1>3, <1>4, <1>6
<1> QED BY <1>6, <1>8, <1>9, <1>10 DEF es, r

(* The terminal marker: every waiting job is reported not admitted, the active
   call with what is known of it unless it is still at the writer. *)
LEMMA TerminalReports ==
  ASSUME DInv, TakeTerminal, NEW now \in BOOLEAN,
         now = (active.id # None /\ ~active.resolved /\ active.admission # "pendingWriter")
  PROVE  /\ events' \in Seq(Reports) /\ Len(events') <= EventCap
         /\ told' \in [Calls -> Seq(Event)] /\ EventsCore'
         /\ \A c \in Calls : ~InQueue(c) /\ ~(now /\ c = active.id) => told'[c] = told[c]
         /\ \A c \in Calls : InQueue(c) =>
              told[c] = <<>> /\ told'[c] = Append(<<>>, Says(c, "notAdmitted"))
         /\ now => told[active.id] = <<>>
                   /\ told'[active.id] = Append(<<>>, Says(active.id, active.admission))
         /\ \A e : In(e, events') => In(e, events) \/ told[e.id] = <<>>
<1> DEFINE t == IF now THEN <<Says(active.id, active.admission)>> ELSE <<>>
           es == [i \in 1..Len(queue) |-> Says(queue[i], "notAdmitted")] \o t
<1>1. Emitted(es) /\ completeSent' = completeSent
  BY DEF TakeTerminal
<1>2. /\ events \in Seq(Reports) /\ told \in [Calls -> Seq(Event)] /\ queue \in Seq(Calls)
  BY DEF DInv, DispatcherTypeOK
<1>3. Distinct(queue) /\ EventsCore
  BY DEF DInv, LineInv, EventsInv
<1>4. now => /\ active.id \in Calls /\ told[active.id] = <<>> /\ ~InQueue(active.id)
             /\ Says(active.id, active.admission) \in Event
  <2> HAVE now
  <2>1. active.id \in Calls /\ told[active.id] = <<>> /\ ~InLine(active.id)
        /\ active.admission \in Admissions
    BY ActiveFacts
  <2> QED BY <2>1, ReportTypes DEF InLine
<1>5. /\ t \in Seq(Event) /\ Len(t) <= 1
      /\ \A i \in 1..Len(t) : now /\ i = 1 /\ t[i] = Says(active.id, active.admission)
      /\ now => 1 \in 1..Len(t) /\ t[1] = Says(active.id, active.admission)
  <2>1. CASE now
    BY <2>1, <1>4
  <2>2. CASE ~now
    BY <2>2
  <2> QED BY <2>1, <2>2
<1>6. \A x, a : Says(x, a).id = x
  BY DEF Says
<1> HIDE DEF t
<1>7. \A i \in 1..Len(t) : ~In(t[i].id, queue)
  BY <1>4, <1>5, <1>6 DEF InQueue
<1>9. /\ es \in Seq(Event)
      /\ \A i, j \in 1..Len(es) : es[i].id = es[j].id => i = j
      /\ \A c : In(c, queue) => \E k \in 1..Len(es) : es[k] = Says(c, "notAdmitted")
      /\ \A i \in 1..Len(t) : \E k \in 1..Len(es) : es[k] = t[i]
      /\ \A k \in 1..Len(es) : \/ \E i \in 1..Len(queue) : es[k] = Says(queue[i], "notAdmitted")
                              \/ \E i \in 1..Len(t) : es[k] = t[i]
  BY ONLY <1>2, <1>3, <1>5, <1>7, BatchFacts
<1> HIDE DEF es
<1>11. \A i \in 1..Len(es) : (InQueue(es[i].id) \/ (now /\ es[i].id = active.id)) /\ told[es[i].id] = <<>>
  <2> TAKE i \in 1..Len(es)
  <2>1. CASE \E k \in 1..Len(queue) : es[i] = Says(queue[k], "notAdmitted")
    <3>1. PICK k \in 1..Len(queue) : es[i] = Says(queue[k], "notAdmitted")
      BY <2>1
    <3>2. es[i].id = queue[k] /\ queue[k] \in Calls /\ InQueue(queue[k])
      BY <3>1, <1>2, <1>6 DEF InQueue, In
    <3> QED BY <3>2 DEF DInv, LineInv, InLine
  <2>2. CASE \E k \in 1..Len(t) : es[i] = t[k]
    BY <2>2, <1>4, <1>5, <1>6
  <2> QED BY <2>1, <2>2, <1>9
<1>12. es \in Seq(Reports)
  BY <1>9, ReportTypes
<1>13. /\ events' \in Seq(Reports) /\ Len(events') <= EventCap
       /\ told' \in [Calls -> Seq(Event)]
       /\ \A i \in 1..Len(es) : es[i] \in Event => told'[es[i].id] = Append(told[es[i].id], es[i])
       /\ \A c \in Calls : (\A i \in 1..Len(es) : es[i].id # c) => told'[c] = told[c]
  BY <1>2, <1>9, <1>1, <1>12, EmittedFacts
<1>14. EventsCore'
  BY <1>1, <1>2, <1>3, <1>9, <1>11, FirstReports
<1>15. ASSUME NEW k \in 1..Len(es), NEW c, NEW a, es[k] = Says(c, a)
       PROVE  told[c] = <<>> /\ told'[c] = Append(<<>>, Says(c, a))
  <2>1. es[k] \in Event /\ es[k].id = c
    BY <1>9, <1>15, <1>6
  <2> QED BY <2>1, <1>11, <1>13, <1>15
<1>16. ASSUME NEW c \in Calls, ~InQueue(c), ~(now /\ c = active.id) PROVE told'[c] = told[c]
  BY <1>11, <1>13, <1>16
<1>17. ASSUME NEW c \in Calls, InQueue(c)
       PROVE  told[c] = <<>> /\ told'[c] = Append(<<>>, Says(c, "notAdmitted"))
  BY <1>9, <1>15, <1>17 DEF InQueue
<1>18. ASSUME now
       PROVE  told[active.id] = <<>>
              /\ told'[active.id] = Append(<<>>, Says(active.id, active.admission))
  <2>1. PICK k \in 1..Len(es) : es[k] = Says(active.id, active.admission)
    BY <1>5, <1>9, <1>18
  <2> QED BY <2>1, <1>15
<1>19. ASSUME NEW e, In(e, events') PROVE In(e, events) \/ told[e.id] = <<>>
  <2>1. events' = events \o es
    BY <1>1 DEF Emitted
  <2>2. PICK k \in 1..Len(events \o es) : (events \o es)[k] = e
    BY <1>19, <2>1 DEF In
  <2>3. \A i \in 1..Len(events) : (events \o es)[i] = events[i]
    BY <1>2, <1>12, ConcatFacts
  <2>4. k \in 1..Len(events) \/ (k - Len(events) \in 1..Len(es) /\ e = es[k - Len(events)])
    BY <1>2, <1>12, <2>2, ConcatFacts
  <2> QED BY <2>2, <2>3, <2>4, <1>11 DEF In
<1> QED BY <1>13, <1>14, <1>16, <1>17, <1>18, <1>19

LEMMA TakeTerminalKeeps ==
  ASSUME DInv, TakeTerminal
  PROVE  DInv'
<1> DEFINE c == active.id
           n == active.id # None /\ ~active.resolved /\ active.admission # "pendingWriter"
<1>1. PICK now : now = n
  OBVIOUS
<1>2. /\ inputs # <<>> /\ "terminal" = Head(inputs) /\ inputs' = Tail(inputs)
      /\ terminalRequested' = TRUE /\ queue' = <<>>
      /\ active' = IF c = None THEN active
                   ELSE IF now THEN Resolved([active EXCEPT !.terminal = TRUE])
                   ELSE [active EXCEPT !.terminal = TRUE,
                                       !.timer = active.admission = "pendingWriter"]
      /\ UNCHANGED <<ctxDone, completeSent, running, stopping, wire, fact, reply,
                     submitted, starts>>
  BY <1>1 DEF TakeTerminal, providerVars
<1>3. /\ events \in Seq(Reports) /\ told \in [Calls -> Seq(Event)] /\ queue \in Seq(Calls)
      /\ attempt \in [Calls -> Admissions] /\ active \in Actives
      /\ wire \in [Calls -> {"idle", "started", "written", "refused"}]
      /\ terminalRequested \in BOOLEAN
  BY DEF DInv, DispatcherTypeOK
<1>4. attempt' = [d \in Calls |-> IF InQueue(d) THEN "notAdmitted"
                                  ELSE IF now /\ d = c THEN Marked(c, active.admission)
                                  ELSE attempt[d]]
  <2>1. attempt' = [d \in Calls |-> IF d \in {queue[i] : i \in 1..Len(queue)} THEN "notAdmitted"
                                    ELSE IF now /\ d = c THEN ResolvedMark(active)
                                    ELSE attempt[d]]
    BY <1>1 DEF TakeTerminal
  <2>2. \A d \in Calls : d \in {queue[i] : i \in 1..Len(queue)} <=> InQueue(d)
    BY DEF InQueue, In
  <2>3. now => ResolvedMark(active) = Marked(c, active.admission)
    BY <1>1 DEF ResolvedMark
  <2> QED BY <2>1, <2>2, <2>3
<1>5. /\ Entered("terminal") /\ ~Entered("terminal")'
      /\ inputs' \in Seq(Items) /\ Len(inputs') <= InputCap /\ Distinct(inputs')
      /\ Sorted(submitted, inputs')
      /\ \A y \in Calls : Entered(y)' <=> Entered(y)
  BY <1>2, InputTaken, ItemTypes
<1>6. ~terminalRequested /\ ~completeSent
  BY <1>5 DEF DInv, LineInv, EventsInv
<1>7. /\ now \in BOOLEAN /\ (now => c \in Calls)
      /\ c # None => /\ c \in Calls /\ ~InLine(c) /\ WasSubmitted(c) /\ attempt[c] # "pending"
                     /\ wire[c] # "idle" /\ told[c] = <<>>
                     /\ active.admission \in Admissions /\ active.admission # "pending"
                     /\ ~active.terminal /\ ~active.resolved /\ ~active.timer
  <2>1. c # None => ~active.resolved /\ ~active.terminal /\ ~active.timer
    BY <1>3, <1>6, ActiveTypes DEF DInv, ActiveInv
  <2> QED BY <1>1, <2>1, ActiveFacts
<1> HIDE DEF n
<1>8. /\ events' \in Seq(Reports) /\ Len(events') <= EventCap
      /\ told' \in [Calls -> Seq(Event)] /\ EventsCore'
      /\ \A d \in Calls : ~InQueue(d) /\ ~(now /\ d = c) => told'[d] = told[d]
      /\ \A d \in Calls : InQueue(d) =>
           told[d] = <<>> /\ told'[d] = Append(<<>>, Says(d, "notAdmitted"))
      /\ now => told[c] = <<>> /\ told'[c] = Append(<<>>, Says(c, active.admission))
  BY <1>1, <1>7, TerminalReports DEF n
<1> DEFINE said(d) == InQueue(d) \/ (now /\ d = c)
           what(d) == IF InQueue(d) THEN "notAdmitted" ELSE active.admission
<1>9. ASSUME NEW d \in Calls, said(d)
      PROVE  /\ told[d] = <<>> /\ told'[d] # <<>> /\ Len(told'[d]) >= 1 /\ Len(told'[d]) < 2
             /\ told'[d][1].id = d /\ told'[d][1].admission = what(d)
             /\ ~told'[d][1].completed /\ ~told'[d][1].late
  <2>1. told[d] = <<>> /\ told'[d] = Append(<<>>, Says(d, what(d)))
    BY <1>7, <1>8, <1>9 DEF InLine
  <2>2. /\ Says(d, what(d)).id = d /\ Says(d, what(d)).admission = what(d)
        /\ ~Says(d, what(d)).completed /\ ~Says(d, what(d)).late
    BY DEF Says
  <2> HIDE DEF what
  <2> QED BY <2>1, <2>2, AppendFirst
<1>10. /\ \A x : Started(x)' <=> Started(x)
       /\ \A x : WasSubmitted(x)' <=> WasSubmitted(x)
       /\ \A x : ~InQueue(x)'
       /\ \A x \in Calls : InLine(x)' <=> Entered(x)
  <2>1. /\ \A x : Started(x)' <=> Started(x)
        /\ \A x : WasSubmitted(x)' <=> WasSubmitted(x)
    BY <1>2, SameLine
  <2>2. \A x : ~InQueue(x)'
    BY <1>2 DEF InQueue, In
  <2> QED BY <2>1, <2>2, <1>5 DEF InLine
<1>11. /\ active' \in Actives
       /\ c = None => active' = active
       /\ c # None => /\ active'.id = c /\ active'.admission = active.admission
                      /\ active'.heard = active.heard /\ active'.terminal
                      /\ active'.resolved = now /\ (now => ~active'.timer)
  <2>1. CASE c = None
    BY <2>1, <1>2, <1>3
  <2>2. CASE c # None /\ now
    BY <2>2, <1>2, <1>3 DEF Resolved, Actives
  <2>3. CASE c # None /\ ~now
    BY <2>3, <1>2, <1>3, <1>7 DEF Actives
  <2> QED BY <2>1, <2>2, <2>3, <1>7
<1>12. ASSUME NEW d \in Calls
       PROVE  /\ attempt'[d] \in Admissions
              /\ attempt'[d] = "pending" => attempt[d] = "pending" /\ ~said(d)
              /\ attempt'[d] = "notAdmitted" =>
                   attempt[d] = "notAdmitted" \/ InQueue(d)
                   \/ (now /\ d = c /\ active.admission = "notAdmitted")
              /\ attempt'[d] = attempt[d] \/ said(d)
              /\ InQueue(d) => attempt'[d] = "notAdmitted"
  <2>1. attempt'[d] = IF InQueue(d) THEN "notAdmitted"
                      ELSE IF now /\ d = c THEN Marked(c, active.admission) ELSE attempt[d]
    BY <1>4
  <2>2. attempt[d] \in Admissions /\ "notAdmitted" \in Admissions /\ "notAdmitted" # "pending"
    BY <1>3 DEF Admissions
  <2>3. CASE InQueue(d)
    BY <2>1, <2>2, <2>3
  <2>4. CASE ~InQueue(d) /\ now /\ d = c
    <3>1. /\ active.admission \in Admissions /\ active.admission # "pending"
          /\ attempt'[d] \in {"notAdmitted", active.admission}
          /\ attempt'[d] = active.admission \/ attempt[d] = "notAdmitted"
      BY <2>1, <2>4, <1>7, DispatcherAssumption DEF Marked
    <3> QED BY <3>1, <2>2, <2>4
  <2>5. CASE ~said(d)
    BY <2>1, <2>2, <2>5
  <2> QED BY <2>3, <2>4, <2>5
<1>13. /\ active.admission = "admitted" /\ c # None => wire[c] = "written"
       /\ active.admission = "notAdmitted" /\ c # None => wire[c] = "refused"
       /\ c # None /\ active.heard => active.admission # "pendingWriter"
       /\ c # None /\ Async /\ wire[c] \in {"written", "refused"} => active.heard \/ fact[c] # "none"
       /\ c = None => active = NoActive
  BY DEF DInv, ActiveInv
<1>14. \A d \in Calls : InQueue(d) => /\ wire[d] = "idle" /\ WasSubmitted(d) /\ ~Entered(d)
  BY DEF DInv, LineInv, InLine
<1>15. now => c # None
  BY <1>1 DEF n
<1>16. DispatcherTypeOK'
  <2>1. attempt' \in [Calls -> Admissions]
    BY <1>4, <1>12
  <2>2. queue' \in Seq(Calls)
    BY <1>2
  <2> QED BY <2>1, <2>2, <1>2, <1>5, <1>8, <1>11 DEF DInv, DispatcherTypeOK
<1>17. LineInv'
  <2>1. Distinct(queue')
    BY <1>2 DEF Distinct
  <2>2. ASSUME NEW d \in Calls, Entered(d)
        PROVE  WasSubmitted(d)' /\ wire'[d] = "idle" /\ told'[d] = <<>>
    <3>1. InLine(d) /\ wire[d] = "idle" /\ WasSubmitted(d) /\ told[d] = <<>>
      BY <2>2 DEF DInv, LineInv, InLine
    <3>2. ~said(d)
      BY <2>2, <3>1, <1>7, <1>14, <1>15
    <3> QED BY <3>1, <3>2, <1>2, <1>8, <1>10
  <2> QED BY <2>1, <2>2, <1>2, <1>5, <1>10 DEF LineInv
<1>18. OrderInv'
  <2>1. Sorted(submitted, queue')
    BY <1>2 DEF Sorted
  <2>2. ASSUME NEW i \in 1..Len(starts)
        PROVE  told'[starts[i]] # <<>> \/ (active'.id = starts[i] /\ i = Len(starts))
    <3>1. starts[i] \in Calls
      BY DEF DInv, DispatcherTypeOK
    <3>2. told[starts[i]] # <<>> \/ (c = starts[i] /\ i = Len(starts))
      BY DEF DInv, OrderInv
    <3>3. c = starts[i] => active'.id = c
      BY <3>1, <1>11
    <3>4. told[starts[i]] # <<>> => told'[starts[i]] # <<>>
      BY <3>1, <1>8, <1>9
    <3> QED BY <3>2, <3>3, <3>4
  <2>3. \A x, y \in Calls : Started(x) /\ Entered(y) => Before(submitted, x, y)
    BY DEF DInv, OrderInv, InLine
  <2> QED BY <2>1, <2>2, <2>3, <1>2, <1>5, <1>10 DEF DInv, OrderInv
<1>19. ProviderInv'
  <2>1. ASSUME NEW d \in Calls
        PROVE  /\ wire[d] # "idle" => attempt'[d] # "pending"
               /\ wire[d] = "idle" => attempt'[d] \in {"pending", "notAdmitted"}
               /\ attempt'[d] = "notAdmitted" => wire[d] \in {"idle", "refused"}
    <3>1. /\ wire[d] # "idle" => attempt[d] # "pending"
          /\ wire[d] = "idle" => attempt[d] \in {"pending", "notAdmitted"}
          /\ attempt[d] = "notAdmitted" => wire[d] \in {"idle", "refused"}
      BY DEF DInv, ProviderInv
    <3> QED BY <3>1, <1>7, <1>12, <1>13, <1>14, <1>15
  <2> QED BY <2>1, <1>2, <1>10, <1>11 DEF DInv, ProviderInv
<1>20. ActiveInv'
  <2>1. CASE c = None
    BY <2>1, <1>11, <1>13 DEF ActiveInv
  <2>2. CASE c # None
    <3>1. now => /\ told'[c] # <<>> /\ Len(told'[c]) < 2
                 /\ ~told'[c][1].late /\ ~told'[c][1].completed
      BY <2>2, <1>7, <1>9
    <3>2. ~now => told'[c] = <<>>
      BY <2>2, <1>7, <1>8 DEF InLine
    <3> QED BY <2>2, <3>1, <3>2, <1>2, <1>7, <1>11, <1>13 DEF ActiveInv
  <2> QED BY <2>1, <2>2
<1>21. ToldInv'
  <2>1. \A d \in Calls : ToldCovers(d) /\ ToldTwice(d) /\ ToldTrue(d)
    BY DEF DInv, ToldInv
  <2>2. ASSUME NEW d \in Calls PROVE ToldCovers(d)'
    <3>1. CASE said(d)
      <4>1. told'[d] # <<>> /\ attempt'[d] # "pending"
        BY <3>1, <1>9, <1>12
      <4>2. WasSubmitted(d)
        BY <3>1, <1>7, <1>14, <1>15
      <4> QED BY <4>1, <4>2, <1>10 DEF ToldCovers
    <3>2. CASE ~said(d)
      <4>1. told'[d] = told[d] /\ attempt'[d] = attempt[d] /\ (InLine(d) => Entered(d))
        BY <3>2, <1>8, <1>12 DEF InLine
      <4>2. active.id = d => active'.id = d
        BY <1>11
      <4> QED BY <4>1, <4>2, <2>1, <1>10 DEF ToldCovers
    <3> QED BY <3>1, <3>2
  <2>3. ASSUME NEW d \in Calls PROVE ToldTwice(d)'
    <3>1. \A x \in Calls : ~(Len(told[x]) > 1) /\ Len(told[x]) <= 2
      BY <2>1, <1>6 DEF ToldTwice
    <3>2. ASSUME NEW x \in Calls PROVE ~(Len(told'[x]) > 1) /\ Len(told'[x]) <= 2
      <4>1. CASE said(x)
        <5>1. Len(told'[x]) < 2 /\ Len(told'[x]) \in Nat
          BY <4>1, <1>8, <1>9
        <5> QED BY <5>1
      <4>2. CASE ~said(x)
        BY <4>2, <3>1, <1>8
      <4> QED BY <4>1, <4>2
    <3> QED BY <3>2 DEF ToldTwice
  <2>4. ASSUME NEW d \in Calls PROVE ToldTrue(d)'
    <3>1. CASE said(d)
      <4>1. /\ told'[d][1].id = d /\ told'[d][1].admission = what(d) /\ ~told'[d][1].completed
            /\ Len(told'[d]) < 2 /\ Len(told'[d]) \in Nat
        BY <3>1, <1>8, <1>9
      <4>2. \A i \in 1..Len(told'[d]) : i = 1
        BY <4>1
      <4>3. /\ what(d) = "notAdmitted" => wire[d] \in {"idle", "refused"}
            /\ what(d) = "admitted" => wire[d] = "written"
        BY <3>1, <1>13, <1>14, <1>15
      <4> HIDE DEF what
      <4> QED BY <4>1, <4>2, <4>3, <1>2 DEF ToldTrue
    <3>2. CASE ~said(d)
      <4>1. told'[d] = told[d] /\ wire' = wire
        BY <3>2, <1>2, <1>8
      <4>2. active.id # d => active'.id # d
        BY <1>11
      <4> QED BY <4>1, <4>2, <2>1 DEF ToldTrue
    <3> QED BY <3>1, <3>2
  <2> QED BY <2>2, <2>3, <2>4 DEF ToldInv
<1>22. EventsInv'
  BY <1>2, <1>6, <1>8 DEF EventsInv
<1> QED BY <1>16, <1>17, <1>18, <1>19, <1>20, <1>21, <1>22 DEF DInv

LEMMA DispatcherStarts == DispatcherInit => DInv
<1> SUFFICES ASSUME DispatcherInit PROVE DInv
  OBVIOUS
<1> USE DEF DispatcherInit
<1>1. /\ \A x : ~Entered(x) /\ ~InQueue(x) /\ ~InLine(x) /\ ~Started(x) /\ ~WasSubmitted(x)
  BY DEF Entered, InQueue, InLine, Started, WasSubmitted, In
<1>2. DispatcherTypeOK
  <2>1. InputCap \in Nat /\ EventCap \in Nat
    BY DispatcherAssumption
  <2>2. told \in [Calls -> Seq(Event)] /\ active \in Actives
    BY ActiveTypes
  <2>3. /\ inputs \in Seq(Items) /\ Len(inputs) <= InputCap /\ queue \in Seq(Calls)
        /\ events \in Seq(Reports) /\ Len(events) <= EventCap
        /\ {starts, submitted} \subseteq Seq(Calls)
    BY <2>1
  <2>4. /\ attempt \in [Calls -> Admissions]
        /\ wire \in [Calls -> {"idle", "started", "written", "refused"}]
        /\ fact \in [Calls -> {"none", "true", "false"}]
        /\ reply \in [Calls -> {"none", "admitted", "silent"}]
        /\ ctxDone \subseteq Calls
        /\ {terminalRequested, completeSent, running, stopping} \subseteq BOOLEAN
    BY DEF Admissions
  <2> HIDE DEF DispatcherInit
  <2> QED BY <2>2, <2>3, <2>4 DEF DispatcherTypeOK
<1>3. LineInv
  BY <1>1 DEF LineInv, Distinct
<1>4. OrderInv
  BY <1>1 DEF OrderInv, Sorted
<1>5. ProviderInv
  BY <1>1 DEF ProviderInv
<1>6. ActiveInv
  BY ActiveTypes DEF ActiveInv
<1>7. ToldInv
  <2>1. \A c \in Calls : Len(told[c]) = 0 /\ told[c] = <<>>
    OBVIOUS
  <2> QED BY <1>1, <2>1 DEF ToldInv, ToldCovers, ToldTwice, ToldTrue
<1>8. EventsInv
  BY DEF EventsInv, EventsCore, Distinct
<1> QED BY <1>2, <1>3, <1>4, <1>5, <1>6, <1>7, <1>8 DEF DInv

LEMMA DispatcherSteps ==
  ASSUME DInv, [DispatcherNext]_dvars
  PROVE  DInv'
<1>1. CASE SkipCancelled \/ SkipSealed \/ StartUnavailable
  BY <1>1, SkipsReject, HeadIsIdle, RejectKeeps DEF RejectHead
<1>2. CASE Start
  BY <1>2, StartKeeps
<1>3. CASE ReportComplete
  BY <1>3, ReportCompleteKeeps
<1>4. CASE TakeJob
  BY <1>4, TakeJobKeeps
<1>5. CASE TakeTerminal
  BY <1>5, TakeTerminalKeeps
<1>6. CASE TakeStop
  BY <1>6, MarkerKeeps DEF TakeStop
<1>7. CASE TakeFact \/ TakeReply \/ GraceEnds
  BY <1>7, TakeFactKeeps, TakeReplyKeeps, GraceEndsKeeps
<1>8. CASE Provider
  BY <1>8, ProviderKeeps
<1>9. ASSUME NEW c \in Calls, Submit(c) PROVE DInv'
  BY <1>9, SubmitKeeps
<1>10. ASSUME NEW c \in Calls, ContextEnds(c) PROVE DInv'
  <2>1. /\ attempt' = attempt /\ inputs' = inputs /\ events' = events /\ stopping' = stopping
        /\ UNCHANGED <<loopVars, providerVars, historyVars>> /\ ctxDone' = ctxDone \cup {c}
    BY <1>10 DEF ContextEnds, channelVars
  <2>2. ctxDone' \subseteq Calls /\ stopping' \in BOOLEAN
    BY <2>1 DEF DInv, DispatcherTypeOK
  <2> QED BY <2>1, <2>2, ArbiterKeeps
<1>11. ASSUME NEW c \in Calls, Seal(c) PROVE DInv'
  BY <1>11, SealKeeps DEF Seal
<1>12. CASE ResolveTerminal
  <2>1. running' \in BOOLEAN
    BY <1>12 DEF ResolveTerminal, loopVars, DInv, DispatcherTypeOK
  <2> QED BY <1>12, <2>1, MarkerKeeps DEF ResolveTerminal, loopVars
<1>13. CASE Read \/ CallStop
  <2>1. ctxDone' \subseteq Calls /\ stopping' \in BOOLEAN
    BY <1>13 DEF Read, CallStop, attemptVars, DInv, DispatcherTypeOK
  <2> QED BY <1>13, <2>1, ArbiterKeeps DEF Read, CallStop, attemptVars
<1>14. CASE PutStop
  <2>1. running' \in BOOLEAN
    BY <1>14 DEF PutStop, loopVars, DInv, DispatcherTypeOK
  <2> QED BY <1>14, <2>1, MarkerKeeps DEF PutStop, loopVars
<1>15. CASE UNCHANGED dvars
  <2>1. ctxDone' \subseteq Calls /\ stopping' \in BOOLEAN
    BY <1>15 DEF dvars, attemptVars, channelVars, DInv, DispatcherTypeOK
  <2> QED BY <1>15, <2>1, ArbiterKeeps DEF dvars, attemptVars, channelVars
<1> QED
  BY <1>1, <1>2, <1>3, <1>4, <1>5, <1>6, <1>7, <1>8, <1>9, <1>10, <1>11, <1>12, <1>13,
     <1>14, <1>15 DEF DispatcherNext, Loop

(* What the run loop keeps: one place for every job, the order of submission,
   one report for every call, and only what is true of the provider. *)
THEOREM DispatcherKeeps == DispatcherSpec => []DInv
<1>1. DInv /\ [DispatcherNext]_dvars => DInv'
  BY DispatcherSteps
<1> QED BY <1>1, DispatcherStarts, PTL DEF DispatcherSpec

LEMMA AdmissionTrue == DInv => AdmissionIsTrue
<1> SUFFICES ASSUME DInv, NEW c \in Calls
             PROVE  /\ attempt[c] = "notAdmitted" \/ Reported(c, "notAdmitted") =>
                         wire[c] \in {"idle", "refused"}
                    /\ Reported(c, "admitted") => wire[c] = "written"
  BY DEF AdmissionIsTrue
<1>1. attempt[c] = "notAdmitted" => wire[c] \in {"idle", "refused"}
  BY DEF DInv, ProviderInv
<1>2. ToldTrue(c)
  BY DEF DInv, ToldInv
<1> QED BY <1>1, <1>2 DEF ToldTrue, Reported

(* The admission of a call is never claimed against the wire: what is sealed or
   reported not admitted was not and will not be written (beginStart,
   resolveAdmission, finishActive), whatever the order of fact, completion,
   terminal and caller timeout. *)
THEOREM AdmissionStaysTrue == DispatcherSpec => []AdmissionIsTrue
BY DispatcherKeeps, AdmissionTrue, PTL

(* Two markers more than calls. *)
LEMMA TwoMore ==
  ASSUME NEW F \in SUBSET Calls
  PROVE  /\ IsFiniteSet(F \cup {"stop", "terminal"}) /\ Cardinality(F) \in Nat
         /\ Cardinality(F \cup {"stop", "terminal"}) \in Nat
         /\ Cardinality(F \cup {"stop", "terminal"}) <= Cardinality(F) + 2
<1> DEFINE G == F \cup {"stop", "terminal"}
<1>1. IsFiniteSet(F)
  BY FS_Subset, DispatcherAssumption
<1>2. \A X, x : IsFiniteSet(X) =>
        /\ IsFiniteSet(X \cup {x}) /\ Cardinality(X) \in Nat
        /\ Cardinality(X \cup {x}) \in Nat
        /\ Cardinality(X \cup {x}) <= Cardinality(X) + 1
  <2> TAKE X, x
  <2> HAVE IsFiniteSet(X)
  <2>1. Cardinality(X) \in Nat /\ IsFiniteSet(X \cup {x}) /\ Cardinality(X \cup {x}) \in Nat
    BY FS_AddElement, FS_CardinalityType
  <2>2. Cardinality(X \cup {x}) = Cardinality(X) \/ Cardinality(X \cup {x}) = Cardinality(X) + 1
    BY FS_AddElement
  <2> QED BY <2>1, <2>2
<1>3. IsFiniteSet(F \cup {"stop"}) /\ Cardinality(F \cup {"stop"}) <= Cardinality(F) + 1
  BY <1>1, <1>2
<1>4. G = (F \cup {"stop"}) \cup {"terminal"}
  OBVIOUS
<1>5. /\ IsFiniteSet(G) /\ Cardinality(F) \in Nat /\ Cardinality(F \cup {"stop"}) \in Nat
      /\ Cardinality(G) <= Cardinality(F \cup {"stop"}) + 1
  BY <1>1, <1>2, <1>3, <1>4
<1> HIDE DEF G
<1>6. Cardinality(G) \in Nat
  BY <1>5, FS_CardinalityType
<1>7. Cardinality(G) <= Cardinality(F) + 2
  BY <1>3, <1>5, <1>6
<1> QED BY <1>5, <1>6, <1>7 DEF G

(* The events channel holds at most one first report for each call of F, the
   one late report and the completion. *)
LEMMA EventsCounted ==
  ASSUME DInv, NEW F \in SUBSET Calls,
         \A i \in 1..Len(events) : First(told, events[i]) => events[i].id \in F
  PROVE  Len(events) <= Cardinality(F) + 2
<1> DEFINE G == F \cup {"stop", "terminal"}
           key(e) == IF e = Complete THEN "terminal" ELSE IF Second(told, e) THEN "stop" ELSE e.id
           s == [i \in 1..Len(events) |-> key(events[i])]
<1>1. events \in Seq(Reports) /\ Len(events) \in Nat /\ told \in [Calls -> Seq(Event)]
  BY DEF DInv, DispatcherTypeOK
<1>2. /\ IsFiniteSet(G) /\ Cardinality(F) \in Nat /\ Cardinality(G) \in Nat
      /\ Cardinality(G) <= Cardinality(F) + 2
  BY TwoMore
<1>3. ASSUME NEW i \in 1..Len(events)
      PROVE  LET e == events[i] IN
             \/ e = Complete /\ key(e) = "terminal"
             \/ e.id \in Calls /\ Second(told, e) /\ key(e) = "stop"
             \/ e.id \in F /\ First(told, e) /\ key(e) = e.id
  <2> DEFINE e == events[i]
  <2>1. e \in Reports
    BY <1>1
  <2>2. e = Complete \/ First(told, e) \/ Second(told, e)
    BY DEF DInv, EventsInv, EventsCore
  <2>3. First(told, e) => e.id \in F
    OBVIOUS
  <2> HIDE DEF e
  <2>4. e # Complete => e.id \in Calls
    BY <2>1, ReportTypes
  <2> QED BY <2>2, <2>3, <2>4 DEF First, Second, e
<1>4. s \in Seq(G) /\ Len(s) = Len(events)
  <2>1. \A i \in 1..Len(events) : s[i] \in G
    BY <1>3
  <2> HIDE DEF G
  <2>2. s = [i \in 1..Len(events) |-> s[i]]
    OBVIOUS
  <2> HIDE DEF s
  <2> QED BY <2>1, <2>2, <1>1
<1>5. ASSUME NEW i \in 1..Len(events), NEW j \in 1..Len(events), key(events[i]) = key(events[j])
      PROVE  i = j
  <2>1. events[i] = events[j]
    <3>1. "terminal" \notin F /\ "stop" \notin F /\ "stop" # "terminal"
      BY DispatcherAssumption
    <3>2. CASE Second(told, events[i]) /\ Second(told, events[j])
          /\ events[i].id \in Calls /\ events[j].id \in Calls
      <4>1. events[i].id = events[j].id
        BY <3>2 DEF Second, DInv, ToldInv, ToldTwice
      <4> QED BY <4>1, <3>2 DEF Second
    <3>3. CASE First(told, events[i]) /\ First(told, events[j]) /\ events[i].id = events[j].id
      BY <3>3 DEF First
    <3> HIDE DEF key
    <3> QED BY <1>3, <1>5, <3>1, <3>2, <3>3
  <2> QED BY <2>1 DEF DInv, EventsInv, EventsCore, Distinct
<1>6. Distinct(s)
  <2>1. \A i \in 1..Len(events) : s[i] = key(events[i])
    OBVIOUS
  <2> HIDE DEF s, key
  <2> QED BY <1>4, <1>5, <2>1 DEF Distinct
<1>7. Len(events) <= Cardinality(G)
  <2> HIDE DEF s, G
  <2> QED BY <1>2, <1>4, <1>6, DistinctLength
<1> HIDE DEF G
<1> QED BY <1>1, <1>2, <1>7

(* At most one event for each reported call waits on the events channel,
   besides the completion and the one late event. *)
LEMMA EventsAreBounded == DInv => EventsBounded
<1> SUFFICES ASSUME DInv PROVE EventsBounded
  OBVIOUS
<1>1. ASSUME NEW i \in 1..Len(events), First(told, events[i])
      PROVE  events[i].id \in {c \in Calls : told[c] # <<>>}
  <2>1. events[i] \in Reports
    BY DEF DInv, DispatcherTypeOK
  <2> QED BY <2>1, <1>1, ReportTypes DEF First
<1> QED BY <1>1, EventsCounted DEF EventsBounded

LEMMA DispatcherBooks == DInv => DispatcherInv
<1> SUFFICES ASSUME DInv PROVE DispatcherInv
  OBVIOUS
<1>1. DispatcherTypeOK
  BY DEF DInv
<1>2. OneAtATimeInOrder
  <2>1. starts \in Seq(Calls) /\ Len(starts) \in Nat
    BY <1>1 DEF DispatcherTypeOK
  <2>2. \A i \in 1..(Len(starts) - 1) : i \in 1..Len(starts) /\ i # Len(starts)
    BY <2>1
  <2>3. \A i \in 1..Len(starts) : told[starts[i]] # <<>> \/ i = Len(starts)
    BY DEF DInv, OrderInv
  <2>4. Sorted(submitted, starts)
    BY DEF DInv, OrderInv
  <2>5. \A i \in 1..(Len(starts) - 1) : told[starts[i]] # <<>>
    BY <2>2, <2>3
  <2>6. ASSUME NEW i \in 1..Len(starts), NEW j \in 1..Len(starts), i < j
        PROVE  Before(submitted, starts[i], starts[j])
    BY <2>1, <2>4, <2>6 DEF Sorted
  <2> QED BY <2>5, <2>6 DEF OneAtATimeInOrder, Before
<1>3. ReportedOnce
  <2>1. ASSUME NEW c \in Calls PROVE Len(told[c]) = 2 => Len(told[c]) > 1
    OBVIOUS
  <2> QED BY <2>1 DEF ReportedOnce, DInv, ToldInv, ToldTwice
<1>4. CompleteCoversAll
  <2> SUFFICES ASSUME completeSent, NEW c \in Calls, WasSubmitted(c), ~Entered(c)
               PROVE  told[c] # <<>>
    BY DEF CompleteCoversAll
  <2>1. terminalRequested /\ (active.id = None \/ active.resolved)
    BY DEF DInv, EventsInv
  <2>2. ~InQueue(c)
    BY <2>1 DEF DInv, LineInv, InQueue, In
  <2>3. active.id = c \/ told[c] # <<>>
    BY <2>2 DEF DInv, ToldInv, ToldCovers, InLine
  <2> QED BY <2>1, <2>3, DispatcherAssumption DEF DInv, ActiveInv
<1> QED BY <1>1, <1>2, <1>3, <1>4, EventsAreBounded DEF DispatcherInv

(* The books of the dispatcher: one provider call at a time in the order of
   submission, one report for each and a second one only late, nothing left
   out when the terminal is complete, and an events channel on which two more
   events than calls is the most that waits (run, finishActive). *)
THEOREM DispatcherKeepsItsBooks == DispatcherSpec => []DispatcherInv
BY DispatcherKeeps, DispatcherBooks, PTL

-----------------------------------------------------------------------------
(***************************************************************************)
(* The turn around the dispatcher.                                         *)
(***************************************************************************)
InMailbox(c) == In(c, commands)
Early == {"idle", "found", "reserved"}

SideTypes ==
  /\ lane \in Lanes
  /\ caller \in [Calls -> {"idle", "found", "reserved", "sent", "refused", "entered",
                           "returned"}]
  /\ {preCanceled, tracked, holding, steers} \subseteq SUBSET Calls
  /\ outcome \in [Calls -> Outcomes \cup {"none"}]
  /\ replies \in [Calls -> Outcomes \cup {"none"}]
  /\ commands \in Seq(Calls) /\ Len(commands) <= MailboxCap
  /\ ack \in [Calls -> {"pending", "accepted", "rejected", "terminal"}]
  /\ arbiter \in {"running", "marking", "ended", "hidden", "retired", "unlaned", "stopping", "done"}
  /\ pendingSteers \in Seq(Pending)
  /\ {discoverable, retired, laneClosed, promptEnded, terminalAsked, terminalReady,
      steeringOff, driverClosed} \subseteq BOOLEAN
  /\ answer \in [Calls -> Answers \cup {"none", "error"}]
  /\ observed \in [Calls -> Seq(Outcomes)]

(* A command waits in the mailbox once, for a caller that sent it, and an
   acknowledgement that is not an acceptance is final. *)
MailInv ==
  /\ Distinct(commands)
  /\ \A c \in Calls :
       /\ InMailbox(c) => caller[c] \notin Early /\ ack[c] \in {"pending", "terminal"}
       /\ caller[c] \in Early => ack[c] = "pending" /\ c \notin tracked
       /\ caller[c] = "refused" => ack[c] \in {"rejected", "terminal"}
       /\ ack[c] = "terminal" => retired
  /\ retired => arbiter \notin {"running", "marking", "ended", "hidden"}

(* A call the arbiter acknowledged is with the dispatcher, waits to be
   observed, or was answered, and is in one of these states only. *)
ArbiterSideInv ==
  /\ \A i, j \in 1..Len(pendingSteers) : pendingSteers[i].id = pendingSteers[j].id => i = j
  /\ \A c \in Calls :
       /\ c \in steers => c \notin PendingCalls /\ WasSubmitted(c)
       /\ c \in steers \/ c \in PendingCalls => observed[c] = <<>> /\ replies[c] = "none"
       /\ c \in steers \/ c \in PendingCalls \/ WasSubmitted(c) \/ observed[c] # <<>>
          \/ replies[c] # "none" => ack[c] = "accepted"
       /\ ack[c] = "accepted" =>
            c \in steers \/ c \in PendingCalls \/ observed[c] # <<>> \/ driverClosed
       /\ Len(observed[c]) <= 1
  /\ arbiter \notin {"running", "marking"} => steers = {} /\ pendingSteers = <<>>

(* Taking one element out of the middle. *)
LEMMA RemoveFacts ==
  ASSUME NEW S, NEW s \in Seq(S), NEW i \in 1..Len(s)
  PROVE  LET r == SubSeq(s, 1, i - 1) \o SubSeq(s, i + 1, Len(s)) IN
         /\ r \in Seq(S) /\ Len(r) = Len(s) - 1
         /\ \A k \in 1..Len(r) : r[k] = s[IF k < i THEN k ELSE k + 1]
         /\ \A k \in 1..Len(s) : k # i => \E j \in 1..Len(r) : r[j] = s[k]
<1> DEFINE a == SubSeq(s, 1, i - 1)
           b == SubSeq(s, i + 1, Len(s))
           r == a \o b
<1>1. Len(s) \in Nat /\ i \in Nat /\ i >= 1 /\ i <= Len(s)
  OBVIOUS
<1>2. a \in Seq(S)
  BY <1>1
<1>3. b \in Seq(S)
  BY <1>1
<1>4. Len(a) = i - 1 /\ \A k \in 1..Len(a) : a[k] = s[k]
  BY <1>1
<1>5. Len(b) = Len(s) - i /\ \A k \in 1..Len(b) : b[k] = s[k + i]
  BY <1>1
<1> HIDE DEF a, b
<1>6. r \in Seq(S)
  BY ONLY <1>2, <1>3, ConcatFacts
<1>7. Len(r) = Len(a) + Len(b)
  BY ONLY <1>2, <1>3, ConcatFacts
<1>8. /\ \A k \in 1..Len(a) : r[k] = a[k]
      /\ \A k \in 1..Len(b) : Len(a) + k \in 1..Len(r) /\ r[Len(a) + k] = b[k]
  <2>1. \A k \in 1..Len(a) : (a \o b)[k] = a[k]
    BY ONLY <1>2, <1>3, ConcatFacts
  <2>2. \A k \in 1..Len(b) : Len(a) + k \in 1..Len(a \o b) /\ (a \o b)[Len(a) + k] = b[k]
    BY ONLY <1>2, <1>3, ConcatFacts
  <2>3. r = a \o b
    OBVIOUS
  <2> HIDE DEF r
  <2> QED BY ONLY <2>1, <2>2, <2>3
<1> HIDE DEF r
<1>9. Len(r) = Len(s) - 1
  BY <1>1, <1>4, <1>5, <1>7
<1>10. ASSUME NEW k \in 1..Len(r) PROVE r[k] = s[IF k < i THEN k ELSE k + 1]
  <2>1. CASE k < i
    <3>1. k \in 1..Len(a)
      BY <2>1, <1>1, <1>4, <1>9
    <3> QED BY <3>1, <2>1, <1>4, <1>8
  <2>2. CASE ~(k < i)
    <3>1. k - Len(a) \in 1..Len(b) /\ Len(a) + (k - Len(a)) = k /\ (k - Len(a)) + i = k + 1
      BY <2>2, <1>1, <1>4, <1>5, <1>9
    <3>2. r[Len(a) + (k - Len(a))] = b[k - Len(a)] /\ b[k - Len(a)] = s[(k - Len(a)) + i]
      BY <3>1, <1>5, <1>8
    <3> QED BY <3>1, <3>2, <2>2
  <2> QED BY <2>1, <2>2
<1>11. ASSUME NEW k \in 1..Len(s), k # i PROVE \E j \in 1..Len(r) : r[j] = s[k]
  <2>1. CASE k < i
    <3>1. k \in 1..Len(r)
      BY <2>1, <1>1, <1>9
    <3> QED BY <3>1, <2>1, <1>10
  <2>2. CASE ~(k < i)
    <3>1. k - 1 \in 1..Len(r) /\ ~(k - 1 < i) /\ (k - 1) + 1 = k
      BY <2>2, <1>1, <1>9, <1>11
    <3>2. r[k - 1] = s[(k - 1) + 1]
      BY <3>1, <1>10
    <3> QED BY <3>1, <3>2
  <2> QED BY <2>1, <2>2
<1> QED BY <1>6, <1>9, <1>10, <1>11 DEF r, a, b

(* The observations that wait. *)
LEMMA PendingTypes ==
  ASSUME pendingSteers \in Seq(Pending)
  PROVE  /\ PendingCalls \subseteq Calls
         /\ \A i \in 1..Len(pendingSteers) :
              /\ pendingSteers[i] \in Pending /\ pendingSteers[i].id \in Calls
              /\ pendingSteers[i].outcome \in Outcomes /\ pendingSteers[i].id \in PendingCalls
         /\ \A c \in PendingCalls : \E i \in 1..Len(pendingSteers) : pendingSteers[i].id = c
<1>1. \A i \in 1..Len(pendingSteers) : pendingSteers[i] \in Pending
  OBVIOUS
<1> QED BY <1>1 DEF Pending, PendingCalls

LEMMA QueuedFacts ==
  ASSUME pendingSteers \in Seq(Pending), NEW c \in Calls, NEW o \in Outcomes, Queued(c, o)
  PROVE  /\ pendingSteers' \in Seq(Pending)
         /\ PendingCalls' = PendingCalls \cup {c}
         /\ \A i \in 1..Len(pendingSteers') :
              \/ i \in 1..Len(pendingSteers) /\ pendingSteers'[i] = pendingSteers[i]
              \/ i = Len(pendingSteers) + 1 /\ pendingSteers'[i].id = c
                 /\ pendingSteers'[i].outcome = o
         /\ Len(pendingSteers) \in Nat
<1> DEFINE p == [id |-> c, outcome |-> o]
<1>1. p \in Pending /\ p.id = c /\ p.outcome = o
  BY DEF Pending
<1>2. pendingSteers' = Append(pendingSteers, p)
  BY DEF Queued
<1> HIDE DEF p
<1>3. /\ pendingSteers' \in Seq(Pending)
      /\ Len(pendingSteers') = Len(pendingSteers) + 1 /\ Len(pendingSteers) \in Nat
      /\ pendingSteers'[Len(pendingSteers) + 1] = p
      /\ \A i \in 1..Len(pendingSteers) : pendingSteers'[i] = pendingSteers[i]
  BY <1>1, <1>2, AppendFacts
<1>4. \A i \in 1..Len(pendingSteers') :
        i \in 1..Len(pendingSteers) \/ i = Len(pendingSteers) + 1
  BY <1>3
<1>5. 1..Len(pendingSteers) \subseteq 1..Len(pendingSteers')
      /\ Len(pendingSteers) + 1 \in 1..Len(pendingSteers')
  BY <1>3
<1>6. PendingCalls' = PendingCalls \cup {c}
  <2>1. PendingCalls' \subseteq PendingCalls \cup {c}
    BY <1>1, <1>3, <1>4 DEF PendingCalls
  <2>2. PendingCalls \cup {c} \subseteq PendingCalls'
    BY <1>1, <1>3, <1>5 DEF PendingCalls
  <2> QED BY <2>1, <2>2
<1> QED BY <1>1, <1>3, <1>4, <1>6

(* One of them leaves. *)
LEMMA LeavesFacts ==
  ASSUME pendingSteers \in Seq(Pending), NEW i \in 1..Len(pendingSteers),
         \A j, k \in 1..Len(pendingSteers) : pendingSteers[j].id = pendingSteers[k].id => j = k,
         pendingSteers' = SubSeq(pendingSteers, 1, i - 1)
                          \o SubSeq(pendingSteers, i + 1, Len(pendingSteers))
  PROVE  /\ pendingSteers' \in Seq(Pending)
         /\ PendingCalls' = PendingCalls \ {pendingSteers[i].id}
         /\ \A k \in 1..Len(pendingSteers') :
              \E j \in 1..Len(pendingSteers) : pendingSteers'[k] = pendingSteers[j]
         /\ \A j, k \in 1..Len(pendingSteers') : pendingSteers'[j].id = pendingSteers'[k].id => j = k
<1> DEFINE at(k) == IF k < i THEN k ELSE k + 1
           s == pendingSteers
           r == SubSeq(s, 1, i - 1) \o SubSeq(s, i + 1, Len(s))
<1>0. /\ r \in Seq(Pending) /\ Len(r) = Len(s) - 1
      /\ \A k \in 1..Len(r) : r[k] = s[at(k)]
      /\ \A k \in 1..Len(s) : k # i => \E j \in 1..Len(r) : r[j] = s[k]
  BY RemoveFacts
<1> HIDE DEF r
<1>1. /\ pendingSteers' \in Seq(Pending) /\ Len(pendingSteers') = Len(s) - 1
      /\ \A k \in 1..Len(pendingSteers') : pendingSteers'[k] = s[at(k)]
      /\ \A k \in 1..Len(s) : k # i => \E j \in 1..Len(pendingSteers') : pendingSteers'[j] = s[k]
  BY <1>0 DEF r
<1>2. Len(s) \in Nat /\ i \in Nat /\ 1 <= i /\ i <= Len(s)
  OBVIOUS
<1>3. /\ \A k \in 1..Len(pendingSteers') : at(k) \in 1..Len(s) /\ at(k) # i
      /\ \A j, k \in 1..Len(pendingSteers') : at(j) = at(k) => j = k
  <2> DEFINE n == Len(pendingSteers')
  <2>1. n = Len(s) - 1
    BY <1>1
  <2> HIDE DEF n
  <2>2. /\ \A k \in 1..n : at(k) \in 1..Len(s) /\ at(k) # i
        /\ \A j, k \in 1..n : at(j) = at(k) => j = k
    BY ONLY <2>1, <1>2
  <2> QED BY <2>2 DEF n
<1> HIDE DEF at
<1>4. PendingCalls' \subseteq PendingCalls \ {pendingSteers[i].id}
  <2> SUFFICES ASSUME NEW k \in 1..Len(pendingSteers')
               PROVE  pendingSteers'[k].id \in PendingCalls \ {pendingSteers[i].id}
    BY DEF PendingCalls
  <2>1. PICK m \in 1..Len(s) : pendingSteers'[k] = s[m] /\ m # i
    BY <1>1, <1>3
  <2>2. s[m].id # s[i].id /\ s[m].id \in PendingCalls
    BY <2>1 DEF PendingCalls
  <2> QED BY <2>1, <2>2
<1>5. PendingCalls \ {pendingSteers[i].id} \subseteq PendingCalls'
  <2> SUFFICES ASSUME NEW k \in 1..Len(pendingSteers), pendingSteers[k].id # pendingSteers[i].id
               PROVE  pendingSteers[k].id \in PendingCalls'
    BY DEF PendingCalls
  <2>1. PICK j \in 1..Len(pendingSteers') : pendingSteers'[j] = pendingSteers[k]
    BY <1>1
  <2> QED BY <2>1 DEF PendingCalls
<1>6. PendingCalls' = PendingCalls \ {pendingSteers[i].id}
  BY <1>4, <1>5
<1>7. ASSUME NEW j \in 1..Len(pendingSteers'), NEW k \in 1..Len(pendingSteers'),
             pendingSteers'[j].id = pendingSteers'[k].id
      PROVE  j = k
  <2>1. /\ at(j) \in 1..Len(s) /\ pendingSteers'[j] = s[at(j)]
        /\ at(k) \in 1..Len(s) /\ pendingSteers'[k] = s[at(k)]
    BY <1>1, <1>3
  <2>2. at(j) = at(k)
    BY <1>7, <2>1
  <2> QED BY <2>2, <1>3
<1>8. \A k \in 1..Len(pendingSteers') :
        \E j \in 1..Len(pendingSteers) : pendingSteers'[k] = pendingSteers[j]
  BY <1>1, <1>3
<1> QED BY <1>1, <1>6, <1>7, <1>8

(* A set of calls is answered. *)
LEMMA AnsweredFacts ==
  ASSUME SideTypes, NEW cs \in SUBSET Calls, NEW res, \A c \in cs : res[c] \in Outcomes,
         Answered(cs, res)
  PROVE  /\ observed' \in [Calls -> Seq(Outcomes)]
         /\ replies' \in [Calls -> Outcomes \cup {"none"}]
         /\ \A c \in Calls : replies'[c] = IF c \in cs THEN res[c] ELSE replies[c]
         /\ \A c \in Calls : \/ observed'[c] = observed[c] /\ (c \in cs => driverClosed)
                             \/ c \in cs /\ observed'[c] = Append(observed[c], res[c])
         /\ caller' = caller /\ preCanceled' = preCanceled /\ outcome' = outcome
         /\ holding' = holding \ cs /\ laneUsed' = LaneAfter(cs) /\ laneClosed' = laneClosed
<1>1. PICK seen \in SUBSET cs :
        /\ ~driverClosed => seen = cs
        /\ observed' = [c \in Calls |-> IF c \in seen THEN Append(observed[c], res[c])
                                        ELSE observed[c]]
  BY DEF Answered
<1>2. observed \in [Calls -> Seq(Outcomes)] /\ replies \in [Calls -> Outcomes \cup {"none"}]
      /\ driverClosed \in BOOLEAN
  BY DEF SideTypes
<1>3. observed' \in [Calls -> Seq(Outcomes)]
  <2>1. ASSUME NEW c \in Calls, c \in seen PROVE Append(observed[c], res[c]) \in Seq(Outcomes)
    BY <2>1, <1>2, AppendFacts
  <2> QED BY <2>1, <1>1, <1>2
<1>4. replies' = [c \in Calls |-> IF c \in cs THEN res[c] ELSE replies[c]]
  BY DEF Answered
<1>5. \A c \in Calls : \/ observed'[c] = observed[c] /\ (c \in cs => driverClosed)
                       \/ c \in cs /\ observed'[c] = Append(observed[c], res[c])
  BY <1>1
<1> QED BY <1>2, <1>3, <1>4, <1>5 DEF Answered, Release

SideInv == SideTypes /\ MailInv /\ ArbiterSideInv

LEMMA SideStarts == SteeringInit => SideInv
<1> SUFFICES ASSUME SteeringInit PROVE SideInv
  OBVIOUS
<1> USE DEF SteeringInit
<1>1. \A x : ~InMailbox(x) /\ ~WasSubmitted(x) /\ x \notin PendingCalls
  BY DEF InMailbox, In, WasSubmitted, PendingCalls, DispatcherInit
<1>2. SideTypes
  <2>1. MailboxCap \in Nat
    BY SteeringAssumption
  <2>2. /\ commands \in Seq(Calls) /\ Len(commands) <= MailboxCap
        /\ pendingSteers \in Seq(Pending) /\ observed \in [Calls -> Seq(Outcomes)]
    BY <2>1
  <2> QED BY <2>2 DEF SideTypes
<1>3. MailInv
  BY <1>1 DEF MailInv, Distinct
<1>4. ArbiterSideInv
  BY <1>1 DEF ArbiterSideInv
<1> QED BY <1>2, <1>3, <1>4 DEF SideInv

(* A caller moves on, in the order of its steps. *)
LEMMA CallerMoves ==
  ASSUME SideInv, NEW c \in Calls,
         NEW to \in {"idle", "found", "reserved", "sent", "refused", "entered", "returned"},
         caller' = [caller EXCEPT ![c] = to],
         to \in Early => caller[c] \in Early,
         to = "refused" => ack[c] \in {"rejected", "terminal"},
         outcome' = outcome \/ (\E o \in Outcomes : outcome' = [outcome EXCEPT ![c] = o]),
         replies' = replies \/ replies' = [replies EXCEPT ![c] = "none"],
         preCanceled' \subseteq Calls, holding' \subseteq Calls, tracked' \subseteq tracked,
         UNCHANGED <<lane, laneClosed, discoverable, retired, commands, ack, arbiterVars,
                     driverClosed, answer, observed, submitted>>
  PROVE  SideInv'
<1>1. /\ arbiter' = arbiter /\ steers' = steers /\ pendingSteers' = pendingSteers
      /\ promptEnded' = promptEnded /\ terminalAsked' = terminalAsked
      /\ terminalReady' = terminalReady /\ steeringOff' = steeringOff
  BY DEF arbiterVars
<1>2. SideTypes
  BY DEF SideInv
<1>3. /\ \A x : InMailbox(x)' <=> InMailbox(x)
      /\ \A x : WasSubmitted(x)' <=> WasSubmitted(x)
      /\ PendingCalls' = PendingCalls
  BY <1>1 DEF InMailbox, In, WasSubmitted, PendingCalls
<1>4. \A d \in Calls : caller'[d] = IF d = c THEN to ELSE caller[d]
  BY <1>2 DEF SideTypes
<1>5. \A d \in Calls : replies'[d] = replies[d] \/ replies'[d] = "none"
  BY <1>2 DEF SideTypes
<1>6. SideTypes'
  <2>1. outcome' \in [Calls -> Outcomes \cup {"none"}]
    <3>1. outcome \in [Calls -> Outcomes \cup {"none"}]
      BY <1>2 DEF SideTypes
    <3> QED BY <3>1
  <2>2. /\ replies' \in [Calls -> Outcomes \cup {"none"}]
        /\ caller' \in [Calls -> {"idle", "found", "reserved", "sent", "refused", "entered",
                                 "returned"}]
        /\ tracked' \subseteq Calls
    BY <1>2 DEF SideTypes
  <2> QED BY <1>1, <1>2, <2>1, <2>2 DEF SideTypes
<1>7. MailInv'
  BY <1>1, <1>3, <1>4 DEF SideInv, MailInv
<1>8. ArbiterSideInv'
  BY <1>1, <1>3, <1>5 DEF SideInv, ArbiterSideInv
<1> QED BY <1>6, <1>7, <1>8 DEF SideInv

(* Nothing of a call changes but its answer at the provider. *)
LEMMA QuietKeeps ==
  ASSUME SideInv,
         UNCHANGED <<lane, callerVars, holding, retired, commands, ack, tracked, steers,
                     pendingSteers, observed, submitted>>,
         arbiter' \in {"running", "marking", "ended", "hidden", "retired", "unlaned",
                       "stopping", "done"},
         arbiter' \in {"running", "marking"} \/ (steers = {} /\ pendingSteers = <<>>),
         retired => arbiter' \notin {"running", "marking", "ended", "hidden"},
         {discoverable', laneClosed', promptEnded', terminalAsked', terminalReady',
          steeringOff', driverClosed'} \subseteq BOOLEAN,
         driverClosed => driverClosed',
         answer' \in [Calls -> Answers \cup {"none", "error"}]
  PROVE  SideInv'
<1>1. /\ caller' = caller /\ preCanceled' = preCanceled /\ outcome' = outcome
      /\ replies' = replies
  BY DEF callerVars
<1>2. SideTypes
  BY DEF SideInv
<1>3. /\ \A x : InMailbox(x)' <=> InMailbox(x)
      /\ \A x : WasSubmitted(x)' <=> WasSubmitted(x)
      /\ PendingCalls' = PendingCalls
  BY DEF InMailbox, In, WasSubmitted, PendingCalls
<1>4. SideTypes'
  BY <1>1, <1>2 DEF SideTypes
<1>5. MailInv'
  BY <1>1, <1>3 DEF SideInv, MailInv
<1>6. ArbiterSideInv'
  BY <1>1, <1>3 DEF SideInv, ArbiterSideInv
<1> QED BY <1>4, <1>5, <1>6 DEF SideInv

LEMMA SendKeeps ==
  ASSUME SideInv, NEW c \in Calls, Send(c), lane' = lane
  PROVE  SideInv'
<1>1. /\ caller[c] = "reserved" /\ preCanceled' = preCanceled /\ outcome' = outcome
      /\ replies' = replies /\ holding' = holding /\ laneClosed' = laneClosed
      /\ discoverable' = discoverable /\ retired' = retired
      /\ driverClosed' = driverClosed /\ answer' = answer /\ observed' = observed
      /\ arbiter' = arbiter /\ steers' = steers /\ pendingSteers' = pendingSteers
      /\ promptEnded' = promptEnded /\ terminalAsked' = terminalAsked
      /\ terminalReady' = terminalReady /\ steeringOff' = steeringOff
      /\ submitted' = submitted
  BY DEF Send, Moves, laneVars, arbiterVars, dvars, historyVars
<1>2. /\ caller \in [Calls -> {"idle", "found", "reserved", "sent", "refused", "entered",
                               "returned"}]
      /\ ack \in [Calls -> {"pending", "accepted", "rejected", "terminal"}]
      /\ commands \in Seq(Calls) /\ Len(commands) <= MailboxCap /\ tracked \subseteq Calls
      /\ SideTypes /\ retired \in BOOLEAN /\ MailboxCap \in Nat
  BY SteeringAssumption DEF SideInv, SideTypes
<1>3. /\ ack[c] = "pending" /\ c \notin tracked /\ ~InMailbox(c)
      /\ c \notin steers /\ c \notin PendingCalls /\ ~WasSubmitted(c)
      /\ observed[c] = <<>> /\ replies[c] = "none"
  <2>1. ack[c] = "pending" /\ c \notin tracked /\ ~InMailbox(c)
    BY <1>1 DEF SideInv, MailInv, Early
  <2> QED BY <2>1 DEF SideInv, ArbiterSideInv
<1>4. /\ \A x : WasSubmitted(x)' <=> WasSubmitted(x)
      /\ PendingCalls' = PendingCalls
  BY <1>1 DEF WasSubmitted, PendingCalls
<1>5. CASE retired \/ Len(commands) >= MailboxCap
  <2>1. PICK a \in {"terminal", "rejected"} :
          a = (IF retired THEN "terminal" ELSE "rejected")
    OBVIOUS
  <2>2. /\ ack' = [ack EXCEPT ![c] = a] /\ (a = "terminal" => retired)
        /\ caller' = [caller EXCEPT ![c] = "refused"] /\ commands' = commands
        /\ tracked' = tracked
    BY <2>1, <1>5 DEF Send, Moves
  <2>3. /\ \A d \in Calls : ack'[d] = IF d = c THEN a ELSE ack[d]
        /\ \A d \in Calls : caller'[d] = IF d = c THEN "refused" ELSE caller[d]
        /\ \A x : InMailbox(x)' <=> InMailbox(x)
    BY <2>2, <1>2 DEF InMailbox, In
  <2>4. SideTypes'
    BY <2>2, <1>1, <1>2 DEF SideTypes
  <2>5. MailInv'
    BY <2>2, <2>3, <1>1, <1>3 DEF SideInv, MailInv, Early
  <2>6. ArbiterSideInv'
    BY <2>3, <1>1, <1>3, <1>4 DEF SideInv, ArbiterSideInv
  <2> QED BY <2>4, <2>5, <2>6 DEF SideInv
<1>6. CASE ~(retired \/ Len(commands) >= MailboxCap)
  <2>1. /\ ack' = ack /\ caller' = [caller EXCEPT ![c] = "sent"]
        /\ commands' = Append(commands, c) /\ tracked' = tracked \cup {c}
    BY <1>6 DEF Send, Moves
  <2>2. /\ commands' \in Seq(Calls) /\ Len(commands') = Len(commands) + 1
        /\ \A x : InMailbox(x)' <=> InMailbox(x) \/ x = c
        /\ Distinct(commands')
    BY <2>1, <1>2, <1>3, AppendFacts DEF InMailbox, SideInv, MailInv
  <2>3. \A d \in Calls : caller'[d] = IF d = c THEN "sent" ELSE caller[d]
    BY <2>1, <1>2
  <2>4. Len(commands') <= MailboxCap
    BY <2>2, <1>2, <1>6
  <2>5. SideTypes'
    BY <2>1, <2>2, <2>4, <1>1, <1>2 DEF SideTypes
  <2>6. MailInv'
    BY <2>1, <2>2, <2>3, <1>1, <1>3 DEF SideInv, MailInv, Early
  <2>7. ArbiterSideInv'
    BY <2>1, <1>1, <1>4 DEF SideInv, ArbiterSideInv
  <2> QED BY <2>5, <2>6, <2>7 DEF SideInv
<1> QED BY <1>5, <1>6

LEMMA RetireKeeps ==
  ASSUME SideInv, Retire, lane' = lane
  PROVE  SideInv'
<1>1. /\ caller' = caller /\ preCanceled' = preCanceled /\ outcome' = outcome
      /\ replies' = replies /\ holding' = holding /\ laneClosed' = laneClosed
      /\ discoverable' = discoverable /\ retired' = TRUE /\ arbiter = "hidden"
      /\ driverClosed' = driverClosed /\ answer' = answer /\ observed' = observed
      /\ arbiter' = "retired" /\ steers' = steers /\ pendingSteers' = pendingSteers
      /\ promptEnded' = promptEnded /\ terminalAsked' = terminalAsked
      /\ terminalReady' = terminalReady /\ steeringOff' = steeringOff
      /\ commands' = commands /\ tracked' = tracked /\ submitted' = submitted
      /\ ack' = RetiredAcks
  BY DEF Retire, callerVars, laneVars, dvars, historyVars
<1>2. SideTypes /\ ack \in [Calls -> {"pending", "accepted", "rejected", "terminal"}]
  BY DEF SideInv, SideTypes
<1>3. /\ \A x : InMailbox(x)' <=> InMailbox(x)
      /\ \A x : WasSubmitted(x)' <=> WasSubmitted(x)
      /\ PendingCalls' = PendingCalls
  BY <1>1 DEF InMailbox, In, WasSubmitted, PendingCalls
<1>4. /\ ack' \in [Calls -> {"pending", "accepted", "rejected", "terminal"}]
      /\ \A d \in Calls : \/ ack'[d] = ack[d]
                          \/ ack[d] = "pending" /\ ack'[d] = "terminal" /\ d \in tracked
  BY <1>1, <1>2 DEF RetiredAcks
<1>5. SideTypes'
  BY <1>1, <1>2, <1>4 DEF SideTypes
<1>6. MailInv'
  BY <1>1, <1>3, <1>4 DEF SideInv, MailInv
<1>7. ArbiterSideInv'
  BY <1>1, <1>3, <1>4 DEF SideInv, ArbiterSideInv
<1> QED BY <1>5, <1>6, <1>7 DEF SideInv

(* The head of the mailbox is a call nothing was made of. *)
LEMMA CommandFacts ==
  ASSUME SideInv, AcceptCommand, NEW c, c = Head(commands)
  PROVE  /\ c \in Calls /\ InMailbox(c) /\ ack[c] = "pending" /\ caller[c] \notin Early
         /\ arbiter = "running" /\ arbiter' = "running" /\ ~retired
         /\ ~WasSubmitted(c) /\ c \notin steers /\ c \notin PendingCalls
         /\ observed[c] = <<>> /\ replies[c] = "none"
         /\ ack' = [ack EXCEPT ![c] = "accepted"]
         /\ commands' \in Seq(Calls) /\ Len(commands') <= MailboxCap /\ Distinct(commands')
         /\ \A x : InMailbox(x)' => InMailbox(x)
         /\ ~InMailbox(c)'
         /\ UNCHANGED <<caller, preCanceled, outcome, replies, laneVars, discoverable, retired,
                        tracked, promptEnded, terminalAsked, terminalReady, steeringOff,
                        driverClosed, answer, observed>>
<1>1. /\ arbiter = "running" /\ commands # <<>> /\ commands' = Tail(commands)
      /\ Acknowledged(c)
      /\ UNCHANGED <<callerVars, laneVars, discoverable, retired, tracked, arbiterStill,
                     terminalReady, steeringOff, driverClosed, answer, observed>>
  BY DEF AcceptCommand
<1>2. commands \in Seq(Calls) /\ Len(commands) <= MailboxCap /\ MailboxCap \in Nat
      /\ Distinct(commands) /\ retired \in BOOLEAN
  BY SteeringAssumption DEF SideInv, SideTypes, MailInv
<1>3. /\ c \in Calls /\ InMailbox(c) /\ ~InMailbox(c)'
      /\ commands' \in Seq(Calls) /\ Len(commands') <= MailboxCap /\ Distinct(commands')
      /\ \A x : InMailbox(x)' => InMailbox(x)
  BY <1>1, <1>2, TailFacts DEF InMailbox
<1>4. ~retired /\ caller[c] \notin Early /\ ack[c] = "pending"
  BY <1>1, <1>3 DEF SideInv, MailInv
<1>5. /\ ~WasSubmitted(c) /\ c \notin steers /\ c \notin PendingCalls
      /\ observed[c] = <<>> /\ replies[c] = "none"
  BY <1>3, <1>4 DEF SideInv, ArbiterSideInv
<1> QED BY <1>1, <1>3, <1>4, <1>5 DEF Acknowledged, callerVars, arbiterStill

LEMMA AnswerLocallyKeeps ==
  ASSUME SideInv, AcceptCommand, NEW c, c = Head(commands), AnswerLocally(c), lane' = lane
  PROVE  SideInv'
<1>1. PICK o \in {"fallback", "unsupported"} : Queued(c, o)
  BY DEF AnswerLocally
<1>2. steers' = steers /\ submitted' = submitted
  BY DEF AnswerLocally, historyVars
<1>3. SideTypes /\ pendingSteers \in Seq(Pending) /\ o \in Outcomes
  BY DEF SideInv, SideTypes, Outcomes
<1>4. /\ c \in Calls /\ InMailbox(c) /\ ack[c] = "pending" /\ caller[c] \notin Early
      /\ arbiter = "running" /\ arbiter' = "running" /\ ~retired
      /\ ~WasSubmitted(c) /\ c \notin steers /\ c \notin PendingCalls
      /\ observed[c] = <<>> /\ replies[c] = "none"
      /\ ack' = [ack EXCEPT ![c] = "accepted"]
      /\ commands' \in Seq(Calls) /\ Len(commands') <= MailboxCap /\ Distinct(commands')
      /\ \A x : InMailbox(x)' => InMailbox(x)
      /\ ~InMailbox(c)'
      /\ UNCHANGED <<caller, preCanceled, outcome, replies, laneVars, discoverable, retired,
                     tracked, promptEnded, terminalAsked, terminalReady, steeringOff,
                     driverClosed, answer, observed>>
  BY CommandFacts
<1>5. /\ pendingSteers' \in Seq(Pending)
      /\ PendingCalls' = PendingCalls \cup {c}
      /\ \A i \in 1..Len(pendingSteers') :
           \/ i \in 1..Len(pendingSteers) /\ pendingSteers'[i] = pendingSteers[i]
           \/ i = Len(pendingSteers) + 1 /\ pendingSteers'[i].id = c
              /\ pendingSteers'[i].outcome = o
      /\ Len(pendingSteers) \in Nat
  BY <1>1, <1>3, <1>4, QueuedFacts
<1>6. \A d \in Calls : ack'[d] = IF d = c THEN "accepted" ELSE ack[d]
  BY <1>3, <1>4 DEF SideTypes
<1>7. \A x : WasSubmitted(x)' <=> WasSubmitted(x)
  BY <1>2 DEF WasSubmitted
<1>8. SideTypes'
  BY <1>2, <1>3, <1>4, <1>5 DEF SideTypes, laneVars
<1>9. MailInv'
  BY <1>4, <1>6 DEF SideInv, MailInv
<1>10. ArbiterSideInv'
  <2>1. ASSUME NEW i \in 1..Len(pendingSteers'), NEW j \in 1..Len(pendingSteers'),
               pendingSteers'[i].id = pendingSteers'[j].id
        PROVE  i = j
    <3>1. \A k \in 1..Len(pendingSteers) : pendingSteers[k].id # c
      BY <1>4 DEF PendingCalls
    <3> QED BY <2>1, <3>1, <1>5 DEF SideInv, ArbiterSideInv
  <2> QED BY <2>1, <1>2, <1>4, <1>5, <1>6, <1>7 DEF SideInv, ArbiterSideInv
<1> QED BY <1>8, <1>9, <1>10 DEF SideInv

LEMMA ForwardKeeps ==
  ASSUME SideInv, AcceptCommand, NEW c, c = Head(commands), Forward(c), lane' = lane,
         submitted \in Seq(Calls)
  PROVE  SideInv'
<1>1. /\ pendingSteers' = pendingSteers /\ steers' = steers \cup {c}
      /\ submitted' = Append(submitted, c)
  BY DEF Forward, Submit
<1>2. SideTypes
  BY DEF SideInv
<1>3. /\ c \in Calls /\ InMailbox(c) /\ ack[c] = "pending" /\ caller[c] \notin Early
      /\ arbiter = "running" /\ arbiter' = "running" /\ ~retired
      /\ ~WasSubmitted(c) /\ c \notin steers /\ c \notin PendingCalls
      /\ observed[c] = <<>> /\ replies[c] = "none"
      /\ ack' = [ack EXCEPT ![c] = "accepted"]
      /\ commands' \in Seq(Calls) /\ Len(commands') <= MailboxCap /\ Distinct(commands')
      /\ \A x : InMailbox(x)' => InMailbox(x)
      /\ ~InMailbox(c)'
      /\ UNCHANGED <<caller, preCanceled, outcome, replies, laneVars, discoverable, retired,
                     tracked, promptEnded, terminalAsked, terminalReady, steeringOff,
                     driverClosed, answer, observed>>
  BY CommandFacts
<1>4. \A d \in Calls : ack'[d] = IF d = c THEN "accepted" ELSE ack[d]
  BY <1>2, <1>3 DEF SideTypes
<1>5. PendingCalls' = PendingCalls
  BY <1>1 DEF PendingCalls
<1>6. \A x : WasSubmitted(x)' <=> WasSubmitted(x) \/ x = c
  <2>1. \A x : In(x, submitted') <=> In(x, submitted) \/ x = c
    BY <1>1, <1>3, AppendFacts
  <2> QED BY <2>1 DEF WasSubmitted, In
<1>7. SideTypes'
  BY <1>1, <1>2, <1>3 DEF SideTypes, laneVars
<1>8. MailInv'
  BY <1>3, <1>4 DEF SideInv, MailInv
<1>9. ArbiterSideInv'
  BY <1>1, <1>3, <1>4, <1>5, <1>6 DEF SideInv, ArbiterSideInv
<1> QED BY <1>7, <1>8, <1>9 DEF SideInv

LEMMA OutcomeTypes ==
  ASSUME SideTypes, NEW e \in Event
  PROVE  OutcomeOf(e) \in Outcomes
<1>1. e.admission \in Admissions
  BY DEF Event
<1> QED BY <1>1 DEF OutcomeOf, Normalized, Outcomes, Admissions

(* What a read makes of the event at the head. *)
LEMMA ReadFacts ==
  ASSUME SideInv, DispatcherTypeOK, ReadEvent, NEW e, e = Head(events)
  PROVE  /\ arbiter = "running" /\ arbiter' = "running" /\ events # <<>>
         /\ e \in Reports /\ In(e, events) /\ Read
         /\ UNCHANGED <<caller, preCanceled, outcome, replies, laneVars, discoverable, retired,
                        commands, ack, tracked, promptEnded, terminalAsked, driverClosed,
                        answer, observed, submitted>>
         /\ {terminalReady', steeringOff'} \subseteq BOOLEAN
         /\ \/ steers' = steers /\ pendingSteers' = pendingSteers
               /\ (e = Complete \/ e.id \notin steers)
            \/ /\ e \in Event /\ e.id \in steers /\ steers' = steers \ {e.id}
               /\ OutcomeOf(e) \in Outcomes /\ Queued(e.id, OutcomeOf(e))
<1>1. /\ arbiter = "running" /\ events # <<>> /\ Read
      /\ IF e = Complete
         THEN /\ terminalReady' = TRUE
              /\ UNCHANGED <<steers, pendingSteers, steeringOff>>
         ELSE /\ steeringOff' = (steeringOff \/ ~TakesEvent(e) \/ Disables(e))
              /\ steers' = steers \ {e.id}
              /\ IF TakesEvent(e) THEN Queued(e.id, OutcomeOf(e)) ELSE UNCHANGED pendingSteers
              /\ UNCHANGED terminalReady
      /\ UNCHANGED <<callerVars, laneVars, handleVars, arbiterStill, driverClosed, answer,
                     observed>>
  BY DEF ReadEvent
<1>2. events \in Seq(Reports)
  BY DEF DispatcherTypeOK
<1>3. e \in Reports /\ In(e, events)
  BY <1>1, <1>2, TailFacts
<1>4. SideTypes /\ terminalReady \in BOOLEAN /\ steeringOff \in BOOLEAN
  BY DEF SideInv, SideTypes
<1>5. e \in Event => OutcomeOf(e) \in Outcomes
  BY <1>4, OutcomeTypes
<1>6. {terminalReady', steeringOff'} \subseteq BOOLEAN
  <2>1. steeringOff' \in BOOLEAN
    BY <1>1, <1>4
  <2>2. terminalReady' \in BOOLEAN
    BY <1>1, <1>4
  <2> QED BY <2>1, <2>2
<1>7. CASE e = Complete
  BY <1>1, <1>3, <1>6, <1>7 DEF callerVars, handleVars, arbiterStill, Read, historyVars
<1>8. CASE e # Complete
  <2>1. e \in Event
    BY <1>3, <1>8, ReportTypes
  <2>2. CASE e.id \in steers
    BY <1>1, <1>3, <1>5, <1>6, <1>8, <2>1, <2>2
    DEF TakesEvent, callerVars, handleVars, arbiterStill, Read, historyVars
  <2>3. CASE e.id \notin steers
    <3>1. steers' = steers /\ pendingSteers' = pendingSteers
      BY <1>1, <1>8, <2>3 DEF TakesEvent
    <3> QED BY <1>1, <1>3, <1>6, <2>3, <3>1
        DEF callerVars, handleVars, arbiterStill, Read, historyVars
  <2> QED BY <2>2, <2>3
<1> QED BY <1>7, <1>8

LEMMA ReadKeeps ==
  ASSUME SideInv, DispatcherTypeOK, ReadEvent, lane' = lane
  PROVE  SideInv'
<1>1. PICK e : e = Head(events)
  OBVIOUS
<1>2. /\ arbiter = "running" /\ arbiter' = "running"
      /\ UNCHANGED <<caller, preCanceled, outcome, replies, laneVars, discoverable, retired,
                     commands, ack, tracked, promptEnded, terminalAsked, driverClosed,
                     answer, observed, submitted>>
      /\ {terminalReady', steeringOff'} \subseteq BOOLEAN
  BY <1>1, ReadFacts
<1>3. SideTypes
  BY DEF SideInv
<1>4. /\ \A x : InMailbox(x)' <=> InMailbox(x)
      /\ \A x : WasSubmitted(x)' <=> WasSubmitted(x)
  BY <1>2 DEF InMailbox, In, WasSubmitted
<1>5. MailInv'
  BY <1>2, <1>4 DEF SideInv, MailInv
<1>6. CASE steers' = steers /\ pendingSteers' = pendingSteers
  <2>1. PendingCalls' = PendingCalls
    BY <1>6 DEF PendingCalls
  <2>2. SideTypes'
    BY <1>2, <1>3, <1>6 DEF SideTypes, laneVars
  <2>3. ArbiterSideInv'
    BY <1>2, <1>4, <1>6, <2>1 DEF SideInv, ArbiterSideInv
  <2> QED BY <1>5, <2>2, <2>3 DEF SideInv
<1>7. ASSUME e \in Event, e.id \in steers, steers' = steers \ {e.id},
             OutcomeOf(e) \in Outcomes, Queued(e.id, OutcomeOf(e))
      PROVE  SideInv'
  <2>1. PICK c, o : c = e.id /\ o = OutcomeOf(e)
    OBVIOUS
  <2>2. /\ c \in Calls /\ c \in steers /\ c \notin PendingCalls /\ WasSubmitted(c)
        /\ observed[c] = <<>> /\ replies[c] = "none" /\ ack[c] = "accepted"
    BY <1>7, <2>1, ReportTypes DEF SideInv, ArbiterSideInv
  <2>3. pendingSteers \in Seq(Pending)
    BY <1>3 DEF SideTypes
  <2>4. /\ pendingSteers' \in Seq(Pending)
        /\ PendingCalls' = PendingCalls \cup {c}
        /\ \A i \in 1..Len(pendingSteers') :
             \/ i \in 1..Len(pendingSteers) /\ pendingSteers'[i] = pendingSteers[i]
             \/ i = Len(pendingSteers) + 1 /\ pendingSteers'[i].id = c
                /\ pendingSteers'[i].outcome = o
        /\ Len(pendingSteers) \in Nat
    BY <1>7, <2>1, <2>2, <2>3, QueuedFacts
  <2>5. SideTypes'
    BY <1>2, <1>3, <1>7, <2>4 DEF SideTypes, laneVars
  <2>6. ASSUME NEW i \in 1..Len(pendingSteers'), NEW j \in 1..Len(pendingSteers'),
               pendingSteers'[i].id = pendingSteers'[j].id
        PROVE  i = j
    <3>1. \A k \in 1..Len(pendingSteers) : pendingSteers[k].id # c
      BY <2>2 DEF PendingCalls
    <3> QED BY <2>6, <3>1, <2>4 DEF SideInv, ArbiterSideInv
  <2>7. ArbiterSideInv'
    BY <1>2, <1>4, <1>7, <2>1, <2>2, <2>4, <2>6 DEF SideInv, ArbiterSideInv
  <2> QED BY <1>5, <2>5, <2>7 DEF SideInv
<1> QED BY <1>1, <1>6, <1>7, ReadFacts

(* Calls that were answered: one observation at most, the one that was sent. *)
LEMMA AnsweredKeeps ==
  ASSUME SideInv, NEW cs \in SUBSET Calls, cs \subseteq steers \cup PendingCalls,
         NEW res, \A c \in cs : res[c] \in Outcomes, Answered(cs, res),
         steers' = steers \ cs, PendingCalls' = PendingCalls \ cs,
         pendingSteers' \in Seq(Pending),
         \A i, j \in 1..Len(pendingSteers') : pendingSteers'[i].id = pendingSteers'[j].id => i = j,
         arbiter = "running", arbiter' \in {"running", "ended"},
         arbiter' = "ended" => steers' = {} /\ pendingSteers' = <<>>,
         steeringOff' \in BOOLEAN,
         UNCHANGED <<lane, handleVars, promptEnded, terminalAsked, terminalReady,
                     driverClosed, answer, submitted>>
  PROVE  SideInv'
<1>1. SideTypes /\ arbiter = "running"
  BY DEF SideInv
<1>2. /\ observed' \in [Calls -> Seq(Outcomes)]
      /\ replies' \in [Calls -> Outcomes \cup {"none"}]
      /\ \A c \in Calls : replies'[c] = IF c \in cs THEN res[c] ELSE replies[c]
      /\ \A c \in Calls : \/ observed'[c] = observed[c] /\ (c \in cs => driverClosed)
                          \/ c \in cs /\ observed'[c] = Append(observed[c], res[c])
      /\ caller' = caller /\ preCanceled' = preCanceled /\ outcome' = outcome
      /\ holding' = holding \ cs /\ laneUsed' = LaneAfter(cs) /\ laneClosed' = laneClosed
  BY <1>1, AnsweredFacts
<1>3. /\ \A x : InMailbox(x)' <=> InMailbox(x)
      /\ \A x : WasSubmitted(x)' <=> WasSubmitted(x)
      /\ discoverable' = discoverable /\ retired' = retired /\ commands' = commands
      /\ ack' = ack /\ tracked' = tracked
  BY DEF InMailbox, In, WasSubmitted, handleVars
<1>4. SideTypes'
  BY <1>1, <1>2, <1>3 DEF SideTypes
<1>5. MailInv'
  BY <1>1, <1>2, <1>3 DEF SideInv, MailInv
<1>6. ASSUME NEW c \in Calls, c \in cs
      PROVE  /\ ack[c] = "accepted" /\ observed[c] = <<>>
             /\ (observed'[c] = <<>> /\ driverClosed) \/ observed'[c] # <<>>
             /\ Len(observed'[c]) <= 1
  <2>1. ack[c] = "accepted" /\ observed[c] = <<>>
    BY <1>6 DEF SideInv, ArbiterSideInv
  <2>2. CASE observed'[c] = observed[c]
    BY <2>1, <2>2, <1>2, <1>6
  <2>3. CASE observed'[c] = Append(observed[c], res[c])
    <3>1. res[c] \in Outcomes
      BY <1>6
    <3>2. Append(<<>>, res[c]) # <<>> /\ Len(Append(<<>>, res[c])) <= 1
      BY <3>1
    <3> QED BY <3>2, <2>1, <2>3
  <2> QED BY <2>2, <2>3, <1>2
<1>7. ASSUME NEW c \in Calls, c \notin cs
      PROVE  observed'[c] = observed[c] /\ replies'[c] = replies[c]
  BY <1>2, <1>7
<1>8. ArbiterSideInv'
  <2>1. ASSUME NEW c \in Calls
        PROVE  /\ c \in steers' => c \notin PendingCalls' /\ WasSubmitted(c)'
               /\ c \in steers' \/ c \in PendingCalls' => observed'[c] = <<>> /\ replies'[c] = "none"
               /\ c \in steers' \/ c \in PendingCalls' \/ WasSubmitted(c)' \/ observed'[c] # <<>>
                  \/ replies'[c] # "none" => ack'[c] = "accepted"
               /\ ack'[c] = "accepted" =>
                    c \in steers' \/ c \in PendingCalls' \/ observed'[c] # <<>> \/ driverClosed'
               /\ Len(observed'[c]) <= 1
    <3>1. CASE c \in cs
      BY <3>1, <1>3, <1>6
    <3>2. CASE c \notin cs
      BY <3>2, <1>3, <1>7 DEF SideInv, ArbiterSideInv
    <3> QED BY <3>1, <3>2
  <2> QED BY <2>1 DEF ArbiterSideInv
<1> QED BY <1>4, <1>5, <1>8 DEF SideInv

LEMMA EmitFacts ==
  ASSUME SideInv, NEW i \in 1..Len(pendingSteers), EmitSteer(i),
         NEW c, c = pendingSteers[i].id, NEW o, o = pendingSteers[i].outcome
  PROVE  /\ c \in Calls /\ c \in PendingCalls /\ c \notin steers /\ o \in Outcomes
         /\ arbiter = "running"
         /\ pendingSteers' \in Seq(Pending)
         /\ PendingCalls' = PendingCalls \ {c}
         /\ \A k \in 1..Len(pendingSteers') :
              \E j \in 1..Len(pendingSteers) : pendingSteers'[k] = pendingSteers[j]
         /\ \A j, k \in 1..Len(pendingSteers') : pendingSteers'[j].id = pendingSteers'[k].id => j = k
         /\ UNCHANGED <<dvars, handleVars, arbiterStill, steers, terminalReady, steeringOff,
                        driverClosed, answer>>
<1>1. pendingSteers \in Seq(Pending)
  BY DEF SideInv, SideTypes
<1>2. c \in Calls /\ c \in PendingCalls /\ o \in Outcomes
  BY <1>1, PendingTypes
<1>3. c \notin steers
  BY <1>2 DEF SideInv, ArbiterSideInv
<1>4. pendingSteers' = SubSeq(pendingSteers, 1, i - 1)
                       \o SubSeq(pendingSteers, i + 1, Len(pendingSteers))
  BY DEF EmitSteer
<1>5. \A j, k \in 1..Len(pendingSteers) : pendingSteers[j].id = pendingSteers[k].id => j = k
  BY DEF SideInv, ArbiterSideInv
<1>6. /\ pendingSteers' \in Seq(Pending)
      /\ PendingCalls' = PendingCalls \ {pendingSteers[i].id}
      /\ \A k \in 1..Len(pendingSteers') :
           \E j \in 1..Len(pendingSteers) : pendingSteers'[k] = pendingSteers[j]
      /\ \A j, k \in 1..Len(pendingSteers') : pendingSteers'[j].id = pendingSteers'[k].id => j = k
  BY <1>1, <1>4, <1>5, LeavesFacts
<1> QED BY <1>2, <1>3, <1>6 DEF EmitSteer

LEMMA EmitKeeps ==
  ASSUME SideInv, NEW i \in 1..Len(pendingSteers), EmitSteer(i), lane' = lane
  PROVE  SideInv'
<1>1. PICK c, o : c = pendingSteers[i].id /\ o = pendingSteers[i].outcome
  OBVIOUS
<1>2. /\ c \in Calls /\ c \in PendingCalls /\ c \notin steers /\ o \in Outcomes
      /\ arbiter = "running"
      /\ pendingSteers' \in Seq(Pending)
      /\ PendingCalls' = PendingCalls \ {c}
      /\ \A j, k \in 1..Len(pendingSteers') : pendingSteers'[j].id = pendingSteers'[k].id => j = k
      /\ UNCHANGED <<dvars, handleVars, arbiterStill, steers, terminalReady, steeringOff,
                     driverClosed, answer>>
  BY <1>1, EmitFacts
<1> DEFINE res == [d \in Calls |-> o]
<1>3. \A d \in {c} : res[d] \in Outcomes
  BY <1>2
<1>4. steers' = steers \ {c} /\ steeringOff' \in BOOLEAN /\ arbiter' = "running"
      /\ UNCHANGED <<promptEnded, terminalAsked, terminalReady, submitted>>
  BY <1>2 DEF arbiterStill, dvars, historyVars, SideInv, SideTypes
<1>5. Answered({c}, res)
  <2>1. Answered({pendingSteers[i].id}, [d \in Calls |-> pendingSteers[i].outcome])
    BY DEF EmitSteer
  <2> QED BY <2>1, <1>1
<1> HIDE DEF res
<1> QED BY <1>2, <1>3, <1>4, <1>5, AnsweredKeeps

(* What the arbiter answers to all at a sequence regression. *)
RegressionResult == [c \in steers \cup PendingCalls |->
                       IF c \in steers THEN FailureOutcome(c)
                       ELSE pendingSteers[PlaceOf(c)].outcome]

LEMMA RegressionFacts ==
  ASSUME SideInv, NEW c \in steers \cup PendingCalls
  PROVE  /\ c \in Calls /\ RegressionResult[c] \in Outcomes
         /\ c \in steers => RegressionResult[c] = FailureOutcome(c)
         /\ c \notin steers => \E i \in 1..Len(pendingSteers) :
              pendingSteers[i].id = c /\ RegressionResult[c] = pendingSteers[i].outcome
<1>1. pendingSteers \in Seq(Pending) /\ steers \subseteq Calls
  BY DEF SideInv, SideTypes
<1>2. c \in Calls
  BY <1>1, PendingTypes
<1>3. CASE c \in steers
  BY <1>2, <1>3 DEF RegressionResult, FailureOutcome, Outcomes
<1>4. CASE c \notin steers
  <2>1. \E i \in 1..Len(pendingSteers) : pendingSteers[i].id = c
    BY <1>1, <1>4, PendingTypes
  <2>2. PlaceOf(c) \in 1..Len(pendingSteers) /\ pendingSteers[PlaceOf(c)].id = c
    BY <2>1 DEF PlaceOf
  <2>3. RegressionResult[c] = pendingSteers[PlaceOf(c)].outcome
    BY <1>4 DEF RegressionResult
  <2> QED BY <2>2, <2>3, <1>1, <1>2, <1>4, PendingTypes
<1> QED BY <1>3, <1>4

LEMMA RegressionKeeps ==
  ASSUME SideInv, FailRegression, lane' = lane
  PROVE  SideInv'
<1> DEFINE cs == steers \cup PendingCalls
<1>1. cs \subseteq Calls /\ \A c \in cs : RegressionResult[c] \in Outcomes
  BY RegressionFacts
<1>2. /\ Answered(cs, RegressionResult) /\ arbiter = "running" /\ arbiter' = "ended"
      /\ steers' = {} /\ pendingSteers' = <<>> /\ steeringOff' = TRUE
      /\ UNCHANGED <<promptEnded, terminalAsked, terminalReady>>
      /\ UNCHANGED <<dvars, handleVars, driverClosed, answer>>
  BY DEF FailRegression, Ends, RegressionResult
<1>3. submitted' = submitted
  BY <1>2 DEF dvars, historyVars
<1>4. PendingCalls' = {} /\ pendingSteers' \in Seq(Pending)
  BY <1>2 DEF PendingCalls
<1>5. steers' = steers \ cs /\ PendingCalls' = PendingCalls \ cs
  BY <1>2, <1>4
<1>6. \A i, j \in 1..Len(pendingSteers') : pendingSteers'[i].id = pendingSteers'[j].id => i = j
  BY <1>2
<1> HIDE DEF cs
<1>7. cs \in SUBSET Calls /\ cs \subseteq steers \cup PendingCalls
  BY <1>1 DEF cs
<1>8. \A c \in cs : RegressionResult[c] \in Outcomes
  BY <1>1
<1> QED BY <1>2, <1>3, <1>4, <1>5, <1>6, <1>7, <1>8, AnsweredKeeps

LEMMA AbandonKeeps ==
  ASSUME SideInv, Abandon, lane' = lane
  PROVE  SideInv'
<1>1. /\ caller' = caller /\ preCanceled' = preCanceled /\ outcome' = outcome
      /\ replies' = replies /\ holding' \subseteq holding /\ laneClosed' = laneClosed
      /\ discoverable' = discoverable /\ retired' = retired /\ commands' = commands
      /\ ack' = ack /\ tracked' = tracked /\ arbiter = "running" /\ arbiter' = "ended"
      /\ driverClosed = TRUE /\ driverClosed' = driverClosed /\ answer' = answer
      /\ observed' = observed /\ steers' = {} /\ pendingSteers' = <<>>
      /\ promptEnded' = promptEnded /\ terminalAsked' = terminalAsked
      /\ terminalReady' = terminalReady /\ steeringOff' = steeringOff
      /\ submitted' = submitted
  <2>1. driverClosed = TRUE
    BY DEF Abandon, SideInv, SideTypes
  <2> QED BY <2>1 DEF Abandon, Ends, Release, callerVars, handleVars, dvars, historyVars
<1>2. SideTypes
  BY DEF SideInv
<1>3. /\ \A x : InMailbox(x)' <=> InMailbox(x)
      /\ \A x : WasSubmitted(x)' <=> WasSubmitted(x)
      /\ PendingCalls' = {}
  BY <1>1 DEF InMailbox, In, WasSubmitted, PendingCalls
<1>4. SideTypes'
  BY <1>1, <1>2 DEF SideTypes
<1>5. MailInv'
  BY <1>1, <1>3 DEF SideInv, MailInv
<1>6. ArbiterSideInv'
  BY <1>1, <1>3 DEF SideInv, ArbiterSideInv
<1> QED BY <1>4, <1>5, <1>6 DEF SideInv

(* What a step of the callers does, for the invariants of the handle. *)
LEMMA CallerKeeps ==
  ASSUME SideInv, NEW c \in Calls, Caller(c), lane' = lane
  PROVE  SideInv'
<1>1. /\ caller \in [Calls -> {"idle", "found", "reserved", "sent", "refused", "entered",
                               "returned"}]
      /\ ack \in [Calls -> {"pending", "accepted", "rejected", "terminal"}]
      /\ preCanceled \subseteq Calls /\ holding \subseteq Calls
      /\ replies \in [Calls -> Outcomes \cup {"none"}]
  BY DEF SideInv, SideTypes
<1>2. CASE Find(c)
  <2>1. UNCHANGED <<lane, laneVars, handleVars, arbiterVars, driverClosed, answer, observed,
                    submitted, replies, preCanceled>> /\ caller[c] = "idle"
    BY <1>2 DEF Find, Moves, Returns, dvars, historyVars
  <2>2. \/ caller' = [caller EXCEPT ![c] = "found"] /\ outcome' = outcome
        \/ caller' = [caller EXCEPT ![c] = "returned"]
           /\ outcome' = [outcome EXCEPT ![c] = "unsupported"]
    BY <1>2 DEF Find, Moves, Returns
  <2> QED BY <2>1, <2>2, <1>1, CallerMoves DEF Early, handleVars, laneVars, Outcomes
<1>3. CASE Reserve(c)
  <2>1. /\ caller[c] = "found" /\ caller' = [caller EXCEPT ![c] = "reserved"]
        /\ holding' = holding \cup {c} /\ preCanceled' \in {preCanceled, preCanceled \cup {c}}
        /\ UNCHANGED <<lane, laneClosed, handleVars, arbiterVars, driverClosed, answer,
                       observed, submitted, replies, outcome>>
    BY <1>3 DEF Reserve, historyVars
  <2>2. preCanceled' \subseteq Calls /\ holding' \subseteq Calls
    BY <2>1, <1>1
  <2> QED BY <2>1, <2>2, CallerMoves DEF Early, handleVars
<1>4. CASE NoLane(c)
  <2>1. UNCHANGED <<lane, laneVars, handleVars, arbiterVars, driverClosed, answer, observed,
                    submitted, replies, preCanceled>>
    BY <1>4 DEF NoLane, Returns, dvars, historyVars
  <2>2. /\ caller' = [caller EXCEPT ![c] = "returned"]
        /\ \E o \in Outcomes : outcome' = [outcome EXCEPT ![c] = o]
    BY <1>4 DEF NoLane, Returns, Outcomes
  <2> QED BY <2>1, <2>2, <1>1, CallerMoves DEF Early, handleVars, laneVars
<1>5. CASE Send(c)
  BY <1>5, SendKeeps
<1>6. CASE AwaitAck(c)
  <2>1. PICK to \in {"refused", "entered"} : to = IF ack[c] = "terminal" THEN "refused" ELSE "entered"
    OBVIOUS
  <2>2. /\ caller' = [caller EXCEPT ![c] = to] /\ tracked' \subseteq tracked
        /\ UNCHANGED <<lane, laneVars, discoverable, retired, commands, ack, arbiterVars,
                       driverClosed, answer, observed, submitted, replies, preCanceled, outcome>>
    BY <1>6, <2>1 DEF AwaitAck, Moves, dvars, historyVars
  <2> QED BY <2>1, <2>2, <1>1, CallerMoves DEF Early, laneVars
<1>7. CASE GiveUp(c)
  <2>1. /\ caller' = [caller EXCEPT ![c] = "returned"]
        /\ \E o \in Outcomes : outcome' = [outcome EXCEPT ![c] = o]
        /\ holding' \subseteq Calls
        /\ UNCHANGED <<lane, laneClosed, handleVars, arbiterVars, driverClosed, answer,
                       observed, submitted, replies, preCanceled>>
    BY <1>7, <1>1 DEF GiveUp, Returns, Release, historyVars, Outcomes
  <2> QED BY <2>1, <1>1, CallerMoves DEF Early, handleVars
<1>8. CASE ReturnCanceled(c)
  <2>1. /\ caller' = [caller EXCEPT ![c] = "returned"]
        /\ outcome' = [outcome EXCEPT ![c] = "fallback"] /\ "fallback" \in Outcomes
        /\ UNCHANGED <<lane, laneVars, handleVars, arbiterVars, driverClosed, answer,
                       observed, submitted, replies, preCanceled>>
    BY <1>8 DEF ReturnCanceled, Returns, dvars, historyVars, Outcomes
  <2> QED BY <2>1, <1>1, CallerMoves DEF Early, handleVars, laneVars
<1>9. CASE ReturnReply(c)
  <2>1. /\ caller' = [caller EXCEPT ![c] = "returned"]
        /\ \E o \in Outcomes : outcome' = [outcome EXCEPT ![c] = o]
        /\ replies' = [replies EXCEPT ![c] = "none"]
        /\ UNCHANGED <<lane, laneVars, handleVars, arbiterVars, driverClosed, answer,
                       observed, submitted, preCanceled>>
    BY <1>9, <1>1 DEF ReturnReply, dvars, historyVars
  <2> QED BY <2>1, <1>1, CallerMoves DEF Early, handleVars, laneVars
<1>10. CASE ReturnTimeout(c)
  <2>1. /\ caller' = [caller EXCEPT ![c] = "returned"]
        /\ \E o \in Outcomes : outcome' = [outcome EXCEPT ![c] = o]
        /\ UNCHANGED <<lane, laneVars, handleVars, arbiterVars, driverClosed, answer,
                       observed, submitted, replies, preCanceled>>
    BY <1>10 DEF ReturnTimeout, Returns, TimeoutResult, historyVars, Outcomes
  <2> QED BY <2>1, <1>1, CallerMoves DEF Early, handleVars, laneVars
<1> QED BY <1>2, <1>3, <1>4, <1>5, <1>6, <1>7, <1>8, <1>9, <1>10 DEF Caller

(* The steps that only move the arbiter, the dispatcher or the provider. *)
Quiet ==
  \/ BeginTerminal \/ MarkTerminal \/ Finish \/ Hide \/ CloseLane \/ StopDispatcher \/ Leave
  \/ PromptEnds \/ CloseDriver \/ DispatcherLoop \/ StopEnters \/ ProviderStep
  \/ \E c \in Calls : ContextEnds(c) /\ UNCHANGED <<dispatcherOnly, answer>>

LEMMA LoopSubmits == Loop => submitted' = submitted
BY DEF Loop, SkipCancelled, SkipSealed, StartUnavailable, Start, ReportComplete, TakeJob,
       TakeTerminal, TakeStop, TakeFact, TakeReply, GraceEnds, historyVars

LEMMA QuietSteps ==
  ASSUME SideInv, Quiet, lane' = lane
  PROVE  SideInv'
<1>1. /\ answer \in [Calls -> Answers \cup {"none", "error"}]
      /\ {discoverable, retired, laneClosed, promptEnded, terminalAsked, terminalReady,
          steeringOff, driverClosed} \subseteq BOOLEAN
      /\ arbiter \in {"running", "marking", "ended", "hidden", "retired", "unlaned",
                      "stopping", "done"}
      /\ retired => arbiter \notin {"running", "marking", "ended", "hidden"}
      /\ arbiter \notin {"running", "marking"} => steers = {} /\ pendingSteers = <<>>
  BY DEF SideInv, SideTypes, MailInv, ArbiterSideInv
<1>2. CASE \/ DispatcherLoop \/ StopEnters \/ ProviderStep
           \/ \E c \in Calls : ContextEnds(c) /\ UNCHANGED <<dispatcherOnly, answer>>
  <2>1. UNCHANGED dispatcherOnly
    BY <1>2 DEF DispatcherLoop, StopEnters, ProviderStep, ProviderResponds
  <2>2. submitted' = submitted
    BY <1>2, LoopSubmits
    DEF DispatcherLoop, StopEnters, ProviderStep, ProviderResponds, PutStop, ContextEnds,
        Settle, Respond, historyVars
  <2>3. answer' \in [Calls -> Answers \cup {"none", "error"}]
    <3>1. CASE ProviderStep
      <4>1. answer' = answer \/ \E c \in Calls, a \in Answers \cup {"error"} :
                                  answer' = [answer EXCEPT ![c] = a]
        BY <3>1 DEF ProviderStep, ProviderResponds
      <4> QED BY <4>1, <1>1
    <3>2. CASE answer' = answer
      BY <3>2, <1>1
    <3> QED BY <3>1, <3>2, <1>2 DEF DispatcherLoop, StopEnters
  <2> QED BY <1>1, <2>1, <2>2, <2>3, QuietKeeps
      DEF dispatcherOnly, laneVars, handleVars, arbiterVars
<1>3. CASE BeginTerminal \/ MarkTerminal \/ PromptEnds \/ CloseDriver
  <2>1. submitted' = submitted
    BY <1>3 DEF BeginTerminal, MarkTerminal, PromptEnds, CloseDriver, dvars, historyVars,
                ResolveTerminal
  <2>2. CASE BeginTerminal \/ MarkTerminal
    <3>1. /\ arbiter \in {"running", "marking"} /\ arbiter' \in {"running", "marking"}
          /\ {terminalAsked'} \subseteq BOOLEAN
          /\ UNCHANGED <<callerVars, laneVars, handleVars, steers, pendingSteers, promptEnded,
                         terminalReady, steeringOff, driverClosed, answer, observed>>
      BY <1>1, <2>2 DEF BeginTerminal, MarkTerminal
    <3> QED BY <1>1, <2>1, <3>1, QuietKeeps DEF laneVars, handleVars
  <2>3. CASE PromptEnds \/ CloseDriver
    <3>1. /\ arbiter' = arbiter
          /\ promptEnded' \in {promptEnded, TRUE} /\ driverClosed' \in {driverClosed, TRUE}
          /\ UNCHANGED <<callerVars, laneVars, handleVars, steers, pendingSteers, terminalAsked,
                         terminalReady, steeringOff, answer, observed>>
      BY <2>3 DEF PromptEnds, CloseDriver, arbiterVars
    <3>2. promptEnded' \in BOOLEAN /\ driverClosed' \in BOOLEAN /\ (driverClosed => driverClosed')
      <4>1. promptEnded \in BOOLEAN /\ driverClosed \in BOOLEAN
        BY <1>1
      <4> QED BY <3>1, <4>1
    <3> QED BY <1>1, <2>1, <3>1, <3>2, QuietKeeps DEF laneVars, handleVars
  <2> QED BY <1>3, <2>2, <2>3
<1>4. CASE Finish \/ Hide \/ Leave \/ CloseLane \/ StopDispatcher
  <2>1. submitted' = submitted
    BY <1>4 DEF Finish, Hide, Leave, CloseLane, StopDispatcher, CallStop, dvars, historyVars
  <2>2. CASE Finish
    BY <2>1, <2>2, <1>1, QuietKeeps DEF Finish, Ends, laneVars, handleVars
  <2>3. CASE Hide \/ Leave
    <3>1. /\ (arbiter = "ended" /\ arbiter' = "hidden") \/ (arbiter = "stopping" /\ arbiter' = "done")
          /\ {discoverable'} \subseteq BOOLEAN
          /\ UNCHANGED <<callerVars, laneVars, retired, commands, ack, tracked, steers,
                         pendingSteers, promptEnded, terminalAsked, terminalReady, steeringOff,
                         driverClosed, answer, observed>>
      BY <1>1, <2>3 DEF Hide, Leave, handleVars
    <3> QED BY <1>1, <2>1, <3>1, QuietKeeps DEF laneVars
  <2>4. CASE CloseLane \/ StopDispatcher
    <3>1. /\ \/ arbiter = "retired" /\ arbiter' = "unlaned"
             \/ arbiter = "unlaned" /\ arbiter' = "stopping"
          /\ {laneClosed'} \subseteq BOOLEAN
          /\ UNCHANGED <<callerVars, holding, handleVars, steers, pendingSteers, promptEnded,
                         terminalAsked, terminalReady, steeringOff, driverClosed, answer,
                         observed>>
      BY <1>1, <2>4 DEF CloseLane, StopDispatcher, laneVars
    <3> QED BY <1>1, <2>1, <3>1, QuietKeeps DEF handleVars
  <2> QED BY <1>4, <2>2, <2>3, <2>4
<1> QED BY <1>2, <1>3, <1>4 DEF Quiet

LEMMA SideSteps ==
  ASSUME SideInv, DispatcherTypeOK, [SteeringNext]_<<lane, svars>>
  PROVE  SideInv'
<1>1. CASE UNCHANGED <<lane, svars>>
  <2>1. /\ submitted' = submitted
        /\ UNCHANGED <<lane, callerVars, laneVars, handleVars, arbiterVars, driverClosed,
                       answer, observed>>
    BY <1>1 DEF svars, dvars, historyVars
  <2>2. /\ {discoverable, retired, laneClosed, promptEnded, terminalAsked, terminalReady,
            steeringOff, driverClosed} \subseteq BOOLEAN
        /\ answer \in [Calls -> Answers \cup {"none", "error"}]
        /\ arbiter \in {"running", "marking", "ended", "hidden", "retired", "unlaned",
                        "stopping", "done"}
        /\ retired => arbiter \notin {"running", "marking", "ended", "hidden"}
        /\ arbiter \notin {"running", "marking"} => steers = {} /\ pendingSteers = <<>>
    BY DEF SideInv, SideTypes, MailInv, ArbiterSideInv
  <2> QED BY <2>1, <2>2, QuietKeeps DEF laneVars, handleVars, arbiterVars
<1>2. CASE SteeringNext
  <2>0. lane' = lane /\ Turn
    BY <1>2 DEF SteeringNext
  <2>1. CASE Quiet
    BY <2>0, <2>1, QuietSteps
  <2>2. ASSUME NEW c \in Calls, Caller(c) PROVE SideInv'
    BY <2>0, <2>2, CallerKeeps
  <2>3. CASE AcceptCommand
    <3>1. submitted \in Seq(Calls)
      BY DEF DispatcherTypeOK
    <3>2. AnswerLocally(Head(commands)) \/ Forward(Head(commands))
      BY <2>3 DEF AcceptCommand
    <3> QED BY <2>0, <2>3, <3>1, <3>2, AnswerLocallyKeeps, ForwardKeeps
  <2>4. CASE ReadEvent
    BY <2>0, <2>4, ReadKeeps
  <2>5. ASSUME NEW i \in 1..Len(pendingSteers), EmitSteer(i) PROVE SideInv'
    BY <2>0, <2>5, EmitKeeps
  <2>6. CASE Abandon \/ FailRegression \/ Retire
    BY <2>0, <2>6, AbandonKeeps, RegressionKeeps, RetireKeeps
  <2> QED BY <2>0, <2>1, <2>2, <2>3, <2>4, <2>5, <2>6 DEF Turn, Arbiter, Quiet
<1> QED BY <1>1, <1>2

(* The turn moves its dispatcher by the dispatcher's own steps only. *)
LEMMA TurnDrives ==
  ASSUME SideInv, [SteeringNext]_<<lane, svars>>
  PROVE  [DispatcherNext]_dvars
<1>1. CASE UNCHANGED <<lane, svars>>
  BY <1>1 DEF svars
<1>2. ASSUME NEW c \in Calls, Caller(c) PROVE [DispatcherNext]_dvars
  <2>1. CASE \/ Find(c) \/ NoLane(c) \/ Send(c) \/ AwaitAck(c) \/ ReturnCanceled(c)
             \/ ReturnReply(c)
    BY <2>1 DEF Find, NoLane, Send, AwaitAck, ReturnCanceled, ReturnReply
  <2>2. CASE Reserve(c)
    BY <2>2 DEF Reserve, Seal, DispatcherNext, dvars, attemptVars
  <2>3. CASE GiveUp(c)
    BY <2>3 DEF GiveUp, Seal, DispatcherNext, dvars, attemptVars
  <2>4. CASE ReturnTimeout(c)
    BY <2>4 DEF ReturnTimeout, Seal, DispatcherNext
  <2> QED BY <1>2, <2>1, <2>2, <2>3, <2>4 DEF Caller
<1>3. CASE AcceptCommand
  <2>1. PICK c : c = Head(commands)
    OBVIOUS
  <2>2. c \in Calls /\ ~WasSubmitted(c)
    BY <1>3, <2>1, CommandFacts
  <2>3. CASE AnswerLocally(c)
    <3>1. attempt' = [attempt EXCEPT ![c] = Sealed(c)]
      BY <2>3 DEF AnswerLocally, Sealed
    <3>2. Seal(c)
      BY <2>2, <2>3, <3>1 DEF AnswerLocally, Seal
    <3> QED BY <2>2, <3>2 DEF DispatcherNext
  <2>4. CASE Forward(c)
    BY <2>2, <2>4 DEF Forward, DispatcherNext
  <2> QED BY <1>3, <2>1, <2>3, <2>4 DEF AcceptCommand
<1>4. CASE ReadEvent
  BY <1>4 DEF ReadEvent, DispatcherNext
<1>5. CASE \/ BeginTerminal \/ Finish \/ Abandon \/ FailRegression \/ Hide \/ Retire
           \/ CloseLane \/ Leave \/ PromptEnds \/ CloseDriver
           \/ \E i \in 1..Len(pendingSteers) : EmitSteer(i)
  BY <1>5 DEF BeginTerminal, Finish, Abandon, FailRegression, Hide, Retire, CloseLane, Leave,
              PromptEnds, CloseDriver, EmitSteer
<1>6. CASE MarkTerminal \/ StopDispatcher
  BY <1>6 DEF MarkTerminal, StopDispatcher, DispatcherNext
<1>7. CASE DispatcherLoop \/ StopEnters
  BY <1>7 DEF DispatcherLoop, StopEnters, DispatcherNext
<1>8. CASE ProviderStep
  <2>1. Provider
    BY <1>8 DEF ProviderStep, ProviderResponds, Provider
  <2> QED BY <2>1 DEF DispatcherNext
<1>9. ASSUME NEW c \in Calls, ContextEnds(c) PROVE [DispatcherNext]_dvars
  BY <1>9 DEF DispatcherNext
<1> QED BY <1>1, <1>2, <1>3, <1>4, <1>5, <1>6, <1>7, <1>8, <1>9 DEF SteeringNext, Turn, Arbiter

LEMMA SteeringKeepsBoth == SteeringSpec => [](DInv /\ SideInv)
<1>1. SteeringInit => DInv /\ SideInv
  BY SideStarts, DispatcherStarts DEF SteeringInit
<1>2. DInv /\ SideInv /\ [SteeringNext]_<<lane, svars>> => (DInv /\ SideInv)'
  BY TurnDrives, DispatcherSteps, SideSteps DEF DInv
<1> QED BY <1>1, <1>2, PTL DEF SteeringSpec

(* Callers, arbiter and provider touch the dispatcher through its own steps
   only: what the arbiter answers without it is a call it never had
   (acceptSteer), and a caller seals only what its ended context lets it. *)
THEOREM TurnDrivesDispatcher == SteeringSpec => DrivesDispatcher
<1>1. SteeringInit => DispatcherInit
  BY DEF SteeringInit
<1>2. SideInv /\ [SteeringNext]_<<lane, svars>> => [DispatcherNext]_dvars
  BY TurnDrives
<1> QED BY <1>1, <1>2, SteeringKeepsBoth, PTL DEF SteeringSpec, DispatcherSpec, DrivesDispatcher

-----------------------------------------------------------------------------
(***************************************************************************)
(* What callers and the stream are told.                                   *)
(***************************************************************************)
(* What is settled of a call stays so: a sealed attempt, a request refused or
   written, a call that was started and is active no more. *)
LEMMA SettledStays ==
  ASSUME DInv, [DispatcherNext]_dvars, NEW c \in Calls
  PROVE  /\ attempt[c] = "notAdmitted" => attempt'[c] = "notAdmitted"
         /\ wire[c] \in {"written", "refused"} => wire'[c] = wire[c]
         /\ wire[c] # "idle" /\ active.id # c => active'.id # c
         /\ ~WasSubmitted(c) /\ wire[c] = "idle" /\ attempt[c] = "notAdmitted" =>
              wire'[c] = "idle"
<1>1. /\ attempt \in [Calls -> Admissions]
      /\ wire \in [Calls -> {"idle", "started", "written", "refused"}]
      /\ queue \in Seq(Calls) /\ active \in Actives /\ inputs \in Seq(Items)
  BY DEF DInv, DispatcherTypeOK
<1>2. None \notin Calls
  BY DispatcherAssumption
<1>3. CASE SkipCancelled \/ SkipSealed \/ StartUnavailable
  <2>1. /\ attempt' = [attempt EXCEPT ![Head(queue)] = "notAdmitted"]
        /\ wire' = wire /\ active' = active
    BY <1>3, SkipsReject DEF RejectHead, providerVars
  <2> QED BY <2>1, <1>1
<1>4. CASE Start
  <2>1. PICK h : h = Head(queue)
    OBVIOUS
  <2>2. h \in Calls /\ wire[h] = "idle" /\ attempt[h] = "pending"
    BY <1>4, <2>1, HeadIsIdle DEF Start, BeginsStart
  <2>3. /\ attempt' = [attempt EXCEPT ![h] = "pendingWriter"]
        /\ wire' = [wire EXCEPT ![h] = "started"]
        /\ active' = [NoActive EXCEPT !.id = h, !.admission = "pendingWriter"]
    BY <1>4, <2>1 DEF Start
  <2>4. active'.id = h
    BY <2>3 DEF NoActive
  <2>5. /\ attempt'[c] = IF c = h THEN "pendingWriter" ELSE attempt[c]
        /\ wire'[c] = IF c = h THEN "started" ELSE wire[c]
    BY <2>2, <2>3, <1>1
  <2> QED BY <2>2, <2>4, <2>5
<1>5. CASE ReportComplete
  BY <1>5 DEF ReportComplete, attemptVars, providerVars
<1>6. CASE TakeJob
  <2>1. wire' = wire /\ active' = active
    BY <1>6 DEF TakeJob, providerVars
  <2>2. attempt' = attempt \/ attempt' = [attempt EXCEPT ![Head(inputs)] = "notAdmitted"]
    BY <1>6 DEF TakeJob
  <2> QED BY <2>1, <2>2, <1>1
<1>7. CASE TakeTerminal
  <2>1. /\ wire' = wire
        /\ active'.id = active.id
    BY <1>1, <1>7 DEF TakeTerminal, providerVars, Resolved, Actives
  <2>2. attempt[c] = "notAdmitted" => attempt'[c] = "notAdmitted"
    <3> DEFINE dropped == {queue[i] : i \in 1..Len(queue)}
               now == active.id # None /\ ~active.resolved /\ active.admission # "pendingWriter"
    <3>1. attempt'[c] = IF c \in dropped THEN "notAdmitted"
                        ELSE IF now /\ c = active.id THEN ResolvedMark(active) ELSE attempt[c]
      BY <1>7 DEF TakeTerminal
    <3> HIDE DEF dropped, now
    <3> QED BY <3>1 DEF ResolvedMark, Marked
  <2> QED BY <2>1, <2>2
<1>8. CASE TakeStop
  BY <1>8 DEF TakeStop, attemptVars, providerVars
<1>9. CASE TakeFact
  <2>1. wire' = wire /\ active'.id = active.id
    BY <1>1, <1>9 DEF TakeFact, Resolved, Actives
  <2>2. attempt' = [attempt EXCEPT ![active.id] = Marked(active.id, FactOf(active.id))]
    BY <1>9 DEF TakeFact
  <2> QED BY <2>1, <2>2, <1>1 DEF Marked
<1>10. CASE TakeReply
  <2>1. wire' = wire /\ active'.id = None
    BY <1>10 DEF TakeReply, NoActive
  <2>2. attempt' = [attempt EXCEPT ![active.id] = FinishMark(active.id, Known, reply[active.id])]
    BY <1>10 DEF TakeReply
  <2>3. attempt[c] = "notAdmitted" /\ c = active.id =>
          FinishMark(active.id, Known, reply[active.id]) = "notAdmitted"
    BY DEF FinishMark, Marked
  <2> QED BY <2>1, <2>2, <2>3, <1>1, <1>2
<1>11. CASE GraceEnds
  BY <1>1, <1>11 DEF GraceEnds, attemptVars, providerVars, Resolved, Actives
<1>12. CASE Provider
  <2>1. attempt' = attempt /\ active' = active
    BY <1>12 DEF Provider, Settle, Respond, attemptVars, loopVars
  <2>2. wire[c] # "started" => wire'[c] = wire[c]
    BY <1>1, <1>12 DEF Provider, Settle, Respond
  <2> QED BY <2>1, <2>2
<1>13. ASSUME NEW d \in Calls, Submit(d) \/ ContextEnds(d) PROVE attempt' = attempt /\ wire' = wire /\ active' = active
  BY <1>13 DEF Submit, ContextEnds, attemptVars, loopVars, providerVars
<1>14. ASSUME NEW d \in Calls, Seal(d)
       PROVE  /\ wire' = wire /\ active' = active
              /\ attempt[c] = "notAdmitted" => attempt'[c] = "notAdmitted"
  BY <1>1, <1>14 DEF Seal, Sealed, loopVars, providerVars
<1>15. CASE ResolveTerminal \/ Read \/ CallStop \/ PutStop \/ UNCHANGED dvars
  BY <1>15 DEF ResolveTerminal, Read, CallStop, PutStop, dvars, attemptVars, loopVars, providerVars
<1> QED BY <1>3, <1>4, <1>5, <1>6, <1>7, <1>8, <1>9, <1>10, <1>11, <1>12, <1>13, <1>14, <1>15
        DEF DispatcherNext, Loop

(* A command that was refused, or that waits in a retired mailbox. *)
Untouchable(c) == ack[c] # "accepted" /\ (InMailbox(c) => retired)

(* The stream observed o of the call c; o waits to be observed. *)
Seen(c, o) == \E i \in 1..Len(observed[c]) : observed[c][i] = o
Waits(c, o) == \E i \in 1..Len(pendingSteers) :
                 pendingSteers[i].id = c /\ pendingSteers[i].outcome = o

(* What Steer returned of a call, when it decides anything, is what the stream
   observes of it; a call cancelled before the mailbox was sealed there. *)
Agrees(c) ==
  /\ outcome[c] # "none" => caller[c] = "returned"
  /\ replies[c] # "none" => \A o \in Outcomes : Seen(c, o) => o = replies[c]
  /\ outcome[c] \notin Undecided \cup {"none"} =>
       \/ c \in preCanceled /\ outcome[c] = "fallback"
       \/ /\ ack[c] = "accepted" /\ c \notin steers /\ c \notin PendingCalls
          /\ \A o \in Outcomes : Seen(c, o) => o = outcome[c]
       \/ Untouchable(c)
  /\ c \in preCanceled =>
       /\ attempt[c] = "notAdmitted" /\ ~WasSubmitted(c) /\ caller[c] \notin {"idle", "found"}
       /\ \A o \in Outcomes : Seen(c, o) \/ Waits(c, o) => o = "fallback"
       /\ replies[c] \in {"none", "fallback"}

(* What is said of a call is decided when it is said: nothing later makes an
   outcome that may be retried, or one that was delivered, untrue. *)
Final(c, o) ==
  /\ o \in RetrySafe =>
       \/ attempt[c] = "notAdmitted"
       \/ wire[c] = "refused"
       \/ /\ wire[c] = "written" /\ active.id # c
          /\ answer[c] \in {"promptRequired", "noDelivery"}
       \/ caller[c] = "returned" /\ Untouchable(c)
  /\ o = "injected" => wire[c] = "written" /\ active.id # c /\ answer[c] = "injected"
  /\ o = "untrackable" => wire[c] = "written" /\ active.id # c /\ answer[c] = "startedNewTurn"
Word(c, o) == outcome[c] = o \/ replies[c] = o \/ Seen(c, o) \/ Waits(c, o)
True(c) == \A o \in Outcomes : Word(c, o) => Final(c, o)
CallInv == \A c \in Calls : Agrees(c) /\ True(c)

(* A step that makes nothing new of the call d. *)
Aside(d) ==
  /\ caller'[d] = caller[d] /\ outcome'[d] = outcome[d] /\ replies'[d] = replies[d]
  /\ observed'[d] = observed[d] /\ (d \in preCanceled' <=> d \in preCanceled)
  /\ ack'[d] = ack[d] \/ (ack[d] = "pending" /\ ack'[d] = "terminal" /\ retired')
  /\ d \in steers' => d \in steers
  /\ d \in PendingCalls' => d \in PendingCalls
  /\ \A o \in Outcomes : Waits(d, o)' => Waits(d, o)
  /\ InMailbox(d)' => InMailbox(d)
  /\ retired => retired'
  /\ WasSubmitted(d)' => WasSubmitted(d)

LEMMA AsideUnchanged ==
  ASSUME NEW d \in Calls, UNCHANGED <<caller, outcome, replies, observed, preCanceled, ack, steers,
                                      pendingSteers, commands, retired, submitted>>
  PROVE  Aside(d)
BY DEF Aside, PendingCalls, Waits, InMailbox, In, WasSubmitted

LEMMA AsideAgrees ==
  ASSUME NEW d \in Calls, Aside(d), Agrees(d), attempt[d] = "notAdmitted" => attempt'[d] = "notAdmitted"
  PROVE  Agrees(d)'
<1>1. \A o : Seen(d, o)' <=> Seen(d, o)
  BY DEF Aside, Seen
<1>2. Untouchable(d) => Untouchable(d)'
  BY DEF Aside, Untouchable
<1> QED BY <1>1, <1>2 DEF Aside, Agrees

(* The arbiter reads the report e of the call d, and answers d with o. *)
Reads(d, e) ==
  /\ e \in Event /\ e.id = d /\ In(e, events) /\ Read
  /\ d \in steers /\ d \notin steers'
  /\ \A o \in Outcomes : Waits(d, o)' => o = OutcomeOf(e)
  /\ UNCHANGED <<caller, outcome, replies, observed, preCanceled, ack, commands, retired, answer>>
Tells(d, o) ==
  /\ o \in Outcomes /\ ((d \in steers /\ o = FailureOutcome(d)) \/ Waits(d, o))
  /\ d \in steers \cup PendingCalls /\ d \notin steers' /\ d \notin PendingCalls'
  /\ replies'[d] = o /\ \A x \in Outcomes : Seen(d, x)' => x = o
  /\ UNCHANGED <<dvars, caller, outcome, preCanceled, ack, commands, retired, answer>>

LEMMA OthersStayAside ==
  ASSUME SideInv, NEW c \in Calls, NEW d \in Calls, d # c, Caller(c)
  PROVE  Aside(d)
<1>1. /\ caller \in [Calls -> {"idle", "found", "reserved", "sent", "refused", "entered",
                               "returned"}]
      /\ outcome \in [Calls -> Outcomes \cup {"none"}]
      /\ replies \in [Calls -> Outcomes \cup {"none"}]
      /\ ack \in [Calls -> {"pending", "accepted", "rejected", "terminal"}]
      /\ commands \in Seq(Calls)
  BY DEF SideInv, SideTypes
<1>2. /\ caller'[d] = caller[d] /\ outcome'[d] = outcome[d] /\ replies'[d] = replies[d]
      /\ (d \in preCanceled' <=> d \in preCanceled) /\ ack'[d] = ack[d]
      /\ observed' = observed /\ submitted' = submitted /\ retired' = retired
      /\ steers' = steers /\ pendingSteers' = pendingSteers
  <2>1. CASE \/ Find(c) \/ NoLane(c) \/ ReturnCanceled(c) \/ ReturnReply(c)
    BY <2>1, <1>1 DEF Find, NoLane, ReturnCanceled, ReturnReply, Returns, Moves, dvars, historyVars,
                      handleVars, arbiterVars
  <2>2. CASE Reserve(c) \/ GiveUp(c) \/ ReturnTimeout(c)
    BY <2>2, <1>1 DEF Reserve, GiveUp, ReturnTimeout, Returns, historyVars, handleVars, arbiterVars
  <2>3. CASE Send(c)
    BY <2>3, <1>1 DEF Send, Moves, dvars, historyVars, arbiterVars
  <2>4. CASE AwaitAck(c)
    BY <2>4, <1>1 DEF AwaitAck, Moves, dvars, historyVars, arbiterVars
  <2> QED BY <2>1, <2>2, <2>3, <2>4 DEF Caller
<1>3. commands' = commands \/ commands' = Append(commands, c)
  BY DEF Caller, Find, Reserve, NoLane, Send, AwaitAck, GiveUp, ReturnCanceled, ReturnReply,
         ReturnTimeout, handleVars
<1>4. InMailbox(d)' => InMailbox(d)
  <2>1. \A x : In(x, Append(commands, c)) <=> In(x, commands) \/ x = c
    BY <1>1, AppendFacts
  <2> QED BY <2>1, <1>3 DEF InMailbox, In
<1> QED BY <1>2, <1>4 DEF Aside, PendingCalls, Waits, WasSubmitted

(* A command is taken: it concerns the call at the head alone. *)
LEMMA CommandAside ==
  ASSUME SideInv, DispatcherTypeOK, AcceptCommand, NEW d \in Calls, d # Head(commands)
  PROVE  Aside(d)
<1>1. PICK c : c = Head(commands)
  OBVIOUS
<1>2. /\ c \in Calls /\ c # d /\ ack' = [ack EXCEPT ![c] = "accepted"]
      /\ \A x : InMailbox(x)' => InMailbox(x)
      /\ UNCHANGED <<caller, preCanceled, outcome, replies, retired, observed>>
  BY <1>1, CommandFacts
<1>3. pendingSteers \in Seq(Pending) /\ ack \in [Calls -> {"pending", "accepted", "rejected", "terminal"}]
      /\ submitted \in Seq(Calls)
  BY DEF SideInv, SideTypes, DispatcherTypeOK
<1>4. CASE AnswerLocally(c)
  <2>1. PICK o \in Outcomes : Queued(c, o)
    BY <1>4 DEF AnswerLocally, Outcomes
  <2>2. /\ PendingCalls' = PendingCalls \cup {c}
        /\ \A i \in 1..Len(pendingSteers') :
             \/ i \in 1..Len(pendingSteers) /\ pendingSteers'[i] = pendingSteers[i]
             \/ i = Len(pendingSteers) + 1 /\ pendingSteers'[i].id = c
                /\ pendingSteers'[i].outcome = o
    BY <1>2, <1>3, <2>1, QueuedFacts
  <2>3. steers' = steers /\ submitted' = submitted
    BY <1>4 DEF AnswerLocally, historyVars
  <2>4. \A x \in Outcomes : Waits(d, x)' => Waits(d, x)
    BY <1>2, <2>2 DEF Waits
  <2> QED BY <1>2, <1>3, <2>2, <2>3, <2>4 DEF Aside, WasSubmitted
<1>5. CASE Forward(c)
  <2>1. /\ pendingSteers' = pendingSteers /\ steers' = steers \cup {c}
        /\ submitted' = Append(submitted, c)
    BY <1>5 DEF Forward, Submit
  <2>2. \A x : In(x, submitted') <=> In(x, submitted) \/ x = c
    BY <2>1, <1>2, <1>3, AppendFacts
  <2> QED BY <1>2, <1>3, <2>1, <2>2 DEF Aside, WasSubmitted, In, PendingCalls, Waits
<1> QED BY <1>1, <1>4, <1>5 DEF AcceptCommand

LEMMA ReadAside ==
  ASSUME SideInv, DispatcherTypeOK, ReadEvent, NEW d \in Calls
  PROVE  Aside(d) \/ Reads(d, Head(events))
<1>1. PICK e : e = Head(events)
  OBVIOUS
<1>2. /\ In(e, events) /\ Read
      /\ UNCHANGED <<caller, preCanceled, outcome, replies, laneVars, discoverable, retired,
                     commands, ack, tracked, promptEnded, terminalAsked, driverClosed,
                     answer, observed, submitted>>
  BY <1>1, ReadFacts
<1>3. CASE steers' = steers /\ pendingSteers' = pendingSteers
  BY <1>2, <1>3, AsideUnchanged
<1>4. ASSUME e \in Event, e.id \in steers, steers' = steers \ {e.id},
             OutcomeOf(e) \in Outcomes, Queued(e.id, OutcomeOf(e))
      PROVE  Aside(d) \/ Reads(d, e)
  <2>1. PICK c, o : c = e.id /\ o = OutcomeOf(e)
    OBVIOUS
  <2>2. c \in Calls /\ c \notin PendingCalls
    BY <1>4, <2>1, ReportTypes DEF SideInv, ArbiterSideInv
  <2>3. pendingSteers \in Seq(Pending)
    BY DEF SideInv, SideTypes
  <2>4. /\ PendingCalls' = PendingCalls \cup {c}
        /\ \A i \in 1..Len(pendingSteers') :
             \/ i \in 1..Len(pendingSteers) /\ pendingSteers'[i] = pendingSteers[i]
             \/ i = Len(pendingSteers) + 1 /\ pendingSteers'[i].id = c
                /\ pendingSteers'[i].outcome = o
    BY <1>4, <2>1, <2>2, <2>3, QueuedFacts
  <2>5. CASE d = c
    <3>1. \A k \in 1..Len(pendingSteers) : pendingSteers[k].id # c
      BY <2>2 DEF PendingCalls
    <3>2. \A x \in Outcomes : Waits(d, x)' => x = o
      BY <2>4, <2>5, <3>1 DEF Waits
    <3> QED BY <1>2, <1>4, <2>1, <2>5, <3>2 DEF Reads
  <2>6. CASE d # c
    <3>1. \A x \in Outcomes : Waits(d, x)' => Waits(d, x)
      BY <2>4, <2>6 DEF Waits
    <3>2. \A x : InMailbox(x)' <=> InMailbox(x)
      BY <1>2 DEF InMailbox, In
    <3>3. \A x : WasSubmitted(x)' <=> WasSubmitted(x)
      BY <1>2 DEF WasSubmitted
    <3> QED BY <1>2, <1>4, <2>1, <2>4, <2>6, <3>1, <3>2, <3>3 DEF Aside
  <2> QED BY <2>5, <2>6
<1> QED BY <1>1, <1>3, <1>4, ReadFacts

(* The call an answer is for, and the others. *)
LEMMA AnsweredAside ==
  ASSUME SideInv, NEW cs \in SUBSET Calls, cs \subseteq steers \cup PendingCalls,
         NEW res, \A c \in cs : res[c] \in Outcomes, Answered(cs, res),
         \A c \in cs : (c \in steers /\ res[c] = FailureOutcome(c)) \/ Waits(c, res[c]),
         steers' = steers \ cs, PendingCalls' = PendingCalls \ cs,
         \A c \in Calls, o \in Outcomes : Waits(c, o)' => Waits(c, o),
         UNCHANGED <<dvars, handleVars, answer>>,
         NEW d \in Calls
  PROVE  Aside(d) \/ \E o \in Outcomes : Tells(d, o)
<1>1. SideTypes
  BY DEF SideInv
<1>2. /\ \A c \in Calls : replies'[c] = IF c \in cs THEN res[c] ELSE replies[c]
      /\ \A c \in Calls : \/ observed'[c] = observed[c] /\ (c \in cs => driverClosed)
                          \/ c \in cs /\ observed'[c] = Append(observed[c], res[c])
      /\ caller' = caller /\ preCanceled' = preCanceled /\ outcome' = outcome
  BY <1>1, AnsweredFacts
<1>3. retired' = retired /\ commands' = commands /\ ack' = ack /\ submitted' = submitted
  BY DEF handleVars, dvars, historyVars
<1>4. CASE d \notin cs
  <2>1. \A x : InMailbox(x)' <=> InMailbox(x)
    BY <1>3 DEF InMailbox, In
  <2>2. \A x : WasSubmitted(x)' <=> WasSubmitted(x)
    BY <1>3 DEF WasSubmitted
  <2> QED BY <1>2, <1>3, <1>4, <2>1, <2>2 DEF Aside
<1>5. CASE d \in cs
  <2>1. PICK o : o = res[d]
    OBVIOUS
  <2>2. o \in Outcomes /\ observed[d] = <<>>
    BY <2>1, <1>5 DEF SideInv, ArbiterSideInv
  <2>3. \A x \in Outcomes : Seen(d, x)' => x = o
    <3>1. CASE observed'[d] = observed[d]
      BY <3>1, <2>2 DEF Seen
    <3>2. CASE observed'[d] = Append(observed[d], res[d])
      <4>1. observed'[d] = <<o>>
        BY <2>1, <2>2, <3>2
      <4> QED BY <4>1 DEF Seen
    <3> QED BY <3>1, <3>2, <1>2
  <2> QED BY <1>2, <1>3, <1>5, <2>1, <2>2, <2>3 DEF Tells
<1> QED BY <1>4, <1>5

LEMMA EmitAside ==
  ASSUME SideInv, NEW i \in 1..Len(pendingSteers), EmitSteer(i), NEW d \in Calls
  PROVE  Aside(d) \/ \E o \in Outcomes : Tells(d, o)
<1>1. PICK c, o : c = pendingSteers[i].id /\ o = pendingSteers[i].outcome
  OBVIOUS
<1>2. /\ c \in Calls /\ c \in PendingCalls /\ c \notin steers /\ o \in Outcomes
      /\ PendingCalls' = PendingCalls \ {c}
      /\ \A k \in 1..Len(pendingSteers') :
           \E j \in 1..Len(pendingSteers) : pendingSteers'[k] = pendingSteers[j]
      /\ UNCHANGED <<dvars, handleVars, arbiterStill, steers, terminalReady, steeringOff,
                     driverClosed, answer>>
  BY <1>1, EmitFacts
<1> DEFINE res == [x \in Calls |-> o]
<1>3. \A x \in {c} : res[x] = o
  BY <1>2
<1>4. Answered({c}, res)
  <2>1. Answered({pendingSteers[i].id}, [x \in Calls |-> pendingSteers[i].outcome])
    BY DEF EmitSteer
  <2> QED BY <2>1, <1>1
<1> HIDE DEF res
<1>5. Waits(c, o)
  BY <1>1 DEF Waits
<1>6. \A x \in Calls, w \in Outcomes : Waits(x, w)' => Waits(x, w)
  BY <1>2 DEF Waits
<1>7. /\ {c} \in SUBSET Calls /\ {c} \subseteq steers \cup PendingCalls
      /\ steers' = steers \ {c}
  BY <1>2
<1>8. \A x \in {c} : res[x] \in Outcomes /\ Waits(x, res[x])
  BY <1>2, <1>3, <1>5
<1> QED BY <1>2, <1>4, <1>6, <1>7, <1>8, AnsweredAside

LEMMA RegressionAside ==
  ASSUME SideInv, FailRegression, NEW d \in Calls
  PROVE  Aside(d) \/ \E o \in Outcomes : Tells(d, o)
<1> DEFINE cs == steers \cup PendingCalls
<1>1. /\ cs \subseteq Calls
      /\ \A c \in cs : /\ RegressionResult[c] \in Outcomes
                       /\ (c \in steers /\ RegressionResult[c] = FailureOutcome(c))
                          \/ Waits(c, RegressionResult[c])
  BY RegressionFacts DEF Waits
<1>2. /\ Answered(cs, RegressionResult) /\ steers' = {} /\ pendingSteers' = <<>>
      /\ UNCHANGED <<dvars, handleVars, answer>>
  BY DEF FailRegression, RegressionResult
<1>3. PendingCalls' = {} /\ \A x \in Calls, w \in Outcomes : ~Waits(x, w)'
  BY <1>2 DEF PendingCalls, Waits
<1>4. steers' = steers \ cs /\ PendingCalls' = PendingCalls \ cs
  BY <1>2, <1>3
<1> HIDE DEF cs
<1>5. cs \in SUBSET Calls /\ cs \subseteq steers \cup PendingCalls
  BY <1>1 DEF cs
<1>6. \A c \in cs : RegressionResult[c] \in Outcomes
  BY <1>1
<1>7. \A c \in cs : (c \in steers /\ RegressionResult[c] = FailureOutcome(c))
                    \/ Waits(c, RegressionResult[c])
  BY <1>1
<1> QED BY <1>2, <1>3, <1>4, <1>5, <1>6, <1>7, AnsweredAside

(* The arbiter gives up on everything, or retires its handle. *)
LEMMA LeavingAside ==
  ASSUME SideInv, Abandon \/ Retire, NEW d \in Calls
  PROVE  Aside(d)
<1>1. CASE Abandon
  <2>1. /\ UNCHANGED <<caller, preCanceled, outcome, replies, commands, retired, ack, observed,
                       submitted>>
        /\ steers' = {} /\ pendingSteers' = <<>>
    BY <1>1 DEF Abandon, callerVars, handleVars, dvars, historyVars
  <2> QED BY <2>1 DEF Aside, PendingCalls, Waits, InMailbox, In, WasSubmitted
<1>2. CASE Retire
  <2>1. /\ UNCHANGED <<caller, preCanceled, outcome, replies, commands, observed, submitted,
                       steers, pendingSteers>>
        /\ retired' = TRUE /\ ack' = RetiredAcks
    BY <1>2 DEF Retire, callerVars, dvars, historyVars
  <2>2. ack'[d] = ack[d] \/ (ack[d] = "pending" /\ ack'[d] = "terminal" /\ retired')
    BY <2>1 DEF RetiredAcks
  <2> QED BY <2>1, <2>2 DEF Aside, PendingCalls, Waits, InMailbox, In, WasSubmitted
<1> QED BY <1>1, <1>2

LEMMA QuietAside ==
  ASSUME Quiet, NEW d \in Calls
  PROVE  Aside(d)
<1>1. CASE \/ DispatcherLoop \/ StopEnters \/ ProviderStep
           \/ \E c \in Calls : ContextEnds(c) /\ UNCHANGED <<dispatcherOnly, answer>>
  <2>1. UNCHANGED dispatcherOnly
    BY <1>1 DEF DispatcherLoop, StopEnters, ProviderStep, ProviderResponds
  <2>2. submitted' = submitted
    BY <1>1, LoopSubmits
    DEF DispatcherLoop, StopEnters, ProviderStep, ProviderResponds, PutStop, ContextEnds,
        Settle, Respond, historyVars
  <2> QED BY <2>1, <2>2, AsideUnchanged DEF dispatcherOnly, callerVars, handleVars, arbiterVars
<1>2. CASE BeginTerminal \/ MarkTerminal \/ PromptEnds \/ CloseDriver
  BY <1>2, AsideUnchanged
  DEF BeginTerminal, MarkTerminal, PromptEnds, CloseDriver, ResolveTerminal, dvars, historyVars,
      callerVars, handleVars, arbiterVars
<1>3. CASE Finish \/ Hide \/ Leave
  BY <1>3, AsideUnchanged DEF Finish, Hide, Leave, dvars, historyVars, callerVars, handleVars
<1>4. CASE CloseLane \/ StopDispatcher
  BY <1>4, AsideUnchanged
  DEF CloseLane, StopDispatcher, CallStop, dvars, historyVars, callerVars, handleVars
<1> QED BY <1>1, <1>2, <1>3, <1>4 DEF Quiet

(* What a step may mean for one call. *)
LEMMA StepOfCall ==
  ASSUME SideInv, DispatcherTypeOK, [SteeringNext]_<<lane, svars>>, NEW d \in Calls
  PROVE  \/ Aside(d)
         \/ Caller(d)
         \/ AcceptCommand /\ d = Head(commands)
         \/ \E e \in Event : Reads(d, e)
         \/ \E o \in Outcomes : Tells(d, o)
<1>1. CASE UNCHANGED <<lane, svars>>
  BY <1>1, AsideUnchanged DEF svars, dvars, historyVars, callerVars, handleVars, arbiterVars
<1>2. ASSUME NEW c \in Calls, Caller(c) PROVE Aside(d) \/ Caller(d)
  BY <1>2, OthersStayAside
<1>3. CASE AcceptCommand
  BY <1>3, CommandAside
<1>4. CASE ReadEvent
  <2>1. Aside(d) \/ Reads(d, Head(events))
    BY <1>4, ReadAside
  <2> QED BY <2>1 DEF Reads
<1>5. ASSUME NEW i \in 1..Len(pendingSteers), EmitSteer(i)
      PROVE  Aside(d) \/ \E o \in Outcomes : Tells(d, o)
  BY <1>5, EmitAside
<1>6. CASE FailRegression
  BY <1>6, RegressionAside
<1>7. CASE Abandon \/ Retire
  BY <1>7, LeavingAside
<1>8. CASE Quiet
  BY <1>8, QuietAside
<1> QED BY <1>1, <1>2, <1>3, <1>4, <1>5, <1>6, <1>7, <1>8 DEF SteeringNext, Turn, Arbiter, Quiet

(* Nothing was made of a call whose acknowledgement is not an acceptance. *)
LEMMA NothingMade ==
  ASSUME SideInv, DInv, NEW c \in Calls, ack[c] # "accepted"
  PROVE  /\ c \notin steers /\ c \notin PendingCalls /\ ~WasSubmitted(c)
         /\ observed[c] = <<>> /\ replies[c] = "none"
         /\ wire[c] = "idle" /\ attempt[c] \in {"pending", "notAdmitted"}
         /\ \A o : ~Seen(c, o) /\ ~Waits(c, o)
<1>1. /\ c \notin steers /\ c \notin PendingCalls /\ ~WasSubmitted(c)
      /\ observed[c] = <<>> /\ replies[c] = "none"
  BY DEF SideInv, ArbiterSideInv
<1>2. wire[c] = "idle" /\ attempt[c] \in {"pending", "notAdmitted"}
  BY <1>1 DEF DInv, ProviderInv
<1>3. \A o : ~Seen(c, o) /\ ~Waits(c, o)
  BY <1>1 DEF Seen, Waits, PendingCalls
<1> QED BY <1>1, <1>2, <1>3

(* A caller that has not sent its command, or whose command was refused. *)
LEMMA EarlyIsUntouchable ==
  ASSUME SideInv, NEW c \in Calls, caller[c] \in Early \cup {"refused"}
  PROVE  Untouchable(c) /\ (caller[c] \in Early => ~InMailbox(c) /\ ack[c] = "pending")
BY DEF SideInv, MailInv, Untouchable, Early

LEMMA CallerAgrees ==
  ASSUME SideInv, DInv, NEW c \in Calls, Agrees(c), Caller(c),
         attempt[c] = "notAdmitted" => attempt'[c] = "notAdmitted"
  PROVE  Agrees(c)'
<1>1. /\ caller \in [Calls -> {"idle", "found", "reserved", "sent", "refused", "entered",
                               "returned"}]
      /\ outcome \in [Calls -> Outcomes \cup {"none"}]
      /\ replies \in [Calls -> Outcomes \cup {"none"}]
      /\ ack \in [Calls -> {"pending", "accepted", "rejected", "terminal"}]
      /\ attempt \in [Calls -> Admissions]
  BY DEF SideInv, SideTypes, DInv, DispatcherTypeOK
<1>2. /\ observed' = observed /\ submitted' = submitted
      /\ steers' = steers /\ pendingSteers' = pendingSteers
  BY DEF Caller, Find, Reserve, NoLane, Send, AwaitAck, GiveUp, ReturnCanceled, ReturnReply,
         ReturnTimeout, dvars, historyVars, arbiterVars
<1>3. /\ \A o : Seen(c, o)' <=> Seen(c, o)
      /\ \A o : Waits(c, o)' <=> Waits(c, o)
      /\ PendingCalls' = PendingCalls /\ (WasSubmitted(c)' <=> WasSubmitted(c))
  BY <1>2 DEF Seen, Waits, PendingCalls, WasSubmitted
<1>4. caller[c] # "returned" => outcome[c] = "none"
  BY DEF Agrees
<1>5. ASSUME caller[c] \in {"idle", "found", "refused"}, UNCHANGED <<ack, commands, retired>>,
             preCanceled' = preCanceled, replies' = replies, caller'[c] \in {"found", "returned"},
             caller'[c] = "found" => caller[c] = "idle" /\ outcome' = outcome
      PROVE  Agrees(c)'
  <2>1. Untouchable(c)' 
    BY <1>5, EarlyIsUntouchable DEF Untouchable, InMailbox, In, Early
  <2>2. c \in preCanceled' => caller[c] = "refused"
    BY <1>5 DEF Agrees
  <2> QED BY <2>1, <2>2, <1>2, <1>3, <1>4, <1>5 DEF Agrees
<1>6. CASE Find(c)
  BY <1>1, <1>5, <1>6 DEF Find, Moves, Returns, handleVars
<1>7. CASE NoLane(c)
  BY <1>1, <1>5, <1>7 DEF NoLane, Returns, handleVars
<1>8. CASE GiveUp(c)
  BY <1>1, <1>5, <1>8 DEF GiveUp, Returns, handleVars
<1>9. CASE Reserve(c)
  <2>1. /\ caller[c] = "found" /\ caller'[c] = "reserved" /\ outcome' = outcome
        /\ replies' = replies
        /\ preCanceled' = IF c \in ctxDone THEN preCanceled \cup {c} ELSE preCanceled
        /\ attempt' = IF c \in ctxDone THEN [attempt EXCEPT ![c] = Sealed(c)] ELSE attempt
    BY <1>1, <1>9 DEF Reserve
  <2>2. ack[c] = "pending" /\ c \notin preCanceled
    BY <2>1, EarlyIsUntouchable DEF Early, Agrees
  <2>3. /\ ~WasSubmitted(c) /\ replies[c] = "none" /\ \A o : ~Seen(c, o) /\ ~Waits(c, o)
        /\ attempt[c] \in {"pending", "notAdmitted"}
    BY <2>2, NothingMade
  <2>4. c \in preCanceled' => attempt'[c] = "notAdmitted"
    BY <2>1, <2>2, <2>3, <1>1 DEF Sealed
  <2> QED BY <2>1, <2>3, <2>4, <1>3, <1>4 DEF Agrees
<1>10. CASE Send(c) \/ AwaitAck(c)
  <2>1. /\ caller[c] \in {"reserved", "sent"} /\ caller'[c] \in {"sent", "refused", "entered"}
        /\ UNCHANGED <<preCanceled, outcome, replies, attempt>>
    BY <1>1, <1>10 DEF Send, AwaitAck, Moves, dvars, attemptVars
  <2> QED BY <2>1, <1>3, <1>4 DEF Agrees
<1>11. CASE ReturnCanceled(c)
  <2>1. /\ c \in preCanceled /\ caller'[c] = "returned" /\ outcome'[c] = "fallback"
        /\ UNCHANGED <<preCanceled, replies, attempt>>
    BY <1>1, <1>11 DEF ReturnCanceled, Returns, dvars, attemptVars
  <2> QED BY <2>1, <1>3 DEF Agrees
<1>12. CASE ReturnReply(c)
  <2>1. /\ c \notin preCanceled /\ caller'[c] = "returned" /\ outcome'[c] = replies[c]
        /\ replies[c] # "none" /\ replies'[c] = "none"
        /\ UNCHANGED <<preCanceled, ack>>
    BY <1>1, <1>12 DEF ReturnReply, handleVars
  <2>2. ack[c] = "accepted" /\ c \notin steers /\ c \notin PendingCalls
    BY <2>1 DEF SideInv, ArbiterSideInv
  <2>3. \A o \in Outcomes : Seen(c, o) => o = replies[c]
    BY <2>1 DEF Agrees
  <2> QED BY <2>1, <2>2, <2>3, <1>2, <1>3 DEF Agrees
<1>13. CASE ReturnTimeout(c)
  <2>1. /\ c \notin preCanceled /\ caller'[c] = "returned" /\ outcome'[c] \in Undecided
        /\ UNCHANGED <<preCanceled, replies>>
    BY <1>1, <1>13 DEF ReturnTimeout, Returns, TimeoutResult, Undecided
  <2>2. replies[c] # "none" => \A o \in Outcomes : Seen(c, o) => o = replies[c]
    BY DEF Agrees
  <2> QED BY <2>1, <2>2, <1>3 DEF Agrees
<1> QED BY <1>6, <1>7, <1>8, <1>9, <1>10, <1>11, <1>12, <1>13 DEF Caller

(* The arbiter takes the command of c up. *)
LEMMA TakenAgrees ==
  ASSUME SideInv, DInv, AcceptCommand, NEW c \in Calls, c = Head(commands), Agrees(c)
  PROVE  /\ Agrees(c)'
         /\ \A o \in Outcomes : Waits(c, o)' => o \in {"fallback", "unsupported"}
                                              /\ attempt'[c] = "notAdmitted"
<1>1. /\ InMailbox(c) /\ ack[c] = "pending" /\ ~retired
      /\ ack' = [ack EXCEPT ![c] = "accepted"]
      /\ UNCHANGED <<caller, preCanceled, outcome, replies, observed>>
  BY CommandFacts
<1>2. /\ c \notin PendingCalls /\ ~WasSubmitted(c) /\ replies[c] = "none"
      /\ attempt[c] \in {"pending", "notAdmitted"}
      /\ \A o : ~Seen(c, o) /\ ~Waits(c, o)
  BY <1>1, NothingMade
<1>3. \A o : ~Seen(c, o)'
  BY <1>1, <1>2 DEF Seen
<1>4. outcome[c] \in Undecided \cup {"none"} \/ (c \in preCanceled /\ outcome[c] = "fallback")
  BY <1>1 DEF Agrees, Untouchable
<1>5. /\ pendingSteers \in Seq(Pending) /\ attempt \in [Calls -> Admissions]
      /\ submitted \in Seq(Calls)
  BY DEF SideInv, SideTypes, DInv, DispatcherTypeOK
<1>6. c \in preCanceled => attempt[c] = "notAdmitted" /\ caller[c] \notin {"idle", "found"}
  BY DEF Agrees
<1>7. CASE AnswerLocally(c)
  <2>1. PICK o \in {"fallback", "unsupported"} :
          Queued(c, o) /\ (attempt[c] # "pending" => o = "fallback")
    BY <1>7 DEF AnswerLocally
  <2>2. attempt'[c] = "notAdmitted" /\ submitted' = submitted
    BY <1>2, <1>5, <1>7 DEF AnswerLocally, Sealed, historyVars
  <2>3. o \in Outcomes
    BY DEF Outcomes
  <2>4. \A i \in 1..Len(pendingSteers') :
             \/ i \in 1..Len(pendingSteers) /\ pendingSteers'[i] = pendingSteers[i]
             \/ i = Len(pendingSteers) + 1 /\ pendingSteers'[i].id = c
                /\ pendingSteers'[i].outcome = o
    BY <2>1, <2>3, <1>5, QueuedFacts
  <2>5. \A x \in Outcomes : Waits(c, x)' => x = o
    BY <1>2, <2>4 DEF Waits
  <2>6. ~WasSubmitted(c)'
    BY <1>2, <2>2 DEF WasSubmitted
  <2> QED BY <1>1, <1>2, <1>3, <1>4, <1>6, <2>1, <2>2, <2>5, <2>6 DEF Agrees
<1>8. CASE Forward(c)
  <2>1. attempt[c] = "pending" /\ pendingSteers' = pendingSteers
    BY <1>8 DEF Forward
  <2>2. c \notin preCanceled /\ \A o : ~Waits(c, o)'
    BY <2>1, <1>2, <1>6 DEF Waits
  <2> QED BY <1>1, <1>2, <1>3, <1>4, <2>2 DEF Agrees
<1> QED BY <1>7, <1>8 DEF AcceptCommand

LEMMA ReadAgrees ==
  ASSUME SideInv, DInv, NEW c \in Calls, NEW e \in Event, Reads(c, e), Agrees(c)
  PROVE  Agrees(c)'
<1>1. /\ c \in steers /\ WasSubmitted(c) /\ ack[c] = "accepted" /\ replies[c] = "none"
      /\ observed[c] = <<>>
  BY DEF Reads, SideInv, ArbiterSideInv
<1>2. c \notin preCanceled /\ outcome[c] \in Undecided \cup {"none"}
  BY <1>1 DEF Agrees, Untouchable
<1> QED BY <1>1, <1>2 DEF Reads, Agrees

LEMMA TellAgrees ==
  ASSUME SideInv, DInv, NEW c \in Calls, NEW o \in Outcomes, Tells(c, o), Agrees(c)
  PROVE  Agrees(c)'
<1>1. /\ ack[c] = "accepted" /\ replies[c] = "none" /\ observed[c] = <<>>
      /\ c \in steers => WasSubmitted(c)
  BY DEF Tells, SideInv, ArbiterSideInv
<1>2. outcome[c] \in Undecided \cup {"none"} \/ (c \in preCanceled /\ outcome[c] = "fallback")
  BY <1>1 DEF Agrees, Untouchable, Tells
<1>3. c \in preCanceled => o = "fallback"
  BY <1>1 DEF Agrees, Tells
<1>4. \A x : ~Waits(c, x)'
  BY DEF Tells, Waits, PendingCalls
<1>5. attempt' = attempt /\ (WasSubmitted(c)' <=> WasSubmitted(c))
  BY DEF Tells, dvars, attemptVars, historyVars, WasSubmitted
<1> QED BY <1>1, <1>2, <1>3, <1>4, <1>5 DEF Agrees, Tells

LEMMA AnswerStays ==
  ASSUME SideInv, [SteeringNext]_<<lane, svars>>, NEW d \in Calls
  PROVE  answer'[d] = answer[d] \/ active.id = d
<1>1. answer \in [Calls -> Answers \cup {"none", "error"}]
  BY DEF SideInv, SideTypes
<1>2. CASE UNCHANGED <<lane, svars>>
  BY <1>2 DEF svars
<1>3. CASE ProviderStep
  <2>1. PICK c \in Calls : \/ answer' = answer
                           \/ \E a : active.id = c /\ answer' = [answer EXCEPT ![c] = a]
    BY <1>3 DEF ProviderStep, ProviderResponds, Respond
  <2> QED BY <2>1, <1>1
<1>4. ASSUME NEW c \in Calls, Caller(c) PROVE answer' = answer
  BY <1>4 DEF Caller, Find, Reserve, NoLane, Send, AwaitAck, GiveUp, ReturnCanceled, ReturnReply,
              ReturnTimeout
<1>5. CASE Arbiter \/ FailRegression \/ PromptEnds \/ CloseDriver
  BY <1>5 DEF Arbiter, AcceptCommand, ReadEvent, BeginTerminal, MarkTerminal, Finish, EmitSteer,
              Abandon, Hide, Retire, CloseLane, StopDispatcher, Leave, FailRegression, PromptEnds,
              CloseDriver
<1>6. CASE DispatcherLoop \/ StopEnters
  BY <1>6 DEF DispatcherLoop, StopEnters
<1> QED BY <1>2, <1>3, <1>4, <1>5, <1>6 DEF SteeringNext, Turn

(* What was true of a call when it was said stays true. *)
LEMMA FinalStays ==
  ASSUME SideInv, DInv, [SteeringNext]_<<lane, svars>>, NEW d \in Calls, NEW o, Final(d, o)
  PROVE  Final(d, o)'
<1>1. [DispatcherNext]_dvars
  BY TurnDrives
<1>2. /\ attempt[d] = "notAdmitted" => attempt'[d] = "notAdmitted"
      /\ wire[d] \in {"written", "refused"} => wire'[d] = wire[d]
      /\ wire[d] # "idle" /\ active.id # d => active'.id # d
  BY <1>1, SettledStays
<1>3. answer'[d] = answer[d] \/ active.id = d
  BY AnswerStays
<1>4. caller[d] = "returned" /\ Untouchable(d) => (caller[d] = "returned" /\ Untouchable(d))'
  <2> SUFFICES ASSUME caller[d] = "returned", Untouchable(d)
               PROVE  caller'[d] = "returned" /\ Untouchable(d)'
    OBVIOUS
  <2>1. CASE Aside(d)
    BY <2>1 DEF Aside, Untouchable
  <2>2. ~Caller(d)
    BY DEF Caller, Find, Reserve, NoLane, Send, AwaitAck, GiveUp, ReturnCanceled, ReturnReply,
           ReturnTimeout
  <2>3. ~(AcceptCommand /\ d = Head(commands))
    BY CommandFacts DEF Untouchable
  <2>4. \A e \in Event : ~Reads(d, e)
    BY DEF Reads, Untouchable, SideInv, ArbiterSideInv
  <2>5. \A w \in Outcomes : ~Tells(d, w)
    BY DEF Tells, Untouchable, SideInv, ArbiterSideInv
  <2>6. DispatcherTypeOK
    BY DEF DInv
  <2> QED BY <2>1, <2>2, <2>3, <2>4, <2>5, <2>6, StepOfCall
<1> QED BY <1>2, <1>3, <1>4 DEF Final

(* The caller of a call it gave up before the mailbox, or whose command was
   refused, is told the truth: nobody will take it up. *)
LEMMA CallerWords ==
  ASSUME SideInv, DInv, NEW c \in Calls, Agrees(c), Caller(c), Agrees(c)', NEW o \in Outcomes,
         Word(c, o)', ~Word(c, o)
  PROVE  Final(c, o)'
<1>1. /\ caller \in [Calls -> {"idle", "found", "reserved", "sent", "refused", "entered",
                               "returned"}]
      /\ outcome \in [Calls -> Outcomes \cup {"none"}]
      /\ replies \in [Calls -> Outcomes \cup {"none"}]
  BY DEF SideInv, SideTypes
<1>2. /\ observed' = observed /\ pendingSteers' = pendingSteers
      /\ replies'[c] \in {replies[c], "none"}
  BY <1>1 DEF Caller, Find, Reserve, NoLane, Send, AwaitAck, GiveUp, ReturnCanceled, ReturnReply,
              ReturnTimeout, Moves, Returns, arbiterVars
<1>3. outcome'[c] = o /\ outcome[c] # o /\ replies[c] # o
  BY <1>2 DEF Word, Seen, Waits, Outcomes
<1>4. CASE Find(c) \/ NoLane(c) \/ GiveUp(c)
  <2>1. /\ caller[c] \in Early \cup {"refused"} /\ caller'[c] = "returned" /\ o \in RetrySafe
        /\ UNCHANGED <<ack, commands, retired>>
    <3>1. CASE Find(c)
      BY <3>1, <1>1, <1>3 DEF Find, Moves, Returns, Early, RetrySafe, handleVars
    <3>2. CASE NoLane(c)
      BY <3>2, <1>1, <1>3 DEF NoLane, Returns, Early, RetrySafe, handleVars
    <3>3. CASE GiveUp(c)
      BY <3>3, <1>1, <1>3 DEF GiveUp, Returns, Early, RetrySafe, handleVars
    <3> QED BY <1>4, <3>1, <3>2, <3>3
  <2>2. Untouchable(c)'
    BY <2>1, EarlyIsUntouchable DEF Untouchable, InMailbox, In
  <2> QED BY <2>1, <2>2 DEF Final, RetrySafe
<1>5. CASE ReturnCanceled(c)
  <2>1. o = "fallback" /\ attempt[c] = "notAdmitted" /\ attempt' = attempt
    BY <1>1, <1>3, <1>5 DEF ReturnCanceled, Returns, dvars, attemptVars, Agrees
  <2> QED BY <2>1 DEF Final
<1>6. CASE ReturnTimeout(c)
  <2>1. o \in Undecided
    BY <1>1, <1>3, <1>6 DEF ReturnTimeout, Returns, TimeoutResult, Undecided
  <2> QED BY <2>1 DEF Final, Undecided, RetrySafe
<1>7. CASE Reserve(c) \/ Send(c) \/ AwaitAck(c)
  BY <1>3, <1>7 DEF Reserve, Send, AwaitAck, Moves
<1>8. CASE ReturnReply(c)
  BY <1>1, <1>3, <1>8 DEF ReturnReply
<1> QED BY <1>4, <1>5, <1>6, <1>7, <1>8 DEF Caller

(* What the arbiter makes of a report of the dispatcher is true: a report of no
   admission is of a call that is sealed or refused, a completion is of a
   written one that is active no more. *)
LEMMA ReportIsFinal ==
  ASSUME DInv, NEW c \in Calls, NEW e \in Event, In(e, events), e.id = c
  PROVE  Final(c, OutcomeOf(e))
<1>1. First(told, e) \/ Second(told, e)
  <2>1. e # Complete
    BY DispatcherAssumption DEF Event, Complete
  <2> QED BY <2>1 DEF DInv, EventsInv, EventsCore, In
<1>2. told \in [Calls -> Seq(Event)] /\ wire \in [Calls -> {"idle", "started", "written", "refused"}]
  BY DEF DInv, DispatcherTypeOK
<1>3. PICK i \in 1..Len(told[c]) : told[c][i] = e
  <2>1. told[c] \in Seq(Event)
    BY <1>2
  <2>2. CASE First(told, e)
    <3>1. told[c] # <<>> /\ e = told[c][1]
      BY <2>2 DEF First
    <3>2. 1 \in 1..Len(told[c])
      BY <2>1, <3>1
    <3> QED BY <3>1, <3>2
  <2>3. CASE Second(told, e)
    <3>1. Len(told[c]) > 1 /\ e = told[c][2]
      BY <2>3 DEF Second
    <3>2. 2 \in 1..Len(told[c])
      BY <2>1, <3>1
    <3> QED BY <3>1, <3>2
  <2> QED BY <1>1, <2>2, <2>3
<1>4. /\ e.completed => active.id # c
      /\ e.admission = "notAdmitted" => wire[c] \in {"idle", "refused"}
      /\ e.admission = "admitted" => wire[c] = "written"
  BY <1>3 DEF DInv, ToldInv, ToldTrue
<1>5. attempt[c] # "pending"
  <2>1. told[c] # <<>>
    BY <1>1 DEF First, Second
  <2> QED BY <2>1 DEF DInv, ToldInv, ToldCovers
<1>6. wire[c] = "idle" => attempt[c] = "notAdmitted"
  BY <1>5 DEF DInv, ProviderInv
<1>7. e.admission \in Admissions
  BY DEF Event
<1>8. CASE e.admission = "notAdmitted"
  BY <1>4, <1>6, <1>8 DEF OutcomeOf, Final, RetrySafe
<1>9. CASE e.admission # "notAdmitted" /\ OutcomeOf(e) \in Undecided
  BY <1>9 DEF Undecided, Final, RetrySafe
<1>10. CASE e.admission # "notAdmitted" /\ OutcomeOf(e) \notin Undecided
  <2>1. e.admission = "admitted" /\ e.completed /\ OutcomeOf(e) = Normalized(answer[c])
    BY <1>7, <1>10 DEF OutcomeOf, Undecided, Admissions
  <2>2. /\ OutcomeOf(e) = "injected" => answer[c] = "injected"
        /\ OutcomeOf(e) = "untrackable" => answer[c] = "startedNewTurn"
        /\ OutcomeOf(e) \in RetrySafe => answer[c] \in {"promptRequired", "noDelivery"}
    BY <2>1 DEF Normalized, RetrySafe
  <2> QED BY <2>1, <2>2, <1>4 DEF Final
<1> QED BY <1>8, <1>9, <1>10

LEMMA CallSteps ==
  ASSUME SideInv, DInv, [SteeringNext]_<<lane, svars>>, NEW c \in Calls, Agrees(c), True(c)
  PROVE  Agrees(c)' /\ True(c)'
<1>1. [DispatcherNext]_dvars /\ DispatcherTypeOK
  BY TurnDrives DEF DInv
<1>2. attempt[c] = "notAdmitted" => attempt'[c] = "notAdmitted"
  BY <1>1, SettledStays
<1>3. \A o \in Outcomes : Word(c, o) => Final(c, o)'
  BY FinalStays DEF True
<1>4. CASE Aside(c)
  <2>1. \A o \in Outcomes : Word(c, o)' => Word(c, o)
    BY <1>4 DEF Aside, Word, Seen
  <2> QED BY <1>2, <1>3, <1>4, <2>1, AsideAgrees DEF True
<1>5. CASE Caller(c)
  <2>1. Agrees(c)'
    BY <1>2, <1>5, CallerAgrees
  <2> QED BY <1>3, <1>5, <2>1, CallerWords DEF True
<1>6. CASE AcceptCommand /\ c = Head(commands)
  <2>1. /\ Agrees(c)'
        /\ \A o \in Outcomes : Waits(c, o)' => o \in {"fallback", "unsupported"}
                                             /\ attempt'[c] = "notAdmitted"
    BY <1>6, TakenAgrees
  <2>2. outcome' = outcome /\ replies' = replies /\ observed' = observed
    BY <1>6, CommandFacts
  <2>3. \A o \in Outcomes : Word(c, o)' => Word(c, o) \/ Waits(c, o)'
    BY <2>2 DEF Word, Seen
  <2>4. \A o \in Outcomes : Waits(c, o)' => Final(c, o)'
    BY <2>1 DEF Final
  <2> QED BY <1>3, <2>1, <2>3, <2>4 DEF True
<1>7. ASSUME NEW e \in Event, Reads(c, e) PROVE Agrees(c)' /\ True(c)'
  <2>1. Agrees(c)'
    BY <1>7, ReadAgrees
  <2>2. PICK w : w = OutcomeOf(e)
    OBVIOUS
  <2>3. Final(c, w)'
    <3>1. Final(c, w)
      BY <1>7, <2>2, ReportIsFinal DEF Reads
    <3> QED BY <3>1, FinalStays
  <2>4. \A o \in Outcomes : Word(c, o)' => Word(c, o) \/ o = w
    BY <1>7, <2>2 DEF Reads, Word, Seen
  <2> QED BY <1>3, <2>1, <2>3, <2>4 DEF True
<1>8. ASSUME NEW w \in Outcomes, Tells(c, w) PROVE Agrees(c)' /\ True(c)'
  <2>1. Agrees(c)'
    BY <1>8, TellAgrees
  <2>2. Final(c, w)'
    <3>1. CASE Waits(c, w)
      BY <3>1, <1>3 DEF Word
    <3>2. CASE w = FailureOutcome(c)
      <4>1. Final(c, w)
        BY <3>2 DEF Final, FailureOutcome, RetrySafe
      <4> QED BY <4>1, FinalStays
    <3> QED BY <1>8, <3>1, <3>2 DEF Tells
  <2>3. \A o \in Outcomes : Word(c, o)' => Word(c, o) \/ o = w
    <3>1. \A o \in Outcomes : ~Waits(c, o)'
      BY <1>8 DEF Tells, Waits, PendingCalls
    <3> QED BY <1>8, <3>1 DEF Tells, Word
  <2> QED BY <1>3, <2>1, <2>2, <2>3 DEF True
<1> QED BY <1>1, <1>4, <1>5, <1>6, <1>7, <1>8, StepOfCall

LEMMA CallsStart == SteeringInit => CallInv
<1> SUFFICES ASSUME SteeringInit, NEW c \in Calls PROVE Agrees(c) /\ True(c)
  BY DEF CallInv
<1>1. /\ outcome[c] = "none" /\ replies[c] = "none" /\ c \notin preCanceled
      /\ \A o : ~Seen(c, o) /\ ~Waits(c, o)
  BY DEF SteeringInit, Seen, Waits
<1> QED BY <1>1 DEF Agrees, True, Word, Outcomes

LEMMA SteeringKeepsCalls == SteeringSpec => [](DInv /\ SideInv /\ CallInv)
<1>1. SteeringInit => CallInv
  BY CallsStart
<1>2. DInv /\ SideInv /\ CallInv /\ [SteeringNext]_<<lane, svars>> => CallInv'
  BY CallSteps DEF CallInv
<1> QED BY <1>1, <1>2, SteeringKeepsBoth, PTL DEF SteeringSpec

LEMMA VerdictTrue == DInv /\ SideInv /\ CallInv => VerdictIsTrue
<1> SUFFICES ASSUME DInv, SideInv, CallInv, NEW c \in Calls
             PROVE  /\ Said(c, RetrySafe) => ~MayBeDelivered(c) /\ wire[c] # "started"
                    /\ Said(c, {"injected"}) => wire[c] = "written" /\ answer[c] = "injected"
                    /\ Said(c, {"untrackable"}) => wire[c] = "written" /\ answer[c] = "startedNewTurn"
  BY DEF VerdictIsTrue
<1>1. ASSUME NEW os, os \subseteq Outcomes, Said(c, os) PROVE \E o \in os : Final(c, o)
  <2>1. \E o \in os : Word(c, o)
    BY <1>1 DEF Said, Word, Seen
  <2> QED BY <1>1, <2>1 DEF CallInv, True
<1>2. Untouchable(c) => wire[c] = "idle"
  BY NothingMade DEF Untouchable
<1>3. attempt[c] = "notAdmitted" => wire[c] \in {"idle", "refused"}
  BY DEF DInv, ProviderInv
<1>4. Said(c, RetrySafe) => ~MayBeDelivered(c) /\ wire[c] # "started"
  <2>1. RetrySafe \subseteq Outcomes
    BY DEF RetrySafe, Outcomes
  <2>2. Said(c, RetrySafe) => \E o \in RetrySafe : Final(c, o)
    BY <1>1, <2>1
  <2> QED BY <2>2, <1>2, <1>3 DEF Final, MayBeDelivered
<1>5. Said(c, {"injected"}) => Final(c, "injected")
  BY <1>1 DEF Outcomes
<1>6. Said(c, {"untrackable"}) => Final(c, "untrackable")
  BY <1>1 DEF Outcomes
<1> QED BY <1>4, <1>5, <1>6 DEF Final

(* A call that Steer returns or the stream observes as retry-safe was not and
   will not be delivered, one called injected or untrackable was, and what the
   dispatcher reports of an admission is true: whatever the caller's context,
   the provider, the terminal and the writer do meanwhile
   (callerTimeoutSteerResult, acceptDispatcherEvent, failSequenceRegression). *)
THEOREM VerdictsAreTrue == SteeringSpec => []ReportsAreTrue
<1>1. DInv /\ SideInv /\ CallInv => ReportsAreTrue
  BY AdmissionTrue, VerdictTrue DEF ReportsAreTrue
<1> QED BY <1>1, SteeringKeepsCalls, PTL

(* Exactly one observation for every call the arbiter acknowledged, when the
   turn is over and the driver was not closed under it. *)
THEOREM AcceptedCallsAreObserved == SteeringSpec => []AcceptedIsObserved
<1>1. SideInv => AcceptedIsObserved
  <2> SUFFICES ASSUME SideInv, arbiter = "done", ~driverClosed, NEW c \in Calls, ack[c] = "accepted"
               PROVE  Len(observed[c]) = 1
    BY DEF AcceptedIsObserved
  <2>1. /\ observed[c] \in Seq(Outcomes) /\ Len(observed[c]) <= 1
        /\ steers = {} /\ pendingSteers = <<>>
    BY DEF SideInv, SideTypes, ArbiterSideInv
  <2>2. c \notin steers /\ c \notin PendingCalls
    BY <2>1 DEF PendingCalls
  <2>3. observed[c] # <<>>
    BY <2>2 DEF SideInv, ArbiterSideInv
  <2>4. ASSUME NEW s \in Seq(Outcomes), s # <<>> PROVE Len(s) \in Nat /\ Len(s) > 0
    BY <2>4
  <2>5. Len(observed[c]) \in Nat /\ Len(observed[c]) > 0
    BY <2>1, <2>3, <2>4
  <2>6. PICK n : n = Len(observed[c])
    OBVIOUS
  <2>7. n \in Nat /\ n > 0 /\ n <= 1
    BY <2>1, <2>5, <2>6
  <2>8. n = 1
    BY ONLY <2>7
  <2> QED BY ONLY <2>6, <2>8
<1> QED BY <1>1, SteeringKeepsCalls, PTL

-----------------------------------------------------------------------------
(***************************************************************************)
(* What the lane bounds.                                                   *)
(***************************************************************************)
(* The dispatcher owes the arbiter an answer for c: it was submitted, and its
   first report was not read. *)
AtDispatcher(c) == WasSubmitted(c) /\ (told[c] = <<>> \/ In(told[c][1], events))
Owed == {c \in Calls : AtDispatcher(c)}

(* One report does not bring a call back that was answered. *)
LEMMA OneReportOwes ==
  ASSUME DInv, DInv', NEW e, Emitted(<<e>>), submitted' = submitted, NEW c \in Calls,
         AtDispatcher(c)'
  PROVE  AtDispatcher(c)
<1> SUFFICES ASSUME told[c] # <<>> PROVE In(told[c][1], events)
  BY DEF AtDispatcher, WasSubmitted
<1>1. /\ events \in Seq(Reports) /\ events' \in Seq(Reports)
      /\ told \in [Calls -> Seq(Event)] /\ told[c] \in Seq(Event)
  BY DEF DInv, DispatcherTypeOK
<1>2. events' = events \o <<e>> /\ events \o <<e>> = Append(events, e)
  BY <1>1 DEF Emitted
<1>3. e \in Reports
  <2>1. events \in Seq(Reports \cup {e}) /\ e \in Reports \cup {e}
    BY <1>1
  <2>2. /\ Len(Append(events, e)) = Len(events) + 1
        /\ Append(events, e)[Len(events) + 1] = e
    BY <2>1, AppendFacts
  <2>3. Len(events) + 1 \in 1..Len(events')
    BY <1>1, <1>2, <2>2
  <2> QED BY <1>1, <1>2, <2>2, <2>3
<1>4. \A y : In(y, events') <=> In(y, events) \/ y = e
  <2>1. events' = Append(events, e)
    BY <1>2
  <2>2. \A y : In(y, Append(events, e)) <=> In(y, events) \/ y = e
    BY ONLY <1>1, <1>3, AppendFacts
  <2> QED BY <2>1, <2>2
<1>5. /\ e \in Event => told' = [told EXCEPT ![e.id] = Append(told[e.id], e)]
      /\ e = Complete => told' = told
  BY <1>1, <1>3, EmittedOne
<1>6. CASE told'[c] = told[c]
  <2>1. In(told[c][1], events) \/ told[c][1] = e
    BY <1>4, <1>6 DEF AtDispatcher
  <2>2. 1 \in 1..Len(told[c]) /\ told[c][1] \in Event
    BY <1>1
  <2>3. told[c][1].id = c
    BY <2>2 DEF DInv, ToldInv, ToldTrue
  <2>4. told[c][1] # e
    <3>1. CASE e = Complete
      BY <3>1, <2>2, ReportTypes
    <3>2. CASE e \in Event /\ e.id = c
      <4>1. told'[c] = Append(told[c], e)
        BY <3>2, <1>1, <1>5
      <4>2. Len(Append(told[c], e)) = Len(told[c]) + 1
        BY <3>2, <1>1, AppendFacts
      <4>3. Len(told[c]) \in Nat
        BY <1>1
      <4> QED BY <4>1, <4>2, <4>3, <1>6
    <3> QED BY <3>1, <3>2, <1>3, <2>3, ReportTypes
  <2> QED BY <2>1, <2>4
<1>7. CASE e \in Event /\ e.id = c
  <2>1. told'[c] = Append(told[c], e)
    BY <1>1, <1>5, <1>7
  <2>2. Len(told'[c]) <= 2 /\ Len(told[c]) \in Nat
    BY <1>1 DEF DInv, ToldInv, ToldTwice
  <2>3. Len(told[c]) < 2
    <3>1. Len(Append(told[c], e)) = Len(told[c]) + 1
      BY <1>1, <1>7, AppendFacts
    <3> QED BY <2>1, <2>2, <3>1
  <2>4. Len(told'[c]) > 1 /\ told'[c][1] = told[c][1] /\ told'[c][2] = e
    BY <1>1, <1>7, <2>1, <2>3, AppendSecond
  <2>5. ~told'[c][1].late /\ told'[c][2].late
    BY <2>4 DEF DInv, ToldInv, ToldTwice
  <2>6. told[c][1] # e
    BY <2>4, <2>5
  <2>7. told'[c] # <<>>
    BY <1>1, <1>7, <2>1, <2>3, AppendSecond
  <2> QED BY <1>4, <2>4, <2>6, <2>7 DEF AtDispatcher
<1> QED BY <1>1, <1>3, <1>5, <1>6, <1>7, ReportTypes

(* Nor does the answer to the terminal marker. *)
LEMMA TerminalOwes ==
  ASSUME DInv, TakeTerminal, NEW c \in Calls, AtDispatcher(c)'
  PROVE  AtDispatcher(c)
<1> SUFFICES ASSUME told[c] # <<>> PROVE In(told[c][1], events)
  <2>1. submitted' = submitted
    BY DEF TakeTerminal
  <2> QED BY <2>1 DEF AtDispatcher, WasSubmitted
<1>1. PICK now \in BOOLEAN :
        now = (active.id # None /\ ~active.resolved /\ active.admission # "pendingWriter")
  OBVIOUS
<1>2. /\ \A d \in Calls : ~InQueue(d) /\ ~(now /\ d = active.id) => told'[d] = told[d]
      /\ \A d \in Calls : InQueue(d) => told[d] = <<>>
      /\ now => told[active.id] = <<>>
      /\ \A e : In(e, events') => In(e, events) \/ told[e.id] = <<>>
  BY <1>1, TerminalReports
<1>3. told'[c] = told[c]
  BY <1>2
<1>4. told[c][1].id = c
  <2>1. told[c] \in Seq(Event)
    BY DEF DInv, DispatcherTypeOK
  <2>2. 1 \in 1..Len(told[c])
    BY <2>1
  <2> QED BY <2>2 DEF DInv, ToldInv, ToldTrue
<1> QED BY <1>2, <1>3, <1>4 DEF AtDispatcher

LEMMA SameOwes ==
  ASSUME told' = told, events' = events, submitted' = submitted, NEW c
  PROVE  AtDispatcher(c)' <=> AtDispatcher(c)
BY DEF AtDispatcher, WasSubmitted, In

(* The run loop only pays what it owes. *)
LEMMA LoopOwes ==
  ASSUME DInv, DInv', Loop, NEW c \in Calls, AtDispatcher(c)'
  PROVE  AtDispatcher(c)
<1>1. submitted' = submitted
  BY LoopSubmits
<1>2. events \in Seq(Reports) /\ told \in [Calls -> Seq(Event)]
  BY DEF DInv, DispatcherTypeOK
<1>3. ASSUME NEW e, Emitted(<<e>>) PROVE AtDispatcher(c)
  BY <1>1, <1>3, OneReportOwes
<1>4. CASE told' = told /\ events' = events
  BY <1>1, <1>4, SameOwes
<1>5. CASE SkipCancelled \/ SkipSealed \/ StartUnavailable \/ ReportComplete \/ TakeReply \/ GraceEnds
  BY <1>3, <1>5 DEF SkipCancelled, SkipSealed, StartUnavailable, ReportComplete, TakeReply, GraceEnds
<1>6. CASE Start \/ TakeStop
  BY <1>4, <1>6 DEF Start, TakeStop, channelVars, historyVars
<1>7. CASE TakeJob
  BY <1>3, <1>4, <1>7 DEF TakeJob
<1>8. CASE TakeFact
  <2>1. (\E e : Emitted(<<e>>)) \/ Emitted(<<>>)
    BY <1>8 DEF TakeFact
  <2> QED BY <2>1, <1>2, <1>3, <1>4, EmittedNone
<1>9. CASE TakeTerminal
  BY <1>9, TerminalOwes
<1> QED BY <1>5, <1>6, <1>7, <1>8, <1>9 DEF Loop

(* A report that was read is of a call nothing is owed for any more. *)
LEMMA ReadOwes ==
  ASSUME DInv, Read, NEW e, e = Head(events)
  PROVE  /\ \A c : AtDispatcher(c)' => AtDispatcher(c)
         /\ e \in Event => ~AtDispatcher(e.id)'
<1>1. /\ events \in Seq(Reports) /\ events # <<>> /\ events' = Tail(events)
      /\ told' = told /\ submitted' = submitted /\ told \in [Calls -> Seq(Event)]
  BY DEF Read, DInv, DispatcherTypeOK, historyVars
<1>2. Distinct(events)
  BY DEF DInv, EventsInv, EventsCore
<1>3. /\ \A y : In(y, events') => In(y, events)
      /\ ~In(e, events') /\ e = events[1] /\ 1 \in 1..Len(events)
      /\ \A i \in 1..Len(events') : i + 1 \in 1..Len(events) /\ events'[i] = events[i + 1]
      /\ Len(events') \in Nat
  BY <1>1, <1>2, TailFacts
<1>4. \A c : AtDispatcher(c)' => AtDispatcher(c)
  BY <1>1, <1>3 DEF AtDispatcher, WasSubmitted
<1>5. ASSUME e \in Event PROVE ~AtDispatcher(e.id)'
  <2>1. PICK c \in Calls : c = e.id
    BY <1>5, ReportTypes
  <2>2. First(told, e) \/ Second(told, e)
    BY <1>3, <1>5, ReportTypes DEF DInv, EventsInv, EventsCore
  <2>3. told[c] \in Seq(Event)
    BY <1>1
  <2>4. told[c] # <<>>
    BY <2>1, <2>2, <2>3 DEF First, Second
  <2>5. ~In(told[c][1], events')
    <3>1. CASE First(told, e)
      BY <3>1, <2>1, <1>3 DEF First
    <3>2. CASE Second(told, e)
      <4> SUFFICES ASSUME NEW i \in 1..Len(events'), events'[i] = told[c][1] PROVE FALSE
        BY DEF In
      <4>1. i + 1 \in 1..Len(events) /\ events[i + 1] = told[c][1] /\ ~(i + 1 < 1)
        BY <1>3
      <4>2. 1 \in 1..Len(told[c]) /\ told[c][1] \in Event
        BY <2>3, <2>4
      <4>3. told[c][1].id = c
        BY <4>2 DEF DInv, ToldInv, ToldTrue
      <4>4. First(told, events[i + 1])
        BY <4>1, <4>2, <4>3, <2>4, ReportTypes DEF First
      <4> QED BY <4>1, <4>3, <4>4, <3>2, <1>3, <2>1 DEF DInv, EventsInv, EventsCore
    <3> QED BY <3>1, <3>2, <2>2
  <2> QED BY <1>1, <2>1, <2>4, <2>5 DEF AtDispatcher
<1> QED BY <1>4, <1>5

LEMMA DispatcherOwes ==
  ASSUME DInv, DInv', [DispatcherNext]_dvars, submitted' = submitted, NEW c \in Calls,
         AtDispatcher(c)'
  PROVE  AtDispatcher(c)
<1>1. CASE Loop
  BY <1>1, LoopOwes
<1>2. CASE Read
  BY <1>2, ReadOwes
<1>3. CASE told' = told /\ events' = events
  BY <1>3, SameOwes
<1>4. CASE Provider \/ ResolveTerminal \/ CallStop \/ PutStop
  BY <1>3, <1>4 DEF Provider, Settle, Respond, ResolveTerminal, CallStop, PutStop, channelVars,
                    historyVars
<1>5. ASSUME NEW d \in Calls, Submit(d) \/ ContextEnds(d) \/ Seal(d) PROVE AtDispatcher(c)
  BY <1>3, <1>5 DEF Submit, ContextEnds, Seal, channelVars, historyVars
<1>6. CASE UNCHANGED dvars
  BY <1>3, <1>6 DEF dvars, channelVars, historyVars
<1> QED BY <1>1, <1>2, <1>4, <1>5, <1>6 DEF DispatcherNext

(* The calls that hold a slot of the lane: those on their way to the mailbox,
   in it, with the dispatcher or waiting to be observed. *)
HoldInv(c) ==
  /\ c \in holding => caller[c] \notin {"idle", "found"}
  /\ caller[c] = "reserved" => c \in holding
  /\ InMailbox(c) /\ ~retired => c \in holding
  /\ c \in steers \/ c \in PendingCalls => c \in holding

(* The counter of an open lane counts them; a closed lane counts nothing. *)
BookInv ==
  /\ lane \in Nat
  /\ ~laneClosed => laneUsed = Cardinality(holding)
  /\ laneClosed => laneUsed = 0
  /\ Cardinality(holding) <= lane
  /\ Len(commands) <= lane

OwedInv ==
  /\ arbiter \in {"running", "marking"} => Owed \subseteq steers
  /\ Cardinality(Owed) <= lane

LaneInv == BookInv /\ OwedInv /\ \A c \in Calls : HoldInv(c)

(* What a step does with the calls the dispatcher has. *)
LEMMA StepOfSteers ==
  ASSUME SideInv, [SteeringNext]_<<lane, svars>>
  PROVE  /\ arbiter' \in {"running", "marking"} => arbiter \in {"running", "marking"}
         /\ \/ submitted' = submitted /\ (arbiter' \in {"running", "marking"} => steers' = steers)
            \/ \E c \in Calls : Submit(c) /\ steers' = steers \cup {c} /\ arbiter = "running"
            \/ ReadEvent /\ arbiter = "running"
<1>1. CASE UNCHANGED <<lane, svars>>
  BY <1>1 DEF svars, dvars, historyVars, arbiterVars
<1>2. ASSUME NEW c \in Calls, Caller(c)
      PROVE  submitted' = submitted /\ steers' = steers /\ arbiter' = arbiter
  BY <1>2 DEF Caller, Find, Reserve, NoLane, Send, AwaitAck, GiveUp, ReturnCanceled, ReturnReply,
              ReturnTimeout, dvars, historyVars, arbiterVars
<1>3. CASE AcceptCommand
  <2>1. PICK c : c = Head(commands)
    OBVIOUS
  <2>2. c \in Calls /\ arbiter = "running" /\ arbiter' = "running"
    BY <1>3, <2>1, CommandFacts
  <2>3. CASE AnswerLocally(c)
    BY <2>2, <2>3 DEF AnswerLocally, historyVars
  <2>4. CASE Forward(c)
    BY <2>2, <2>4 DEF Forward
  <2> QED BY <1>3, <2>1, <2>3, <2>4 DEF AcceptCommand
<1>4. CASE ReadEvent
  BY <1>4 DEF ReadEvent
<1>5. ASSUME NEW i \in 1..Len(pendingSteers), EmitSteer(i)
      PROVE  submitted' = submitted /\ steers' = steers /\ arbiter' = arbiter
  BY <1>5 DEF EmitSteer, dvars, historyVars, arbiterStill
<1>6. CASE Abandon \/ FailRegression \/ Finish \/ Hide \/ Retire \/ CloseLane \/ Leave
  BY <1>6 DEF Abandon, FailRegression, Finish, Ends, Hide, Retire, CloseLane, Leave, dvars, historyVars
<1>7. CASE BeginTerminal \/ MarkTerminal \/ PromptEnds \/ CloseDriver \/ StopDispatcher
  BY <1>7 DEF BeginTerminal, MarkTerminal, ResolveTerminal, PromptEnds, CloseDriver, StopDispatcher,
              CallStop, dvars, historyVars, arbiterVars
<1>8. CASE DispatcherLoop \/ StopEnters \/ ProviderStep
           \/ \E c \in Calls : ContextEnds(c) /\ UNCHANGED <<dispatcherOnly, answer>>
  <2>1. UNCHANGED dispatcherOnly
    BY <1>8 DEF DispatcherLoop, StopEnters, ProviderStep, ProviderResponds
  <2>2. submitted' = submitted
    BY <1>8, LoopSubmits
    DEF DispatcherLoop, StopEnters, ProviderStep, ProviderResponds, PutStop, ContextEnds,
        Settle, Respond, historyVars
  <2> QED BY <2>1, <2>2 DEF dispatcherOnly, arbiterVars
<1> QED BY <1>1, <1>2, <1>3, <1>4, <1>5, <1>6, <1>7, <1>8 DEF SteeringNext, Turn, Arbiter

LEMMA OwedKeeps ==
  ASSUME SideInv, DInv, DInv', [SteeringNext]_<<lane, svars>>, OwedInv,
         lane \in Nat, lane' = lane, steers' \subseteq holding', holding' \subseteq Calls,
         Cardinality(holding') <= lane
  PROVE  OwedInv'
<1>1. [DispatcherNext]_dvars
  BY TurnDrives
<1>2. \A X, Y : Y \subseteq Calls /\ X \subseteq Y /\ Cardinality(Y) <= lane => Cardinality(X) <= lane
  <2> SUFFICES ASSUME NEW X, NEW Y, Y \subseteq Calls, X \subseteq Y, Cardinality(Y) <= lane
               PROVE  Cardinality(X) <= lane
    OBVIOUS
  <2>1. IsFiniteSet(Y)
    BY FS_Subset, DispatcherAssumption
  <2>2. IsFiniteSet(X) /\ Cardinality(X) <= Cardinality(Y)
    BY <2>1, FS_Subset
  <2>3. Cardinality(X) \in Nat /\ Cardinality(Y) \in Nat
    BY <2>1, <2>2, FS_CardinalityType
  <2> QED BY <2>2, <2>3
<1>3. arbiter' \in {"running", "marking"} => arbiter \in {"running", "marking"}
  BY StepOfSteers
<1>4. Owed \subseteq Calls /\ Cardinality(Owed) <= lane
      /\ (arbiter \in {"running", "marking"} => Owed \subseteq steers)
  BY DEF OwedInv, Owed
<1>5. CASE submitted' = submitted /\ (arbiter' \in {"running", "marking"} => steers' = steers)
  <2>1. Owed' \subseteq Owed
    BY <1>1, <1>5, DispatcherOwes DEF Owed
  <2> QED BY <1>2, <1>3, <1>4, <1>5, <2>1 DEF OwedInv
<1>6. ASSUME NEW c \in Calls, Submit(c), steers' = steers \cup {c}, arbiter = "running"
      PROVE  OwedInv'
  <2>1. submitted \in Seq(Calls) /\ submitted' = Append(submitted, c) /\ told' = told /\ events' = events
    BY <1>6 DEF Submit, DInv, DispatcherTypeOK
  <2>2. \A x : In(x, submitted') <=> In(x, submitted) \/ x = c
    BY <2>1, AppendFacts
  <2>3. Owed' \subseteq Owed \cup {c}
    BY <2>1, <2>2 DEF Owed, AtDispatcher, WasSubmitted, In
  <2>4. Owed' \subseteq steers'
    BY <2>3, <1>4, <1>6
  <2>5. Cardinality(Owed') <= lane
    BY <1>2, <2>4
  <2> QED BY <2>4, <2>5 DEF OwedInv
<1>7. CASE ReadEvent /\ arbiter = "running"
  <2>1. PICK e : e = Head(events)
    OBVIOUS
  <2>2. /\ Read
        /\ steers' = steers \/ (e \in Event /\ steers' = steers \ {e.id})
    BY <1>7, <2>1, ReadFacts DEF DInv
  <2>3. /\ \A c : AtDispatcher(c)' => AtDispatcher(c)
        /\ e \in Event => ~AtDispatcher(e.id)'
    BY <2>1, <2>2, ReadOwes
  <2>4. Owed' \subseteq Owed /\ (e \in Event => e.id \notin Owed')
    BY <2>3 DEF Owed
  <2>5. Owed' \subseteq steers'
    BY <2>2, <2>4, <1>4, <1>7
  <2>6. Cardinality(Owed') <= lane
    BY <1>2, <1>4, <2>4
  <2> QED BY <2>5, <2>6 DEF OwedInv
<1> QED BY <1>5, <1>6, <1>7, StepOfSteers

(* A slot is taken by a caller that reserves, and given back by one whose
   command was refused or by the arbiter that answers or drops a call. *)
Dropped(d) ==
  /\ d \in steers \cup PendingCalls /\ d \notin steers' /\ d \notin PendingCalls'
  /\ caller' = caller /\ commands' = commands /\ retired' = retired

LEMMA StepOfHolding ==
  ASSUME SideInv, [SteeringNext]_<<lane, svars>>, NEW d \in Calls
  PROVE  \/ d \in holding' <=> d \in holding
         \/ Caller(d)
         \/ Dropped(d)
<1>1. CASE UNCHANGED <<lane, svars>>
  BY <1>1 DEF svars, laneVars
<1>2. ASSUME NEW c \in Calls, Caller(c), c # d PROVE d \in holding' <=> d \in holding
  BY <1>2 DEF Caller, Find, Reserve, NoLane, Send, AwaitAck, GiveUp, ReturnCanceled, ReturnReply,
              ReturnTimeout, Release, laneVars
<1>3. CASE AcceptCommand \/ ReadEvent \/ Retire
  BY <1>3 DEF AcceptCommand, ReadEvent, Retire, laneVars
<1>4. CASE Quiet
  <2>1. CASE \/ DispatcherLoop \/ StopEnters \/ ProviderStep
             \/ \E c \in Calls : ContextEnds(c) /\ UNCHANGED <<dispatcherOnly, answer>>
    BY <2>1 DEF DispatcherLoop, StopEnters, ProviderStep, ProviderResponds, dispatcherOnly, laneVars
  <2>2. CASE BeginTerminal \/ MarkTerminal \/ PromptEnds \/ CloseDriver \/ Finish \/ Hide \/ Leave
             \/ CloseLane \/ StopDispatcher
    BY <2>2 DEF BeginTerminal, MarkTerminal, PromptEnds, CloseDriver, Finish, Hide, Leave, CloseLane,
                StopDispatcher, laneVars
  <2> QED BY <1>4, <2>1, <2>2 DEF Quiet
<1>5. ASSUME NEW i \in 1..Len(pendingSteers), EmitSteer(i)
      PROVE  (d \in holding' <=> d \in holding) \/ Dropped(d)
  <2>1. PICK c, o : c = pendingSteers[i].id /\ o = pendingSteers[i].outcome
    OBVIOUS
  <2>2. /\ c \in PendingCalls /\ c \notin steers
        /\ PendingCalls' = PendingCalls \ {c} /\ steers' = steers /\ UNCHANGED handleVars
    BY <1>5, <2>1, EmitFacts
  <2>3. holding' = holding \ {c} /\ caller' = caller
    BY <1>5, <2>1 DEF EmitSteer, Answered, Release
  <2> QED BY <2>2, <2>3 DEF Dropped, handleVars
<1>6. CASE Abandon \/ FailRegression
  <2>1. /\ holding' = holding \ (steers \cup PendingCalls) /\ caller' = caller
        /\ steers' = {} /\ pendingSteers' = <<>> /\ UNCHANGED handleVars
    BY <1>6 DEF Abandon, FailRegression, Answered, Release, callerVars
  <2>2. PendingCalls' = {}
    BY <2>1 DEF PendingCalls
  <2> QED BY <2>1, <2>2 DEF Dropped, handleVars
<1> QED BY <1>1, <1>2, <1>3, <1>4, <1>5, <1>6 DEF SteeringNext, Turn, Arbiter, Quiet

LEMMA HoldSteps ==
  ASSUME SideInv, DInv, [SteeringNext]_<<lane, svars>>, NEW d \in Calls, HoldInv(d)
  PROVE  HoldInv(d)'
<1>0. DispatcherTypeOK
  BY DEF DInv
<1>1. /\ caller \in [Calls -> {"idle", "found", "reserved", "sent", "refused", "entered",
                               "returned"}]
      /\ commands \in Seq(Calls)
  BY DEF SideInv, SideTypes
<1>2. CASE Caller(d)
  <2>1. steers' = steers /\ pendingSteers' = pendingSteers /\ retired' = retired
    BY <1>2 DEF Caller, Find, Reserve, NoLane, Send, AwaitAck, GiveUp, ReturnCanceled, ReturnReply,
                ReturnTimeout, arbiterVars, handleVars
  <2>2. PendingCalls' = PendingCalls
    BY <2>1 DEF PendingCalls
  <2>3. CASE commands' = commands /\ holding' = holding /\ caller'[d] # "reserved"
             /\ (caller[d] \in {"idle", "found"} \/ caller'[d] \notin {"idle", "found"})
    BY <2>1, <2>2, <2>3 DEF HoldInv, InMailbox, In
  <2>4. CASE Find(d) \/ NoLane(d) \/ AwaitAck(d)
    BY <1>1, <2>3, <2>4 DEF Find, NoLane, AwaitAck, Moves, Returns, handleVars, laneVars
  <2>5. CASE ReturnCanceled(d) \/ ReturnReply(d) \/ ReturnTimeout(d)
    BY <1>1, <2>3, <2>5 DEF ReturnCanceled, ReturnReply, ReturnTimeout, Returns, handleVars, laneVars
  <2>6. CASE Reserve(d)
    <3>1. d \in holding' /\ caller'[d] = "reserved"
      BY <1>1, <2>6 DEF Reserve
    <3> QED BY <3>1 DEF HoldInv
  <2>7. CASE Send(d)
    <3>1. d \in holding /\ holding' = holding /\ caller'[d] \in {"sent", "refused"}
      BY <1>1, <2>7 DEF Send, Moves, laneVars, HoldInv
    <3> QED BY <3>1 DEF HoldInv
  <2>8. CASE GiveUp(d)
    <3>1. caller[d] = "refused" /\ caller'[d] = "returned" /\ commands' = commands
      BY <1>1, <2>8 DEF GiveUp, Returns, handleVars
    <3>2. Untouchable(d)
      BY <3>1, EarlyIsUntouchable
    <3>3. d \notin steers /\ d \notin PendingCalls
      BY <3>2, NothingMade DEF Untouchable
    <3> QED BY <2>1, <2>2, <3>1, <3>2, <3>3 DEF HoldInv, Untouchable, InMailbox, In
  <2> QED BY <1>2, <2>4, <2>5, <2>6, <2>7, <2>8 DEF Caller
<1>3. CASE Dropped(d)
  <2>1. ack[d] = "accepted"
    BY <1>3 DEF Dropped, SideInv, ArbiterSideInv
  <2>2. ~InMailbox(d) /\ caller[d] \notin Early
    BY <2>1 DEF SideInv, MailInv
  <2> QED BY <1>3, <2>2 DEF Dropped, HoldInv, Early, InMailbox, In
<1>4. ASSUME d \in holding' <=> d \in holding, ~Caller(d) PROVE HoldInv(d)'
  <2>1. CASE Aside(d)
    BY <1>4, <2>1 DEF Aside, HoldInv
  <2>2. CASE AcceptCommand /\ d = Head(commands)
    <3>1. /\ InMailbox(d) /\ ~retired /\ caller' = caller /\ caller[d] \notin Early
      BY <2>2, CommandFacts
    <3> QED BY <1>4, <3>1 DEF HoldInv, Early
  <2>3. ASSUME NEW e \in Event, Reads(d, e) PROVE HoldInv(d)'
    BY <1>4, <2>3 DEF Reads, HoldInv, InMailbox, In
  <2>4. ASSUME NEW o \in Outcomes, Tells(d, o) PROVE HoldInv(d)'
    BY <1>4, <2>4 DEF Tells, HoldInv, InMailbox, In
  <2> QED BY <1>0, <1>4, <2>1, <2>2, <2>3, <2>4, StepOfCall
<1> QED BY <1>2, <1>3, <1>4, StepOfHolding

LEMMA StepOfBooks ==
  ASSUME SideInv, [SteeringNext]_<<lane, svars>>
  PROVE  \/ UNCHANGED <<laneUsed, laneClosed, holding>>
         \/ \E c \in Calls : /\ caller[c] = "found" /\ ~laneClosed /\ laneUsed < lane
                             /\ laneUsed' = laneUsed + 1 /\ holding' = holding \cup {c}
                             /\ laneClosed' = laneClosed
         \/ \E cs \in SUBSET Calls : Release(cs)
         \/ laneClosed' = TRUE /\ laneUsed' = 0 /\ holding' = holding
<1>1. CASE UNCHANGED <<lane, svars>>
  BY <1>1 DEF svars, laneVars
<1>2. ASSUME NEW c \in Calls, Caller(c)
      PROVE  \/ UNCHANGED <<laneUsed, laneClosed, holding>>
             \/ /\ caller[c] = "found" /\ ~laneClosed /\ laneUsed < lane
                /\ laneUsed' = laneUsed + 1 /\ holding' = holding \cup {c}
                /\ laneClosed' = laneClosed
             \/ Release({c})
  BY <1>2 DEF Caller, Find, Reserve, NoLane, Send, AwaitAck, GiveUp, ReturnCanceled, ReturnReply,
              ReturnTimeout, laneVars, LaneHasRoom
<1>3. CASE AcceptCommand \/ ReadEvent \/ Retire
  BY <1>3 DEF AcceptCommand, ReadEvent, Retire, laneVars
<1>4. CASE CloseLane
  BY <1>4 DEF CloseLane
<1>5. CASE \/ DispatcherLoop \/ StopEnters \/ ProviderStep
           \/ \E c \in Calls : ContextEnds(c) /\ UNCHANGED <<dispatcherOnly, answer>>
  BY <1>5 DEF DispatcherLoop, StopEnters, ProviderStep, ProviderResponds, dispatcherOnly, laneVars
<1>6. CASE BeginTerminal \/ MarkTerminal \/ PromptEnds \/ CloseDriver \/ Finish \/ Hide \/ Leave
           \/ StopDispatcher
  BY <1>6 DEF BeginTerminal, MarkTerminal, PromptEnds, CloseDriver, Finish, Hide, Leave,
              StopDispatcher, laneVars
<1>7. pendingSteers \in Seq(Pending) /\ steers \subseteq Calls
  BY DEF SideInv, SideTypes
<1>8. ASSUME NEW i \in 1..Len(pendingSteers), EmitSteer(i)
      PROVE  \E cs \in SUBSET Calls : Release(cs)
  BY <1>7, <1>8, PendingTypes DEF EmitSteer, Answered
<1>9. CASE Abandon \/ FailRegression
  <2>1. steers \cup PendingCalls \in SUBSET Calls
    BY <1>7, PendingTypes
  <2> QED BY <1>9, <2>1 DEF Abandon, FailRegression, Answered
<1> QED BY <1>1, <1>2, <1>3, <1>4, <1>5, <1>6, <1>8, <1>9 DEF SteeringNext, Turn, Arbiter

LEMMA StepOfMailbox ==
  ASSUME SideInv, [SteeringNext]_<<lane, svars>>
  PROVE  \/ commands' = commands
         \/ commands # <<>> /\ commands' = Tail(commands)
         \/ ~retired' /\ \E c \in Calls : commands' = Append(commands, c)
<1>1. CASE UNCHANGED <<lane, svars>>
  BY <1>1 DEF svars, handleVars
<1>2. ASSUME NEW c \in Calls, Caller(c)
      PROVE  commands' = commands \/ (~retired' /\ commands' = Append(commands, c))
  BY <1>2 DEF Caller, Find, Reserve, NoLane, Send, AwaitAck, GiveUp, ReturnCanceled, ReturnReply,
              ReturnTimeout, handleVars
<1>3. CASE AcceptCommand
  BY <1>3 DEF AcceptCommand
<1>4. CASE ReadEvent \/ Retire \/ CloseLane \/ Abandon \/ FailRegression
  BY <1>4 DEF ReadEvent, Retire, CloseLane, Abandon, FailRegression, handleVars
<1>5. CASE \/ DispatcherLoop \/ StopEnters \/ ProviderStep
           \/ \E c \in Calls : ContextEnds(c) /\ UNCHANGED <<dispatcherOnly, answer>>
  BY <1>5 DEF DispatcherLoop, StopEnters, ProviderStep, ProviderResponds, dispatcherOnly, handleVars
<1>6. CASE BeginTerminal \/ MarkTerminal \/ PromptEnds \/ CloseDriver \/ Finish \/ Hide \/ Leave
           \/ StopDispatcher
  BY <1>6 DEF BeginTerminal, MarkTerminal, PromptEnds, CloseDriver, Finish, Hide, Leave,
              StopDispatcher, handleVars
<1>7. ASSUME NEW i \in 1..Len(pendingSteers), EmitSteer(i) PROVE commands' = commands
  BY <1>7 DEF EmitSteer, handleVars
<1> QED BY <1>1, <1>2, <1>3, <1>4, <1>5, <1>6, <1>7 DEF SteeringNext, Turn, Arbiter

LEMMA BookSteps ==
  ASSUME SideInv, SideInv', [SteeringNext]_<<lane, svars>>, BookInv, \A c \in Calls : HoldInv(c),
         \A c \in Calls : HoldInv(c)'
  PROVE  BookInv' /\ lane' = lane
<1>1. /\ holding \subseteq Calls /\ holding' \subseteq Calls /\ laneClosed \in BOOLEAN
      /\ commands \in Seq(Calls) /\ commands' \in Seq(Calls) /\ Distinct(commands')
  BY DEF SideInv, SideTypes, MailInv
<1>2. IsFiniteSet(holding) /\ IsFiniteSet(holding')
      /\ Cardinality(holding) \in Nat /\ Cardinality(holding') \in Nat
  <2>1. IsFiniteSet(holding) /\ IsFiniteSet(holding')
    BY <1>1, FS_Subset, DispatcherAssumption
  <2> QED BY <2>1, FS_CardinalityType
<1>3. lane' = lane
  BY DEF SteeringNext
<1>4. /\ lane \in Nat /\ Cardinality(holding) <= lane
      /\ (~laneClosed => laneUsed = Cardinality(holding)) /\ (laneClosed => laneUsed = 0)
      /\ Len(commands) <= lane
  BY DEF BookInv
<1>5. /\ (~laneClosed' => laneUsed' = Cardinality(holding')) /\ (laneClosed' => laneUsed' = 0)
      /\ Cardinality(holding') <= lane
  <2>1. CASE UNCHANGED <<laneUsed, laneClosed, holding>>
    BY <2>1, <1>4
  <2>2. ASSUME NEW c \in Calls, caller[c] = "found", ~laneClosed, laneUsed < lane,
               laneUsed' = laneUsed + 1, holding' = holding \cup {c}, laneClosed' = laneClosed
        PROVE  /\ (~laneClosed' => laneUsed' = Cardinality(holding')) /\ (laneClosed' => laneUsed' = 0)
               /\ Cardinality(holding') <= lane
    <3>1. c \notin holding
      BY <2>2 DEF HoldInv
    <3>2. Cardinality(holding') = Cardinality(holding) + 1
      BY <1>2, <2>2, <3>1, FS_AddElement
    <3> QED BY <3>2, <2>2, <1>2, <1>4
  <2>3. ASSUME NEW cs \in SUBSET Calls, Release(cs)
        PROVE  /\ (~laneClosed' => laneUsed' = Cardinality(holding')) /\ (laneClosed' => laneUsed' = 0)
               /\ Cardinality(holding') <= lane
    <3>1. holding' = holding \ cs /\ laneClosed' = laneClosed /\ laneUsed' = LaneAfter(cs)
      BY <2>3 DEF Release
    <3>2. /\ Cardinality(holding \ cs) = Cardinality(holding) - Cardinality(holding \cap cs)
          /\ Cardinality(holding \ cs) <= Cardinality(holding)
      <4>1. Cardinality(holding \ cs) = Cardinality(holding) - Cardinality(holding \cap cs)
        BY <1>2, FS_Difference
      <4>2. Cardinality(holding \ cs) <= Cardinality(holding)
        BY <1>2, FS_Subset
      <4> QED BY <4>1, <4>2
    <3>3. holding \cap cs = cs \cap holding
      OBVIOUS
    <3>4. Cardinality(holding') <= lane
      BY <3>1, <3>2, <1>2, <1>4
    <3>5. ~laneClosed => laneUsed' = Cardinality(holding')
      BY <3>1, <3>2, <3>3, <1>4 DEF LaneAfter
    <3>6. laneClosed => laneUsed' = 0
      BY <3>1, <1>4 DEF LaneAfter
    <3> QED BY <3>1, <3>4, <3>5, <3>6
  <2>4. CASE laneClosed' = TRUE /\ laneUsed' = 0 /\ holding' = holding
    BY <2>4, <1>4
  <2> QED BY <2>1, <2>2, <2>3, <2>4, StepOfBooks
<1>6. Len(commands') <= lane
  <2>1. CASE commands' = commands
    BY <2>1, <1>4
  <2>2. CASE commands # <<>> /\ commands' = Tail(commands)
    <3>1. Len(commands') = Len(commands) - 1 /\ Len(commands) \in Nat
      BY <2>2, <1>1, TailFacts
    <3> QED BY <3>1, <1>4
  <2>3. CASE ~retired'
    <3>1. \A i \in 1..Len(commands') : commands'[i] \in holding'
      <4> TAKE i \in 1..Len(commands')
      <4>1. PICK c \in Calls : c = commands'[i]
        BY <1>1
      <4>2. InMailbox(c)'
        BY <4>1 DEF InMailbox, In
      <4>3. HoldInv(c)'
        OBVIOUS
      <4> QED BY <4>1, <4>2, <4>3, <2>3 DEF HoldInv
    <3>2. commands' \in Seq(holding')
      BY <3>1, <1>1
    <3>3. Len(commands') <= Cardinality(holding')
      BY <3>2, <1>1, <1>2, DistinctLength
    <3>4. Len(commands') \in Nat
      BY <1>1
    <3> QED BY <3>3, <3>4, <1>2, <1>4, <1>5
  <2> QED BY <2>1, <2>2, <2>3, StepOfMailbox
<1> QED BY <1>3, <1>4, <1>5, <1>6 DEF BookInv

LEMMA LaneStarts == SteeringInit => LaneInv
<1> SUFFICES ASSUME SteeringInit PROVE LaneInv
  OBVIOUS
<1>1. /\ lane \in Nat /\ laneUsed = 0 /\ laneClosed = FALSE /\ holding = {} /\ commands = <<>>
      /\ steers = {} /\ pendingSteers = <<>> /\ submitted = <<>>
      /\ caller = [c \in Calls |-> "idle"]
  BY SteeringAssumption DEF SteeringInit, DispatcherInit
<1>2. Cardinality({}) = 0 /\ Len(commands) = 0
  BY <1>1, FS_EmptySet
<1>3. Owed = {}
  BY <1>1 DEF Owed, AtDispatcher, WasSubmitted
<1>4. BookInv
  BY <1>1, <1>2 DEF BookInv
<1>5. OwedInv
  BY <1>1, <1>2, <1>3 DEF OwedInv
<1>6. \A c \in Calls : HoldInv(c)
  BY <1>1 DEF HoldInv, InMailbox, In, PendingCalls
<1> QED BY <1>4, <1>5, <1>6 DEF LaneInv

LEMMA LaneSteps ==
  ASSUME DInv, SideInv, LaneInv, [SteeringNext]_<<lane, svars>>
  PROVE  LaneInv'
<1>1. DInv' /\ SideInv'
  BY TurnDrives, DispatcherSteps, SideSteps DEF DInv
<1>2. \A c \in Calls : HoldInv(c)'
  BY HoldSteps DEF LaneInv
<1>3. BookInv' /\ lane' = lane
  BY <1>1, <1>2, BookSteps DEF LaneInv
<1>4. /\ lane \in Nat /\ Cardinality(holding') <= lane
      /\ steers' \subseteq holding' /\ holding' \subseteq Calls
  <2>1. steers' \subseteq Calls /\ holding' \subseteq Calls
    BY <1>1 DEF SideInv, SideTypes
  <2>2. steers' \subseteq holding'
    BY <2>1, <1>2 DEF HoldInv
  <2> QED BY <2>1, <2>2, <1>3 DEF BookInv
<1>5. OwedInv'
  BY <1>1, <1>3, <1>4, OwedKeeps DEF LaneInv
<1> QED BY <1>2, <1>3, <1>5 DEF LaneInv

LEMMA LaneBounds == DInv /\ SideInv /\ LaneInv => LaneBoundsChannels /\ laneUsed \in 0..lane
<1> SUFFICES ASSUME DInv, SideInv, LaneInv PROVE LaneBoundsChannels /\ laneUsed \in 0..lane
  OBVIOUS
<1>1. /\ lane \in Nat /\ Cardinality(holding) <= lane /\ Len(commands) <= lane
      /\ (~laneClosed => laneUsed = Cardinality(holding)) /\ (laneClosed => laneUsed = 0)
      /\ Cardinality(Owed) <= lane
  BY DEF LaneInv, BookInv, OwedInv
<1>2. IsFiniteSet(holding) /\ Cardinality(holding) \in Nat
  <2>1. holding \subseteq Calls
    BY DEF SideInv, SideTypes
  <2>2. IsFiniteSet(holding)
    BY <2>1, FS_Subset, DispatcherAssumption
  <2> QED BY <2>2, FS_CardinalityType
<1>3. Owed \in SUBSET Calls
  BY DEF Owed
<1>4. /\ IsFiniteSet(Owed \cup {"stop", "terminal"}) /\ Cardinality(Owed) \in Nat
      /\ Cardinality(Owed \cup {"stop", "terminal"}) \in Nat
      /\ Cardinality(Owed \cup {"stop", "terminal"}) <= Cardinality(Owed) + 2
  BY <1>3, TwoMore
<1>5. Len(inputs) <= lane + 2
  <2>1. inputs \in Seq(Items) /\ Distinct(inputs) /\ Len(inputs) \in Nat
    BY DEF DInv, DispatcherTypeOK, LineInv
  <2>2. \A i \in 1..Len(inputs) : inputs[i] \in Owed \cup {"stop", "terminal"}
    <3> TAKE i \in 1..Len(inputs)
    <3>1. PICK x \in Items : x = inputs[i]
      BY <2>1
    <3>2. x \in Calls => x \in Owed
      BY <3>1 DEF DInv, LineInv, InLine, Entered, Owed, AtDispatcher
    <3> QED BY <3>1, <3>2 DEF Items
  <2>3. inputs \in Seq(Owed \cup {"stop", "terminal"})
    BY <2>1, <2>2
  <2>4. Len(inputs) <= Cardinality(Owed \cup {"stop", "terminal"})
    BY <1>4, <2>1, <2>3, DistinctLength
  <2> QED BY <2>1, <2>4, <1>1, <1>4
<1>6. Len(events) <= lane + 2
  <2>1. ASSUME NEW i \in 1..Len(events), First(told, events[i]) PROVE events[i].id \in Owed
    <3>1. events[i] \in Reports
      BY DEF DInv, DispatcherTypeOK
    <3>2. PICK c \in Calls : c = events[i].id
      BY <2>1, <3>1, ReportTypes DEF First
    <3>3. told[c] # <<>> /\ told[c][1] = events[i]
      BY <2>1, <3>2 DEF First
    <3>4. WasSubmitted(c)
      BY <3>3 DEF DInv, ToldInv, ToldCovers
    <3>5. In(told[c][1], events)
      BY <3>3 DEF In
    <3> QED BY <3>2, <3>4, <3>5 DEF Owed, AtDispatcher
  <2>2. Len(events) <= Cardinality(Owed) + 2
    BY <2>1, <1>3, EventsCounted
  <2>3. Len(events) \in Nat
    BY DEF DInv, DispatcherTypeOK
  <2> QED BY <2>2, <2>3, <1>1, <1>4
<1> QED BY <1>1, <1>2, <1>5, <1>6 DEF LaneBoundsChannels

LEMMA StreamAgrees == SideInv /\ CallInv => CallerAndStreamAgree
<1> SUFFICES ASSUME SideInv, CallInv, NEW c \in Calls
             PROVE  /\ Len(observed[c]) <= 1
                    /\ outcome[c] # "none" /\ observed[c] # <<>> =>
                         outcome[c] = observed[c][1] \/ outcome[c] \in Undecided
  BY DEF CallerAndStreamAgree
<1>1. Len(observed[c]) <= 1
  BY DEF SideInv, ArbiterSideInv
<1>2. ASSUME outcome[c] # "none", observed[c] # <<>>, outcome[c] \notin Undecided
      PROVE  outcome[c] = observed[c][1]
  <2>1. observed[c] \in Seq(Outcomes)
    BY DEF SideInv, SideTypes
  <2>2. ASSUME NEW s \in Seq(Outcomes), s # <<>>
        PROVE  s[1] \in Outcomes /\ 1 \in 1..Len(s)
    BY <2>2
  <2>3. observed[c][1] \in Outcomes /\ 1 \in 1..Len(observed[c])
    BY <1>2, <2>1, <2>2
  <2>4. Seen(c, observed[c][1])
    BY <2>3 DEF Seen
  <2>5. ack[c] = "accepted"
    BY <1>2 DEF SideInv, ArbiterSideInv
  <2>6. Agrees(c)
    BY DEF CallInv
  <2> QED BY <2>3, <2>4, <2>5, <2>6, <1>2 DEF Agrees, Untouchable
<1> QED BY <1>1, <1>2

(* Caller, handle, lane and dispatcher keep their books together: Steer and the
   stream agree and observe a call at most once, a refused command is never
   taken up, the counter of the lane is the number of live reservations, and
   what the lane admits fits the mailbox and both channels of the dispatcher,
   for any number of calls and any capacity. *)
THEOREM SteeringKeepsItsBooks == SteeringSpec => []SteeringInv
<1>1. SteeringInit => LaneInv
  BY LaneStarts
<1>2. DInv /\ SideInv /\ LaneInv /\ [SteeringNext]_<<lane, svars>> => LaneInv'
  BY LaneSteps
<1>3. SideInv => RefusedIsNeverConsumed
  BY DEF RefusedIsNeverConsumed, SideInv, ArbiterSideInv
<1>4. DInv /\ SideInv /\ LaneInv => SteeringTypeOK
  BY LaneBounds DEF SteeringTypeOK, DInv, SideInv, SideTypes
<1>5. DInv /\ SideInv /\ CallInv /\ LaneInv => SteeringInv
  BY <1>3, <1>4, DispatcherBooks, StreamAgrees, LaneBounds DEF SteeringInv
<1> QED BY <1>1, <1>2, <1>5, SteeringKeepsCalls, PTL DEF SteeringSpec
=============================================================================
