-------------------------- MODULE ForeignLoop_proofs --------------------------
(***************************************************************************)
(* Proofs about ForeignLoop, for any number of inputs, any capacity of the *)
(* queue and any control commands.                                         *)
(*                                                                         *)
(* The invariant LInv follows an input from its sender to its turn         *)
(* (SentInv, IntakeInv, FateInv), a producer from its lock to its report   *)
(* (TurnInv, MailInv), and says what is known of the current turn          *)
(* (NowInv), of the turns that were left behind (PastInv, AnewInv), of the *)
(* binding of the session (BindInv, BoundOnce) and of the difference       *)
(* between actor and journal (JournalIsTrue).                              *)
(***************************************************************************)
EXTENDS ForeignLoop, SequenceTheorems, TLAPS

Says(t, k) == k \in journal.of[t]
MailHas(t, k) == \E j \in 1..Len(mail[t]) : mail[t][j] = k
Active == phase \in {"turn", "finishing", "draining"}
Received(i) == input[i] \notin {"unsent", "sent"}

IntakeInv ==
  /\ Len(queue) <= Capacity
  /\ \A j \in 1..Len(queue) :
       /\ input[queue[j]] = "ok" /\ ~Started(queue[j])
       /\ \A k \in Kinds : ~Says(queue[j], k)
       /\ \A t \in Inputs : Started(t) => t < queue[j]
  /\ \A i, j \in 1..Len(queue) : i < j => queue[i] < queue[j]
  /\ \A t \in Inputs : Started(t) => input[t] = "ok"
  /\ \A t \in Inputs : ~Received(t) => \A k \in Kinds : ~Says(t, k)
  /\ \A t, u \in Inputs : u < t /\ Received(t) => Received(u)

SentInv == \A t, u \in Inputs : u < t /\ input[t] # "unsent" => input[u] # "unsent"

FateInv == \A t \in Inputs :
  /\ Started(t) => ~Says(t, "cancelled") /\ ~Says(t, "rejected")
  /\ ~Started(t) => \A k, l \in Kinds :
       Says(t, k) /\ Says(t, l) => k = l /\ k \in {"cancelled", "rejected"}

TurnInv == \A t \in Inputs :
  /\ turn[t].at \in {"none", "lock"} => ~turn[t].ran /\ ~turn[t].learned
  /\ turn[t].at \in {"none", "lock", "stream", "decide"} => turn[t].out = "none"
  /\ turn[t].ran => turn[t].out # "nothing"
  /\ turn[t].at = "over" => turn[t].holds = "none"
  /\ Says(t, "done") \/ MailHas(t, "done") => turn[t].out = "done"
  /\ Says(t, "bound") \/ MailHas(t, "bound") => ~turn[t].bound

MailInv == \A t \in Inputs : t # cur => Len(mail[t]) = 0

NowInv ==
  /\ phase = "idle" => cur = 0
  /\ cur # 0 => Started(cur)
  /\ Active =>
       /\ cur # 0 /\ turn[cur].index = turnIndex + 1
       /\ sid = cur => Says(cur, "bound")
       /\ phase = "finishing" => outcome = turn[cur].out /\ Reported(cur)
       /\ Says(cur, "done") => journal.index = turn[cur].index
       /\ ~turn[cur].bound => \A t \in Inputs : Says(t, "bound") => t = cur
       /\ ~loopGone /\ phase \in {"turn", "finishing"} =>
            /\ turn[cur].learned => Says(cur, "bound") \/ MailHas(cur, "bound")
            /\ turn[cur].at \in {"report", "over"} /\ turn[cur].out = "done" =>
                 Says(cur, "done") \/ MailHas(cur, "done")

BindInv ==
  /\ mode # "late" => sidBound /\ \A t \in Inputs : Started(t) => turn[t].bound
  /\ \A t \in Inputs : Says(t, "bound") => sidBound
  /\ sid # 0 => Started(sid)

PastInv == \A u \in Inputs : Started(u) /\ u # cur =>
  /\ cur # 0 => u < cur
  /\ Says(u, "interrupted") \/ turn[u].at = "over"
  /\ turn[u].ran /\ (turn[u].bound \/ turn[u].learned) => Says(u, "interrupted") \/ hasSpawned

AnewInv == \A t, u \in Inputs :
  u < t /\ Started(t) /\ Started(u) /\ turn[t].new /\ turn[u].ran =>
    Says(u, "interrupted") \/ ~(turn[u].bound \/ turn[u].learned)

LInv == /\ LoopTypeOK /\ SentInv /\ IntakeInv /\ FateInv /\ TurnInv /\ MailInv /\ NowInv /\ BindInv
        /\ BoundOnce /\ PastInv /\ AnewInv /\ JournalIsTrue
-----------------------------------------------------------------------------
(* What a publication adds to the journal. *)
LEMMA PublishedSays ==
  ASSUME LoopTypeOK, NEW events, Published(events),
         <<cur, "done">> \in events => cur \in Inputs
  PROVE  /\ journal' \in [of : [Inputs -> SUBSET Kinds], index : Nat]
         /\ \A t \in Inputs, k \in Kinds : Says(t, k)' <=> Says(t, k) \/ <<t, k>> \in events
         /\ journal'.index = IF <<cur, "done">> \in events THEN turn[cur].index ELSE journal.index
<1>1. journal.of \in [Inputs -> SUBSET Kinds] /\ journal.index \in Nat
  BY DEF LoopTypeOK
<1>2. cur \in Inputs => turn[cur].index \in Nat
  BY DEF LoopTypeOK, Turns
<1> QED BY <1>1, <1>2 DEF Published, Says

(* The record of one turn is replaced. *)
LEMMA OneTurn ==
  ASSUME LoopTypeOK, NEW t \in Inputs, NEW r \in Turns, turn' = [turn EXCEPT ![t] = r]
  PROVE  /\ turn' \in [Inputs -> Turns] /\ turn'[t] = r
         /\ \A u \in Inputs \ {t} : turn'[u] = turn[u]
BY DEF LoopTypeOK

(* One message enters a mailbox. *)
LEMMA OneMessage ==
  ASSUME LoopTypeOK, NEW t \in Inputs, NEW kind \in {"bound", "done", "failed"},
         mail' = [mail EXCEPT ![t] = Append(@, kind)]
  PROVE  /\ mail' \in [Inputs -> Seq({"bound", "done", "failed"})]
         /\ \A u \in Inputs \ {t} : mail'[u] = mail[u]
         /\ MailHas(t, kind)'
         /\ \A k : MailHas(t, k)' <=> MailHas(t, k) \/ k = kind
<1>1. mail[t] \in Seq({"bound", "done", "failed"})
  BY DEF LoopTypeOK
<1>2. PICK m \in Nat : m = Len(mail[t])
  BY <1>1
<1>3. mail'[t] = Append(mail[t], kind) /\ \A u \in Inputs \ {t} : mail'[u] = mail[u]
  BY DEF LoopTypeOK
<1>4. /\ mail'[t] \in Seq({"bound", "done", "failed"}) /\ Len(mail'[t]) = m + 1
      /\ mail'[t][m + 1] = kind /\ \A i \in 1..m : mail'[t][i] = mail[t][i]
  BY <1>1, <1>2, <1>3, AppendProperties
<1>5. \A i \in 1..(m + 1) : i \in 1..m \/ i = m + 1
  BY ONLY m \in Nat
<1>6. m + 1 \in 1..(m + 1) /\ \A i \in 1..m : i \in 1..(m + 1)
  BY ONLY m \in Nat
<1>7. mail' \in [Inputs -> Seq({"bound", "done", "failed"})]
  BY <1>3, <1>4 DEF LoopTypeOK
<1>8. \A k : MailHas(t, k)' <=> MailHas(t, k) \/ k = kind
  BY <1>2, <1>4, <1>5, <1>6 DEF MailHas
<1> QED BY <1>3, <1>7, <1>8

(* The first message of a mailbox is taken. *)
LEMMA TakenMessage ==
  ASSUME LoopTypeOK, NEW t \in Inputs, mail[t] # <<>>, mail' = [mail EXCEPT ![t] = Tail(@)]
  PROVE  /\ mail' \in [Inputs -> Seq({"bound", "done", "failed"})]
         /\ \A u \in Inputs \ {t} : mail'[u] = mail[u]
         /\ Head(mail[t]) \in {"bound", "done", "failed"} /\ MailHas(t, Head(mail[t]))
         /\ \A k : MailHas(t, k)' => MailHas(t, k)
         /\ \A k : MailHas(t, k) => k = Head(mail[t]) \/ MailHas(t, k)'
<1>1. mail[t] \in Seq({"bound", "done", "failed"})
  BY DEF LoopTypeOK
<1>2. PICK m \in Nat : m = Len(mail[t])
  BY <1>1
<1>3. mail'[t] = Tail(mail[t]) /\ \A u \in Inputs \ {t} : mail'[u] = mail[u]
  BY DEF LoopTypeOK
<1>4. Head(mail[t]) = mail[t][1] /\ m >= 1 /\ mail[t][1] \in {"bound", "done", "failed"}
  BY <1>1, <1>2
<1>5. /\ Tail(mail[t]) \in Seq({"bound", "done", "failed"}) /\ Len(Tail(mail[t])) = m - 1
      /\ \A i \in 1..(m - 1) : Tail(mail[t])[i] = mail[t][i + 1]
  BY <1>1, <1>2, HeadTailProperties
<1>6. /\ mail'[t] \in Seq({"bound", "done", "failed"}) /\ Len(mail'[t]) = m - 1
      /\ \A i \in 1..(m - 1) : mail'[t][i] = mail[t][i + 1]
  BY <1>3, <1>5
<1>7. \A i \in 1..m : i = 1 \/ (i - 1 \in 1..(m - 1) /\ i = (i - 1) + 1)
  BY ONLY <1>4, m \in Nat
<1>8. 1 \in 1..m /\ \A i \in 1..(m - 1) : i + 1 \in 1..m
  BY ONLY <1>4, m \in Nat
<1>9. mail' \in [Inputs -> Seq({"bound", "done", "failed"})]
  BY <1>3, <1>6 DEF LoopTypeOK
<1>10. \A k : MailHas(t, k)' => MailHas(t, k)
  BY <1>2, <1>6, <1>8 DEF MailHas
<1>11. \A k : MailHas(t, k) => k = Head(mail[t]) \/ MailHas(t, k)'
  <2> SUFFICES ASSUME NEW k, NEW i \in 1..m, mail[t][i] = k
               PROVE  k = Head(mail[t]) \/ MailHas(t, k)'
    BY <1>2 DEF MailHas
  <2>1. CASE i = 1
    BY <1>4, <2>1
  <2>2. CASE i - 1 \in 1..(m - 1) /\ i = (i - 1) + 1
    <3>1. mail'[t][i - 1] = k
      BY <1>6, <2>2
    <3> QED BY <1>6, <2>2, <3>1 DEF MailHas
  <2> QED BY <1>7, <2>1, <2>2
<1>12. MailHas(t, Head(mail[t]))
  BY <1>2, <1>4, <1>8 DEF MailHas
<1> QED BY <1>3, <1>4, <1>9, <1>10, <1>11, <1>12
-----------------------------------------------------------------------------
(* What one step of a producer may do to its turn and its mailbox. *)
ProducerStep(t) ==
  LET q == turn[t]  r == turn'[t] IN
  /\ r.bound = q.bound /\ r.new = q.new /\ r.index = q.index
  /\ q.at \notin {"none", "over"} /\ r.at \notin {"none", "lock"}
  /\ q.ran => r.ran
  /\ r.ran /\ ~q.ran => q.at = "lock" /\ r.at = "stream"
  /\ q.learned => r.learned
  /\ r.learned /\ ~q.learned => q.at = "stream" /\ ~q.bound
  /\ r.out # q.out => q.at \in {"lock", "decide"}
  /\ q.at = "lock" => r.out = q.out \/ (r.ran = q.ran /\ r.out = "nothing")
  /\ q.at = "decide" => r.out \in {"failed", "done", "interrupted"} /\ r.at \in {"terminal", "report"}
  /\ q.at = "decide" /\ r.at = "report" => r.out = "interrupted"
  /\ r.at \in {"stream", "decide"} => r.out = q.out
  /\ r.at \in {"stream", "decide"} => q.at \in {"lock", "stream"}
  /\ r.at = "over" => r.holds = "none"
  /\ r.at \in {"report", "over"} => q.at \in {"decide", "terminal", "report"}

MailStep(t) ==
  /\ mail' \in [Inputs -> Seq({"bound", "done", "failed"})]
  /\ \A u \in Inputs : u # cur \/ u # t => mail'[u] = mail[u]
  /\ \A k : MailHas(t, k) => MailHas(t, k)'
  /\ MailHas(t, "bound")' => MailHas(t, "bound") \/ ~turn[t].bound
  /\ MailHas(t, "done")' => MailHas(t, "done") \/ (turn[t].out = "done" /\ turn'[t].out = "done")
  /\ turn'[t].learned /\ ~turn[t].learned => MailHas(t, "bound")' \/ Gone(t)
  /\ turn[t].at = "terminal" /\ turn[t].out = "done" => MailHas(t, "done")' \/ Gone(t)

LEMMA SentMail ==
  ASSUME LoopTypeOK, NEW t \in Inputs, NEW kind \in {"bound", "done", "failed"}, Sent(t, kind)
  PROVE  /\ mail' \in [Inputs -> Seq({"bound", "done", "failed"})]
         /\ \A u \in Inputs : u # cur \/ u # t => mail'[u] = mail[u]
         /\ MailHas(t, kind)' \/ t # cur
         /\ \A k : MailHas(t, k) => MailHas(t, k)'
         /\ \A k : MailHas(t, k)' => MailHas(t, k) \/ k = kind
<1>1. CASE t = cur
  <2>1. mail' = [mail EXCEPT ![t] = Append(@, kind)]
    BY <1>1 DEF Sent
  <2> QED BY <1>1, <2>1, OneMessage
<1>2. CASE t # cur
  <2>1. mail' = mail
    BY <1>2 DEF Sent
  <2> QED BY <1>2, <2>1 DEF MailHas, LoopTypeOK
<1> QED BY <1>1, <1>2

LEMMA ProducerMoves ==
  ASSUME LoopTypeOK, NEW t \in Inputs, Spawn(t) \/ Learn(t) \/ StreamEnds(t) \/ Winds(t)
  PROVE  /\ turn' \in [Inputs -> Turns]
         /\ \A u \in Inputs \ {t} : turn'[u] = turn[u]
         /\ ProducerStep(t) /\ MailStep(t)
<1> DEFINE q == turn[t]
<1>0. q \in Turns /\ turn \in [Inputs -> Turns]
  BY DEF LoopTypeOK
<1>a. ASSUME mail' = mail
      PROVE  /\ mail' \in [Inputs -> Seq({"bound", "done", "failed"})]
             /\ \A u \in Inputs : mail'[u] = mail[u]
             /\ \A k : MailHas(t, k)' <=> MailHas(t, k)
  BY <1>a DEF LoopTypeOK, MailHas
<1>1. ASSUME turn[t].at = "lock", mail' = mail,
             turn' = [turn EXCEPT ![t].at = "terminal", ![t].out = "nothing"]
      PROVE  turn' \in [Inputs -> Turns] /\ (\A u \in Inputs \ {t} : turn'[u] = turn[u])
             /\ ProducerStep(t) /\ MailStep(t)
  <2> DEFINE r == [q EXCEPT !.at = "terminal", !.out = "nothing"]
  <2>1. r \in Turns
    BY <1>0 DEF Turns, Producing, Outcomes
  <2>2. turn' = [turn EXCEPT ![t] = r]
    BY <1>0, <1>1
  <2>3. turn' \in [Inputs -> Turns] /\ turn'[t] = r /\ \A u \in Inputs \ {t} : turn'[u] = turn[u]
    BY <2>1, <2>2, OneTurn
  <2>4. ProducerStep(t)
    BY <1>0, <1>1, <2>3 DEF ProducerStep, Turns
  <2>5. MailStep(t)
    BY <1>0, <1>1, <1>a, <2>3 DEF MailStep, Turns
  <2> QED BY <2>3, <2>4, <2>5
<1>2. ASSUME NEW kind \in {"durable", "temporary"}, turn[t].at = "lock", mail' = mail,
             turn' = [turn EXCEPT ![t].at = "terminal", ![t].out = "nothing", ![t].holds = kind]
      PROVE  turn' \in [Inputs -> Turns] /\ (\A u \in Inputs \ {t} : turn'[u] = turn[u])
             /\ ProducerStep(t) /\ MailStep(t)
  <2> DEFINE r == [q EXCEPT !.at = "terminal", !.out = "nothing", !.holds = kind]
  <2>1. r \in Turns
    BY <1>0 DEF Turns, Producing, Outcomes
  <2>2. turn' = [turn EXCEPT ![t] = r]
    BY <1>0, <1>2
  <2>3. turn' \in [Inputs -> Turns] /\ turn'[t] = r /\ \A u \in Inputs \ {t} : turn'[u] = turn[u]
    BY <2>1, <2>2, OneTurn
  <2>4. ProducerStep(t)
    BY <1>0, <1>2, <2>3 DEF ProducerStep, Turns
  <2>5. MailStep(t)
    BY <1>0, <1>2, <1>a, <2>3 DEF MailStep, Turns
  <2> QED BY <2>3, <2>4, <2>5
<1>3. ASSUME NEW kind \in {"durable", "temporary"}, turn[t].at = "lock", mail' = mail,
             turn' = [turn EXCEPT ![t].at = "stream", ![t].ran = TRUE, ![t].holds = kind]
      PROVE  turn' \in [Inputs -> Turns] /\ (\A u \in Inputs \ {t} : turn'[u] = turn[u])
             /\ ProducerStep(t) /\ MailStep(t)
  <2> DEFINE r == [q EXCEPT !.at = "stream", !.ran = TRUE, !.holds = kind]
  <2>1. r \in Turns
    BY <1>0 DEF Turns, Producing, Outcomes
  <2>2. turn' = [turn EXCEPT ![t] = r]
    BY <1>0, <1>3
  <2>3. turn' \in [Inputs -> Turns] /\ turn'[t] = r /\ \A u \in Inputs \ {t} : turn'[u] = turn[u]
    BY <2>1, <2>2, OneTurn
  <2>4. ProducerStep(t)
    BY <1>0, <1>3, <2>3 DEF ProducerStep, Turns
  <2>5. MailStep(t)
    BY <1>0, <1>3, <1>a, <2>3 DEF MailStep, Turns
  <2> QED BY <2>3, <2>4, <2>5
<1>4. CASE Spawn(t)
  BY <1>1, <1>2, <1>3, <1>4 DEF Spawn
<1>5. CASE Learn(t)
  <2>1. PICK exchanged \in BOOLEAN, sunk \in BOOLEAN :
          /\ sunk \/ Gone(t)
          /\ turn' = [turn EXCEPT ![t].learned = TRUE, ![t].bindErr = ~exchanged /\ sunk,
                        ![t].holds = IF exchanged THEN "durable" ELSE @,
                        ![t].at = IF sunk THEN @ ELSE "decide"]
          /\ IF sunk THEN Sent(t, "bound") ELSE UNCHANGED mail
    BY <1>5 DEF Learn
  <2>2. turn[t].at = "stream" /\ ~turn[t].bound /\ ~turn[t].learned
    BY <1>5 DEF Learn
  <2> DEFINE r == [q EXCEPT !.learned = TRUE, !.bindErr = ~exchanged /\ sunk,
                     !.holds = IF exchanged THEN "durable" ELSE @,
                     !.at = IF sunk THEN @ ELSE "decide"]
  <2>3. r \in Turns
    BY <1>0 DEF Turns, Producing
  <2>4. turn' = [turn EXCEPT ![t] = r]
    BY <1>0, <2>1
  <2>5. turn' \in [Inputs -> Turns] /\ turn'[t] = r /\ \A u \in Inputs \ {t} : turn'[u] = turn[u]
    BY <2>3, <2>4, OneTurn
  <2>6. ProducerStep(t)
    <3>1. /\ r.bound = q.bound /\ r.new = q.new /\ r.index = q.index /\ r.ran = q.ran
          /\ r.out = q.out /\ r.learned /\ r.at \in {"stream", "decide"}
      BY <1>0, <2>2 DEF Turns
    <3> QED BY <2>2, <2>5, <3>1 DEF ProducerStep
  <2>7. MailStep(t)
    <3>1. CASE sunk
      <4>1. Sent(t, "bound")
        BY <2>1, <3>1
      <4>2. t # cur => Gone(t)
        BY DEF Gone
      <4>3. "bound" \in {"bound", "done", "failed"}
        OBVIOUS
      <4>4. /\ mail' \in [Inputs -> Seq({"bound", "done", "failed"})]
            /\ \A u \in Inputs : u # cur \/ u # t => mail'[u] = mail[u]
            /\ MailHas(t, "bound")' \/ t # cur
            /\ \A k : MailHas(t, k) => MailHas(t, k)'
            /\ \A k : MailHas(t, k)' => MailHas(t, k) \/ k = "bound"
        BY <4>1, <4>3, SentMail
      <4> QED BY <2>2, <4>2, <4>4 DEF MailStep
    <3>2. CASE ~sunk
      BY <1>a, <2>1, <2>2, <3>2 DEF MailStep
    <3> QED BY <3>1, <3>2
  <2> QED BY <2>5, <2>6, <2>7
<1>6. CASE StreamEnds(t)
  <2> DEFINE r == [q EXCEPT !.at = "decide"]
  <2>1. r \in Turns
    BY <1>0 DEF Turns, Producing
  <2>2. turn' = [turn EXCEPT ![t] = r] /\ q.at = "stream" /\ mail' = mail
    BY <1>0, <1>6 DEF StreamEnds, Goes
  <2>3. turn' \in [Inputs -> Turns] /\ turn'[t] = r /\ \A u \in Inputs \ {t} : turn'[u] = turn[u]
    BY <2>1, <2>2, OneTurn
  <2>4. ProducerStep(t)
    BY <1>0, <2>2, <2>3 DEF ProducerStep, Turns
  <2>5. MailStep(t)
    BY <1>0, <1>a, <2>2, <2>3 DEF MailStep, Turns
  <2> QED BY <2>3, <2>4, <2>5
<1>7. CASE Decide(t)
  <2>1. PICK out \in {"failed", "done", "interrupted"} :
          turn' = [turn EXCEPT ![t].out = out,
                     ![t].at = IF out = "interrupted" THEN "report" ELSE "terminal"]
    BY <1>7 DEF Decide
  <2> DEFINE r == [q EXCEPT !.out = out, !.at = IF out = "interrupted" THEN "report" ELSE "terminal"]
  <2>2. r \in Turns
    BY <1>0 DEF Turns, Producing, Outcomes
  <2>3. turn' = [turn EXCEPT ![t] = r] /\ q.at = "decide" /\ mail' = mail
    BY <1>0, <1>7, <2>1 DEF Decide
  <2>4. turn' \in [Inputs -> Turns] /\ turn'[t] = r /\ \A u \in Inputs \ {t} : turn'[u] = turn[u]
    BY <2>2, <2>3, OneTurn
  <2>5. ProducerStep(t)
    BY <1>0, <2>3, <2>4 DEF ProducerStep, Turns
  <2>6. MailStep(t)
    BY <1>0, <1>a, <2>3, <2>4 DEF MailStep, Turns
  <2> QED BY <2>4, <2>5, <2>6
<1>8. CASE SendTerminal(t)
  <2> DEFINE r == [q EXCEPT !.at = "report"]
  <2>1. r \in Turns
    BY <1>0 DEF Turns, Producing
  <2>2. turn' = [turn EXCEPT ![t] = r] /\ q.at = "terminal"
    BY <1>0, <1>8 DEF SendTerminal, Goes
  <2>3. turn' \in [Inputs -> Turns] /\ turn'[t] = r /\ \A u \in Inputs \ {t} : turn'[u] = turn[u]
    BY <2>1, <2>2, OneTurn
  <2>4. ProducerStep(t)
    BY <1>0, <2>2, <2>3 DEF ProducerStep, Turns
  <2>5. MailStep(t)
    <3>1. PICK kind \in {"done", "failed"} : kind = IF q.out = "done" THEN "done" ELSE "failed"
      OBVIOUS
    <3>2. CASE Sent(t, kind)
      <4>1. /\ mail' \in [Inputs -> Seq({"bound", "done", "failed"})]
            /\ \A u \in Inputs : u # cur \/ u # t => mail'[u] = mail[u]
            /\ MailHas(t, kind)' \/ t # cur
            /\ \A k : MailHas(t, k) => MailHas(t, k)'
            /\ \A k : MailHas(t, k)' => MailHas(t, k) \/ k = kind
        BY <3>2, SentMail
      <4>2. t # cur => Gone(t)
        BY DEF Gone
      <4>3. r.learned = q.learned /\ r.out = q.out
        BY <1>0 DEF Turns
      <4> QED BY <2>2, <2>3, <3>1, <4>1, <4>2, <4>3 DEF MailStep
    <3>3. CASE Gone(t) /\ mail' = mail
      BY <1>0, <1>a, <2>2, <2>3, <3>3 DEF MailStep, Turns
    <3> QED BY <1>8, <3>1, <3>2, <3>3 DEF SendTerminal
  <2> QED BY <2>3, <2>4, <2>5
<1>9. CASE Report(t)
  <2> DEFINE r == [q EXCEPT !.at = "over", !.holds = "none"]
  <2>1. r \in Turns
    BY <1>0 DEF Turns, Producing
  <2>2. turn' = [turn EXCEPT ![t] = r] /\ q.at = "report" /\ mail' = mail
    BY <1>0, <1>9 DEF Report
  <2>3. turn' \in [Inputs -> Turns] /\ turn'[t] = r /\ \A u \in Inputs \ {t} : turn'[u] = turn[u]
    BY <2>1, <2>2, OneTurn
  <2>4. ProducerStep(t)
    BY <1>0, <2>2, <2>3 DEF ProducerStep, Turns
  <2>5. MailStep(t)
    BY <1>0, <1>a, <2>2, <2>3 DEF MailStep, Turns
  <2> QED BY <2>3, <2>4, <2>5
<1> QED BY <1>4, <1>5, <1>6, <1>7, <1>8, <1>9 DEF Winds
-----------------------------------------------------------------------------
(* The part of the invariant that is about turns. *)
TurnSide == /\ TurnInv /\ MailInv /\ NowInv /\ BindInv /\ BoundOnce /\ PastInv /\ AnewInv
            /\ JournalIsTrue

LEMMA BoundOnceStays ==
  ASSUME BoundOnce, UNCHANGED mode, \A u \in Inputs : Says(u, "bound")' <=> Says(u, "bound")
  PROVE  BoundOnce'
BY DEF BoundOnce, Says

LEMMA ProducerKeeps ==
  ASSUME LoopTypeOK, TurnSide, NEW t \in Inputs, phase # "exited",
         turn' \in [Inputs -> Turns], \A u \in Inputs \ {t} : turn'[u] = turn[u],
         ProducerStep(t), MailStep(t),
         UNCHANGED <<mode, phase, cur, own, outcome, serving, loopGone, journal>>
  PROVE  TurnSide' /\ \A u \in Inputs : Started(u)' <=> Started(u)
<1> USE DEF own
<1>0. /\ TurnInv /\ MailInv /\ NowInv /\ BindInv /\ PastInv /\ AnewInv /\ JournalIsTrue
      /\ BoundOnce /\ turn[t] \in Turns /\ turn'[t] \in Turns /\ cur \in 0..MaxInputs
  BY DEF TurnSide, LoopTypeOK
<1>1. \A u \in Inputs : \A k : Says(u, k)' <=> Says(u, k)
  BY DEF Says
<1>2. \A u \in Inputs : Started(u)' <=> Started(u)
  BY DEF ProducerStep, Started
<1>3. \A u \in Inputs \ {t} : \A k : MailHas(u, k)' <=> MailHas(u, k)
  BY DEF MailStep, MailHas
<1>4. TurnInv'
  <2> SUFFICES ASSUME NEW u \in Inputs
               PROVE  /\ turn'[u].at \in {"none", "lock"} => ~turn'[u].ran /\ ~turn'[u].learned
                      /\ turn'[u].at \in {"none", "lock", "stream", "decide"} => turn'[u].out = "none"
                      /\ turn'[u].ran => turn'[u].out # "nothing"
                      /\ turn'[u].at = "over" => turn'[u].holds = "none"
                      /\ Says(u, "done") \/ MailHas(u, "done")' => turn'[u].out = "done"
                      /\ Says(u, "bound") \/ MailHas(u, "bound")' => ~turn'[u].bound
    BY <1>1 DEF TurnInv
  <2>1. /\ turn[u].at \in {"none", "lock"} => ~turn[u].ran /\ ~turn[u].learned
        /\ turn[u].at \in {"none", "lock", "stream", "decide"} => turn[u].out = "none"
        /\ turn[u].ran => turn[u].out # "nothing"
        /\ turn[u].at = "over" => turn[u].holds = "none"
        /\ Says(u, "done") \/ MailHas(u, "done") => turn[u].out = "done"
        /\ Says(u, "bound") \/ MailHas(u, "bound") => ~turn[u].bound
    BY <1>0 DEF TurnInv
  <2>2. CASE u # t
    BY <1>3, <2>1, <2>2
  <2>3. CASE u = t
    <3>1. ProducerStep(u) /\ MailStep(u)
      BY <2>3
    <3>2. /\ turn'[u].at \notin {"none", "lock"}
          /\ turn'[u].at \in {"stream", "decide"} => turn'[u].out = "none"
          /\ turn'[u].at = "over" => turn'[u].holds = "none"
      BY <2>1, <3>1 DEF ProducerStep
    <3>3. turn'[u].ran => turn'[u].out # "nothing"
      BY <2>1, <3>1 DEF ProducerStep
    <3>4. Says(u, "done") \/ MailHas(u, "done")' => turn'[u].out = "done"
      BY <2>1, <3>1 DEF ProducerStep, MailStep
    <3>5. Says(u, "bound") \/ MailHas(u, "bound")' => ~turn'[u].bound
      BY <2>1, <3>1 DEF ProducerStep, MailStep
    <3> QED BY <3>2, <3>3, <3>4, <3>5
  <2> QED BY <2>2, <2>3
<1>5. MailInv'
  BY <1>0 DEF MailInv, MailStep
<1>6. t # cur => turn'[cur] = turn[cur] \/ cur = 0
  BY <1>0 DEF Inputs
<1>7. NowInv'
  <2>1. \A u \in Inputs : Says(u, "bound")' <=> Says(u, "bound")
    BY <1>1
  <2>2. CASE cur = 0
    BY <1>0, <2>2 DEF NowInv, Active
  <2>3. CASE cur # 0 /\ cur # t
    <3>1. turn'[cur] = turn[cur] /\ cur \in Inputs
      BY <1>0, <1>6, <2>3 DEF Inputs
    <3>2. \A k : MailHas(cur, k)' <=> MailHas(cur, k)
      <4>1. PICK c \in Inputs : c = cur
        BY <3>1
      <4>2. mail'[c] = mail[c]
        BY <2>3, <4>1 DEF MailStep
      <4> QED BY <4>1, <4>2 DEF MailHas
    <3> QED BY <1>0, <1>1, <1>2, <2>3, <3>1, <3>2 DEF NowInv, Active, Reported
  <2>4. CASE cur = t
    <3>1. Started(t) /\ (Active => turn[t].index = turnIndex + 1)
      BY <1>0, <2>4 DEF NowInv, Inputs
    <3>2. phase # "finishing"
      BY <1>0, <2>4 DEF NowInv, Active, Reported, ProducerStep
    <3>3. ~loopGone /\ phase = "turn" => ~Gone(t)
      BY <2>4 DEF Gone
    <3>4. ~loopGone /\ phase = "turn" =>
            /\ turn[t].learned => Says(t, "bound") \/ MailHas(t, "bound")
            /\ turn[t].at \in {"report", "over"} /\ turn[t].out = "done" =>
                 Says(t, "done") \/ MailHas(t, "done")
      BY <1>0, <2>4 DEF NowInv, Active
    <3>5. ~loopGone /\ phase = "turn" /\ turn'[t].learned => Says(t, "bound") \/ MailHas(t, "bound")'
      BY <3>3, <3>4 DEF MailStep
    <3>6. ~loopGone /\ phase = "turn" /\ turn'[t].at \in {"report", "over"} /\ turn'[t].out = "done" =>
            Says(t, "done") \/ MailHas(t, "done")'
      <4> SUFFICES ASSUME ~loopGone, phase = "turn", turn'[t].at \in {"report", "over"},
                          turn'[t].out = "done"
                   PROVE  Says(t, "done") \/ MailHas(t, "done")'
        OBVIOUS
      <4>1. turn[t].at \in {"decide", "terminal", "report"}
        BY DEF ProducerStep
      <4>2. turn[t].at # "decide"
        BY DEF ProducerStep
      <4>3. turn[t].out = "done"
        BY <4>1, <4>2 DEF ProducerStep
      <4> QED BY <3>3, <3>4, <4>1, <4>2, <4>3 DEF MailStep
    <3>7. turn'[t].index = turn[t].index /\ turn'[t].bound = turn[t].bound
      BY DEF ProducerStep
    <3>8. /\ Says(t, "done")' <=> Says(t, "done")
          /\ Says(t, "bound")' <=> Says(t, "bound")
          /\ Started(t)'
      BY <1>1, <1>2, <3>1
    <3>9. /\ phase = "idle" => cur = 0
          /\ Active =>
               /\ turn'[t].index = turnIndex + 1
               /\ sid = t => Says(t, "bound")
               /\ Says(t, "done") => journal.index = turn'[t].index
               /\ ~turn'[t].bound => \A u \in Inputs : Says(u, "bound") => u = t
      BY <1>0, <2>4, <3>1, <3>7 DEF NowInv
    <3> QED BY <2>1, <2>4, <3>2, <3>5, <3>6, <3>8, <3>9, <1>0 DEF NowInv, Active, Inputs
  <2> QED BY <2>2, <2>3, <2>4
<1>8. BindInv'
  <2>1. sid # 0 => sid \in Inputs
    BY DEF LoopTypeOK, Inputs
  <2> QED BY <1>0, <1>1, <1>2, <2>1 DEF BindInv, ProducerStep
<1>9. PastInv'
  <2> SUFFICES ASSUME NEW u \in Inputs, Started(u), u # cur
               PROVE  /\ cur # 0 => u < cur
                      /\ Says(u, "interrupted") \/ turn'[u].at = "over"
                      /\ turn'[u].ran /\ (turn'[u].bound \/ turn'[u].learned) =>
                           Says(u, "interrupted") \/ hasSpawned
    BY <1>1, <1>2 DEF PastInv
  <2>1. /\ cur # 0 => u < cur
        /\ Says(u, "interrupted") \/ turn[u].at = "over"
        /\ turn[u].ran /\ (turn[u].bound \/ turn[u].learned) => Says(u, "interrupted") \/ hasSpawned
    BY <1>0 DEF PastInv
  <2>2. turn[u].at = "over" => u # t
    BY DEF ProducerStep
  <2> QED BY <2>1, <2>2
<1>10. AnewInv'
  <2> SUFFICES ASSUME NEW s \in Inputs, NEW u \in Inputs, u < s, Started(s), Started(u),
                      turn'[s].new, turn'[u].ran
               PROVE  Says(u, "interrupted") \/ ~(turn'[u].bound \/ turn'[u].learned)
    BY <1>1, <1>2 DEF AnewInv
  <2>1. turn[s].new
    BY DEF ProducerStep
  <2>2. CASE u # t
    BY <1>0, <2>1, <2>2 DEF AnewInv
  <2>3. CASE u = t
    <3>1. u # cur
      <4>1. u = cur => s # cur /\ cur # 0
        BY DEF Inputs
      <4>2. u = cur => s < cur
        BY <1>0, <4>1 DEF PastInv
      <4> QED BY <4>2, <1>0 DEF Inputs
    <3>2. turn[u].at # "over"
      BY <2>3 DEF ProducerStep
    <3> QED BY <1>0, <3>1, <3>2 DEF PastInv
  <2> QED BY <2>2, <2>3
<1>11. JournalIsTrue'
  <2>1. \A u \in Inputs : turn'[u].index = turn[u].index
    BY DEF ProducerStep
  <2> QED BY <1>0, <2>1 DEF JournalIsTrue, Unsettled
<1>b. BoundOnce'
  BY <1>0, <1>1, BoundOnceStays
<1> QED BY <1>2, <1>4, <1>5, <1>7, <1>8, <1>9, <1>10, <1>11, <1>b DEF TurnSide
(* Steps that move no turn and publish nothing of the current one: the actor
   may only go on to its next phase, or leave. *)
CalmPhase ==
  \/ phase' = phase /\ mail' = mail /\ outcome' = outcome
  \/ /\ phase' = "exited" /\ \A u \in Inputs \ {cur} : mail'[u] = mail[u]
     /\ \A u \in Inputs, k \in {"bound", "done"} : MailHas(u, k)' => MailHas(u, k)
  \/ phase \in {"turn", "draining"} /\ phase' = "draining" /\ mail' = mail
  \/ /\ phase = "turn" /\ phase' = "finishing" /\ mail' = mail
     /\ Reported(cur) /\ outcome' = turn[cur].out

Loud == {"bound", "done", "interrupted"}

LEMMA CalmKeeps ==
  ASSUME LoopTypeOK, TurnSide, CalmPhase, loopGone => loopGone',
         UNCHANGED <<mode, cur, own, turn>>, journal'.index = journal.index,
         \A u \in Inputs, k \in Loud : Says(u, k)' <=> Says(u, k)
  PROVE  TurnSide'
<1> USE DEF own
<1>0. /\ TurnInv /\ MailInv /\ NowInv /\ BindInv /\ PastInv /\ AnewInv /\ JournalIsTrue
      /\ BoundOnce /\ cur \in 0..MaxInputs
  BY DEF TurnSide, LoopTypeOK
<1>1. \A u \in Inputs : /\ Says(u, "bound")' <=> Says(u, "bound")
                        /\ Says(u, "done")' <=> Says(u, "done")
                        /\ Says(u, "interrupted")' <=> Says(u, "interrupted")
  BY DEF Loud
<1>2. \A u \in Inputs : Started(u)' <=> Started(u)
  BY DEF Started
<1>3. \A u \in Inputs : /\ MailHas(u, "bound")' => MailHas(u, "bound")
                        /\ MailHas(u, "done")' => MailHas(u, "done")
  BY DEF CalmPhase, MailHas
<1>4. TurnInv'
  BY <1>0, <1>1, <1>3 DEF TurnInv
<1>5. MailInv'
  <2>1. \A u \in Inputs : u # cur => mail'[u] = mail[u]
    BY DEF CalmPhase
  <2> QED BY <1>0, <2>1 DEF MailInv
<1>6. BindInv' /\ PastInv' /\ AnewInv'
  <2>1. sid # 0 => sid \in Inputs
    BY DEF LoopTypeOK, Inputs
  <2> QED BY <1>0, <1>1, <1>2, <2>1 DEF BindInv, PastInv, AnewInv
<1>7. JournalIsTrue'
  <2> SUFFICES ASSUME ~loopGone' PROVE JournalIsTrue'
    BY DEF JournalIsTrue
  <2>1. \A u \in Inputs : Unsettled(u)' <=> Unsettled(u)
    BY <1>1 DEF Unsettled, Says
  <2>2. \A u \in Inputs : /\ "done" \in journal'.of[u] <=> "done" \in journal.of[u]
                          /\ "bound" \in journal'.of[u] <=> "bound" \in journal.of[u]
    BY <1>1 DEF Says
  <2>3. sid # 0 => sid \in Inputs
    BY DEF LoopTypeOK, Inputs
  <2> QED BY <1>0, <2>1, <2>2, <2>3 DEF JournalIsTrue
<1>8. NowInv'
  <2>1. CASE cur = 0
    <3>1. ~Active /\ (phase' = phase \/ phase' = "exited")
      BY <1>0, <2>1 DEF NowInv, Active, CalmPhase
    <3> QED BY <1>0, <2>1, <3>1 DEF NowInv, Active
  <2>2. CASE cur # 0
    <3>1. cur \in Inputs /\ Started(cur) /\ phase # "idle"
      BY <1>0, <2>2 DEF NowInv, Inputs
    <3>2. CASE phase' = "exited"
      BY <1>2, <2>2, <3>1, <3>2 DEF NowInv, Active
    <3>3. CASE phase' # "exited"
      <4>1. mail' = mail /\ (Active' => Active) /\ phase' # "idle"
        BY <3>1, <3>3 DEF CalmPhase, Active
      <4>2. /\ phase' = "finishing" => outcome' = turn[cur].out /\ Reported(cur)
            /\ phase' \in {"turn", "finishing"} => phase \in {"turn", "finishing"}
        BY <1>0, <2>2, <3>3 DEF CalmPhase, NowInv, Active
      <4>3. /\ MailHas(cur, "bound")' <=> MailHas(cur, "bound")
            /\ MailHas(cur, "done")' <=> MailHas(cur, "done")
        BY <4>1 DEF MailHas
      <4>4. /\ Says(cur, "bound")' <=> Says(cur, "bound")
            /\ Says(cur, "done")' <=> Says(cur, "done")
            /\ Started(cur)'
        BY <1>1, <1>2, <3>1
      <4>5. Active =>
              /\ turn[cur].index = turnIndex + 1
              /\ sid = cur => Says(cur, "bound")
              /\ Says(cur, "done") => journal.index = turn[cur].index
              /\ ~turn[cur].bound => \A t \in Inputs : Says(t, "bound") => t = cur
              /\ ~loopGone /\ phase \in {"turn", "finishing"} =>
                   /\ turn[cur].learned => Says(cur, "bound") \/ MailHas(cur, "bound")
                   /\ turn[cur].at \in {"report", "over"} /\ turn[cur].out = "done" =>
                        Says(cur, "done") \/ MailHas(cur, "done")
        BY <1>0 DEF NowInv
      <4>6. Active' =>
              /\ turn'[cur].index = turnIndex' + 1
              /\ sid' = cur => Says(cur, "bound")'
              /\ phase' = "finishing" => outcome' = turn'[cur].out /\ Reported(cur)'
              /\ Says(cur, "done")' => journal'.index = turn'[cur].index
              /\ ~turn'[cur].bound => \A t \in Inputs : Says(t, "bound")' => t = cur
              /\ ~loopGone' /\ phase' \in {"turn", "finishing"} =>
                   /\ turn'[cur].learned => Says(cur, "bound")' \/ MailHas(cur, "bound")'
                   /\ turn'[cur].at \in {"report", "over"} /\ turn'[cur].out = "done" =>
                        Says(cur, "done")' \/ MailHas(cur, "done")'
        BY <1>1, <4>1, <4>2, <4>3, <4>4, <4>5 DEF Reported
      <4> QED BY <2>2, <4>1, <4>4, <4>6 DEF NowInv
    <3> QED BY <3>2, <3>3
  <2> QED BY <2>1, <2>2
<1>b. BoundOnce'
  BY <1>0, <1>1, BoundOnceStays
<1> QED BY <1>4, <1>5, <1>6, <1>7, <1>8, <1>b DEF TurnSide

(* A turn begins. *)
LEMMA BeginKeeps ==
  ASSUME LoopTypeOK, TurnSide, NEW t \in Inputs, phase = "idle", ~Started(t),
         \A u \in Inputs : Started(u) => u < t,
         \A u \in Inputs, k \in Loud : Says(u, k)' <=> Says(u, k),
         \A k \in Loud : ~Says(t, k),
         journal'.index = journal.index, phase' = "turn", cur' = t,
         turn' = [turn EXCEPT ![t] = [NoTurn EXCEPT !.at = "lock", !.bound = sidBound,
                                        !.new = ~hasSpawned, !.index = turnIndex + 1]],
         UNCHANGED <<mode, mail, own, loopGone>>
  PROVE  TurnSide' /\ turn' \in [Inputs -> Turns]
         /\ \A u \in Inputs : Started(u)' <=> Started(u) \/ u = t
<1> USE DEF own
<1>0. /\ TurnInv /\ MailInv /\ NowInv /\ BindInv /\ PastInv /\ AnewInv /\ JournalIsTrue
      /\ BoundOnce /\ cur = 0 /\ turnIndex \in Nat /\ sidBound \in BOOLEAN /\ hasSpawned \in BOOLEAN
  BY DEF TurnSide, LoopTypeOK, NowInv
<1> DEFINE r == [NoTurn EXCEPT !.at = "lock", !.bound = sidBound,
                                !.new = ~hasSpawned, !.index = turnIndex + 1]
<1>1. /\ r \in Turns /\ r.at = "lock" /\ r.bound = sidBound /\ r.new = ~hasSpawned
      /\ r.index = turnIndex + 1 /\ ~r.ran /\ ~r.learned /\ r.out = "none" /\ r.holds = "none"
  <2>1. (~hasSpawned) \in BOOLEAN
    BY <1>0, Zenon
  <2>2. PICK w \in BOOLEAN : w = (~hasSpawned)
    BY <2>1, Zenon
  <2>3. PICK i \in Nat : i = turnIndex + 1
    BY <1>0
  <2>4. r = [NoTurn EXCEPT !.at = "lock", !.bound = sidBound, !.new = w, !.index = i]
    BY <2>2, <2>3
  <2>5. /\ r \in Turns /\ r.at = "lock" /\ r.bound = sidBound /\ r.new = w
        /\ r.index = i /\ ~r.ran /\ ~r.learned /\ r.out = "none" /\ r.holds = "none"
    <3> HIDE DEF r
    <3> QED BY <1>0, <2>4 DEF NoTurn, Turns, Producing, Outcomes
  <2> QED BY <2>2, <2>3, <2>5
<1> HIDE DEF r
<1>2. turn' \in [Inputs -> Turns] /\ turn'[t] = r /\ \A u \in Inputs \ {t} : turn'[u] = turn[u]
  <2>1. turn' = [turn EXCEPT ![t] = r]
    BY DEF r
  <2> QED BY <1>1, <2>1, OneTurn
<1>3. \A u \in Inputs : Started(u)' <=> Started(u) \/ u = t
  BY <1>1, <1>2 DEF Started
<1>4. \A u \in Inputs : /\ Says(u, "bound")' <=> Says(u, "bound")
                        /\ Says(u, "done")' <=> Says(u, "done")
                        /\ Says(u, "interrupted")' <=> Says(u, "interrupted")
  BY DEF Loud
<1>5. \A u \in Inputs : Len(mail[u]) = 0
  BY <1>0 DEF MailInv, Inputs
<1>6. \A u \in Inputs : \A k : ~MailHas(u, k) /\ ~MailHas(u, k)'
  BY <1>5 DEF MailHas
<1>7. ~Says(t, "bound") /\ ~Says(t, "done")
  BY DEF Loud
<1>8. TurnInv'
  <2> SUFFICES ASSUME NEW u \in Inputs
               PROVE  /\ turn'[u].at \in {"none", "lock"} => ~turn'[u].ran /\ ~turn'[u].learned
                      /\ turn'[u].at \in {"none", "lock", "stream", "decide"} => turn'[u].out = "none"
                      /\ turn'[u].ran => turn'[u].out # "nothing"
                      /\ turn'[u].at = "over" => turn'[u].holds = "none"
                      /\ Says(u, "done") => turn'[u].out = "done"
                      /\ Says(u, "bound") => ~turn'[u].bound
    BY <1>4, <1>6 DEF TurnInv
  <2>1. CASE u = t
    BY <1>1, <1>2, <1>7, <2>1
  <2>2. CASE u # t
    BY <1>0, <1>2, <2>2 DEF TurnInv
  <2> QED BY <2>1, <2>2
<1>9. MailInv'
  BY <1>5 DEF MailInv
<1>10. BindInv'
  <2>1. sid # 0 => sid \in Inputs
    BY DEF LoopTypeOK, Inputs
  <2> QED BY <1>0, <1>1, <1>2, <1>3, <1>4, <2>1 DEF BindInv
<1>11. PastInv'
  <2> SUFFICES ASSUME NEW u \in Inputs, Started(u), u # t
               PROVE  /\ u < t
                      /\ Says(u, "interrupted") \/ turn'[u].at = "over"
                      /\ turn'[u].ran /\ (turn'[u].bound \/ turn'[u].learned) =>
                           Says(u, "interrupted") \/ hasSpawned
    BY <1>3, <1>4 DEF PastInv
  <2>1. u # cur
    BY <1>0 DEF Inputs
  <2> QED BY <1>0, <1>2, <2>1 DEF PastInv
<1>12. AnewInv'
  <2> SUFFICES ASSUME NEW s \in Inputs, NEW u \in Inputs, u < s, Started(s) \/ s = t,
                      Started(u) \/ u = t, turn'[s].new, turn'[u].ran
               PROVE  Says(u, "interrupted") \/ ~(turn'[u].bound \/ turn'[u].learned)
    BY <1>3, <1>4 DEF AnewInv
  <2>1. u # t /\ turn'[u] = turn[u] /\ Started(u) /\ u # cur
    BY <1>0, <1>1, <1>2 DEF Inputs
  <2>2. CASE s = t
    <3>1. ~hasSpawned
      BY <1>1, <1>2, <2>2
    <3> QED BY <1>0, <2>1, <3>1 DEF PastInv
  <2>3. CASE s # t
    BY <1>0, <1>2, <2>1, <2>3 DEF AnewInv
  <2> QED BY <2>2, <2>3
<1>13. JournalIsTrue'
  <2>1. \A u \in Inputs : Unsettled(u) => Unsettled(u)'
    BY <1>0, <1>4 DEF Unsettled, Says, Inputs
  <2>2. \A u \in Inputs : /\ "done" \in journal'.of[u] <=> "done" \in journal.of[u]
                          /\ "bound" \in journal'.of[u] <=> "bound" \in journal.of[u]
    BY <1>4 DEF Says
  <2>3. sid # 0 => sid \in Inputs
    BY DEF LoopTypeOK, Inputs
  <2>4. "done" \notin journal.of[t]
    BY <1>7 DEF Says
  <2>5. \A u \in Inputs : "done" \in journal.of[u] => turn'[u] = turn[u]
    BY <1>2, <2>4
  <2> QED BY <1>0, <2>1, <2>2, <2>3, <2>5 DEF JournalIsTrue
<1>14. NowInv'
  <2>1. Started(t)' /\ t # 0
    BY <1>3 DEF Inputs
  <2>2. turn'[t].index = turnIndex + 1
    BY <1>1, <1>2
  <2>3. ~turn'[t].bound => \A u \in Inputs : ~Says(u, "bound")
    BY <1>0, <1>1, <1>2 DEF BindInv
  <2>4. ~Says(t, "done")' /\ ~turn'[t].learned /\ turn'[t].at = "lock"
    BY <1>1, <1>2, <1>4, <1>7
  <2>5. sid # t
    BY <1>0, <2>1 DEF BindInv
  <2> QED BY <1>4, <2>5, <2>1, <2>2, <2>3, <2>4 DEF NowInv, Active
<1>b. BoundOnce'
  BY <1>0, <1>4, BoundOnceStays
<1> QED BY <1>2, <1>3, <1>8, <1>9, <1>10, <1>11, <1>12, <1>13, <1>14, <1>b DEF TurnSide
(* The actor hears the next message of its turn: it publishes it, or, while it
   drains, drops what is not a binding. *)
LEMMA HearKeeps ==
  ASSUME LoopTypeOK, TurnSide, Active, mail[cur] # <<>>, mail' = [mail EXCEPT ![cur] = Tail(@)],
         NEW h, h = Head(mail[cur]),
         UNCHANGED <<mode, phase, cur, outcome, loopGone, turn, turnIndex>>,
         h = "bound" => sid' = cur /\ sidBound' = TRUE /\ hasSpawned' = TRUE,
         h # "bound" => UNCHANGED <<sid, sidBound, hasSpawned>>,
         \/ /\ \A u \in Inputs, k \in Kinds : Says(u, k)' <=> Says(u, k) \/ (u = cur /\ k = h)
            /\ journal'.index = IF h = "done" THEN turn[cur].index ELSE journal.index
         \/ h # "bound" /\ phase = "draining" /\ journal' = journal
  PROVE  TurnSide'
<1>0. /\ TurnInv /\ MailInv /\ NowInv /\ BindInv /\ PastInv /\ AnewInv /\ JournalIsTrue
      /\ BoundOnce /\ cur \in Inputs /\ turnIndex \in Nat
  BY DEF TurnSide, LoopTypeOK, NowInv, Inputs
<1>1. PICK c \in Inputs : c = cur
  BY <1>0
<1>2. /\ \A u \in Inputs \ {c} : mail'[u] = mail[u]
      /\ h \in {"bound", "done", "failed"} /\ MailHas(c, h)
      /\ \A k : MailHas(c, k)' => MailHas(c, k)
      /\ \A k : MailHas(c, k) => k = h \/ MailHas(c, k)'
  BY <1>1, TakenMessage
<1>3. \A u \in Inputs : \A k : MailHas(u, k)' => MailHas(u, k)
  BY <1>2 DEF MailHas
<1>4. \A u \in Inputs : Started(u)' <=> Started(u)
  BY DEF Started
<1>5. /\ turn[c].index = turnIndex + 1 /\ c # 0 /\ Started(c)
      /\ sid = c => Says(c, "bound")
      /\ Says(c, "done") => journal.index = turn[c].index
      /\ ~turn[c].bound => \A u \in Inputs : Says(u, "bound") => u = c
      /\ phase = "finishing" => outcome = turn[c].out /\ Reported(c)
      /\ ~loopGone /\ phase \in {"turn", "finishing"} =>
           /\ turn[c].learned => Says(c, "bound") \/ MailHas(c, "bound")
           /\ turn[c].at \in {"report", "over"} /\ turn[c].out = "done" =>
                Says(c, "done") \/ MailHas(c, "done")
  BY <1>0, <1>1 DEF NowInv
<1>6. h = "bound" => ~turn[c].bound
  BY <1>0, <1>2 DEF TurnInv
<1>7. h = "done" => turn[c].out = "done"
  BY <1>0, <1>2 DEF TurnInv
<1>8. CASE /\ \A u \in Inputs, k \in Kinds : Says(u, k)' <=> Says(u, k) \/ (u = cur /\ k = h)
           /\ journal'.index = IF h = "done" THEN turn[cur].index ELSE journal.index
  <2>1. \A u \in Inputs : /\ Says(u, "bound")' <=> Says(u, "bound") \/ (u = c /\ h = "bound")
                          /\ Says(u, "done")' <=> Says(u, "done") \/ (u = c /\ h = "done")
                          /\ Says(u, "interrupted")' <=> Says(u, "interrupted")
    BY <1>1, <1>2, <1>8 DEF Kinds
  <2>2. TurnInv'
    BY <1>0, <1>2, <1>3, <2>1, <1>6, <1>7 DEF TurnInv
  <2>3. MailInv'
    BY <1>0, <1>1, <1>2 DEF MailInv
  <2>4. BindInv'
    <3>1. \A u \in Inputs : Says(u, "bound")' => sidBound'
      BY <1>0, <1>2, <2>1 DEF BindInv
    <3>2. sid' # 0 => Started(sid')
      BY <1>0, <1>1, <1>5 DEF BindInv
    <3>3. mode # "late" => sidBound' /\ \A u \in Inputs : Started(u) => turn[u].bound
      BY <1>0 DEF BindInv
    <3> QED BY <1>4, <3>1, <3>2, <3>3 DEF BindInv, Started
  <2>5. PastInv'
    BY <1>0, <1>4, <2>1 DEF PastInv
  <2>6. AnewInv'
    BY <1>0, <1>4, <2>1 DEF AnewInv
  <2>7. JournalIsTrue'
    <3> SUFFICES ASSUME ~loopGone PROVE JournalIsTrue'
      BY DEF JournalIsTrue
    <3>1. \A u \in Inputs : /\ "done" \in journal'.of[u] <=> "done" \in journal.of[u] \/ (u = c /\ h = "done")
                            /\ "bound" \in journal'.of[u] <=> "bound" \in journal.of[u] \/ (u = c /\ h = "bound")
                            /\ Unsettled(u)' <=> Unsettled(u)
      BY <2>1 DEF Says, Unsettled
    <3>2. Unsettled(c)
      BY <1>1 DEF Unsettled
    <3>3. sid # 0 => sid \in Inputs
      BY DEF LoopTypeOK, Inputs
    <3>4. /\ turnIndex # journal.index =>
               \E t \in Inputs : /\ "done" \in journal.of[t] /\ turn[t].index = journal.index
                                 /\ Unsettled(t)
          /\ turnIndex <= journal.index
          /\ sid # 0 => "bound" \in journal.of[sid] \/ Unsettled(sid)
      BY <1>0 DEF JournalIsTrue
    <3>5. turnIndex <= journal'.index
      BY <1>0, <1>1, <1>5, <1>8, <3>4
    <3>a. PICK s : s = sid'
      OBVIOUS
    <3>6. s # 0 => "bound" \in journal'.of[s] \/ Unsettled(s)'
      BY <1>1, <1>2, <3>1, <3>3, <3>4, <3>a
    <3>7. turnIndex # journal'.index =>
               \E t \in Inputs : /\ "done" \in journal'.of[t] /\ turn[t].index = journal'.index
                                 /\ Unsettled(t)'
      BY <1>1, <1>8, <3>1, <3>2, <3>4
    <3> QED BY <3>5, <3>6, <3>7, <3>a DEF JournalIsTrue, Unsettled
  <2>8. NowInv'
    <3>1. Active' /\ phase' # "idle" /\ cur' = c
      BY <1>1 DEF Active
    <3>2. /\ turn[c].index = turnIndex + 1
          /\ sid' = c => Says(c, "bound")'
          /\ Says(c, "done")' => journal'.index = turn[c].index
          /\ ~turn[c].bound => \A u \in Inputs : Says(u, "bound")' => u = c
          /\ ~loopGone /\ phase \in {"turn", "finishing"} =>
               /\ turn[c].learned => Says(c, "bound")' \/ MailHas(c, "bound")'
               /\ turn[c].at \in {"report", "over"} /\ turn[c].out = "done" =>
                    Says(c, "done")' \/ MailHas(c, "done")'
      BY <1>1, <1>2, <1>5, <1>8, <2>1
    <3> QED BY <1>1, <1>4, <1>5, <3>1, <3>2 DEF NowInv, Active, Reported
  <2>9. BoundOnce'
    <3> SUFFICES ASSUME NEW t \in Inputs, NEW u \in Inputs, Says(t, "bound")', Says(u, "bound")'
                 PROVE  t = u /\ mode = "late"
      BY DEF BoundOnce, Says
    <3>1. CASE h = "bound"
      <4>1. t = c /\ u = c
        BY <1>5, <1>6, <2>1, <3>1
      <4>2. mode = "late"
        BY <1>0, <1>5, <1>6, <3>1 DEF BindInv
      <4> QED BY <4>1, <4>2
    <3>2. CASE h # "bound"
      BY <1>0, <2>1, <3>2 DEF BoundOnce, Says
    <3> QED BY <3>1, <3>2
  <2> QED BY <2>2, <2>3, <2>4, <2>5, <2>6, <2>7, <2>8, <2>9 DEF TurnSide
<1>9. CASE h # "bound" /\ phase = "draining" /\ journal' = journal
  <2>1. \A u \in Inputs : \A k : Says(u, k)' <=> Says(u, k)
    BY <1>9 DEF Says
  <2>2. TurnInv'
    BY <1>0, <1>3, <2>1 DEF TurnInv
  <2>3. MailInv'
    BY <1>0, <1>1, <1>2 DEF MailInv
  <2>4. sid # 0 => sid \in Inputs
    BY DEF LoopTypeOK, Inputs
  <2>5. BindInv' /\ PastInv' /\ AnewInv'
    BY <1>0, <1>4, <1>9, <2>1, <2>4 DEF BindInv, PastInv, AnewInv
  <2>6. JournalIsTrue'
    BY <1>0, <1>9 DEF JournalIsTrue, Unsettled
  <2>7. NowInv'
    <3>1. Active' /\ phase' = "draining" /\ cur' = c
      BY <1>1, <1>9 DEF Active
    <3>2. /\ turn[c].index = turnIndex + 1
          /\ sid' = c => Says(c, "bound")'
          /\ Says(c, "done")' => journal'.index = turn[c].index
          /\ ~turn[c].bound => \A u \in Inputs : Says(u, "bound")' => u = c
      BY <1>1, <1>5, <1>9, <2>1
    <3> QED BY <1>1, <1>4, <1>5, <3>1, <3>2 DEF NowInv
  <2>8. BoundOnce'
    BY <1>0, <2>1, BoundOnceStays
  <2> QED BY <2>2, <2>3, <2>5, <2>6, <2>7, <2>8 DEF TurnSide
<1> QED BY <1>8, <1>9

(* The turn is over for the actor: it goes on to the next, or leaves. *)
LEMMA EndKeeps ==
  ASSUME LoopTypeOK, TurnSide, Active, NEW said \in BOOLEAN,
         UNCHANGED <<mode, loopGone, turn>>, journal'.index = journal.index,
         \/ phase' = "idle" /\ cur' = 0
         \/ phase' = "exited" /\ cur' = cur,
         \A u \in Inputs, k \in Loud :
           Says(u, k)' <=> Says(u, k) \/ (said /\ u = cur /\ k = "interrupted"),
         \A u \in Inputs : IF u = cur THEN Len(mail'[u]) = 0 ELSE mail'[u] = mail[u],
         \/ turn[cur].learned /\ sid' = cur /\ sidBound' = TRUE /\ hasSpawned' = TRUE
         \/ sid' = sid /\ sidBound' = sidBound /\ (hasSpawned => hasSpawned'),
         \/ turnIndex' = turnIndex
         \/ turnIndex' = turn[cur].index /\ (~loopGone => Says(cur, "done")),
         phase' = "idle" => said \/
           /\ Reported(cur)
           /\ turn[cur].ran /\ (turn[cur].bound \/ turn[cur].learned) => hasSpawned'
           /\ ~loopGone /\ turn[cur].learned => Says(cur, "bound")
           /\ ~loopGone /\ Says(cur, "done") => turnIndex' = turn[cur].index
  PROVE  TurnSide'
<1>0. /\ TurnInv /\ MailInv /\ NowInv /\ BindInv /\ PastInv /\ AnewInv /\ JournalIsTrue
      /\ BoundOnce /\ cur \in Inputs /\ turnIndex \in Nat
  BY DEF TurnSide, LoopTypeOK, NowInv, Inputs
<1>1. PICK c \in Inputs : c = cur
  BY <1>0
<1>2. \A u \in Inputs :
         /\ Says(u, "bound")' <=> Says(u, "bound")
         /\ Says(u, "done")' <=> Says(u, "done")
         /\ Says(u, "interrupted")' <=> Says(u, "interrupted") \/ (said /\ u = c)
  BY <1>1 DEF Loud
<1>3. \A u \in Inputs : \A k : MailHas(u, k)' => MailHas(u, k)
  <2> SUFFICES ASSUME NEW u \in Inputs, NEW k, MailHas(u, k)' PROVE MailHas(u, k)
    OBVIOUS
  <2>1. CASE u = cur
    <3>1. ~MailHas(u, k)'
      BY <2>1 DEF MailHas
    <3> QED BY <3>1
  <2>2. CASE u # cur
    BY <2>2 DEF MailHas
  <2> QED BY <2>1, <2>2
<1>4. \A u \in Inputs : Started(u)' <=> Started(u)
  BY DEF Started
<1>5. /\ turn[c].index = turnIndex + 1 /\ c # 0 /\ Started(c)
      /\ sid = c => Says(c, "bound")
      /\ Says(c, "done") => journal.index = turn[c].index
  BY <1>0, <1>1 DEF NowInv
<1>6. TurnInv'
  BY <1>0, <1>2, <1>3 DEF TurnInv
<1>7. MailInv'
  <2>1. \A u \in Inputs : Len(mail'[u]) = 0
    BY <1>0 DEF MailInv
  <2> QED BY <2>1 DEF MailInv
<1>8. BindInv'
  <2>1. \A u \in Inputs : Says(u, "bound")' => sidBound'
    BY <1>0, <1>2 DEF BindInv
  <2>2. sid' # 0 => Started(sid')
    BY <1>0, <1>1, <1>5 DEF BindInv
  <2>3. mode # "late" => sidBound' /\ \A u \in Inputs : Started(u) => turn[u].bound
    BY <1>0 DEF BindInv
  <2> QED BY <1>4, <2>1, <2>2, <2>3 DEF BindInv, Started
<1>9. PastInv'
  <2> SUFFICES ASSUME NEW u \in Inputs, Started(u), u # cur'
               PROVE  /\ cur' # 0 => u < cur'
                      /\ Says(u, "interrupted")' \/ turn[u].at = "over"
                      /\ turn[u].ran /\ (turn[u].bound \/ turn[u].learned) =>
                           Says(u, "interrupted")' \/ hasSpawned'
    BY <1>4 DEF PastInv
  <2>1. CASE u # cur
    BY <1>0, <1>2, <2>1 DEF PastInv
  <2>2. CASE u = cur
    <3>1. phase' = "idle" /\ cur' = 0
      BY <2>2
    <3> QED BY <1>1, <1>2, <2>2, <3>1 DEF Reported
  <2> QED BY <2>1, <2>2
<1>10. AnewInv'
  BY <1>0, <1>2, <1>4 DEF AnewInv
<1>11. NowInv'
  <2>1. ~Active' /\ (phase' = "idle" => cur' = 0)
    BY DEF Active
  <2> QED BY <1>1, <1>4, <1>5, <2>1 DEF NowInv
<1>12. JournalIsTrue'
  <2> SUFFICES ASSUME ~loopGone PROVE JournalIsTrue'
    BY DEF JournalIsTrue
  <2>1. \A u \in Inputs : /\ "done" \in journal'.of[u] <=> "done" \in journal.of[u]
                          /\ "bound" \in journal'.of[u] <=> "bound" \in journal.of[u]
                          /\ Unsettled(u) /\ u # c => Unsettled(u)'
    BY <1>1, <1>2 DEF Says, Unsettled
  <2>2. said \/ phase' = "exited" => Unsettled(c)'
    BY <1>1, <1>2 DEF Says, Unsettled
  <2>3. sid # 0 => sid \in Inputs
    BY DEF LoopTypeOK, Inputs
  <2>4. /\ turnIndex # journal.index =>
             \E t \in Inputs : /\ "done" \in journal.of[t] /\ turn[t].index = journal.index
                               /\ Unsettled(t)
        /\ turnIndex <= journal.index
        /\ sid # 0 => "bound" \in journal.of[sid] \/ Unsettled(sid)
    BY <1>0 DEF JournalIsTrue
  <2>5. turnIndex' = turnIndex \/ turnIndex' = journal.index
    BY <1>1, <1>5
  <2>6. turnIndex' <= journal.index
    <3>1. journal.index \in Nat
      BY DEF LoopTypeOK
    <3> QED BY <2>4, <2>5, <3>1
  <2>7. ~said /\ phase' # "exited" =>
          /\ turn[c].learned => "bound" \in journal.of[c]
          /\ "done" \in journal.of[c] => turnIndex' = journal.index
    BY <1>1, <1>5 DEF Says
  <2>a. PICK s : s = sid'
    OBVIOUS
  <2>8. s # 0 => "bound" \in journal'.of[s] \/ Unsettled(s)'
    <3>1. CASE s = c /\ turn[c].learned
      BY <2>1, <2>2, <2>7, <3>1
    <3>2. CASE s = sid
      <4>1. sid = c => "bound" \in journal.of[c]
        BY <1>5 DEF Says
      <4> QED BY <2>1, <2>3, <2>4, <3>2, <4>1
    <3> QED BY <1>1, <2>a, <3>1, <3>2
  <2>9. turnIndex' # journal.index =>
             \E t \in Inputs : /\ "done" \in journal'.of[t] /\ turn[t].index = journal.index
                               /\ Unsettled(t)'
    <3> SUFFICES ASSUME turnIndex' # journal.index
                 PROVE  \E t \in Inputs : /\ "done" \in journal'.of[t] /\ turn[t].index = journal.index
                                          /\ Unsettled(t)'
      OBVIOUS
    <3>1. turnIndex # journal.index
      BY <2>5
    <3>2. PICK t \in Inputs : /\ "done" \in journal.of[t] /\ turn[t].index = journal.index
                              /\ Unsettled(t)
      BY <2>4, <3>1
    <3>3. Unsettled(t)'
      BY <2>1, <2>2, <2>7, <3>2
    <3> QED BY <2>1, <3>2, <3>3
  <2> QED BY <2>6, <2>8, <2>9, <2>a DEF JournalIsTrue, Unsettled
<1>b. BoundOnce'
  BY <1>0, <1>2, BoundOnceStays
<1> QED BY <1>6, <1>7, <1>8, <1>9, <1>10, <1>11, <1>12, <1>b DEF TurnSide
-----------------------------------------------------------------------------
(* The part of the invariant that is about inputs on their way to a turn. *)
Queued(u) == \E p \in 1..Len(queue) : queue[p] = u

(* queue' holds some of the inputs of queue, in their order. *)
Shrinks ==
  /\ queue' \in Seq(Inputs) /\ Len(queue') <= Len(queue)
  /\ \A j \in 1..Len(queue') : \E p \in 1..Len(queue) : queue'[j] = queue[p]
  /\ \A i, j \in 1..Len(queue') : i < j => queue'[i] < queue'[j]

LEMMA ShrinkKeeps ==
  ASSUME LoopTypeOK, IntakeInv, FateInv, Shrinks, UNCHANGED input,
         \A u \in Inputs : Started(u)' <=> Started(u),
         \A u \in Inputs, k \in Kinds : Says(u, k) => Says(u, k)',
         \A u \in Inputs, k \in Kinds : Says(u, k)' =>
           \/ Says(u, k)
           \/ Started(u) /\ k \notin {"cancelled", "rejected"}
           \/ Queued(u) /\ k = "cancelled" /\ \A j \in 1..Len(queue') : queue'[j] # u
  PROVE  IntakeInv' /\ FateInv'
<1>1. Len(queue) \in Nat /\ Len(queue') \in Nat /\ Capacity \in Nat
  BY LoopAssumption DEF LoopTypeOK, Shrinks
<1>2. \A p \in 1..Len(queue) : queue[p] \in Inputs
  BY DEF LoopTypeOK
<1>3. \A j \in 1..Len(queue') : queue'[j] \in Inputs
  BY DEF Shrinks
<1>4. \A u \in Inputs : Queued(u) =>
        /\ input[u] = "ok" /\ ~Started(u) /\ \A k \in Kinds : ~Says(u, k)
        /\ \A t \in Inputs : Started(t) => t < u
  BY DEF IntakeInv, Queued
<1>5. ASSUME NEW j \in 1..Len(queue')
      PROVE  /\ input[queue'[j]] = "ok" /\ ~Started(queue'[j])
             /\ \A t \in Inputs : Started(t) => t < queue'[j]
             /\ \A u \in Inputs : u = queue'[j] => \A k \in Kinds : ~Says(u, k)'
  <2>1. PICK u \in Inputs : u = queue'[j] /\ Queued(u)
    BY <1>2 DEF Shrinks, Queued
  <2> QED BY <1>4, <2>1
<1>6. \A j \in 1..Len(queue') :
        /\ input'[queue'[j]] = "ok" /\ ~Started(queue[j])'
        /\ \A k \in Kinds : ~Says(queue[j], k)'
        /\ \A t \in Inputs : Started(t)' => t < queue'[j]
  <2> SUFFICES ASSUME NEW j \in 1..Len(queue')
               PROVE  /\ input'[queue'[j]] = "ok" /\ ~Started(queue[j])'
                      /\ \A k \in Kinds : ~Says(queue[j], k)'
                      /\ \A t \in Inputs : Started(t)' => t < queue'[j]
    OBVIOUS
  <2>1. PICK u \in Inputs : u = queue'[j]
    BY <1>3
  <2>2. ~Started(u)' /\ \A k \in Kinds : ~Says(u, k)'
    BY <1>5, <2>1
  <2> QED BY <1>5, <2>1, <2>2 DEF Started, Says
<1>7. Len(queue') <= Capacity
  BY <1>1 DEF IntakeInv, Shrinks
<1>8. \A u \in Inputs : ~Received(u)' => \A k \in Kinds : ~Says(u, k)'
  <2> SUFFICES ASSUME NEW u \in Inputs, ~Received(u), NEW k \in Kinds PROVE ~Says(u, k)'
    BY DEF Received
  <2>1. ~Says(u, k) /\ ~Started(u) /\ ~Queued(u)
    BY <1>4 DEF IntakeInv, Received
  <2> QED BY <2>1
<1>9. IntakeInv'
  <2>1. /\ \A t \in Inputs : Started(t)' => input'[t] = "ok"
        /\ \A t, u \in Inputs : u < t /\ Received(t)' => Received(u)'
    BY DEF IntakeInv, Received
  <2> QED BY <1>6, <1>7, <1>8, <2>1 DEF IntakeInv, Shrinks
<1>10. FateInv'
  <2> SUFFICES ASSUME NEW u \in Inputs
               PROVE  /\ Started(u) => ~Says(u, "cancelled")' /\ ~Says(u, "rejected")'
                      /\ ~Started(u) => \A k, l \in Kinds :
                           Says(u, k)' /\ Says(u, l)' => k = l /\ k \in {"cancelled", "rejected"}
    BY DEF FateInv
  <2>1. "cancelled" \in Kinds /\ "rejected" \in Kinds
    BY DEF Kinds
  <2>2. CASE Started(u)
    BY <1>4, <2>1, <2>2 DEF FateInv
  <2>3. CASE ~Started(u)
    <3>1. CASE Queued(u)
      BY <1>4, <2>3, <3>1
    <3>2. CASE ~Queued(u)
      BY <2>3, <3>2 DEF FateInv
    <3> QED BY <3>1, <3>2
  <2> QED BY <2>2, <2>3
<1> QED BY <1>9, <1>10

LEMMA BeginIntake ==
  ASSUME LoopTypeOK, IntakeInv, FateInv, Shrinks, NEW t \in Inputs,
         input'[t] = "ok", \A u \in Inputs \ {t} : input'[u] = input[u],
         ~Started(t), \A k \in Kinds : ~Says(t, k),
         \A u \in Inputs : Started(u) => u < t,
         \A u \in Inputs : u < t => Received(u),
         \A j \in 1..Len(queue') : t < queue'[j],
         \A u \in Inputs : Started(u)' <=> Started(u) \/ u = t,
         \A u \in Inputs, k \in Kinds : Says(u, k)' <=> Says(u, k) \/ (u = t /\ k = "started")
  PROVE  IntakeInv' /\ FateInv'
<1>1. Len(queue) \in Nat /\ Len(queue') \in Nat /\ Capacity \in Nat
  BY LoopAssumption DEF LoopTypeOK, Shrinks
<1>2. \A p \in 1..Len(queue) : queue[p] \in Inputs
  BY DEF LoopTypeOK
<1>3. ASSUME NEW j \in 1..Len(queue')
      PROVE  /\ input'[queue'[j]] = "ok" /\ ~Started(queue[j])'
             /\ \A k \in Kinds : ~Says(queue[j], k)'
             /\ \A u \in Inputs : Started(u)' => u < queue'[j]
  <2>1. PICK p \in 1..Len(queue) : queue'[j] = queue[p]
    BY DEF Shrinks
  <2>2. PICK v \in Inputs : v = queue[p] /\ v # t
    BY <1>2, <2>1 DEF Inputs
  <2>3. /\ input[v] = "ok" /\ ~Started(v) /\ \A k \in Kinds : ~Says(v, k)
        /\ \A u \in Inputs : Started(u) => u < v
    BY <2>2 DEF IntakeInv
  <2>4. ~Started(v)' /\ \A k \in Kinds : ~Says(v, k)'
    BY <2>2, <2>3
  <2>5. \A u \in Inputs : Started(u)' => u < v
    BY <2>1, <2>2, <2>3
  <2> QED BY <2>1, <2>2, <2>3, <2>4, <2>5 DEF Started, Says
<1>4. Len(queue') <= Capacity
  BY <1>1 DEF IntakeInv, Shrinks
<1>5. \A u \in Inputs : Received(u)' <=> Received(u) \/ u = t
  BY DEF Received
<1>6. IntakeInv'
  <2>1. \A u \in Inputs : Started(u)' => input'[u] = "ok"
    BY DEF IntakeInv
  <2>2. \A u \in Inputs : ~Received(u)' => \A k \in Kinds : ~Says(u, k)'
    BY <1>5 DEF IntakeInv
  <2>3. \A v, u \in Inputs : u < v /\ Received(v)' => Received(u)'
    BY <1>5 DEF IntakeInv
  <2> QED BY <1>3, <1>4, <2>1, <2>2, <2>3 DEF IntakeInv, Shrinks
<1>7. FateInv'
  <2>1. "cancelled" \in Kinds /\ "rejected" \in Kinds
    BY DEF Kinds
  <2> QED BY <2>1 DEF FateInv
<1> QED BY <1>6, <1>7

(* An input is received and not begun: it is refused, lost or queued. *)
LEMMA AnswerKeeps ==
  ASSUME LoopTypeOK, IntakeInv, FateInv, NEW i \in Inputs, NEW w \in {"ok", "error", "taken", "rejected"},
         input[i] = "sent", \A u \in 1..(i - 1) : input[u] # "sent",
         \A u \in 1..(i - 1) : input[u] # "unsent",
         input' = [input EXCEPT ![i] = w],
         \A u \in Inputs : Started(u)' <=> Started(u),
         \A u \in Inputs, k \in Kinds :
           Says(u, k)' <=> Says(u, k) \/ (w = "rejected" /\ u = i /\ k = "rejected"),
         \/ queue' = queue
         \/ w = "ok" /\ Len(queue) < Capacity /\ queue' = Append(queue, i)
  PROVE  IntakeInv' /\ FateInv'
<1>1. PICK n \in Nat : n = Len(queue)
  BY DEF LoopTypeOK
<1>2. Capacity \in Nat /\ queue \in Seq(Inputs) /\ input \in [Inputs -> {"unsent", "sent", "taken", "ok", "rejected", "error"}]
  BY LoopAssumption DEF LoopTypeOK
<1>3. input'[i] = w /\ \A u \in Inputs \ {i} : input'[u] = input[u]
  BY <1>2
<1>4. \A u \in Inputs : u < i => Received(u)
  BY DEF Received, Inputs
<1>5. ~Received(i)
  BY DEF Received
<1>6. \A u \in Inputs : Received(u) => u < i
  <2> SUFFICES ASSUME NEW u \in Inputs, Received(u), ~(u < i) PROVE FALSE
    OBVIOUS
  <2>1. u # i
    BY <1>5
  <2>2. i < u
    BY <2>1 DEF Inputs
  <2> QED BY <1>5, <2>2 DEF IntakeInv
<1>7. \A u \in Inputs : Received(u)' <=> Received(u) \/ u = i
  BY <1>3 DEF Received
<1>8. ~Started(i) /\ \A k \in Kinds : ~Says(i, k)
  BY <1>5 DEF IntakeInv
<1>9. ASSUME NEW p \in 1..n
      PROVE  /\ queue[p] \in Inputs /\ queue[p] < i /\ queue[p] # i
             /\ input'[queue[p]] = "ok" /\ ~Started(queue[p])
             /\ \A k \in Kinds : ~Says(queue[p], k)
             /\ \A t \in Inputs : Started(t) => t < queue[p]
  <2>1. PICK v \in Inputs : v = queue[p]
    BY <1>1, <1>2
  <2>2. /\ input[v] = "ok" /\ ~Started(v) /\ \A k \in Kinds : ~Says(v, k)
        /\ \A t \in Inputs : Started(t) => t < v
    BY <1>1, <2>1 DEF IntakeInv
  <2>3. Received(v) /\ v < i /\ v # i
    BY <1>5, <1>6, <2>2 DEF Received
  <2> QED BY <1>3, <2>1, <2>2, <2>3
<1>10. PICK m \in Nat :
         /\ m = Len(queue') /\ m <= Capacity
         /\ \A j \in 1..m : \/ j \in 1..n /\ queue'[j] = queue[j]
                            \/ queue'[j] = i /\ w = "ok" /\ j = n + 1
  <2>1. CASE queue' = queue
    BY <1>1, <2>1 DEF IntakeInv
  <2>2. CASE w = "ok" /\ Len(queue) < Capacity /\ queue' = Append(queue, i)
    <3>1. Len(queue') = n + 1 /\ queue'[n + 1] = i /\ \A j \in 1..n : queue'[j] = queue[j]
      BY <1>1, <1>2, <2>2, AppendProperties
    <3>2. \A j \in 1..(n + 1) : j \in 1..n \/ j = n + 1
      BY ONLY n \in Nat
    <3>3. n + 1 \in Nat /\ n + 1 <= Capacity
      BY <1>1, <1>2, <2>2
    <3> QED BY <2>2, <3>1, <3>2, <3>3
  <2> QED BY <2>1, <2>2
<1>11. ASSUME NEW j \in 1..m
       PROVE  /\ input'[queue'[j]] = "ok" /\ ~Started(queue[j])'
              /\ \A k \in Kinds : ~Says(queue[j], k)'
              /\ \A t \in Inputs : Started(t)' => t < queue'[j]
  <2>1. PICK v \in Inputs : v = queue'[j]
    BY <1>9, <1>10
  <2>2. input'[v] = "ok" /\ ~Started(v) /\ \A t \in Inputs : Started(t) => t < v
    <3>1. CASE j \in 1..n /\ queue'[j] = queue[j]
      BY <1>9, <2>1, <3>1
    <3>2. CASE queue'[j] = i /\ w = "ok"
      <4>1. \A t \in Inputs : Started(t) => Received(t)
        BY DEF IntakeInv, Received
      <4> QED BY <1>3, <1>6, <1>8, <2>1, <3>2, <4>1
    <3> QED BY <1>10, <3>1, <3>2
  <2>3. \A k \in Kinds : ~Says(v, k)'
    <3>1. CASE j \in 1..n /\ queue'[j] = queue[j]
      BY <1>9, <2>1, <3>1
    <3>2. CASE queue'[j] = i /\ w = "ok"
      BY <1>8, <2>1, <3>2
    <3> QED BY <1>10, <3>1, <3>2
  <2>4. ~Started(v)'
    BY <2>2
  <2> QED BY <2>1, <2>2, <2>3, <2>4 DEF Started, Says
<1>12. \A x, y \in 1..m : x < y => queue'[x] < queue'[y]
  <2> SUFFICES ASSUME NEW x \in 1..m, NEW y \in 1..m, x < y PROVE queue'[x] < queue'[y]
    OBVIOUS
  <2>1. x \in 1..n /\ queue'[x] = queue[x]
    BY <1>10
  <2>2. CASE y \in 1..n /\ queue'[y] = queue[y]
    BY <1>1, <2>1, <2>2 DEF IntakeInv
  <2>3. CASE queue'[y] = i
    BY <1>9, <2>1, <2>3
  <2> QED BY <1>10, <2>2, <2>3
<1>13. IntakeInv'
  <2>1. \A u \in Inputs : Started(u)' => input'[u] = "ok"
    BY <1>3, <1>8 DEF IntakeInv
  <2>2. \A u \in Inputs : ~Received(u)' => \A k \in Kinds : ~Says(u, k)'
    BY <1>7 DEF IntakeInv
  <2>3. \A v, u \in Inputs : u < v /\ Received(v)' => Received(u)'
    BY <1>4, <1>7 DEF IntakeInv
  <2> QED BY <1>10, <1>11, <1>12, <2>1, <2>2, <2>3 DEF IntakeInv
<1>14. FateInv'
  <2>1. "cancelled" \in Kinds /\ "rejected" \in Kinds
    BY DEF Kinds
  <2> SUFFICES ASSUME NEW u \in Inputs
               PROVE  /\ Started(u) => ~Says(u, "cancelled")' /\ ~Says(u, "rejected")'
                      /\ ~Started(u) => \A k, l \in Kinds :
                           Says(u, k)' /\ Says(u, l)' => k = l /\ k \in {"cancelled", "rejected"}
    BY DEF FateInv
  <2>2. CASE u = i
    BY <1>8, <2>1, <2>2
  <2>3. CASE u # i
    BY <2>1, <2>3 DEF FateInv
  <2> QED BY <2>2, <2>3
<1> QED BY <1>13, <1>14

(* The queue is in the order of its inputs, so that each waits in one place. *)
LEMMA QueueOrder ==
  ASSUME LoopTypeOK, IntakeInv
  PROVE  \A p, q \in 1..Len(queue) :
           /\ queue[p] \in Inputs
           /\ p < q => queue[p] < queue[q]
           /\ p # q => queue[p] # queue[q]
<1>1. PICK n \in Nat : n = Len(queue)
  BY DEF LoopTypeOK
<1>2. \A p \in 1..n : queue[p] \in Inputs
  BY <1>1 DEF LoopTypeOK
<1>3. \A p, q \in 1..n : p < q => queue[p] < queue[q]
  BY <1>1 DEF IntakeInv
<1>4. \A p, q \in 1..n : p # q => p < q \/ q < p
  BY ONLY n \in Nat
<1>5. \A p, q \in 1..n : p < q => queue[p] # queue[q]
  <2> SUFFICES ASSUME NEW p \in 1..n, NEW q \in 1..n, p < q PROVE queue[p] # queue[q]
    OBVIOUS
  <2>1. PICK a \in Inputs, b \in Inputs : a = queue[p] /\ b = queue[q] /\ a < b
    BY <1>2, <1>3
  <2> QED BY <2>1 DEF Inputs
<1> QED BY <1>1, <1>2, <1>3, <1>4, <1>5

(* A selection of places, in their order. *)
LEMMA Selection ==
  ASSUME LoopTypeOK, IntakeInv, NEW n \in Nat, NEW f \in [1..n -> 1..Len(queue)],
         n <= Len(queue), \A i, j \in 1..n : i < j => f[i] < f[j],
         queue' \in Seq(Inputs), Len(queue') = n,
         \A j \in 1..n : queue'[j] = queue[f[j]]
  PROVE  /\ Shrinks
         /\ \A p \in 1..Len(queue) : (\A j \in 1..n : f[j] # p) =>
              \A j \in 1..Len(queue') : queue'[j] # queue[p]
<1>1. \A j \in 1..n : f[j] \in 1..Len(queue)
  OBVIOUS
<1>2. \A i, j \in 1..n : i < j => queue'[i] < queue'[j]
  BY <1>1, QueueOrder
<1>3. ASSUME NEW p \in 1..Len(queue), \A j \in 1..n : f[j] # p, NEW j \in 1..n
      PROVE  queue'[j] # queue[p]
  <2>1. f[j] \in 1..Len(queue) /\ f[j] # p
    BY <1>1, <1>3
  <2>2. queue[f[j]] # queue[p]
    BY <2>1, QueueOrder
  <2> QED BY <2>2
<1>4. Shrinks
  <2>1. \A j \in 1..n : \E p \in 1..Len(queue) : queue'[j] = queue[p]
    BY <1>1
  <2> QED BY <1>2, <2>1 DEF Shrinks
<1> QED BY <1>3, <1>4

LEMMA SameQueue ==
  ASSUME LoopTypeOK, IntakeInv, queue' = queue
  PROVE  Shrinks
BY QueueOrder DEF Shrinks, LoopTypeOK

LEMMA FlushShrinks ==
  ASSUME LoopTypeOK, IntakeInv, NEW k \in 0..Len(queue), Flushed(k)
  PROVE  /\ Shrinks
         /\ \A p \in 1..k : Queued(queue[p]) /\ \A j \in 1..Len(queue') : queue'[j] # queue[p]
<1>1. PICK m \in Nat : m = Len(queue)
  BY DEF LoopTypeOK
<1>2. k \in Nat /\ k <= m /\ k + 1 \in Int /\ m \in Int
  BY <1>1
<1>3. \A i \in (k + 1)..m : i \in 1..m
  BY <1>2
<1>4. queue' = SubSeq(queue, k + 1, m) /\ \A i \in (k + 1)..m : queue[i] \in Inputs
  BY <1>1, <1>3 DEF Flushed, LoopTypeOK
<1>5. PICK n \in Nat : n = m - k
  BY <1>2
<1>6. (IF k + 1 <= m THEN m - (k + 1) + 1 ELSE 0) = n /\ m - (k + 1) + 1 = n
  BY ONLY <1>2, <1>5
<1>7. /\ queue' \in Seq(Inputs) /\ Len(queue') = n
      /\ \A i \in 1..n : queue'[i] = queue[(k + 1) + i - 1]
  BY <1>2, <1>4, <1>6, SubSeqProperties
<1> DEFINE f == [j \in 1..n |-> (k + 1) + j - 1]
<1>8. f \in [1..n -> 1..m] /\ n <= m /\ \A i, j \in 1..n : i < j => f[i] < f[j]
  BY ONLY <1>2, <1>5, n \in Nat, m \in Nat
<1>9. \A p \in 1..k : p \in 1..m /\ \A j \in 1..n : f[j] # p
  BY ONLY <1>2, <1>5, n \in Nat, m \in Nat
<1>10. \A j \in 1..n : queue'[j] = queue[f[j]]
  BY <1>7
<1> HIDE DEF f
<1>11. /\ Shrinks
       /\ \A p \in 1..Len(queue) : (\A j \in 1..n : f[j] # p) =>
              \A j \in 1..Len(queue') : queue'[j] # queue[p]
  BY <1>1, <1>7, <1>8, <1>10, Selection
<1> QED BY <1>1, <1>9, <1>11 DEF Queued

LEMMA TailShrinks ==
  ASSUME LoopTypeOK, IntakeInv, queue # <<>>, queue' = Tail(queue)
  PROVE  /\ Shrinks /\ Queued(Head(queue)) /\ Head(queue) \in Inputs
         /\ \A j \in 1..Len(queue') : Head(queue) < queue'[j]
<1>1. PICK m \in Nat : m = Len(queue) /\ m >= 1
  BY DEF LoopTypeOK
<1>2. PICK n \in Nat : n = m - 1
  BY <1>1
<1>3. /\ queue' \in Seq(Inputs) /\ Len(queue') = n /\ Head(queue) = queue[1]
      /\ \A i \in 1..n : queue'[i] = queue[i + 1]
  <2>1. queue \in Seq(Inputs)
    BY DEF LoopTypeOK
  <2>2. Head(queue) = queue[1]
    BY <2>1
  <2> QED BY <1>1, <1>2, <2>1, <2>2, HeadTailProperties
<1> DEFINE f == [j \in 1..n |-> j + 1]
<1>4. /\ f \in [1..n -> 1..m] /\ n <= m /\ \A i, j \in 1..n : i < j => f[i] < f[j]
      /\ 1 \in 1..m /\ \A j \in 1..n : 1 < f[j]
  BY ONLY <1>1, <1>2, n \in Nat, m \in Nat
<1>5. \A j \in 1..n : queue'[j] = queue[f[j]]
  BY <1>3
<1> HIDE DEF f
<1>6. Shrinks
  BY <1>1, <1>3, <1>4, <1>5, Selection
<1>7. \A j \in 1..n : queue[1] < queue'[j]
  BY <1>1, <1>4, <1>5, QueueOrder
<1> QED BY <1>1, <1>3, <1>4, <1>6, <1>7, QueueOrder DEF Queued

LEMMA RetractShrinks ==
  ASSUME LoopTypeOK, IntakeInv, NEW j \in DOMAIN queue, queue' = Retracted(j)
  PROVE  /\ Shrinks /\ Queued(queue[j])
         /\ \A i \in 1..Len(queue') : queue'[i] # queue[j]
<1>1. PICK m \in Nat : m = Len(queue) /\ DOMAIN queue = 1..m
  BY DEF LoopTypeOK
<1>2. j \in 1..m /\ j \in Nat /\ j - 1 \in Int /\ j + 1 \in Int /\ m \in Int /\ 1 \in Int
  BY <1>1
<1>3. \A i \in 1..m : queue[i] \in Inputs
  BY <1>1 DEF LoopTypeOK
<1>4. PICK a : a = SubSeq(queue, 1, j - 1)
  OBVIOUS
<1>5. PICK b : b = SubSeq(queue, j + 1, m)
  OBVIOUS
<1>6. PICK x \in Nat, y \in Nat : x = j - 1 /\ y = m - j
  BY <1>2
<1>7. /\ (IF 1 <= j - 1 THEN (j - 1) - 1 + 1 ELSE 0) = x /\ (j - 1) - 1 + 1 = x
      /\ (IF j + 1 <= m THEN m - (j + 1) + 1 ELSE 0) = y /\ m - (j + 1) + 1 = y
      /\ (\A i \in 1..(j - 1) : i \in 1..m) /\ (\A i \in (j + 1)..m : i \in 1..m)
  BY ONLY <1>2, <1>6, m \in Nat
<1>8. /\ a \in Seq(Inputs) /\ Len(a) = x
      /\ \A i \in 1..x : a[i] = queue[1 + i - 1]
  BY ONLY <1>2, <1>3, <1>4, <1>7, SubSeqProperties, SMTT(30)
<1>9. /\ b \in Seq(Inputs) /\ Len(b) = y
      /\ \A i \in 1..y : b[i] = queue[(j + 1) + i - 1]
  BY ONLY <1>2, <1>3, <1>5, <1>7, SubSeqProperties, SMTT(30)
<1>10. queue' = a \o b
  BY <1>1, <1>4, <1>5 DEF Retracted
<1>11. PICK n \in Nat : n = x + y
  OBVIOUS
<1>12. /\ queue' \in Seq(Inputs) /\ Len(queue') = n
       /\ \A i \in 1..n : queue'[i] = IF i <= x THEN a[i] ELSE b[i - x]
  <2>1. /\ a \o b \in Seq(Inputs) /\ Len(a \o b) = Len(a) + Len(b)
        /\ \A i \in 1..(Len(a) + Len(b)) :
             (a \o b)[i] = IF i <= Len(a) THEN a[i] ELSE b[i - Len(a)]
    BY <1>8, <1>9, ConcatProperties
  <2>2. Len(a) + Len(b) = n
    BY ONLY <1>8, <1>9, <1>11
  <2> QED BY ONLY <1>8, <1>10, <2>1, <2>2
<1> DEFINE f == [i \in 1..n |-> IF i <= x THEN i ELSE i + 1]
<1>13. /\ f \in [1..n -> 1..m] /\ n <= m /\ \A i, l \in 1..n : i < l => f[i] < f[l]
       /\ \A i \in 1..n : f[i] # j
  BY ONLY <1>2, <1>6, <1>11, n \in Nat, m \in Nat
<1>14. \A i \in 1..n : queue'[i] = queue[f[i]]
  <2> SUFFICES ASSUME NEW i \in 1..n PROVE queue'[i] = queue[f[i]]
    OBVIOUS
  <2>1. CASE i <= x
    <3>1. i \in 1..x /\ f[i] = i /\ 1 + i - 1 = i
      BY ONLY <2>1, n \in Nat, x \in Nat, i \in 1..n
    <3> QED BY <1>8, <1>12, <2>1, <3>1
  <2>2. CASE ~(i <= x)
    <3>1. i - x \in 1..y /\ f[i] = i + 1 /\ (j + 1) + (i - x) - 1 = i + 1
      BY ONLY <2>2, <1>2, <1>6, <1>11, n \in Nat, x \in Nat, y \in Nat, i \in 1..n
    <3> QED BY <1>9, <1>12, <2>2, <3>1
  <2> QED BY <2>1, <2>2
<1> HIDE DEF f
<1>15. /\ Shrinks
       /\ \A p \in 1..Len(queue) : (\A i \in 1..n : f[i] # p) =>
              \A i \in 1..Len(queue') : queue'[i] # queue[p]
  BY <1>1, <1>12, <1>13, <1>14, Selection
<1> QED BY <1>1, <1>2, <1>13, <1>15 DEF Queued

(* An input is sent. *)
LEMMA SendKeeps ==
  ASSUME LoopTypeOK, IntakeInv, FateInv, NEW i \in Inputs, input[i] = "unsent",
         input' = [input EXCEPT ![i] = "sent"], UNCHANGED <<queue, turn, journal>>
  PROVE  IntakeInv' /\ FateInv'
<1>1. /\ input'[i] = "sent" /\ \A u \in Inputs \ {i} : input'[u] = input[u]
      /\ \A p \in 1..Len(queue) : queue[p] \in Inputs
  BY DEF LoopTypeOK
<1>2. /\ \A u \in Inputs : Received(u)' <=> Received(u)
      /\ \A u \in Inputs : Started(u)' <=> Started(u)
      /\ \A u \in Inputs, k \in Kinds : Says(u, k)' <=> Says(u, k)
  BY <1>1 DEF Received, Started, Says
<1>3. FateInv'
  <2>1. "cancelled" \in Kinds /\ "rejected" \in Kinds
    BY DEF Kinds
  <2> QED BY <1>2, <2>1 DEF FateInv
<1>4. \A j \in 1..Len(queue) :
       /\ input'[queue[j]] = "ok" /\ ~Started(queue[j])'
       /\ \A k \in Kinds : ~Says(queue[j], k)'
       /\ \A t \in Inputs : Started(t)' => t < queue[j]
  BY <1>1, <1>2 DEF IntakeInv, Started, Says
<1>5. \A t \in Inputs : Started(t)' => input'[t] = "ok"
  BY <1>1, <1>2 DEF IntakeInv
<1> QED BY <1>2, <1>3, <1>4, <1>5 DEF IntakeInv
-----------------------------------------------------------------------------
LEMMA LoopInitially == LoopInit => LInv
<1> SUFFICES ASSUME LoopInit PROVE LInv
  OBVIOUS
<1>1. NoTurn \in Turns
  BY DEF NoTurn, Turns, Producing, Outcomes
<1>2. LoopTypeOK
  <2>1. /\ mode \in Modes /\ cur \in 0..MaxInputs /\ queue \in Seq(Inputs) /\ turnIndex \in Nat
        /\ sid \in 0..MaxInputs
    BY LoopAssumption DEF LoopInit
  <2>2. {sidBound, hasSpawned, loopGone} \subseteq BOOLEAN
    BY DEF LoopInit
  <2>3. turn \in [Inputs -> Turns] /\ mail \in [Inputs -> Seq({"bound", "done", "failed"})]
    BY <1>1 DEF LoopInit
  <2>4. journal \in [of : [Inputs -> SUBSET Kinds], index : Nat]
    BY DEF LoopInit
  <2> QED BY <2>1, <2>2, <2>3, <2>4 DEF LoopInit, LoopTypeOK, Outcomes
<1>3. /\ Len(queue) = 0 /\ cur = 0 /\ sid = 0 /\ phase = "idle"
      /\ \A t \in Inputs : /\ turn[t] = NoTurn /\ Len(mail[t]) = 0 /\ input[t] = "unsent"
                           /\ \A k : ~Says(t, k)
  BY DEF LoopInit, Says
<1>4. \A t \in Inputs : ~Started(t) /\ ~Received(t) /\ \A k : ~MailHas(t, k)
  BY <1>3 DEF Started, NoTurn, Received, MailHas
<1>5. SentInv /\ FateInv /\ MailInv /\ PastInv /\ AnewInv
  BY <1>3, <1>4 DEF SentInv, FateInv, MailInv, PastInv, AnewInv
<1>6. IntakeInv
  BY <1>3, <1>4, LoopAssumption DEF IntakeInv
<1>7. TurnInv
  BY <1>3, <1>4 DEF TurnInv, NoTurn
<1>8. NowInv
  BY <1>3 DEF NowInv, Active
<1>9. BindInv
  BY <1>3, <1>4 DEF BindInv, LoopInit
<1>10. JournalIsTrue /\ BoundOnce
  BY <1>3 DEF JournalIsTrue, BoundOnce, LoopInit
<1> QED BY <1>2, <1>5, <1>6, <1>7, <1>8, <1>9, <1>10 DEF LInv

(* Inputs are sent in the order of their names. *)
LEMMA SentKeeps ==
  ASSUME SentInv, \A u \in Inputs : input[u] # "unsent" => input'[u] # "unsent",
         \A u \in Inputs : \/ input'[u] # "unsent" => input[u] # "unsent"
                           \/ \A j \in 1..(u - 1) : input[j] # "unsent"
  PROVE  SentInv'
<1> SUFFICES ASSUME NEW t \in Inputs, NEW u \in Inputs, u < t, input'[t] # "unsent"
             PROVE  input[u] # "unsent"
  BY DEF SentInv
<1>1. u \in 1..(t - 1)
  BY DEF Inputs
<1> QED BY <1>1 DEF SentInv

(* Nothing happens to the inputs and what is said of them. *)
LEMMA IntakeStays ==
  ASSUME LoopTypeOK, SentInv, IntakeInv, FateInv, UNCHANGED <<queue, input, journal>>,
         \A u \in Inputs : Started(u)' <=> Started(u)
  PROVE  SentInv' /\ IntakeInv' /\ FateInv'
<1>1. SentInv'
  BY DEF SentInv
<1>2. \A u \in Inputs, k \in Kinds : Says(u, k)' <=> Says(u, k)
  BY DEF Says
<1>3. IntakeInv' /\ FateInv'
  BY <1>2, SameQueue, ShrinkKeeps
<1> QED BY <1>1, <1>3

(* The actor moves, and neither its turn nor the journal does. *)
LEMMA CalmStep ==
  ASSUME LInv, CalmPhase, loopGone => loopGone',
         UNCHANGED <<mode, cur, own, turn, queue, input, journal>>,
         phase' \in {"idle", "turn", "finishing", "draining", "exited"}, loopGone' \in BOOLEAN,
         serving' \in Controls \cup {"none", "late", "context"}, outcome' \in Outcomes,
         ask' \in [Asks -> {"no", "asked", "taken", "answered"}],
         mail' \in [Inputs -> Seq({"bound", "done", "failed"})]
  PROVE  LInv'
<1>1. LoopTypeOK /\ SentInv /\ IntakeInv /\ FateInv /\ TurnSide
  BY DEF LInv, TurnSide
<1>2. LoopTypeOK'
  BY <1>1 DEF LoopTypeOK, own
<1>3. \A u \in Inputs : Started(u)' <=> Started(u)
  BY DEF Started
<1>4. \A u \in Inputs, k \in Loud : Says(u, k)' <=> Says(u, k)
  BY DEF Says
<1>5. TurnSide'
  BY <1>1, <1>4, CalmKeeps
<1>6. SentInv' /\ IntakeInv' /\ FateInv'
  BY <1>1, <1>3, IntakeStays
<1> QED BY <1>2, <1>5, <1>6 DEF LInv, TurnSide

LEMMA OutsideSteps ==
  ASSUME LInv, UNCHANGED mode,
         EndContext \/ (\E c \in Asks : Ask(c)) \/ (\E i \in Inputs : SendInput(i))
  PROVE  LInv'
<1>1. LoopTypeOK /\ SentInv /\ IntakeInv /\ FateInv /\ TurnSide
  BY DEF LInv, TurnSide
<1>2. CASE EndContext
  BY <1>1, <1>2, CalmStep DEF EndContext, CalmPhase, callers, LoopTypeOK
<1>3. CASE \E c \in Asks : Ask(c)
  <2>1. PICK c \in Asks : Ask(c)
    BY <1>3
  <2>2. ask' \in [Asks -> {"no", "asked", "taken", "answered"}]
    BY <1>1, <2>1 DEF Ask, LoopTypeOK
  <2> QED BY <1>1, <2>1, <2>2, CalmStep DEF Ask, CalmPhase, LoopTypeOK
<1>4. CASE \E i \in Inputs : SendInput(i)
  <2>1. PICK i \in Inputs : SendInput(i)
    BY <1>4
  <2>2. /\ input' = [input EXCEPT ![i] = "sent"] /\ input[i] = "unsent"
        /\ \A j \in 1..(i - 1) : input[j] # "unsent"
        /\ UNCHANGED <<phase, cur, queue, own, serving, outcome, loopGone, ask, turn, mail, journal>>
    BY <2>1 DEF SendInput
  <2>3. LoopTypeOK'
    BY <1>1, <2>2 DEF LoopTypeOK, own
  <2>4. SentInv'
    <3>1. \A u \in Inputs : input'[u] = IF u = i THEN "sent" ELSE input[u]
      BY <1>1, <2>2 DEF LoopTypeOK
    <3> QED BY <1>1, <2>2, <3>1, SentKeeps
  <2>5. IntakeInv' /\ FateInv'
    BY <1>1, <2>2, SendKeeps
  <2>6. TurnSide'
    <3>1. \A u \in Inputs, k \in Loud : Says(u, k)' <=> Says(u, k)
      BY <2>2 DEF Says
    <3>2. CalmPhase
      BY <2>2 DEF CalmPhase
    <3> QED BY <1>1, <2>2, <3>1, <3>2, CalmKeeps
  <2> QED BY <2>3, <2>4, <2>5, <2>6 DEF LInv, TurnSide
<1> QED BY <1>2, <1>3, <1>4

LEMMA ProducerSteps ==
  ASSUME LInv, UNCHANGED mode, NEW t \in Inputs, Producer(t)
  PROVE  LInv'
<1>1. LoopTypeOK /\ SentInv /\ IntakeInv /\ FateInv /\ TurnSide
  BY DEF LInv, TurnSide
<1>2. /\ phase # "exited" /\ (Spawn(t) \/ Learn(t) \/ StreamEnds(t) \/ Winds(t))
      /\ UNCHANGED <<phase, cur, queue, own, serving, outcome, loopGone, callers, journal>>
  BY DEF Producer
<1>3. /\ turn' \in [Inputs -> Turns] /\ \A u \in Inputs \ {t} : turn'[u] = turn[u]
      /\ ProducerStep(t) /\ MailStep(t)
  BY <1>1, <1>2, ProducerMoves
<1>4. TurnSide' /\ \A u \in Inputs : Started(u)' <=> Started(u)
  BY <1>1, <1>2, <1>3, ProducerKeeps
<1>5. LoopTypeOK'
  BY <1>1, <1>2, <1>3 DEF LoopTypeOK, MailStep, own, callers
<1>6. SentInv' /\ IntakeInv' /\ FateInv'
  BY <1>1, <1>2, <1>4, IntakeStays DEF callers
<1> QED BY <1>4, <1>5, <1>6 DEF LInv, TurnSide

(* A turn begins, or the loop leaves because that cannot be published. *)
LEMMA StartKeeps ==
  ASSUME LoopTypeOK, TurnSide, NEW t \in Inputs, phase = "idle", ~Started(t),
         \A u \in Inputs : Started(u) => u < t, \A k \in Kinds : ~Says(t, k),
         StartTurn(t), UNCHANGED <<mode, own, serving, outcome, loopGone, mail>>
  PROVE  /\ TurnSide'
         /\ phase' \in {"turn", "exited"} /\ cur' \in 0..MaxInputs /\ turn' \in [Inputs -> Turns]
         /\ journal' \in [of : [Inputs -> SUBSET Kinds], index : Nat]
         /\ \/ /\ \A u \in Inputs : Started(u)' <=> Started(u) \/ u = t
               /\ \A u \in Inputs, k \in Kinds :
                    Says(u, k)' <=> Says(u, k) \/ (u = t /\ k = "started")
            \/ /\ \A u \in Inputs : Started(u)' <=> Started(u)
               /\ \A u \in Inputs, k \in Kinds : Says(u, k)' <=> Says(u, k)
<1>1. CASE /\ Published({<<t, "started">>}) /\ phase' = "turn" /\ cur' = t
           /\ turn' = [turn EXCEPT ![t] = [NoTurn EXCEPT !.at = "lock", !.bound = sidBound,
                                             !.new = ~hasSpawned, !.index = turnIndex + 1]]
  <2>1. /\ journal' \in [of : [Inputs -> SUBSET Kinds], index : Nat]
        /\ \A u \in Inputs, k \in Kinds : Says(u, k)' <=> Says(u, k) \/ <<u, k>> \in {<<t, "started">>}
        /\ journal'.index = IF <<cur, "done">> \in {<<t, "started">>} THEN turn[cur].index ELSE journal.index
    <3>1. <<cur, "done">> \in {<<t, "started">>} => cur \in Inputs
      OBVIOUS
    <3> QED BY <1>1, <3>1, PublishedSays
  <2>2. \A u \in Inputs, k \in Kinds : Says(u, k)' <=> Says(u, k) \/ (u = t /\ k = "started")
    BY <2>1
  <2>3. journal'.index = journal.index
    BY <2>1
  <2>4. \A u \in Inputs, k \in Loud : Says(u, k)' <=> Says(u, k)
    BY <2>2 DEF Loud, Kinds
  <2>5. \A k \in Loud : ~Says(t, k)
    BY DEF Loud, Kinds
  <2>6. TurnSide' /\ turn' \in [Inputs -> Turns] /\ \A u \in Inputs : Started(u)' <=> Started(u) \/ u = t
    BY <1>1, <2>3, <2>4, <2>5, BeginKeeps
  <2> QED BY <1>1, <2>1, <2>2, <2>6 DEF Inputs
<1>2. CASE Leaves /\ UNCHANGED <<turn, journal>>
  <2>1. \A u \in Inputs, k \in Kinds : Says(u, k)' <=> Says(u, k)
    BY <1>2 DEF Says
  <2>2. \A u \in Inputs : Started(u)' <=> Started(u)
    BY <1>2 DEF Started
  <2>3. CalmPhase
    BY <1>2 DEF CalmPhase, Leaves, MailHas
  <2>4. TurnSide'
    BY <1>2, <2>1, <2>3, CalmKeeps DEF Leaves, Loud, Kinds
  <2> QED BY <1>2, <2>1, <2>2, <2>4 DEF Leaves, LoopTypeOK
<1> QED BY <1>1, <1>2 DEF StartTurn

(* What is known of an input that is next in the queue. *)
LEMMA NextIsFree ==
  ASSUME LoopTypeOK, IntakeInv, NEW t \in Inputs, Queued(t)
  PROVE  /\ input[t] = "ok" /\ ~Started(t) /\ \A k \in Kinds : ~Says(t, k)
         /\ \A u \in Inputs : Started(u) => u < t
         /\ \A u \in Inputs : u < t => Received(u)
<1>1. /\ input[t] = "ok" /\ ~Started(t) /\ \A k \in Kinds : ~Says(t, k)
      /\ \A u \in Inputs : Started(u) => u < t
  BY DEF IntakeInv, Queued
<1>2. Received(t)
  BY <1>1 DEF Received
<1> QED BY <1>1, <1>2 DEF IntakeInv

LEMMA NextInputKeeps ==
  ASSUME LInv, UNCHANGED mode, NextInput
  PROVE  LInv'
<1>1. LoopTypeOK /\ SentInv /\ IntakeInv /\ FateInv /\ TurnSide
  BY DEF LInv, TurnSide
<1>2. PICK t : t = Head(queue)
  OBVIOUS
<1>3. /\ Shrinks /\ Queued(t) /\ t \in Inputs /\ \A j \in 1..Len(queue') : t < queue'[j]
  BY <1>1, <1>2, TailShrinks DEF NextInput
<1>4. /\ input[t] = "ok" /\ ~Started(t) /\ \A k \in Kinds : ~Says(t, k)
      /\ \A u \in Inputs : Started(u) => u < t
      /\ \A u \in Inputs : u < t => Received(u)
  BY <1>1, <1>3, NextIsFree
<1>5. /\ TurnSide'
      /\ phase' \in {"turn", "exited"} /\ cur' \in 0..MaxInputs /\ turn' \in [Inputs -> Turns]
      /\ journal' \in [of : [Inputs -> SUBSET Kinds], index : Nat]
      /\ \/ /\ \A u \in Inputs : Started(u)' <=> Started(u) \/ u = t
            /\ \A u \in Inputs, k \in Kinds :
                 Says(u, k)' <=> Says(u, k) \/ (u = t /\ k = "started")
         \/ /\ \A u \in Inputs : Started(u)' <=> Started(u)
            /\ \A u \in Inputs, k \in Kinds : Says(u, k)' <=> Says(u, k)
  BY <1>1, <1>2, <1>3, <1>4, StartKeeps DEF NextInput, own
<1>6. UNCHANGED <<own, serving, outcome, loopGone, callers, mail>>
  BY DEF NextInput
<1>7. LoopTypeOK'
  BY <1>1, <1>3, <1>5, <1>6 DEF LoopTypeOK, own, callers, Shrinks
<1>8. SentInv'
  BY <1>1, <1>6 DEF SentInv, callers
<1>9. IntakeInv' /\ FateInv'
  <2>1. input' = input
    BY <1>6 DEF callers
  <2>2. CASE /\ \A u \in Inputs : Started(u)' <=> Started(u) \/ u = t
             /\ \A u \in Inputs, k \in Kinds :
                  Says(u, k)' <=> Says(u, k) \/ (u = t /\ k = "started")
    BY <1>1, <1>3, <1>4, <2>1, <2>2, BeginIntake
  <2>3. CASE /\ \A u \in Inputs : Started(u)' <=> Started(u)
             /\ \A u \in Inputs, k \in Kinds : Says(u, k)' <=> Says(u, k)
    BY <1>1, <1>3, <2>1, <2>3, ShrinkKeeps
  <2> QED BY <1>5, <2>2, <2>3
<1> QED BY <1>5, <1>7, <1>8, <1>9 DEF LInv, TurnSide

(* What is known of an input whose turn it is to be received. *)
LEMMA SentIsFree ==
  ASSUME LoopTypeOK, SentInv, IntakeInv, NEW i \in Inputs, input[i] = "sent",
         \A j \in 1..(i - 1) : input[j] # "sent"
  PROVE  /\ \A u \in 1..(i - 1) : input[u] # "unsent"
         /\ ~Started(i) /\ \A k \in Kinds : ~Says(i, k)
         /\ \A u \in Inputs : Started(u) => u < i
         /\ \A u \in Inputs : u < i => Received(u)
<1>0. \A u \in 1..(i - 1) : u \in Inputs /\ u < i
  BY LoopAssumption DEF Inputs
<1>1. \A u \in 1..(i - 1) : u \in Inputs /\ u < i /\ input[u] # "unsent"
  BY <1>0 DEF SentInv
<1>2. \A u \in Inputs : u < i => Received(u)
  BY <1>1 DEF Inputs, Received
<1>3. ~Received(i)
  BY DEF Received
<1>4. \A u \in Inputs : Started(u) => u < i
  <2> SUFFICES ASSUME NEW u \in Inputs, Started(u), ~(u < i) PROVE FALSE
    OBVIOUS
  <2>1. Received(u)
    BY DEF IntakeInv, Received
  <2>2. u = i \/ i < u
    BY DEF Inputs
  <2> QED BY <1>3, <2>1, <2>2 DEF IntakeInv
<1>5. ~Started(i) /\ \A k \in Kinds : ~Says(i, k)
  BY <1>3 DEF IntakeInv
<1> QED BY <1>1, <1>2, <1>4, <1>5

LEMMA IdleInputKeeps ==
  ASSUME LInv, UNCHANGED mode, NEW i \in Inputs, IdleInput(i)
  PROVE  LInv'
<1>1. LoopTypeOK /\ SentInv /\ IntakeInv /\ FateInv /\ TurnSide
  BY DEF LInv, TurnSide
<1>2. /\ phase = "idle" /\ queue = <<>> /\ input[i] = "sent" /\ \A j \in 1..(i - 1) : input[j] # "sent"
      /\ UNCHANGED <<queue, own, serving, outcome, loopGone, ask, mail>>
  BY DEF IdleInput, Idle
<1>3. /\ \A u \in 1..(i - 1) : input[u] # "unsent"
      /\ ~Started(i) /\ \A k \in Kinds : ~Says(i, k)
      /\ \A u \in Inputs : Started(u) => u < i
      /\ \A u \in Inputs : u < i => Received(u)
  BY <1>1, <1>2, SentIsFree
<1>4. ASSUME NEW w \in {"ok", "error"}, input' = [input EXCEPT ![i] = w]
      PROVE  /\ \A u \in Inputs : input'[u] = IF u = i THEN w ELSE input[u]
             /\ input' \in [Inputs -> {"unsent", "sent", "taken", "ok", "rejected", "error"}]
             /\ SentInv'
  <2>1. \A u \in Inputs : input'[u] = IF u = i THEN w ELSE input[u]
    BY <1>1, <1>4 DEF LoopTypeOK
  <2>2. SentInv'
    BY <1>1, <1>2, <2>1, SentKeeps
  <2> QED BY <1>1, <1>4, <2>1, <2>2 DEF LoopTypeOK
<1>5. CASE Answer(i, "error") /\ UNCHANGED <<phase, cur, turn, journal>>
  <2>1. input' = [input EXCEPT ![i] = "error"]
    BY <1>5 DEF Answer
  <2>2. /\ \A u \in Inputs, k \in Kinds : Says(u, k)' <=> Says(u, k)
        /\ \A u \in Inputs, k \in Loud : Says(u, k)' <=> Says(u, k)
        /\ \A u \in Inputs : Started(u)' <=> Started(u)
    BY <1>5 DEF Says, Started
  <2>3. IntakeInv' /\ FateInv'
    BY <1>1, <1>2, <1>3, <2>1, <2>2, AnswerKeeps
  <2>4. CalmPhase
    BY <1>2, <1>5 DEF CalmPhase
  <2>5. TurnSide'
    BY <1>1, <1>2, <1>5, <2>2, <2>4, CalmKeeps
  <2>6. LoopTypeOK'
    BY <1>1, <1>2, <1>4, <1>5, <2>1 DEF LoopTypeOK, own
  <2> QED BY <1>4, <2>1, <2>3, <2>5, <2>6 DEF LInv, TurnSide
<1>6. CASE Answer(i, "ok") /\ StartTurn(i)
  <2>1. input' = [input EXCEPT ![i] = "ok"]
    BY <1>6 DEF Answer
  <2>2. /\ TurnSide'
        /\ phase' \in {"turn", "exited"} /\ cur' \in 0..MaxInputs /\ turn' \in [Inputs -> Turns]
        /\ journal' \in [of : [Inputs -> SUBSET Kinds], index : Nat]
        /\ \/ /\ \A u \in Inputs : Started(u)' <=> Started(u) \/ u = i
              /\ \A u \in Inputs, k \in Kinds :
                   Says(u, k)' <=> Says(u, k) \/ (u = i /\ k = "started")
           \/ /\ \A u \in Inputs : Started(u)' <=> Started(u)
              /\ \A u \in Inputs, k \in Kinds : Says(u, k)' <=> Says(u, k)
    BY <1>1, <1>2, <1>3, <1>6, StartKeeps
  <2>3. LoopTypeOK'
    BY <1>1, <1>2, <1>4, <2>1, <2>2 DEF LoopTypeOK, own
  <2>4. IntakeInv' /\ FateInv'
    <3>1. CASE /\ \A u \in Inputs : Started(u)' <=> Started(u) \/ u = i
               /\ \A u \in Inputs, k \in Kinds :
                    Says(u, k)' <=> Says(u, k) \/ (u = i /\ k = "started")
      <4>1. input'[i] = "ok" /\ \A u \in Inputs \ {i} : input'[u] = input[u]
        BY <1>4, <2>1
      <4>2. Shrinks
        BY <1>1, <1>2, SameQueue
      <4>3. \A j \in 1..Len(queue') : i < queue'[j]
        BY <1>2
      <4> QED BY <1>1, <1>3, <3>1, <4>1, <4>2, <4>3, BeginIntake
    <3>2. CASE /\ \A u \in Inputs : Started(u)' <=> Started(u)
               /\ \A u \in Inputs, k \in Kinds : Says(u, k)' <=> Says(u, k)
      BY <1>1, <1>2, <1>3, <2>1, <3>2, AnswerKeeps
    <3> QED BY <2>2, <3>1, <3>2
  <2> QED BY <1>4, <2>1, <2>2, <2>3, <2>4 DEF LInv, TurnSide
<1> QED BY <1>5, <1>6 DEF IdleInput

(* The steps that only move the actor. *)
LEMMA CalmActions ==
  ASSUME LInv, UNCHANGED mode,
         \/ IdleGone \/ Snapshot \/ TakeOutcome \/ Capture \/ Stop("context")
         \/ \E c \in Controls : IdleControl(c) \/ Stop(c)
  PROVE  LInv'
<1>1. LoopTypeOK /\ TurnSide
  BY DEF LInv, TurnSide
<1>2. \A c \in Asks, w \in {"taken", "answered"} :
        [ask EXCEPT ![c] = w] \in [Asks -> {"no", "asked", "taken", "answered"}]
  BY <1>1 DEF LoopTypeOK
<1>3. /\ phase \in {"idle", "turn", "finishing", "draining", "exited"}
      /\ loopGone \in BOOLEAN /\ serving \in Controls \cup {"none", "late", "context"}
      /\ outcome \in Outcomes /\ ask \in [Asks -> {"no", "asked", "taken", "answered"}]
      /\ mail \in [Inputs -> Seq({"bound", "done", "failed"})]
  BY <1>1 DEF LoopTypeOK
<1>4. Active => cur \in Inputs /\ turn[cur].out \in Outcomes
  <2> SUFFICES ASSUME Active PROVE cur \in Inputs /\ turn[cur].out \in Outcomes
    OBVIOUS
  <2>1. cur \in Inputs
    BY <1>1 DEF TurnSide, NowInv, LoopTypeOK, Inputs
  <2>2. turn[cur] \in Turns
    BY <1>1, <2>1 DEF LoopTypeOK
  <2> QED BY <2>1, <2>2 DEF Turns
<1>5. CASE IdleGone
  <2>1. CalmPhase
    BY <1>5 DEF IdleGone, Leaves, CalmPhase, MailHas
  <2> QED BY <1>3, <1>5, <2>1, CalmStep DEF IdleGone, Leaves, callers
<1>6. CASE Snapshot
  <2>1. "snapshot" \in Asks
    BY DEF Asks
  <2> QED BY <1>2, <1>3, <1>6, <2>1, CalmStep DEF Snapshot, CalmPhase
<1>7. CASE TakeOutcome
  <2>1. phase = "turn" /\ Reported(cur) /\ outcome' = turn[cur].out /\ phase' = "finishing"
        /\ UNCHANGED <<cur, queue, own, serving, loopGone, callers, turn, mail, journal>>
    BY <1>7 DEF TakeOutcome
  <2>2. outcome' \in Outcomes
    BY <1>4, <2>1 DEF Active
  <2>3. CalmPhase
    BY <2>1 DEF CalmPhase
  <2> QED BY <1>3, <2>1, <2>2, <2>3, CalmStep DEF callers
<1>8. CASE Capture
  <2>1. phase = "draining" /\ outcome' = turn[cur].out
        /\ UNCHANGED <<phase, cur, queue, own, serving, loopGone, callers, turn, mail, journal>>
    BY <1>8 DEF Capture
  <2>2. outcome' \in Outcomes
    BY <1>4, <2>1 DEF Active
  <2>3. CalmPhase
    BY <2>1 DEF CalmPhase
  <2> QED BY <1>3, <2>1, <2>2, <2>3, CalmStep DEF callers
<1>9. ASSUME NEW c \in Controls \cup {"context"}, Stop(c)
      PROVE  LInv'
  <2>1. phase = "turn" /\ phase' = "draining"
        /\ UNCHANGED <<cur, queue, own, loopGone, input, turn, mail, journal>>
    BY <1>9 DEF Stop
  <2>2. ask' \in [Asks -> {"no", "asked", "taken", "answered"}]
    BY <1>2, <1>3, <1>9 DEF Stop, Asks
  <2>3. serving' \in Controls \cup {"none", "late", "context"} /\ outcome' \in Outcomes
    <3>1. CASE c = "cancel" /\ Reported(cur)
      BY <1>4, <1>9, <2>1, <3>1 DEF Stop, Active
    <3>2. CASE ~(c = "cancel" /\ Reported(cur))
      BY <1>3, <1>9, <3>2 DEF Stop
    <3> QED BY <3>1, <3>2
  <2>4. CalmPhase
    BY <2>1 DEF CalmPhase
  <2> QED BY <1>3, <2>1, <2>2, <2>3, <2>4, CalmStep
<1>10. ASSUME NEW c \in Controls, IdleControl(c)
       PROVE  LInv'
  <2>1. /\ ask' = [ask EXCEPT ![c] = "answered"] /\ (phase' = phase \/ phase' = "exited")
        /\ UNCHANGED <<cur, queue, own, serving, outcome, loopGone, input, turn, mail, journal>>
    BY <1>10 DEF IdleControl, Leaves
  <2>2. ask' \in [Asks -> {"no", "asked", "taken", "answered"}]
    BY <1>2, <2>1 DEF Asks
  <2>3. CalmPhase
    BY <2>1 DEF CalmPhase, MailHas
  <2> QED BY <1>3, <2>1, <2>2, <2>3, CalmStep
<1> QED BY <1>5, <1>6, <1>7, <1>8, <1>9, <1>10

LEMMA TurnInputKeeps ==
  ASSUME LInv, UNCHANGED mode, NEW i \in Inputs, TurnInput(i)
  PROVE  LInv'
<1>1. LoopTypeOK /\ SentInv /\ IntakeInv /\ FateInv /\ TurnSide
  BY DEF LInv, TurnSide
<1>2. /\ phase = "turn" /\ input[i] = "sent" /\ \A j \in 1..(i - 1) : input[j] # "sent"
      /\ UNCHANGED <<own, serving, outcome, loopGone, ask, turn, mail>>
  BY DEF TurnInput
<1>3. \A u \in 1..(i - 1) : input[u] # "unsent"
  BY <1>1, <1>2, SentIsFree
<1>4. PICK w \in {"ok", "error", "taken", "rejected"} :
        /\ input' = [input EXCEPT ![i] = w]
        /\ cur' = cur /\ (phase' = phase \/ phase' = "exited")
        /\ \/ w = "rejected" /\ Published({<<i, "rejected">>})
           \/ w # "rejected" /\ journal' = journal
        /\ \/ queue' = queue
           \/ w = "ok" /\ Len(queue) < Capacity /\ queue' = Append(queue, i)
  BY DEF TurnInput, Answer, Leaves
<1>5. /\ journal' \in [of : [Inputs -> SUBSET Kinds], index : Nat]
      /\ journal'.index = journal.index
      /\ \A u \in Inputs, k \in Kinds :
           Says(u, k)' <=> Says(u, k) \/ (w = "rejected" /\ u = i /\ k = "rejected")
  <2>1. CASE w = "rejected" /\ Published({<<i, "rejected">>})
    <3>1. <<cur, "done">> \in {<<i, "rejected">>} => cur \in Inputs
      OBVIOUS
    <3>2. /\ journal' \in [of : [Inputs -> SUBSET Kinds], index : Nat]
          /\ \A u \in Inputs, k \in Kinds : Says(u, k)' <=> Says(u, k) \/ <<u, k>> \in {<<i, "rejected">>}
          /\ journal'.index = IF <<cur, "done">> \in {<<i, "rejected">>} THEN turn[cur].index ELSE journal.index
      BY <1>1, <2>1, <3>1, PublishedSays
    <3> QED BY <2>1, <3>2
  <2>2. CASE w # "rejected" /\ journal' = journal
    BY <1>1, <2>2 DEF Says, LoopTypeOK
  <2> QED BY <1>4, <2>1, <2>2
<1>6. \A u \in Inputs : input'[u] = IF u = i THEN w ELSE input[u]
  BY <1>1, <1>4 DEF LoopTypeOK
<1>7. SentInv'
  BY <1>1, <1>2, <1>6, SentKeeps
<1>8. \A u \in Inputs : Started(u)' <=> Started(u)
  BY <1>2 DEF Started
<1>9. IntakeInv' /\ FateInv'
  BY <1>1, <1>2, <1>3, <1>4, <1>5, <1>8, AnswerKeeps
<1>10. TurnSide'
  <2>1. \A u \in Inputs, k \in Loud : Says(u, k)' <=> Says(u, k)
    BY <1>5 DEF Loud, Kinds
  <2>2. CalmPhase
    BY <1>2, <1>4 DEF CalmPhase, MailHas
  <2> QED BY <1>1, <1>2, <1>4, <1>5, <2>1, <2>2, CalmKeeps
<1>11. LoopTypeOK'
  <2>1. queue' \in Seq(Inputs)
    <3>1. queue \in Seq(Inputs)
      BY <1>1 DEF LoopTypeOK
    <3>2. Append(queue, i) \in Seq(Inputs)
      BY <3>1, AppendProperties
    <3> QED BY <1>4, <3>1, <3>2
  <2>2. input' \in [Inputs -> {"unsent", "sent", "taken", "ok", "rejected", "error"}]
    BY <1>1, <1>4 DEF LoopTypeOK
  <2> QED BY <1>1, <1>2, <1>4, <1>5, <2>1, <2>2 DEF LoopTypeOK, own
<1> QED BY <1>7, <1>9, <1>10, <1>11 DEF LInv, TurnSide

LEMMA RetractKeeps ==
  ASSUME LInv, UNCHANGED mode, NEW t \in Inputs, Retract(t)
  PROVE  LInv'
<1>1. LoopTypeOK /\ SentInv /\ IntakeInv /\ FateInv /\ TurnSide
  BY DEF LInv, TurnSide
<1>2. /\ phase = "turn" /\ ask' = [ask EXCEPT !["cancel"] = "answered"] /\ "cancel" \in Controls
      /\ UNCHANGED <<own, serving, outcome, loopGone, input, turn, mail>>
  BY DEF Retract
<1>3. ask' \in [Asks -> {"no", "asked", "taken", "answered"}]
  BY <1>1, <1>2 DEF LoopTypeOK, Asks
<1>4. CASE UNCHANGED <<cur, queue, journal>> /\ (phase' = phase \/ phase' = "exited")
  <2>1. CalmPhase
    BY <1>2, <1>4 DEF CalmPhase, MailHas
  <2>2. /\ phase' \in {"idle", "turn", "finishing", "draining", "exited"}
        /\ loopGone \in BOOLEAN /\ serving \in Controls \cup {"none", "late", "context"}
        /\ outcome \in Outcomes /\ mail \in [Inputs -> Seq({"bound", "done", "failed"})]
    BY <1>1, <1>2, <1>4 DEF LoopTypeOK
  <2> QED BY <1>2, <1>3, <1>4, <2>1, <2>2, CalmStep
<1>5. ASSUME NEW j \in DOMAIN queue, queue[j] = t, queue' = Retracted(j),
             Published({<<t, "cancelled">>}), UNCHANGED <<phase, cur>>
      PROVE  LInv'
  <2>1. Shrinks /\ Queued(t) /\ \A i \in 1..Len(queue') : queue'[i] # t
    BY <1>1, <1>5, RetractShrinks
  <2>2. /\ journal' \in [of : [Inputs -> SUBSET Kinds], index : Nat]
        /\ journal'.index = journal.index
        /\ \A u \in Inputs, k \in Kinds : Says(u, k)' <=> Says(u, k) \/ (u = t /\ k = "cancelled")
    <3>1. <<cur, "done">> \in {<<t, "cancelled">>} => cur \in Inputs
      OBVIOUS
    <3>2. /\ journal' \in [of : [Inputs -> SUBSET Kinds], index : Nat]
          /\ \A u \in Inputs, k \in Kinds : Says(u, k)' <=> Says(u, k) \/ <<u, k>> \in {<<t, "cancelled">>}
          /\ journal'.index = IF <<cur, "done">> \in {<<t, "cancelled">>} THEN turn[cur].index ELSE journal.index
      BY <1>1, <1>5, <3>1, PublishedSays
    <3> QED BY <3>2
  <2>3. \A u \in Inputs : Started(u)' <=> Started(u)
    BY <1>2 DEF Started
  <2>4. IntakeInv' /\ FateInv'
    BY <1>1, <1>2, <2>1, <2>2, <2>3, ShrinkKeeps
  <2>5. SentInv'
    BY <1>1, <1>2 DEF SentInv
  <2>6. TurnSide'
    <3>1. \A u \in Inputs, k \in Loud : Says(u, k)' <=> Says(u, k)
      BY <2>2 DEF Loud, Kinds
    <3>2. CalmPhase
      BY <1>2, <1>5 DEF CalmPhase
    <3> QED BY <1>1, <1>2, <1>5, <2>2, <3>1, <3>2, CalmKeeps
  <2>7. LoopTypeOK'
    BY <1>1, <1>2, <1>3, <1>5, <2>1, <2>2 DEF LoopTypeOK, own, Shrinks
  <2> QED BY <2>4, <2>5, <2>6, <2>7 DEF LInv, TurnSide
<1> QED BY <1>4, <1>5 DEF Retract, Leaves

(* The actor's own turn has begun. *)
LEMMA CurrentTurn ==
  ASSUME LoopTypeOK, TurnSide, Active
  PROVE  cur \in Inputs /\ Started(cur) /\ turn[cur] \in Turns
<1>1. cur \in Inputs
  BY DEF TurnSide, NowInv, LoopTypeOK, Inputs
<1> QED BY <1>1 DEF TurnSide, NowInv, Inputs, LoopTypeOK

(* A command that waits is answered. *)
LEMMA Acknowledged ==
  ASSUME LoopTypeOK, Acknowledge
  PROVE  ask' \in [Asks -> {"no", "asked", "taken", "answered"}] /\ serving' = "none" /\ outcome' = "none"
<1>1. \A c \in Asks : ask[c] \in {"no", "asked", "taken", "answered"}
  BY DEF LoopTypeOK
<1> QED BY <1>1 DEF Acknowledge

(* The actor publishes what its mailbox holds. *)
LEMMA HearStep ==
  ASSUME LInv, Active, mail[cur] # <<>>, mail' = [mail EXCEPT ![cur] = Tail(@)],
         NEW h, h = Head(mail[cur]),
         UNCHANGED <<mode, phase, cur, outcome, serving, loopGone, turn, turnIndex, queue,
                     input, ask>>,
         h = "bound" => sid' = cur /\ sidBound' = TRUE /\ hasSpawned' = TRUE,
         h # "bound" => UNCHANGED <<sid, sidBound, hasSpawned>>,
         \/ Published({<<cur, h>>})
         \/ h # "bound" /\ phase = "draining" /\ journal' = journal
  PROVE  LInv'
<1>1. LoopTypeOK /\ SentInv /\ IntakeInv /\ FateInv /\ TurnSide
  BY DEF LInv, TurnSide
<1>2. cur \in Inputs /\ Started(cur) /\ turn[cur] \in Turns
  BY <1>1, CurrentTurn
<1>3. mail' \in [Inputs -> Seq({"bound", "done", "failed"})] /\ h \in {"bound", "done", "failed"}
  BY <1>1, <1>2, TakenMessage
<1>4. /\ journal' \in [of : [Inputs -> SUBSET Kinds], index : Nat]
      /\ \/ /\ \A u \in Inputs, k \in Kinds : Says(u, k)' <=> Says(u, k) \/ (u = cur /\ k = h)
            /\ journal'.index = IF h = "done" THEN turn[cur].index ELSE journal.index
         \/ h # "bound" /\ phase = "draining" /\ journal' = journal
  <2>1. CASE Published({<<cur, h>>})
    <3>1. <<cur, "done">> \in {<<cur, h>>} => cur \in Inputs
      BY <1>2
    <3>2. /\ journal' \in [of : [Inputs -> SUBSET Kinds], index : Nat]
          /\ \A u \in Inputs, k \in Kinds : Says(u, k)' <=> Says(u, k) \/ <<u, k>> \in {<<cur, h>>}
          /\ journal'.index = IF <<cur, "done">> \in {<<cur, h>>} THEN turn[cur].index ELSE journal.index
      BY <1>1, <2>1, <3>1, PublishedSays
    <3>3. \A u, k : <<u, k>> \in {<<cur, h>>} <=> (u = cur /\ k = h)
      OBVIOUS
    <3>4. <<cur, "done">> \in {<<cur, h>>} <=> h = "done"
      BY <3>3
    <3> QED BY <3>2, <3>3, <3>4
  <2>2. CASE h # "bound" /\ phase = "draining" /\ journal' = journal
    BY <1>1, <2>2 DEF LoopTypeOK
  <2> QED BY <2>1, <2>2
<1>5. TurnSide'
  <2>1. CASE /\ \A u \in Inputs, k \in Kinds : Says(u, k)' <=> Says(u, k) \/ (u = cur /\ k = h)
             /\ journal'.index = IF h = "done" THEN turn[cur].index ELSE journal.index
    BY <1>1, <2>1, HearKeeps
  <2>2. CASE h # "bound" /\ phase = "draining" /\ journal' = journal
    BY <1>1, <2>2, HearKeeps
  <2> QED BY <1>4, <2>1, <2>2
<1>6. \A u \in Inputs : Started(u)' <=> Started(u)
  BY DEF Started
<1>7. IntakeInv' /\ FateInv'
  <2>1. \A u \in Inputs, k \in Kinds : Says(u, k) => Says(u, k)'
    BY <1>4 DEF Says
  <2>2. \A u \in Inputs, k \in Kinds : Says(u, k)' =>
          Says(u, k) \/ (Started(u) /\ k \notin {"cancelled", "rejected"})
    BY <1>2, <1>3, <1>4 DEF Says
  <2>3. Shrinks
    BY <1>1, SameQueue
  <2> QED BY <1>1, <1>6, <2>1, <2>2, <2>3, ShrinkKeeps
<1>8. SentInv'
  BY <1>1 DEF SentInv
<1>9. LoopTypeOK'
  BY <1>1, <1>2, <1>3, <1>4 DEF LoopTypeOK, Inputs
<1> QED BY <1>5, <1>7, <1>8, <1>9 DEF LInv, TurnSide

LEMMA ObserveKeeps ==
  ASSUME LInv, UNCHANGED mode, Observe \/ DrainNext
  PROVE  LInv'
<1>1. LoopTypeOK /\ TurnSide
  BY DEF LInv, TurnSide
<1>2. /\ Active /\ mail[cur] # <<>> /\ mail' = [mail EXCEPT ![cur] = Tail(@)]
      /\ UNCHANGED <<queue, loopGone, input, turn>>
  BY DEF Observe, DrainNext, Active, callers
<1>3. cur \in Inputs
  BY <1>1, <1>2, CurrentTurn
<1>4. PICK h : h = Head(mail[cur])
  OBVIOUS
<1>5. CASE Leaves /\ UNCHANGED <<own, journal>>
           /\ (UNCHANGED <<ask, serving, outcome>> \/ Acknowledge)
  <2>1. /\ mail' \in [Inputs -> Seq({"bound", "done", "failed"})]
        /\ \A u \in Inputs \ {cur} : mail'[u] = mail[u]
        /\ \A k : MailHas(cur, k)' => MailHas(cur, k)
    <3>1. PICK c \in Inputs : c = cur
      BY <1>3
    <3>2. /\ mail' \in [Inputs -> Seq({"bound", "done", "failed"})]
          /\ \A u \in Inputs \ {c} : mail'[u] = mail[u]
          /\ \A k : MailHas(c, k)' => MailHas(c, k)
      BY <1>1, <1>2, <3>1, TakenMessage
    <3>3. cur' = c
      BY <1>5, <3>1 DEF Leaves
    <3> QED BY <3>1, <3>2, <3>3 DEF MailHas
  <2>2. \A u \in Inputs : \A k : MailHas(u, k)' => MailHas(u, k)
    <3> SUFFICES ASSUME NEW u \in Inputs, NEW k, MailHas(u, k)' PROVE MailHas(u, k)
      OBVIOUS
    <3>1. CASE u = cur
      BY <1>5, <2>1, <3>1 DEF Leaves, MailHas
    <3>2. CASE u # cur
      BY <2>1, <3>2 DEF MailHas
    <3> QED BY <3>1, <3>2
  <2>3. CalmPhase
    BY <1>5, <2>1, <2>2 DEF CalmPhase, Leaves
  <2>4. /\ ask' \in [Asks -> {"no", "asked", "taken", "answered"}] /\ outcome' \in Outcomes
        /\ serving' \in Controls \cup {"none", "late", "context"} /\ loopGone \in BOOLEAN
    BY <1>1, <1>5, Acknowledged DEF LoopTypeOK, Outcomes
  <2> QED BY <1>2, <1>5, <2>1, <2>3, <2>4, CalmStep DEF Leaves
<1>6. CASE /\ Published({<<cur, h>>}) /\ UNCHANGED <<phase, cur, outcome, serving, ask, turnIndex>>
           /\ IF h = "bound" THEN Binds(cur) ELSE UNCHANGED <<sid, sidBound, hasSpawned>>
  BY <1>2, <1>4, <1>6, HearStep DEF Binds
<1>7. CASE h # "bound" /\ phase = "draining"
           /\ UNCHANGED <<phase, cur, own, journal, ask, serving, outcome>>
  BY <1>2, <1>4, <1>7, HearStep DEF own
<1>8. CASE Observe
  <2>1. /\ UNCHANGED <<serving, outcome, callers>>
        /\ \/ /\ Published({<<cur, h>>}) /\ UNCHANGED <<phase, cur>>
              /\ IF h = "bound" THEN Binds(cur) /\ UNCHANGED turnIndex ELSE UNCHANGED own
           \/ Leaves /\ UNCHANGED <<own, journal>>
    BY <1>4, <1>8 DEF Observe
  <2> QED BY <1>5, <1>6, <2>1 DEF own, callers
<1>9. CASE DrainNext
  <2>1. /\ phase = "draining"
        /\ \/ h # "bound" /\ UNCHANGED <<phase, cur, own, journal, ask, serving, outcome>>
           \/ /\ h = "bound" /\ Published({<<cur, h>>}) /\ Binds(cur)
              /\ UNCHANGED <<phase, cur, turnIndex, ask, serving, outcome>>
           \/ Leaves /\ Acknowledge /\ UNCHANGED <<own, journal>>
    BY <1>4, <1>9 DEF DrainNext
  <2> QED BY <1>5, <1>6, <1>7, <2>1
<1> QED BY <1>8, <1>9

(* The inputs that are cancelled leave the queue; the current turn may be
   interrupted with them. *)
LEMMA FlushKeeps ==
  ASSUME LoopTypeOK, IntakeInv, FateInv, cur \in Inputs, Started(cur), UNCHANGED <<input, turn>>,
         NEW k \in 0..Len(queue), NEW said \in BOOLEAN, NEW events, Published(events),
         <<cur, "done">> \notin events,
         \A u \in Inputs, l \in Kinds : <<u, l>> \in events <=>
           \/ said /\ u = cur /\ l = "interrupted"
           \/ l = "cancelled" /\ \E p \in 1..k : queue[p] = u,
         Flushed(k) \/ (k = 0 /\ queue' = queue)
  PROVE  /\ IntakeInv' /\ FateInv' /\ queue' \in Seq(Inputs)
         /\ journal' \in [of : [Inputs -> SUBSET Kinds], index : Nat]
         /\ journal'.index = journal.index
         /\ \A u \in Inputs, l \in Loud :
              Says(u, l)' <=> Says(u, l) \/ (said /\ u = cur /\ l = "interrupted")
<1>1. /\ Shrinks
      /\ \A p \in 1..k : Queued(queue[p]) /\ \A j \in 1..Len(queue') : queue'[j] # queue[p]
  <2>1. CASE Flushed(k)
    BY <2>1, FlushShrinks
  <2>2. CASE k = 0 /\ queue' = queue
    <3>1. 1..k = {}
      BY <2>2
    <3> QED BY <2>2, <3>1, SameQueue
  <2> QED BY <2>1, <2>2
<1>2. /\ journal' \in [of : [Inputs -> SUBSET Kinds], index : Nat]
      /\ \A u \in Inputs, l \in Kinds : Says(u, l)' <=> Says(u, l) \/ <<u, l>> \in events
      /\ journal'.index = IF <<cur, "done">> \in events THEN turn[cur].index ELSE journal.index
  BY PublishedSays
<1>3. \A u \in Inputs : Started(u)' <=> Started(u)
  BY DEF Started
<1>4. \A u \in Inputs, l \in Kinds : Says(u, l)' =>
           \/ Says(u, l)
           \/ Started(u) /\ l \notin {"cancelled", "rejected"}
           \/ Queued(u) /\ l = "cancelled" /\ \A j \in 1..Len(queue') : queue'[j] # u
  <2> SUFFICES ASSUME NEW u \in Inputs, NEW l \in Kinds, <<u, l>> \in events
               PROVE  \/ Started(u) /\ l \notin {"cancelled", "rejected"}
                      \/ Queued(u) /\ l = "cancelled" /\ \A j \in 1..Len(queue') : queue'[j] # u
    BY <1>2
  <2> QED BY <1>1
<1>5. IntakeInv' /\ FateInv'
  <2>1. \A u \in Inputs, l \in Kinds : Says(u, l) => Says(u, l)'
    BY <1>2
  <2> QED BY <1>1, <1>3, <1>4, <2>1, ShrinkKeeps
<1>6. \A u \in Inputs, l \in Loud :
        Says(u, l)' <=> Says(u, l) \/ (said /\ u = cur /\ l = "interrupted")
  <2>1. \A l \in Loud : l \in Kinds /\ l # "cancelled"
    BY DEF Loud, Kinds
  <2> SUFFICES ASSUME NEW u \in Inputs, NEW l \in Loud
               PROVE  Says(u, l)' <=> Says(u, l) \/ (said /\ u = cur /\ l = "interrupted")
    OBVIOUS
  <2>2. <<u, l>> \in events <=> said /\ u = cur /\ l = "interrupted"
    BY <2>1
  <2> QED BY <1>2, <2>1, <2>2
<1> QED BY <1>1, <1>2, <1>5, <1>6 DEF Shrinks

LEMMA DropsAre ==
  ASSUME NEW k \in Nat, NEW u, NEW l
  PROVE  <<u, l>> \in Drops(k) <=> l = "cancelled" /\ \E p \in 1..k : queue[p] = u
BY DEF Drops

LEMMA StopLoopKeeps ==
  ASSUME LInv, UNCHANGED mode, StopLoop
  PROVE  LInv'
<1>1. LoopTypeOK /\ SentInv /\ IntakeInv /\ FateInv /\ TurnSide /\ Active
  BY DEF LInv, TurnSide, StopLoop, Active
<1>2. cur \in Inputs /\ Started(cur) /\ turn[cur] \in Turns
  BY <1>1, CurrentTurn
<1>3. /\ phase' = "exited" /\ cur' = cur /\ Acknowledge /\ mail' = [mail EXCEPT ![cur] = <<>>]
      /\ UNCHANGED <<own, loopGone, input, turn>>
  BY DEF StopLoop, Leaves, Unread
<1>4. PICK k \in 0..Len(queue) : Published(Drops(k)) /\ Flushed(k)
  BY DEF StopLoop
<1>5. k \in Nat
  BY <1>1 DEF LoopTypeOK
<1>6. /\ IntakeInv' /\ FateInv' /\ queue' \in Seq(Inputs)
      /\ journal' \in [of : [Inputs -> SUBSET Kinds], index : Nat]
      /\ journal'.index = journal.index
      /\ \A u \in Inputs, l \in Loud : Says(u, l)' <=> Says(u, l)
  <2>1. <<cur, "done">> \notin Drops(k)
    BY <1>5, DropsAre
  <2>2. \A u \in Inputs, l \in Kinds : <<u, l>> \in Drops(k) <=>
           \/ FALSE /\ u = cur /\ l = "interrupted"
           \/ l = "cancelled" /\ \E p \in 1..k : queue[p] = u
    BY <1>5, DropsAre
  <2> HIDE DEF Drops
  <2> QED BY <1>1, <1>2, <1>3, <1>4, <2>1, <2>2, FlushKeeps
<1>7. /\ mail' \in [Inputs -> Seq({"bound", "done", "failed"})]
      /\ \A u \in Inputs : mail'[u] = IF u = cur THEN <<>> ELSE mail[u]
  BY <1>1, <1>2, <1>3 DEF LoopTypeOK
<1>8. CalmPhase
  <2>1. \A u \in Inputs : \A l : MailHas(u, l)' => MailHas(u, l)
    BY <1>7 DEF MailHas
  <2> QED BY <1>3, <1>7, <2>1 DEF CalmPhase
<1>9. TurnSide'
  BY <1>1, <1>3, <1>6, <1>8, CalmKeeps
<1>10. SentInv'
  BY <1>1, <1>3 DEF SentInv
<1>11. LoopTypeOK'
  <2>1. ask' \in [Asks -> {"no", "asked", "taken", "answered"}] /\ serving' = "none" /\ outcome' = "none"
    BY <1>1, <1>3, Acknowledged
  <2> QED BY <1>1, <1>3, <1>6, <1>7, <2>1 DEF LoopTypeOK, own, Outcomes
<1> QED BY <1>6, <1>9, <1>10, <1>11 DEF LInv, TurnSide

(* The turn ends for the actor: what Apply and StopTurn have in common. *)
LEMMA EndStep ==
  ASSUME LInv, Active, NEW said \in BOOLEAN, NEW k \in 0..Len(queue), NEW events,
         UNCHANGED <<mode, loopGone, turn, input>>,
         \/ journal' = journal /\ ~said /\ queue' = queue
         \/ /\ Published(events) /\ <<cur, "done">> \notin events
            /\ \A u \in Inputs, l \in Kinds : <<u, l>> \in events <=>
                 \/ said /\ u = cur /\ l = "interrupted"
                 \/ l = "cancelled" /\ \E p \in 1..k : queue[p] = u
            /\ Flushed(k) \/ (k = 0 /\ queue' = queue),
         TurnOver \/ Leaves,
         mail' \in [Inputs -> Seq({"bound", "done", "failed"})],
         \A u \in Inputs : IF u = cur THEN Len(mail'[u]) = 0 ELSE mail'[u] = mail[u],
         \/ turn[cur].learned /\ sid' = cur /\ sidBound' = TRUE /\ hasSpawned' = TRUE
         \/ sid' = sid /\ sidBound' = sidBound /\ (hasSpawned => hasSpawned'),
         hasSpawned' \in BOOLEAN,
         \/ turnIndex' = turnIndex
         \/ turnIndex' = turn[cur].index /\ (~loopGone => Says(cur, "done")),
         phase' = "idle" => said \/
           /\ Reported(cur)
           /\ turn[cur].ran /\ (turn[cur].bound \/ turn[cur].learned) => hasSpawned'
           /\ ~loopGone /\ turn[cur].learned => Says(cur, "bound")
           /\ ~loopGone /\ Says(cur, "done") => turnIndex' = turn[cur].index,
         ask' \in [Asks -> {"no", "asked", "taken", "answered"}], outcome' = "none",
         serving' \in Controls \cup {"none", "late", "context"}
  PROVE  LInv'
<1>1. LoopTypeOK /\ SentInv /\ IntakeInv /\ FateInv /\ TurnSide
  BY DEF LInv, TurnSide
<1>2. cur \in Inputs /\ Started(cur) /\ turn[cur] \in Turns
  BY <1>1, CurrentTurn
<1>3. /\ IntakeInv' /\ FateInv' /\ queue' \in Seq(Inputs)
      /\ journal' \in [of : [Inputs -> SUBSET Kinds], index : Nat]
      /\ journal'.index = journal.index
      /\ \A u \in Inputs, l \in Loud :
           Says(u, l)' <=> Says(u, l) \/ (said /\ u = cur /\ l = "interrupted")
  <2>1. CASE journal' = journal /\ ~said /\ queue' = queue
    <3>1. \A u \in Inputs : Started(u)' <=> Started(u)
      BY DEF Started
    <3>2. IntakeInv' /\ FateInv'
      BY <1>1, <2>1, <3>1, IntakeStays
    <3> QED BY <1>1, <2>1, <3>2 DEF LoopTypeOK, Says
  <2>2. CASE /\ Published(events) /\ <<cur, "done">> \notin events
             /\ \A u \in Inputs, l \in Kinds : <<u, l>> \in events <=>
                  \/ said /\ u = cur /\ l = "interrupted"
                  \/ l = "cancelled" /\ \E p \in 1..k : queue[p] = u
             /\ Flushed(k) \/ (k = 0 /\ queue' = queue)
    <3>1. UNCHANGED <<input, turn>>
      OBVIOUS
    <3>2. Published(events) /\ <<cur, "done">> \notin events
      BY <2>2
    <3>3. \A u \in Inputs, l \in Kinds : <<u, l>> \in events <=>
                  \/ said /\ u = cur /\ l = "interrupted"
                  \/ l = "cancelled" /\ \E p \in 1..k : queue[p] = u
      BY <2>2
    <3>4. Flushed(k) \/ (k = 0 /\ queue' = queue)
      BY <2>2
    <3> QED BY ONLY <1>1, <1>2, <3>1, <3>2, <3>3, <3>4, k \in 0..Len(queue), said \in BOOLEAN,
                    FlushKeeps
  <2> QED BY <2>1, <2>2
<1>4. TurnSide'
  <2>1. \/ phase' = "idle" /\ cur' = 0
        \/ phase' = "exited" /\ cur' = cur
    BY DEF TurnOver, Leaves
  <2> QED BY <1>1, <1>3, <2>1, EndKeeps
<1>5. SentInv'
  BY <1>1 DEF SentInv
<1>6. LoopTypeOK'
  <2>1. /\ phase' \in {"idle", "turn", "finishing", "draining", "exited"} /\ cur' \in 0..MaxInputs
        /\ sid' \in 0..MaxInputs /\ {sidBound', hasSpawned', loopGone'} \subseteq BOOLEAN
    <3>1. /\ cur \in 0..MaxInputs /\ sid \in 0..MaxInputs /\ loopGone \in BOOLEAN /\ sidBound \in BOOLEAN
          /\ 0 \in 0..MaxInputs
      BY <1>1, LoopAssumption DEF LoopTypeOK
    <3>2. phase' \in {"idle", "turn", "finishing", "draining", "exited"} /\ cur' \in 0..MaxInputs
      BY <3>1 DEF TurnOver, Leaves
    <3>3. sid' \in 0..MaxInputs /\ sidBound' \in BOOLEAN
      BY <3>1
    <3> QED BY <3>1, <3>2, <3>3
  <2>2. turnIndex' \in Nat
    BY <1>1, <1>2 DEF LoopTypeOK, Turns
  <2> QED BY <1>1, <1>3, <2>1, <2>2 DEF LoopTypeOK, Outcomes
<1> QED BY <1>3, <1>4, <1>5, <1>6 DEF LInv, TurnSide

LEMMA StopTurnKeeps ==
  ASSUME LInv, UNCHANGED mode, StopTurn
  PROVE  LInv'
<1>1. LoopTypeOK /\ SentInv /\ IntakeInv /\ FateInv /\ TurnSide /\ Active
  BY DEF LInv, TurnSide, StopTurn, Active
<1>2. cur \in Inputs /\ Started(cur) /\ turn[cur] \in Turns
  BY <1>1, CurrentTurn
<1>3. /\ Acknowledge /\ mail' = [mail EXCEPT ![cur] = <<>>]
      /\ UNCHANGED <<turnIndex, loopGone, input, turn>>
      /\ \/ turn[cur].learned /\ sid' = cur /\ sidBound' = TRUE /\ hasSpawned' = TRUE
         \/ sid' = sid /\ sidBound' = sidBound /\ hasSpawned' = hasSpawned
  BY DEF StopTurn, Unread, Binds
<1>4. /\ mail' \in [Inputs -> Seq({"bound", "done", "failed"})]
      /\ \A u \in Inputs : IF u = cur THEN Len(mail'[u]) = 0 ELSE mail'[u] = mail[u]
  BY <1>1, <1>2, <1>3 DEF LoopTypeOK
<1>5. /\ ask' \in [Asks -> {"no", "asked", "taken", "answered"}] /\ outcome' = "none"
      /\ serving' \in Controls \cup {"none", "late", "context"} /\ hasSpawned' \in BOOLEAN
  BY <1>1, <1>3, Acknowledged DEF LoopTypeOK
<1>6. 0 \in 0..Len(queue) /\ 1..0 = {}
  BY <1>1 DEF LoopTypeOK
<1>7. CASE Leaves /\ UNCHANGED <<queue, journal>>
  <2>1. phase' # "idle"
    BY <1>7 DEF Leaves
  <2>2. PICK said \in BOOLEAN : ~said
    OBVIOUS
  <2>3. PICK events : events = {}
    OBVIOUS
  <2>4. PICK k \in 0..Len(queue) : k = 0
    BY <1>6
  <2>5. /\ hasSpawned => hasSpawned'
        /\ UNCHANGED <<mode, loopGone, turn, input>> /\ LInv
    BY <1>3
  <2>6. journal' = journal /\ ~said /\ queue' = queue /\ (TurnOver \/ Leaves)
    BY <1>7, <2>2
  <2> QED BY ONLY <1>1, <1>3, <1>4, <1>5, <2>1, <2>5, <2>6, said \in BOOLEAN,
                  k \in 0..Len(queue), EndStep
<1>8. ASSUME NEW k \in 0..Len(queue), NEW events, events = {<<cur, "interrupted">>} \cup Drops(k),
             Published(events), TurnOver \/ Leaves,
             Flushed(k) \/ (k = 0 /\ queue' = queue)
      PROVE  LInv'
  <2>1. k \in Nat
    BY <1>1 DEF LoopTypeOK
  <2>2. \A u, l : <<u, l>> \in events <=>
          \/ u = cur /\ l = "interrupted"
          \/ l = "cancelled" /\ \E p \in 1..k : queue[p] = u
    <3>1. \A u, l : <<u, l>> \in Drops(k) <=> l = "cancelled" /\ \E p \in 1..k : queue[p] = u
      BY <2>1, DropsAre
    <3>2. \A u, l : <<u, l>> \in {<<cur, "interrupted">>} <=> (u = cur /\ l = "interrupted")
      OBVIOUS
    <3> HIDE DEF Drops
    <3> QED BY <1>8, <3>1, <3>2
  <2>3. <<cur, "done">> \notin events
    BY <2>2
  <2>4. PICK said \in BOOLEAN : said
    OBVIOUS
  <2>5. \A u \in Inputs, l \in Kinds : <<u, l>> \in events <=>
          \/ said /\ u = cur /\ l = "interrupted"
          \/ l = "cancelled" /\ \E p \in 1..k : queue[p] = u
    BY <2>2, <2>4
  <2>6. /\ hasSpawned => hasSpawned'
        /\ UNCHANGED <<mode, loopGone, turn, input>>
    BY <1>3
  <2>7. LInv /\ Active
    BY <1>1
  <2> QED BY ONLY <1>1, <1>3, <1>4, <1>5, <1>8, <2>3, <2>4, <2>5, <2>6, <2>7, EndStep, ZenonT(40)
<1>9. CASE Published({<<cur, "interrupted">>}) /\ TurnOver /\ UNCHANGED queue
  <2>1. Drops(0) = {}
    BY <1>6 DEF Drops
  <2>2. {<<cur, "interrupted">>} = {<<cur, "interrupted">>} \cup Drops(0)
    BY <2>1
  <2> QED BY <1>6, <1>8, <1>9, <2>2
<1>10. CASE \E k \in 0..Len(queue) :
              Published({<<cur, "interrupted">>} \cup Drops(k)) /\ Flushed(k) /\ EndsAfter(k)
  BY <1>8, <1>10 DEF EndsAfter
<1> QED BY <1>7, <1>9, <1>10 DEF StopTurn

LEMMA ApplyKeeps ==
  ASSUME LInv, UNCHANGED mode, Apply
  PROVE  LInv'
<1>1. LoopTypeOK /\ SentInv /\ IntakeInv /\ FateInv /\ TurnSide /\ Active
  BY DEF LInv, TurnSide, Apply, Active
<1>2. cur \in Inputs /\ Started(cur) /\ turn[cur] \in Turns
  BY <1>1, CurrentTurn
<1>3. /\ phase = "finishing" /\ mail[cur] = <<>> /\ outcome' = "none"
      /\ UNCHANGED <<serving, loopGone, callers, turn, mail>>
      /\ \/ turn[cur].learned /\ sid' = cur /\ sidBound' = TRUE /\ hasSpawned' = TRUE
         \/ /\ ~turn[cur].learned /\ sid' = sid /\ sidBound' = sidBound
            /\ hasSpawned' = (hasSpawned \/ (outcome # "interrupted" /\ Spawned(cur)))
      /\ turnIndex' = IF outcome = "done" THEN turn[cur].index ELSE turnIndex
  BY DEF Apply, Binds, Advances
<1>4. outcome = turn[cur].out /\ Reported(cur)
  BY <1>1, <1>3 DEF TurnSide, NowInv
<1>5. \A k : ~MailHas(cur, k)
  BY <1>3 DEF MailHas
<1>6. ~loopGone => /\ turn[cur].learned => Says(cur, "bound")
                   /\ outcome = "done" => Says(cur, "done")
  BY <1>1, <1>3, <1>4, <1>5 DEF TurnSide, NowInv, Reported
<1>7. /\ turn[cur].ran => turn[cur].out # "nothing"
      /\ Says(cur, "done") => turn[cur].out = "done"
  BY <1>1, <1>2 DEF TurnSide, TurnInv
<1>8. outcome # "interrupted" =>
        /\ turn[cur].ran /\ (turn[cur].bound \/ turn[cur].learned) => hasSpawned'
        /\ ~loopGone /\ Says(cur, "done") => turnIndex' = turn[cur].index
  BY <1>3, <1>4, <1>7 DEF Spawned
<1>9. /\ hasSpawned => hasSpawned' /\ hasSpawned' \in BOOLEAN
      /\ \/ turnIndex' = turnIndex
         \/ turnIndex' = turn[cur].index /\ (~loopGone => Says(cur, "done"))
  BY <1>1, <1>3, <1>6 DEF LoopTypeOK, Spawned
<1>10. /\ mail' \in [Inputs -> Seq({"bound", "done", "failed"})]
       /\ \A u \in Inputs : IF u = cur THEN Len(mail'[u]) = 0 ELSE mail'[u] = mail[u]
       /\ ask' \in [Asks -> {"no", "asked", "taken", "answered"}]
       /\ serving' \in Controls \cup {"none", "late", "context"}
       /\ UNCHANGED <<mode, loopGone, turn, input>>
  BY <1>1, <1>3 DEF LoopTypeOK, callers
<1>11. 0 \in 0..Len(queue) /\ 1..0 = {}
  BY <1>1 DEF LoopTypeOK
<1>12. ASSUME NEW said \in BOOLEAN, NEW k \in 0..Len(queue), NEW events,
              \/ journal' = journal /\ ~said /\ queue' = queue
              \/ /\ Published(events)
                 /\ \A u, l : <<u, l>> \in events <=>
                      \/ said /\ u = cur /\ l = "interrupted"
                      \/ l = "cancelled" /\ \E p \in 1..k : queue[p] = u
                 /\ Flushed(k) \/ (k = 0 /\ queue' = queue),
              TurnOver \/ Leaves, said \/ outcome # "interrupted" \/ Leaves
       PROVE  LInv'
  <2>1. \/ journal' = journal /\ ~said /\ queue' = queue
        \/ /\ Published(events) /\ <<cur, "done">> \notin events
           /\ \A u \in Inputs, l \in Kinds : <<u, l>> \in events <=>
                \/ said /\ u = cur /\ l = "interrupted"
                \/ l = "cancelled" /\ \E p \in 1..k : queue[p] = u
           /\ Flushed(k) \/ (k = 0 /\ queue' = queue)
    BY <1>12
  <2>2. phase' = "idle" => said \/
          /\ Reported(cur)
          /\ turn[cur].ran /\ (turn[cur].bound \/ turn[cur].learned) => hasSpawned'
          /\ ~loopGone /\ turn[cur].learned => Says(cur, "bound")
          /\ ~loopGone /\ Says(cur, "done") => turnIndex' = turn[cur].index
    BY <1>4, <1>6, <1>8, <1>12 DEF Leaves
  <2>3. \/ turn[cur].learned /\ sid' = cur /\ sidBound' = TRUE /\ hasSpawned' = TRUE
        \/ sid' = sid /\ sidBound' = sidBound /\ (hasSpawned => hasSpawned')
    BY <1>3, <1>9
  <2>4. LInv
    OBVIOUS
  <2> QED BY ONLY <1>1, <1>3, <1>9, <1>10, <1>12, <2>1, <2>2, <2>3, <2>4, EndStep, ZenonT(40)
<1>13. CASE outcome = "interrupted" /\ UNCHANGED queue /\ Leaves /\ UNCHANGED journal
  <2>1. PICK said \in BOOLEAN : ~said
    OBVIOUS
  <2> QED BY <1>11, <1>12, <1>13, <2>1
<1>14. CASE UNCHANGED queue /\ Published({<<cur, "interrupted">>}) /\ TurnOver
  <2>1. PICK said \in BOOLEAN : said
    OBVIOUS
  <2>2. \A u, l : <<u, l>> \in {<<cur, "interrupted">>} <=>
          \/ said /\ u = cur /\ l = "interrupted"
          \/ l = "cancelled" /\ \E p \in 1..0 : queue[p] = u
    BY <1>11, <2>1
  <2> QED BY <1>11, <1>12, <1>14, <2>1, <2>2
<1>15. CASE outcome = "done" /\ TurnOver /\ UNCHANGED <<queue, journal>>
  <2>1. PICK said \in BOOLEAN : ~said
    OBVIOUS
  <2> QED BY <1>11, <1>12, <1>15, <2>1
<1>16. ASSUME outcome \in {"nothing", "failed"}, NEW k \in 0..Len(queue),
              Published(Drops(k)), Flushed(k), EndsAfter(k)
       PROVE  LInv'
  <2>1. PICK said \in BOOLEAN : ~said
    OBVIOUS
  <2>2. k \in Nat
    BY <1>1 DEF LoopTypeOK
  <2>3. \A u, l : <<u, l>> \in Drops(k) <=>
          \/ said /\ u = cur /\ l = "interrupted"
          \/ l = "cancelled" /\ \E p \in 1..k : queue[p] = u
    BY <2>1, <2>2, DropsAre
  <2>4. TurnOver \/ Leaves
    BY <1>16 DEF EndsAfter
  <2> QED BY <1>12, <1>16, <2>3, <2>4
<1> QED BY <1>13, <1>14, <1>15, <1>16 DEF Apply
-----------------------------------------------------------------------------
LEMMA LoopKeeps == LInv /\ [LoopNext]_<<mode, lvars>> => LInv'
<1> SUFFICES ASSUME LInv, [LoopNext]_<<mode, lvars>> PROVE LInv'
  OBVIOUS
<1>1. CASE LoopNext
  <2>1. UNCHANGED mode
    BY <1>1 DEF LoopNext
  <2>2. CASE Steps
    <3>1. CASE NextInput
      BY <2>1, <3>1, NextInputKeeps
    <3>2. CASE IdleGone \/ TakeOutcome \/ Capture \/ Stop("context")
      BY <2>1, <3>2, CalmActions
    <3>3. CASE Observe \/ DrainNext
      BY <2>1, <3>3, ObserveKeeps
    <3>4. CASE Apply
      BY <2>1, <3>4, ApplyKeeps
    <3>5. CASE StopTurn
      BY <2>1, <3>5, StopTurnKeeps
    <3>6. CASE StopLoop
      BY <2>1, <3>6, StopLoopKeeps
    <3> QED BY <2>2, <3>1, <3>2, <3>3, <3>4, <3>5, <3>6 DEF Steps
  <2>3. CASE Receives
    <3>1. CASE Snapshot \/ \E c \in Controls : IdleControl(c) \/ Stop(c)
      BY <2>1, <3>1, CalmActions
    <3>2. ASSUME NEW i \in Inputs, IdleInput(i) PROVE LInv'
      BY <2>1, <3>2, IdleInputKeeps
    <3>3. ASSUME NEW i \in Inputs, TurnInput(i) PROVE LInv'
      BY <2>1, <3>3, TurnInputKeeps
    <3>4. ASSUME NEW i \in Inputs, Retract(i) PROVE LInv'
      BY <2>1, <3>4, RetractKeeps
    <3> QED BY <2>3, <3>1, <3>2, <3>3, <3>4 DEF Receives
  <2>4. CASE EndContext \/ (\E c \in Asks : Ask(c)) \/ (\E i \in Inputs : SendInput(i))
    BY <2>1, <2>4, OutsideSteps
  <2>5. ASSUME NEW t \in Inputs, Producer(t) PROVE LInv'
    BY <2>1, <2>5, ProducerSteps
  <2> QED BY <1>1, <2>2, <2>3, <2>4, <2>5 DEF LoopNext
<1>2. CASE UNCHANGED <<mode, lvars>>
  <2>1. UNCHANGED <<mode, phase, cur, queue, own, serving, outcome, loopGone, input, ask, turn, mail, journal>>
    BY <1>2 DEF lvars, callers
  <2>2. LoopTypeOK
    BY DEF LInv
  <2>3. /\ phase' \in {"idle", "turn", "finishing", "draining", "exited"}
        /\ loopGone \in BOOLEAN /\ serving \in Controls \cup {"none", "late", "context"}
        /\ outcome \in Outcomes /\ mail \in [Inputs -> Seq({"bound", "done", "failed"})]
        /\ ask \in [Asks -> {"no", "asked", "taken", "answered"}]
    BY <2>1, <2>2 DEF LoopTypeOK
  <2>4. CalmPhase
    BY <2>1 DEF CalmPhase
  <2> QED BY <2>1, <2>3, <2>4, CalmStep
<1> QED BY <1>1, <1>2

(* What the invariant says of the inputs, the binding and the successors. *)
LEMMA InvariantGivesLoopInv == LInv => LoopInv
<1> SUFFICES ASSUME LInv PROVE LoopInv
  OBVIOUS
<1>1. /\ LoopTypeOK /\ IntakeInv /\ FateInv /\ TurnInv /\ NowInv /\ BindInv /\ PastInv /\ AnewInv
  BY DEF LInv
<1>2. journal.of \in [Inputs -> SUBSET Kinds]
  BY <1>1 DEF LoopTypeOK
<1>3. OneFate
  <2> SUFFICES ASSUME NEW t \in Inputs
               PROVE  /\ \A k, l \in journal.of[t] \cap {"started", "cancelled", "rejected"} : k = l
                      /\ (\E j \in DOMAIN queue : queue[j] = t) => journal.of[t] = {}
                      /\ Started(t) => input[t] = "ok"
                      /\ Len(queue) <= Capacity
    BY DEF OneFate
  <2>1. \A k, l \in journal.of[t] \cap {"started", "cancelled", "rejected"} : k = l
    <3> SUFFICES ASSUME NEW k \in journal.of[t], NEW l \in journal.of[t],
                        k \in {"started", "cancelled", "rejected"},
                        l \in {"started", "cancelled", "rejected"}
                 PROVE  k = l
      OBVIOUS
    <3>1. k \in Kinds /\ l \in Kinds /\ Says(t, k) /\ Says(t, l)
      BY DEF Kinds, Says
    <3>2. CASE Started(t)
      BY <1>1, <3>1, <3>2 DEF FateInv
    <3>3. CASE ~Started(t)
      BY <1>1, <3>1, <3>3 DEF FateInv
    <3> QED BY <3>2, <3>3
  <2>2. (\E j \in DOMAIN queue : queue[j] = t) => journal.of[t] = {}
    <3> SUFFICES ASSUME NEW j \in DOMAIN queue, queue[j] = t PROVE journal.of[t] = {}
      OBVIOUS
    <3>1. j \in 1..Len(queue)
      BY <1>1 DEF LoopTypeOK
    <3>2. \A k \in Kinds : ~Says(t, k)
      BY <1>1, <3>1 DEF IntakeInv
    <3> QED BY <1>2, <3>2 DEF Says
  <2> QED BY <1>1, <2>1, <2>2 DEF IntakeInv
<1>4. BoundOnce
  BY DEF LInv
<1>5. Successors
  <2> SUFFICES ASSUME NEW t \in Inputs, NEW u \in Inputs, u < t, Started(t), Started(u)
               PROVE  /\ turn[t].new /\ turn[u].ran =>
                           Says(u, "interrupted") \/ ~(turn[u].bound \/ turn[u].learned)
                      /\ turn[u].holds # "none" => Says(u, "interrupted")
    BY DEF Successors, Says
  <2>1. turn[t].new /\ turn[u].ran => Says(u, "interrupted") \/ ~(turn[u].bound \/ turn[u].learned)
    BY <1>1 DEF AnewInv
  <2>2. u # cur
    <3>1. t # cur => (cur # 0 => t < cur)
      BY <1>1 DEF PastInv
    <3> QED BY <3>1 DEF Inputs
  <2> QED BY <1>1, <2>1, <2>2 DEF PastInv, TurnInv
<1> QED BY <1>1, <1>3, <1>4, <1>5 DEF LoopInv

LEMMA LoopStaysInvariant == LoopSpec => []LInv
<1>1. LoopInit => LInv
  BY LoopInitially
<1>2. LInv /\ [LoopNext]_<<mode, lvars>> => LInv'
  BY LoopKeeps
<1> QED BY <1>1, <1>2, PTL DEF LoopSpec

(* No input is both run and cancelled or refused, whichever of the retraction,
   the flushes, the capacity and an exiting actor gets to it; the queue never
   exceeds its capacity; the session is bound in the journal once; a provider is
   told to start anew, or finds the lock of an earlier turn held, only behind a
   turn that the journal says was interrupted (handleTurnCommand, cancelPending,
   applyBoundObservation, runTurn, interruptedTurnOutcome). *)
THEOREM LoopKeepsItsPromises == LoopSpec => []LoopInv
<1>1. LoopSpec => []LInv
  BY LoopStaysInvariant
<1>2. LInv => LoopInv
  BY InvariantGivesLoopInv
<1> QED BY <1>1, <1>2, PTL

(* What the actor will hand to its next turn is what a restore would read from
   the journal, but for a turn that was stopped (applyOutcome,
   interruptedTurnOutcome, processTurnOutcomeObservation). *)
THEOREM JournalStaysTrue == LoopSpec => []JournalIsTrue
<1>1. LoopSpec => []LInv
  BY LoopStaysInvariant
<1>2. LInv => JournalIsTrue
  BY DEF LInv
<1> QED BY <1>1, <1>2, PTL
=============================================================================
