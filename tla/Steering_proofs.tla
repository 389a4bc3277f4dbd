--------------------------- MODULE Steering_proofs ---------------------------
(***************************************************************************)
(* Proofs about the steering machine, for any set of requests, any backlog *)
(* and any order of events, and about the turn that owns it: what is       *)
(* proved of the machine holds of it in every turn.                        *)
(***************************************************************************)
EXTENDS SteeringTurn, TLAPS

-----------------------------------------------------------------------------
(***************************************************************************)
(* The machine.                                                            *)
(***************************************************************************)
(* The part of the invariant that a verdict or a pump disturbs. *)
CoreTypeOK ==
  /\ QueueTypeOK /\ SlotTypeOK /\ VerdictTypeOK /\ ErrorTypeOK
  /\ ticket \in [Inputs -> Nat]

OneInFlight == reserved \subseteq resolved \cup {active}

Core ==
  /\ CoreTypeOK /\ WaitingInv /\ VerdictInv
  /\ active # None => active \in reserved
  /\ resolved \subseteq reserved
  /\ OneInFlight
  /\ fault => failed

(* Facts about the sequences the queues are made of. *)
LEMMA SuffixFacts ==
  ASSUME NEW S, NEW p \in Seq(S), NEW n \in 0..Len(p)
  PROVE  LET q == SubSeq(p, n + 2, Len(p)) IN
         /\ q \in Seq(S)
         /\ \A k \in 1..Len(q) : k + n + 1 \in 1..Len(p) /\ q[k] = p[k + n + 1]
  OBVIOUS

(* What is left of a line without repetitions repeats nothing, and nothing of
   what was taken from its front. *)
LEMMA DistinctSuffix ==
  ASSUME NEW S, NEW p \in Seq(S), NEW n \in 0..Len(p),
         \A j, k \in 1..Len(p) : p[j] = p[k] => j = k
  PROVE  LET q == SubSeq(p, n + 2, Len(p)) IN
         /\ \A k \in 1..Len(q) : q[k] \notin {p[j] : j \in 1..n}
         /\ \A j, k \in 1..Len(q) : q[j] = q[k] => j = k
<1> DEFINE q == SubSeq(p, n + 2, Len(p))
<1>1. \A k \in 1..Len(q) : k + n + 1 \in 1..Len(p) /\ q[k] = p[k + n + 1]
  BY SuffixFacts
<1>2. Len(q) \in Nat /\ Len(p) \in Nat /\ n \in Nat /\ n <= Len(p)
  OBVIOUS
<1> HIDE DEF q
<1>3. \A k \in 1..Len(q) : q[k] \notin {p[j] : j \in 1..n}
  <2> SUFFICES ASSUME NEW k \in 1..Len(q), NEW j \in 1..n, q[k] = p[j] PROVE FALSE
    OBVIOUS
  <2>1. j \in 1..Len(p) /\ k + n + 1 # j
    BY <1>2
  <2> QED BY <1>1, <2>1
<1>4. \A j, k \in 1..Len(q) : q[j] = q[k] => j = k
  <2> SUFFICES ASSUME NEW j \in 1..Len(q), NEW k \in 1..Len(q), q[j] = q[k]
               PROVE  j = k
    OBVIOUS
  <2>1. j + n + 1 = k + n + 1
    BY <1>1
  <2> QED BY <2>1, <1>2
<1> QED BY <1>3, <1>4 DEF q

LEMMA PrefixFacts ==
  ASSUME NEW S, NEW p \in Seq(S), NEW n \in 0..Len(p)
  PROVE  /\ SubSeq(p, 1, n) \in Seq(S)
         /\ {p[k] : k \in 1..n} \subseteq S
  OBVIOUS

LEMMA AppendFacts ==
  ASSUME NEW S, NEW p \in Seq(S), NEW i \in S
  PROVE  /\ Append(p, i) \in Seq(S) /\ Len(Append(p, i)) = Len(p) + 1
         /\ \A k \in 1..Len(p) : Append(p, i)[k] = p[k]
         /\ Append(p, i)[Len(p) + 1] = i
  OBVIOUS

(* Queueing the waiting requests behind a verdict: those that were queued
   leave the waiting line, and those that stay were not queued. *)
LEMMA QueuePendingFacts ==
  ASSUME CoreTypeOK, WaitingInv, NEW n \in Tries, QueuePending(n),
         UNCHANGED <<ticket, reserved>>
  PROVE  /\ QueueTypeOK' /\ pending' \in Seq(Steerable)
         /\ WaitingInv'
         /\ fallback' \cap reserved = fallback \cap reserved
         /\ fallback \subseteq fallback'
         /\ fallback' # {} => fallback # {} \/ fallbackBarrier'
<1> DEFINE q == SubSeq(pending, n + 2, Len(pending))
           Q == {pending[k] : k \in 1..n}
<1>1. n \in 0..Len(pending) /\ pending \in Seq(Steerable)
  BY DEF Tries, CoreTypeOK, SlotTypeOK
<1>2. /\ SubSeq(pending, 1, n) \in Seq(Inputs)
      /\ Q \subseteq Delegates /\ Q \subseteq Steerable
  BY <1>1, PrefixFacts, InputsAssumption
<1>3. /\ q \in Seq(Steerable)
      /\ \A k \in 1..Len(q) : k + n + 1 \in 1..Len(pending) /\ q[k] = pending[k + n + 1]
  BY <1>1, SuffixFacts
<1>4. Q \cap reserved = {}
  BY <1>1 DEF WaitingInv
<1>5. QueueTypeOK'
  BY <1>1, <1>2 DEF QueuePending, QueueTypeOK, CoreTypeOK
<1>6. WaitingInv'
  <2>1. \A k \in 1..Len(q) : ticket[q[k]] > 0 /\ q[k] \notin reserved \cup fallback
    BY <1>3 DEF WaitingInv
  <2>2. /\ \A k \in 1..Len(q) : q[k] \notin Q
        /\ \A j, k \in 1..Len(q) : q[j] = q[k] => j = k
    <3>1. \A j, k \in 1..Len(pending) : pending[j] = pending[k] => j = k
      BY DEF WaitingInv
    <3> QED BY ONLY <1>1, <3>1, DistinctSuffix
  <2>4. \A i \in reserved \cup fallback \cup Q : ticket[i] > 0
    BY <1>1 DEF WaitingInv
  <2> QED BY <2>1, <2>2, <2>4 DEF WaitingInv, QueuePending
<1>7. fallback' # {} => fallback # {} \/ fallbackBarrier'
  <2>1. CASE pending = <<>>
    <3>1. n = 0 BY <1>1, <2>1
    <3>2. fallback' = fallback BY <3>1 DEF QueuePending
    <3> QED BY <3>2
  <2>2. CASE pending # <<>>
    BY <2>2 DEF QueuePending
  <2> QED BY <2>1, <2>2
<1> QED BY <1>3, <1>4, <1>5, <1>6, <1>7 DEF QueuePending

(* An error is never taken back. *)
LEMMA ErrorsStay ==
  ASSUME ErrorTypeOK, fault => failed, NoError \/ Fail \/ ReturnError
  PROVE  /\ ErrorTypeOK' /\ (fault' => failed')
         /\ (fault => fault') /\ (failed => failed')
<1>1. CASE NoError
  <2>1. fault' = fault /\ failed' = failed
    BY <1>1 DEF NoError, errorVars
  <2> QED BY <2>1 DEF ErrorTypeOK
<1>2. CASE Fail
  BY <1>2 DEF Fail, ErrorTypeOK
<1>3. CASE ReturnError
  BY <1>3 DEF ReturnError, ErrorTypeOK
<1> QED BY <1>1, <1>2, <1>3

(* Before its verdict the attempt in the slot is in no verdict set. *)
LEMMA UnresolvedFacts ==
  ASSUME Core, Unresolved
  PROVE  /\ active \in Steerable /\ active \in reserved /\ active \notin resolved
         /\ active \notin injected \cup unknown \cup untrackable \cup fallback
BY DEF Core, CoreTypeOK, SlotTypeOK, Unresolved, VerdictInv

LEMMA UnknownKeepsCore ==
  ASSUME Core, Unresolved, ResolveUnknown(active), UNCHANGED ticket
  PROVE  Core' /\ (~fault' => active \in resolved')
<1> USE UnresolvedFacts
<1>1. CASE /\ Fail
           /\ UNCHANGED <<unknown, resolved, disabled, queueVars, active, pending,
                         reserved, folded, injected, untrackable>>
  <2>1. CoreTypeOK'
    BY <1>1 DEF Core, CoreTypeOK, QueueTypeOK, SlotTypeOK, VerdictTypeOK, ErrorTypeOK,
                Fail, queueVars
  <2>2. WaitingInv'
    BY <1>1 DEF Core, WaitingInv, queueVars
  <2>3. VerdictInv'
    BY <1>1 DEF Core, VerdictInv, DispositionOnce, FoldedBeforeInjected, Fail, queueVars
  <2> QED BY <1>1, <2>1, <2>2, <2>3 DEF Core, OneInFlight, Fail
<1>2. CASE /\ unknown' = unknown \cup {active}
           /\ resolved' = resolved \cup {active} /\ disabled' = TRUE
           /\ UNCHANGED <<reserved, folded, injected, untrackable>>
           /\ \E n \in Tries :
                /\ QueuePending(n)
                /\ IF n = Len(pending) THEN Vacate(active) /\ NoError
                                       ELSE UNCHANGED active /\ Fail
  <2> PICK n \in Tries : /\ QueuePending(n)
                         /\ \/ Vacate(active) /\ NoError
                            \/ UNCHANGED active /\ Fail
    BY <1>2
  <2>1. /\ QueueTypeOK' /\ pending' \in Seq(Steerable) /\ WaitingInv'
        /\ fallback' \cap reserved = fallback \cap reserved
        /\ fallback \subseteq fallback'
        /\ fallback' # {} => fallback # {} \/ fallbackBarrier'
    BY <1>2, QueuePendingFacts DEF Core
  <2>2. active' = active \/ active' = None
    BY DEF Vacate
  <2>4. /\ ErrorTypeOK' /\ (fault' => failed') /\ (fault => fault')
    BY ErrorsStay DEF Core, CoreTypeOK
  <2>5. CoreTypeOK'
    BY <1>2, <2>1, <2>2, <2>4 DEF Core, CoreTypeOK, SlotTypeOK, VerdictTypeOK
  <2>6. fallbackBarrier => fallbackBarrier'
    BY DEF QueuePending
  <2>7. VerdictInv'
    <3>1. resolved' = (injected \cup unknown \cup untrackable \cup (fallback \cap reserved))'
      BY <1>2, <2>1 DEF Core, VerdictInv
    <3>2. DispositionOnce'
      BY <1>2, <2>1 DEF Core, CoreTypeOK, VerdictTypeOK, VerdictInv, DispositionOnce
    <3>3. FoldedBeforeInjected'
      BY <1>2, <2>4 DEF Core, VerdictInv, FoldedBeforeInjected
    <3> QED BY <1>2, <2>1, <2>4, <2>6, <3>1, <3>2, <3>3 DEF Core, VerdictInv
  <2> QED BY <1>2, <2>1, <2>2, <2>4, <2>5, <2>7 DEF Core, OneInFlight
<1> QED BY <1>1, <1>2 DEF ResolveUnknown

(* Requests waiting in p: accepted, waiting once, and unknown to the hook. *)
WaitIn(p) ==
  /\ \A k \in 1..Len(p) : ticket'[p[k]] > 0 /\ p[k] \notin reserved \cup fallback
  /\ \A j, k \in 1..Len(p) : p[j] = p[k] => j = k
  /\ \A i \in reserved \cup fallback : ticket'[i] > 0

(* Reserve(r): the slot is filled with a request the hook has not heard of,
   while the turn still steers. *)
FillsSlot ==
  /\ active' \in Steerable /\ active' \notin reserved \cup fallback
  /\ reserved' = reserved \cup {active'}
  /\ ~fault /\ ~disabled /\ ~fallbackBarrier

LEMMA PumpFacts ==
  ASSUME CoreTypeOK, NEW p \in Seq(Steerable), WaitIn(p), PumpFrom(p), UNCHANGED fallback
  PROVE  /\ SlotTypeOK' /\ WaitingInv'
         /\ NoError \/ Fail
         /\ \/ active' = None /\ reserved' = reserved
            \/ FillsSlot /\ NoError
<1> reserved \subseteq Steerable
  BY DEF CoreTypeOK, SlotTypeOK
<1>1. CASE active' = None /\ pending' = p /\ NoError /\ UNCHANGED reserved
  BY <1>1 DEF SlotTypeOK, WaitingInv, WaitIn
<1>2. CASE CanPump(p) /\ pending' = Tail(p)
  <2>1. /\ p # <<>> /\ Tail(p) \in Seq(Steerable) /\ Len(Tail(p)) = Len(p) - 1
        /\ \A k \in 1..Len(Tail(p)) : Tail(p)[k] = p[k + 1] /\ k + 1 \in 1..Len(p)
        /\ 1 \in 1..Len(p) /\ Head(p) = p[1] /\ Head(p) \in Steerable
    BY <1>2 DEF CanPump
  <2>2. /\ \A k \in 1..Len(pending') : /\ ticket'[pending'[k]] > 0
                                      /\ pending'[k] \notin reserved \cup fallback
                                      /\ pending'[k] # Head(p)
        /\ \A j, k \in 1..Len(pending') : pending'[j] = pending'[k] => j = k
    BY <1>2, <2>1 DEF WaitIn
  <2>3. CASE active' = Head(p) /\ reserved' = reserved \cup {Head(p)} /\ NoError
    <3>1. SlotTypeOK'
      BY <1>2, <2>1, <2>3 DEF SlotTypeOK
    <3>2. \A i \in reserved' \cup fallback' : ticket'[i] > 0
      BY <2>1, <2>3 DEF WaitIn
    <3>3. WaitingInv'
      BY <2>2, <2>3, <3>2 DEF WaitingInv
    <3>4. FillsSlot
      BY <1>2, <2>1, <2>3 DEF FillsSlot, CanPump, WaitIn
    <3> QED BY <2>3, <3>1, <3>3, <3>4
  <2>4. CASE active' = None /\ Fail /\ UNCHANGED reserved
    <3>1. SlotTypeOK'
      BY <1>2, <2>1, <2>4 DEF SlotTypeOK
    <3>2. WaitingInv'
      BY <2>2, <2>4 DEF WaitingInv, WaitIn
    <3> QED BY <2>4, <3>1, <3>2
  <2> QED BY <1>2, <2>3, <2>4 DEF PumpFrom
<1> QED BY <1>1, <1>2 DEF PumpFrom

(* The slot empties or keeps its attempt, once that attempt has a verdict. *)
LEMMA SettledSlot ==
  ASSUME CoreTypeOK', WaitingInv', VerdictInv', Core,
         reserved' = reserved, resolved' \subseteq reserved,
         resolved \cup {active} \subseteq resolved',
         active' = active \/ active' = None, fault' => failed'
  PROVE  Core'
<1>1. active' # None => active' \in reserved'
  BY DEF Core
<1>2. OneInFlight'
  BY DEF Core, OneInFlight
<1> QED BY <1>1, <1>2 DEF Core

LEMMA InjectedKeepsCore ==
  ASSUME Core, Unresolved, ResolveInjected(active), UNCHANGED ticket
  PROVE  Core' /\ (~fault' => active \in resolved')
<1> USE UnresolvedFacts
<1>1. CASE /\ folded' \in {folded, folded \cup {active}} /\ Fail
           /\ UNCHANGED <<unknown, untrackable, disabled, injected, resolved,
                         queueVars, slotVars>>
  <2>1. CoreTypeOK'
    BY <1>1 DEF Core, CoreTypeOK, QueueTypeOK, SlotTypeOK, VerdictTypeOK, ErrorTypeOK,
                Fail, queueVars, slotVars
  <2>2. WaitingInv'
    BY <1>1 DEF Core, WaitingInv, queueVars, slotVars
  <2>3. VerdictInv'
    BY <1>1 DEF Core, VerdictInv, DispositionOnce, FoldedBeforeInjected, Fail, queueVars,
                slotVars
  <2> QED BY <1>1, <2>1, <2>2, <2>3 DEF Core, OneInFlight, Fail, slotVars
<1>2. CASE /\ folded' = folded \cup {active} /\ injected' = injected \cup {active}
           /\ resolved' = resolved \cup {active}
           /\ UNCHANGED <<unknown, untrackable, disabled>>
           /\ \/ /\ Vacate(active) /\ UNCHANGED reserved
                 /\ \E n \in Tries : QueuePending(n) /\ (NoError \/ ReturnError)
              \/ PumpFrom(pending) /\ UNCHANGED queueVars
              \/ NoError /\ UNCHANGED <<queueVars, slotVars>>
  <2>0. ASSUME fallback' \cap reserved = fallback \cap reserved, fallback \subseteq fallback',
               reserved \subseteq reserved',
               fallback' \cap reserved' = fallback' \cap reserved,
               fallback' # {} => fallback # {} \/ fallbackBarrier',
               fallbackBarrier => fallbackBarrier',
               NoError \/ Fail \/ ReturnError
        PROVE  VerdictInv' /\ VerdictTypeOK' /\ ErrorTypeOK' /\ (fault' => failed')
    <3>1. ErrorTypeOK' /\ (fault' => failed') /\ (fault => fault')
      BY <2>0, ErrorsStay DEF Core, CoreTypeOK
    <3>2. VerdictTypeOK'
      BY <1>2 DEF Core, CoreTypeOK, VerdictTypeOK
    <3>3. resolved' = (injected \cup unknown \cup untrackable \cup (fallback \cap reserved))'
      BY <1>2, <2>0 DEF Core, VerdictInv
    <3>4. DispositionOnce'
      BY <1>2, <2>0 DEF Core, CoreTypeOK, VerdictTypeOK, VerdictInv, DispositionOnce
    <3>5. FoldedBeforeInjected'
      BY <1>2, <3>1 DEF Core, VerdictInv, FoldedBeforeInjected
    <3> QED BY <1>2, <2>0, <3>1, <3>2, <3>3, <3>4, <3>5 DEF Core, VerdictInv
  <2>1. CASE /\ Vacate(active) /\ UNCHANGED reserved
             /\ \E n \in Tries : QueuePending(n) /\ (NoError \/ ReturnError)
    <3> PICK n \in Tries : QueuePending(n) /\ (NoError \/ ReturnError)
      BY <2>1
    <3>1. /\ QueueTypeOK' /\ pending' \in Seq(Steerable) /\ WaitingInv'
          /\ fallback' \cap reserved = fallback \cap reserved
          /\ fallback \subseteq fallback'
          /\ fallback' # {} => fallback # {} \/ fallbackBarrier'
      BY <2>1, QueuePendingFacts DEF Core
    <3>2. fallbackBarrier => fallbackBarrier'
      BY DEF QueuePending
    <3>3. VerdictInv' /\ VerdictTypeOK' /\ ErrorTypeOK' /\ (fault' => failed')
      BY <2>0, <2>1, <3>1, <3>2
    <3>4. active' = active \/ active' = None
      BY <2>1 DEF Vacate
    <3>5. CoreTypeOK'
      BY <2>1, <3>1, <3>3, <3>4 DEF Core, CoreTypeOK, SlotTypeOK
    <3> QED BY <1>2, <2>1, <3>1, <3>3, <3>4, <3>5, SettledSlot DEF Core
  <2>2. CASE PumpFrom(pending) /\ UNCHANGED queueVars
    <3>1. UNCHANGED fallback /\ UNCHANGED fallbackBarrier /\ QueueTypeOK'
      BY <2>2 DEF queueVars, Core, CoreTypeOK, QueueTypeOK
    <3>2. WaitIn(pending) /\ pending \in Seq(Steerable)
      BY DEF Core, CoreTypeOK, SlotTypeOK, WaitingInv, WaitIn
    <3>3. /\ SlotTypeOK' /\ WaitingInv'
          /\ NoError \/ Fail
          /\ \/ active' = None /\ reserved' = reserved
             \/ FillsSlot
      BY <2>2, <3>1, <3>2, PumpFacts DEF Core
    <3>4. VerdictInv' /\ VerdictTypeOK' /\ ErrorTypeOK' /\ (fault' => failed')
      BY <2>0, <3>1, <3>3 DEF FillsSlot
    <3>5. CoreTypeOK'
      BY <3>1, <3>3, <3>4 DEF Core, CoreTypeOK
    <3> QED BY <1>2, <3>3, <3>4, <3>5 DEF Core, OneInFlight, FillsSlot
  <2>3. CASE NoError /\ UNCHANGED <<queueVars, slotVars>>
    <3>1. /\ UNCHANGED <<fallback, fallbackBarrier, loopPending>>
          /\ UNCHANGED <<active, pending, reserved>>
      BY <2>3 DEF queueVars, slotVars
    <3>2. VerdictInv' /\ VerdictTypeOK' /\ ErrorTypeOK' /\ (fault' => failed')
      BY <2>0, <2>3, <3>1
    <3>3. CoreTypeOK' /\ WaitingInv'
      BY <3>1, <3>2 DEF Core, CoreTypeOK, QueueTypeOK, SlotTypeOK, WaitingInv
    <3> QED BY <1>2, <3>1, <3>2, <3>3, SettledSlot DEF Core
  <2> QED BY <1>2, <2>1, <2>2, <2>3
<1> QED BY <1>1, <1>2 DEF ResolveInjected

LEMMA FallbackKeepsCore ==
  ASSUME Core, Unresolved, ResolveFallback(active), UNCHANGED ticket
  PROVE  Core' /\ (~fault' => active \in resolved')
<1> USE UnresolvedFacts
<1>0. /\ UNCHANGED <<reserved, folded, injected, unknown, untrackable, disabled>>
      /\ fallbackBarrier' = TRUE
  BY DEF ResolveFallback
<1>1. CASE Fail /\ UNCHANGED <<loopPending, fallback, resolved, active, pending>>
  <2>1. CoreTypeOK'
    BY <1>0, <1>1 DEF Core, CoreTypeOK, QueueTypeOK, SlotTypeOK, VerdictTypeOK,
                      ErrorTypeOK, Fail
  <2>2. WaitingInv'
    BY <1>0, <1>1 DEF Core, WaitingInv
  <2>3. VerdictInv'
    BY <1>0, <1>1 DEF Core, VerdictInv, DispositionOnce, FoldedBeforeInjected, Fail
  <2> QED BY <1>0, <1>1, <2>1, <2>2, <2>3 DEF Core, OneInFlight, Fail
<1>2. CASE /\ resolved' = resolved \cup {active}
           /\ \E n \in Tries :
                /\ loopPending' = Append(loopPending, active) \o SubSeq(pending, 1, n)
                /\ fallback' = fallback \cup {active} \cup {pending[k] : k \in 1..n}
                /\ pending' = SubSeq(pending, n + 2, Len(pending))
                /\ IF n = Len(pending) THEN Vacate(active) /\ NoError
                                       ELSE UNCHANGED active /\ Fail
  <2> PICK n \in Tries :
        /\ loopPending' = Append(loopPending, active) \o SubSeq(pending, 1, n)
        /\ fallback' = fallback \cup {active} \cup {pending[k] : k \in 1..n}
        /\ pending' = SubSeq(pending, n + 2, Len(pending))
        /\ \/ Vacate(active) /\ NoError
           \/ UNCHANGED active /\ Fail
    BY <1>2
  <2> DEFINE Q == {pending[k] : k \in 1..n}
  <2>1. n \in 0..Len(pending) /\ pending \in Seq(Steerable) /\ loopPending \in Seq(Inputs)
    BY DEF Tries, Core, CoreTypeOK, SlotTypeOK, QueueTypeOK
  <2>2. /\ SubSeq(pending, 1, n) \in Seq(Inputs) /\ active \in Inputs /\ active \in Delegates
        /\ Q \subseteq Delegates
    BY <2>1, PrefixFacts, InputsAssumption
  <2>3. /\ pending' \in Seq(Steerable)
        /\ \A k \in 1..Len(pending') : /\ k + n + 1 \in 1..Len(pending)
                                      /\ pending'[k] = pending[k + n + 1]
    BY <2>1, SuffixFacts
  <2>4. Q \cap reserved = {}
    BY <2>1 DEF Core, WaitingInv
  <2>5. QueueTypeOK'
    <3>1. /\ Append(loopPending, active) \in Seq(Inputs)
          /\ fallback \subseteq Delegates /\ fallbackBarrier' \in BOOLEAN
      BY <1>0, <2>1, <2>2, AppendFacts DEF QueueTypeOK, Core, CoreTypeOK
    <3>2. loopPending' = Append(loopPending, active) \o SubSeq(pending, 1, n)
      OBVIOUS
    <3>3. loopPending' \in Seq(Inputs)
      BY ONLY <3>1, <3>2, <2>2
    <3>4. fallback' \subseteq Delegates
      BY <3>1, <2>2
    <3> QED BY <3>1, <3>3, <3>4 DEF QueueTypeOK
  <2>6. WaitingInv'
    <3>1. \A k \in 1..Len(pending') : /\ ticket[pending'[k]] > 0
                                    /\ pending'[k] \notin reserved \cup fallback
      BY <2>3 DEF Core, WaitingInv
    <3>2. /\ \A k \in 1..Len(pending') : pending'[k] \notin Q
          /\ \A j, k \in 1..Len(pending') : pending'[j] = pending'[k] => j = k
      <4>1. \A j, k \in 1..Len(pending) : pending[j] = pending[k] => j = k
        BY DEF Core, WaitingInv
      <4>2. pending' = SubSeq(pending, n + 2, Len(pending))
        OBVIOUS
      <4> QED BY ONLY <2>1, <4>1, <4>2, DistinctSuffix
    <3>4. \A i \in reserved \cup fallback \cup {active} \cup Q : ticket[i] > 0
      BY <2>1 DEF Core, WaitingInv
    <3>5. fallback' = fallback \cup {active} \cup Q /\ reserved' = reserved /\ ticket' = ticket
      BY <1>0
    <3>6. active \in reserved
      OBVIOUS
    <3> HIDE DEF Q
    <3> QED BY ONLY <3>1, <3>2, <3>4, <3>5, <3>6 DEF WaitingInv
  <2>7. active' = active \/ active' = None
    BY DEF Vacate
  <2>8. ErrorTypeOK' /\ (fault' => failed') /\ (fault => fault')
    BY ErrorsStay DEF Core, CoreTypeOK
  <2>9. CoreTypeOK'
    BY <1>0, <1>2, <2>3, <2>5, <2>7, <2>8 DEF Core, CoreTypeOK, SlotTypeOK, VerdictTypeOK
  <2>10. VerdictInv'
    <3>1. fallback' \cap reserved = (fallback \cap reserved) \cup {active}
      BY <2>4
    <3>2. resolved' = (injected \cup unknown \cup untrackable \cup (fallback \cap reserved))'
      BY <1>0, <1>2, <3>1 DEF Core, VerdictInv
    <3>3. /\ injected \cup unknown \cup untrackable \subseteq reserved
          /\ DispositionOnce
      BY DEF Core, VerdictInv
    <3>4. DispositionOnce'
      BY <1>0, <3>1, <3>3 DEF DispositionOnce
    <3>5. FoldedBeforeInjected'
      BY <1>0, <2>8 DEF Core, VerdictInv, FoldedBeforeInjected
    <3>6. /\ unknown \cup untrackable # {} => disabled
          /\ untrackable # {} => fault
      BY DEF Core, VerdictInv
    <3>7. /\ fallbackBarrier'
          /\ (unknown \cup untrackable # {})' => disabled'
          /\ (untrackable # {})' => fault'
      BY <1>0, <2>8, <3>6
    <3> QED BY <3>2, <3>4, <3>5, <3>7 DEF VerdictInv
  <2> QED BY <1>0, <1>2, <2>6, <2>7, <2>8, <2>9, <2>10, SettledSlot DEF Core
<1> QED BY <1>1, <1>2 DEF ResolveFallback

LEMMA UntrackableKeepsCore ==
  ASSUME Core, Unresolved, ResolveUntrackable(active), UNCHANGED ticket
  PROVE  Core' /\ fault'
<1> USE UnresolvedFacts
<1>1. /\ fault' = TRUE /\ failed' = TRUE
      /\ UNCHANGED <<loopPending, fallback, fallbackBarrier>>
      /\ UNCHANGED <<active, pending, reserved>>
      /\ UNCHANGED <<folded, injected, unknown>>
      /\ \/ /\ untrackable' = untrackable \cup {active}
            /\ resolved' = resolved \cup {active} /\ disabled' = TRUE
         \/ UNCHANGED <<untrackable, resolved, disabled>>
  BY DEF ResolveUntrackable, Fail, queueVars, slotVars
<1>2. CoreTypeOK'
  BY <1>1 DEF Core, CoreTypeOK, QueueTypeOK, SlotTypeOK, VerdictTypeOK, ErrorTypeOK
<1>3. WaitingInv'
  BY <1>1 DEF Core, WaitingInv
<1>4. VerdictInv'
  BY <1>1 DEF Core, VerdictInv, DispositionOnce, FoldedBeforeInjected
<1> QED BY <1>1, <1>2, <1>3, <1>4 DEF Core, OneInFlight

(* A verdict, whichever it is, leaves the core invariant standing. *)
LEMMA VerdictKeepsCore ==
  ASSUME Core, Unresolved, NEW r, Adjudicate(active, r), UNCHANGED ticket
  PROVE  Core' /\ (~fault' => active \in resolved')
BY InjectedKeepsCore, FallbackKeepsCore, UnknownKeepsCore, UntrackableKeepsCore
   DEF Adjudicate

-----------------------------------------------------------------------------
(* The types of what no verdict touches. *)
RestTypeOK ==
  /\ accepted \in Nat /\ ordered \in BOOLEAN /\ streamKnown \in BOOLEAN
  /\ timer \in Clock /\ deadlineTimer \in Clock
  /\ done \subseteq Steerable /\ seen \subseteq Steerable
  /\ deadlineExpired \subseteq Steerable /\ result \in [Inputs -> Results]
  /\ retracted \subseteq Inputs /\ terminal \in BOOLEAN
  /\ stage \in {"running", "finalized", "left"}

LEMMA InvSplit ==
  ASSUME IInv
  PROVE  /\ RestTypeOK /\ StageInv /\ CoreTypeOK /\ WaitingInv /\ VerdictInv
         /\ stage # "left" => Core
BY DEF IInv, TypeOK, RestTypeOK, CoreTypeOK, Core, OneInFlight, SlotInv, StageInv

(* While the actor drives the turn, the core invariant and the types are all
   there is to keep. *)
LEMMA InvJoin ==
  ASSUME Core', RestTypeOK', StageInv'
  PROVE  IInv'
BY DEF IInv, TypeOK, RestTypeOK, CoreTypeOK, Core, OneInFlight, SlotInv, StageInv

LEMMA LiveJoin ==
  ASSUME Live, UNCHANGED stage, Core', RestTypeOK'
  PROVE  IInv'
<1>1. StageInv'
  BY DEF Live, StageInv, Core
<1> QED BY <1>1, InvJoin

LEMMA ClockTypes ==
  ASSUME NEW t \in Clock, NEW d \in Clock, Clocks(t, d)
  PROVE  timer' \in Clock /\ deadlineTimer' \in Clock
BY DEF Clocks, Arms, Clock

(* The request that joins the waiting line is new to it and to the hook. *)
LEMMA OfferLine ==
  ASSUME Core, NEW i \in Steerable, ticket[i] = 0, ticket'[i] > 0,
         \A j \in Inputs : ticket[j] > 0 => ticket'[j] = ticket[j]
  PROVE  Append(pending, i) \in Seq(Steerable) /\ WaitIn(Append(pending, i))
<1> DEFINE p == Append(pending, i)
<1>1. /\ pending \in Seq(Steerable) /\ reserved \cup fallback \subseteq Inputs
      /\ \A k \in 1..Len(pending) : pending[k] \in Inputs /\ ticket[pending[k]] > 0
      /\ \A k \in 1..Len(pending) : pending[k] # i /\ pending[k] \notin reserved \cup fallback
      /\ \A j \in reserved \cup fallback : ticket[j] > 0
      /\ \A j, k \in 1..Len(pending) : pending[j] = pending[k] => j = k
      /\ i \notin reserved \cup fallback
  BY InputsAssumption DEF Core, CoreTypeOK, SlotTypeOK, QueueTypeOK, WaitingInv
<1>2. /\ p \in Seq(Steerable) /\ Len(p) = Len(pending) + 1 /\ Len(pending) \in Nat
      /\ \A k \in 1..Len(pending) : p[k] = pending[k]
      /\ p[Len(pending) + 1] = i
  BY <1>1, AppendFacts
<1> HIDE DEF p
<1>3. ASSUME NEW k \in 1..Len(p)
      PROVE  (k \in 1..Len(pending) /\ p[k] = pending[k]) \/ (k = Len(pending) + 1 /\ p[k] = i)
  <2>1. k \in 1..Len(pending) \/ k = Len(pending) + 1
    BY <1>2
  <2> QED BY <1>2, <2>1
<1>4. \A k \in 1..Len(p) : ticket'[p[k]] > 0 /\ p[k] \notin reserved \cup fallback
  BY <1>1, <1>3
<1>5. \A j, k \in 1..Len(p) : p[j] = p[k] => j = k
  BY <1>1, <1>3
<1>6. \A j \in reserved \cup fallback : ticket'[j] > 0
  BY <1>1
<1>7. WaitIn(p)
  BY <1>4, <1>5, <1>6 DEF WaitIn
<1> QED BY <1>2, <1>7 DEF p

(* One lemma per operation. *)
LEMMA OfferInv ==
  ASSUME IInv, NEW i \in Inputs, Offer(i)
  PROVE  IInv'
<1>0. Live /\ Core /\ RestTypeOK
  BY InvSplit DEF Offer, Live
<1>1. /\ ticket' \in [Inputs -> Nat] /\ accepted' \in Nat /\ accepted \in Nat
      /\ ticket'[i] > 0 /\ ticket[i] = 0
      /\ \A j \in Inputs : ticket[j] > 0 => j # i /\ ticket'[j] = ticket[j]
  BY <1>0 DEF Offer, Accept, Core, CoreTypeOK, RestTypeOK
<1>2. /\ UNCHANGED <<ordered, streamKnown, timer, done, seen, deadlineExpired, result>>
      /\ UNCHANGED <<folded, injected, unknown, untrackable, resolved, disabled>>
      /\ UNCHANGED <<retracted, terminal, stage>>
  BY DEF Offer, streamVars, attemptVars, verdictVars
<1>3. /\ i \notin reserved \cup fallback
      /\ \A j \in reserved \cup fallback : j \in Inputs /\ ticket'[j] > 0
      /\ \A k \in 1..Len(pending) : /\ pending[k] \in Inputs /\ pending[k] # i
                                   /\ ticket'[pending[k]] > 0
                                   /\ pending[k] \notin reserved \cup fallback
  BY <1>0, <1>1, InputsAssumption
     DEF Core, CoreTypeOK, SlotTypeOK, QueueTypeOK, WaitingInv
<1>4. WaitIn(pending) /\ pending \in Seq(Steerable)
  BY <1>0, <1>3 DEF WaitIn, WaitingInv, Core, CoreTypeOK, SlotTypeOK
<1>5. CASE /\ loopPending' = Append(loopPending, i)
           /\ UNCHANGED <<fallback, fallbackBarrier, deadlineTimer, slotVars, errorVars>>
  <2>1. UNCHANGED <<active, pending, reserved>> /\ fault' = fault /\ failed' = failed
    BY <1>5 DEF slotVars, errorVars
  <2>2. CoreTypeOK'
    BY <1>0, <1>1, <1>2, <1>5, <2>1
       DEF Core, CoreTypeOK, QueueTypeOK, SlotTypeOK, VerdictTypeOK, ErrorTypeOK
  <2>3. WaitingInv'
    BY <1>3, <1>4, <1>5, <2>1 DEF WaitIn, WaitingInv
  <2>4. VerdictInv'
    BY <1>0, <1>2, <1>5, <2>1 DEF Core, VerdictInv, DispositionOnce, FoldedBeforeInjected
  <2>5. Core'
    BY <1>0, <1>2, <2>1, <2>2, <2>3, <2>4 DEF Core, OneInFlight
  <2> QED BY <1>0, <1>1, <1>2, <1>5, <2>5, LiveJoin DEF RestTypeOK
<1>6. CASE /\ i \in Delegates /\ fallbackBarrier' = TRUE
           /\ \/ /\ loopPending' = Append(loopPending, i)
                 /\ fallback' = fallback \cup {i} /\ NoError
              \/ /\ HookFaults /\ ReturnError
                 /\ UNCHANGED <<loopPending, fallback>>
           /\ UNCHANGED <<deadlineTimer, slotVars>>
  <2>1. UNCHANGED <<active, pending, reserved>>
    BY <1>6 DEF slotVars
  <2>2. ErrorTypeOK' /\ (fault' => failed') /\ (fault => fault')
    BY <1>0, <1>6, ErrorsStay DEF Core, CoreTypeOK
  <2>3. (fallback' = fallback \cup {i} \/ fallback' = fallback) /\ QueueTypeOK'
    <3>1. /\ fallback' = fallback \cup {i} \/ fallback' = fallback
          /\ loopPending' = Append(loopPending, i) \/ loopPending' = loopPending
      BY <1>6
    <3>2. loopPending \in Seq(Inputs) /\ fallback \subseteq Delegates /\ i \in Delegates
      BY <1>0, <1>6 DEF Core, CoreTypeOK, QueueTypeOK
    <3>3. loopPending' \in Seq(Inputs)
      BY ONLY <3>1, <3>2, i \in Inputs, AppendFacts
    <3>4. fallback' \subseteq Delegates /\ fallbackBarrier' \in BOOLEAN
      BY ONLY <3>1, <3>2, <1>6
    <3> QED BY <3>1, <3>3, <3>4 DEF QueueTypeOK
  <2>4. CoreTypeOK'
    BY <1>0, <1>1, <1>2, <2>1, <2>2, <2>3 DEF Core, CoreTypeOK, SlotTypeOK, VerdictTypeOK
  <2>5. WaitingInv'
    BY <1>1, <1>3, <1>4, <2>1, <2>3 DEF WaitIn, WaitingInv
  <2>6. VerdictInv'
    <3>1. /\ i \notin reserved /\ injected \cup unknown \cup untrackable \subseteq reserved
          /\ DispositionOnce
      BY <1>0, <1>3 DEF Core, VerdictInv
    <3>2. DispositionOnce'
      BY <1>2, <2>3, <3>1 DEF DispositionOnce
    <3>3. resolved' = (injected \cup unknown \cup untrackable \cup (fallback \cap reserved))'
      BY <1>0, <1>2, <2>1, <2>3, <3>1 DEF Core, VerdictInv
    <3> QED BY <1>0, <1>2, <1>6, <2>2, <3>2, <3>3 DEF Core, VerdictInv, FoldedBeforeInjected
  <2>7. Core'
    BY <1>0, <1>2, <2>1, <2>2, <2>4, <2>5, <2>6 DEF Core, OneInFlight
  <2> QED BY <1>0, <1>1, <1>2, <1>6, <2>7, LiveJoin DEF RestTypeOK
<1>7. CASE /\ i \in Delegates /\ ~QueuesDirectly(i)
           /\ IF streamKnown /\ active = None
              THEN PumpFrom(Append(pending, i))
              ELSE /\ pending' = Append(pending, i)
                   /\ NoError /\ UNCHANGED <<active, reserved>>
           /\ Arms(deadlineTimer)
           /\ UNCHANGED queueVars
  <2> DEFINE p == Append(pending, i)
  <2>1. /\ p \in Seq(Steerable) /\ WaitIn(p)
    BY <1>0, <1>1, <1>7, OfferLine DEF QueuesDirectly
  <2>2. UNCHANGED <<loopPending, fallback, fallbackBarrier>>
    BY <1>7 DEF queueVars
  <2>3. /\ SlotTypeOK' /\ WaitingInv'
        /\ NoError \/ Fail
        /\ \/ active' = active /\ reserved' = reserved
           \/ FillsSlot /\ active = None
    <3>1. CASE PumpFrom(p) /\ active = None
      BY <1>0, <2>1, <2>2, <3>1, PumpFacts DEF Core
    <3>2. CASE pending' = p /\ NoError /\ UNCHANGED <<active, reserved>>
      BY <1>0, <2>1, <2>2, <3>2 DEF Core, CoreTypeOK, SlotTypeOK, WaitIn, WaitingInv
    <3> QED BY <1>7, <3>1, <3>2
  <2>4. ErrorTypeOK' /\ (fault' => failed') /\ (fault => fault')
    BY <1>0, <2>3, ErrorsStay DEF Core, CoreTypeOK
  <2>5. CoreTypeOK'
    BY <1>0, <1>1, <1>2, <2>2, <2>3, <2>4 DEF Core, CoreTypeOK, QueueTypeOK, VerdictTypeOK
  <2>6. VerdictInv'
    BY <1>0, <1>2, <2>2, <2>3, <2>4
       DEF Core, VerdictInv, DispositionOnce, FoldedBeforeInjected, FillsSlot
  <2>7. Core'
    <3>0. /\ active # None => active \in reserved
          /\ OneInFlight /\ resolved \subseteq reserved /\ resolved' = resolved
          /\ None \notin reserved
      BY <1>0, <1>2, InputsAssumption DEF Core, CoreTypeOK, SlotTypeOK
    <3>1. /\ active' # None => active' \in reserved'
          /\ OneInFlight' /\ resolved' \subseteq reserved'
      <4>1. CASE active' = active /\ reserved' = reserved
        BY <3>0, <4>1 DEF OneInFlight
      <4>2. CASE FillsSlot /\ active = None
        BY <3>0, <4>2 DEF OneInFlight, FillsSlot
      <4> QED BY <2>3, <4>1, <4>2
    <3> QED BY <2>3, <2>4, <2>5, <2>6, <3>1 DEF Core
  <2>8. deadlineTimer' \in Clock
    BY <1>0, <1>7 DEF Arms, RestTypeOK, Clock
  <2> QED BY <1>0, <1>1, <1>2, <2>7, <2>8, LiveJoin DEF RestTypeOK
<1> QED BY <1>5, <1>6, <1>7 DEF Offer

(* The next request is reserved once the slot is free or its attempt has a
   verdict. *)
LEMMA PumpKeepsCore ==
  ASSUME Core, active = None \/ active \in resolved, PumpFrom(pending),
         UNCHANGED <<ticket, queueVars, verdictVars>>
  PROVE  Core'
<1>1. /\ UNCHANGED <<loopPending, fallback, fallbackBarrier, ticket>>
      /\ UNCHANGED <<folded, injected, unknown, untrackable, resolved, disabled>>
  BY DEF queueVars, verdictVars
<1>2. WaitIn(pending) /\ pending \in Seq(Steerable)
  BY <1>1 DEF Core, CoreTypeOK, SlotTypeOK, WaitingInv, WaitIn
<1>3. /\ SlotTypeOK' /\ WaitingInv'
      /\ NoError \/ Fail
      /\ \/ active' = None /\ reserved' = reserved
         \/ FillsSlot
  BY <1>1, <1>2, PumpFacts DEF Core
<1>4. ErrorTypeOK' /\ (fault' => failed') /\ (fault => fault')
  BY <1>3, ErrorsStay DEF Core, CoreTypeOK
<1>5. CoreTypeOK'
  BY <1>1, <1>3, <1>4 DEF Core, CoreTypeOK, QueueTypeOK, VerdictTypeOK
<1>6. VerdictInv'
  BY <1>1, <1>3, <1>4
     DEF Core, VerdictInv, DispositionOnce, FoldedBeforeInjected, FillsSlot
<1>7. reserved \subseteq resolved /\ resolved \subseteq reserved
  BY InputsAssumption DEF Core, OneInFlight, CoreTypeOK, SlotTypeOK
<1> QED BY <1>1, <1>3, <1>4, <1>5, <1>6, <1>7 DEF Core, OneInFlight, FillsSlot

(* The waiting requests are queued without a verdict. *)
LEMMA QueueKeepsCore ==
  ASSUME Core, NEW n \in Tries, QueuePending(n), UNCHANGED <<ticket, reserved>>,
         UNCHANGED <<folded, injected, unknown, untrackable, resolved, disabled>>,
         active' = active \/ (active' = None /\ active \in resolved \cup {None}),
         NoError \/ Fail \/ ReturnError
  PROVE  Core'
<1>1. /\ UNCHANGED <<ticket, reserved>>
      /\ UNCHANGED <<folded, injected, unknown, untrackable, resolved, disabled>>
  OBVIOUS
<1>2. /\ QueueTypeOK' /\ pending' \in Seq(Steerable) /\ WaitingInv'
      /\ fallback' \cap reserved = fallback \cap reserved
      /\ fallback \subseteq fallback'
      /\ fallback' # {} => fallback # {} \/ fallbackBarrier'
  BY <1>1, QueuePendingFacts DEF Core
<1>3. fallbackBarrier => fallbackBarrier'
  BY DEF QueuePending
<1>4. ErrorTypeOK' /\ (fault' => failed') /\ (fault => fault')
  BY ErrorsStay DEF Core, CoreTypeOK
<1>5. CoreTypeOK'
  BY <1>1, <1>2, <1>4 DEF Core, CoreTypeOK, SlotTypeOK, VerdictTypeOK
<1>6. VerdictInv'
  <2>1. resolved' = (injected \cup unknown \cup untrackable \cup (fallback \cap reserved))'
    BY <1>1, <1>2 DEF Core, VerdictInv
  <2>2. DispositionOnce'
    BY <1>1, <1>2 DEF Core, CoreTypeOK, VerdictTypeOK, VerdictInv, DispositionOnce
  <2>3. FoldedBeforeInjected'
    BY <1>1, <1>4 DEF Core, VerdictInv, FoldedBeforeInjected
  <2> QED BY <1>1, <1>2, <1>3, <1>4, <2>1, <2>2, <2>3 DEF Core, VerdictInv
<1>7. OneInFlight' /\ (active' # None => active' \in reserved')
  BY <1>1, InputsAssumption DEF Core, OneInFlight, CoreTypeOK, SlotTypeOK
<1> QED BY <1>1, <1>2, <1>4, <1>5, <1>6, <1>7 DEF Core

LEMMA SetStreamInv ==
  ASSUME IInv, NEW isOrdered \in BOOLEAN, SetStream(isOrdered)
  PROVE  IInv'
<1>0. Live /\ Core /\ RestTypeOK
  BY InvSplit DEF SetStream, Live
<1>1. /\ UNCHANGED <<accepted, ticket, timer, verdictVars, retracted, terminal, stage>>
      /\ UNCHANGED <<done, seen, deadlineExpired, result>>
      /\ streamKnown' \in BOOLEAN /\ ordered' \in BOOLEAN
  BY DEF SetStream, acceptVars, attemptVars
<1>2. CASE /\ \E n \in Tries :
                /\ QueuePending(n)
                /\ IF n = Len(pending) THEN NoError ELSE Fail
           /\ UNCHANGED <<deadlineTimer, active, reserved>>
  <2> PICK n \in Tries : QueuePending(n) /\ (NoError \/ Fail)
    BY <1>2
  <2>0. /\ active' = active /\ UNCHANGED <<ticket, reserved>>
        /\ UNCHANGED <<folded, injected, unknown, untrackable, resolved, disabled>>
    BY <1>1, <1>2 DEF verdictVars
  <2>1. /\ active' = active \/ (active' = None /\ active \in resolved \cup {None})
        /\ NoError \/ Fail \/ ReturnError
    BY <2>0
  <2>2. Core'
    BY <1>0, <2>0, <2>1, QueueKeepsCore
  <2> QED BY <1>0, <1>1, <1>2, <2>2, LiveJoin DEF RestTypeOK
<1>3. CASE /\ active = None /\ PumpFrom(pending)
           /\ Arms(deadlineTimer)
           /\ UNCHANGED queueVars
  <2>1. Core'
    BY <1>0, <1>1, <1>3, PumpKeepsCore
  <2>2. deadlineTimer' \in Clock
    BY <1>0, <1>3 DEF Arms, RestTypeOK, Clock
  <2> QED BY <1>0, <1>1, <2>1, <2>2, LiveJoin DEF RestTypeOK
<1> QED BY <1>2, <1>3 DEF SetStream

LEMMA ObserveSteerInv ==
  ASSUME IInv, NEW r \in Results, ObserveSteer(r)
  PROVE  IInv'
<1>0. Live /\ Core /\ RestTypeOK /\ Unresolved
  BY InvSplit DEF ObserveSteer, Live
<1>1. /\ UNCHANGED <<accepted, ticket, ordered, streamKnown>>
      /\ UNCHANGED <<done, deadlineExpired, retracted, terminal, stage>>
      /\ seen' = seen \cup {active} /\ result' = [result EXCEPT ![active] = r]
  BY DEF ObserveSteer, acceptVars, streamVars
<1>2. Core'
  BY <1>0, <1>1, VerdictKeepsCore DEF ObserveSteer
<1>3. timer' \in Clock /\ deadlineTimer' \in Clock
  BY <1>0, ClockTypes DEF ObserveSteer, RestTypeOK
<1>4. active \in Steerable
  BY <1>0, UnresolvedFacts
<1>5. RestTypeOK'
  BY <1>0, <1>1, <1>3, <1>4 DEF RestTypeOK
<1> QED BY <1>0, <1>1, <1>2, <1>5, LiveJoin

LEMMA CompleteInv ==
  ASSUME IInv, NEW a \in Steerable, NEW r \in Results, Complete(a, r)
  PROVE  IInv'
<1>0. Live /\ Core /\ RestTypeOK /\ a = active /\ active # None
  BY InvSplit DEF Complete, Live
<1>1. /\ UNCHANGED <<accepted, ticket, ordered, streamKnown>>
      /\ UNCHANGED <<seen, deadlineExpired, retracted, terminal, stage>>
      /\ done' = done \cup {a} /\ result' = [result EXCEPT ![a] = r]
  BY DEF Complete, acceptVars, streamVars
<1>2. CASE UNCHANGED <<queueVars, clockVars, slotVars, verdictVars, errorVars>>
  <2>1. /\ UNCHANGED <<loopPending, fallback, fallbackBarrier, active, pending, reserved>>
        /\ UNCHANGED <<folded, injected, unknown, untrackable, resolved, disabled>>
        /\ UNCHANGED <<timer, deadlineTimer>> /\ fault' = fault /\ failed' = failed
    BY <1>2 DEF queueVars, clockVars, slotVars, verdictVars, errorVars
  <2>2. Core'
    BY <1>0, <1>1, <2>1
       DEF Core, CoreTypeOK, QueueTypeOK, SlotTypeOK, VerdictTypeOK, ErrorTypeOK,
           WaitingInv, VerdictInv, DispositionOnce, FoldedBeforeInjected, OneInFlight
  <2> QED BY <1>0, <1>1, <2>1, <2>2, LiveJoin DEF RestTypeOK
<1>3. CASE a \notin resolved /\ Adjudicate(a, r) /\ Clocks(timer, deadlineTimer)
  <2>1. Core'
    BY <1>0, <1>1, <1>3, VerdictKeepsCore DEF Unresolved
  <2>2. timer' \in Clock /\ deadlineTimer' \in Clock
    BY <1>0, <1>3, ClockTypes DEF RestTypeOK
  <2> QED BY <1>0, <1>1, <2>1, <2>2, LiveJoin DEF RestTypeOK
<1>4. CASE /\ a \in resolved /\ PumpFrom(pending) /\ Clocks(timer, deadlineTimer)
           /\ UNCHANGED <<queueVars, verdictVars>>
  <2>1. Core'
    BY <1>0, <1>1, <1>4, PumpKeepsCore
  <2>2. timer' \in Clock /\ deadlineTimer' \in Clock
    BY <1>0, <1>4, ClockTypes DEF RestTypeOK
  <2> QED BY <1>0, <1>1, <2>1, <2>2, LiveJoin DEF RestTypeOK
<1> QED BY <1>2, <1>3, <1>4 DEF Complete

LEMMA MarkTerminalInv ==
  ASSUME IInv, MarkTerminal
  PROVE  IInv'
<1>0. Live /\ Core /\ RestTypeOK
  BY InvSplit DEF MarkTerminal, Live
<1>1. /\ UNCHANGED <<accepted, ticket, ordered, streamKnown>>
      /\ UNCHANGED <<done, seen, deadlineExpired, result, retracted, stage>>
      /\ terminal' = TRUE
  BY DEF MarkTerminal, acceptVars, streamVars, attemptVars
<1>2. CASE /\ Unresolved /\ Adjudicate(active, result[active])
           /\ Clocks(timer, deadlineTimer)
  <2>1. Core'
    BY <1>0, <1>1, <1>2, VerdictKeepsCore
  <2>2. timer' \in Clock /\ deadlineTimer' \in Clock
    BY <1>0, <1>2, ClockTypes DEF RestTypeOK
  <2> QED BY <1>0, <1>1, <2>1, <2>2, LiveJoin DEF RestTypeOK
<1>3. CASE /\ timer' = IF Unresolved /\ timer = "off" THEN "armed" ELSE timer
           /\ \E n \in Tries :
                /\ QueuePending(n)
                /\ IF n = Len(pending) THEN NoError ELSE ReturnError
           /\ UNCHANGED <<deadlineTimer, active, reserved, verdictVars>>
  <2> PICK n \in Tries : QueuePending(n) /\ (NoError \/ ReturnError)
    BY <1>3
  <2>0. /\ active' = active /\ UNCHANGED <<ticket, reserved>>
        /\ UNCHANGED <<folded, injected, unknown, untrackable, resolved, disabled>>
    BY <1>1, <1>3 DEF verdictVars
  <2>1. /\ active' = active \/ (active' = None /\ active \in resolved \cup {None})
        /\ NoError \/ Fail \/ ReturnError
    BY <2>0
  <2>2. Core'
    BY <1>0, <2>0, <2>1, QueueKeepsCore
  <2>3. timer' \in Clock
    BY <1>0, <1>3 DEF RestTypeOK, Clock
  <2> QED BY <1>0, <1>1, <1>3, <2>2, <2>3, LiveJoin DEF RestTypeOK
<1> QED BY <1>2, <1>3 DEF MarkTerminal

LEMMA TimeoutInv ==
  ASSUME IInv, Timeout
  PROVE  IInv'
<1>0. Live /\ Core /\ RestTypeOK /\ Unresolved
  BY InvSplit DEF Timeout, Live
<1>1. /\ UNCHANGED <<accepted, ticket, ordered, streamKnown>>
      /\ UNCHANGED <<done, seen, deadlineExpired, result, retracted, terminal, stage>>
  BY DEF Timeout, acceptVars, streamVars, attemptVars
<1>2. Core'
  BY <1>0, <1>1, UnknownKeepsCore DEF Timeout
<1>3. "off" \in Clock
  BY DEF Clock
<1>4. timer' \in Clock /\ deadlineTimer' \in Clock
  BY <1>0, <1>3, ClockTypes DEF Timeout, RestTypeOK
<1> QED BY <1>0, <1>1, <1>2, <1>4, LiveJoin DEF RestTypeOK

LEMMA DeadlineTimeoutInv ==
  ASSUME IInv, DeadlineTimeout
  PROVE  IInv'
<1>0. Live /\ Core /\ RestTypeOK /\ active # None
  BY InvSplit DEF DeadlineTimeout, Live
<1>1. /\ UNCHANGED <<accepted, ticket, ordered, streamKnown>>
      /\ UNCHANGED <<done, seen, result, retracted, terminal, stage>>
      /\ deadlineExpired' = deadlineExpired \cup {active}
  BY DEF DeadlineTimeout, acceptVars, streamVars
<1>2. Core'
  <2>1. CASE active \notin resolved /\ ResolveUnknown(active)
    BY <1>0, <1>1, <2>1, UnknownKeepsCore DEF Unresolved
  <2>2. CASE /\ active \in resolved /\ PumpFrom(pending)
             /\ UNCHANGED <<queueVars, verdictVars>>
    BY <1>0, <1>1, <2>2, PumpKeepsCore
  <2> QED BY <2>1, <2>2 DEF DeadlineTimeout
<1>3. "off" \in Clock
  BY DEF Clock
<1>4. timer' \in Clock /\ deadlineTimer' \in Clock
  BY <1>0, <1>3, ClockTypes DEF DeadlineTimeout, RestTypeOK
<1>5. active \in Steerable
  BY <1>0 DEF Core, CoreTypeOK, SlotTypeOK
<1> QED BY <1>0, <1>1, <1>2, <1>4, <1>5, LiveJoin DEF RestTypeOK

(* A step that touches nothing but l.pending, the clocks and what was
   retracted. *)
LEMMA QueueStepInv ==
  ASSUME IInv, loopPending' \in Seq(Inputs), retracted' \subseteq Inputs,
         timer' \in Clock, deadlineTimer' \in Clock,
         UNCHANGED <<acceptVars, fallback, fallbackBarrier, streamVars, attemptVars,
                     slotVars, verdictVars, errorVars, terminal, stage>>
  PROVE  IInv'
<1>1. /\ UNCHANGED <<accepted, ticket, ordered, streamKnown>>
      /\ UNCHANGED <<done, seen, deadlineExpired, result, terminal, stage>>
      /\ UNCHANGED <<fallback, fallbackBarrier, active, pending, reserved>>
      /\ UNCHANGED <<folded, injected, unknown, untrackable, resolved, disabled>>
      /\ fault' = fault /\ failed' = failed
  BY DEF acceptVars, streamVars, attemptVars, slotVars, verdictVars, errorVars
<1>2. TypeOK'
  BY <1>1 DEF IInv, TypeOK, QueueTypeOK, SlotTypeOK, VerdictTypeOK, ErrorTypeOK
<1>3. WaitingInv' /\ SlotInv'
  BY <1>1 DEF IInv, WaitingInv, SlotInv
<1>4. VerdictInv' /\ StageInv'
  BY <1>1 DEF IInv, VerdictInv, StageInv, DispositionOnce, FoldedBeforeInjected
<1> QED BY <1>2, <1>3, <1>4 DEF IInv

LEMMA TickInv ==
  ASSUME IInv, Tick
  PROVE  IInv'
<1>1. loopPending \in Seq(Inputs) /\ retracted \subseteq Inputs
  BY DEF IInv, TypeOK, QueueTypeOK
<1>2. timer' \in Clock /\ deadlineTimer' \in Clock
  BY DEF IInv, TypeOK, Tick, Clock
<1>3. UNCHANGED <<loopPending, fallback, fallbackBarrier>>
  BY DEF Tick, queueVars
<1> QED BY <1>1, <1>2, <1>3, QueueStepInv DEF Tick

LEMMA CancelQueuedInv ==
  ASSUME IInv, NEW k \in 1..Len(loopPending), CancelQueued(k)
  PROVE  IInv'
<1>1. loopPending \in Seq(Inputs) /\ retracted \subseteq Inputs
  BY DEF IInv, TypeOK, QueueTypeOK
<1>2. /\ SubSeq(loopPending, 1, k - 1) \in Seq(Inputs)
      /\ SubSeq(loopPending, k + 1, Len(loopPending)) \in Seq(Inputs)
      /\ loopPending[k] \in Inputs
  BY <1>1
<1>3. loopPending' \in Seq(Inputs) /\ retracted' \subseteq Inputs
  BY <1>1, <1>2 DEF CancelQueued
<1>4. timer' \in Clock /\ deadlineTimer' \in Clock
  BY DEF IInv, TypeOK, CancelQueued, clockVars
<1> QED BY <1>3, <1>4, QueueStepInv DEF CancelQueued

LEMMA FlushInv ==
  ASSUME IInv, NEW n \in 1..Len(loopPending), Flush(n)
  PROVE  IInv'
<1>1. loopPending \in Seq(Inputs) /\ retracted \subseteq Inputs
  BY DEF IInv, TypeOK, QueueTypeOK
<1>2. /\ SubSeq(loopPending, n + 1, Len(loopPending)) \in Seq(Inputs)
      /\ {loopPending[k] : k \in 1..n} \subseteq Inputs
  BY <1>1
<1>3. loopPending' \in Seq(Inputs) /\ retracted' \subseteq Inputs
  BY <1>1, <1>2 DEF Flush
<1>4. timer' \in Clock /\ deadlineTimer' \in Clock
  BY DEF IInv, TypeOK, Flush, clockVars
<1> QED BY <1>3, <1>4, QueueStepInv DEF Flush

LEMMA ShutdownInv ==
  ASSUME IInv, Shutdown
  PROVE  IInv'
<1>0. Core /\ RestTypeOK /\ stage # "left"
  BY InvSplit DEF Shutdown
<1>1. /\ UNCHANGED <<accepted, ticket, ordered, streamKnown>>
      /\ UNCHANGED <<done, seen, result, retracted>>
      /\ terminal' = TRUE /\ stage' = "finalized"
      /\ deadlineExpired' = IF active = None THEN deadlineExpired
                                             ELSE deadlineExpired \cup {active}
  BY DEF Shutdown, acceptVars, streamVars
<1>2. timer' \in Clock /\ deadlineTimer' \in Clock
  BY <1>0, ClockTypes DEF Shutdown, RestTypeOK
<1>3. active \in Steerable \cup {None}
  BY <1>0 DEF Core, CoreTypeOK, SlotTypeOK
<1>4. RestTypeOK'
  BY <1>0, <1>1, <1>2, <1>3 DEF RestTypeOK
<1>5. CASE Unresolved /\ ResolveUnknown(active)
  <2>1. Core'
    BY <1>0, <1>1, <1>5, UnknownKeepsCore
  <2>2. ~fault' => active' = None
    <3>1. ResolveUnknown(active) => fault' = TRUE \/ Vacate(active)
      BY DEF ResolveUnknown, Fail
    <3>2. active \in deadlineExpired'
      BY <1>1, <1>5 DEF Unresolved
    <3> QED BY <1>5, <3>1, <3>2 DEF Vacate, Retires
  <2>3. StageInv'
    BY <1>1, <2>1, <2>2 DEF StageInv, Core
  <2> QED BY <1>4, <2>1, <2>3, InvJoin
<1>6. CASE /\ active \in resolved /\ active' = None
           /\ Fail /\ UNCHANGED <<queueVars, pending, reserved, verdictVars>>
  <2>1. /\ UNCHANGED <<loopPending, fallback, fallbackBarrier, pending, reserved>>
        /\ UNCHANGED <<folded, injected, unknown, untrackable, resolved, disabled>>
        /\ fault' = TRUE /\ failed' = TRUE
    BY <1>6 DEF queueVars, verdictVars, Fail
  <2>2. CoreTypeOK'
    BY <1>0, <1>1, <1>6, <2>1
       DEF Core, CoreTypeOK, QueueTypeOK, SlotTypeOK, VerdictTypeOK, ErrorTypeOK
  <2>3. WaitingInv' /\ VerdictInv'
    BY <1>0, <1>1, <2>1
       DEF Core, WaitingInv, VerdictInv, DispositionOnce, FoldedBeforeInjected
  <2>4. Core'
    BY <1>0, <1>6, <2>1, <2>2, <2>3 DEF Core, OneInFlight
  <2>5. StageInv'
    BY <1>1, <2>1 DEF StageInv
  <2> QED BY <1>4, <2>4, <2>5, InvJoin
<1>7. CASE /\ ~Unresolved /\ active' = None
           /\ \E n \in Tries :
                /\ QueuePending(n)
                /\ IF n = Len(pending) THEN NoError ELSE ReturnError
           /\ UNCHANGED <<reserved, verdictVars>>
  <2> PICK n \in Tries : QueuePending(n) /\ (NoError \/ ReturnError)
    BY <1>7
  <2>1. active \in resolved \cup {None}
    BY <1>7 DEF Unresolved
  <2>4. /\ UNCHANGED <<ticket, reserved>>
        /\ UNCHANGED <<folded, injected, unknown, untrackable, resolved, disabled>>
    BY <1>1, <1>7 DEF verdictVars
  <2>2. Core'
    BY <1>0, <1>7, <2>1, <2>4, QueueKeepsCore
  <2>3. StageInv'
    BY <1>1, <1>7, <2>2 DEF StageInv, Core
  <2> QED BY <1>4, <2>2, <2>3, InvJoin
<1> QED BY <1>5, <1>6, <1>7 DEF Shutdown

LEMMA CleanupInv ==
  ASSUME IInv, Cleanup
  PROVE  IInv'
<1>1. /\ UNCHANGED <<accepted, ticket, ordered, streamKnown, loopPending>>
      /\ UNCHANGED <<done, seen, deadlineExpired, result, retracted, terminal>>
      /\ UNCHANGED <<fallback, fallbackBarrier, reserved>>
      /\ UNCHANGED <<folded, injected, unknown, untrackable, resolved, disabled>>
      /\ fault' = fault /\ failed' = failed
      /\ active' = None /\ pending' = <<>> /\ timer' = "off" /\ deadlineTimer' = "off"
      /\ stage = "finalized" /\ stage' = "left"
  BY DEF Cleanup, acceptVars, queueVars, streamVars, attemptVars, verdictVars, errorVars
<1>2. TypeOK'
  BY <1>1 DEF IInv, TypeOK, QueueTypeOK, SlotTypeOK, VerdictTypeOK, ErrorTypeOK, Clock
<1>3. WaitingInv'
  BY <1>1 DEF IInv, WaitingInv
<1>4. SlotInv'
  BY <1>1 DEF IInv, SlotInv, StageInv
<1>5. VerdictInv' /\ StageInv'
  BY <1>1 DEF IInv, VerdictInv, StageInv, DispositionOnce, FoldedBeforeInjected
<1> QED BY <1>2, <1>3, <1>4, <1>5 DEF IInv
-----------------------------------------------------------------------------
LEMMA InitInv ==
  ASSUME Init
  PROVE  IInv
<1>1. ticket \in [Inputs -> Nat] /\ accepted \in Nat /\ loopPending \in Seq(Inputs)
  <2>1. Len(Backlog) \in Nat
    BY BacklogAssumption
  <2>2. 0..Len(Backlog) \subseteq Nat
    BY <2>1
  <2>3. ticket \in [Inputs -> 0..Len(Backlog)]
    BY DEF Init
  <2>4. ticket \in [Inputs -> Nat]
    BY <2>2, <2>3
  <2> QED BY <2>1, <2>4, BacklogAssumption DEF Init
<1>2. result \in [Inputs -> Results]
  BY DEF Init, Results
<1>3. TypeOK
  <2>1. QueueTypeOK /\ VerdictTypeOK /\ ErrorTypeOK
    BY <1>1 DEF Init, QueueTypeOK, VerdictTypeOK, ErrorTypeOK
  <2>2. SlotTypeOK
    BY DEF Init, SlotTypeOK
  <2>3. /\ ordered \in BOOLEAN /\ streamKnown \in BOOLEAN
        /\ timer \in Clock /\ deadlineTimer \in Clock
        /\ done \subseteq Steerable /\ seen \subseteq Steerable
        /\ deadlineExpired \subseteq Steerable
        /\ retracted \subseteq Inputs /\ terminal \in BOOLEAN
        /\ stage \in {"running", "finalized", "left"}
    BY DEF Init, Clock
  <2> QED BY <1>1, <1>2, <2>1, <2>2, <2>3 DEF TypeOK
<1>4. WaitingInv /\ SlotInv
  BY DEF Init, WaitingInv, SlotInv
<1>5. VerdictInv /\ StageInv
  BY DEF Init, VerdictInv, StageInv, DispositionOnce, FoldedBeforeInjected
<1> QED BY <1>3, <1>4, <1>5 DEF IInv

LEMMA StutterInv ==
  ASSUME IInv, UNCHANGED mvars
  PROVE  IInv'
<1>1. loopPending \in Seq(Inputs) /\ retracted \subseteq Inputs
  BY DEF IInv, TypeOK, QueueTypeOK
<1>2. timer' \in Clock /\ deadlineTimer' \in Clock
  BY DEF IInv, TypeOK, mvars, clockVars
<1>3. UNCHANGED <<loopPending, fallback, fallbackBarrier>>
  BY DEF mvars, queueVars
<1>4. UNCHANGED <<acceptVars, fallback, fallbackBarrier, streamVars, attemptVars,
                  slotVars, verdictVars, errorVars, terminal, stage>>
  BY <1>3 DEF mvars
<1>5. loopPending' \in Seq(Inputs) /\ retracted' \subseteq Inputs
  BY <1>1, <1>3 DEF mvars
<1> QED BY <1>2, <1>4, <1>5, QueueStepInv

LEMMA StepInv ==
  ASSUME IInv, [MachineNext]_mvars
  PROVE  IInv'
<1>1. ASSUME NEW i \in Inputs, Offer(i)
      PROVE  IInv'
  BY <1>1, OfferInv
<1>2. ASSUME NEW isOrdered \in BOOLEAN, SetStream(isOrdered)
      PROVE  IInv'
  BY <1>2, SetStreamInv
<1>3. ASSUME NEW r \in Results, ObserveSteer(r)
      PROVE  IInv'
  BY <1>3, ObserveSteerInv
<1>4. ASSUME NEW a \in Steerable, NEW r \in Results, Complete(a, r)
      PROVE  IInv'
  BY <1>4, CompleteInv
<1>5. CASE MarkTerminal
  BY <1>5, MarkTerminalInv
<1>6. CASE Timeout
  BY <1>6, TimeoutInv
<1>7. CASE DeadlineTimeout
  BY <1>7, DeadlineTimeoutInv
<1>8. CASE Tick
  BY <1>8, TickInv
<1>9. ASSUME NEW k \in 1..Len(loopPending), CancelQueued(k) \/ Flush(k)
      PROVE  IInv'
  BY <1>9, CancelQueuedInv, FlushInv
<1>10. CASE Shutdown
  BY <1>10, ShutdownInv
<1>11. CASE Cleanup
  BY <1>11, CleanupInv
<1>12. CASE UNCHANGED mvars
  BY <1>12, StutterInv
<1> QED
  BY <1>1, <1>2, <1>3, <1>4, <1>5, <1>6, <1>7, <1>8, <1>9, <1>10, <1>11, <1>12
     DEF MachineNext

(* The inductive invariant holds in every reachable state of the machine. *)
THEOREM InductiveInvariant == MachineSpec => []IInv
<1>1. Init => IInv
  BY InitInv
<1>2. IInv /\ [MachineNext]_mvars => IInv'
  BY StepInv
<1> QED BY <1>1, <1>2, PTL DEF MachineSpec

(* Every variable keeps its type, whatever the requests, the backlog and the
   order of events. *)
THEOREM TypeInvariant == MachineSpec => []TypeOK
<1>1. IInv => TypeOK
  BY DEF IInv
<1> QED BY <1>1, InductiveInvariant, PTL

(* resolveDisposition, queueFallback: the delivery hook never hears two
   verdicts about one request. *)
THEOREM OneDisposition == MachineSpec => []DispositionOnce
<1>1. IInv => DispositionOnce
  BY DEF IInv, VerdictInv
<1> QED BY <1>1, InductiveInvariant, PTL

(* resolveDisposition: no injection is recorded before its fold is published,
   and only a fault leaves a fold without its injection. *)
THEOREM FoldFirst == MachineSpec => []FoldedBeforeInjected
<1>1. IInv => FoldedBeforeInjected
  BY DEF IInv, VerdictInv
<1> QED BY <1>1, InductiveInvariant, PTL

(* shutdown and cleanup: the machine leaves no reservation open behind it
   unless a hook call or a checked publication failed. *)
THEOREM NoReservationLeftOpen == MachineSpec => []ReservationsSettled
<1>1. IInv => ReservationsSettled
  <2> SUFFICES ASSUME IInv, stage = "left", ~fault
               PROVE  reserved \subseteq injected \cup unknown \cup fallback
    BY DEF ReservationsSettled
  <2>1. active = None /\ None \notin reserved
    BY InputsAssumption DEF IInv, StageInv, TypeOK, SlotTypeOK
  <2>2. reserved \subseteq resolved
    BY <2>1 DEF IInv, SlotInv
  <2>3. resolved \subseteq injected \cup unknown \cup fallback
    BY DEF IInv, VerdictInv
  <2> QED BY <2>2, <2>3
<1> QED BY <1>1, InductiveInvariant, PTL

-----------------------------------------------------------------------------
(***************************************************************************)
(* The refinement: what a step of the machine tells the delivery hook.     *)
(***************************************************************************)
hookVars == <<reserved, injected, unknown, untrackable, fallback>>

(* Requests the hook has not heard of. *)
Unheard == {r \in Delegates : r \notin reserved \cup fallback}

(* The shapes a step can have for the hook, as the actions of Delivery. *)
Reserves == FillsSlot /\ reserved \subseteq resolved
            /\ UNCHANGED <<injected, unknown, untrackable, fallback>>
InjectsAndReserves ==
  /\ FillsSlot /\ Unresolved
  /\ injected' = injected \cup {active} /\ UNCHANGED <<unknown, untrackable, fallback>>
Diverts(Q) == fallback' = fallback \cup Q /\ UNCHANGED <<reserved, injected, unknown, untrackable>>
Settles(Q) ==
  /\ Unresolved /\ UNCHANGED reserved
  /\ \/ /\ injected' = injected \cup {active} /\ fallback' = fallback \cup Q
        /\ UNCHANGED <<unknown, untrackable>>
     \/ /\ unknown' = unknown \cup {active} /\ fallback' = fallback \cup Q
        /\ UNCHANGED <<injected, untrackable>>
     \/ /\ untrackable' = untrackable \cup {active} /\ fallback' = fallback \cup Q
        /\ UNCHANGED <<injected, unknown>>
     \/ /\ fallback' = fallback \cup {active} \cup Q
        /\ UNCHANGED <<injected, unknown, untrackable>>

HookEffect ==
  \/ Reserves
  \/ InjectsAndReserves
  \/ \E Q \in SUBSET Unheard : Diverts(Q) \/ Settles(Q)

LEMMA QuietEffect == ASSUME UNCHANGED hookVars PROVE HookEffect
<1>1. Diverts({})
  BY DEF Diverts, hookVars
<1> QED BY <1>1 DEF HookEffect

LEMMA PumpEffect ==
  ASSUME NEW p \in Seq(Steerable), PumpFrom(p),
         \A k \in 1..Len(p) : p[k] \notin reserved \cup fallback
  PROVE  reserved' = reserved \/ FillsSlot
<1>1. CASE CanPump(p) /\ active' = Head(p) /\ reserved' = reserved \cup {Head(p)}
  <2>1. Head(p) \in Steerable /\ Head(p) \notin reserved \cup fallback
    BY <1>1 DEF CanPump
  <2> QED BY <1>1, <2>1 DEF FillsSlot, CanPump
<1>2. CASE reserved' = reserved
  BY <1>2
<1> QED BY <1>1, <1>2 DEF PumpFrom

(* The waiting requests are unheard of. *)
LEMMA WaitingUnheard ==
  ASSUME CoreTypeOK, WaitingInv
  PROVE  /\ pending \in Seq(Steerable)
         /\ \A k \in 1..Len(pending) : pending[k] \notin reserved \cup fallback
         /\ \A n \in Tries : {pending[k] : k \in 1..n} \in SUBSET Unheard
<1>1. /\ pending \in Seq(Steerable)
      /\ \A k \in 1..Len(pending) : pending[k] \in Delegates /\ pending[k] \notin reserved \cup fallback
  BY InputsAssumption DEF CoreTypeOK, SlotTypeOK, WaitingInv
<1>2. ASSUME NEW n \in Tries PROVE {pending[k] : k \in 1..n} \in SUBSET Unheard
  <2>1. \A k \in 1..n : k \in 1..Len(pending)
    BY <1>1 DEF Tries
  <2> QED BY <1>1, <2>1 DEF Unheard
<1> QED BY <1>1, <1>2

LEMMA UnknownEffect ==
  ASSUME Core, Unresolved, ResolveUnknown(active)
  PROVE  HookEffect
<1>1. CASE UNCHANGED hookVars
  BY <1>1, QuietEffect
<1>2. ASSUME NEW n \in Tries, QueuePending(n), unknown' = unknown \cup {active},
             UNCHANGED <<reserved, injected, untrackable>>
      PROVE  HookEffect
  <2>1. Settles({pending[k] : k \in 1..n})
    BY <1>2 DEF Settles, QueuePending
  <2> QED BY <1>2, <2>1, WaitingUnheard DEF HookEffect, Core
<1> QED BY <1>1, <1>2 DEF ResolveUnknown, hookVars, queueVars

LEMMA InjectedEffect ==
  ASSUME Core, Unresolved, ResolveInjected(active)
  PROVE  HookEffect
<1>1. CASE UNCHANGED hookVars
  BY <1>1, QuietEffect
<1>2. ASSUME injected' = injected \cup {active}, UNCHANGED <<unknown, untrackable>>,
             NEW Q \in SUBSET Unheard, fallback' = fallback \cup Q, UNCHANGED reserved
      PROVE  HookEffect
  <2>1. Settles(Q)
    BY <1>2 DEF Settles
  <2> QED BY <1>2, <2>1 DEF HookEffect
<1>6. ASSUME injected' = injected \cup {active},
             UNCHANGED <<unknown, untrackable, fallback, reserved>>
      PROVE  HookEffect
  <2>1. Settles({})
    BY <1>6 DEF Settles
  <2> QED BY <2>1 DEF HookEffect
<1>3. CASE /\ injected' = injected \cup {active} /\ UNCHANGED <<unknown, untrackable>>
           /\ UNCHANGED reserved /\ \E n \in Tries : QueuePending(n)
  BY <1>2, <1>3, WaitingUnheard DEF QueuePending, Core
<1>4. CASE /\ injected' = injected \cup {active} /\ UNCHANGED <<unknown, untrackable>>
           /\ PumpFrom(pending) /\ UNCHANGED queueVars
  <2>1. CASE reserved' = reserved
    BY <1>4, <1>6, <2>1 DEF queueVars
  <2>2. CASE FillsSlot
    BY <1>4, <2>2 DEF HookEffect, InjectsAndReserves, queueVars
  <2> QED BY <1>4, <2>1, <2>2, PumpEffect, WaitingUnheard DEF Core
<1>5. CASE /\ injected' = injected \cup {active} /\ UNCHANGED <<unknown, untrackable>>
           /\ UNCHANGED <<queueVars, slotVars>>
  BY <1>5, <1>6 DEF queueVars, slotVars
<1> QED BY <1>1, <1>3, <1>4, <1>5 DEF ResolveInjected, hookVars, queueVars, slotVars

LEMMA FallbackEffect ==
  ASSUME Core, Unresolved, ResolveFallback(active)
  PROVE  HookEffect
<1>1. CASE UNCHANGED hookVars
  BY <1>1, QuietEffect
<1>2. ASSUME NEW n \in Tries, UNCHANGED <<reserved, injected, unknown, untrackable>>,
             fallback' = fallback \cup {active} \cup {pending[k] : k \in 1..n}
      PROVE  HookEffect
  <2>1. Settles({pending[k] : k \in 1..n})
    BY <1>2 DEF Settles
  <2> QED BY <1>2, <2>1, WaitingUnheard DEF HookEffect, Core
<1> QED BY <1>1, <1>2 DEF ResolveFallback, hookVars

LEMMA UntrackableEffect ==
  ASSUME Core, Unresolved, ResolveUntrackable(active)
  PROVE  HookEffect
<1>1. CASE UNCHANGED hookVars
  BY <1>1, QuietEffect
<1>2. CASE /\ untrackable' = untrackable \cup {active}
           /\ UNCHANGED <<reserved, injected, unknown, fallback>>
  <2>1. Settles({})
    BY <1>2 DEF Settles
  <2> QED BY <2>1 DEF HookEffect
<1> QED BY <1>1, <1>2 DEF ResolveUntrackable, hookVars, queueVars, slotVars

LEMMA VerdictEffect ==
  ASSUME Core, Unresolved, NEW r, Adjudicate(active, r)
  PROVE  HookEffect
BY InjectedEffect, FallbackEffect, UnknownEffect, UntrackableEffect DEF Adjudicate

(* The next request is reserved when the one in the slot has its verdict. *)
LEMMA NextEffect ==
  ASSUME Core, active = None \/ active \in resolved, NEW p \in Seq(Steerable), PumpFrom(p),
         \A k \in 1..Len(p) : p[k] \notin reserved \cup fallback,
         UNCHANGED <<injected, unknown, untrackable, fallback>>
  PROVE  HookEffect
<1>1. CASE reserved' = reserved
  BY <1>1, QuietEffect DEF hookVars
<1>2. CASE FillsSlot
  <2>1. reserved \subseteq resolved
    BY InputsAssumption DEF Core, OneInFlight, CoreTypeOK, SlotTypeOK
  <2> QED BY <1>2, <2>1 DEF HookEffect, Reserves
<1> QED BY <1>1, <1>2, PumpEffect

(* The waiting requests are handed to the queue. *)
LEMMA QueueEffect ==
  ASSUME Core, NEW n \in Tries, QueuePending(n),
         UNCHANGED <<reserved, injected, unknown, untrackable>>
  PROVE  HookEffect
<1>1. Diverts({pending[k] : k \in 1..n})
  BY DEF Diverts, QueuePending
<1> QED BY <1>1, WaitingUnheard DEF HookEffect, Core

LEMMA OfferEffect ==
  ASSUME IInv, NEW i \in Inputs, Offer(i)
  PROVE  HookEffect
<1>0. Core
  BY InvSplit DEF Offer, Live
<1>1. /\ UNCHANGED <<injected, unknown, untrackable>>
      /\ i \notin reserved \cup fallback
  BY <1>0 DEF Offer, verdictVars, Accept, Core, WaitingInv
<1>2. CASE UNCHANGED <<reserved, fallback>>
  BY <1>1, <1>2, QuietEffect DEF hookVars
<1>3. CASE i \in Delegates /\ fallback' = fallback \cup {i} /\ UNCHANGED reserved
  <2>1. Diverts({i}) /\ {i} \in SUBSET Unheard
    BY <1>1, <1>3 DEF Diverts, Unheard
  <2> QED BY <2>1 DEF HookEffect
<1>4. CASE i \in Steerable /\ active = None /\ PumpFrom(Append(pending, i)) /\ UNCHANGED fallback
  <2> DEFINE p == Append(pending, i)
  <2>1. /\ p \in Seq(Steerable) /\ Len(p) = Len(pending) + 1 /\ Len(pending) \in Nat
        /\ \A k \in 1..Len(pending) : p[k] = pending[k]
        /\ p[Len(pending) + 1] = i
    BY <1>0, <1>4, AppendFacts DEF Core, CoreTypeOK, SlotTypeOK
  <2> HIDE DEF p
  <2>2. \A k \in 1..Len(p) : p[k] \notin reserved \cup fallback
    <3> TAKE k \in 1..Len(p)
    <3>1. k \in 1..Len(pending) \/ k = Len(pending) + 1
      BY <2>1
    <3> QED BY <1>0, <1>1, <2>1, <3>1 DEF Core, WaitingInv
  <2> QED BY <1>0, <1>1, <1>4, <2>1, <2>2, NextEffect DEF p
<1> QED BY <1>2, <1>3, <1>4 DEF Offer, slotVars, queueVars, QueuesDirectly

LEMMA SetStreamEffect ==
  ASSUME IInv, NEW isOrdered \in BOOLEAN, SetStream(isOrdered)
  PROVE  HookEffect
<1>0. Core
  BY InvSplit DEF SetStream, Live
<1>1. UNCHANGED <<injected, unknown, untrackable>>
  BY DEF SetStream, verdictVars
<1>2. CASE (\E n \in Tries : QueuePending(n)) /\ UNCHANGED reserved
  BY <1>0, <1>1, <1>2, QueueEffect
<1>3. CASE active = None /\ PumpFrom(pending) /\ UNCHANGED queueVars
  BY <1>0, <1>1, <1>3, NextEffect, WaitingUnheard DEF Core, queueVars
<1> QED BY <1>2, <1>3 DEF SetStream

LEMMA CompleteEffect ==
  ASSUME IInv, NEW a \in Steerable, NEW r \in Results, Complete(a, r)
  PROVE  HookEffect
<1>0. Core /\ a = active /\ active # None
  BY InvSplit DEF Complete, Live
<1>1. CASE UNCHANGED <<queueVars, slotVars, verdictVars>>
  BY <1>1, QuietEffect DEF hookVars, queueVars, slotVars, verdictVars
<1>2. CASE a \notin resolved /\ Adjudicate(a, r)
  BY <1>0, <1>2, VerdictEffect DEF Unresolved
<1>3. CASE a \in resolved /\ PumpFrom(pending) /\ UNCHANGED <<queueVars, verdictVars>>
  BY <1>0, <1>3, NextEffect, WaitingUnheard DEF Core, queueVars, verdictVars
<1> QED BY <1>1, <1>2, <1>3 DEF Complete

LEMMA MarkTerminalEffect ==
  ASSUME IInv, MarkTerminal
  PROVE  HookEffect
<1>0. Core
  BY InvSplit DEF MarkTerminal, Live
<1>1. CASE Unresolved /\ Adjudicate(active, result[active])
  BY <1>0, <1>1, VerdictEffect
<1>2. CASE (\E n \in Tries : QueuePending(n)) /\ UNCHANGED <<reserved, verdictVars>>
  BY <1>0, <1>2, QueueEffect DEF verdictVars
<1> QED BY <1>1, <1>2 DEF MarkTerminal

LEMMA DeadlineTimeoutEffect ==
  ASSUME IInv, DeadlineTimeout
  PROVE  HookEffect
<1>0. Core /\ active # None
  BY InvSplit DEF DeadlineTimeout, Live
<1>1. CASE active \notin resolved /\ ResolveUnknown(active)
  BY <1>0, <1>1, UnknownEffect DEF Unresolved
<1>2. CASE active \in resolved /\ PumpFrom(pending) /\ UNCHANGED <<queueVars, verdictVars>>
  BY <1>0, <1>2, NextEffect, WaitingUnheard DEF Core, queueVars, verdictVars
<1> QED BY <1>1, <1>2 DEF DeadlineTimeout

LEMMA ShutdownEffect ==
  ASSUME IInv, Shutdown
  PROVE  HookEffect
<1>0. Core
  BY InvSplit DEF Shutdown
<1>1. CASE Unresolved /\ ResolveUnknown(active)
  BY <1>0, <1>1, UnknownEffect
<1>2. CASE UNCHANGED <<queueVars, reserved, verdictVars>>
  BY <1>2, QuietEffect DEF hookVars, queueVars, verdictVars
<1>3. CASE (\E n \in Tries : QueuePending(n)) /\ UNCHANGED <<reserved, verdictVars>>
  BY <1>0, <1>3, QueueEffect DEF verdictVars
<1> QED BY <1>1, <1>2, <1>3 DEF Shutdown

(* Every step of the machine has one of the shapes, or tells the hook nothing. *)
LEMMA StepEffect ==
  ASSUME IInv, [MachineNext]_mvars
  PROVE  HookEffect
<1>1. ASSUME NEW r \in Results, ObserveSteer(r) PROVE HookEffect
  BY <1>1, InvSplit, VerdictEffect DEF ObserveSteer, Live
<1>2. CASE Timeout
  BY <1>2, InvSplit, UnknownEffect DEF Timeout, Live
<1>3. CASE UNCHANGED hookVars
  BY <1>3, QuietEffect
<1>4. CASE Tick \/ Cleanup \/ UNCHANGED mvars
  BY <1>3, <1>4 DEF Tick, Cleanup, mvars, hookVars, queueVars, slotVars, verdictVars
<1>5. ASSUME NEW k \in 1..Len(loopPending), CancelQueued(k) \/ Flush(k) PROVE HookEffect
  BY <1>3, <1>5 DEF CancelQueued, Flush, hookVars, slotVars, verdictVars
<1> QED BY <1>1, <1>2, <1>4, <1>5, OfferEffect, SetStreamEffect, CompleteEffect, MarkTerminalEffect,
           DeadlineTimeoutEffect, ShutdownEffect DEF MachineNext

(***************************************************************************)
(* Each shape is an action of Delivery on the fates of the requests.       *)
(***************************************************************************)
(* The fate of a request, by what the hook was told of it. *)
LEMMA FateFacts ==
  ASSUME IInv, NEW r \in Delegates
  PROVE  /\ FateOf(r) = "injected" <=> r \in injected
         /\ FateOf(r) = "fallback" <=> r \in fallback
         /\ FateOf(r) = "unknown" <=> r \in unknown
         /\ FateOf(r) = "untrackable" <=> r \in untrackable
         /\ FateOf(r) = "reserved" <=> r \in reserved \ resolved
         /\ FateOf(r) = "new" <=> r \in Unheard
         /\ FateOf(r) \in {"new", "reserved", "injected", "fallback", "unknown", "untrackable"}
BY DEF IInv, VerdictInv, SlotInv, DispositionOnce, FateOf, Unheard

(* A reservation is possible only while the lane is open and nobody is in it. *)
LEMMA LaneFacts ==
  ASSUME IInv, ~fault, ~disabled, ~fallbackBarrier
  PROVE  Hook!LaneOpen
<1>1. fallback = {} /\ unknown = {} /\ untrackable = {}
  BY DEF IInv, VerdictInv
<1> QED BY <1>1, FateFacts DEF Hook!LaneOpen

LEMMA ReservesIsDelivery ==
  ASSUME IInv, Reserves
  PROVE  \E r \in Hook!Fresh : Hook!Reserve(r)
<1>1. Hook!LaneOpen
  BY LaneFacts DEF Reserves, FillsSlot
<1>2. Hook!InFlight = {}
  BY FateFacts DEF Reserves, Hook!InFlight
<1>3. active' \in Hook!Fresh
  BY FateFacts, InputsAssumption DEF Reserves, FillsSlot, Hook!Fresh, Unheard
<1>4. [r \in Delegates |-> FateOf(r)]' = [[r \in Delegates |-> FateOf(r)] EXCEPT ![active'] = "reserved"]
  <2>1. active' \notin reserved \cup injected \cup unknown \cup untrackable \cup fallback
    BY DEF Reserves, FillsSlot, IInv, VerdictInv, SlotInv
  <2>2. ASSUME NEW r \in Delegates
        PROVE  FateOf(r)' = IF r = active' THEN "reserved" ELSE FateOf(r)
    BY <2>1 DEF Reserves, FillsSlot, FateOf
  <2> QED BY <2>2
<1> QED BY <1>1, <1>2, <1>3, <1>4 DEF Hook!Reserve

LEMMA InjectsIsDelivery ==
  ASSUME IInv, InjectsAndReserves
  PROVE  \E r \in Hook!InFlight, next \in Hook!Fresh : Hook!InjectAndReserve(r, next)
<1>1. Hook!LaneOpen
  BY LaneFacts DEF InjectsAndReserves, FillsSlot
<1>2. active \in reserved \ resolved /\ active \in Delegates
  BY InputsAssumption DEF InjectsAndReserves, Unresolved, IInv, TypeOK, SlotTypeOK, SlotInv
<1>3. active \in Hook!InFlight
  BY <1>2, FateFacts DEF Hook!InFlight
<1>4. active' \in Hook!Fresh
  BY FateFacts, InputsAssumption DEF InjectsAndReserves, FillsSlot, Hook!Fresh, Unheard
<1>5. [r \in Delegates |-> FateOf(r)]' =
        [[r \in Delegates |-> FateOf(r)] EXCEPT ![active] = "injected", ![active'] = "reserved"]
  <2>1. active' \notin reserved \cup injected \cup unknown \cup untrackable \cup fallback
    BY DEF InjectsAndReserves, FillsSlot, IInv, VerdictInv, SlotInv
  <2>2. ASSUME NEW r \in Delegates
        PROVE  FateOf(r)' = IF r = active' THEN "reserved"
                            ELSE IF r = active THEN "injected" ELSE FateOf(r)
    <3>1. CASE r = active'
      BY <1>2, <2>1, <3>1 DEF InjectsAndReserves, FillsSlot, FateOf
    <3>2. CASE r # active' /\ r = active
      <4>1. r \in injected' /\ r \notin (unknown \cup untrackable \cup fallback)'
        BY <1>2, <3>2 DEF InjectsAndReserves, IInv, VerdictInv, SlotInv
      <4>2. FateOf(r)' = "injected"
        BY <4>1 DEF FateOf
      <4> QED BY <3>2, <4>2
    <3>3. CASE r # active' /\ r # active
      BY <3>3 DEF InjectsAndReserves, FillsSlot, FateOf
    <3> QED BY <3>1, <3>2, <3>3
  <2> QED BY <1>2, <2>2
<1> QED BY <1>1, <1>3, <1>4, <1>5 DEF Hook!InjectAndReserve

LEMMA DivertsIsDelivery ==
  ASSUME IInv, NEW Q \in SUBSET Unheard, Diverts(Q)
  PROVE  \/ UNCHANGED [r \in Delegates |-> FateOf(r)]
         \/ \E F \in SUBSET Hook!Fresh : Hook!Divert(F)
<1>1. Q \in SUBSET Hook!Fresh
  BY FateFacts DEF Hook!Fresh, Unheard
<1>2. ASSUME NEW r \in Delegates
      PROVE  FateOf(r)' = IF r \in Q THEN "fallback" ELSE FateOf(r)
  <2>1. r \in Q => r \notin reserved \cup injected \cup unknown \cup untrackable \cup fallback
    BY DEF IInv, VerdictInv, SlotInv, Unheard
  <2> QED BY <2>1 DEF Diverts, FateOf
<1>3. CASE Q = {}
  BY <1>2, <1>3
<1>4. CASE Q # {}
  BY <1>1, <1>2, <1>4 DEF Hook!Divert
<1> QED BY <1>3, <1>4

LEMMA SettlesIsDelivery ==
  ASSUME IInv, NEW Q \in SUBSET Unheard, Settles(Q)
  PROVE  \E r \in Hook!InFlight, v \in Hook!Fates, F \in SUBSET Hook!Fresh : Hook!Settle(r, v, F)
<1>1. Q \in SUBSET Hook!Fresh
  BY FateFacts DEF Hook!Fresh, Unheard
<1>2. active \in reserved \ resolved /\ active \in Delegates
  BY InputsAssumption DEF Settles, Unresolved, IInv, TypeOK, SlotTypeOK, SlotInv
<1>3. active \in Hook!InFlight
  BY <1>2, FateFacts DEF Hook!InFlight
<1>4. /\ active \notin injected \cup unknown \cup untrackable \cup fallback
      /\ \A r \in Q : r \notin reserved \cup injected \cup unknown \cup untrackable \cup fallback
  BY <1>2 DEF IInv, VerdictInv, SlotInv, Unheard
<1>5. PICK v \in {"injected", "unknown", "untrackable", "fallback"} :
        /\ v = "injected" => /\ injected' = injected \cup {active} /\ fallback' = fallback \cup Q
                             /\ UNCHANGED <<unknown, untrackable>>
        /\ v = "unknown" => /\ unknown' = unknown \cup {active} /\ fallback' = fallback \cup Q
                            /\ UNCHANGED <<injected, untrackable>>
        /\ v = "untrackable" => /\ untrackable' = untrackable \cup {active}
                                /\ fallback' = fallback \cup Q /\ UNCHANGED <<injected, unknown>>
        /\ v = "fallback" => /\ fallback' = fallback \cup {active} \cup Q
                             /\ UNCHANGED <<injected, unknown, untrackable>>
  BY DEF Settles
<1>6. reserved' = reserved
  BY DEF Settles
<1>7. ASSUME NEW r \in Delegates
      PROVE  FateOf(r)' = IF r = active THEN v ELSE IF r \in Q THEN "fallback" ELSE FateOf(r)
  <2>1. CASE v = "injected"
    BY <1>2, <1>4, <1>5, <1>6, <2>1 DEF FateOf
  <2>2. CASE v = "unknown"
    BY <1>2, <1>4, <1>5, <1>6, <2>2 DEF FateOf
  <2>3. CASE v = "untrackable"
    BY <1>2, <1>4, <1>5, <1>6, <2>3 DEF FateOf
  <2>4. CASE v = "fallback"
    BY <1>2, <1>4, <1>5, <1>6, <2>4 DEF FateOf
  <2> QED BY <2>1, <2>2, <2>3, <2>4
<1>8. [r \in Delegates |-> FateOf(r)]' =
        [q \in Delegates |-> IF q = active THEN v
                             ELSE IF q \in Q THEN "fallback"
                             ELSE [r \in Delegates |-> FateOf(r)][q]]
  BY <1>7
<1>9. Hook!Settle(active, v, Q) /\ v \in Hook!Fates
  BY <1>8 DEF Hook!Settle, Hook!Fates
<1> QED BY <1>1, <1>3, <1>9

LEMMA StepIsDelivery ==
  IInv /\ [MachineNext]_mvars => [Hook!DeliveryNext]_[r \in Delegates |-> FateOf(r)]
<1> SUFFICES ASSUME IInv, [MachineNext]_mvars
             PROVE  Hook!DeliveryNext \/ UNCHANGED [r \in Delegates |-> FateOf(r)]
  OBVIOUS
<1>1. HookEffect
  BY StepEffect
<1>2. CASE Reserves
  BY <1>2, ReservesIsDelivery DEF Hook!DeliveryNext
<1>3. CASE InjectsAndReserves
  BY <1>3, InjectsIsDelivery DEF Hook!DeliveryNext
<1>4. ASSUME NEW Q \in SUBSET Unheard, Diverts(Q) \/ Settles(Q)
      PROVE  Hook!DeliveryNext \/ UNCHANGED [r \in Delegates |-> FateOf(r)]
  BY <1>4, DivertsIsDelivery, SettlesIsDelivery DEF Hook!DeliveryNext
<1> QED BY <1>1, <1>2, <1>3, <1>4 DEF HookEffect

(***************************************************************************)
(* The machine implements Delivery, whatever the order of its events: one  *)
(* reservation is in flight at a time, its fate is decided once, and       *)
(* nothing is reserved after a fallback or a delivery in doubt (pump,      *)
(* resolveDisposition, queueFallback, shutdown).                           *)
(***************************************************************************)
THEOREM MachineImplementsDelivery == MachineSpec => ImplementsDelivery
<1>1. Init => Hook!DeliveryInit
  BY DEF Init, Hook!DeliveryInit, FateOf
<1>2. IInv /\ [MachineNext]_mvars => [Hook!DeliveryNext]_[r \in Delegates |-> FateOf(r)]
  BY StepIsDelivery
<1> QED BY <1>1, <1>2, InductiveInvariant, PTL
        DEF MachineSpec, ImplementsDelivery, Hook!DeliverySpec

-----------------------------------------------------------------------------
(***************************************************************************)
(* Where the accepted inputs are, and in which order they are steered.     *)
(***************************************************************************)
Distinct(s) == \A j, k \in 1..Len(s) : s[j] = s[k] => j = k

(* The turn steers nothing more. *)
Closed == fault \/ disabled \/ fallbackBarrier

(* What stands in l.pending stands nowhere else, and was neither consumed nor
   retracted; the attempt in the slot gets there with its verdict. *)
PlaceInv ==
  /\ Distinct(loopPending)
  /\ \A i \in Elements(loopPending) \cup retracted : ticket[i] > 0
  /\ Elements(loopPending) \cap (Elements(pending) \cup injected \cup unknown
                                  \cup untrackable \cup retracted) = {}
  /\ retracted \cap Elements(pending) = {}
  /\ active \notin resolved => active \notin Elements(loopPending) \cup retracted

(* Nothing is lost, not even by an attempt that leaves the slot later than its
   verdict, nor by a machine that is discarded. *)
KeepInv == ~failed =>
  /\ \A i \in Inputs : ticket[i] > 0 =>
       i \in Elements(loopPending) \cup Elements(pending) \cup {active}
             \cup injected \cup unknown \cup retracted
  /\ resolved \subseteq Elements(loopPending) \cup injected \cup unknown \cup retracted
  /\ stage # "running" => pending = <<>>

(* While the turn steers, whoever came before a waiting request waits before it,
   is in the slot, or was injected or retracted. *)
LineInv ==
  /\ \A i \in Inputs : ticket[i] <= accepted
  /\ ~Closed => \A k \in 1..Len(pending), i \in Inputs :
       0 < ticket[i] /\ ticket[i] < ticket[pending[k]] =>
         i \in injected \cup retracted \cup {active} \cup {pending[j] : j \in 1..(k - 1)}
  /\ SteeredInOrder

FullInv == IInv /\ PlaceInv /\ KeepInv /\ LineInv

(* Sequences as the sets of what they hold. *)
LEMMA PrefixElements ==
  ASSUME NEW S, NEW p \in Seq(S), NEW n \in 0..Len(p)
  PROVE  LET q == SubSeq(p, 1, n) IN
         /\ q \in Seq(S) /\ Elements(q) = {p[k] : k \in 1..n}
         /\ Distinct(p) => Distinct(q)
<1> DEFINE q == SubSeq(p, 1, n)
<1>1. q \in Seq(S) /\ Len(q) = n /\ \A k \in 1..n : q[k] = p[k] /\ k \in 1..Len(p)
  OBVIOUS
<1> HIDE DEF q
<1>2. Elements(q) = {p[k] : k \in 1..n}
  BY <1>1 DEF Elements
<1>3. Distinct(p) => Distinct(q)
  BY <1>1 DEF Distinct
<1> QED BY <1>1, <1>2, <1>3 DEF q

LEMMA ConcatElements ==
  ASSUME NEW S, NEW s \in Seq(S), NEW t \in Seq(S)
  PROVE  /\ Elements(s \o t) = Elements(s) \cup Elements(t)
         /\ Distinct(s) /\ Distinct(t) /\ Elements(s) \cap Elements(t) = {} => Distinct(s \o t)
<1> DEFINE r == s \o t
<1>1. /\ Len(r) = Len(s) + Len(t) /\ Len(s) \in Nat /\ Len(t) \in Nat
      /\ \A k \in 1..Len(s) : r[k] = s[k]
      /\ \A k \in 1..Len(t) : r[Len(s) + k] = t[k]
  OBVIOUS
<1> HIDE DEF r
<1>2. ASSUME NEW k \in 1..Len(r)
      PROVE  \/ k \in 1..Len(s) /\ r[k] = s[k]
             \/ k - Len(s) \in 1..Len(t) /\ r[k] = t[k - Len(s)]
  <2>1. CASE k <= Len(s)
    BY <1>1, <2>1
  <2>2. CASE k > Len(s)
    <3>1. k - Len(s) \in 1..Len(t) /\ k = Len(s) + (k - Len(s))
      BY <1>1, <2>2
    <3> QED BY <1>1, <3>1
  <2> QED BY <1>1, <2>1, <2>2
<1>3. Elements(r) \subseteq Elements(s) \cup Elements(t)
  BY <1>2 DEF Elements
<1>4. Elements(s) \subseteq Elements(r)
  <2>1. \A k \in 1..Len(s) : k \in 1..Len(r)
    BY <1>1
  <2> QED BY <1>1, <2>1 DEF Elements
<1>5. Elements(t) \subseteq Elements(r)
  <2>1. \A k \in 1..Len(t) : Len(s) + k \in 1..Len(r)
    BY <1>1
  <2> QED BY <1>1, <2>1 DEF Elements
<1>6. ASSUME Distinct(s), Distinct(t), Elements(s) \cap Elements(t) = {} PROVE Distinct(r)
  <2> SUFFICES ASSUME NEW j \in 1..Len(r), NEW k \in 1..Len(r), r[j] = r[k] PROVE j = k
    BY DEF Distinct
  <2>1. CASE j \in 1..Len(s) /\ r[j] = s[j]
    <3>0. r[k] \in Elements(s) /\ \A l \in 1..Len(t) : t[l] \in Elements(t)
      BY <2>1 DEF Elements
    <3>1. k \in 1..Len(s) /\ r[k] = s[k]
      <4>1. r[k] \notin Elements(t)
        BY <1>6, <3>0
      <4>2. \/ k \in 1..Len(s) /\ r[k] = s[k]
            \/ k - Len(s) \in 1..Len(t) /\ r[k] = t[k - Len(s)]
        BY <1>2
      <4> QED BY ONLY <3>0, <4>1, <4>2
    <3> QED BY <1>6, <2>1, <3>1 DEF Distinct
  <2>2. CASE j - Len(s) \in 1..Len(t) /\ r[j] = t[j - Len(s)]
    <3>1. k - Len(s) \in 1..Len(t) /\ r[k] = t[k - Len(s)]
      <4>1. r[k] \in Elements(t) /\ \A l \in 1..Len(s) : s[l] \in Elements(s)
        BY <2>2 DEF Elements
      <4>2. r[k] \notin Elements(s)
        BY <1>6, <4>1
      <4>3. \/ k \in 1..Len(s) /\ r[k] = s[k]
            \/ k - Len(s) \in 1..Len(t) /\ r[k] = t[k - Len(s)]
        BY <1>2
      <4> QED BY ONLY <4>1, <4>2, <4>3
    <3>2. j - Len(s) = k - Len(s)
      BY <1>6, <2>2, <3>1 DEF Distinct
    <3> QED BY <1>1, <3>2
  <2> QED BY <1>2, <2>1, <2>2
<1> QED BY <1>3, <1>4, <1>5, <1>6 DEF r

LEMMA AppendElements ==
  ASSUME NEW S, NEW s \in Seq(S), NEW i \in S
  PROVE  /\ Elements(Append(s, i)) = Elements(s) \cup {i}
         /\ Distinct(s) /\ i \notin Elements(s) => Distinct(Append(s, i))
<1> DEFINE r == Append(s, i)
<1>1. /\ Len(s) \in Nat /\ Len(r) = Len(s) + 1
      /\ \A k \in 1..Len(s) : r[k] = s[k]
      /\ r[Len(s) + 1] = i
  BY AppendFacts
<1> HIDE DEF r
<1>2. \A k \in 1..Len(r) : (k \in 1..Len(s) /\ r[k] = s[k]) \/ (k = Len(s) + 1 /\ r[k] = i)
  BY <1>1
<1>3. \A k \in 1..Len(s) : k \in 1..Len(r)
  BY <1>1
<1>4. Elements(r) = Elements(s) \cup {i}
  <2>1. Elements(r) \subseteq Elements(s) \cup {i}
    BY <1>2 DEF Elements
  <2>2. Elements(s) \subseteq Elements(r)
    BY <1>1, <1>3 DEF Elements
  <2>3. i \in Elements(r)
    <3>1. Len(s) + 1 \in 1..Len(r)
      BY <1>1
    <3> QED BY <1>1, <3>1 DEF Elements
  <2> QED BY <2>1, <2>2, <2>3
<1>5. ASSUME Distinct(s), i \notin Elements(s) PROVE Distinct(r)
  <2>1. \A k \in 1..Len(s) : s[k] # i
    BY <1>5 DEF Elements
  <2> QED BY <1>2, <1>5, <2>1 DEF Distinct
<1> QED BY <1>4, <1>5 DEF r

(* Taking n requests off the front of the waiting line, and one more that fails. *)
LEMMA TakeFacts ==
  ASSUME CoreTypeOK, WaitingInv, NEW n \in Tries
  PROVE  LET Q == {pending[k] : k \in 1..n}
             rest == SubSeq(pending, n + 2, Len(pending))
         IN  /\ pending \in Seq(Inputs) /\ SubSeq(pending, 1, n) \in Seq(Inputs)
             /\ Elements(SubSeq(pending, 1, n)) = Q /\ Distinct(SubSeq(pending, 1, n))
             /\ Q \subseteq Elements(pending)
             /\ Elements(rest) \subseteq Elements(pending) \ Q
             /\ n = Len(pending) => rest = <<>> /\ Q = Elements(pending)
<1> DEFINE Q == {pending[k] : k \in 1..n}
           rest == SubSeq(pending, n + 2, Len(pending))
<1>1. pending \in Seq(Steerable) /\ pending \in Seq(Inputs) /\ n \in 0..Len(pending)
  BY InputsAssumption DEF CoreTypeOK, SlotTypeOK, Tries
<1>2. Distinct(pending)
  BY DEF WaitingInv, Distinct
<1>3. /\ SubSeq(pending, 1, n) \in Seq(Inputs) /\ Elements(SubSeq(pending, 1, n)) = Q
      /\ Distinct(SubSeq(pending, 1, n))
  BY <1>1, <1>2, PrefixElements
<1>4. Q \subseteq Elements(pending)
  BY <1>1 DEF Elements
<1>5. \A k \in 1..Len(rest) : k + n + 1 \in 1..Len(pending) /\ rest[k] = pending[k + n + 1]
  BY <1>1, SuffixFacts
<1>6. \A k \in 1..Len(rest) : rest[k] \notin Q
  BY ONLY <1>1, <1>2, DistinctSuffix DEF Distinct
<1>7. n = Len(pending) => rest = <<>> /\ Q = Elements(pending)
  BY <1>1 DEF Elements
<1> HIDE DEF rest, Q
<1>8. Elements(rest) \subseteq Elements(pending) \ Q
  BY <1>5, <1>6 DEF Elements
<1> QED BY <1>1, <1>3, <1>4, <1>7, <1>8 DEF rest, Q

(***************************************************************************)
(* What a step does with the inputs: Q leaves the waiting line for         *)
(* l.pending, D is the attempt that gets its verdict, if one does, and A   *)
(* the attempt that goes to l.pending with it.                             *)
(***************************************************************************)
LineMoves(Q, A) ==
  /\ Q \subseteq Elements(pending)
  /\ Distinct(loopPending') /\ Elements(loopPending') = Elements(loopPending) \cup A \cup Q
  /\ Elements(pending') \subseteq Elements(pending) \ Q
SlotMoves(Q) ==
  \/ active' = active
  \/ active' = None /\ (failed' \/ active \in resolved' \cup {None})
  \/ /\ active' \in Elements(pending) \ (Elements(pending') \cup Q)
     /\ active \in resolved' \cup {None}
VerdictMoves(A, D) ==
  /\ D \subseteq {active} /\ A \subseteq D /\ (D # {} => Unresolved)
  /\ resolved' = resolved \cup D
  /\ injected \subseteq injected' /\ unknown \subseteq unknown'
  /\ (injected \cup unknown \cup untrackable)'
       \subseteq injected \cup unknown \cup untrackable \cup (D \ A)
  /\ ~failed' => D \subseteq A \cup injected' \cup unknown'
Moves(Q, A, D) ==
  /\ LineMoves(Q, A) /\ SlotMoves(Q) /\ VerdictMoves(A, D)
  /\ failed => failed'
  /\ ~failed' => Elements(pending) \subseteq Elements(pending') \cup Q \cup {active'}

(* And in which order: while the turn steers, the slot takes the head of the line. *)
OrderMoves ==
  /\ Closed => Closed'
  /\ injected \subseteq injected'
  /\ \/ Closed' /\ reserved' = reserved
     \/ /\ pending' \in {pending, <<>>} /\ reserved' = reserved
        /\ active' = active \/ active \in injected' \cup {None}
     \/ /\ FillsSlot /\ pending # <<>> /\ active' = Head(pending) /\ pending' = Tail(pending)
        /\ active \in injected' \cup {None}

Moved == OrderMoves /\ \E Q, A, D : Moves(Q, A, D)

LEMMA MovesKeepPlaces ==
  ASSUME FullInv, Core, UNCHANGED <<ticket, retracted>>, NEW Q, NEW A, NEW D, Moves(Q, A, D)
  PROVE  PlaceInv'
<1>1. /\ ticket' = ticket /\ retracted' = retracted
      /\ Elements(pending) \subseteq Inputs /\ \A i \in Elements(pending) : ticket[i] > 0 /\ i \notin reserved
      /\ active # None => active \in reserved /\ ticket[active] > 0
      /\ injected \cup unknown \cup untrackable \subseteq reserved
      /\ None \notin Elements(loopPending) \cup retracted \cup Elements(pending)
  BY InputsAssumption DEF FullInv, IInv, TypeOK, QueueTypeOK, Core, CoreTypeOK, SlotTypeOK,
       WaitingInv, VerdictInv, Elements
<1>2. Distinct(loopPending') /\ Elements(loopPending') = Elements(loopPending) \cup A \cup Q
  BY DEF Moves, LineMoves
<1>3. Q \subseteq Elements(pending) /\ Elements(pending') \subseteq Elements(pending) \ Q
  BY DEF Moves, LineMoves
<1>4. D \subseteq {active} /\ A \subseteq D /\ (D # {} => Unresolved) /\ resolved' = resolved \cup D
  BY DEF Moves, VerdictMoves
<1>5. A \cap (Elements(pending) \cup retracted \cup Elements(loopPending)) = {} /\ D \cap reserved = D
  BY <1>1, <1>4 DEF FullInv, PlaceInv, Unresolved
<1>6. \A i \in Elements(loopPending') \cup retracted' : ticket'[i] > 0
  BY <1>1, <1>2, <1>3, <1>4 DEF FullInv, PlaceInv, Unresolved
<1>7. Elements(loopPending') \cap (Elements(pending') \cup retracted') = {}
  BY <1>1, <1>2, <1>3, <1>5 DEF FullInv, PlaceInv
<1>8. Elements(loopPending') \cap (injected \cup unknown \cup untrackable)' = {}
  <2>1. (injected \cup unknown \cup untrackable)'
          \subseteq injected \cup unknown \cup untrackable \cup (D \ A)
    BY DEF Moves, VerdictMoves
  <2>2. A \cap (injected \cup unknown \cup untrackable) = {}
    BY <1>4 DEF Unresolved, Core, VerdictInv
  <2>3. (D \ A) \cap (Elements(loopPending) \cup A \cup Q) = {}
    BY <1>1, <1>3, <1>4 DEF FullInv, PlaceInv, Unresolved
  <2> QED BY <1>1, <1>2, <1>3, <2>1, <2>2, <2>3 DEF FullInv, PlaceInv
<1>9. retracted' \cap Elements(pending') = {}
  BY <1>1, <1>3 DEF FullInv, PlaceInv
<1>10. active' \notin resolved' => active' \notin Elements(loopPending') \cup retracted'
  <2>1. CASE active' = active
    BY <1>1, <1>2, <1>3, <1>4, <2>1 DEF FullInv, PlaceInv
  <2>2. CASE active' = None
    BY <1>1, <1>2, <1>3, <1>4, <2>2 DEF FullInv, PlaceInv, Unresolved
  <2>3. CASE active' \in Elements(pending) \ (Elements(pending') \cup Q)
    BY <1>1, <1>2, <1>3, <1>4, <2>3 DEF FullInv, PlaceInv, Unresolved
  <2> QED BY <2>1, <2>2, <2>3 DEF Moves, SlotMoves
<1> QED BY <1>2, <1>6, <1>7, <1>8, <1>9, <1>10 DEF PlaceInv

LEMMA MovesKeepInputs ==
  ASSUME FullInv, Core, UNCHANGED <<ticket, retracted>>, NEW Q, NEW A, NEW D, Moves(Q, A, D),
         stage' # "running" /\ ~failed' => pending' = <<>>
  PROVE  KeepInv'
<1> SUFFICES ASSUME ~failed' PROVE
      /\ \A i \in Inputs : ticket'[i] > 0 =>
           i \in (Elements(loopPending) \cup Elements(pending) \cup {active}
                   \cup injected \cup unknown \cup retracted)'
      /\ resolved' \subseteq (Elements(loopPending) \cup injected \cup unknown \cup retracted)'
      /\ stage' # "running" => pending' = <<>>
  BY DEF KeepInv
<1>1. /\ ~failed /\ ticket' = ticket /\ retracted' = retracted
      /\ Elements(loopPending') = Elements(loopPending) \cup A \cup Q
      /\ injected \subseteq injected' /\ unknown \subseteq unknown'
      /\ resolved' = resolved \cup D /\ D \subseteq A \cup injected' \cup unknown'
  BY DEF Moves, LineMoves, VerdictMoves
<1>2. resolved' \subseteq (Elements(loopPending) \cup injected \cup unknown \cup retracted)'
  BY <1>1 DEF FullInv, KeepInv
<1>3. Elements(pending) \subseteq Elements(pending') \cup Q \cup {active'}
  BY DEF Moves
<1>4. active # None /\ active' # active => active \in resolved'
  BY DEF Moves, SlotMoves
<1>5. ASSUME NEW i \in Inputs, ticket'[i] > 0
      PROVE  i \in (Elements(loopPending) \cup Elements(pending) \cup {active}
                      \cup injected \cup unknown \cup retracted)'
  <2>1. i \in Elements(loopPending) \cup Elements(pending) \cup {active}
              \cup injected \cup unknown \cup retracted
    BY <1>1, <1>5 DEF FullInv, KeepInv
  <2>2. CASE i = active
    BY <1>2, <1>4, <2>2, InputsAssumption
  <2>3. CASE i # active
    BY <1>1, <1>3, <2>1, <2>3
  <2> QED BY <2>2, <2>3
<1> QED BY <1>2, <1>5

(* The head of a line p takes the slot when nobody accepted before it still waits. *)
LEMMA HeadSteered ==
  ASSUME NEW p \in Seq(Inputs), p # <<>>, active' = Head(p), pending' = Tail(p),
         reserved' = reserved \cup {Head(p)},
         \A k \in 1..Len(p), i \in Inputs :
           0 < ticket'[i] /\ ticket'[i] < ticket'[p[k]] =>
             i \in injected' \cup retracted' \cup {p[j] : j \in 1..(k - 1)},
         \A i, j \in Inputs :
           0 < ticket'[i] /\ ticket'[i] < ticket'[j] /\ j \in reserved
             => i \in injected' \cup retracted'
  PROVE  /\ SteeredInOrder'
         /\ \A k \in 1..Len(pending'), i \in Inputs :
              0 < ticket'[i] /\ ticket'[i] < ticket'[pending'[k]] =>
                i \in (injected \cup retracted \cup {active} \cup {pending[j] : j \in 1..(k - 1)})'
<1>1. /\ Len(p) \in Nat /\ 1 \in 1..Len(p) /\ active' = p[1] /\ Len(pending') = Len(p) - 1
      /\ \A k \in 1..Len(pending') : pending'[k] = p[k + 1] /\ k + 1 \in 1..Len(p)
  OBVIOUS
<1>2. SteeredInOrder'
  <2> SUFFICES ASSUME NEW i \in Inputs, NEW j \in Inputs, 0 < ticket'[i],
                      ticket'[i] < ticket'[j], j \in reserved'
               PROVE  i \in injected' \cup retracted'
    BY DEF SteeredInOrder
  <2>1. CASE j \in reserved
    BY <2>1
  <2>2. CASE j = p[1]
    BY <1>1, <2>2
  <2> QED BY <1>1, <2>1, <2>2
<1>3. ASSUME NEW k \in 1..Len(pending'), NEW i \in Inputs,
             0 < ticket'[i] /\ ticket'[i] < ticket'[pending'[k]]
      PROVE  i \in (injected \cup retracted \cup {active} \cup {pending[j] : j \in 1..(k - 1)})'
  <2>1. i \in injected' \cup retracted' \cup {p[j] : j \in 1..k}
    <3>1. k + 1 \in 1..Len(p) /\ (k + 1) - 1 = k /\ pending'[k] = p[k + 1]
      BY <1>1
    <3>2. i \in injected' \cup retracted' \cup {p[j] : j \in 1..((k + 1) - 1)}
      BY <1>3, <3>1
    <3> QED BY <3>1, <3>2
  <2>2. ASSUME NEW j \in 1..k, i = p[j]
        PROVE  i \in {active'} \cup {pending'[l] : l \in 1..(k - 1)}
    <3>1. CASE j = 1
      BY <1>1, <2>2, <3>1
    <3>2. CASE j > 1
      <4>1. j - 1 \in 1..(k - 1) /\ j - 1 \in 1..Len(pending') /\ j = (j - 1) + 1
        BY <1>1, <3>2
      <4>2. pending'[j - 1] = i
        BY <1>1, <2>2, <4>1
      <4> QED BY <4>1, <4>2
    <3> QED BY <3>1, <3>2
  <2> QED BY <2>1, <2>2
<1> QED BY <1>2, <1>3

LEMMA OrderKeeps ==
  ASSUME FullInv, UNCHANGED <<ticket, accepted, retracted>>, OrderMoves
  PROVE  LineInv'
<1>1. /\ ticket' = ticket /\ accepted' = accepted /\ retracted' = retracted
      /\ injected \subseteq injected' /\ (Closed => Closed')
  BY DEF OrderMoves
<1>2. \A i \in Inputs : ticket'[i] <= accepted'
  BY <1>1 DEF FullInv, LineInv
<1>3. pending \in Seq(Inputs)
  BY InputsAssumption DEF FullInv, IInv, TypeOK, SlotTypeOK
<1>4. CASE Closed' /\ reserved' = reserved
  BY <1>1, <1>2, <1>4 DEF FullInv, LineInv, SteeredInOrder
<1>5. CASE /\ pending' \in {pending, <<>>} /\ reserved' = reserved
           /\ active' = active \/ active \in injected' \cup {None}
  <2>1. SteeredInOrder'
    BY <1>1, <1>5 DEF FullInv, LineInv, SteeredInOrder
  <2>2. ASSUME ~Closed', NEW k \in 1..Len(pending'), NEW i \in Inputs,
               0 < ticket'[i] /\ ticket'[i] < ticket'[pending'[k]]
        PROVE  i \in (injected \cup retracted \cup {active} \cup {pending[j] : j \in 1..(k - 1)})'
    <3>1. pending' = pending
      BY <1>5, <2>2
    <3>2. i \in injected \cup retracted \cup {active} \cup {pending[j] : j \in 1..(k - 1)}
      BY <1>1, <2>2, <3>1 DEF FullInv, LineInv
    <3> QED BY <1>1, <1>5, <3>1, <3>2, InputsAssumption
  <2> QED BY <1>2, <2>1, <2>2 DEF LineInv
<1>6. CASE /\ FillsSlot /\ pending # <<>> /\ active' = Head(pending) /\ pending' = Tail(pending)
           /\ active \in injected' \cup {None}
  <2>2. CASE Closed
    <3>1. Closed' /\ reserved' = reserved \cup {active'} /\ ~fault /\ ~disabled /\ ~fallbackBarrier
      BY <1>1, <1>6, <2>2 DEF FillsSlot
    <3> QED BY <2>2, <3>1 DEF Closed
  <2>3. CASE ~Closed
    <3>1. ASSUME NEW k \in 1..Len(pending), NEW i \in Inputs,
                 0 < ticket[i] /\ ticket[i] < ticket[pending[k]]
          PROVE  i \in injected' \cup retracted' \cup {pending[j] : j \in 1..(k - 1)}
      <4>1. i \in injected \cup retracted \cup {active} \cup {pending[j] : j \in 1..(k - 1)}
        BY <2>3, <3>1 DEF FullInv, LineInv
      <4> QED BY <1>1, <1>6, <4>1, InputsAssumption
    <3>2. reserved' = reserved \cup {Head(pending)}
      BY <1>6 DEF FillsSlot
    <3>3. \A i, j \in Inputs :
            0 < ticket'[i] /\ ticket'[i] < ticket'[j] /\ j \in reserved
              => i \in injected' \cup retracted'
      BY <1>1 DEF FullInv, LineInv, SteeredInOrder
    <3>4. \A k \in 1..Len(pending), i \in Inputs :
            0 < ticket'[i] /\ ticket'[i] < ticket'[pending[k]] =>
              i \in injected' \cup retracted' \cup {pending[j] : j \in 1..(k - 1)}
      BY <1>1, <3>1
    <3> QED BY <1>2, <1>3, <1>6, <3>2, <3>3, <3>4, HeadSteered DEF LineInv
  <2> QED BY <2>2, <2>3
<1> QED BY <1>4, <1>5, <1>6 DEF OrderMoves

-----------------------------------------------------------------------------
(* The marks that close a turn are never taken back. *)
MarksStay == (fault => fault') /\ (disabled => disabled') /\ (fallbackBarrier => fallbackBarrier')

(* The waiting requests are queued: they go to the back of l.pending. *)
LEMMA TakeMoves ==
  ASSUME FullInv, Core, NEW n \in Tries, QueuePending(n)
  PROVE  /\ LineMoves({pending[k] : k \in 1..n}, {})
         /\ n = Len(pending) => pending' = <<>> /\ {pending[k] : k \in 1..n} = Elements(pending)
         /\ fallbackBarrier' \/ (pending = <<>> /\ pending' = <<>>)
         /\ fallbackBarrier => fallbackBarrier'
<1> DEFINE Q == {pending[k] : k \in 1..n}
           front == SubSeq(pending, 1, n)
<1>1. /\ pending \in Seq(Inputs) /\ front \in Seq(Inputs) /\ n \in 0..Len(pending)
      /\ Elements(front) = Q /\ Distinct(front) /\ Q \subseteq Elements(pending)
      /\ Elements(pending') \subseteq Elements(pending) \ Q
      /\ n = Len(pending) => pending' = <<>> /\ Q = Elements(pending)
  <2>1. n \in 0..Len(pending)
    BY DEF Core, CoreTypeOK, SlotTypeOK, Tries
  <2>2. pending' = SubSeq(pending, n + 2, Len(pending))
    BY DEF QueuePending
  <2>3. CoreTypeOK /\ WaitingInv
    BY DEF Core
  <2> QED BY ONLY <2>1, <2>2, <2>3, TakeFacts
<1>2. loopPending \in Seq(Inputs) /\ Distinct(loopPending)
  BY DEF FullInv, PlaceInv, Core, CoreTypeOK, QueueTypeOK
<1>3. Elements(loopPending) \cap Elements(front) = {}
  BY <1>1 DEF FullInv, PlaceInv
<1>4. loopPending' = loopPending \o front
  BY DEF QueuePending
<1>5. pending = <<>> => pending' = <<>>
  BY <1>1
<1> HIDE DEF front, Q
<1>6. Distinct(loopPending') /\ Elements(loopPending') = Elements(loopPending) \cup Q
  BY <1>1, <1>2, <1>3, <1>4, ConcatElements
<1>7. LineMoves(Q, {})
  BY <1>1, <1>6 DEF LineMoves
<1> QED BY <1>1, <1>5, <1>7 DEF QueuePending, Q

(* Queueing the waiting requests, with the verdict D on the attempt if any. *)
LEMMA QueueMoves ==
  ASSUME FullInv, Core, NEW n \in Tries, QueuePending(n), NEW D, VerdictMoves({}, D),
         reserved' = reserved, MarksStay, failed => failed', ~failed' => n = Len(pending),
         active' = active \/ (active' = None /\ active \in resolved' \cup {None}),
         active' = active \/ active \in injected' \cup {None} \/ Closed'
  PROVE  Moved
<1> DEFINE Q == {pending[k] : k \in 1..n}
<1>1. /\ LineMoves(Q, {})
      /\ n = Len(pending) => pending' = <<>> /\ Q = Elements(pending)
      /\ fallbackBarrier' \/ (pending = <<>> /\ pending' = <<>>)
  BY TakeMoves
<1> HIDE DEF Q
<1>2. SlotMoves(Q)
  BY DEF SlotMoves
<1>3. Moves(Q, {}, D)
  BY <1>1, <1>2 DEF Moves
<1>4. OrderMoves
  BY <1>1 DEF OrderMoves, VerdictMoves, MarksStay, Closed
<1> QED BY <1>3, <1>4 DEF Moved

(* No request moves. *)
LEMMA StayMoves ==
  ASSUME FullInv, Core, NEW D, VerdictMoves({}, D), reserved' = reserved, MarksStay,
         failed => failed', UNCHANGED <<loopPending, pending>>,
         active' = active \/ (active' = None /\ active \in resolved' \cup {None}),
         active' = active \/ active \in injected' \cup {None} \/ Closed'
  PROVE  Moved
<1>1. LineMoves({}, {})
  BY DEF LineMoves, FullInv, PlaceInv
<1>2. SlotMoves({})
  BY DEF SlotMoves
<1>3. Moves({}, {}, D)
  BY <1>1, <1>2 DEF Moves
<1>4. OrderMoves
  BY DEF OrderMoves, VerdictMoves, MarksStay, Closed
<1> QED BY <1>3, <1>4 DEF Moved

LEMMA HeadElements ==
  ASSUME NEW S, NEW p \in Seq(S), p # <<>>, Distinct(p)
  PROVE  /\ Head(p) \in Elements(p) /\ Head(p) \notin Elements(Tail(p))
         /\ Elements(p) = Elements(Tail(p)) \cup {Head(p)}
<1> DEFINE q == Tail(p)
<1>1. /\ Len(p) \in Nat /\ 1 \in 1..Len(p) /\ Head(p) = p[1] /\ Len(q) = Len(p) - 1
      /\ \A k \in 1..Len(q) : q[k] = p[k + 1] /\ k + 1 \in 1..Len(p) /\ k + 1 # 1
  OBVIOUS
<1> HIDE DEF q
<1>2. Head(p) \in Elements(p)
  BY <1>1 DEF Elements
<1>3. Head(p) \notin Elements(q)
  BY <1>1 DEF Elements, Distinct
<1>4. Elements(q) \subseteq Elements(p)
  BY <1>1 DEF Elements
<1>5. ASSUME NEW k \in 1..Len(p), k # 1 PROVE p[k] \in Elements(q)
  <2>1. k - 1 \in 1..Len(q) /\ (k - 1) + 1 = k
    BY <1>1, <1>5
  <2> QED BY <1>1, <2>1 DEF Elements
<1>6. Elements(p) \subseteq Elements(q) \cup {Head(p)}
  BY <1>1, <1>5 DEF Elements
<1> QED BY <1>2, <1>3, <1>4, <1>6 DEF q

(* The slot is free: the head of the line takes it, if the turn still steers. *)
LEMMA PumpMoves ==
  ASSUME FullInv, Core, PumpFrom(pending), UNCHANGED queueVars, disabled' = disabled,
         ticket' = ticket, NEW D, VerdictMoves({}, D),
         active \in resolved' \cup {None}, active \in injected' \cup {None} \/ Closed
  PROVE  Moved
<1>1. pending \in Seq(Steerable) /\ pending \in Seq(Inputs) /\ Distinct(pending)
  BY InputsAssumption DEF Core, CoreTypeOK, SlotTypeOK, WaitingInv, Distinct
<1>2. UNCHANGED <<loopPending, fallback, fallbackBarrier>>
  BY DEF queueVars
<1>3. /\ NoError \/ Fail
      /\ \/ active' = None /\ reserved' = reserved
         \/ FillsSlot /\ NoError
  <2>1. WaitIn(pending)
    BY DEF Core, WaitingInv, WaitIn
  <2> QED BY <1>1, <1>2, <2>1, PumpFacts DEF Core
<1>4. MarksStay /\ (failed => failed')
  BY <1>2, <1>3, ErrorsStay DEF MarksStay, Core, CoreTypeOK
<1>5. CASE active' = None /\ pending' = pending /\ UNCHANGED reserved
  <2>1. active \in injected' \cup {None} \/ Closed'
    BY <1>4 DEF MarksStay, Closed
  <2> QED BY <1>2, <1>4, <1>5, <2>1, StayMoves
<1>6. CASE CanPump(pending) /\ pending' = Tail(pending)
  <2>1. /\ pending # <<>> /\ Head(pending) \in Elements(pending)
        /\ Head(pending) \notin Elements(pending')
        /\ Elements(pending) = Elements(pending') \cup {Head(pending)}
    BY <1>1, <1>6, HeadElements DEF CanPump
  <2>2. LineMoves({}, {})
    BY <1>2, <2>1 DEF LineMoves, FullInv, PlaceInv
  <2>3. CASE active' = Head(pending) /\ reserved' = reserved \cup {Head(pending)} /\ NoError
    <3>1. SlotMoves({})
      BY <2>1, <2>3 DEF SlotMoves
    <3>2. Moves({}, {}, D)
      BY <1>4, <2>1, <2>2, <2>3, <3>1 DEF Moves
    <3>3. FillsSlot /\ ~Closed
      <4>1. Head(pending) \in Inputs /\ Head(pending) \in Steerable /\ active' # None
        BY <1>1, <2>1, <2>3, InputsAssumption DEF Elements
      <4> QED BY <1>3, <1>6, <4>1 DEF Closed, CanPump
    <3>4. OrderMoves
      BY <1>4, <1>6, <2>1, <2>3, <3>3 DEF OrderMoves, VerdictMoves, MarksStay, Closed
    <3> QED BY <3>2, <3>4 DEF Moved
  <2>4. CASE active' = None /\ Fail /\ UNCHANGED reserved
    <3>1. SlotMoves({}) /\ failed' /\ fault'
      BY <2>4 DEF SlotMoves, Fail
    <3>2. Moves({}, {}, D)
      BY <2>2, <3>1 DEF Moves
    <3>3. OrderMoves
      BY <1>4, <2>4, <3>1 DEF OrderMoves, VerdictMoves, MarksStay, Closed
    <3> QED BY <3>2, <3>3 DEF Moved
  <2> QED BY <1>6, <2>3, <2>4 DEF PumpFrom
<1> QED BY <1>5, <1>6 DEF PumpFrom

(* While the turn steers, an attempt with its verdict was injected. *)
LEMMA OpenMeansInjected ==
  ASSUME Core, active \in resolved
  PROVE  active \in injected \/ Closed
BY DEF Core, VerdictInv, Closed

LEMMA UnknownMoves ==
  ASSUME FullInv, Core, Unresolved, ResolveUnknown(active)
  PROVE  Moved /\ (~failed' => pending' = <<>>)
<1>1. CASE /\ Fail
           /\ UNCHANGED <<unknown, resolved, disabled, queueVars, active, pending,
                         reserved, folded, injected, untrackable>>
  <2>1. VerdictMoves({}, {}) /\ MarksStay /\ (failed => failed') /\ failed'
    BY <1>1 DEF VerdictMoves, MarksStay, Fail, queueVars
  <2> QED BY <1>1, <2>1, StayMoves DEF queueVars
<1>2. CASE /\ unknown' = unknown \cup {active}
           /\ resolved' = resolved \cup {active} /\ disabled' = TRUE
           /\ UNCHANGED <<reserved, folded, injected, untrackable>>
           /\ \E n \in Tries :
                /\ QueuePending(n)
                /\ IF n = Len(pending) THEN Vacate(active) /\ NoError
                                       ELSE UNCHANGED active /\ Fail
  <2> PICK n \in Tries : /\ QueuePending(n)
                         /\ IF n = Len(pending) THEN Vacate(active) /\ NoError
                                                ELSE UNCHANGED active /\ Fail
    BY <1>2
  <2>1. VerdictMoves({}, {active})
    BY <1>2 DEF VerdictMoves
  <2>2. MarksStay /\ (failed => failed') /\ (~failed' => n = Len(pending))
    BY <1>2, ErrorsStay, TakeMoves DEF MarksStay, Core, CoreTypeOK, Fail
  <2>3. /\ active' = active \/ (active' = None /\ active \in resolved' \cup {None})
        /\ Closed'
    BY <1>2 DEF Vacate, Closed
  <2>4. Moved
    BY <1>2, <2>1, <2>2, <2>3, QueueMoves
  <2> QED BY <2>2, <2>4, TakeMoves
<1> QED BY <1>1, <1>2 DEF ResolveUnknown

LEMMA InjectedMoves ==
  ASSUME FullInv, Core, Unresolved, ResolveInjected(active), ticket' = ticket
  PROVE  Moved
<1>1. CASE /\ Fail
           /\ UNCHANGED <<unknown, untrackable, disabled, injected, resolved,
                         queueVars, slotVars>>
  <2>1. /\ VerdictMoves({}, {}) /\ MarksStay /\ (failed => failed')
        /\ UNCHANGED <<loopPending, pending, active, reserved>>
    BY <1>1 DEF VerdictMoves, MarksStay, Fail, queueVars, slotVars
  <2> QED BY <2>1, StayMoves
<1>2. CASE /\ injected' = injected \cup {active} /\ resolved' = resolved \cup {active}
           /\ UNCHANGED <<unknown, untrackable, disabled>>
           /\ \/ /\ Vacate(active) /\ UNCHANGED reserved
                 /\ \E n \in Tries :
                      /\ QueuePending(n)
                      /\ IF n = Len(pending) THEN NoError ELSE ReturnError
              \/ PumpFrom(pending) /\ UNCHANGED queueVars
              \/ NoError /\ UNCHANGED <<queueVars, slotVars>>
  <2>1. VerdictMoves({}, {active})
    BY <1>2 DEF VerdictMoves
  <2>2. CASE /\ Vacate(active) /\ UNCHANGED reserved
             /\ \E n \in Tries :
                  /\ QueuePending(n)
                  /\ IF n = Len(pending) THEN NoError ELSE ReturnError
    <3> PICK n \in Tries : /\ QueuePending(n)
                           /\ IF n = Len(pending) THEN NoError ELSE ReturnError
      BY <2>2
    <3>1. MarksStay /\ (failed => failed') /\ (~failed' => n = Len(pending))
      BY <1>2, ErrorsStay, TakeMoves DEF MarksStay, Core, CoreTypeOK, ReturnError
    <3>2. /\ active' = active \/ (active' = None /\ active \in resolved' \cup {None})
          /\ active \in injected'
      BY <1>2, <2>2 DEF Vacate
    <3> QED BY <2>1, <2>2, <3>1, <3>2, QueueMoves
  <2>3. CASE PumpFrom(pending) /\ UNCHANGED queueVars
    BY <1>2, <2>1, <2>3, PumpMoves
  <2>4. CASE NoError /\ UNCHANGED <<queueVars, slotVars>>
    <3>1. /\ UNCHANGED <<loopPending, pending, active, reserved, fallbackBarrier>>
          /\ MarksStay /\ (failed => failed')
      BY <1>2, <2>4 DEF queueVars, slotVars, NoError, errorVars, MarksStay
    <3> QED BY <2>1, <3>1, StayMoves
  <2> QED BY <1>2, <2>2, <2>3, <2>4
<1> QED BY <1>1, <1>2 DEF ResolveInjected

LEMMA FallbackMoves ==
  ASSUME FullInv, Core, Unresolved, ResolveFallback(active)
  PROVE  Moved
<1>0. UNCHANGED <<reserved, injected, unknown, untrackable, disabled>> /\ fallbackBarrier' = TRUE
  BY DEF ResolveFallback
<1>1. CASE Fail /\ UNCHANGED <<loopPending, resolved, active, pending>>
  <2>1. VerdictMoves({}, {}) /\ MarksStay /\ (failed => failed')
    BY <1>0, <1>1 DEF VerdictMoves, MarksStay, Fail
  <2> QED BY <1>0, <1>1, <2>1, StayMoves
<1>2. CASE /\ resolved' = resolved \cup {active}
           /\ \E n \in Tries :
                /\ loopPending' = Append(loopPending, active) \o SubSeq(pending, 1, n)
                /\ pending' = SubSeq(pending, n + 2, Len(pending))
                /\ IF n = Len(pending) THEN Vacate(active) /\ NoError
                                       ELSE UNCHANGED active /\ Fail
  <2> PICK n \in Tries : 
        /\ loopPending' = Append(loopPending, active) \o SubSeq(pending, 1, n)
        /\ pending' = SubSeq(pending, n + 2, Len(pending))
        /\ IF n = Len(pending) THEN Vacate(active) /\ NoError
                               ELSE UNCHANGED active /\ Fail
    BY <1>2
  <2> DEFINE Q == {pending[k] : k \in 1..n}
             front == SubSeq(pending, 1, n)
             back == Append(loopPending, active)
  <2>1. MarksStay /\ (failed => failed') /\ (~failed' => n = Len(pending))
    BY <1>0, ErrorsStay DEF MarksStay, Core, CoreTypeOK, Fail
  <2>2. active' = active \/ active' = None
    BY DEF Vacate
  <2>3. loopPending' = back \o front /\ pending' = SubSeq(pending, n + 2, Len(pending))
    OBVIOUS
  <2>4. CoreTypeOK /\ WaitingInv
    BY DEF Core
  <2>5. /\ pending \in Seq(Inputs) /\ front \in Seq(Inputs)
        /\ Elements(front) = Q /\ Distinct(front) /\ Q \subseteq Elements(pending)
        /\ Elements(pending') \subseteq Elements(pending) \ Q
        /\ n = Len(pending) => pending' = <<>> /\ Q = Elements(pending)
    BY ONLY <2>3, <2>4, n \in Tries, TakeFacts
  <2>6. loopPending \in Seq(Inputs) /\ Distinct(loopPending) /\ active \in Inputs
    BY UnresolvedFacts, InputsAssumption DEF FullInv, PlaceInv, Core, CoreTypeOK, QueueTypeOK
  <2>7. active \notin Elements(loopPending) /\ active \notin Elements(pending)
    BY UnresolvedFacts DEF FullInv, PlaceInv, WaitingInv, Core, Elements
  <2>8. back \in Seq(Inputs) /\ Elements(back) = Elements(loopPending) \cup {active} /\ Distinct(back)
    BY ONLY <2>6, <2>7, AppendElements, AppendFacts
  <2>9. Elements(loopPending) \cap Elements(pending) = {}
    BY DEF FullInv, PlaceInv
  <2> HIDE DEF Q, front, back
  <2>10. Elements(back) \cap Elements(front) = {}
    BY <2>5, <2>7, <2>8, <2>9
  <2>11. Distinct(loopPending') /\ Elements(loopPending') = Elements(loopPending) \cup {active} \cup Q
    <3>1. /\ Elements(back \o front) = Elements(back) \cup Elements(front)
          /\ Distinct(back \o front)
      BY ONLY <2>5, <2>8, <2>10, ConcatElements
    <3>2. loopPending' = back \o front
      BY <2>3
    <3> QED BY ONLY <2>5, <2>8, <3>1, <3>2, Zenon
  <2>12. LineMoves(Q, {active})
    BY <2>5, <2>11 DEF LineMoves
  <2>13. VerdictMoves({active}, {active})
    BY <1>0, <1>2 DEF VerdictMoves
  <2>14. Moves(Q, {active}, {active})
    BY <1>2, <2>1, <2>2, <2>5, <2>12, <2>13 DEF Moves, SlotMoves
  <2>15. OrderMoves
    BY <1>0, <2>1 DEF OrderMoves, Closed
  <2> QED BY <2>14, <2>15 DEF Moved
<1> QED BY <1>0, <1>1, <1>2 DEF ResolveFallback

LEMMA UntrackableMoves ==
  ASSUME FullInv, Core, Unresolved, ResolveUntrackable(active)
  PROVE  Moved
<1>1. /\ UNCHANGED <<loopPending, fallbackBarrier, active, pending, reserved, injected, unknown>>
      /\ fault' = TRUE /\ failed' = TRUE
  BY DEF ResolveUntrackable, Fail, queueVars, slotVars
<1>2. CASE /\ untrackable' = untrackable \cup {active} /\ resolved' = resolved \cup {active}
           /\ disabled' = TRUE
  <2>1. VerdictMoves({}, {active}) /\ MarksStay
    BY <1>1, <1>2 DEF VerdictMoves, MarksStay
  <2> QED BY <1>1, <2>1, StayMoves
<1>3. CASE UNCHANGED <<untrackable, resolved, disabled>>
  <2>1. VerdictMoves({}, {}) /\ MarksStay
    BY <1>1, <1>3 DEF VerdictMoves, MarksStay
  <2> QED BY <1>1, <2>1, StayMoves
<1> QED BY <1>2, <1>3 DEF ResolveUntrackable

LEMMA AdjudicateMoves ==
  ASSUME FullInv, Core, Unresolved, NEW r, Adjudicate(active, r), ticket' = ticket
  PROVE  Moved
BY InjectedMoves, FallbackMoves, UnknownMoves, UntrackableMoves DEF Adjudicate

(* A step that moves inputs as above keeps the places and the order. *)
LEMMA MovedKeeps ==
  ASSUME FullInv, Core, UNCHANGED <<ticket, accepted, retracted>>, Moved,
         stage' # "running" /\ ~failed' => pending' = <<>>
  PROVE  PlaceInv' /\ KeepInv' /\ LineInv'
<1> PICK Q, A, D : Moves(Q, A, D)
  BY DEF Moved
<1> QED BY MovesKeepPlaces, MovesKeepInputs, OrderKeeps DEF Moved

LEMMA LiveKeeps ==
  ASSUME FullInv, Live, stage' = stage, IInv', Core => Moved,
         UNCHANGED <<ticket, accepted, retracted>>
  PROVE  FullInv'
<1>1. Core /\ stage' = "running"
  BY InvSplit DEF FullInv, Live
<1> QED BY <1>1, MovedKeeps DEF FullInv

(* Nothing moves. *)
LEMMA QuietKeeps ==
  ASSUME FullInv, IInv', UNCHANGED <<ticket, accepted, retracted, loopPending, pending, active>>,
         UNCHANGED <<injected, unknown, untrackable, resolved, reserved>>,
         UNCHANGED <<fault, failed, disabled, fallbackBarrier, stage>>
  PROVE  FullInv'
<1>1. PlaceInv'
  BY DEF FullInv, PlaceInv
<1>2. KeepInv'
  BY DEF FullInv, KeepInv
<1>3. LineInv'
  BY DEF FullInv, LineInv, Closed, SteeredInOrder
<1> QED BY <1>1, <1>2, <1>3 DEF FullInv

LEMMA SetStreamKeeps ==
  ASSUME FullInv, IInv', NEW isOrdered \in BOOLEAN, SetStream(isOrdered)
  PROVE  FullInv'
<1>1. /\ Live /\ stage' = stage /\ UNCHANGED <<ticket, accepted, retracted>>
      /\ UNCHANGED <<injected, unknown, untrackable, resolved, disabled>>
  BY DEF SetStream, acceptVars, verdictVars
<1>2. VerdictMoves({}, {})
  BY <1>1 DEF VerdictMoves
<1>3. ASSUME Core PROVE Moved
  <2>1. ASSUME NEW n \in Tries, QueuePending(n), IF n = Len(pending) THEN NoError ELSE Fail,
               UNCHANGED <<active, reserved>>
        PROVE  Moved
    <3>1. MarksStay /\ (failed => failed') /\ (~failed' => n = Len(pending))
      BY <1>1, <1>3, <2>1, ErrorsStay, TakeMoves DEF MarksStay, Core, CoreTypeOK, Fail
    <3> QED BY <1>2, <1>3, <2>1, <3>1, QueueMoves
  <2>2. CASE active = None /\ PumpFrom(pending) /\ UNCHANGED queueVars
    BY <1>1, <1>2, <1>3, <2>2, PumpMoves
  <2> QED BY <2>1, <2>2 DEF SetStream
<1> QED BY <1>1, <1>3, LiveKeeps

LEMMA CompleteKeeps ==
  ASSUME FullInv, IInv', NEW a \in Steerable, NEW r \in Results, Complete(a, r)
  PROVE  FullInv'
<1>1. /\ Live /\ stage' = stage /\ UNCHANGED <<ticket, accepted, retracted>>
      /\ a = active /\ active # None
  BY DEF Complete, acceptVars
<1>2. CASE UNCHANGED <<queueVars, clockVars, slotVars, verdictVars, errorVars>>
  <2>1. /\ UNCHANGED <<loopPending, pending, active, fault, failed, disabled, fallbackBarrier>>
        /\ UNCHANGED <<injected, unknown, untrackable, resolved, reserved>>
    BY <1>2 DEF queueVars, slotVars, verdictVars, errorVars
  <2> QED BY <1>1, <2>1, QuietKeeps
<1>3. CASE a \notin resolved /\ Adjudicate(a, r)
  BY <1>1, <1>3, AdjudicateMoves, LiveKeeps DEF Unresolved
<1>4. CASE a \in resolved /\ PumpFrom(pending) /\ UNCHANGED <<queueVars, verdictVars>>
  <2>1. VerdictMoves({}, {}) /\ UNCHANGED <<resolved, disabled, injected>>
    BY <1>4 DEF VerdictMoves, verdictVars
  <2>2. ASSUME Core PROVE Moved
    BY <1>1, <1>4, <2>1, <2>2, PumpMoves, OpenMeansInjected
  <2> QED BY <1>1, <2>2, LiveKeeps
<1> QED BY <1>2, <1>3, <1>4 DEF Complete

LEMMA MarkTerminalKeeps ==
  ASSUME FullInv, IInv', MarkTerminal
  PROVE  FullInv'
<1>1. Live /\ stage' = stage /\ UNCHANGED <<ticket, accepted, retracted>>
  BY DEF MarkTerminal, acceptVars
<1>2. CASE Unresolved /\ Adjudicate(active, result[active])
  BY <1>1, <1>2, AdjudicateMoves, LiveKeeps
<1>3. ASSUME NEW n \in Tries, QueuePending(n), IF n = Len(pending) THEN NoError ELSE ReturnError,
             UNCHANGED <<active, reserved, verdictVars>>, Core
      PROVE  Moved
  <2>1. VerdictMoves({}, {}) /\ disabled' = disabled
    BY <1>3 DEF VerdictMoves, verdictVars
  <2>2. MarksStay /\ (failed => failed') /\ (~failed' => n = Len(pending))
    BY <1>3, <2>1, ErrorsStay, TakeMoves DEF MarksStay, Core, CoreTypeOK, ReturnError
  <2> QED BY <1>3, <2>1, <2>2, QueueMoves
<1> QED BY <1>1, <1>2, <1>3, LiveKeeps DEF MarkTerminal

LEMMA DeadlineTimeoutKeeps ==
  ASSUME FullInv, IInv', DeadlineTimeout
  PROVE  FullInv'
<1>1. Live /\ stage' = stage /\ UNCHANGED <<ticket, accepted, retracted>> /\ active # None
  BY DEF DeadlineTimeout, acceptVars
<1>2. CASE active \notin resolved /\ ResolveUnknown(active)
  BY <1>1, <1>2, UnknownMoves, LiveKeeps DEF Unresolved
<1>3. CASE active \in resolved /\ PumpFrom(pending) /\ UNCHANGED <<queueVars, verdictVars>>
  <2>1. VerdictMoves({}, {}) /\ UNCHANGED <<resolved, disabled, injected>>
    BY <1>3 DEF VerdictMoves, verdictVars
  <2>2. ASSUME Core PROVE Moved
    BY <1>1, <1>3, <2>1, <2>2, PumpMoves, OpenMeansInjected
  <2> QED BY <1>1, <2>2, LiveKeeps
<1> QED BY <1>2, <1>3 DEF DeadlineTimeout

LEMMA ShutdownKeeps ==
  ASSUME FullInv, IInv', Shutdown
  PROVE  FullInv'
<1>1. Core /\ UNCHANGED <<ticket, accepted, retracted>>
  BY InvSplit DEF FullInv, Shutdown, acceptVars
<1>2. CASE Unresolved /\ ResolveUnknown(active)
  BY <1>1, <1>2, UnknownMoves, MovedKeeps DEF FullInv
<1>3. CASE /\ active \in resolved /\ active' = None
           /\ Fail /\ UNCHANGED <<queueVars, pending, reserved, verdictVars>>
  <2>1. /\ VerdictMoves({}, {}) /\ MarksStay /\ failed' /\ Closed'
        /\ UNCHANGED <<loopPending, pending, reserved, resolved>>
    BY <1>3 DEF VerdictMoves, MarksStay, Closed, Fail, queueVars, verdictVars
  <2>2. Moved
    BY <1>1, <1>3, <2>1, StayMoves
  <2> QED BY <1>1, <2>1, <2>2, MovedKeeps DEF FullInv
<1>4. ASSUME ~Unresolved, active' = None, NEW n \in Tries, QueuePending(n),
             IF n = Len(pending) THEN NoError ELSE ReturnError, UNCHANGED <<reserved, verdictVars>>
      PROVE  FullInv'
  <2>1. VerdictMoves({}, {}) /\ UNCHANGED <<resolved, disabled, injected>>
    BY <1>4 DEF VerdictMoves, verdictVars
  <2>2. MarksStay /\ (failed => failed') /\ (~failed' => n = Len(pending))
    BY <1>1, <1>4, <2>1, ErrorsStay, TakeMoves DEF MarksStay, Core, CoreTypeOK, ReturnError
  <2>3. active \in resolved' \cup {None} /\ (active \in injected' \cup {None} \/ Closed')
    BY <1>1, <1>4, <2>1, <2>2, OpenMeansInjected DEF Unresolved, MarksStay, Closed
  <2>4. Moved
    BY <1>1, <1>4, <2>1, <2>2, <2>3, QueueMoves
  <2> QED BY <1>1, <1>4, <2>2, <2>4, MovedKeeps, TakeMoves DEF FullInv
<1> QED BY <1>2, <1>3, <1>4 DEF Shutdown

LEMMA CleanupKeeps ==
  ASSUME FullInv, IInv', Cleanup
  PROVE  FullInv'
<1>1. /\ UNCHANGED <<ticket, accepted, retracted, loopPending, reserved>>
      /\ UNCHANGED <<injected, unknown, untrackable, resolved, disabled, fallbackBarrier>>
      /\ fault' = fault /\ failed' = failed /\ stage = "finalized"
      /\ active' = None /\ pending' = <<>>
  BY DEF Cleanup, acceptVars, queueVars, verdictVars, errorVars
<1>2. Core /\ (~fault => active = None) /\ (fault => failed) /\ (~failed => pending = <<>>)
  BY <1>1, InvSplit DEF FullInv, KeepInv, StageInv
<1>3. Elements(pending') = {}
  BY <1>1 DEF Elements
<1>4. LineMoves({}, {}) /\ VerdictMoves({}, {})
  BY <1>1, <1>3 DEF LineMoves, VerdictMoves, FullInv, PlaceInv
<1>5. Moves({}, {}, {})
  BY <1>1, <1>2, <1>4 DEF Moves, SlotMoves
<1>6. OrderMoves
  BY <1>1, <1>2 DEF OrderMoves, Closed
<1> QED BY <1>1, <1>2, <1>5, <1>6, MovedKeeps DEF Moved, FullInv

(* What retracting inputs of l.pending leaves behind it. *)
LEMMA SuffixElements ==
  ASSUME NEW S, NEW p \in Seq(S), NEW n \in 0..Len(p)
  PROVE  LET q == SubSeq(p, n + 1, Len(p)) IN
         /\ q \in Seq(S) /\ Elements(q) = {p[k] : k \in (n + 1)..Len(p)}
         /\ Distinct(p) => Distinct(q)
<1> DEFINE q == SubSeq(p, n + 1, Len(p))
<1>1. /\ q \in Seq(S) /\ Len(q) = Len(p) - n /\ Len(p) \in Nat /\ n \in Nat
      /\ \A k \in 1..Len(q) : q[k] = p[n + k] /\ n + k \in (n + 1)..Len(p) /\ n + k \in 1..Len(p)
  OBVIOUS
<1> HIDE DEF q
<1>2. Elements(q) \subseteq {p[k] : k \in (n + 1)..Len(p)}
  BY <1>1 DEF Elements
<1>3. ASSUME NEW k \in (n + 1)..Len(p) PROVE p[k] \in Elements(q)
  <2>1. k - n \in 1..Len(q) /\ n + (k - n) = k
    BY <1>1
  <2> QED BY <1>1, <2>1 DEF Elements
<1>4. ASSUME Distinct(p) PROVE Distinct(q)
  <2> SUFFICES ASSUME NEW j \in 1..Len(q), NEW k \in 1..Len(q), q[j] = q[k] PROVE j = k
    BY DEF Distinct
  <2>1. n + j = n + k
    BY <1>1, <1>4 DEF Distinct
  <2> QED BY <1>1, <2>1
<1> QED BY <1>1, <1>2, <1>3, <1>4 DEF q

(* The inputs X leave l.pending by a cancellation. *)
LEMMA RetractKeeps ==
  ASSUME FullInv, IInv', NEW X, X \subseteq Elements(loopPending),
         Elements(loopPending') = Elements(loopPending) \ X, Distinct(loopPending'),
         retracted' = retracted \cup X,
         UNCHANGED <<ticket, accepted, pending, active>>,
         UNCHANGED <<injected, unknown, untrackable, resolved, reserved>>,
         UNCHANGED <<fault, failed, disabled, fallbackBarrier, stage>>
  PROVE  FullInv'
<1>1. PlaceInv'
  BY DEF FullInv, PlaceInv
<1>2. KeepInv'
  BY DEF FullInv, KeepInv
<1>3. LineInv'
  BY DEF FullInv, LineInv, Closed, SteeredInOrder
<1> QED BY <1>1, <1>2, <1>3 DEF FullInv

LEMMA CancelQueuedKeeps ==
  ASSUME FullInv, IInv', NEW k \in 1..Len(loopPending), CancelQueued(k)
  PROVE  FullInv'
<1> DEFINE front == SubSeq(loopPending, 1, k - 1)
           back == SubSeq(loopPending, k + 1, Len(loopPending))
<1>1. loopPending \in Seq(Inputs) /\ Distinct(loopPending) /\ Len(loopPending) \in Nat
  BY DEF FullInv, IInv, TypeOK, QueueTypeOK, PlaceInv
<1>2. k - 1 \in 0..Len(loopPending) /\ k \in 0..Len(loopPending)
  BY <1>1
<1>3. /\ front \in Seq(Inputs) /\ Elements(front) = {loopPending[j] : j \in 1..(k - 1)}
      /\ Distinct(front)
  BY <1>1, <1>2, PrefixElements
<1>4. /\ back \in Seq(Inputs)
      /\ Elements(back) = {loopPending[j] : j \in (k + 1)..Len(loopPending)}
      /\ Distinct(back)
  BY <1>1, <1>2, SuffixElements
<1>5. loopPending' = front \o back
  BY DEF CancelQueued
<1> HIDE DEF front, back
<1>6. \A j \in 1..Len(loopPending) :
        j \in 1..(k - 1) \/ j = k \/ j \in (k + 1)..Len(loopPending)
  BY <1>1
<1>7. /\ \A j \in 1..(k - 1) : j \in 1..Len(loopPending) /\ j < k
      /\ \A j \in (k + 1)..Len(loopPending) : j \in 1..Len(loopPending) /\ j > k
  BY <1>1
<1>8. Elements(front) \cap Elements(back) = {} /\ loopPending[k] \notin Elements(front) \cup Elements(back)
  BY <1>1, <1>3, <1>4, <1>7 DEF Distinct
<1>9. Elements(loopPending) = Elements(front) \cup Elements(back) \cup {loopPending[k]}
  <2>1. Elements(loopPending) \subseteq Elements(front) \cup Elements(back) \cup {loopPending[k]}
    BY <1>3, <1>4, <1>6 DEF Elements
  <2>2. Elements(front) \cup Elements(back) \cup {loopPending[k]} \subseteq Elements(loopPending)
    BY <1>3, <1>4, <1>7 DEF Elements
  <2> QED BY <2>1, <2>2
<1>10. /\ Elements(front \o back) = Elements(front) \cup Elements(back)
       /\ Distinct(front \o back)
  <2>1. front \in Seq(Inputs) /\ back \in Seq(Inputs) /\ Distinct(front) /\ Distinct(back)
    BY ONLY <1>3, <1>4
  <2>2. Elements(front) \cap Elements(back) = {}
    BY ONLY <1>8
  <2> QED BY ONLY <2>1, <2>2, ConcatElements
<1>11. /\ Elements(loopPending') = Elements(loopPending) \ {loopPending[k]}
       /\ Distinct(loopPending')
  <2>1. Elements(front \o back) = Elements(loopPending) \ {loopPending[k]}
    BY ONLY <1>8, <1>9, <1>10
  <2> QED BY ONLY <1>5, <1>10, <2>1, Zenon
<1>12. /\ retracted' = retracted \cup {loopPending[k]}
       /\ UNCHANGED <<ticket, accepted, pending, active>>
       /\ UNCHANGED <<injected, unknown, untrackable, resolved, reserved>>
       /\ UNCHANGED <<fault, failed, disabled, fallbackBarrier, stage>>
  BY DEF CancelQueued, acceptVars, slotVars, verdictVars, errorVars
<1> QED BY <1>9, <1>11, <1>12, RetractKeeps

LEMMA FlushKeeps ==
  ASSUME FullInv, IInv', NEW n \in 1..Len(loopPending), Flush(n)
  PROVE  FullInv'
<1> DEFINE back == SubSeq(loopPending, n + 1, Len(loopPending))
           X == {loopPending[k] : k \in 1..n}
<1>1. /\ loopPending \in Seq(Inputs) /\ Distinct(loopPending) /\ Len(loopPending) \in Nat
      /\ n \in 0..Len(loopPending)
  BY DEF FullInv, IInv, TypeOK, QueueTypeOK, PlaceInv
<1>2. /\ Elements(back) = {loopPending[j] : j \in (n + 1)..Len(loopPending)}
      /\ Distinct(back)
  BY <1>1, SuffixElements
<1>3. loopPending' = back
  BY DEF Flush
<1> HIDE DEF back
<1>4. \A j \in 1..Len(loopPending) : j \in 1..n \/ j \in (n + 1)..Len(loopPending)
  BY <1>1
<1>5. /\ \A j \in 1..n : j \in 1..Len(loopPending) /\ j <= n
      /\ \A j \in (n + 1)..Len(loopPending) : j \in 1..Len(loopPending) /\ j > n
  BY <1>1
<1>6. X \cap Elements(back) = {}
  BY <1>1, <1>2, <1>5 DEF Distinct
<1>7. Elements(loopPending) = X \cup Elements(back)
  <2>1. Elements(loopPending) \subseteq X \cup Elements(back)
    BY <1>2, <1>4 DEF Elements
  <2>2. X \cup Elements(back) \subseteq Elements(loopPending)
    BY <1>2, <1>5 DEF Elements
  <2> QED BY <2>1, <2>2
<1>8. /\ retracted' = retracted \cup X
      /\ UNCHANGED <<ticket, accepted, pending, active>>
      /\ UNCHANGED <<injected, unknown, untrackable, resolved, reserved>>
      /\ UNCHANGED <<fault, failed, disabled, fallbackBarrier, stage>>
  BY DEF Flush, acceptVars, slotVars, verdictVars, errorVars
<1> HIDE DEF X
<1> QED BY <1>2, <1>3, <1>6, <1>7, <1>8, RetractKeeps

(* offer: an input that is accepted is new to every queue and every verdict. *)
LEMMA OfferKeeps ==
  ASSUME FullInv, IInv', NEW i \in Inputs, Offer(i)
  PROVE  FullInv'
<1>1. Core /\ ~failed /\ ~fault /\ stage = "running"
  BY InvSplit DEF FullInv, Offer, Live, StageInv
<1>2. /\ UNCHANGED <<injected, unknown, untrackable, resolved, disabled, retracted, stage>>
      /\ terminal' = terminal
  BY DEF Offer, verdictVars
<1>3. /\ ticket[i] = 0 /\ ticket'[i] = accepted + 1 /\ accepted' = accepted + 1 /\ accepted \in Nat
      /\ \A j \in Inputs : /\ ticket[j] \in Nat /\ ticket[j] <= accepted
                           /\ j # i => ticket'[j] = ticket[j]
  BY DEF FullInv, LineInv, IInv, TypeOK, Offer, Accept
<1>4. \A j \in Inputs : ticket'[j] \in Nat /\ ticket'[j] <= accepted'
  BY <1>3
<1>5. /\ loopPending \in Seq(Inputs) /\ pending \in Seq(Inputs) /\ retracted \subseteq Inputs
      /\ reserved \subseteq Inputs /\ active \in Inputs \cup {None} /\ None \notin Inputs
      /\ i # None
  BY InputsAssumption DEF FullInv, IInv, TypeOK, QueueTypeOK, SlotTypeOK
<1>6. /\ Elements(loopPending) \subseteq Inputs /\ Elements(pending) \subseteq Inputs
      /\ Distinct(pending) /\ Distinct(loopPending)
  BY <1>1, <1>5 DEF Elements, Distinct, Core, WaitingInv, FullInv, PlaceInv
<1>7. i \notin Elements(loopPending) \cup Elements(pending) \cup retracted \cup reserved
              \cup injected \cup unknown \cup untrackable \cup resolved \cup {active}
  <2>1. /\ \A j \in reserved : ticket[j] > 0
        /\ injected \cup unknown \cup untrackable \cup resolved \subseteq reserved
        /\ active # None => active \in reserved
        /\ \A j \in Elements(pending) \cup Elements(loopPending) \cup retracted : ticket[j] > 0
    BY <1>1 DEF Core, WaitingInv, VerdictInv, FullInv, PlaceInv, Elements
  <2> QED BY <1>3, <1>5, <2>1
<1>8. \A j, k \in Inputs : 0 < ticket'[j] /\ ticket'[j] < ticket'[k] => j # i
  BY <1>3
<1>9. \A j, k \in Inputs : 0 < ticket'[j] /\ ticket'[j] < ticket'[k] /\ k \in reserved
                             => j \in injected' \cup retracted'
  <2> SUFFICES ASSUME NEW j \in Inputs, NEW k \in Inputs, 0 < ticket'[j],
                      ticket'[j] < ticket'[k], k \in reserved
               PROVE  j \in injected' \cup retracted'
    OBVIOUS
  <2>1. k # i /\ j # i
    BY <1>7, <1>8
  <2> QED BY <1>2, <1>3, <2>1 DEF FullInv, LineInv, SteeredInOrder
<1>10. \A j \in Inputs : ticket'[j] > 0 =>
         j \in Elements(loopPending) \cup Elements(pending) \cup {active, i}
               \cup injected \cup unknown \cup retracted
  BY <1>1, <1>3 DEF FullInv, KeepInv
<1>11. ~Closed => \A k \in 1..Len(pending), j \in Inputs :
         0 < ticket'[j] /\ ticket'[j] < ticket'[pending[k]] =>
           j \in injected \cup retracted \cup {active} \cup {pending[l] : l \in 1..(k - 1)}
  <2> SUFFICES ASSUME ~Closed, NEW k \in 1..Len(pending), NEW j \in Inputs, 0 < ticket'[j],
                      ticket'[j] < ticket'[pending[k]]
               PROVE  j \in injected \cup retracted \cup {active} \cup {pending[l] : l \in 1..(k - 1)}
    OBVIOUS
  <2>1. pending[k] \in Inputs /\ pending[k] # i /\ j # i
    BY <1>5, <1>7, <1>8 DEF Elements
  <2>2. 0 < ticket[j] /\ ticket[j] < ticket[pending[k]]
    BY <1>3, <2>1
  <2> QED BY <2>2 DEF FullInv, LineInv
<1>12. CASE /\ UNCHANGED <<active, pending, reserved>>
            /\ \/ loopPending' = Append(loopPending, i)
               \/ loopPending' = loopPending /\ failed'
            /\ failed => failed'
            /\ Closed => Closed'
  <2>1. /\ Distinct(loopPending') 
        /\ \/ Elements(loopPending') = Elements(loopPending) \cup {i}
           \/ Elements(loopPending') = Elements(loopPending) /\ failed'
    <3>1. CASE loopPending' = Append(loopPending, i)
      <4>1. /\ Elements(Append(loopPending, i)) = Elements(loopPending) \cup {i}
            /\ Distinct(Append(loopPending, i))
        BY ONLY <1>5, <1>6, <1>7, AppendElements, i \in Inputs
      <4> QED BY ONLY <3>1, <4>1, Zenon
    <3>2. CASE loopPending' = loopPending /\ failed'
      BY <1>6, <3>2
    <3> QED BY <1>12, <3>1, <3>2
  <2>2. PlaceInv'
    <3>1. \A j \in Elements(loopPending') \cup retracted' : ticket'[j] > 0
      BY <1>2, <1>3, <1>5, <1>6, <1>7, <2>1 DEF FullInv, PlaceInv
    <3>2. Elements(loopPending') \cap (Elements(pending) \cup injected \cup unknown
                                          \cup untrackable \cup retracted)' = {}
      BY <1>2, <1>7, <1>12, <2>1 DEF FullInv, PlaceInv
    <3>3. retracted' \cap Elements(pending') = {}
      BY <1>2, <1>12 DEF FullInv, PlaceInv
    <3>4. active' \notin resolved' => active' \notin Elements(loopPending') \cup retracted'
      BY <1>2, <1>7, <1>12, <2>1 DEF FullInv, PlaceInv
    <3> QED BY <2>1, <3>1, <3>2, <3>3, <3>4 DEF PlaceInv
  <2>3. KeepInv'
    BY <1>1, <1>2, <1>10, <1>12, <2>1 DEF FullInv, KeepInv
  <2>4. LineInv'
    <3>1. SteeredInOrder'
      BY <1>9, <1>12 DEF SteeredInOrder
    <3> QED BY <1>2, <1>4, <1>11, <1>12, <3>1 DEF LineInv
  <2> QED BY <2>2, <2>3, <2>4 DEF FullInv
<1>13. CASE /\ i \in Delegates /\ ~QueuesDirectly(i) /\ UNCHANGED queueVars
            /\ IF streamKnown /\ active = None
               THEN PumpFrom(Append(pending, i))
               ELSE /\ pending' = Append(pending, i)
                    /\ NoError /\ UNCHANGED <<active, reserved>>
  <2> DEFINE p == Append(pending, i)
  <2>1. /\ loopPending = <<>> /\ ~Closed /\ loopPending' = <<>>
        /\ unknown = {} /\ Elements(loopPending) = {} /\ Elements(loopPending') = {}
    BY <1>1, <1>13 DEF QueuesDirectly, queueVars, Closed, Core, VerdictInv, Elements
  <2>2. /\ p \in Seq(Inputs) /\ Elements(p) = Elements(pending) \cup {i} /\ Distinct(p)
        /\ p # <<>>
    BY ONLY <1>5, <1>6, <1>7, AppendElements, AppendFacts, i \in Inputs
  <2>3. \A k \in 1..Len(p), j \in Inputs :
          0 < ticket'[j] /\ ticket'[j] < ticket'[p[k]] =>
            j \in injected' \cup retracted' \cup {active} \cup {p[l] : l \in 1..(k - 1)}
    <3> SUFFICES ASSUME NEW k \in 1..Len(p), NEW j \in Inputs, 0 < ticket'[j],
                        ticket'[j] < ticket'[p[k]], j # i
                 PROVE  j \in injected \cup retracted \cup {active} \cup {p[l] : l \in 1..(k - 1)}
      <4>1. \A k \in 1..Len(p) : p[k] \in Inputs
        BY <2>2
      <4> QED BY <1>2, <1>8, <4>1
    <3>1. /\ Len(p) = Len(pending) + 1 /\ Len(pending) \in Nat
          /\ \A l \in 1..Len(pending) : p[l] = pending[l]
      BY <1>5, AppendFacts
    <3>2. CASE k \in 1..Len(pending)
      <4>1. j \in injected \cup retracted \cup {active} \cup {pending[l] : l \in 1..(k - 1)}
        BY <1>11, <2>1, <3>1, <3>2
      <4>2. \A l \in 1..(k - 1) : p[l] = pending[l]
        BY <3>1, <3>2
      <4> QED BY <4>1, <4>2
    <3>3. CASE k = Len(pending) + 1
      <4>1. j \in Elements(pending) \cup {active} \cup injected \cup retracted
        BY <1>10, <2>1
      <4>2. \A l \in 1..Len(pending) : l \in 1..(k - 1) /\ p[l] = pending[l]
        BY <3>1, <3>3
      <4> QED BY <4>1, <4>2 DEF Elements
    <3> QED BY <3>1, <3>2, <3>3
  <2> HIDE DEF p
  <2>4. CASE pending' = p /\ NoError /\ UNCHANGED <<active, reserved>>
    <3>1. fault' = fault /\ failed' = failed /\ UNCHANGED fallbackBarrier
      BY <1>13, <2>4 DEF NoError, errorVars, queueVars
    <3>2. PlaceInv'
      <4>1. \A j \in retracted' : ticket'[j] > 0 /\ j \notin Elements(pending') /\ j # i
        BY <1>2, <1>3, <1>5, <1>7, <2>2, <2>4 DEF FullInv, PlaceInv
      <4>2. Distinct(loopPending')
        BY <2>1 DEF Distinct
      <4> QED BY <1>2, <2>1, <2>4, <4>1, <4>2 DEF FullInv, PlaceInv
    <3>3. KeepInv'
      BY <1>1, <1>2, <1>10, <2>1, <2>2, <2>4, <3>1 DEF FullInv, KeepInv
    <3>4. SteeredInOrder'
      BY <1>9, <2>4 DEF SteeredInOrder
    <3>5. LineInv'
      BY <1>4, <2>3, <2>4, <3>4 DEF LineInv
    <3> QED BY <3>2, <3>3, <3>5 DEF FullInv
  <2>5. CASE PumpFrom(p) /\ active = None
    <3>1. CanPump(p)
      BY <1>1, <1>2, <1>13, <2>2 DEF CanPump, QueuesDirectly
    <3>2. /\ pending' = Tail(p) /\ Head(p) \in Elements(p) /\ Head(p) \notin Elements(pending')
          /\ Elements(p) = Elements(pending') \cup {Head(p)}
          /\ \/ active' = Head(p) /\ reserved' = reserved \cup {Head(p)} /\ failed' = failed
             \/ active' = None /\ reserved' = reserved /\ fault' = TRUE /\ failed' = TRUE
      <4>1. /\ Head(p) \in Elements(p) /\ Head(p) \notin Elements(Tail(p))
            /\ Elements(p) = Elements(Tail(p)) \cup {Head(p)}
        BY ONLY <2>2, HeadElements
      <4> QED BY <2>5, <3>1, <4>1 DEF PumpFrom, NoError, Fail, errorVars
    <3>3. PlaceInv'
      <4>1. \A j \in retracted' : ticket'[j] > 0 /\ j \notin Elements(p) /\ j # i
        BY <1>2, <1>3, <1>5, <1>7, <2>2 DEF FullInv, PlaceInv
      <4>2. Distinct(loopPending') /\ None \notin retracted'
        BY <1>2, <1>5, <2>1 DEF Distinct
      <4> QED BY <1>2, <2>1, <3>2, <4>1, <4>2 DEF PlaceInv
    <3>4. KeepInv'
      <4>1. ASSUME ~failed', NEW j \in Inputs, ticket'[j] > 0
            PROVE  j \in Elements(pending') \cup {active'} \cup injected' \cup unknown' \cup retracted'
        BY <1>2, <1>5, <1>10, <2>1, <2>2, <2>5, <3>2, <4>1
      <4>2. ~failed' => resolved' \subseteq injected' \cup unknown' \cup retracted'
        BY <1>1, <1>2, <2>1 DEF FullInv, KeepInv
      <4> QED BY <1>1, <1>2, <4>1, <4>2 DEF KeepInv
    <3>5. LineInv'
      <4>1. CASE active' = Head(p) /\ reserved' = reserved \cup {Head(p)}
        <5>1. \A k \in 1..Len(p), j \in Inputs :
                0 < ticket'[j] /\ ticket'[j] < ticket'[p[k]] =>
                  j \in injected' \cup retracted' \cup {p[l] : l \in 1..(k - 1)}
          BY <1>5, <2>3, <2>5
        <5>2. /\ SteeredInOrder'
              /\ \A k \in 1..Len(pending'), j \in Inputs :
                   0 < ticket'[j] /\ ticket'[j] < ticket'[pending'[k]] =>
                     j \in (injected \cup retracted \cup {active} \cup {pending[l] : l \in 1..(k - 1)})'
          BY <1>9, <2>2, <3>2, <4>1, <5>1, HeadSteered
        <5> QED BY <1>4, <5>2 DEF LineInv
      <4>2. CASE reserved' = reserved /\ fault' = TRUE
        BY <1>4, <1>9, <4>2 DEF LineInv, SteeredInOrder, Closed
      <4> QED BY <3>2, <4>1, <4>2
    <3> QED BY <3>3, <3>4, <3>5 DEF FullInv
  <2> QED BY <1>13, <2>4, <2>5 DEF p
<1>14. CASE /\ loopPending' = Append(loopPending, i)
            /\ UNCHANGED <<fallback, fallbackBarrier, slotVars, errorVars>>
  <2>1. UNCHANGED <<active, pending, reserved, fallbackBarrier>> /\ fault' = fault /\ failed' = failed
    BY <1>14 DEF slotVars, errorVars
  <2> QED BY <1>2, <1>12, <1>14, <2>1 DEF Closed
<1>15. CASE /\ fallbackBarrier' = TRUE /\ UNCHANGED slotVars
            /\ \/ loopPending' = Append(loopPending, i) /\ NoError
               \/ ReturnError /\ UNCHANGED loopPending
  <2>1. /\ UNCHANGED <<active, pending, reserved>> /\ Closed'
        /\ failed => failed'
        /\ loopPending' = Append(loopPending, i) \/ (loopPending' = loopPending /\ failed')
    BY <1>1, <1>15 DEF slotVars, Closed, ReturnError
  <2> QED BY <1>12, <2>1
<1> QED BY <1>13, <1>14, <1>15 DEF Offer

LEMMA InitFull == Init => FullInv
<1> SUFFICES ASSUME Init PROVE FullInv
  OBVIOUS
<1>1. /\ loopPending = Backlog /\ pending = <<>> /\ active = None /\ retracted = {}
      /\ injected = {} /\ unknown = {} /\ untrackable = {} /\ resolved = {} /\ reserved = {}
      /\ stage = "running" /\ accepted = Len(Backlog) /\ ticket \in [Inputs -> 0..Len(Backlog)]
      /\ \A k \in 1..Len(Backlog) : ticket[Backlog[k]] = k
      /\ \A i \in Inputs \ Elements(Backlog) : ticket[i] = 0
  BY DEF Init
<1>2. /\ Distinct(Backlog) /\ Elements(Backlog) \subseteq Inputs /\ Len(Backlog) \in Nat
      /\ \A i \in Elements(Backlog) : ticket[i] > 0
  BY <1>1, BacklogAssumption DEF Distinct, Elements
<1>3. Elements(pending) = {}
  BY <1>1 DEF Elements
<1>4. PlaceInv
  BY <1>1, <1>2, <1>3, InputsAssumption DEF PlaceInv
<1>5. KeepInv
  BY <1>1, <1>2 DEF KeepInv
<1>6. LineInv
  <2>1. \A i \in Inputs : ticket[i] <= accepted
    BY <1>1, <1>2
  <2>2. \A k \in 1..Len(pending) : FALSE
    BY <1>1
  <2> QED BY <1>1, <2>1, <2>2 DEF LineInv, SteeredInOrder
<1> QED BY <1>4, <1>5, <1>6, InitInv DEF FullInv

LEMMA StepFull ==
  ASSUME FullInv, [MachineNext]_mvars
  PROVE  FullInv'
<1>0. IInv'
  BY StepInv DEF FullInv
<1>1. ASSUME NEW i \in Inputs, Offer(i)
      PROVE  FullInv'
  BY <1>0, <1>1, OfferKeeps
<1>2. ASSUME NEW isOrdered \in BOOLEAN, SetStream(isOrdered)
      PROVE  FullInv'
  BY <1>0, <1>2, SetStreamKeeps
<1>3. ASSUME NEW r \in Results, ObserveSteer(r)
      PROVE  FullInv'
  <2>1. /\ Live /\ Unresolved /\ Adjudicate(active, r) /\ stage' = stage
        /\ UNCHANGED <<ticket, accepted, retracted>>
    BY <1>3 DEF ObserveSteer, acceptVars
  <2> QED BY <1>0, <2>1, AdjudicateMoves, LiveKeeps
<1>4. ASSUME NEW a \in Steerable, NEW r \in Results, Complete(a, r)
      PROVE  FullInv'
  BY <1>0, <1>4, CompleteKeeps
<1>5. CASE MarkTerminal
  BY <1>0, <1>5, MarkTerminalKeeps
<1>6. CASE Timeout
  <2>1. /\ Live /\ Unresolved /\ ResolveUnknown(active) /\ stage' = stage
        /\ UNCHANGED <<ticket, accepted, retracted>>
    BY <1>6 DEF Timeout, acceptVars
  <2> QED BY <1>0, <2>1, UnknownMoves, LiveKeeps
<1>7. CASE DeadlineTimeout
  BY <1>0, <1>7, DeadlineTimeoutKeeps
<1>8. CASE Tick
  BY <1>0, <1>8, QuietKeeps
     DEF Tick, acceptVars, queueVars, slotVars, verdictVars, errorVars
<1>9. ASSUME NEW k \in 1..Len(loopPending), CancelQueued(k) \/ Flush(k)
      PROVE  FullInv'
  BY <1>0, <1>9, CancelQueuedKeeps, FlushKeeps
<1>10. CASE Shutdown
  BY <1>0, <1>10, ShutdownKeeps
<1>11. CASE Cleanup
  BY <1>0, <1>11, CleanupKeeps
<1>12. CASE UNCHANGED mvars
  BY <1>0, <1>12, QuietKeeps
     DEF mvars, acceptVars, queueVars, slotVars, verdictVars, errorVars
<1> QED
  BY <1>1, <1>2, <1>3, <1>4, <1>5, <1>6, <1>7, <1>8, <1>9, <1>10, <1>11, <1>12
     DEF MachineNext

LEMMA FullInvariant == MachineSpec => []FullInv
<1>1. Init => FullInv
  BY InitFull
<1>2. FullInv /\ [MachineNext]_mvars => FullInv'
  BY StepFull
<1> QED BY <1>1, <1>2, PTL DEF MachineSpec

(***************************************************************************)
(* Until a call fails no accepted input is lost, and none is ever queued   *)
(* twice or queued and also settled: a queue, the slot or one verdict has  *)
(* it, on every way through and out of the turn (queueFallback, shutdown,  *)
(* cleanup, CancelDelegateRequest).                                        *)
(***************************************************************************)
THEOREM InputsKeepOnePlace == MachineSpec => []EachInOnePlace
<1>1. FullInv => EachInOnePlace
  BY DEF FullInv, PlaceInv, KeepInv, EachInOnePlace, NothingLost, QueuedOnce, Distinct
<1> QED BY <1>1, FullInvariant, PTL

(***************************************************************************)
(* Steering never overtakes: a request is reserved only when every input   *)
(* accepted before it was injected into the turn or retracted (offer's     *)
(* test of l.pending, the barrier of queueFallback, pump).                 *)
(***************************************************************************)
THEOREM SteeringNeverOvertakes == MachineSpec => []SteeredInOrder
<1>1. FullInv => SteeredInOrder
  BY DEF FullInv, LineInv
<1> QED BY <1>1, FullInvariant, PTL

-----------------------------------------------------------------------------
(***************************************************************************)
(* What the next reservation may rely on.  While the turn steers, every    *)
(* attempt with a verdict had its acknowledgement taken: nothing is still  *)
(* to come of it, and what comes next on the stream belongs to the attempt *)
(* in the slot.                                                            *)
(***************************************************************************)
SeenInv ==
  /\ reserved # {} => streamKnown /\ ordered
  /\ ~Closed /\ ~terminal => resolved \subseteq seen
  /\ Unresolved => reserved \ {active} \subseteq seen

(* What happens to the slot: it keeps its attempt or empties, or takes a request
   after its attempt got a verdict, in a turn that still steers. *)
AttemptMoves ==
  \/ reserved' = reserved /\ active' \in {active, None}
  \/ FillsSlot /\ ~Closed' /\ ~terminal' /\ active \in resolved' \cup {None}

(* What the hook is told of the attempt in the slot when r was said of it. *)
Told(r) ==
  /\ injected' \subseteq injected \cup {a \in {active} : r = "injected"}
  /\ untrackable' \subseteq untrackable \cup {a \in {active} : r = "untrackable"}
  /\ reserved' \cap fallback' \subseteq (reserved \cap fallback) \cup {a \in {active} : r = "fallback"}
Silent ==
  /\ injected' = injected /\ untrackable' = untrackable
  /\ reserved' \cap fallback' \subseteq reserved \cap fallback

LEMMA SeenKeeps ==
  ASSUME Core, SeenInv, MarksStay, AttemptMoves, terminal => terminal',
         seen \subseteq seen', resolved \subseteq resolved',
         ~Closed' /\ ~terminal' => resolved' \subseteq resolved \cup seen',
         reserved' # {} => streamKnown' /\ ordered'
  PROVE  SeenInv'
<1>1. ~Closed' /\ ~terminal' => resolved' \subseteq seen'
  BY DEF SeenInv, MarksStay, Closed
<1>2. CASE reserved' = reserved /\ active' \in {active, None}
  BY <1>1, <1>2 DEF SeenInv, Unresolved
<1>3. CASE FillsSlot /\ ~Closed' /\ ~terminal' /\ active \in resolved' \cup {None}
  BY <1>1, <1>3, InputsAssumption
     DEF SeenInv, Unresolved, FillsSlot, Core, OneInFlight, CoreTypeOK, SlotTypeOK
<1> QED BY <1>2, <1>3 DEF AttemptMoves

(* Queued or pumped requests get no verdict. *)
LEMMA QueueSilent ==
  ASSUME Core, NEW n \in Tries, QueuePending(n), reserved' = reserved
  PROVE  reserved' \cap fallback' = reserved \cap fallback
<1>1. {pending[k] : k \in 1..n} \cap reserved = {}
  <2>1. n \in 0..Len(pending)
    BY DEF Core, CoreTypeOK, SlotTypeOK, Tries
  <2> QED BY <2>1 DEF Core, WaitingInv
<1> QED BY <1>1 DEF QueuePending

LEMMA PumpSlot ==
  ASSUME Core, NEW p \in Seq(Steerable), WaitIn(p), PumpFrom(p), UNCHANGED queueVars,
         disabled' = disabled, active \in resolved' \cup {None}
  PROVE  MarksStay /\ AttemptMoves /\ reserved' \cap fallback' = reserved \cap fallback
<1>1. UNCHANGED <<loopPending, fallback, fallbackBarrier>>
  BY DEF queueVars
<1>2. /\ NoError \/ Fail
      /\ \/ active' = None /\ reserved' = reserved
         \/ FillsSlot /\ NoError
  BY <1>1, PumpFacts DEF Core
<1>3. MarksStay
  BY <1>1, <1>2, ErrorsStay DEF MarksStay, Core, CoreTypeOK
<1>4. CASE active' = None /\ reserved' = reserved
  BY <1>1, <1>3, <1>4 DEF AttemptMoves
<1>5. CASE FillsSlot /\ NoError
  <2>1. active' # None
    BY <1>5, InputsAssumption DEF FillsSlot
  <2>2. ~terminal'
    BY <2>1 DEF PumpFrom, CanPump
  <2>3. ~Closed'
    BY <1>1, <1>5 DEF FillsSlot, Closed, NoError, errorVars
  <2> QED BY <1>1, <1>3, <1>5, <2>2, <2>3 DEF AttemptMoves, FillsSlot
<1> QED BY <1>2, <1>4, <1>5

LEMMA WaitingIn ==
  ASSUME Core, ticket' = ticket
  PROVE  WaitIn(pending) /\ pending \in Seq(Steerable)
BY DEF Core, CoreTypeOK, SlotTypeOK, WaitingInv, WaitIn

(* A verdict: an attempt is told of once, and any verdict but an injection ends
   the steering. *)
LEMMA UnknownTells ==
  ASSUME Core, Unresolved, ResolveUnknown(active)
  PROVE  /\ MarksStay /\ AttemptMoves /\ resolved \subseteq resolved' /\ Closed' /\ Silent
<1>1. CASE Fail /\ UNCHANGED <<resolved, disabled, queueVars, active, reserved, injected, untrackable>>
  BY <1>1 DEF MarksStay, AttemptMoves, Closed, Silent, Fail, queueVars
<1>2. ASSUME resolved' = resolved \cup {active}, disabled' = TRUE,
             UNCHANGED <<reserved, injected, untrackable>>, NEW n \in Tries, QueuePending(n),
             IF n = Len(pending) THEN Vacate(active) /\ NoError ELSE UNCHANGED active /\ Fail
      PROVE  /\ MarksStay /\ AttemptMoves /\ resolved \subseteq resolved' /\ Closed' /\ Silent
  <2>1. MarksStay
    BY <1>2, ErrorsStay DEF MarksStay, QueuePending, Core, CoreTypeOK
  <2>2. AttemptMoves
    BY <1>2 DEF AttemptMoves, Vacate
  <2> QED BY <1>2, <2>1, <2>2, QueueSilent DEF Closed, Silent
<1> QED BY <1>1, <1>2 DEF ResolveUnknown

LEMMA InjectedTells ==
  ASSUME Core, Unresolved, ResolveInjected(active), ticket' = ticket
  PROVE  /\ MarksStay /\ AttemptMoves /\ resolved \subseteq resolved'
         /\ resolved' \subseteq resolved \cup {active} /\ Told("injected")
<1>1. CASE Fail /\ UNCHANGED <<injected, untrackable, disabled, resolved, queueVars, slotVars>>
  BY <1>1 DEF MarksStay, AttemptMoves, Told, Fail, queueVars, slotVars
<1>2. CASE /\ injected' = injected \cup {active} /\ resolved' = resolved \cup {active}
           /\ UNCHANGED <<untrackable, disabled>>
           /\ \/ /\ Vacate(active) /\ UNCHANGED reserved
                 /\ \E n \in Tries : QueuePending(n) /\ (NoError \/ ReturnError)
              \/ PumpFrom(pending) /\ UNCHANGED queueVars
              \/ NoError /\ UNCHANGED <<queueVars, slotVars>>
  <2>1. ASSUME Vacate(active), UNCHANGED reserved,
               NEW n \in Tries, QueuePending(n), NoError \/ ReturnError
        PROVE  MarksStay /\ AttemptMoves /\ reserved' \cap fallback' = reserved \cap fallback
    <3>1. MarksStay
      BY <1>2, <2>1, ErrorsStay DEF MarksStay, QueuePending, Core, CoreTypeOK
    <3>2. AttemptMoves
      BY <2>1 DEF AttemptMoves, Vacate
    <3> QED BY <2>1, <3>1, <3>2, QueueSilent
  <2>2. CASE PumpFrom(pending) /\ UNCHANGED queueVars
    BY <1>2, <2>2, WaitingIn, PumpSlot DEF Told
  <2>3. CASE NoError /\ UNCHANGED <<queueVars, slotVars>>
    BY <1>2, <2>3 DEF MarksStay, AttemptMoves, Told, NoError, errorVars, queueVars, slotVars
  <2> QED BY <1>2, <2>1, <2>2, <2>3 DEF Told
<1> QED BY <1>1, <1>2 DEF ResolveInjected

LEMMA FallbackTells ==
  ASSUME Core, Unresolved, ResolveFallback(active)
  PROVE  /\ MarksStay /\ AttemptMoves /\ resolved \subseteq resolved' /\ Closed' /\ Told("fallback")
<1>0. UNCHANGED <<reserved, injected, untrackable, disabled>> /\ fallbackBarrier' = TRUE
  BY DEF ResolveFallback
<1>1. CASE Fail /\ UNCHANGED <<fallback, resolved, active>>
  BY <1>0, <1>1 DEF MarksStay, AttemptMoves, Closed, Told, Fail
<1>2. ASSUME resolved' = resolved \cup {active}, NEW n \in Tries,
             fallback' = fallback \cup {active} \cup {pending[k] : k \in 1..n},
             IF n = Len(pending) THEN Vacate(active) /\ NoError ELSE UNCHANGED active /\ Fail
      PROVE  /\ MarksStay /\ AttemptMoves /\ resolved \subseteq resolved' /\ Closed' /\ Told("fallback")
  <2>1. MarksStay
    BY <1>0, <1>2, ErrorsStay DEF MarksStay, Core, CoreTypeOK
  <2>2. {pending[k] : k \in 1..n} \cap reserved = {}
    <3>1. n \in 0..Len(pending)
      BY DEF Core, CoreTypeOK, SlotTypeOK, Tries
    <3> QED BY <3>1 DEF Core, WaitingInv
  <2>3. AttemptMoves
    BY <1>0, <1>2 DEF AttemptMoves, Vacate
  <2> QED BY <1>0, <1>2, <2>1, <2>2, <2>3 DEF Closed, Told
<1> QED BY <1>1, <1>2 DEF ResolveFallback

LEMMA UntrackableTells ==
  ASSUME Core, Unresolved, ResolveUntrackable(active)
  PROVE  /\ MarksStay /\ AttemptMoves /\ resolved \subseteq resolved' /\ Closed' /\ Told("untrackable")
BY DEF ResolveUntrackable, MarksStay, AttemptMoves, Closed, Told, Fail, queueVars, slotVars

LEMMA AdjudicateTells ==
  ASSUME Core, Unresolved, NEW r \in Results, Adjudicate(active, r), ticket' = ticket
  PROVE  /\ MarksStay /\ AttemptMoves /\ resolved \subseteq resolved'
         /\ ~Closed' => resolved' \subseteq resolved \cup {active}
         /\ Told(r)
<1>1. CASE r = "injected" /\ ResolveInjected(active)
  BY <1>1, InjectedTells
<1>2. CASE r = "fallback" /\ ResolveFallback(active)
  BY <1>2, FallbackTells
<1>3. CASE r = "untrackable" /\ ResolveUntrackable(active)
  BY <1>3, UntrackableTells
<1>4. CASE ResolveUnknown(active)
  BY <1>4, UnknownTells DEF Silent, Told
<1> QED BY <1>1, <1>2, <1>3, <1>4 DEF Adjudicate

(* The operations that give no verdict an adapter or a stream has spoken. *)
EvidenceStays == done' = done /\ seen' = seen /\ result' = result

LEMMA OfferSeen ==
  ASSUME IInv, SeenInv, NEW i \in Inputs, Offer(i)
  PROVE  SeenInv' /\ Silent /\ EvidenceStays
<1>1. Core
  BY InvSplit DEF Offer, Live
<1>2. /\ UNCHANGED <<injected, unknown, untrackable, resolved, disabled, terminal>>
      /\ UNCHANGED <<streamKnown, ordered>> /\ EvidenceStays
  BY DEF Offer, verdictVars, streamVars, attemptVars, EvidenceStays
<1>3. CASE i \notin Delegates \/ QueuesDirectly(i)
  <2>1. /\ UNCHANGED <<active, pending, reserved>> /\ MarksStay
        /\ fallback' \subseteq fallback \cup {i}
    BY <1>1, <1>2, <1>3, ErrorsStay
       DEF Offer, slotVars, errorVars, MarksStay, Core, CoreTypeOK
  <2>2. i \notin reserved
    BY <1>1 DEF Offer, Accept, Core, WaitingInv
  <2>3. AttemptMoves /\ Silent
    BY <1>2, <2>1, <2>2 DEF AttemptMoves, Silent
  <2> QED BY <1>1, <1>2, <2>1, <2>3, SeenKeeps DEF SeenInv, EvidenceStays
<1>4. CASE /\ ~QueuesDirectly(i) /\ UNCHANGED queueVars
           /\ IF streamKnown /\ active = None
              THEN PumpFrom(Append(pending, i))
              ELSE /\ pending' = Append(pending, i)
                   /\ NoError /\ UNCHANGED <<active, reserved>>
  <2>1. CASE streamKnown /\ active = None /\ PumpFrom(Append(pending, i))
    <3>1. i \in Steerable /\ ordered
      BY <1>4, <2>1 DEF QueuesDirectly
    <3>2. /\ ticket[i] = 0 /\ ticket'[i] > 0
          /\ \A j \in Inputs : ticket[j] > 0 => ticket'[j] = ticket[j]
      BY DEF Offer, Accept, IInv, TypeOK
    <3>3. Append(pending, i) \in Seq(Steerable) /\ WaitIn(Append(pending, i))
      BY ONLY <1>1, <3>1, <3>2, OfferLine
    <3>4. MarksStay /\ AttemptMoves /\ reserved' \cap fallback' = reserved \cap fallback
      BY <1>1, <1>2, <1>4, <2>1, <3>3, PumpSlot
    <3> QED BY <1>1, <1>2, <2>1, <3>1, <3>4, SeenKeeps DEF Silent, EvidenceStays
  <2>2. CASE NoError /\ UNCHANGED <<active, reserved>>
    <3>1. MarksStay /\ AttemptMoves /\ Silent
      BY <1>2, <1>4, <2>2 DEF MarksStay, AttemptMoves, Silent, NoError, errorVars, queueVars
    <3> QED BY <1>1, <1>2, <2>2, <3>1, SeenKeeps DEF SeenInv, EvidenceStays
  <2> QED BY <1>4, <2>1, <2>2
<1> QED BY <1>3, <1>4 DEF Offer

LEMMA SetStreamSeen ==
  ASSUME IInv, SeenInv, NEW isOrdered \in BOOLEAN, SetStream(isOrdered)
  PROVE  SeenInv' /\ Silent /\ EvidenceStays
<1>1. Core /\ reserved = {}
  BY InvSplit DEF SetStream, Live, SeenInv
<1>2. /\ UNCHANGED <<injected, unknown, untrackable, resolved, disabled, terminal, ticket>>
      /\ streamKnown' = TRUE /\ ordered' = isOrdered /\ EvidenceStays
  BY DEF SetStream, acceptVars, verdictVars, attemptVars, EvidenceStays
<1>3. ASSUME NEW n \in Tries, QueuePending(n), NoError \/ Fail, UNCHANGED <<active, reserved>>
      PROVE  SeenInv' /\ Silent
  <2>1. MarksStay /\ AttemptMoves /\ Silent
    BY <1>1, <1>2, <1>3, ErrorsStay, QueueSilent
       DEF MarksStay, AttemptMoves, Silent, QueuePending, Core, CoreTypeOK
  <2> QED BY <1>1, <1>2, <1>3, <2>1, SeenKeeps DEF EvidenceStays
<1>4. CASE isOrdered /\ active = None /\ PumpFrom(pending) /\ UNCHANGED queueVars
  <2>1. MarksStay /\ AttemptMoves /\ Silent
    BY <1>1, <1>2, <1>4, WaitingIn, PumpSlot DEF Silent
  <2> QED BY <1>1, <1>2, <1>4, <2>1, SeenKeeps DEF EvidenceStays
<1> QED BY <1>2, <1>3, <1>4 DEF SetStream

LEMMA ObserveSteerSeen ==
  ASSUME IInv, SeenInv, NEW r \in Results, ObserveSteer(r)
  PROVE  /\ SeenInv' /\ Told(r) /\ done' = done /\ seen' = seen \cup {active}
         /\ result' = [result EXCEPT ![active] = r]
<1>1. /\ Core /\ Unresolved /\ Adjudicate(active, r) /\ ticket' = ticket
      /\ UNCHANGED <<streamKnown, ordered, done, terminal>> /\ seen' = seen \cup {active}
      /\ result' = [result EXCEPT ![active] = r]
  BY InvSplit DEF ObserveSteer, Live, acceptVars, streamVars
<1>2. /\ MarksStay /\ AttemptMoves /\ resolved \subseteq resolved'
      /\ ~Closed' => resolved' \subseteq resolved \cup {active}
      /\ Told(r)
  BY <1>1, AdjudicateTells
<1>3. reserved # {}
  BY <1>1, UnresolvedFacts
<1> QED BY <1>1, <1>2, <1>3, SeenKeeps DEF SeenInv

LEMMA CompleteSeen ==
  ASSUME IInv, SeenInv, NEW a \in Steerable, NEW r \in Results, Complete(a, r)
  PROVE  /\ SeenInv' /\ Told(r) /\ done' = done \cup {active} /\ seen' = seen
         /\ a = active /\ result' = [result EXCEPT ![active] = r]
<1>1. /\ Core /\ a = active /\ active # None /\ ticket' = ticket
      /\ UNCHANGED <<streamKnown, ordered, seen, terminal>> /\ done' = done \cup {active}
      /\ result' = [result EXCEPT ![active] = r]
  BY InvSplit DEF Complete, Live, acceptVars, streamVars
<1>2. streamKnown /\ ordered
  BY <1>1 DEF SeenInv, Core
<1>3. CASE UNCHANGED <<queueVars, slotVars, verdictVars, errorVars>>
  <2>1. /\ UNCHANGED <<fallback, fallbackBarrier, active, reserved, resolved, disabled, fault>>
        /\ UNCHANGED <<injected, untrackable>>
    BY <1>3 DEF queueVars, slotVars, verdictVars, errorVars
  <2>2. MarksStay /\ AttemptMoves /\ Told(r)
    BY <2>1 DEF MarksStay, AttemptMoves, Told
  <2> QED BY <1>1, <1>2, <2>1, <2>2, SeenKeeps
<1>4. CASE Decisive(a, r) /\ a \notin resolved /\ Adjudicate(a, r)
  <2>1. /\ MarksStay /\ AttemptMoves /\ resolved \subseteq resolved'
        /\ ~Closed' => resolved' \subseteq resolved \cup {active}
        /\ Told(r)
    BY <1>1, <1>4, AdjudicateTells DEF Unresolved
  <2>2. ~Closed' /\ ~terminal' => resolved' \subseteq resolved \cup seen'
    <3>1. CASE r \in {"noResult", "invalid", "boundedUnknown"}
      <4>1. ResolveUnknown(active)
        BY <1>1, <1>4, <3>1 DEF Adjudicate
      <4> QED BY <1>1, <1>4, <4>1, UnknownTells DEF Unresolved
    <3>2. CASE active \in seen \/ terminal
      BY <1>1, <2>1, <3>2
    <3> QED BY <1>1, <1>2, <1>4, <3>1, <3>2 DEF Decisive
  <2> QED BY <1>1, <1>2, <2>1, <2>2, SeenKeeps
<1>5. CASE a \in resolved /\ PumpFrom(pending) /\ UNCHANGED <<queueVars, verdictVars>>
  <2>1. UNCHANGED <<resolved, disabled, injected, untrackable>> /\ UNCHANGED queueVars
    BY <1>5 DEF verdictVars
  <2>2. MarksStay /\ AttemptMoves /\ reserved' \cap fallback' = reserved \cap fallback
    BY <1>1, <1>5, <2>1, WaitingIn, PumpSlot
  <2> QED BY <1>1, <1>2, <2>1, <2>2, SeenKeeps DEF Told
<1> QED BY <1>3, <1>4, <1>5 DEF Complete

LEMMA MarkTerminalSeen ==
  ASSUME IInv, SeenInv, MarkTerminal
  PROVE  /\ SeenInv' /\ EvidenceStays
         /\ Silent \/ (active \in done \cup seen /\ Told(result[active]))
<1>1. /\ Core /\ ticket' = ticket /\ UNCHANGED <<streamKnown, ordered>> /\ terminal' = TRUE
      /\ EvidenceStays
  BY InvSplit DEF MarkTerminal, Live, acceptVars, streamVars, attemptVars, EvidenceStays
<1>2. CASE Unresolved /\ active \in done \cup seen /\ Adjudicate(active, result[active])
  <2>1. result[active] \in Results
    BY <1>1, UnresolvedFacts, InputsAssumption, <1>2 DEF IInv, TypeOK
  <2>2. MarksStay /\ AttemptMoves /\ resolved \subseteq resolved' /\ Told(result[active])
    BY <1>1, <1>2, <2>1, AdjudicateTells
  <2>3. reserved # {}
    BY <1>1, <1>2, UnresolvedFacts
  <2> QED BY <1>1, <1>2, <2>2, <2>3, SeenKeeps DEF SeenInv, EvidenceStays
<1>3. ASSUME NEW n \in Tries, QueuePending(n), NoError \/ ReturnError,
             UNCHANGED <<active, reserved, verdictVars>>
      PROVE  SeenInv' /\ Silent
  <2>1. UNCHANGED <<resolved, disabled, injected, untrackable>>
    BY <1>3 DEF verdictVars
  <2>2. MarksStay /\ AttemptMoves /\ Silent
    BY <1>1, <1>3, <2>1, ErrorsStay, QueueSilent
       DEF MarksStay, AttemptMoves, Silent, QueuePending, Core, CoreTypeOK
  <2> QED BY <1>1, <1>3, <2>1, <2>2, SeenKeeps DEF SeenInv, EvidenceStays
<1> QED BY <1>1, <1>2, <1>3 DEF MarkTerminal

LEMMA TimeoutSeen ==
  ASSUME IInv, SeenInv, Timeout
  PROVE  SeenInv' /\ Silent /\ EvidenceStays
<1>1. /\ Core /\ UNCHANGED <<streamKnown, ordered, terminal>> /\ EvidenceStays
      /\ Unresolved /\ ResolveUnknown(active)
  BY InvSplit DEF Timeout, Live, streamVars, attemptVars, EvidenceStays
<1>2. streamKnown /\ ordered
  BY <1>1, UnresolvedFacts DEF SeenInv
<1> QED BY <1>1, <1>2, UnknownTells, SeenKeeps DEF EvidenceStays

LEMMA DeadlineTimeoutSeen ==
  ASSUME IInv, SeenInv, DeadlineTimeout
  PROVE  SeenInv' /\ Silent /\ EvidenceStays
<1>1. /\ Core /\ UNCHANGED <<streamKnown, ordered, terminal>> /\ EvidenceStays
      /\ active # None /\ ticket' = ticket
  BY InvSplit DEF DeadlineTimeout, Live, acceptVars, streamVars, EvidenceStays
<1>2. streamKnown /\ ordered
  BY <1>1 DEF SeenInv, Core
<1>3. CASE active \notin resolved /\ ResolveUnknown(active)
  BY <1>1, <1>2, <1>3, UnknownTells, SeenKeeps DEF EvidenceStays, Unresolved
<1>4. CASE active \in resolved /\ PumpFrom(pending) /\ UNCHANGED <<queueVars, verdictVars>>
  <2>1. UNCHANGED <<resolved, disabled, injected, untrackable>> /\ UNCHANGED queueVars
    BY <1>4 DEF verdictVars
  <2>2. MarksStay /\ AttemptMoves /\ reserved' \cap fallback' = reserved \cap fallback
    BY <1>1, <1>4, <2>1, WaitingIn, PumpSlot
  <2> QED BY <1>1, <1>2, <2>1, <2>2, SeenKeeps DEF Silent, EvidenceStays
<1> QED BY <1>3, <1>4 DEF DeadlineTimeout

LEMMA ShutdownSeen ==
  ASSUME IInv, SeenInv, Shutdown
  PROVE  SeenInv' /\ Silent /\ EvidenceStays
<1>1. /\ Core /\ UNCHANGED <<streamKnown, ordered>> /\ terminal' = TRUE /\ EvidenceStays
  BY InvSplit DEF Shutdown, streamVars, EvidenceStays
<1>2. CASE Unresolved /\ ResolveUnknown(active)
  <2>1. streamKnown /\ ordered
    BY <1>1, <1>2, UnresolvedFacts DEF SeenInv
  <2> QED BY <1>1, <1>2, <2>1, UnknownTells, SeenKeeps DEF EvidenceStays
<1>3. CASE active' = None /\ Fail /\ UNCHANGED <<queueVars, reserved, verdictVars>>
  <2>1. /\ UNCHANGED <<resolved, disabled, injected, untrackable, fallback, fallbackBarrier>>
        /\ MarksStay /\ AttemptMoves
    BY <1>3 DEF verdictVars, queueVars, MarksStay, AttemptMoves, Fail
  <2> QED BY <1>1, <1>3, <2>1, SeenKeeps DEF SeenInv, Silent, EvidenceStays
<1>4. ASSUME active' = None, NEW n \in Tries, QueuePending(n), NoError \/ ReturnError,
             UNCHANGED <<reserved, verdictVars>>
      PROVE  SeenInv' /\ Silent
  <2>1. UNCHANGED <<resolved, disabled, injected, untrackable>>
    BY <1>4 DEF verdictVars
  <2>2. MarksStay /\ AttemptMoves /\ Silent
    BY <1>1, <1>4, <2>1, ErrorsStay, QueueSilent
       DEF MarksStay, AttemptMoves, Silent, QueuePending, Core, CoreTypeOK
  <2> QED BY <1>1, <1>4, <2>1, <2>2, SeenKeeps DEF SeenInv, EvidenceStays
<1> QED BY <1>1, <1>2, <1>3, <1>4 DEF Shutdown

(* Nothing is reserved or told. *)
LEMMA QuietSeen ==
  ASSUME SeenInv, UNCHANGED <<reserved, resolved, seen, done, result, terminal, streamKnown, ordered>>,
         UNCHANGED <<fault, disabled, fallbackBarrier, injected, untrackable, fallback>>,
         active' \in {active, None}
  PROVE  SeenInv' /\ Silent /\ EvidenceStays
BY DEF SeenInv, Closed, Unresolved, Silent, EvidenceStays

(* Any operation but an observation, a completion and a terminal. *)
LEMMA OtherSeen ==
  ASSUME SeenInv,
         \/ Tick \/ Cleanup \/ UNCHANGED mvars
         \/ \E k \in 1..Len(loopPending) : CancelQueued(k) \/ Flush(k)
  PROVE  SeenInv' /\ Silent /\ EvidenceStays
<1>1. /\ UNCHANGED <<reserved, resolved, seen, done, result, terminal, streamKnown, ordered>>
      /\ UNCHANGED <<fault, disabled, fallbackBarrier, injected, untrackable, fallback>>
      /\ active' \in {active, None}
  BY DEF Tick, Cleanup, CancelQueued, Flush, mvars, queueVars, slotVars, verdictVars, errorVars,
         attemptVars, streamVars
<1> QED BY <1>1, QuietSeen

LEMMA StepSeen ==
  ASSUME IInv, SeenInv, [MachineNext]_mvars
  PROVE  SeenInv'
BY OfferSeen, SetStreamSeen, ObserveSteerSeen, CompleteSeen, MarkTerminalSeen, TimeoutSeen,
   DeadlineTimeoutSeen, ShutdownSeen, OtherSeen DEF MachineNext

LEMMA SeenInvariant == MachineSpec => []SeenInv
<1>1. Init => SeenInv
  BY DEF Init, SeenInv, Unresolved
<1>2. IInv /\ SeenInv /\ [MachineNext]_mvars => SeenInv'
  BY StepSeen
<1> QED BY <1>1, <1>2, InductiveInvariant, PTL DEF MachineSpec

-----------------------------------------------------------------------------
(***************************************************************************)
(* The turn.                                                               *)
(***************************************************************************)
(* What travels on the channels to the actor. *)
ChannelTypeOK ==
  /\ mailbox \in Seq(Observation)
  /\ completions \in Seq([req : Steerable, says : Results])
  /\ verdict \in [Inputs -> Verdicts]

LEMMA TailFacts ==
  ASSUME NEW S, NEW s \in Seq(S), s # <<>>
  PROVE  Head(s) \in S /\ Tail(s) \in Seq(S)
OBVIOUS

LEMMA FactType ==
  ASSUME NEW k \in {"prompt", "done", "failed"}
  PROVE  Fact(k) \in Observation
BY DEF Fact, Observation, Results

LEMMA VerdictResults == Verdicts \subseteq Results
BY DEF Verdicts, Results

(* An observation or a completion drives the machine by one operation. *)
LEMMA ProcessDrives ==
  ASSUME NEW o \in Observation, NEW publishing \in BOOLEAN, Process(o, publishing)
  PROVE  [MachineNext]_mvars
<1>1. o.says \in Results
  BY DEF Observation
<1>2. CASE IF Unresolved THEN ObserveSteer(o.says) ELSE UNCHANGED mvars
  BY <1>1, <1>2 DEF MachineNext
<1>3. CASE MarkTerminal
  BY <1>3 DEF MachineNext
<1> QED BY <1>2, <1>3 DEF Process

LEMMA FinishDrives ==
  ASSUME NEW c \in [req : Steerable, says : Results], Finish(c)
  PROVE  [MachineNext]_mvars
<1>1. c.req \in Steerable /\ c.says \in Results
  OBVIOUS
<1>2. CASE Complete(c.req, c.says)
  BY <1>1, <1>2 DEF MachineNext
<1> QED BY <1>2 DEF Finish

LEMMA TakeObservationStep ==
  ASSUME ChannelTypeOK, NEW publishing \in BOOLEAN, NEW next,
         TakeObservation(publishing, next)
  PROVE  [MachineNext]_mvars /\ ChannelTypeOK'
<1>1. Head(mailbox) \in Observation /\ Tail(mailbox) \in Seq(Observation)
  BY TailFacts DEF ChannelTypeOK, TakeObservation
<1>2. [MachineNext]_mvars
  BY <1>1, ProcessDrives DEF TakeObservation
<1> QED BY <1>1, <1>2 DEF TakeObservation, ChannelTypeOK

LEMMA TakeCompletionStep ==
  ASSUME ChannelTypeOK, NEW next, TakeCompletion(next)
  PROVE  [MachineNext]_mvars /\ ChannelTypeOK'
<1>1. /\ Head(completions) \in [req : Steerable, says : Results]
      /\ Tail(completions) \in Seq([req : Steerable, says : Results])
  BY TailFacts DEF ChannelTypeOK, TakeCompletion
<1>2. [MachineNext]_mvars
  BY <1>1, FinishDrives DEF TakeCompletion
<1> QED BY <1>1, <1>2 DEF TakeCompletion, ChannelTypeOK

LEMMA TakeOutcomeStep ==
  ASSUME ChannelTypeOK, NEW next, TakeOutcome(next)
  PROVE  [MachineNext]_mvars /\ ChannelTypeOK'
BY DEF TakeOutcome, ChannelTypeOK, providerVars

(* The goroutines around the actor leave the machine alone. *)
LEMMA ProviderStep ==
  ASSUME ChannelTypeOK, Provider
  PROVE  [MachineNext]_mvars /\ ChannelTypeOK'
<1>1. ASSUME NEW r \in Steerable, NEW res \in Results, Return(r, res)
      PROVE  [MachineNext]_mvars /\ ChannelTypeOK'
  <2>1. [req |-> r, says |-> res] \in [req : Steerable, says : Results]
    OBVIOUS
  <2>2. UNCHANGED <<mvars, verdict, mailbox>>
    BY <1>1 DEF Return
  <2>3. completions' \in Seq([req : Steerable, says : Results])
    BY <1>1, <2>1 DEF Return, ChannelTypeOK
  <2> QED BY <2>2, <2>3 DEF ChannelTypeOK
<1>2. ASSUME NEW r \in Steerable, Acknowledge(r)
      PROVE  [MachineNext]_mvars /\ ChannelTypeOK'
  <2>1. verdict[r] \in Results
    BY VerdictResults, InputsAssumption DEF ChannelTypeOK
  <2>2. [kind |-> "steer", req |-> r, says |-> verdict[r]] \in Observation
    BY <2>1 DEF Observation
  <2>3. mailbox' \in Seq(Observation)
    BY <1>2, <2>2 DEF Acknowledge, ChannelTypeOK
  <2>4. UNCHANGED <<mvars, verdict, completions>>
    BY <1>2 DEF Acknowledge
  <2> QED BY <2>3, <2>4 DEF ChannelTypeOK
<1> QED BY <1>1, <1>2 DEF Provider

LEMMA ProducerStep ==
  ASSUME ChannelTypeOK, Producer
  PROVE  [MachineNext]_mvars /\ ChannelTypeOK'
<1>1. CASE Spawn
  BY <1>1 DEF Spawn, ChannelTypeOK, providerVars
<1>2. CASE Prompt
  <2>1. mailbox' \in Seq(Observation)
    BY <1>2, FactType DEF Prompt, ChannelTypeOK
  <2>2. UNCHANGED <<mvars, verdict, completions>>
    BY <1>2 DEF Prompt, providerVars
  <2> QED BY <2>1, <2>2 DEF ChannelTypeOK
<1>3. CASE Conclude
  BY <1>3 DEF Conclude, ChannelTypeOK, providerVars, channelVars
<1>4. CASE SendTerminal
  <2>1. Fact(IF final = "success" THEN "done" ELSE "failed") \in Observation
    BY FactType
  <2>2. mailbox' \in Seq(Observation)
    BY <1>4, <2>1 DEF SendTerminal, ChannelTypeOK
  <2>3. UNCHANGED <<mvars, verdict, completions>>
    BY <1>4 DEF SendTerminal, providerVars
  <2> QED BY <2>2, <2>3 DEF ChannelTypeOK
<1>5. CASE Report
  BY <1>5 DEF Report, ChannelTypeOK, providerVars
<1> QED BY <1>1, <1>2, <1>3, <1>4, <1>5 DEF Producer

LEMMA ActorStep ==
  ASSUME ChannelTypeOK, Actor
  PROVE  [MachineNext]_mvars /\ ChannelTypeOK'
<1>1. CASE SelectResult
  BY <1>1, TakeOutcomeStep DEF SelectResult
<1>2. CASE DrainResult
  <2>1. CASE TakeObservation(TRUE, "resultDrain")
    BY <2>1, TakeObservationStep
  <2>2. CASE UNCHANGED <<mvars, providerVars, channelVars>>
    BY <2>2 DEF ChannelTypeOK, providerVars, channelVars
  <2> QED BY <1>2, <2>1, <2>2 DEF DrainResult
<1>3. CASE SelectStream
  <2>1. UNCHANGED <<verdict, completions, mailbox>> /\ SetStream(stream = "ordered")
    BY <1>3 DEF SelectStream
  <2>2. MachineNext
    BY <2>1 DEF MachineNext
  <2> QED BY <2>1, <2>2 DEF ChannelTypeOK
<1>4. CASE SelectObservation
  BY <1>4, TakeObservationStep DEF SelectObservation
<1>5. CASE SelectCompletion
  BY <1>5, TakeCompletionStep DEF SelectCompletion
<1>6. CASE SelectTick
  BY <1>6 DEF SelectTick, MachineNext, ChannelTypeOK, providerVars, channelVars
<1>7. CASE DrainEvidence
  BY <1>7, TakeOutcomeStep, TakeObservationStep, TakeCompletionStep DEF DrainEvidence
<1>8. CASE Expire
  BY <1>8 DEF Expire, MachineNext, ChannelTypeOK, channelVars
<1>9. CASE ServeEvidence
  <2>1. CASE TakeObservation(FALSE, "serve")
    BY <2>1, TakeObservationStep
  <2>2. CASE TakeCompletion("serve")
    BY <2>2, TakeCompletionStep
  <2>3. CASE UNCHANGED <<mvars, providerVars, completions, mailbox>>
    BY <2>3 DEF ChannelTypeOK, providerVars
  <2> QED BY <1>9, <2>1, <2>2, <2>3 DEF ServeEvidence
<1>10. CASE ServeTick
  BY <1>10 DEF ServeTick, MachineNext, ChannelTypeOK, channelVars
<1>11. CASE ServeDone
  BY <1>11 DEF ServeDone, ChannelTypeOK, providerVars, channelVars
<1>12. CASE PublishHold
  BY <1>12 DEF PublishHold, ChannelTypeOK, providerVars, channelVars
<1>13. CASE ApplyOutcome
  BY <1>13 DEF ApplyOutcome, ChannelTypeOK, providerVars, channelVars
<1>14. CASE CancelPending
  <2>1. ChannelTypeOK'
    BY <1>14 DEF CancelPending, ChannelTypeOK, providerVars, channelVars
  <2>2. PICK n \in Nat : IF n = 0 THEN UNCHANGED mvars ELSE Flush(n)
    BY <1>14 DEF CancelPending, Flush
  <2>3. n # 0 => n \in 1..Len(loopPending) /\ Flush(n)
    BY <2>2 DEF Flush
  <2> QED BY <2>1, <2>2, <2>3 DEF MachineNext
<1>15. CASE ShutdownMachine
  BY <1>15 DEF ShutdownMachine, MachineNext, ChannelTypeOK, channelVars
<1>16. CASE DeferredShutdown
  BY <1>16 DEF DeferredShutdown, MachineNext, ChannelTypeOK, channelVars
<1>17. CASE DeferredCleanup
  BY <1>17 DEF DeferredCleanup, MachineNext, ChannelTypeOK, providerVars, channelVars
<1> QED
  BY <1>1, <1>2, <1>3, <1>4, <1>5, <1>6, <1>7, <1>8, <1>9, <1>10, <1>11, <1>12, <1>13,
     <1>14, <1>15, <1>16, <1>17 DEF Actor

LEMMA CommandsStep ==
  ASSUME ChannelTypeOK, Commands
  PROVE  [MachineNext]_mvars /\ ChannelTypeOK'
<1>1. ASSUME NEW i \in Inputs, SelectInput(i)
      PROVE  [MachineNext]_mvars /\ ChannelTypeOK'
  BY <1>1 DEF SelectInput, MachineNext, ChannelTypeOK, channelVars
<1>2. ASSUME NEW i \in Inputs, RejectInput(i)
      PROVE  [MachineNext]_mvars /\ ChannelTypeOK'
  BY <1>2 DEF RejectInput, ChannelTypeOK, providerVars, channelVars
<1>3. ASSUME NEW k \in 1..Len(loopPending), SelectRetract(k)
      PROVE  [MachineNext]_mvars /\ ChannelTypeOK'
  BY <1>3 DEF SelectRetract, MachineNext, ChannelTypeOK, providerVars, channelVars
<1>4. ASSUME NEW c \in Controls, SelectControl(c)
      PROVE  [MachineNext]_mvars /\ ChannelTypeOK'
  BY <1>4 DEF SelectControl, MachineNext, ChannelTypeOK, channelVars
<1> QED BY <1>1, <1>2, <1>3, <1>4 DEF Commands

LEMMA TurnStep ==
  ASSUME ChannelTypeOK, [TurnNext]_tvars
  PROVE  [MachineNext]_mvars /\ ChannelTypeOK'
<1>1. CASE UNCHANGED tvars
  BY <1>1 DEF tvars, ChannelTypeOK, providerVars, channelVars
<1> QED BY <1>1, ProviderStep, ProducerStep, ActorStep, CommandsStep DEF TurnNext

LEMMA TurnInitChannels ==
  ASSUME TurnInit
  PROVE  Init /\ ChannelTypeOK
<1>1. PICK v \in [Steerable -> Verdicts] :
        verdict = [i \in Inputs |-> IF i \in Steerable THEN v[i] ELSE "fallback"]
  BY DEF TurnInit
<1>2. verdict \in [Inputs -> Verdicts]
  BY <1>1 DEF Verdicts
<1> QED BY <1>2 DEF TurnInit, ChannelTypeOK

(* Every step of the turn, of whichever goroutine, is one operation of the
   steering machine or leaves it alone. *)
THEOREM TurnDrivesMachine == TurnSpec => DrivesMachine
<1>1. TurnInit => Init /\ ChannelTypeOK
  BY TurnInitChannels
<1>2. ChannelTypeOK /\ [TurnNext]_tvars => [MachineNext]_mvars /\ ChannelTypeOK'
  BY TurnStep
<1> QED BY <1>1, <1>2, PTL DEF TurnSpec, DrivesMachine, MachineSpec

(* In a turn, too, the delivery hook never hears two verdicts about one
   request. *)
THEOREM TurnDisposesOnce == TurnSpec => []DispositionOnce
BY TurnDrivesMachine, OneDisposition, PTL DEF DrivesMachine

(* A turn that is over without a fault has left no reservation open. *)
THEOREM TurnSettlesReservations == TurnSpec => []ReservationsSettled
BY TurnDrivesMachine, NoReservationLeftOpen, PTL DEF DrivesMachine

(* The machine's invariants hold of it in every turn. *)
MachineInv == IInv /\ SeenInv

LEMMA TurnKeepsMachine == TurnSpec => []MachineInv
BY TurnDrivesMachine, InductiveInvariant, SeenInvariant, PTL DEF DrivesMachine, MachineInv

-----------------------------------------------------------------------------
(***************************************************************************)
(* What is said of a request is said by its own call or on its own         *)
(* acknowledgement.                                                        *)
(***************************************************************************)
Says(r, res) == res = verdict[r] \/ res \in Undecided

(* A call is out only for a reserved request, which is acknowledged once. *)
CallInv ==
  /\ call \in [Inputs -> {"idle", "calling", "returned"}]
  /\ \A r \in Steerable : call[r] # "idle" => r \in reserved

(* An acknowledgement that waits in the mailbox is the only one of its request,
   and the actor has taken none of that request. *)
BoxInv ==
  /\ acked \subseteq reserved /\ seen \subseteq acked
  /\ \A k \in 1..Len(mailbox) : mailbox[k].kind = "steer" =>
       mailbox[k].req \in acked \ seen /\ mailbox[k].says = verdict[mailbox[k].req]
  /\ \A j, k \in 1..Len(mailbox) :
       mailbox[j].kind = "steer" /\ mailbox[k].kind = "steer" /\ mailbox[j].req = mailbox[k].req
         => j = k

EvidenceInv ==
  /\ \A k \in 1..Len(completions) : Says(completions[k].req, completions[k].says)
  /\ \A r \in done \cup seen : Says(r, result[r])

ClaimInv == CallInv /\ BoxInv /\ EvidenceInv /\ TrueVerdicts

LEMMA TailElements ==
  ASSUME NEW S, NEW s \in Seq(S), s # <<>>
  PROVE  /\ \A k \in 1..Len(Tail(s)) : Tail(s)[k] = s[k + 1] /\ k + 1 \in 1..Len(s)
         /\ 1 \in 1..Len(s) /\ Head(s) = s[1]
         /\ \A k \in 1..Len(Tail(s)) : k + 1 # 1
  OBVIOUS

(* The actor takes the next observation, or none: the box keeps its promise, and
   what it takes of an acknowledged attempt is that attempt's. *)
LEMMA BoxTaken ==
  ASSUME ChannelTypeOK, BoxInv, reserved \subseteq reserved', UNCHANGED <<acked, verdict>>,
         mailbox # <<>>, mailbox' = Tail(mailbox),
         \/ seen' = seen
         \/ Head(mailbox).kind = "steer" /\ seen' = seen \cup {Head(mailbox).req}
  PROVE  BoxInv'
<1>1. mailbox \in Seq(Observation)
  BY DEF ChannelTypeOK
<1>2. /\ \A k \in 1..Len(mailbox') : /\ mailbox'[k] = mailbox[k + 1] /\ k + 1 \in 1..Len(mailbox)
                                     /\ k + 1 # 1
      /\ 1 \in 1..Len(mailbox) /\ Head(mailbox) = mailbox[1]
  BY <1>1, TailElements
<1>3. seen' \subseteq acked
  BY <1>2 DEF BoxInv
<1>4. ASSUME NEW k \in 1..Len(mailbox'), mailbox'[k].kind = "steer"
      PROVE  mailbox'[k].req \in acked \ seen' /\ mailbox'[k].says = verdict[mailbox'[k].req]
  BY <1>2, <1>4 DEF BoxInv
<1>5. ASSUME NEW j \in 1..Len(mailbox'), NEW k \in 1..Len(mailbox'), mailbox'[j].kind = "steer",
             mailbox'[k].kind = "steer", mailbox'[j].req = mailbox'[k].req
      PROVE  j = k
  <2>1. j + 1 = k + 1
    BY <1>2, <1>5 DEF BoxInv
  <2> QED BY <2>1
<1> QED BY <1>3, <1>4, <1>5 DEF BoxInv

LEMMA BoxAppended ==
  ASSUME ChannelTypeOK, BoxInv, NEW o \in Observation, mailbox' = Append(mailbox, o),
         reserved' = reserved, seen' = seen, verdict' = verdict,
         \/ o.kind # "steer" /\ acked' = acked
         \/ /\ o.req \in reserved \ acked /\ acked' = acked \cup {o.req}
            /\ o.says = verdict[o.req]
  PROVE  BoxInv'
<1>1. /\ Len(mailbox') = Len(mailbox) + 1 /\ Len(mailbox) \in Nat
      /\ \A k \in 1..Len(mailbox) : mailbox'[k] = mailbox[k]
      /\ mailbox'[Len(mailbox) + 1] = o
  BY AppendFacts DEF ChannelTypeOK
<1>2. ASSUME NEW k \in 1..Len(mailbox')
      PROVE  (k \in 1..Len(mailbox) /\ mailbox'[k] = mailbox[k])
               \/ (k = Len(mailbox) + 1 /\ mailbox'[k] = o)
  BY <1>1
<1>3. acked' \subseteq reserved' /\ seen' \subseteq acked'
  BY DEF BoxInv
<1>4. ASSUME NEW k \in 1..Len(mailbox'), mailbox'[k].kind = "steer"
      PROVE  mailbox'[k].req \in acked' \ seen' /\ mailbox'[k].says = verdict'[mailbox'[k].req]
  BY <1>2, <1>4 DEF BoxInv
<1>5. ASSUME NEW j \in 1..Len(mailbox'), NEW k \in 1..Len(mailbox'), mailbox'[j].kind = "steer",
             mailbox'[k].kind = "steer", mailbox'[j].req = mailbox'[k].req
      PROVE  j = k
  <2>1. ASSUME NEW l \in 1..Len(mailbox), mailbox[l].kind = "steer", o.kind = "steer"
        PROVE  mailbox[l].req # o.req
    BY <2>1 DEF BoxInv
  <2> QED BY <1>2, <1>5, <2>1 DEF BoxInv
<1> QED BY <1>3, <1>4, <1>5 DEF BoxInv

(* A request the hook is told of has spoken for itself. *)
LEMMA ToldTruly ==
  ASSUME TrueVerdicts, verdict' = verdict, NEW res, Told(res), Says(active, res)
  PROVE  TrueVerdicts'
<1>1. res \in {"injected", "untrackable", "fallback"} => res = verdict[active]
  BY TurnAssumption DEF Says
<1> QED BY <1>1 DEF TrueVerdicts, Told

LEMMA SilentlyTrue ==
  ASSUME TrueVerdicts, verdict' = verdict, Silent
  PROVE  TrueVerdicts'
BY DEF TrueVerdicts, Silent

(* Reservations stay: a request reserved once is reserved ever after. *)
LEMMA ReservedStays ==
  ASSUME IInv, [MachineNext]_mvars
  PROVE  reserved \subseteq reserved'
BY StepEffect DEF HookEffect, Reserves, InjectsAndReserves, FillsSlot, Diverts, Settles

LEMMA BoxStays ==
  ASSUME BoxInv, reserved \subseteq reserved', UNCHANGED <<acked, verdict, mailbox, seen>>
  PROVE  BoxInv'
BY DEF BoxInv

LEMMA CallsStay ==
  ASSUME CallInv, reserved \subseteq reserved', Started \/ call' = call
  PROVE  CallInv'
<1>1. CASE Started
  BY <1>1, InputsAssumption DEF CallInv, Started
<1>2. CASE call' = call
  BY <1>2 DEF CallInv
<1> QED BY <1>1, <1>2

LEMMA CompletionsStay ==
  ASSUME ChannelTypeOK, EvidenceInv, verdict' = verdict,
         completions' = completions \/ (completions # <<>> /\ completions' = Tail(completions)),
         \A r \in done' \cup seen' : Says(r, result'[r])
  PROVE  EvidenceInv'
<1>1. CASE completions' = completions
  BY <1>1 DEF EvidenceInv, Says
<1>2. CASE completions # <<>> /\ completions' = Tail(completions)
  <2>1. \A k \in 1..Len(completions') :
          completions'[k] = completions[k + 1] /\ k + 1 \in 1..Len(completions)
    BY <1>2, TailElements DEF ChannelTypeOK
  <2> QED BY <2>1 DEF EvidenceInv, Says
<1> QED BY <1>1, <1>2

(* A step of the actor that hears nothing new of the attempt in the slot. *)
LEMMA SilentClaims ==
  ASSUME IInv, ChannelTypeOK, ClaimInv, [MachineNext]_mvars, Silent, EvidenceStays,
         UNCHANGED <<verdict, acked, mailbox, completions>>, Started \/ call' = call
  PROVE  ClaimInv'
<1>1. CallInv' /\ BoxInv'
  BY ReservedStays, CallsStay, BoxStays DEF ClaimInv, EvidenceStays
<1>2. EvidenceInv'
  BY DEF ClaimInv, EvidenceInv, EvidenceStays, Says
<1>3. TrueVerdicts'
  BY SilentlyTrue DEF ClaimInv
<1> QED BY <1>1, <1>2, <1>3 DEF ClaimInv

LEMMA QuietClaims ==
  ASSUME ClaimInv, UNCHANGED mvars,
         UNCHANGED <<verdict, call, acked, mailbox, completions>>
  PROVE  ClaimInv'
<1>1. UNCHANGED <<reserved, seen, done, result, injected, untrackable, fallback>>
  BY DEF mvars, queueVars, slotVars, verdictVars, attemptVars
<1>2. CallInv' /\ BoxInv' /\ EvidenceInv'
  BY <1>1 DEF ClaimInv, CallInv, BoxInv, EvidenceInv, Says
<1>3. TrueVerdicts'
  BY <1>1 DEF ClaimInv, TrueVerdicts
<1> QED BY <1>2, <1>3 DEF ClaimInv

(* A terminal adjudicates an attempt on what its own call or acknowledgement said. *)
LEMMA TerminalTells ==
  ASSUME MachineInv, ClaimInv, MarkTerminal, verdict' = verdict
  PROVE  TrueVerdicts' /\ EvidenceStays
<1>1. /\ EvidenceStays
      /\ Silent \/ (active \in done \cup seen /\ Told(result[active]))
  BY MarkTerminalSeen DEF MachineInv
<1>2. CASE Silent
  BY <1>1, <1>2, SilentlyTrue DEF ClaimInv
<1>3. CASE active \in done \cup seen /\ Told(result[active])
  <2>1. Says(active, result[active])
    BY <1>3 DEF ClaimInv, EvidenceInv
  <2> QED BY <1>1, <1>3, <2>1, ToldTruly DEF ClaimInv
<1> QED BY <1>1, <1>2, <1>3

LEMMA ObservationClaims ==
  ASSUME MachineInv, ChannelTypeOK, ClaimInv, NEW publishing \in BOOLEAN, NEW next,
         TakeObservation(publishing, next)
  PROVE  ClaimInv'
<1> DEFINE o == Head(mailbox)
<1>1. /\ mailbox # <<>> /\ mailbox' = Tail(mailbox) /\ Process(o, publishing) /\ Started
      /\ UNCHANGED <<verdict, acked, completions>>
  BY DEF TakeObservation
<1>2. /\ mailbox \in Seq(Observation) /\ 1 \in 1..Len(mailbox) /\ o = mailbox[1] /\ o \in Observation
  BY <1>1, TailElements, TailFacts DEF ChannelTypeOK
<1>3. [MachineNext]_mvars
  BY <1>1, <1>2, ProcessDrives
<1>4. reserved \subseteq reserved'
  BY <1>3, ReservedStays DEF MachineInv
<1> HIDE DEF o
<1>5. CASE o.kind = "steer" /\ Unresolved /\ ObserveSteer(o.says)
  <2>1. o.req \in acked \ seen /\ o.says = verdict[o.req] /\ o.req \in reserved
    BY <1>2, <1>5 DEF ClaimInv, BoxInv
  <2>2. o.req = active /\ o.says = verdict[active]
    BY <1>5, <2>1 DEF MachineInv, SeenInv
  <2>3. o.says \in Results /\ Says(active, o.says)
    BY <1>2, <2>2 DEF Observation, Says
  <2>4. /\ Told(o.says) /\ done' = done /\ seen' = seen \cup {active}
        /\ result' = [result EXCEPT ![active] = o.says]
    BY <1>5, <2>3, ObserveSteerSeen DEF MachineInv
  <2>5. TrueVerdicts'
    BY <1>1, <2>3, <2>4, ToldTruly DEF ClaimInv
  <2>6. BoxInv'
    BY <1>1, <1>4, <1>5, <2>2, <2>4, BoxTaken DEF ClaimInv, o
  <2>7. \A r \in done' \cup seen' : Says(r, result'[r])
    <3>1. result \in [Inputs -> Results] /\ done \cup seen' \subseteq Inputs
      BY <1>5, <2>4, UnresolvedFacts, InvSplit, InputsAssumption
         DEF MachineInv, IInv, TypeOK, ObserveSteer, Live
    <3> QED BY <2>3, <2>4, <3>1 DEF ClaimInv, EvidenceInv
  <2> QED BY <1>1, <1>4, <2>5, <2>6, <2>7, CallsStay, CompletionsStay DEF ClaimInv
<1>6. CASE UNCHANGED mvars
  <2>1. /\ UNCHANGED <<reserved, injected, untrackable, fallback>> /\ EvidenceStays
    BY <1>6 DEF mvars, queueVars, slotVars, verdictVars, attemptVars, EvidenceStays
  <2>2. TrueVerdicts'
    BY <1>1, <2>1 DEF ClaimInv, TrueVerdicts
  <2>3. BoxInv'
    BY <1>1, <1>4, <2>1, BoxTaken DEF ClaimInv, EvidenceStays
  <2>4. \A r \in done' \cup seen' : Says(r, result'[r])
    BY <2>1 DEF ClaimInv, EvidenceInv, EvidenceStays
  <2> QED BY <1>1, <1>4, <2>2, <2>3, <2>4, CallsStay, CompletionsStay DEF ClaimInv
<1>7. CASE MarkTerminal
  <2>1. TrueVerdicts' /\ EvidenceStays
    BY <1>1, <1>7, TerminalTells
  <2>2. BoxInv'
    BY <1>1, <1>4, <2>1, BoxTaken DEF ClaimInv, EvidenceStays
  <2>3. \A r \in done' \cup seen' : Says(r, result'[r])
    BY <2>1 DEF ClaimInv, EvidenceInv, EvidenceStays
  <2> QED BY <1>1, <1>4, <2>1, <2>2, <2>3, CallsStay, CompletionsStay DEF ClaimInv
<1> QED BY <1>1, <1>5, <1>6, <1>7 DEF Process

LEMMA CompletionClaims ==
  ASSUME MachineInv, ChannelTypeOK, ClaimInv, NEW next, TakeCompletion(next)
  PROVE  ClaimInv'
<1> DEFINE c == Head(completions)
<1>1. /\ completions # <<>> /\ completions' = Tail(completions) /\ Finish(c) /\ Started
      /\ UNCHANGED <<verdict, acked, mailbox>>
  BY DEF TakeCompletion
<1>2. /\ c \in [req : Steerable, says : Results] /\ Says(c.req, c.says)
  <2>1. /\ 1 \in 1..Len(completions) /\ c = completions[1]
        /\ c \in [req : Steerable, says : Results]
    BY <1>1, TailElements, TailFacts DEF ChannelTypeOK
  <2> QED BY <2>1 DEF ClaimInv, EvidenceInv
<1>3. [MachineNext]_mvars
  BY <1>1, <1>2, FinishDrives
<1>4. reserved \subseteq reserved'
  BY <1>3, ReservedStays DEF MachineInv
<1> HIDE DEF c
<1>5. CASE Complete(c.req, c.says)
  <2>1. /\ Told(c.says) /\ done' = done \cup {active} /\ seen' = seen
        /\ c.req = active /\ result' = [result EXCEPT ![active] = c.says]
    BY <1>2, <1>5, CompleteSeen DEF MachineInv
  <2>2. TrueVerdicts'
    BY <1>1, <1>2, <2>1, ToldTruly DEF ClaimInv
  <2>3. BoxInv'
    BY <1>1, <1>4, <2>1, BoxStays DEF ClaimInv
  <2>4. \A r \in done' \cup seen' : Says(r, result'[r])
    <3>1. result \in [Inputs -> Results] /\ done' \cup seen \subseteq Inputs
      BY <1>2, <2>1, InputsAssumption DEF MachineInv, IInv, TypeOK
    <3> QED BY <1>2, <2>1, <3>1 DEF ClaimInv, EvidenceInv
  <2> QED BY <1>1, <1>4, <2>2, <2>3, <2>4, CallsStay, CompletionsStay DEF ClaimInv
<1>6. CASE UNCHANGED mvars
  <2>1. /\ UNCHANGED <<reserved, injected, untrackable, fallback>> /\ EvidenceStays
    BY <1>6 DEF mvars, queueVars, slotVars, verdictVars, attemptVars, EvidenceStays
  <2>2. TrueVerdicts'
    BY <1>1, <2>1 DEF ClaimInv, TrueVerdicts
  <2>3. BoxInv'
    BY <1>1, <1>4, <2>1, BoxStays DEF ClaimInv, EvidenceStays
  <2>4. \A r \in done' \cup seen' : Says(r, result'[r])
    BY <2>1 DEF ClaimInv, EvidenceInv, EvidenceStays
  <2> QED BY <1>1, <1>4, <2>2, <2>3, <2>4, CallsStay, CompletionsStay DEF ClaimInv
<1> QED BY <1>1, <1>5, <1>6 DEF Finish

(* What the provider says next is true of the request it is said of. *)
LEMMA ReturnClaims ==
  ASSUME MachineInv, ChannelTypeOK, ClaimInv, NEW r \in Steerable, NEW res \in Results,
         Return(r, res)
  PROVE  ClaimInv'
<1>1. /\ UNCHANGED <<verdict, acked, mailbox>> /\ UNCHANGED mvars /\ Says(r, res)
      /\ call[r] = "calling" /\ call' = [call EXCEPT ![r] = "returned"]
      /\ completions' = Append(completions, [req |-> r, says |-> res])
  BY DEF Return, Says
<1>2. UNCHANGED <<reserved, seen, done, result, injected, untrackable, fallback>>
  BY <1>1 DEF mvars, queueVars, slotVars, verdictVars, attemptVars
<1>3. CallInv'
  <2>1. r \in Inputs /\ call \in [Inputs -> {"idle", "calling", "returned"}]
    BY InputsAssumption DEF ClaimInv, CallInv
  <2>2. r \in reserved
    BY <1>1 DEF ClaimInv, CallInv
  <2>3. \A q \in Steerable : q # r => call'[q] = call[q]
    BY <1>1, <2>1
  <2> QED BY <1>1, <1>2, <2>1, <2>2, <2>3 DEF ClaimInv, CallInv
<1>4. BoxInv'
  BY <1>1, <1>2, BoxStays DEF ClaimInv
<1>5. EvidenceInv'
  <2>1. [req |-> r, says |-> res] \in [req : Steerable, says : Results]
    OBVIOUS
  <2>2. /\ Len(completions') = Len(completions) + 1 /\ Len(completions) \in Nat
        /\ \A k \in 1..Len(completions) : completions'[k] = completions[k]
        /\ completions'[Len(completions) + 1] = [req |-> r, says |-> res]
    BY <1>1, <2>1, AppendFacts DEF ChannelTypeOK
  <2>3. ASSUME NEW k \in 1..Len(completions')
        PROVE  Says(completions'[k].req, completions'[k].says)
    <3>1. CASE k \in 1..Len(completions)
      BY <2>2, <3>1 DEF ClaimInv, EvidenceInv
    <3>2. CASE k = Len(completions) + 1
      BY <1>1, <2>2, <3>2
    <3> QED BY <2>2, <3>1, <3>2
  <2> QED BY <1>1, <1>2, <2>3 DEF ClaimInv, EvidenceInv, Says
<1>6. TrueVerdicts'
  BY <1>1, <1>2 DEF ClaimInv, TrueVerdicts
<1> QED BY <1>3, <1>4, <1>5, <1>6 DEF ClaimInv

(* An observation is put in the box, and nothing else is said. *)
LEMMA AppendClaims ==
  ASSUME ChannelTypeOK, ClaimInv, UNCHANGED mvars, UNCHANGED <<verdict, call, completions>>,
         BoxInv'
  PROVE  ClaimInv'
<1>1. UNCHANGED <<reserved, seen, done, result, injected, untrackable, fallback>>
  BY DEF mvars, queueVars, slotVars, verdictVars, attemptVars
<1>2. CallInv' /\ EvidenceInv'
  BY <1>1 DEF ClaimInv, CallInv, EvidenceInv, Says
<1>3. TrueVerdicts'
  BY <1>1 DEF ClaimInv, TrueVerdicts
<1> QED BY <1>2, <1>3 DEF ClaimInv

LEMMA AcknowledgeClaims ==
  ASSUME ChannelTypeOK, ClaimInv, NEW r \in Steerable, Acknowledge(r)
  PROVE  ClaimInv'
<1> DEFINE o == [kind |-> "steer", req |-> r, says |-> verdict[r]]
<1>1. /\ UNCHANGED mvars /\ UNCHANGED <<verdict, call, completions>>
      /\ call[r] # "idle" /\ r \notin acked /\ acked' = acked \cup {r}
      /\ mailbox' = Append(mailbox, o)
  BY DEF Acknowledge
<1>2. reserved' = reserved /\ seen' = seen
  BY <1>1 DEF mvars, slotVars, attemptVars
<1>3. o \in Observation
  <2>1. verdict[r] \in Results
    BY VerdictResults, InputsAssumption DEF ChannelTypeOK
  <2> QED BY <2>1 DEF Observation
<1>4. o.req = r /\ o.says = verdict[r]
  OBVIOUS
<1>5. r \in reserved
  BY <1>1 DEF ClaimInv, CallInv
<1> HIDE DEF o
<1>6. BoxInv'
  BY <1>1, <1>2, <1>3, <1>4, <1>5, BoxAppended DEF ClaimInv
<1> QED BY <1>1, <1>6, AppendClaims

LEMMA FactClaims ==
  ASSUME ChannelTypeOK, ClaimInv, UNCHANGED mvars,
         UNCHANGED <<verdict, call, acked, completions>>,
         NEW k \in {"prompt", "done", "failed"}, mailbox' = Append(mailbox, Fact(k))
  PROVE  ClaimInv'
<1>1. reserved' = reserved /\ seen' = seen
  BY DEF mvars, slotVars, attemptVars
<1>2. Fact(k) \in Observation /\ Fact(k).kind # "steer"
  BY FactType DEF Fact
<1>3. BoxInv'
  BY <1>1, <1>2, BoxAppended DEF ClaimInv
<1> QED BY <1>3, AppendClaims

LEMMA ProducerClaims ==
  ASSUME ChannelTypeOK, ClaimInv, Producer
  PROVE  ClaimInv'
<1>1. CASE Spawn
  BY <1>1, QuietClaims DEF Spawn, providerVars
<1>2. CASE Prompt
  <2>1. UNCHANGED mvars /\ UNCHANGED <<verdict, call, acked, completions>>
    BY <1>2 DEF Prompt, providerVars
  <2>2. CASE mailbox' = Append(mailbox, Fact("prompt"))
    BY <2>1, <2>2, FactClaims
  <2>3. CASE mailbox' = mailbox
    BY <2>1, <2>3, QuietClaims
  <2> QED BY <1>2, <2>2, <2>3 DEF Prompt
<1>3. CASE Conclude
  BY <1>3, QuietClaims DEF Conclude, providerVars, channelVars
<1>4. CASE SendTerminal
  <2>1. UNCHANGED mvars /\ UNCHANGED <<verdict, call, acked, completions>>
    BY <1>4 DEF SendTerminal, providerVars
  <2>2. CASE mailbox' = Append(mailbox, Fact(IF final = "success" THEN "done" ELSE "failed"))
    BY <2>1, <2>2, FactClaims
  <2>3. CASE mailbox' = mailbox
    BY <2>1, <2>3, QuietClaims
  <2> QED BY <1>4, <2>2, <2>3 DEF SendTerminal
<1>5. CASE Report
  BY <1>5, QuietClaims DEF Report, providerVars
<1> QED BY <1>1, <1>2, <1>3, <1>4, <1>5 DEF Producer

LEMMA OutcomeClaims ==
  ASSUME ClaimInv, NEW next, TakeOutcome(next)
  PROVE  ClaimInv'
BY QuietClaims DEF TakeOutcome, providerVars

(* Each call the actor makes on the machine of its own accord. *)
LEMMA OwnCallClaims ==
  ASSUME MachineInv, ChannelTypeOK, ClaimInv,
         UNCHANGED <<verdict, acked, mailbox, completions>>, Started \/ call' = call,
         \/ \E i \in Inputs : Offer(i)
         \/ \E isOrdered \in BOOLEAN : SetStream(isOrdered)
         \/ Timeout \/ DeadlineTimeout \/ Shutdown
         \/ Tick \/ Cleanup \/ UNCHANGED mvars
         \/ \E k \in 1..Len(loopPending) : CancelQueued(k) \/ Flush(k)
  PROVE  ClaimInv'
<1>1. [MachineNext]_mvars
  BY DEF MachineNext
<1>2. Silent /\ EvidenceStays
  BY OfferSeen, SetStreamSeen, TimeoutSeen, DeadlineTimeoutSeen, ShutdownSeen, OtherSeen
     DEF MachineInv
<1> QED BY <1>1, <1>2, SilentClaims DEF MachineInv

LEMMA ControlClaims ==
  ASSUME MachineInv, ChannelTypeOK, ClaimInv, NEW c \in Controls, SelectControl(c)
  PROVE  ClaimInv'
<1>1. MarkTerminal /\ Started /\ UNCHANGED <<verdict, acked, mailbox, completions>>
  BY DEF SelectControl, channelVars
<1>2. TrueVerdicts' /\ EvidenceStays
  BY <1>1, TerminalTells
<1>3. reserved \subseteq reserved'
  BY <1>1, ReservedStays DEF MachineInv, MachineNext
<1>4. CallInv' /\ BoxInv'
  BY <1>1, <1>2, <1>3, CallsStay, BoxStays DEF ClaimInv, EvidenceStays
<1>5. EvidenceInv'
  BY <1>1, <1>2 DEF ClaimInv, EvidenceInv, EvidenceStays, Says
<1> QED BY <1>2, <1>4, <1>5 DEF ClaimInv

LEMMA ActorClaims ==
  ASSUME MachineInv, ChannelTypeOK, ClaimInv, Actor
  PROVE  ClaimInv'
<1>1. CASE SelectResult
  BY <1>1, OutcomeClaims DEF SelectResult
<1>2. CASE DrainResult
  <2>1. CASE TakeObservation(TRUE, "resultDrain")
    BY <2>1, ObservationClaims
  <2>2. CASE UNCHANGED <<mvars, providerVars, channelVars>>
    BY <2>2, QuietClaims DEF providerVars, channelVars
  <2> QED BY <1>2, <2>1, <2>2 DEF DrainResult
<1>3. CASE SelectStream
  BY <1>3, OwnCallClaims DEF SelectStream
<1>4. CASE SelectObservation
  BY <1>4, ObservationClaims DEF SelectObservation
<1>5. CASE SelectCompletion
  BY <1>5, CompletionClaims DEF SelectCompletion
<1>6. CASE SelectTick
  BY <1>6, OwnCallClaims DEF SelectTick, providerVars, channelVars
<1>7. CASE DrainEvidence
  BY <1>7, OutcomeClaims, ObservationClaims, CompletionClaims DEF DrainEvidence
<1>8. CASE Expire
  BY <1>8, OwnCallClaims DEF Expire, channelVars
<1>9. CASE ServeEvidence
  <2>1. CASE TakeObservation(FALSE, "serve")
    BY <2>1, ObservationClaims
  <2>2. CASE TakeCompletion("serve")
    BY <2>2, CompletionClaims
  <2>3. CASE UNCHANGED <<mvars, providerVars, completions, mailbox>>
    BY <2>3, QuietClaims DEF providerVars
  <2> QED BY <1>9, <2>1, <2>2, <2>3 DEF ServeEvidence
<1>10. CASE ServeTick
  BY <1>10, OwnCallClaims DEF ServeTick, channelVars
<1>11. CASE ServeDone
  BY <1>11, QuietClaims DEF ServeDone, providerVars, channelVars
<1>12. CASE PublishHold
  BY <1>12, QuietClaims DEF PublishHold, providerVars, channelVars
<1>13. CASE ApplyOutcome
  BY <1>13, QuietClaims DEF ApplyOutcome, providerVars, channelVars
<1>14. CASE CancelPending
  <2>1. UNCHANGED <<verdict, call, acked, mailbox, completions>>
    BY <1>14 DEF CancelPending, providerVars, channelVars
  <2>2. PICK n \in Nat : IF n = 0 THEN UNCHANGED mvars ELSE Flush(n)
    BY <1>14 DEF CancelPending, Flush
  <2>3. n # 0 => n \in 1..Len(loopPending) /\ Flush(n)
    BY <2>2 DEF Flush
  <2> QED BY <2>1, <2>2, <2>3, OwnCallClaims
<1>15. CASE ShutdownMachine
  BY <1>15, OwnCallClaims DEF ShutdownMachine, channelVars
<1>16. CASE DeferredShutdown
  BY <1>16, OwnCallClaims DEF DeferredShutdown, channelVars
<1>17. CASE DeferredCleanup
  BY <1>17, OwnCallClaims DEF DeferredCleanup, providerVars, channelVars
<1> QED
  BY <1>1, <1>2, <1>3, <1>4, <1>5, <1>6, <1>7, <1>8, <1>9, <1>10, <1>11, <1>12, <1>13,
     <1>14, <1>15, <1>16, <1>17 DEF Actor

LEMMA CommandsClaims ==
  ASSUME MachineInv, ChannelTypeOK, ClaimInv, Commands
  PROVE  ClaimInv'
<1>1. ASSUME NEW i \in Inputs, SelectInput(i)
      PROVE  ClaimInv'
  BY <1>1, OwnCallClaims DEF SelectInput, channelVars
<1>2. ASSUME NEW i \in Inputs, RejectInput(i)
      PROVE  ClaimInv'
  BY <1>2, QuietClaims DEF RejectInput, providerVars, channelVars
<1>3. ASSUME NEW k \in 1..Len(loopPending), SelectRetract(k)
      PROVE  ClaimInv'
  BY <1>3, OwnCallClaims DEF SelectRetract, providerVars, channelVars
<1> QED BY <1>1, <1>2, <1>3, ControlClaims DEF Commands

LEMMA StepClaims ==
  ASSUME MachineInv, ChannelTypeOK, ClaimInv, [TurnNext]_tvars
  PROVE  ClaimInv'
<1>1. CASE Provider
  BY <1>1, ReturnClaims, AcknowledgeClaims DEF Provider
<1>2. CASE UNCHANGED tvars
  BY <1>2, QuietClaims DEF tvars, providerVars, channelVars
<1> QED BY <1>1, <1>2, ProducerClaims, ActorClaims, CommandsClaims DEF TurnNext

LEMMA InitClaims ==
  ASSUME TurnInit
  PROVE  ClaimInv
<1>1. /\ call = [i \in Inputs |-> "idle"] /\ acked = {} /\ mailbox = <<>> /\ completions = <<>>
      /\ seen = {} /\ done = {} /\ injected = {} /\ untrackable = {} /\ fallback = {}
  BY DEF TurnInit, Init
<1>2. CallInv
  BY <1>1, InputsAssumption DEF CallInv
<1>3. Len(mailbox) = 0 /\ Len(completions) = 0
  BY <1>1
<1>4. BoxInv /\ EvidenceInv
  BY <1>1, <1>3 DEF BoxInv, EvidenceInv
<1>5. TrueVerdicts
  BY <1>1 DEF TrueVerdicts
<1> QED BY <1>2, <1>4, <1>5 DEF ClaimInv

(* An acknowledgement carries no request identity, and a completion may come
   late: all the same, what the delivery hook is told of a steered request, other
   than "unknown", is what the provider said of that very request, for any number
   of requests and whatever the goroutines' order. *)
THEOREM VerdictsAreTrue == TurnSpec => []TrueVerdicts
<1>1. TurnInit => ChannelTypeOK /\ ClaimInv
  BY TurnInitChannels, InitClaims
<1>2. MachineInv /\ ChannelTypeOK /\ ClaimInv /\ [TurnNext]_tvars
        => ChannelTypeOK' /\ ClaimInv'
  BY TurnStep, StepClaims
<1>3. ClaimInv => TrueVerdicts
  BY DEF ClaimInv
<1> QED BY <1>1, <1>2, <1>3, TurnKeepsMachine, PTL DEF TurnSpec

-----------------------------------------------------------------------------
(***************************************************************************)
(* A tick is remembered with the attempt it was taken for.                 *)
(***************************************************************************)
ArmedInv == OwnDeadline /\ (pc = "deadlineDrain" => picked \in lapsed)

(* No attempt is retired by its deadline in a turn that goes on. *)
NoneExpires == stage' = "running" => stage = "running" /\ deadlineExpired' = deadlineExpired

LEMMA NoneExpiresKeeps ==
  ASSUME OwnDeadline, NoneExpires, lapsed' = lapsed
  PROVE  OwnDeadline'
BY DEF OwnDeadline, NoneExpires

LEMMA QuietExpires == ASSUME UNCHANGED mvars PROVE NoneExpires
BY DEF NoneExpires, mvars, attemptVars

(* What the actor takes off a channel retires nobody by a deadline. *)
LEMMA TakeExpires ==
  ASSUME ChannelTypeOK, NEW next,
         \/ \E publishing \in BOOLEAN : TakeObservation(publishing, next)
         \/ TakeCompletion(next) \/ TakeOutcome(next)
  PROVE  NoneExpires /\ UNCHANGED <<picked, lapsed>>
<1>1. CASE \E publishing \in BOOLEAN : TakeObservation(publishing, next)
  <2>1. PICK publishing \in BOOLEAN : TakeObservation(publishing, next)
    BY <1>1
  <2>2. UNCHANGED <<picked, lapsed>>
    BY <2>1 DEF TakeObservation
  <2>3. Process(Head(mailbox), publishing)
    BY <2>1 DEF TakeObservation
  <2>4. NoneExpires
    BY <2>3 DEF Process, NoneExpires, ObserveSteer, MarkTerminal, attemptVars, mvars
  <2> QED BY <2>2, <2>4
<1>2. CASE TakeCompletion(next)
  BY <1>2 DEF TakeCompletion, Finish, Complete, NoneExpires, mvars, attemptVars
<1>3. CASE TakeOutcome(next)
  BY <1>3 DEF TakeOutcome, NoneExpires, mvars, attemptVars, signalVars
<1> QED BY <1>1, <1>2, <1>3

(* The deadline's verdict falls on the attempt whose deadline ran out. *)
LEMMA ExpireOwn ==
  ASSUME ArmedInv, Expire
  PROVE  ArmedInv'
<1>1. lapsed' = lapsed /\ picked' = picked /\ pc' # "deadlineDrain"
  BY DEF Expire, Continue
<1>2. CASE DeadlineTimeout /\ pc = "deadlineDrain" /\ active = picked
  BY <1>1, <1>2 DEF ArmedInv, OwnDeadline, DeadlineTimeout, Live
<1>3. CASE Timeout
  BY <1>1, <1>3, NoneExpiresKeeps DEF ArmedInv, NoneExpires, Timeout, attemptVars
<1>4. CASE UNCHANGED mvars
  BY <1>1, <1>4, QuietExpires, NoneExpiresKeeps DEF ArmedInv
<1> QED BY <1>1, <1>2, <1>3, <1>4 DEF Expire, DeadlineExpires

LEMMA ServeTickOwn ==
  ASSUME ArmedInv, ServeTick
  PROVE  ArmedInv'
<1>1. pc' # "deadlineDrain"
  BY DEF ServeTick, Continue
<1>2. CASE DeadlineTimeout /\ lapsed' = lapsed \cup {active}
  BY <1>1, <1>2 DEF ArmedInv, OwnDeadline, DeadlineTimeout, Live
<1>3. CASE Timeout /\ UNCHANGED lapsed
  BY <1>1, <1>3, NoneExpiresKeeps DEF ArmedInv, NoneExpires, Timeout, attemptVars
<1> QED BY <1>2, <1>3 DEF ServeTick

LEMMA StepKeepsTicks ==
  ASSUME ChannelTypeOK, ArmedInv, [TurnNext]_tvars
  PROVE  ArmedInv'
<1> DEFINE Elsewhere == NoneExpires /\ lapsed' = lapsed /\ (pc' # "deadlineDrain" \/ UNCHANGED <<pc, picked>>)
<1>1. ASSUME Elsewhere PROVE ArmedInv'
  BY <1>1, NoneExpiresKeeps DEF ArmedInv
<1>2. CASE UNCHANGED mvars /\ UNCHANGED <<lapsed, pc, picked>>
  BY <1>1, <1>2, QuietExpires
<1>3. CASE Provider \/ Producer \/ UNCHANGED tvars
  <2>1. UNCHANGED mvars /\ UNCHANGED <<lapsed, pc, picked>>
    BY <1>3 DEF Provider, Return, Acknowledge, Producer, Spawn, Prompt, Conclude, SendTerminal,
                Report, signalVars, actorVars, tvars
  <2> QED BY <1>2, <2>1
<1>4. CASE Commands
  <2>1. NoneExpires
    BY <1>4, QuietExpires
       DEF Commands, SelectInput, RejectInput, SelectRetract, SelectControl, Offer, CancelQueued,
           MarkTerminal, NoneExpires, attemptVars
  <2>2. lapsed' = lapsed
    BY <1>4 DEF Commands, SelectInput, RejectInput, SelectRetract, SelectControl
  <2>3. pc' # "deadlineDrain"
    BY <1>4 DEF Commands, SelectInput, RejectInput, SelectRetract, SelectControl, Continue
  <2> QED BY <1>1, <2>1, <2>2, <2>3
<1>5. CASE SelectTick
  <2>1. NoneExpires /\ lapsed \subseteq lapsed'
    BY <1>5 DEF SelectTick, Tick, NoneExpires, attemptVars
  <2>2. pc' = "deadlineDrain" => picked' \in lapsed'
    BY <1>5 DEF SelectTick
  <2> QED BY <2>1, <2>2 DEF ArmedInv, OwnDeadline, NoneExpires
<1>6. CASE SelectResult \/ SelectObservation \/ SelectCompletion
  <2>1. NoneExpires /\ lapsed' = lapsed
    BY <1>6, TakeExpires DEF SelectResult, SelectObservation, SelectCompletion
  <2>2. pc' # "deadlineDrain"
    BY <1>6 DEF SelectResult, SelectObservation, SelectCompletion, TakeOutcome, TakeObservation,
                TakeCompletion, Continue
  <2> QED BY <1>1, <2>1, <2>2
<1>7. CASE DrainEvidence
  <2>1. NoneExpires /\ UNCHANGED <<picked, lapsed>>
    BY <1>7, TakeExpires DEF DrainEvidence
  <2>2. pc' \in {pc, "leave"}
    BY <1>7 DEF DrainEvidence, TakeOutcome, TakeObservation, TakeCompletion, Continue
  <2> QED BY <1>1, <2>1, <2>2
<1>8. CASE DrainResult
  <2>1. CASE TakeObservation(TRUE, "resultDrain")
    <3>1. pc' # "deadlineDrain"
      BY <2>1 DEF TakeObservation, Continue
    <3> QED BY <1>1, <2>1, <3>1, TakeExpires
  <2>2. CASE pc' = "await" /\ UNCHANGED mvars /\ UNCHANGED signalVars
    BY <1>1, <2>2, QuietExpires DEF signalVars
  <2> QED BY <1>8, <2>1, <2>2 DEF DrainResult
<1>9. CASE ServeEvidence
  <2>1. pc = "serve" /\ pc' \in {"serve", "leave"}
    BY <1>9 DEF ServeEvidence, TakeObservation, TakeCompletion, Continue
  <2>2. NoneExpires /\ lapsed' = lapsed
    <3>1. CASE TakeObservation(FALSE, "serve") \/ TakeCompletion("serve")
      BY <3>1, TakeExpires
    <3>2. CASE UNCHANGED mvars /\ UNCHANGED signalVars
      BY <3>2, QuietExpires DEF signalVars
    <3> QED BY <1>9, <3>1, <3>2 DEF ServeEvidence
  <2> QED BY <1>1, <2>1, <2>2
<1>10. CASE SelectStream
  BY <1>1, <1>10 DEF SelectStream, SetStream, NoneExpires, attemptVars, Continue
<1>11. CASE ServeDone \/ PublishHold \/ ApplyOutcome
  <2>1. UNCHANGED mvars /\ lapsed' = lapsed
    BY <1>11 DEF ServeDone, PublishHold, ApplyOutcome, signalVars
  <2>2. pc' # "deadlineDrain"
    BY <1>11 DEF ServeDone, PublishHold, ApplyOutcome, Continue, AfterApply
  <2> QED BY <1>1, <2>1, <2>2, QuietExpires
<1>12. CASE CancelPending
  <2>1. NoneExpires
    BY <1>12, QuietExpires DEF CancelPending, Flush, NoneExpires, attemptVars
  <2> QED BY <1>1, <1>12, <2>1 DEF CancelPending, Continue
<1>13. CASE ShutdownMachine \/ DeferredShutdown \/ DeferredCleanup
  <2>1. stage' # "running"
    BY <1>13 DEF ShutdownMachine, DeferredShutdown, DeferredCleanup, Shutdown, Cleanup
  <2>2. pc' # "deadlineDrain"
    BY <1>13 DEF ShutdownMachine, DeferredShutdown, DeferredCleanup, Continue
  <2> QED BY <2>1, <2>2 DEF ArmedInv, OwnDeadline
<1> HIDE DEF Elsewhere
<1> QED
  BY <1>3, <1>4, <1>5, <1>6, <1>7, <1>8, <1>9, <1>10, <1>11, <1>12, <1>13, ExpireOwn, ServeTickOwn
     DEF TurnNext, Actor

(* The tick of one attempt's deadline, even taken just before its successor was
   reserved, never retires the successor: in a running turn an attempt is retired
   by the deadline only if its own deadline fired. *)
THEOREM DeadlineIsItsOwn == TurnSpec => []OwnDeadline
<1>1. TurnInit => ChannelTypeOK /\ ArmedInv
  BY TurnInitChannels DEF TurnInit, Init, ArmedInv, OwnDeadline
<1>2. ChannelTypeOK /\ ArmedInv /\ [TurnNext]_tvars => ChannelTypeOK' /\ ArmedInv'
  BY TurnStep, StepKeepsTicks
<1>3. ArmedInv => OwnDeadline
  BY DEF ArmedInv
<1> QED BY <1>1, <1>2, <1>3, PTL DEF TurnSpec

-----------------------------------------------------------------------------
(***************************************************************************)
(* Types of what the actor and the producer keep for themselves.           *)
(***************************************************************************)
(* The reservation deadline runs only for an attempt in the slot. *)
DeadlineInv == active = None => deadlineTimer = "off"

LEMMA ArmsDeadline ==
  ASSUME DeadlineInv, NEW d, Arms(d), d \in {deadlineTimer, "off"}
  PROVE  DeadlineInv'
BY DEF DeadlineInv, Arms

LEMMA StepDeadline ==
  ASSUME DeadlineInv, [MachineNext]_mvars
  PROVE  DeadlineInv'
<1> DEFINE Kept == active' = active /\ deadlineTimer' = deadlineTimer
<1>1. ASSUME Kept PROVE DeadlineInv'
  BY <1>1 DEF DeadlineInv
<1>2. CASE \E i \in Inputs : Offer(i)
  BY <1>1, <1>2, ArmsDeadline DEF Offer, slotVars
<1>3. CASE \E isOrdered \in BOOLEAN : SetStream(isOrdered)
  BY <1>1, <1>3, ArmsDeadline DEF SetStream
<1>4. CASE \E r \in Results : ObserveSteer(r)
  BY <1>4, ArmsDeadline DEF ObserveSteer, Clocks
<1>5. CASE \E a \in Steerable, r \in Results : Complete(a, r)
  BY <1>1, <1>5, ArmsDeadline DEF Complete, Clocks, slotVars, clockVars
<1>6. CASE MarkTerminal
  BY <1>1, <1>6, ArmsDeadline DEF MarkTerminal, Clocks
<1>7. CASE Timeout
  BY <1>7, ArmsDeadline DEF Timeout, Clocks
<1>8. CASE DeadlineTimeout
  BY <1>8, ArmsDeadline DEF DeadlineTimeout, Clocks
<1>9. CASE Tick
  BY <1>9 DEF Tick, DeadlineInv, slotVars
<1>10. CASE \E k \in 1..Len(loopPending) : CancelQueued(k) \/ Flush(k)
  BY <1>1, <1>10 DEF CancelQueued, Flush, slotVars, clockVars
<1>11. CASE Shutdown
  BY <1>11, ArmsDeadline DEF Shutdown, Clocks
<1>12. CASE Cleanup
  BY <1>12 DEF Cleanup, DeadlineInv
<1>13. CASE UNCHANGED mvars
  BY <1>1, <1>13 DEF mvars, slotVars, clockVars
<1> QED BY <1>2, <1>3, <1>4, <1>5, <1>6, <1>7, <1>8, <1>9, <1>10, <1>11, <1>12, <1>13 DEF MachineNext

ProducerTypeOK ==
  /\ producer \in {"spawning", "streaming", "concluding", "reporting", "closed"}
  /\ stream \in {"none", "ordered", "legacy"}
  /\ final \in Outcomes \cup {"none"} /\ resultChan \in Outcomes \cup {"none"}
  /\ prompted \in BOOLEAN /\ streamReady \in BOOLEAN /\ cancelled \in BOOLEAN

ActorTypeOK ==
  /\ outcome \in Outcomes \cup {"none"} /\ captured \in Outcomes \cup {"none"}
  /\ pc \in {"await", "ackDrain", "deadlineDrain", "resultDrain", "serve",
             "apply", "flush", "shutdown", "leave", "cleanup", "left"}
  /\ picked \in Steerable \cup {None} /\ lapsed \subseteq Steerable
  /\ hold \in {"none", "done", "failed"}
  /\ serving \in Controls \cup {"none", "cancelReady"}
  /\ waiting \in BOOLEAN /\ exit \in BOOLEAN
  /\ published \in Seq({"done", "failed", "interrupted"})

TypesInv == ProducerTypeOK /\ ActorTypeOK /\ DeadlineInv

LEMMA ContinueTypes ==
  ASSUME NEW next, Continue(next)
  PROVE  cancelled' \in BOOLEAN /\ pc' \in {"leave", next}
BY DEF Continue

LEMMA PublishTypes ==
  ASSUME ActorTypeOK, NEW e \in {"done", "failed", "interrupted"}, Publish(e)
  PROVE  published' \in Seq({"done", "failed", "interrupted"}) /\ exit' \in BOOLEAN
<1> DEFINE S == {"done", "failed", "interrupted"}
<1>1. published \in Seq(S) /\ e \in S
  BY DEF ActorTypeOK
<1> HIDE DEF S
<1>2. published' \in Seq(S)
  BY <1>1 DEF Publish
<1>3. exit' \in BOOLEAN
  BY DEF Publish
<1> QED BY <1>2, <1>3 DEF S

LEMMA TakeObservationTypes ==
  ASSUME TypesInv, ChannelTypeOK, ErrorTypeOK', NEW publishing \in BOOLEAN,
         NEW next \in {"await", "resultDrain", "ackDrain", "deadlineDrain", "serve"},
         TakeObservation(publishing, next)
  PROVE  ProducerTypeOK' /\ ActorTypeOK'
<1> DEFINE o == Head(mailbox)
<1>1. Process(o, publishing) /\ o \in Observation
  BY TailFacts DEF TakeObservation, ChannelTypeOK
<1>2. /\ UNCHANGED <<producerVars, streamReady, resultChan>> /\ Continue(next)
      /\ UNCHANGED <<lapsed, picked, outcome, serving, captured, waiting>>
  BY DEF TakeObservation
<1> HIDE DEF o
<1>3. /\ hold' \in {"none", "done", "failed"} /\ exit' \in BOOLEAN
      /\ published' \in Seq({"done", "failed", "interrupted"})
  <2>1. CASE exit' = failed' /\ UNCHANGED <<hold, published>>
    BY <2>1 DEF TypesInv, ActorTypeOK, ErrorTypeOK
  <2>2. CASE /\ IsTurnTerminal(o)
             /\ hold' = IF Holds /\ publishing THEN o.kind ELSE hold
             /\ IF ~failed' /\ ~Holds /\ publishing
                THEN Publish(o.kind) ELSE exit' = failed' /\ UNCHANGED published
    <3>1. o.kind \in {"done", "failed"}
      BY <2>2 DEF IsTurnTerminal
    <3>2. hold' \in {"none", "done", "failed"}
      BY <2>2, <3>1 DEF TypesInv, ActorTypeOK
    <3>3. CASE Publish(o.kind)
      BY <3>1, <3>2, <3>3, PublishTypes DEF TypesInv
    <3>4. CASE exit' = failed' /\ UNCHANGED published
      BY <3>2, <3>4 DEF TypesInv, ActorTypeOK, ErrorTypeOK
    <3> QED BY <2>2, <3>3, <3>4
  <2> QED BY <1>1, <2>1, <2>2 DEF Process
<1>4. ProducerTypeOK'
  BY <1>2, ContinueTypes DEF TypesInv, ProducerTypeOK, producerVars
<1>5. pc' \in {"leave", next}
  BY <1>2, ContinueTypes
<1> QED BY <1>2, <1>3, <1>4, <1>5 DEF TypesInv, ActorTypeOK

LEMMA TakeCompletionTypes ==
  ASSUME TypesInv, ErrorTypeOK',
         NEW next \in {"await", "ackDrain", "deadlineDrain", "serve"}, TakeCompletion(next)
  PROVE  ProducerTypeOK' /\ ActorTypeOK'
<1>1. /\ UNCHANGED <<producerVars, streamReady, resultChan>> /\ Continue(next) /\ exit' = failed'
      /\ UNCHANGED <<lapsed, picked, hold, outcome, serving, captured, waiting, published>>
  BY DEF TakeCompletion
<1>2. ProducerTypeOK'
  BY <1>1, ContinueTypes DEF TypesInv, ProducerTypeOK, producerVars
<1>3. pc' \in {"leave", next}
  BY <1>1, ContinueTypes
<1> QED BY <1>1, <1>2, <1>3 DEF TypesInv, ActorTypeOK, ErrorTypeOK

LEMMA TakeOutcomeTypes ==
  ASSUME TypesInv, NEW next \in {"resultDrain", "ackDrain", "deadlineDrain"}, TakeOutcome(next)
  PROVE  ProducerTypeOK' /\ ActorTypeOK'
BY DEF TakeOutcome, TypesInv, ProducerTypeOK, ActorTypeOK, producerVars, signalVars

LEMMA ProducerTypes ==
  ASSUME TypesInv, Producer
  PROVE  ProducerTypeOK' /\ ActorTypeOK'
<1>1. ActorTypeOK'
  BY DEF TypesInv, ActorTypeOK, Producer, Spawn, Prompt, Conclude, SendTerminal, Report,
         actorVars, signalVars
<1>2. ProducerTypeOK'
  <2> USE DEF TypesInv, ProducerTypeOK, Outcomes, signalVars
  <2>1. CASE Spawn
    BY <2>1 DEF Spawn
  <2>2. CASE Prompt
    BY <2>2 DEF Prompt
  <2>3. CASE Conclude
    BY <2>3 DEF Conclude, channelVars
  <2>4. CASE SendTerminal
    BY <2>4 DEF SendTerminal
  <2>5. CASE Report
    BY <2>5 DEF Report
  <2> QED BY <2>1, <2>2, <2>3, <2>4, <2>5 DEF Producer
<1> QED BY <1>1, <1>2

LEMMA CommandsTypes ==
  ASSUME TypesInv, ErrorTypeOK', Commands
  PROVE  ProducerTypeOK' /\ ActorTypeOK'
<1>1. ASSUME NEW i \in Inputs, SelectInput(i) \/ RejectInput(i)
      PROVE  ProducerTypeOK' /\ ActorTypeOK'
  <2>1. /\ UNCHANGED <<producerVars, channelVars, lapsed>> /\ Continue("await")
        /\ UNCHANGED <<picked, hold, outcome, serving, captured, waiting, published>>
        /\ exit' \in BOOLEAN
    BY <1>1 DEF SelectInput, RejectInput, ErrorTypeOK
  <2> QED BY <2>1, ContinueTypes
          DEF TypesInv, ProducerTypeOK, ActorTypeOK, producerVars, channelVars
<1>2. ASSUME NEW k \in 1..Len(loopPending), SelectRetract(k)
      PROVE  ProducerTypeOK' /\ ActorTypeOK'
  <2>1. /\ UNCHANGED <<producerVars, channelVars, lapsed>> /\ Continue("await")
        /\ UNCHANGED <<picked, hold, outcome, serving, captured, waiting, published>>
        /\ exit' \in BOOLEAN
    BY <1>2 DEF SelectRetract
  <2> QED BY <2>1, ContinueTypes
          DEF TypesInv, ProducerTypeOK, ActorTypeOK, producerVars, channelVars
<1>3. ASSUME NEW c \in Controls, SelectControl(c)
      PROVE  ProducerTypeOK' /\ ActorTypeOK'
  <2>1. /\ UNCHANGED <<producerVars, channelVars, lapsed, picked, hold, outcome, captured, published>>
        /\ serving' \in Controls \cup {"cancelReady"} /\ pc' \in {"leave", "serve"}
        /\ exit' = failed'
    BY <1>3 DEF SelectControl
  <2>2. cancelled' \in BOOLEAN
    BY <1>3 DEF SelectControl
  <2>3. waiting' \in BOOLEAN
    BY <1>3 DEF SelectControl
  <2> QED BY <2>1, <2>2, <2>3
          DEF TypesInv, ProducerTypeOK, ActorTypeOK, ErrorTypeOK, producerVars, channelVars
<1> QED BY <1>1, <1>2, <1>3 DEF Commands

LEMMA ActorTypes ==
  ASSUME TypesInv, TypeOK, ChannelTypeOK, ErrorTypeOK', Actor
  PROVE  ProducerTypeOK' /\ ActorTypeOK'
<1> DEFINE Calls(next) ==
             /\ UNCHANGED <<producerVars, resultChan, lapsed, picked, outcome,
                            serving, captured, waiting>>
             /\ streamReady' \in {streamReady, FALSE} /\ hold' \in {hold, "none"}
             /\ published' \in Seq({"done", "failed", "interrupted"}) /\ exit' \in BOOLEAN
             /\ cancelled' \in BOOLEAN /\ pc' \in {"leave", next}
<1>1. ASSUME NEW next \in {"await", "serve", "apply", "flush", "shutdown", "leave", "cleanup", "left"},
             Calls(next)
      PROVE  ProducerTypeOK' /\ ActorTypeOK'
  <2>1. streamReady' \in BOOLEAN
    BY <1>1 DEF TypesInv, ProducerTypeOK
  <2>2. ProducerTypeOK'
    BY <1>1, <2>1 DEF TypesInv, ProducerTypeOK, producerVars
  <2>3. hold' \in {"none", "done", "failed"}
    BY <1>1 DEF TypesInv, ActorTypeOK
  <2>4. ActorTypeOK'
    BY <1>1, <2>3 DEF TypesInv, ActorTypeOK
  <2> QED BY <2>2, <2>4
<1>2. CASE SelectResult
  BY <1>2, TakeOutcomeTypes DEF SelectResult
<1>3. CASE DrainResult
  <2>1. CASE TakeObservation(TRUE, "resultDrain")
    BY <2>1, TakeObservationTypes
  <2>2. CASE /\ pc' = "await" /\ UNCHANGED <<producerVars, channelVars, signalVars, picked, hold>>
             /\ UNCHANGED <<outcome, serving, captured, waiting, exit, published>>
    BY <1>1, <2>2 DEF channelVars, signalVars, TypesInv, ProducerTypeOK, ActorTypeOK
  <2> QED BY <1>3, <2>1, <2>2 DEF DrainResult
<1>4. CASE SelectStream
  <2>1. Calls("await")
    BY <1>4, ContinueTypes DEF SelectStream, ErrorTypeOK, TypesInv, ActorTypeOK
  <2> QED BY <1>1, <2>1
<1>5. CASE SelectObservation
  BY <1>5, TakeObservationTypes DEF SelectObservation
<1>6. CASE SelectCompletion
  BY <1>6, TakeCompletionTypes DEF SelectCompletion
<1>7. CASE SelectTick
  <2>1. active \in Steerable \cup {None}
    BY DEF TypeOK, SlotTypeOK
  <2>2. /\ UNCHANGED <<producerVars, channelVars, cancelled, hold, outcome, serving>>
        /\ UNCHANGED <<captured, waiting, exit, published>>
        /\ picked' = active /\ pc' \in {"ackDrain", "deadlineDrain"}
    BY <1>7 DEF SelectTick
  <2>3. lapsed' = lapsed \/ (deadlineTimer = "armed" /\ lapsed' = lapsed \cup {active})
    BY <1>7 DEF SelectTick, Tick
  <2>4. lapsed' \subseteq Steerable
    BY <2>1, <2>3 DEF TypesInv, ActorTypeOK, DeadlineInv
  <2> QED BY <2>1, <2>2, <2>4 DEF TypesInv, ProducerTypeOK, ActorTypeOK, producerVars, channelVars
<1>8. CASE DrainEvidence
  BY <1>8, TakeOutcomeTypes, TakeObservationTypes, TakeCompletionTypes DEF DrainEvidence
<1>9. CASE Expire
  <2>1. Calls("await")
    BY <1>9, ContinueTypes DEF Expire, channelVars, ErrorTypeOK, TypesInv, ActorTypeOK
  <2> QED BY <1>1, <2>1
<1>10. CASE ServeEvidence
  <2>1. CASE TakeObservation(FALSE, "serve")
    BY <2>1, TakeObservationTypes
  <2>2. CASE TakeCompletion("serve")
    BY <2>2, TakeCompletionTypes
  <2>3. CASE /\ resultChan' = "none" /\ captured' = IF Keeps THEN resultChan ELSE captured
             /\ UNCHANGED <<producerVars, streamReady, signalVars, pc, picked, hold, outcome>>
             /\ UNCHANGED <<serving, waiting, exit, published>>
    BY <2>3 DEF TypesInv, ProducerTypeOK, ActorTypeOK, producerVars, signalVars
  <2> QED BY <1>10, <2>1, <2>2, <2>3 DEF ServeEvidence
<1>11. CASE ServeTick
  <2>1. lapsed' \subseteq Steerable
    BY <1>11 DEF ServeTick, TypesInv, ActorTypeOK, TypeOK, SlotTypeOK
  <2>2. /\ UNCHANGED <<producerVars, channelVars, picked, hold, outcome, serving, captured>>
        /\ UNCHANGED <<waiting, published>>
        /\ exit' = failed' /\ Continue("serve")
    BY <1>11 DEF ServeTick
  <2> QED BY <2>1, <2>2, ContinueTypes
          DEF TypesInv, ProducerTypeOK, ActorTypeOK, ErrorTypeOK, producerVars, channelVars
<1>12. CASE ServeDone
  <2>1. Calls(IF serving \in {"shutdown", "context"} THEN "shutdown" ELSE "apply")
    BY <1>12 DEF ServeDone, channelVars, signalVars, TypesInv, ProducerTypeOK, ActorTypeOK
  <2> QED BY <1>1, <2>1
<1>13. CASE PublishHold
  <2>1. hold \in {"done", "failed", "interrupted"}
    BY <1>13 DEF PublishHold, HoldDue, TypesInv, ActorTypeOK
  <2>2. Calls("await")
    BY <1>13, <2>1, PublishTypes, ContinueTypes DEF PublishHold, channelVars, TypesInv
  <2> QED BY <1>1, <2>2
<1>14. CASE ApplyOutcome
  <2>1. published' \in Seq({"done", "failed", "interrupted"}) /\ exit' \in BOOLEAN
    BY <1>14, PublishTypes DEF ApplyOutcome, TypesInv, ActorTypeOK
  <2>2. Calls(AfterApply)
    BY <1>14, <2>1, ContinueTypes DEF ApplyOutcome, channelVars
  <2>3. AfterApply \in {"leave", "flush", "shutdown"}
    BY DEF AfterApply
  <2> QED BY <1>1, <2>2, <2>3
<1>15. CASE CancelPending
  <2>1. exit' \in BOOLEAN
    BY <1>15 DEF CancelPending
  <2>2. Calls(IF serving = "none" THEN "shutdown" ELSE "leave")
    BY <1>15, <2>1, ContinueTypes DEF CancelPending, channelVars, TypesInv, ActorTypeOK
  <2> QED BY <1>1, <2>2
<1>16. CASE ShutdownMachine
  <2>1. exit' \in BOOLEAN
    BY <1>16 DEF ShutdownMachine
  <2>2. Calls(IF serving = "shutdown" THEN "flush" ELSE "leave")
    BY <1>16, <2>1, ContinueTypes DEF ShutdownMachine, channelVars, TypesInv, ActorTypeOK
  <2> QED BY <1>1, <2>2
<1>17. CASE DeferredShutdown
  <2>1. Calls("cleanup")
    BY <1>17 DEF DeferredShutdown, channelVars, signalVars, TypesInv, ProducerTypeOK, ActorTypeOK
  <2> QED BY <1>1, <2>1
<1>18. CASE DeferredCleanup
  <2>1. Calls("left")
    BY <1>18 DEF DeferredCleanup, channelVars, TypesInv, ProducerTypeOK, ActorTypeOK
  <2> QED BY <1>1, <2>1
<1> HIDE DEF Calls
<1> QED
  BY <1>2, <1>3, <1>4, <1>5, <1>6, <1>7, <1>8, <1>9, <1>10, <1>11, <1>12, <1>13, <1>14,
     <1>15, <1>16, <1>17, <1>18 DEF Actor

LEMMA StepTypes ==
  ASSUME TypesInv, IInv, IInv', ChannelTypeOK, [TurnNext]_tvars
  PROVE  TypesInv'
<1>1. TypeOK /\ ErrorTypeOK'
  BY DEF IInv, TypeOK
<1>2. ProducerTypeOK' /\ ActorTypeOK'
  <2>1. CASE Provider \/ UNCHANGED tvars
    <3>1. UNCHANGED <<producerVars, streamReady, resultChan, actorVars, signalVars>>
      BY <2>1 DEF Provider, Return, Acknowledge, tvars, channelVars
    <3>2. ProducerTypeOK'
      BY <3>1 DEF TypesInv, ProducerTypeOK, producerVars, signalVars
    <3>3. ActorTypeOK'
      BY <3>1 DEF TypesInv, ActorTypeOK, actorVars, signalVars
    <3> QED BY <3>2, <3>3
  <2> QED BY <1>1, <2>1, ProducerTypes, ActorTypes, CommandsTypes DEF TurnNext
<1>3. DeadlineInv'
  BY TurnStep, StepDeadline DEF TypesInv
<1> QED BY <1>2, <1>3 DEF TypesInv

-----------------------------------------------------------------------------
(***************************************************************************)
(* The ways out of a turn.  The actor leaves with true as soon as a call   *)
(* has failed; without, it has nothing left to adjudicate, so that the     *)
(* deferred shutdown neither fails nor hands anything back.                *)
(***************************************************************************)
Leaving == {"leave", "cleanup", "left"}
Driving == {"await", "resultDrain", "ackDrain", "deadlineDrain"}
Settled == ~Unresolved /\ pending = <<>>
Stopped == serving = "interrupt" \/ (serving = "none" /\ outcome = "failed")

ExitInv ==
  /\ pc \notin Leaving => ~exit /\ ~failed
  /\ failed => exit
  /\ (pc \in {"apply", "flush", "shutdown"} \/ (pc \in {"leave", "cleanup"} /\ ~exit)) => Settled
  /\ pc = "serve" /\ waiting => active = None /\ pending = <<>>
  /\ pc \in Driving => serving = "none"
  /\ pc = "shutdown" => serving # "interrupt"

FlushedInv ==
  (pc = "shutdown" \/ (pc \in Leaving /\ ~exit)) => (Stopped => loopPending = <<>>)

WayOutInv == ExitInv /\ FlushedInv

LEMMA QueuesAll ==
  ASSUME NEW S, pending \in Seq(S), QueuePending(Len(pending))
  PROVE  pending' = <<>>
BY DEF QueuePending

(* A terminal fact that did not fail has queued everything that waited. *)
LEMMA TerminalEmpties ==
  ASSUME IInv, MarkTerminal, ~failed'
  PROVE  pending' = <<>>
<1>1. pending \in Seq(Steerable)
  BY DEF IInv, TypeOK, SlotTypeOK
<1>2. ~Fail /\ ~ReturnError
  BY DEF Fail, ReturnError
<1>3. CASE \E n \in Tries : QueuePending(n) /\ n = Len(pending)
  BY <1>1, <1>3, QueuesAll
<1>4. CASE Adjudicate(active, result[active])
  <2>1. terminal' = TRUE
    BY DEF MarkTerminal
  <2>2. CASE ResolveInjected(active)
    BY <1>2, <1>3, <2>1, <2>2 DEF ResolveInjected
  <2>3. CASE ResolveFallback(active)
    <3>1. pending' = SubSeq(pending, Len(pending) + 2, Len(pending))
      BY <1>2, <2>3 DEF ResolveFallback
    <3> QED BY <1>1, <3>1
  <2>4. CASE ResolveUnknown(active)
    BY <1>2, <1>3, <2>4 DEF ResolveUnknown
  <2>5. CASE ResolveUntrackable(active)
    BY <1>2, <2>5 DEF ResolveUntrackable
  <2> QED BY <1>4, <2>2, <2>3, <2>4, <2>5 DEF Adjudicate
<1>5. CASE \E n \in Tries : QueuePending(n) /\ IF n = Len(pending) THEN NoError ELSE ReturnError
  BY <1>2, <1>3, <1>5
<1> QED BY <1>4, <1>5 DEF MarkTerminal

(* Shutting down a machine with nothing to adjudicate changes nothing else. *)
LEMMA SettledShutdown ==
  ASSUME IInv, Settled, ~failed, Shutdown
  PROVE  /\ ~failed' /\ loopPending' = loopPending
         /\ ~Unresolved' /\ pending' = <<>>
<1>1. ~fault /\ loopPending \in Seq(Inputs)
  BY DEF IInv, StageInv, TypeOK, QueueTypeOK
<1>2. PICK n \in Tries : /\ active' = None /\ QueuePending(n)
                         /\ IF n = Len(pending) THEN NoError ELSE ReturnError
  BY <1>1 DEF Shutdown, Settled
<1>3. Len(pending) = 0 /\ n = 0
  BY DEF Settled, Tries
<1>4. NoError
  BY <1>2, <1>3
<1>5. SubSeq(pending, 1, 0) = <<>> /\ SubSeq(pending, 2, 0) = <<>>
  BY DEF Settled
<1>6. loopPending' = loopPending \o <<>> /\ pending' = <<>>
  <2>1. n = 0 /\ n + 2 = 2 /\ Len(pending) = 0
    BY <1>3
  <2>2. /\ loopPending' = loopPending \o SubSeq(pending, 1, n)
        /\ pending' = SubSeq(pending, n + 2, Len(pending))
    BY <1>2 DEF QueuePending
  <2> QED BY ONLY <2>1, <2>2, <1>5, Zenon
<1>7. loopPending' = loopPending
  BY <1>1, <1>6
<1> QED BY <1>2, <1>4, <1>6, <1>7 DEF NoError, errorVars, Unresolved

(* A call made while the turn is driven. *)
LEMMA DrivesOn ==
  ASSUME NEW next \in Driving \cup {"serve"}, Continue(next), failed' => exit',
         next \in Driving => serving' = "none",
         next = "serve" /\ waiting' /\ ~exit' => active' = None /\ pending' = <<>>
  PROVE  WayOutInv'
<1>1. (exit' /\ pc' = "leave") \/ (~exit' /\ pc' = next)
  BY DEF Continue
<1> QED BY <1>1 DEF WayOutInv, ExitInv, FlushedInv, Leaving, Driving

LEMMA StaysOn ==
  ASSUME WayOutInv, pc \in Driving, pc' \in Driving, UNCHANGED <<serving, exit, failed>>
  PROVE  WayOutInv'
BY DEF WayOutInv, ExitInv, FlushedInv, Leaving, Driving

(* A call that left an exit' failed is as the machine says, or a publication failed. *)
LEMMA ObservationExits ==
  ASSUME NEW publishing \in BOOLEAN, NEW next, TakeObservation(publishing, next)
  PROVE  /\ failed' => exit'
         /\ Continue(next) /\ UNCHANGED <<serving, waiting>>
<1>1. Process(Head(mailbox), publishing) /\ Continue(next) /\ UNCHANGED <<serving, waiting>>
  BY DEF TakeObservation
<1>2. failed' => exit'
  BY <1>1 DEF Process
<1> QED BY <1>1, <1>2

LEMMA OutcomeStays ==
  ASSUME WayOutInv, pc \in Driving, NEW next \in Driving, TakeOutcome(next)
  PROVE  WayOutInv'
BY StaysOn DEF TakeOutcome, mvars, errorVars

LEMMA DriveWaysOut ==
  ASSUME WayOutInv,
         \/ SelectResult \/ DrainResult \/ SelectStream \/ SelectObservation \/ SelectCompletion
         \/ SelectTick \/ DrainEvidence \/ Expire \/ PublishHold
  PROVE  WayOutInv'
<1> USE DEF Driving
<1>1. pc \in Driving /\ serving = "none" /\ ~exit /\ ~failed
  BY DEF SelectResult, DrainResult, SelectStream, SelectObservation, SelectCompletion, SelectTick,
         DrainEvidence, Expire, PublishHold, Selecting, WayOutInv, ExitInv, Leaving
<1>2. ASSUME NEW next \in Driving, TakeObservation(TRUE, next)
      PROVE  WayOutInv'
  BY <1>1, <1>2, ObservationExits, DrivesOn
<1>3. ASSUME NEW next \in Driving, TakeCompletion(next)
      PROVE  WayOutInv'
  BY <1>1, <1>3, DrivesOn DEF TakeCompletion
<1>4. CASE SelectResult
  BY <1>1, <1>4, OutcomeStays DEF SelectResult
<1>5. CASE DrainResult
  <2>1. CASE TakeObservation(TRUE, "resultDrain")
    BY <1>2, <2>1
  <2>2. CASE pc' = "await" /\ UNCHANGED mvars /\ UNCHANGED <<serving, exit>>
    BY <1>1, <2>2, StaysOn DEF mvars, errorVars
  <2> QED BY <1>5, <2>1, <2>2 DEF DrainResult
<1>6. CASE SelectStream
  BY <1>1, <1>6, DrivesOn DEF SelectStream
<1>7. CASE SelectObservation \/ SelectCompletion
  BY <1>2, <1>3, <1>7 DEF SelectObservation, SelectCompletion
<1>8. CASE SelectTick
  BY <1>1, <1>8, StaysOn DEF SelectTick, Tick, errorVars
<1>9. CASE DrainEvidence
  BY <1>1, <1>2, <1>3, <1>9, OutcomeStays DEF DrainEvidence
<1>10. CASE Expire
  BY <1>1, <1>10, DrivesOn DEF Expire
<1>11. CASE PublishHold
  <2>1. Continue("await") /\ serving' = serving /\ failed' = failed
    BY <1>11 DEF PublishHold, mvars, errorVars
  <2> QED BY <1>1, <2>1, DrivesOn
<1> QED BY <1>4, <1>5, <1>6, <1>7, <1>8, <1>9, <1>10, <1>11

(* While a control is served: a drain that waits for the outcome has an empty
   machine, and keeps it empty. *)
LEMMA EmptyStays ==
  ASSUME IInv, active = None, pending = <<>>, NEW o \in Observation,
         NEW publishing \in BOOLEAN, Process(o, publishing), ~failed'
  PROVE  active' = None /\ pending' = <<>>
<1>1. ~Unresolved
  BY DEF Unresolved
<1>2. CASE UNCHANGED mvars
  BY <1>2 DEF mvars, slotVars
<1>3. CASE MarkTerminal
  BY <1>1, <1>3, TerminalEmpties DEF MarkTerminal
<1> QED BY <1>1, <1>2, <1>3 DEF Process

LEMMA ServeWaysOut ==
  ASSUME WayOutInv, IInv, ChannelTypeOK, TypesInv, ServeEvidence \/ ServeTick \/ ServeDone
  PROVE  WayOutInv'
<1>1. pc = "serve" /\ ~exit /\ ~failed /\ (waiting => active = None /\ pending = <<>>)
  BY DEF ServeEvidence, ServeTick, ServeDone, WayOutInv, ExitInv, Leaving
<1>2. CASE TakeObservation(FALSE, "serve")
  <2>1. (failed' => exit') /\ Continue("serve") /\ waiting' = waiting
    BY <1>2, ObservationExits
  <2>2. Process(Head(mailbox), FALSE) /\ Head(mailbox) \in Observation
    BY <1>2, TailFacts DEF TakeObservation, ChannelTypeOK
  <2>3. waiting /\ ~failed' => active' = None /\ pending' = <<>>
    BY <1>1, <2>2, EmptyStays
  <2> QED BY <2>1, <2>3, DrivesOn DEF Driving
<1>3. CASE TakeCompletion("serve")
  <2>1. exit' = failed' /\ Continue("serve") /\ waiting' = waiting /\ Finish(Head(completions))
    BY <1>3 DEF TakeCompletion
  <2>2. Head(completions).req \in Steerable
    BY <1>3, TailFacts DEF TakeCompletion, ChannelTypeOK
  <2>3. waiting => active' = None /\ pending' = <<>>
    <3>1. active = None => UNCHANGED mvars
      BY <2>1, <2>2, InputsAssumption DEF Finish, Complete
    <3> QED BY <1>1, <3>1 DEF mvars, slotVars
  <2> QED BY <2>1, <2>3, DrivesOn DEF Driving
<1>4. CASE ServeEvidence /\ UNCHANGED mvars /\ UNCHANGED <<pc, serving, waiting, exit>>
  BY <1>1, <1>4 DEF mvars, errorVars, slotVars, WayOutInv, ExitInv, FlushedInv, Leaving, Driving
<1>5. CASE ServeTick
  <2>1. active # None
    BY <1>5 DEF ServeTick, Unresolved
  <2>2. exit' = failed' /\ Continue("serve") /\ waiting' = waiting
    BY <1>5 DEF ServeTick
  <2> QED BY <1>1, <2>1, <2>2, DrivesOn DEF Driving
<1>6. CASE ServeDone
  <2>1. Settled
    BY <1>1, <1>6 DEF ServeDone, TerminalReady, Settled, Unresolved, IInv, StageInv
  <2>2. UNCHANGED mvars /\ UNCHANGED <<serving, exit>>
    BY <1>6 DEF ServeDone
  <2>3. Settled' /\ failed' = failed
    BY <2>1, <2>2 DEF Settled, Unresolved, mvars, slotVars, verdictVars, errorVars
  <2>4. pc' = IF serving \in {"shutdown", "context"} THEN "shutdown" ELSE "apply"
    BY <1>6 DEF ServeDone
  <2> QED BY <1>1, <2>2, <2>3, <2>4 DEF WayOutInv, ExitInv, FlushedInv, Leaving, Driving, Stopped
<1> QED BY <1>2, <1>3, <1>4, <1>5, <1>6 DEF ServeEvidence

LEMMA ApplyWaysOut ==
  ASSUME WayOutInv, IInv, ApplyOutcome
  PROVE  WayOutInv'
<1>1. ~exit /\ ~failed /\ Settled
  <2>1. pc \in {"await", "apply"} /\ ~exit /\ ~failed
    BY DEF ApplyOutcome, WayOutInv, ExitInv, Leaving
  <2>2. CASE pc = "apply"
    BY <2>1, <2>2 DEF WayOutInv, ExitInv
  <2>3. CASE FinishDue
    BY <2>1, <2>3 DEF FinishDue, TerminalReady, Settled, IInv, StageInv
  <2> QED BY <2>1, <2>2, <2>3 DEF ApplyOutcome
<1>2. UNCHANGED mvars /\ UNCHANGED <<serving, outcome>>
  BY DEF ApplyOutcome
<1>3. Settled' /\ failed' = failed
  BY <1>1, <1>2 DEF Settled, Unresolved, mvars, slotVars, verdictVars, errorVars
<1>4. (exit' /\ pc' = "leave") \/ (~exit' /\ pc' = AfterApply)
  BY DEF ApplyOutcome, Continue
<1>5. AfterApply \in {"leave", "shutdown"} => ~Stopped
  BY DEF AfterApply, Stopped
<1>6. AfterApply \in {"leave", "flush", "shutdown"}
  BY DEF AfterApply
<1>7. AfterApply = "shutdown" => serving # "interrupt"
  BY DEF AfterApply
<1>8. Stopped' = Stopped
  BY <1>2 DEF Stopped
<1>9. ExitInv'
  BY <1>1, <1>2, <1>3, <1>4, <1>6, <1>7 DEF ExitInv, Leaving, Driving
<1> QED BY <1>4, <1>5, <1>6, <1>8, <1>9 DEF WayOutInv, FlushedInv, Leaving

LEMMA FlushWaysOut ==
  ASSUME WayOutInv, IInv, CancelPending
  PROVE  WayOutInv'
<1>1. pc = "flush" /\ ~exit /\ ~failed /\ Settled
  BY DEF CancelPending, WayOutInv, ExitInv, Leaving
<1>2. PICK n \in Nat : /\ n \in 0..Len(loopPending)
                       /\ IF n = 0 THEN UNCHANGED mvars ELSE Flush(n)
                       /\ exit' = (n < Len(loopPending) \/ serving = "shutdown")
  BY DEF CancelPending, IInv, TypeOK, QueueTypeOK
<1>3. UNCHANGED <<active, pending, resolved, failed>>
  BY <1>2 DEF Flush, mvars, slotVars, verdictVars, errorVars
<1>4. Settled'
  BY <1>1, <1>3 DEF Settled, Unresolved
<1>5. ~exit' => loopPending' = <<>>
  <2>1. loopPending \in Seq(Inputs)
    BY DEF IInv, TypeOK, QueueTypeOK
  <2>2. ~exit' => n = Len(loopPending)
    <3>1. n < Len(loopPending) => exit'
      BY <1>2, Zenon
    <3>2. n < Len(loopPending) \/ n = Len(loopPending)
      BY <1>2, <2>1
    <3> QED BY <3>1, <3>2
  <2>3. CASE n = 0
    BY <1>2, <2>1, <2>2, <2>3 DEF mvars, queueVars
  <2>4. CASE n # 0
    BY <1>2, <2>1, <2>2, <2>4 DEF Flush
  <2> QED BY <2>3, <2>4
<1>6. UNCHANGED <<serving, outcome>>
  BY DEF CancelPending
<1>7. \/ exit' /\ pc' = "leave"
      \/ ~exit' /\ pc' = IF serving = "none" THEN "shutdown" ELSE "leave"
  BY DEF CancelPending, Continue
<1> QED BY <1>1, <1>3, <1>4, <1>5, <1>6, <1>7 DEF WayOutInv, ExitInv, FlushedInv, Leaving, Driving

LEMMA ShutdownWaysOut ==
  ASSUME WayOutInv, IInv, ShutdownMachine
  PROVE  WayOutInv'
<1>1. pc = "shutdown" /\ ~exit /\ ~failed /\ Settled /\ serving # "interrupt"
  BY DEF ShutdownMachine, WayOutInv, ExitInv, Leaving
<1>2. ~failed' /\ loopPending' = loopPending /\ Settled'
  BY <1>1, SettledShutdown DEF ShutdownMachine, Settled
<1>3. UNCHANGED <<serving, outcome>> /\ exit' = (failed' \/ serving = "context")
  BY DEF ShutdownMachine
<1>4. \/ exit' /\ pc' = "leave"
      \/ ~exit' /\ pc' = IF serving = "shutdown" THEN "flush" ELSE "leave"
  BY DEF ShutdownMachine, Continue
<1>5. Stopped => loopPending' = <<>>
  BY <1>1, <1>2 DEF WayOutInv, FlushedInv
<1> QED BY <1>1, <1>2, <1>3, <1>4, <1>5
        DEF WayOutInv, ExitInv, FlushedInv, Leaving, Driving, Stopped

LEMMA DeferredWaysOut ==
  ASSUME WayOutInv, IInv, DeferredShutdown \/ DeferredCleanup
  PROVE  WayOutInv'
<1>1. CASE DeferredShutdown
  <2>1. pc = "leave" /\ pc' = "cleanup" /\ Shutdown /\ UNCHANGED <<serving, outcome, exit>>
    BY <1>1 DEF DeferredShutdown
  <2>2. CASE exit
    BY <2>1, <2>2 DEF WayOutInv, ExitInv, FlushedInv, Leaving, Driving
  <2>3. CASE ~exit
    <3>1. ~failed' /\ loopPending' = loopPending /\ Settled'
      BY <2>1, <2>3, SettledShutdown DEF WayOutInv, ExitInv, Settled
    <3> QED BY <2>1, <2>3, <3>1 DEF WayOutInv, ExitInv, FlushedInv, Leaving, Driving, Stopped
  <2> QED BY <2>2, <2>3
<1>2. CASE DeferredCleanup
  <2>1. /\ pc = "cleanup" /\ pc' = "left" /\ UNCHANGED <<serving, outcome, exit>>
        /\ UNCHANGED <<loopPending, failed>>
    BY <1>2 DEF DeferredCleanup, Cleanup, queueVars, errorVars
  <2> QED BY <2>1 DEF WayOutInv, ExitInv, FlushedInv, Leaving, Driving, Stopped
<1> QED BY <1>1, <1>2

LEMMA CommandWaysOut ==
  ASSUME WayOutInv, IInv, Commands
  PROVE  WayOutInv'
<1>1. pc = "await" /\ serving = "none" /\ ~exit /\ ~failed
  BY DEF Commands, SelectInput, RejectInput, SelectRetract, SelectControl, Selecting,
         WayOutInv, ExitInv, Leaving, Driving
<1>2. ASSUME NEW i \in Inputs, SelectInput(i) \/ RejectInput(i)
      PROVE  WayOutInv'
  <2>1. Continue("await") /\ serving' = serving /\ (failed' => exit')
    BY <1>2 DEF SelectInput, RejectInput
  <2> QED BY <1>1, <2>1, DrivesOn DEF Driving
<1>3. ASSUME NEW k \in 1..Len(loopPending), SelectRetract(k)
      PROVE  WayOutInv'
  <2>1. Continue("await") /\ serving' = serving /\ failed' = failed
    BY <1>3 DEF SelectRetract, CancelQueued, mvars, errorVars
  <2> QED BY <1>1, <2>1, DrivesOn DEF Driving
<1>4. ASSUME NEW c \in Controls, SelectControl(c)
      PROVE  WayOutInv'
  <2>1. /\ MarkTerminal /\ exit' = failed' /\ waiting' = (active' = None /\ ~disabled')
        /\ pc' = IF failed' THEN "leave" ELSE "serve"
    BY <1>4 DEF SelectControl
  <2>2. ~failed' => pending' = <<>>
    BY <2>1, TerminalEmpties
  <2> QED BY <2>1, <2>2 DEF WayOutInv, ExitInv, FlushedInv, Leaving, Driving
<1> QED BY <1>2, <1>3, <1>4 DEF Commands

LEMMA StepWaysOut ==
  ASSUME WayOutInv, IInv, ChannelTypeOK, TypesInv, [TurnNext]_tvars
  PROVE  WayOutInv'
<1>1. CASE Provider \/ Producer \/ UNCHANGED tvars
  <2>1. UNCHANGED <<mvars, actorVars>>
    BY <1>1 DEF Provider, Return, Acknowledge, Producer, Spawn, Prompt, Conclude, SendTerminal,
                Report, tvars
  <2> QED BY <2>1 DEF mvars, queueVars, slotVars, verdictVars, errorVars, actorVars, WayOutInv,
                      ExitInv, FlushedInv, Settled, Unresolved, Stopped
<1> QED
  BY <1>1, DriveWaysOut, ServeWaysOut, ApplyWaysOut, FlushWaysOut, ShutdownWaysOut,
     DeferredWaysOut, CommandWaysOut DEF TurnNext, Actor

(* Every variable of the turn has its type, a turn that was interrupted or failed
   leaves no queued input for the loop to run by itself, and a hook call or a
   publication that failed anywhere in the turn ends the loop, whatever command
   came and however the goroutines interleaved. *)
THEOREM TurnLeavesWell == TurnSpec => []LeavesWell
<1> DEFINE Inv == ChannelTypeOK /\ ClaimInv /\ TypesInv /\ WayOutInv
<1>1. TurnInit => Inv
  <2> SUFFICES ASSUME TurnInit PROVE Inv
    OBVIOUS
  <2>1. ProducerTypeOK /\ ActorTypeOK
    <3>1. published \in Seq({"done", "failed", "interrupted"})
      BY DEF TurnInit
    <3> QED BY <3>1 DEF TurnInit, ProducerTypeOK, ActorTypeOK
  <2>2. DeadlineInv /\ WayOutInv
    BY DEF TurnInit, Init, DeadlineInv, WayOutInv, ExitInv, FlushedInv, Leaving, Driving
  <2> QED BY <2>1, <2>2, TurnInitChannels, InitClaims DEF TypesInv
<1>2. Inv /\ MachineInv /\ MachineInv' /\ [TurnNext]_tvars => Inv'
  BY TurnStep, StepClaims, StepTypes, StepWaysOut DEF MachineInv
<1>3. Inv /\ MachineInv => LeavesWell
  <2> SUFFICES ASSUME Inv, MachineInv PROVE LeavesWell
    OBVIOUS
  <2>1. TypeOK /\ acked \subseteq Steerable
    BY DEF MachineInv, IInv, ClaimInv, BoxInv, TypeOK, SlotTypeOK
  <2>2. TurnTypeOK
    BY <2>1 DEF TurnTypeOK, ChannelTypeOK, ClaimInv, CallInv, TypesInv, ProducerTypeOK, ActorTypeOK
  <2>3. StoppedTurnFlushes /\ FailureEndsLoop
    BY DEF WayOutInv, ExitInv, FlushedInv, Leaving, Stopped, StoppedTurnFlushes, FailureEndsLoop
  <2> QED BY <2>2, <2>3 DEF LeavesWell
<1> HIDE DEF Inv
<1> QED BY <1>1, <1>2, <1>3, TurnKeepsMachine, PTL DEF TurnSpec

-----------------------------------------------------------------------------
(***************************************************************************)
(* After a lifecycle terminal.  A machine that has seen the prompt end and *)
(* has no open attempt reserves nothing and folds nothing any more; one    *)
(* that failed or was shut down gives no injected verdict either.          *)
(***************************************************************************)
LEMMA NothingPumps ==
  ASSUME terminal', NEW p, PumpFrom(p)
  PROVE  active' = None
BY DEF PumpFrom, CanPump

LEMMA StillStays ==
  ASSUME terminal, ~Unresolved, [MachineNext]_mvars
  PROVE  folded' = folded /\ terminal' /\ ~Unresolved'
<1> DEFINE Same == UNCHANGED <<terminal, active, verdictVars>>
           Empties == terminal' = TRUE /\ active' = None /\ UNCHANGED folded
           Still == folded' = folded /\ terminal' /\ ~Unresolved'
<1>1. Same => Still
  BY DEF verdictVars, Unresolved
<1>2. Empties => Still
  BY DEF Unresolved
<1> HIDE DEF Still
<1>3. CASE \E i \in Inputs : Offer(i)
  <2>1. Same
    BY <1>3 DEF Offer, QueuesDirectly, slotVars
  <2> QED BY <1>1, <2>1 DEF Still
<1>4. CASE \E isOrdered \in BOOLEAN : SetStream(isOrdered)
  <2>1. Same \/ Empties
    BY <1>4, NothingPumps DEF SetStream, verdictVars
  <2> QED BY <1>1, <1>2, <2>1 DEF Still
<1>5. CASE \E a \in Steerable, r \in Results : Complete(a, r)
  <2>1. Same \/ Empties
    BY <1>5, NothingPumps DEF Complete, Unresolved, verdictVars, slotVars
  <2> QED BY <1>1, <1>2, <2>1 DEF Still
<1>6. CASE MarkTerminal
  <2>1. Same
    BY <1>6 DEF MarkTerminal
  <2> QED BY <1>1, <2>1 DEF Still
<1>7. CASE DeadlineTimeout
  <2>1. Empties
    BY <1>7, NothingPumps DEF DeadlineTimeout, Unresolved, verdictVars
  <2> QED BY <1>2, <2>1 DEF Still
<1>8. CASE Tick \/ (\E k \in 1..Len(loopPending) : CancelQueued(k) \/ Flush(k)) \/ UNCHANGED mvars
  <2>1. Same
    BY <1>8 DEF Tick, CancelQueued, Flush, mvars, slotVars
  <2> QED BY <1>1, <2>1 DEF Still
<1>9. CASE Shutdown
  <2>1. Empties
    BY <1>9 DEF Shutdown, verdictVars
  <2> QED BY <1>2, <2>1 DEF Still
<1>10. CASE Cleanup
  <2>1. Empties
    BY <1>10 DEF Cleanup, verdictVars
  <2> QED BY <1>2, <2>1 DEF Still
<1>11. ~(\E r \in Results : ObserveSteer(r)) /\ ~Timeout
  BY DEF ObserveSteer, Timeout
<1> QED BY <1>3, <1>4, <1>5, <1>6, <1>7, <1>8, <1>9, <1>10, <1>11 DEF MachineNext, Still

LEMMA TerminalStays ==
  ASSUME terminal, [MachineNext]_mvars
  PROVE  terminal'
BY DEF MachineNext, Offer, SetStream, ObserveSteer, Complete, MarkTerminal, Timeout,
       DeadlineTimeout, Tick, CancelQueued, Flush, Shutdown, Cleanup, mvars

LEMMA NothingAfterFailure ==
  ASSUME ~Live, [MachineNext]_mvars
  PROVE  folded' = folded /\ ~Live'
<1>1. CASE Tick \/ (\E k \in 1..Len(loopPending) : CancelQueued(k) \/ Flush(k)) \/ UNCHANGED mvars
  BY <1>1 DEF Tick, CancelQueued, Flush, mvars, verdictVars, errorVars, Live
<1>2. CASE Shutdown
  <2>1. stage' = "finalized"
    BY <1>2 DEF Shutdown
  <2>2. folded' = folded
    BY <1>2 DEF Shutdown, ResolveUnknown, verdictVars
  <2> QED BY <2>1, <2>2 DEF Live
<1>3. CASE Cleanup
  BY <1>3 DEF Cleanup, verdictVars, Live
<1> QED BY <1>1, <1>2, <1>3 DEF MachineNext, Offer, SetStream, ObserveSteer, Complete,
                                MarkTerminal, Timeout, DeadlineTimeout

Drives == Driving \cup {"serve"}

(* Once a terminal is out nothing is open; a held one came with the prompt's end. *)
StillInv ==
  /\ pc \in Drives /\ Live /\ published # <<>> => terminal /\ ~Unresolved
  /\ Live /\ hold # "none" => terminal

(* A step that publishes and holds nothing. *)
LEMMA SilentStaysStill ==
  ASSUME StillInv, [MachineNext]_mvars, published' = published, hold' \in {hold, "none"},
         pc' \in Drives => pc \in Drives
  PROVE  StillInv'
<1>1. Live' => Live
  BY NothingAfterFailure
<1>2. ASSUME pc' \in Drives, Live', published' # <<>> PROVE terminal' /\ ~Unresolved'
  BY <1>1, <1>2, StillStays DEF StillInv
<1>3. ASSUME Live', hold' # "none" PROVE terminal'
  BY <1>1, <1>3, TerminalStays DEF StillInv
<1> QED BY <1>2, <1>3 DEF StillInv

LEMMA ObservationStaysStill ==
  ASSUME StillInv, ChannelTypeOK, pc \in Drives, NEW publishing \in BOOLEAN,
         NEW next, TakeObservation(publishing, next)
  PROVE  StillInv'
<1>1. [MachineNext]_mvars
  BY TakeObservationStep
<1>2. Process(Head(mailbox), publishing)
  BY DEF TakeObservation
<1>3. CASE UNCHANGED <<hold, published>>
  BY <1>1, <1>3, SilentStaysStill
<1>4. CASE MarkTerminal /\ published' = published
  <2>1. terminal'
    BY <1>4 DEF MarkTerminal
  <2>2. Live' => Live
    BY <1>1, NothingAfterFailure
  <2>3. ASSUME Live', published' # <<>> PROVE ~Unresolved'
    BY <1>1, <1>4, <2>2, <2>3, StillStays DEF StillInv
  <2> QED BY <2>1, <2>3 DEF StillInv
<1>5. CASE MarkTerminal /\ ~failed' /\ ~Holds
  <2>1. terminal'
    BY <1>5 DEF MarkTerminal
  <2>2. ~Unresolved'
    BY <1>5 DEF Holds, Unresolved
  <2> QED BY <2>1, <2>2 DEF StillInv
<1> QED BY <1>2, <1>3, <1>4, <1>5 DEF Process

LEMMA PublishHoldStaysStill ==
  ASSUME StillInv, IInv, PublishHold
  PROVE  StillInv'
<1>1. UNCHANGED mvars /\ HoldDue /\ pc \in Drives /\ hold' = "none"
  BY DEF PublishHold, Drives, Driving
<1>2. Live => terminal /\ ~Unresolved
  BY <1>1 DEF StillInv, HoldDue, TerminalReady, Live, IInv, StageInv
<1>3. (Live' <=> Live) /\ (terminal' <=> terminal) /\ (Unresolved' <=> Unresolved)
  BY <1>1 DEF mvars, slotVars, verdictVars, errorVars, Live, Unresolved
<1> QED BY <1>1, <1>2, <1>3 DEF StillInv

LEMMA StepStaysStill ==
  ASSUME StillInv, IInv, ChannelTypeOK, [TurnNext]_tvars
  PROVE  StillInv'
<1>1. [MachineNext]_mvars
  BY TurnStep
<1>2. CASE Provider \/ Producer \/ UNCHANGED tvars
  <2>1. UNCHANGED actorVars
    BY <1>2 DEF Provider, Return, Acknowledge, Producer, Spawn, Prompt, Conclude, SendTerminal,
                Report, tvars
  <2> QED BY <1>1, <2>1, SilentStaysStill DEF actorVars
<1>3. CASE Commands
  <2>1. UNCHANGED <<hold, published>> /\ pc \in Drives
    BY <1>3 DEF Commands, SelectInput, RejectInput, SelectRetract, SelectControl, Selecting,
                Drives, Driving
  <2> QED BY <1>1, <2>1, SilentStaysStill
<1>4. ASSUME pc \in Drives, NEW next, TakeCompletion(next) \/ TakeOutcome(next)
      PROVE  StillInv'
  BY <1>1, <1>4, SilentStaysStill DEF TakeCompletion, TakeOutcome
<1>5. ASSUME pc \in Drives, NEW publishing \in BOOLEAN, NEW next, TakeObservation(publishing, next)
      PROVE  StillInv'
  BY <1>5, ObservationStaysStill
<1>6. CASE SelectResult \/ SelectCompletion \/ SelectObservation \/ DrainEvidence
  <2>1. pc \in Drives
    BY <1>6 DEF SelectResult, SelectCompletion, SelectObservation, DrainEvidence, Selecting,
                Drives, Driving
  <2> QED BY <1>4, <1>5, <1>6, <2>1
          DEF SelectResult, SelectCompletion, SelectObservation, DrainEvidence
<1>7. CASE DrainResult
  <2>1. pc \in Drives
    BY <1>7 DEF DrainResult, Drives, Driving
  <2>2. CASE UNCHANGED <<hold, published>>
    BY <1>1, <2>1, <2>2, SilentStaysStill
  <2> QED BY <1>5, <1>7, <2>1, <2>2 DEF DrainResult
<1>8. CASE ServeEvidence
  <2>1. pc \in Drives
    BY <1>8 DEF ServeEvidence, Drives
  <2>2. CASE UNCHANGED <<hold, published>>
    BY <1>1, <2>1, <2>2, SilentStaysStill
  <2> QED BY <1>4, <1>5, <1>8, <2>1, <2>2 DEF ServeEvidence
<1>9. CASE SelectStream \/ SelectTick \/ Expire \/ ServeTick \/ ServeDone
  <2>1. UNCHANGED <<hold, published>> /\ pc \in Drives
    BY <1>9 DEF SelectStream, SelectTick, Expire, ServeTick, ServeDone, Selecting, Drives, Driving
  <2> QED BY <1>1, <2>1, SilentStaysStill
<1>10. CASE PublishHold
  BY <1>10, PublishHoldStaysStill
<1>11. CASE ApplyOutcome
  <2>1. pc' \notin Drives /\ UNCHANGED mvars /\ hold' = hold
    BY <1>11 DEF ApplyOutcome, Continue, AfterApply, Drives, Driving
  <2>2. (Live' <=> Live) /\ (terminal' <=> terminal)
    BY <2>1 DEF mvars, errorVars, Live
  <2> QED BY <2>1, <2>2 DEF StillInv
<1>12. CASE CancelPending \/ ShutdownMachine \/ DeferredShutdown \/ DeferredCleanup
  <2>1. UNCHANGED <<hold, published>> /\ pc' \notin Drives
    BY <1>12 DEF CancelPending, ShutdownMachine, DeferredShutdown, DeferredCleanup, Continue,
                 Drives, Driving
  <2> QED BY <1>1, <2>1, SilentStaysStill
<1> QED
  BY <1>2, <1>3, <1>6, <1>7, <1>8, <1>9, <1>10, <1>11, <1>12 DEF TurnNext, Actor

LEMMA StepFoldsNothing ==
  ASSUME StillInv, ChannelTypeOK, [TurnNext]_tvars, published # <<>>
  PROVE  folded' = folded
<1>1. [MachineNext]_mvars
  BY TurnStep
<1>2. CASE pc \in Drives
  <2>1. CASE Live
    BY <1>1, <1>2, <2>1, StillStays DEF StillInv
  <2>2. CASE ~Live
    BY <1>1, <2>2, NothingAfterFailure
  <2> QED BY <2>1, <2>2
<1>3. CASE pc \notin Drives
  <2>1. CASE UNCHANGED mvars
    BY <2>1 DEF mvars, verdictVars
  <2>2. CASE CancelPending
    BY <2>2 DEF CancelPending, Flush, mvars, verdictVars
  <2>3. CASE ShutdownMachine \/ DeferredShutdown
    BY <2>3 DEF ShutdownMachine, DeferredShutdown, Shutdown, ResolveUnknown, verdictVars
  <2>4. CASE DeferredCleanup
    BY <2>4 DEF DeferredCleanup, Cleanup, verdictVars
  <2>5. Provider \/ Producer \/ UNCHANGED tvars \/ ApplyOutcome => UNCHANGED mvars
    BY DEF Provider, Return, Acknowledge, Producer, Spawn, Prompt, Conclude, SendTerminal,
           Report, tvars, ApplyOutcome
  <2>6. ~Commands
    BY <1>3 DEF Commands, SelectInput, RejectInput, SelectRetract, SelectControl, Selecting,
                Drives, Driving
  <2>7. Actor => ApplyOutcome \/ CancelPending \/ ShutdownMachine \/ DeferredShutdown \/ DeferredCleanup
    BY <1>3 DEF Actor, SelectResult, DrainResult, SelectStream, SelectObservation, SelectCompletion,
                SelectTick, DrainEvidence, Expire, ServeEvidence, ServeTick, ServeDone, PublishHold,
                Selecting, Drives, Driving
  <2> QED BY <2>1, <2>2, <2>3, <2>4, <2>5, <2>6, <2>7 DEF TurnNext
<1> QED BY <1>2, <1>3

(* Once a lifecycle terminal of the turn is published, no request is folded into
   that turn any more, whatever was still on the channels and whichever clock,
   command or drain the actor turned to (terminalHold, beforeTerminal). *)
THEOREM NothingIsFoldedLate == TurnSpec => NoFoldAfterTerminal
<1> DEFINE Inv == ChannelTypeOK /\ StillInv
           FoldsNothing == published # <<>> => folded' = folded
<1>1. TurnInit => Inv
  BY TurnInitChannels DEF TurnInit, StillInv
<1>2. Inv /\ MachineInv /\ [TurnNext]_tvars => Inv'
  BY TurnStep, StepStaysStill DEF MachineInv
<1>3. Inv /\ [TurnNext]_tvars => [FoldsNothing]_tvars
  BY StepFoldsNothing
<1>4. NoFoldAfterTerminal <=> [][FoldsNothing]_tvars
  BY DEF NoFoldAfterTerminal
<1> HIDE DEF Inv, FoldsNothing
<1> QED BY <1>1, <1>2, <1>3, <1>4, TurnKeepsMachine, PTL DEF TurnSpec
=============================================================================
