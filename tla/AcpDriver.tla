------------------------------- MODULE AcpDriver -------------------------------
(***************************************************************************)
(* Turns and teardown of an ACP driver (driver/acp/driver.go, turn.go).    *)
(* Spawn takes turnMu and the goroutine it starts (runTurn) gives it back  *)
(* when the turn has unwound, so turnMu is what serialises the turns of    *)
(* the one session; Close takes it too, after it cancelled the driver's    *)
(* context.  Each turn has a watcher that sends session/cancel when the    *)
(* caller's context or the driver's ends, and a goroutine in session       *)
(* Prompt.  What the arbiter does inside a turn is in TurnArbiter; here it *)
(* is the condition under which it returns.                                *)
(***************************************************************************)
EXTENDS Naturals, FiniteSets

CONSTANTS
  Turns,        \* calls of Spawn, each with a context of its own
  Closers       \* calls of Close

ASSUME AcpDriverAssumption ==
  /\ Turns \cap Closers = {} /\ "none" \notin Turns \cup Closers

VARIABLES
  ordered,      \* chosen once: no arbiter gives up on its order (TurnArbiter)
  turnMu,       \* the turn that holds the lock, or none
  closed, driverGone, active,
  turn,         \* where each Spawn call and its runTurn are
  turnGone,     \* turns whose context is done
  prompt,       \* none, inflight, returned
  watcher,      \* none, waiting, woken, cancelling, done
  finished,     \* lifecycle.finished and turnDone
  hit,          \* <<t, u>>: the session/cancel of t met the prompt of u (history)
  closer,       \* where each Close call is
  winner,       \* the call that runs closeOnce
  releases      \* calls of owned.close

turnVars  == <<turn, turnGone, prompt, watcher, finished, hit>>
closeVars == <<closer, winner, releases>>
dvars == <<ordered, turnMu, closed, driverGone, active, turnVars, closeVars>>

TurnPhases == {"idle", "waiting", "refused", "running", "ended", "retired", "fenced",
               "finished", "over"}
CloserPhases == {"idle", "once", "cancelling", "locking", "releasing", "returned"}

AcpDriverTypeOK ==
  /\ ordered \in BOOLEAN
  /\ {turnMu, active} \subseteq Turns \cup {"none"}
  /\ winner \in Closers \cup {"none"}
  /\ {closed, driverGone} \subseteq BOOLEAN
  /\ turn \in [Turns -> TurnPhases]
  /\ {turnGone, finished} \subseteq SUBSET Turns
  /\ prompt \in [Turns -> {"none", "inflight", "returned"}]
  /\ watcher \in [Turns -> {"none", "waiting", "woken", "cancelling", "done"}]
  /\ hit \subseteq Turns \X Turns
  /\ closer \in [Closers -> CloserPhases]
  /\ releases \in 0..1

AcpDriverInit ==
  /\ ordered \in BOOLEAN
  /\ turnMu = "none" /\ closed = FALSE /\ driverGone = FALSE /\ active = "none"
  /\ turn = [t \in Turns |-> "idle"]
  /\ turnGone = {} /\ finished = {} /\ hit = {}
  /\ prompt = [t \in Turns |-> "none"] /\ watcher = [t \in Turns |-> "none"]
  /\ closer = [c \in Closers |-> "idle"] /\ winner = "none" /\ releases = 0

-----------------------------------------------------------------------------
(***************************************************************************)
(* Spawn.                                                                  *)
(***************************************************************************)
CallSpawn(t) ==
  /\ turn[t] = "idle" /\ turn' = [turn EXCEPT ![t] = "waiting"]
  /\ UNCHANGED <<ordered, turnMu, closed, driverGone, active, turnGone, prompt, watcher, finished, hit,
                 closeVars>>

Admits == ~closed

(* Mutant: the early return keeps the lock. *)
LockKept(t) == t
LockFreed(t) == "none"

(* The lock is taken without a look at the caller's context. *)
Refuse(t) ==
  /\ turn[t] = "waiting" /\ turnMu = "none" /\ ~Admits
  /\ turn' = [turn EXCEPT ![t] = "refused"] /\ turnMu' = LockFreed(t)
  /\ UNCHANGED <<ordered, closed, driverGone, active, turnGone, prompt, watcher, finished, hit,
                 closeVars>>

Open(t) ==
  /\ turn[t] = "waiting" /\ turnMu = "none" /\ Admits
  /\ turnMu' = t /\ active' = t
  /\ turn' = [turn EXCEPT ![t] = "running"]
  /\ prompt' = [prompt EXCEPT ![t] = "inflight"]
  /\ watcher' = [watcher EXCEPT ![t] = "waiting"]
  /\ UNCHANGED <<ordered, closed, driverGone, turnGone, finished, hit, closeVars>>

(* The caller's context ends, or its stream is closed. *)
CancelTurn(t) ==
  /\ turn[t] \notin {"idle", "refused", "over"} /\ t \notin turnGone
  /\ turnGone' = turnGone \cup {t}
  /\ UNCHANGED <<ordered, turnMu, closed, driverGone, active, turn, prompt, watcher, finished, hit,
                 closeVars>>

(* The Prompt goroutine. *)
PromptReturns(t) ==
  /\ prompt[t] = "inflight" /\ prompt' = [prompt EXCEPT ![t] = "returned"]
  /\ UNCHANGED <<ordered, turnMu, closed, driverGone, active, turn, turnGone, watcher, finished, hit,
                 closeVars>>

-----------------------------------------------------------------------------
(***************************************************************************)
(* watchTurnCancellation and turnLifecycle.                                *)
(***************************************************************************)
(* One branch of its select; a driver that closes cancels the turn too. *)
Wake(t) ==
  /\ watcher[t] = "waiting"
  /\ \/ /\ t \in turnGone
        /\ watcher' = [watcher EXCEPT ![t] = "woken"] /\ UNCHANGED turnGone
     \/ /\ driverGone
        /\ watcher' = [watcher EXCEPT ![t] = "woken"] /\ turnGone' = turnGone \cup {t}
     \/ /\ t \in finished
        /\ watcher' = [watcher EXCEPT ![t] = "done"] /\ UNCHANGED turnGone
  /\ UNCHANGED <<ordered, turnMu, closed, driverGone, active, turn, prompt, finished, hit, closeVars>>

(* beginCancel. *)
MayCancel(t) == t \notin finished

BeginCancel(t) ==
  /\ watcher[t] = "woken"
  /\ watcher' = [watcher EXCEPT ![t] = IF MayCancel(t) THEN "cancelling" ELSE "done"]
  /\ UNCHANGED <<ordered, turnMu, closed, driverGone, active, turn, turnGone, prompt, finished, hit,
                 closeVars>>

(* session/cancel names the session, not a prompt: it meets the prompts in
   flight, or cannot be sent, which is only logged. *)
SendCancel(t) ==
  /\ watcher[t] = "cancelling"
  /\ watcher' = [watcher EXCEPT ![t] = "done"]
  /\ \/ hit' = hit \cup {<<t, u>> : u \in {u \in Turns : prompt[u] = "inflight"}}
     \/ UNCHANGED hit
  /\ UNCHANGED <<ordered, turnMu, closed, driverGone, active, turn, turnGone, prompt, finished,
                 closeVars>>

-----------------------------------------------------------------------------
(***************************************************************************)
(* runTurn.                                                                *)
(***************************************************************************)
ArbiterReturns(t) ==
  /\ turn[t] = "running"
  /\ prompt[t] = "returned" \/ driverGone \/ ~ordered
  /\ turn' = [turn EXCEPT ![t] = "ended"]
  /\ UNCHANGED <<ordered, turnMu, closed, driverGone, active, turnGone, prompt, watcher, finished, hit,
                 closeVars>>

WithoutHandle(t) == IF active = t THEN "none" ELSE active

(* Discovery stops, then the handle is retired. *)
Retire(t) ==
  /\ turn[t] = "ended" /\ turn' = [turn EXCEPT ![t] = "retired"]
  /\ active' = WithoutHandle(t)
  /\ UNCHANGED <<ordered, turnMu, closed, driverGone, turnGone, prompt, watcher, finished, hit, closeVars>>

(* Mutant: a closing driver does not wait for its prompt. *)
NotFenced(t) == TRUE
(* A driver that closes waits for the provider to unwind Prompt. *)
Fenced(t) == driverGone => prompt[t] = "returned"

Fence(t) ==
  /\ turn[t] = "retired" /\ Fenced(t)
  /\ turn' = [turn EXCEPT ![t] = "fenced"]
  /\ UNCHANGED <<ordered, turnMu, closed, driverGone, active, turnGone, prompt, watcher, finished, hit,
                 closeVars>>

FinishLifecycle(t) ==
  /\ turn[t] = "fenced" /\ turn' = [turn EXCEPT ![t] = "finished"]
  /\ finished' = finished \cup {t}
  /\ UNCHANGED <<ordered, turnMu, closed, driverGone, active, turnGone, prompt, watcher, hit, closeVars>>

WatcherOver(t) == watcher[t] = "done"

(* The watcher is awaited, the workers and the projection are stopped, and the
   lock goes back. *)
Unwind(t) ==
  /\ turn[t] = "finished" /\ WatcherOver(t)
  /\ turn' = [turn EXCEPT ![t] = "over"]
  /\ turnGone' = turnGone \cup {t} /\ turnMu' = "none"
  /\ UNCHANGED <<ordered, closed, driverGone, active, prompt, watcher, finished, hit, closeVars>>

RunTurn(t) ==
  ArbiterReturns(t) \/ Retire(t) \/ Fence(t) \/ FinishLifecycle(t) \/ Unwind(t)
Watch(t) == Wake(t) \/ BeginCancel(t) \/ SendCancel(t)

-----------------------------------------------------------------------------
(***************************************************************************)
(* Close.                                                                  *)
(***************************************************************************)
Wins(c) == winner = "none"

CallClose(c) ==
  /\ closer[c] = "idle"
  /\ IF Wins(c)
     THEN closer' = [closer EXCEPT ![c] = "cancelling"] /\ winner' = c
     ELSE closer' = [closer EXCEPT ![c] = "once"] /\ UNCHANGED winner
  /\ UNCHANGED <<ordered, turnMu, closed, driverGone, active, turnVars, releases>>

GoesDown == TRUE
DriverCancel(c) ==
  /\ closer[c] = "cancelling" /\ closer' = [closer EXCEPT ![c] = "locking"]
  /\ driverGone' = GoesDown
  /\ UNCHANGED <<ordered, turnMu, closed, active, turnVars, winner, releases>>

MarkClosed(c) ==
  /\ closer[c] = "locking" /\ turnMu = "none"
  /\ closed' = TRUE
  /\ closer' = [closer EXCEPT ![c] = "releasing"]
  /\ UNCHANGED <<ordered, turnMu, driverGone, active, turnVars, winner, releases>>

ReleaseOwned(c) ==
  /\ closer[c] = "releasing"
  /\ releases' = releases + 1
  /\ closer' = [closer EXCEPT ![c] = "returned"]
  /\ UNCHANGED <<ordered, turnMu, closed, driverGone, active, turnVars, winner>>

(* closeOnce holds the other calls until the first is through. *)
OnceOver(c) ==
  /\ closer[c] = "once" /\ winner # "none" /\ closer[winner] = "returned"
  /\ closer' = [closer EXCEPT ![c] = "returned"]
  /\ UNCHANGED <<ordered, turnMu, closed, driverGone, active, turnVars, winner, releases>>

CloseStep(c) == DriverCancel(c) \/ MarkClosed(c) \/ ReleaseOwned(c) \/ OnceOver(c)

AcpDriverNext ==
  \/ \E t \in Turns : CallSpawn(t) \/ Refuse(t) \/ Open(t) \/ CancelTurn(t)
                      \/ PromptReturns(t) \/ RunTurn(t) \/ Watch(t)
  \/ \E c \in Closers : CallClose(c) \/ CloseStep(c)

AcpDriverSpec == AcpDriverInit /\ [][AcpDriverNext]_dvars

(* Goroutines are scheduled and a mutex is handed to whoever waits long enough;
   the agent answers a prompt once it is cancelled or its context ended. *)
PromptUnwinds(t) == (driverGone \/ \E u \in Turns : <<u, t>> \in hit) /\ PromptReturns(t)
AcpDriverFairness ==
  /\ \A t \in Turns : WF_dvars(RunTurn(t)) /\ WF_dvars(Watch(t)) /\ WF_dvars(PromptUnwinds(t))
                      /\ SF_dvars(Refuse(t) \/ Open(t))
  /\ \A c \in Closers : WF_dvars(CloseStep(c)) /\ SF_dvars(MarkClosed(c))

-----------------------------------------------------------------------------
(***************************************************************************)
(* Properties.                                                             *)
(***************************************************************************)
InTurn(t) == turn[t] \in {"running", "ended", "retired", "fenced", "finished"}

(* What Steer finds in Driver.active is the turn that runs, and after a turn's
   end its handle is never found again (runTurn, activeHandle). *)
ActiveIsTheTurn == active # "none" => turnMu = active /\ turn[active] \in {"running", "ended"}

(* No turn begins once the owned client is being closed (Close: "rejects new
   turns thereafter"), and it is closed once. *)
NoTurnOnReleasedClient == releases > 0 => \A t \in Turns : ~InTurn(t)

(* Turns and calls of Close share the lock, the handle and the client. *)
AcpDriverInv == AcpDriverTypeOK /\ ActiveIsTheTurn /\ NoTurnOnReleasedClient

(* While no arbiter gave up on its order, a turn does not leave its prompt
   behind: a session/cancel meets the prompt of the turn that asked for it or
   none, never that of another (watchTurnCancellation, runTurn's fence and its
   wait for the watcher), and the owned client outlives every prompt
   ("Driver.Close must cancel the protocol operation before closing its owned
   client").  A turn that fails for its order does leave its prompt behind. *)
PromptsStayInTheirTurn == ordered =>
  /\ \A p \in hit : p[1] = p[2]
  /\ releases > 0 => \A t \in Turns : prompt[t] # "inflight"

(* Close returns, whatever the turn does, and so does every other call of it. *)
CloseReturns == \A c \in Closers : closer[c] # "idle" ~> closer[c] = "returned"

(* The agent was not told: no session/cancel has reached the prompt in flight,
   nor will the turn send one. *)
Untold(t) == /\ prompt[t] = "inflight" /\ watcher[t] = "done"
             /\ \A u \in Turns : <<u, t>> \notin hit

(* A turn whose caller gave up ends, and the session is free again, unless the
   agent could not be told. *)
CancelledTurnEnds == \A t \in Turns :
  (InTurn(t) /\ t \in turnGone) ~> (turn[t] = "over" \/ Untold(t))

(* No call of Spawn waits for ever behind a driver that closes. *)
SpawnReturns == \A t \in Turns :
  (turn[t] = "waiting" /\ driverGone) ~> turn[t] \in {"refused", "over"}

(* Nobody who closes the driver, cancels a turn or waits for one is stuck. *)
EveryCallEnds == CloseReturns /\ CancelledTurnEnds /\ SpawnReturns
=============================================================================
