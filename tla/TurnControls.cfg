\* A request that can be steered and one that cannot be cloned against every
\* control command, with failing hooks, under the fairness of the actor.
\* The turn ends, and then nothing happens any more: CHECK_DEADLOCK FALSE.
SPECIFICATION TurnSpec
CONSTANTS
  d1 = d1  d2 = d2  o = o
  None = None
  Inputs = {d1, d2}
  Delegates = {d1, d2}
  Steerable = {d1}
  Backlog <- NoBacklog
  HookFaults = TRUE
  QueueCapacity = 1
  MailboxCapacity = 1
  Undecided = {}
  Controls = {"interrupt", "cancel", "shutdown", "context"}
INVARIANTS
  IInv
  DispositionOnce
  FoldedBeforeInjected
  EachInOnePlace
  ReservationsSettled
  LeavesWell
PROPERTIES
  DrivesMachine
  NoFoldAfterTerminal
  SteeredTurnEnds
CHECK_DEADLOCK FALSE
