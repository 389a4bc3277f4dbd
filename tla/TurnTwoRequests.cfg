\* Two delegates one behind the other and an ordinary input queued before them,
\* under the fairness of the actor.
\* The turn ends, and then nothing happens any more: CHECK_DEADLOCK FALSE.
SPECIFICATION TurnSpec
CONSTANTS
  d1 = d1  d2 = d2  o = o
  None = None
  Inputs = {d1, d2, o}
  Delegates = {d1, d2}
  Steerable = {d1, d2}
  Backlog <- OneQueued
  HookFaults = FALSE
  QueueCapacity = 3
  MailboxCapacity = 1
  Undecided = {"boundedUnknown"}
  Controls = {}
INVARIANTS
  SteeredInOrder
  TrueVerdicts
  OwnDeadline
PROPERTIES
  ImplementsDelivery
  ReservationEnds
CHECK_DEADLOCK FALSE
