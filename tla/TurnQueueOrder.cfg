\* Two delegates around the prompt's end, for the order in which they are queued.
\* The turn ends, and then nothing happens any more: CHECK_DEADLOCK FALSE.
SPECIFICATION TurnSpec
CONSTANTS
  d1 = d1  d2 = d2  o = o
  None = None
  Inputs = {d1, d2}
  Delegates = {d1, d2}
  Steerable = {d1, d2}
  Backlog <- NoBacklog
  HookFaults = FALSE
  QueueCapacity = 2
  MailboxCapacity = 1
  Undecided = {}
  Controls = {}
INVARIANT QueuedInOrder
CHECK_DEADLOCK FALSE
