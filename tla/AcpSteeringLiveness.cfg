\* One call over a session whose completion alone says whether the request was
\* written; the arbiter may fail for its order, the driver may be closed and the
\* provider may hang.  CHECK_DEADLOCK FALSE: the turn ends.
SPECIFICATION SteeringFairSpec
CONSTANTS
  c1 = c1  c2 = c2
  None = None
  Calls = {c1}
  InputCap = 4
  EventCap = 4
  Async = FALSE
  Lanes = {1}
  MailboxCap = 4
  Answers = {"injected", "startedNewTurn", "unrecognized", "error"}
  CanClose = TRUE
  CanRegress = TRUE
PROPERTY EveryoneReturns
CHECK_DEADLOCK FALSE
