\* Two calls share a lane of one slot or of two, over a session that publishes
\* admission facts.  CHECK_DEADLOCK FALSE: the turn ends.
SPECIFICATION SteeringSpec
CONSTANTS
  c1 = c1  c2 = c2
  None = None
  Calls = {c1, c2}
  InputCap = 4
  EventCap = 4
  Async = TRUE
  Lanes = {1, 2}
  MailboxCap = 4
  Answers = {"injected", "noDelivery"}
  CanClose = FALSE
  CanRegress = FALSE
INVARIANTS
  SteeringInv
  ReportsAreTrue
  AcceptedIsObserved
PROPERTY DrivesDispatcher
SYMMETRY AnyOfTwo
CHECK_DEADLOCK FALSE
