\* Three turns in two processes, one session; any of them may know the session's
\* id from the start.  CHECK_DEADLOCK FALSE: the turns end.
SPECIFICATION LockSpec
CONSTANTS
  Producers <- ThreeTurns
  LoopOf <- TheirLoops
  HostOf <- TheirHosts
  SIDs = {"session"}
INVARIANT LockInv
PROPERTY AcquireEnds
CHECK_DEADLOCK FALSE
