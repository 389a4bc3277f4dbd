\* Three inputs, one of which may wait, and every control command, on a loop of
\* each kind.  CHECK_DEADLOCK FALSE: the loop exits.
SPECIFICATION LoopSpec
CONSTANTS
  MaxInputs = 3
  Capacity = 1
  Controls <- AllControls
  MaxCalls = 4
INVARIANTS LoopInv JournalIsTrue
PROPERTY EveryCommandAnswered
CHECK_DEADLOCK FALSE
