\* An agent that may fork one child and writes up to two lines, under either
\* driver.  CHECK_DEADLOCK FALSE: the stream ends.
SPECIFICATION CliStreamFairSpec
CONSTANTS
  agent = agent
  child = child
  Leader <- agent
  Children <- OneChild
  Texts <- SomeTexts
  PipeCap = 1
INVARIANTS CliInv TrueResult
PROPERTY CloseReturns
CHECK_DEADLOCK FALSE
