\* Every configuration and every builder, failing at any step; the driver of one
\* configuration with two calls of Spawn and two of Close, and arbiters that keep
\* their order or may give up on it.  CHECK_DEADLOCK FALSE: construction may fail,
\* and the driver is closed.
SPECIFICATION AcpAgentFairSpec
CONSTANTS
  t1 = t1
  t2 = t2
  c1 = c1
  c2 = c2
  Turns <- TwoTurns
  Closers <- TwoClosers
  MaxOptions = 2
  Efforts <- SomeEfforts
  Postures <- SomePostures
  DrivenConfigs <- ClaudeWithAliases
  DrivenBuilds <- FreshBuild
INVARIANTS AgentInv AccessAsAsked PromptsStayInTheirTurn
PROPERTY EveryCallEnds
CHECK_DEADLOCK FALSE
