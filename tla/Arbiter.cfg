\* Two calls in three kinds of session, with barriers that may give up, under the
\* fairness of the arbiter, the session and the dispatcher.
\* The turn ends, and then nothing happens any more: CHECK_DEADLOCK FALSE.
SPECIFICATION ArbiterFairSpec
CONSTANTS
  c1 = c1  c2 = c2
  Calls <- TwoCalls
  MaxReceived = 2
  PerUpdate = 1
  Sessions <- AnySession
  CanClose = TRUE
INVARIANTS ArbiterInv PromptCoversUpdates FailsOnlyLate
PROPERTY TurnEnds
CHECK_DEADLOCK FALSE
