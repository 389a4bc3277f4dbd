SPECIFICATION ArbiterSpec
CONSTANTS
  c1 = c1  c2 = c2
  Calls <- TwoCalls
  MaxReceived = 2
  PerUpdate = 1
  Sessions <- HandedOver
  CanClose = FALSE
INVARIANT ReceiveOrder
CHECK_DEADLOCK FALSE
