\* Two producers and the reader share a mailbox of one slot and a channel of
\* two; the consumer may stop reading.  CHECK_DEADLOCK FALSE: the projection ends.
SPECIFICATION ProjectionFairSpec
CONSTANTS
  Producers <- TwoProducers
  Program <- TwoPrograms
  Depth = 2
  MailboxCap = 1
INVARIANT ProjectionInv
PROPERTIES LosesOnlyWhenFull CloseEnds EmittersServed
CHECK_DEADLOCK FALSE
