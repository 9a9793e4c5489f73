SPECIFICATION Halves
CONSTANTS
  Events = {e1, e2}
  MaxDeliver = 2
  MaxCopies = 2
  Publishers = {p1, p2}
  BatchSize = 1
  MaxRetries = 1
  OtherTraffic = FALSE
  MaxPublishErrors = 1
  MaxWriteErrors = 1
  MaxPublisherStops = 1
  Consumers = {c1, c2}
  MaxBuffer = 2
  MaxHandlerErrors = 1
  MaxInboxErrors = 2
  MaxLostAcks = 1
  MaxConsumerStops = 2
  MaxAckWaits = 1
INVARIANTS
  PublishedInOrder
  AckedIsApplied
  DuplicatesBounded
SYMMETRY Symmetry
CHECK_DEADLOCK FALSE
