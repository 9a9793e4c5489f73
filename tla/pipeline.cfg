SPECIFICATION Spec
CONSTANTS
  Events = {e1}
  MaxDeliver = 2
  MaxCopies = 2
  Publishers = {p1}
  BatchSize = 1
  MaxRetries = 1
  OtherTraffic = TRUE
  MaxPublishErrors = 1
  MaxWriteErrors = 1
  MaxPublisherStops = 1
  Consumers = {c1}
  MaxBuffer = 1
  MaxHandlerErrors = 0
  MaxInboxErrors = 1
  MaxLostAcks = 0
  MaxConsumerStops = 1
  MaxAckWaits = 0
PROPERTIES
  ImplementsPromise
  EveryEventHandled
CHECK_DEADLOCK FALSE
