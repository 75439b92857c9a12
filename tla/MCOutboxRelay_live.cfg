SPECIFICATION LiveSpec
CONSTANTS
  Event = {1, 2}
  relay = relay
  second = second
  admin = admin
  Flusher = {relay}
  MaxRetries = 3
  BatchLimit = 2
  UseReplica = FALSE
  KafkaEnabled = TRUE
  RetryCap = 5
PROPERTIES
  ImplementsEventDelivery
  EveryEventIsDecided
