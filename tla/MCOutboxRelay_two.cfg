SPECIFICATION Spec
CONSTANTS
  Event = {1}
  relay = relay
  second = second
  admin = admin
  Flusher = {relay, second, admin}
  MaxRetries = 3
  BatchLimit = 2
  UseReplica = TRUE
  KafkaEnabled = TRUE
  RetryCap = 5
SYMMETRY FlusherSymmetry
INVARIANTS
  TypeOK
  PublishedWasDelivered
  DeadLetterWasEarned
