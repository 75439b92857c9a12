CONSTANTS
  s1 = s1
  s2 = s2
  c1 = c1
  Submit = {s1, s2}
  Cancel = {c1}
  AutoOnLive = {s2}
  PositionLimit = 1
  BrokerFails = TRUE
SPECIFICATION Spec
INVARIANTS
  TypeOK
  CompletedSubmitHasEvidence
  OnlyGatedOrdersTrade
  AnnouncementsAreTrue
  CancelWasTaken
  AnswerMatchesRecord
  ProjectionIsNotInvented
PROPERTY
  CompletedIsLeftOnlyByCompensation
CHECK_DEADLOCK FALSE
