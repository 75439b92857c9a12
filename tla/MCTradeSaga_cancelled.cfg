CONSTANTS
  s1 = s1
  s2 = s2
  c1 = c1
  Submit = {s1}
  Cancel = {c1}
  AutoOnLive = {}
  PositionLimit = 1
  BrokerFails = FALSE
SPECIFICATION Spec
INVARIANT
  CancelledOrderIsNotFilled
CHECK_DEADLOCK FALSE
