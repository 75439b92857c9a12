CONSTANTS
  i1 = i1
  i2 = i2
  i3 = i3
  Nobody = Nobody
  Instance = {i1, i2}
  SlowJoins = FALSE
  UseReplica = TRUE
  LeaseTerm = 3
SPECIFICATION LiveSpec
PROPERTY
  SomebodyLeads
CHECK_DEADLOCK FALSE
