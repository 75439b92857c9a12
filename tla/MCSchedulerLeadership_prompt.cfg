CONSTANTS
  i1 = i1
  i2 = i2
  i3 = i3
  Nobody = Nobody
  Instance = {i1, i2}
  SlowJoins = FALSE
  UseReplica = FALSE
  LeaseTerm = 3
SPECIFICATION Spec
SYMMETRY InstanceSymmetry
INVARIANTS
  TypeOK
  LeaderHoldsTheLease
  StoppedMeansStopped
PROPERTY
  ImplementsExclusiveLease
CHECK_DEADLOCK FALSE
