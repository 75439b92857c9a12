CONSTANTS
  u1 = u1
  u2 = u2
  t1 = t1
  t2 = t2
  NoTarget = NoTarget
  Cycle = {u1}
  Guarded = {u1}
  Target = {t1}
  MaxDaily = 1
SPECIFICATION Spec
INVARIANT
  FailedCheckBlocksOrders
CHECK_DEADLOCK FALSE
