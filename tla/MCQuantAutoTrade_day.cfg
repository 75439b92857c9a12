CONSTANTS
  u1 = u1
  u2 = u2
  t1 = t1
  t2 = t2
  NoTarget = NoTarget
  Cycle = {u1, u2}
  Guarded = {u1, u2}
  Target = {t1, t2}
  MaxDaily = 2
SPECIFICATION Spec
SYMMETRY TargetAndCycleSymmetry
INVARIANTS
  TypeOK
  DailyLimitKept
  RepeatTakesTwoFailures
  OneUnrecordedOrderPerCycle
CHECK_DEADLOCK FALSE
