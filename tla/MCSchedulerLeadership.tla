------------------------ MODULE MCSchedulerLeadership ------------------------
\* SchedulerLeadership with model values for TLC.
EXTENDS SchedulerLeadership, TLC

CONSTANTS i1, i2, i3

InstanceSymmetry == Permutations(Instance)
=============================================================================
