-------------------------- MODULE MCQuantAutoTrade --------------------------
\* QuantAutoTrade with model values for TLC.
EXTENDS QuantAutoTrade, TLC

CONSTANTS u1, u2, t1, t2

\* The targets are interchangeable, and so are the cycles of one source.
TargetAndCycleSymmetry == {f @@ g : f \in Permutations(Target), g \in Permutations(Guarded)}
=============================================================================
