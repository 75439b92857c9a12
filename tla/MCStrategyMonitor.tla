--------------------------- MODULE MCStrategyMonitor ---------------------------
(* Instances of StrategyMonitor for TLC. *)
EXTENDS StrategyMonitor

\* A stop loss, and an overweight rule that is met whatever the market does.
SellAndReduce == <<"SELL", "REDUCE">>
FallingAndAlways == <<{"falling"}, Price>>

\* Idle instances are alike: a run that begins alone is the first one's.
FirstBegins ==
    (\A a \in Scheduler : pc[a] = "idle") => pc'["s2"] = "idle"

=============================================================================
