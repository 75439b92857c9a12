--------------------------- MODULE QuantAutoTrade ---------------------------
(***************************************************************************)
(* The automatic orders of the quant path                                  *)
(* (backend-server/src/core/analysis/QuantTradingService.py,               *)
(* execute_watchlist_opportunities and what it calls).                     *)
(*                                                                         *)
(* A cycle is one execution for one user and account.  It is started by    *)
(* the US open job, the periodic strategy job, the watchlist review or a   *)
(* request, in any of three processes, and nothing keeps two of them       *)
(* apart.  Before a cycle submits an order it consults three records: the  *)
(* decisions of the day (daily guardrail), the decisions of the last 60    *)
(* minutes, and the broker's open orders as the trade service shows them.  *)
(* The model follows one trading day.                                      *)
(***************************************************************************)
EXTENDS Integers, FiniteSets

CONSTANTS
  Cycle,     \* executions of execute_watchlist_opportunities in the day
  Guarded,   \* those of the US open job, whose source has a daily limit
  Target,    \* a symbol and a side
  NoTarget,  \* the cycle is between two decisions
  MaxDaily   \* maxDailySubmittedOrders

ASSUME GuardedAssumption == Guarded \subseteq Cycle /\ IsFiniteSet(Cycle)
ASSUME TargetAssumption  == IsFiniteSet(Target) /\ NoTarget \notin Target
ASSUME DailyAssumption   == MaxDaily \in Nat \ {0}

VARIABLES
  pc,        \* where each cycle stands
  todo,      \* its decisions still to be handled
  current,   \* the decision it is submitting
  count,     \* its copy of daily_guardrail.submittedCount
  view,      \* today_orders: the targets it takes for having an open order
  check,     \* how it came by them
  decision,  \* quant_trade_decisions: the row a cycle wrote for a target
  recent,    \* the rows of the last 60 minutes
  order,     \* the broker's order that a cycle caused for a target
  pending,   \* submits still under way in the trade service after the caller gave up
  doubt      \* history: the kinds of trouble the day has seen

vars == <<pc, todo, current, count, view, check, decision, recent, order, pending, doubt>>

Busy   == {c \in Cycle : pc[c] \in {"orders", "loop", "send", "save"}}
Placed == {p \in Cycle \X Target : order[p[1]][p[2]] # "none"}
Open   == {t \in Target : \E c \in Cycle : order[c][t] = "active"}

\* The cycle returns or raises; its local variables are gone.
Leave(c, label) ==
  /\ pc' = [pc EXCEPT ![c] = label]
  /\ todo' = [todo EXCEPT ![c] = {}]
  /\ current' = [current EXCEPT ![c] = NoTarget]
  /\ count' = [count EXCEPT ![c] = 0]
  /\ view' = [view EXCEPT ![c] = {}]
  /\ check' = [check EXCEPT ![c] = "none"]

Init ==
  /\ pc       = [c \in Cycle |-> "idle"]
  /\ todo     = [c \in Cycle |-> {}]
  /\ current  = [c \in Cycle |-> NoTarget]
  /\ count    = [c \in Cycle |-> 0]
  /\ view     = [c \in Cycle |-> {}]
  /\ check    = [c \in Cycle |-> "none"]
  /\ decision = [c \in Cycle |-> [t \in Target |-> "none"]]
  /\ recent   = {}
  /\ order    = [c \in Cycle |-> [t \in Target |-> "none"]]
  /\ pending  = {}
  /\ doubt    = {}

-----------------------------------------------------------------------------
(* Before the loop.                                                        *)

\* Defect: the guardrail starts from nothing in every cycle.
SubmittedTodayByNobody == 0

\* The count of _load_auto_trade_daily_guardrail: this source, not failed.
SubmittedToday ==
  Cardinality({p \in Guarded \X Target : decision[p[1]][p[2]] = "executed"})

\* The decisions are built and the guardrail is loaded; a database error reads as
\* a count of 0.  Which opportunities survive the rules on watchlist, confidence,
\* holdings and budget is left open: the positions may come from a cache.
Begin(c) ==
  /\ pc[c] = "idle"
  /\ \E plan \in SUBSET Target : todo' = [todo EXCEPT ![c] = plan]
  /\ \E answered \in BOOLEAN :
       /\ count' = [count EXCEPT ![c] = IF answered THEN SubmittedToday ELSE 0]
       /\ doubt' = doubt \union (IF answered THEN {} ELSE {"database"})
                         \union (IF Busy = {} /\ pending = {} THEN {} ELSE {"overlap"})
  /\ pc' = [pc EXCEPT ![c] = "orders"]
  /\ UNCHANGED <<current, view, check, decision, recent, order, pending>>

\* GET /api/v1/trade/orders with realtime=true.  If the broker does not answer or
\* its circuit breaker is open, LongbridgeAPI.get_orders falls back to an empty
\* list, and the answer is a success; other failures come back as an error.
LoadOrders(c) ==
  /\ pc[c] = "orders"
  /\ \/ view' = [view EXCEPT ![c] = Open] /\ check' = [check EXCEPT ![c] = "read"]
        /\ UNCHANGED doubt
     \/ view' = [view EXCEPT ![c] = {}] /\ check' = [check EXCEPT ![c] = "fallback"]
        /\ doubt' = doubt \union {"broker"}
     \/ view' = [view EXCEPT ![c] = {}] /\ check' = [check EXCEPT ![c] = "error"]
        /\ UNCHANGED doubt
  /\ pc' = [pc EXCEPT ![c] = "loop"]
  /\ UNCHANGED <<todo, current, count, decision, recent, order, pending>>

-----------------------------------------------------------------------------
(* One decision of the loop.                                               *)

LimitReached(c) == c \in Guarded /\ count[c] >= MaxDaily

\* The other half of the guardrail, a limit on the day's amount, may be reached by
\* any decision: amounts are not modelled.
AmountMayExceedLimit(c) == c \in Guarded

DecidedRecently(t) == \E c \in Cycle : <<c, t>> \in recent

Skip(c, t) ==
  /\ pc[c] = "loop" /\ t \in todo[c]
  /\ \/ LimitReached(c) \/ AmountMayExceedLimit(c)
     \/ DecidedRecently(t) \/ check[c] = "error" \/ t \in view[c]
  /\ todo' = [todo EXCEPT ![c] = @ \ {t}]
  /\ UNCHANGED <<pc, current, count, view, check, decision, recent, order, pending, doubt>>

\* Defect: the decisions of the last hour are not consulted.
ChooseUnseen(c, t) ==
  /\ pc[c] = "loop" /\ t \in todo[c]
  /\ ~LimitReached(c) /\ check[c] # "error" /\ t \notin view[c]
  /\ current' = [current EXCEPT ![c] = t]
  /\ todo' = [todo EXCEPT ![c] = @ \ {t}]
  /\ pc' = [pc EXCEPT ![c] = "send"]
  /\ UNCHANGED <<count, view, check, decision, recent, order, pending, doubt>>

\* The lookup of recent decisions may miss one: query_one reads the replica, and
\* answers a database error with no row.
Choose(c, t) ==
  /\ pc[c] = "loop" /\ t \in todo[c]
  /\ ~LimitReached(c) /\ check[c] # "error" /\ t \notin view[c]
  /\ doubt' = doubt \union (IF DecidedRecently(t) THEN {"database"} ELSE {})
  /\ current' = [current EXCEPT ![c] = t]
  /\ todo' = [todo EXCEPT ![c] = @ \ {t}]
  /\ pc' = [pc EXCEPT ![c] = "send"]
  /\ UNCHANGED <<count, view, check, decision, recent, order, pending>>

\* The trade service has placed the order; the answer is on its way, and who asks for
\* the open orders already sees it.
OrderPlaced(c) ==
  /\ pc[c] = "send" /\ order[c][current[c]] = "none"
  /\ order' = [order EXCEPT ![c][current[c]] = "active"]
  /\ UNCHANGED <<pc, todo, current, count, view, check, decision, recent, pending, doubt>>

\* POST /api/v1/trade/orders/submit answers with the order, or with success FALSE;
\* without an account no request is sent.
Submitted(c) ==
  /\ pc[c] = "send"
  /\ pc' = [pc EXCEPT ![c] = "save"]
  /\ UNCHANGED <<todo, current, count, view, check, decision, recent, order, pending, doubt>>

\* Defect: an exception of the submit is logged and the loop goes on.
SubmitRaisesAndGoesOn(c) ==
  /\ pc[c] = "send"
  /\ \/ UNCHANGED pending
     \/ order[c][current[c]] = "none" /\ pending' = pending \union {<<c, current[c]>>}
  /\ current' = [current EXCEPT ![c] = NoTarget]
  /\ pc' = [pc EXCEPT ![c] = "loop"]
  /\ UNCHANGED <<todo, count, view, check, decision, recent, order, doubt>>

\* The request raises, or the process dies meanwhile: there is no order, or one whose
\* answer is lost, or the trade service is still working on it.  The rest of the
\* decisions is dropped and none of this is recorded.
SubmitRaises(c) ==
  /\ pc[c] = "send"
  /\ \/ UNCHANGED pending
     \/ order[c][current[c]] = "none" /\ pending' = pending \union {<<c, current[c]>>}
  /\ Leave(c, "broken")
  /\ UNCHANGED <<decision, recent, order, doubt>>

\* Defect: the standard status of the order is saved as it is.
StatusAsAnswered(c, t) == IF order[c][t] = "none" THEN "failed" ELSE "submitted"

\* What _submit_order_via_trade_service makes of the answer.
ExecutionStatus(c, t) == IF order[c][t] = "none" THEN "failed" ELSE "executed"

\* _save_decision; the INSERT may raise, having taken effect or not.
SaveDecision(c) ==
  LET t == current[c]
      outcome == ExecutionStatus(c, t)
      inserted == /\ decision' = [decision EXCEPT ![c][t] = outcome]
                  /\ recent' = recent \union {<<c, t>>}
  IN
  /\ pc[c] = "save"
  /\ \/ /\ inserted
        /\ count' = [count EXCEPT ![c] = IF outcome = "executed" THEN @ + 1 ELSE @]
        /\ current' = [current EXCEPT ![c] = NoTarget]
        /\ pc' = [pc EXCEPT ![c] = "loop"]
        /\ UNCHANGED <<todo, view, check>>
     \/ /\ inserted \/ UNCHANGED <<decision, recent>>
        /\ Leave(c, "broken")
  /\ UNCHANGED <<order, pending, doubt>>

Finish(c) ==
  /\ pc[c] = "loop" /\ todo[c] = {}
  /\ Leave(c, "done")
  /\ UNCHANGED <<decision, recent, order, pending, doubt>>

\* The process dies outside of a request.
Crash(c) ==
  /\ pc[c] \in {"orders", "loop", "save"}
  /\ Leave(c, "broken")
  /\ UNCHANGED <<decision, recent, order, pending, doubt>>

-----------------------------------------------------------------------------
(* The trade service, the market and the clock.                            *)

LateOrder(c, t) ==
  /\ <<c, t>> \in pending
  /\ pending' = pending \ {<<c, t>>}
  /\ \/ order' = [order EXCEPT ![c][t] = "active"]
     \/ UNCHANGED order
  /\ UNCHANGED <<pc, todo, current, count, view, check, decision, recent, doubt>>

\* Filled, cancelled, rejected or expired.
OrderEnds(c, t) ==
  /\ order[c][t] = "active"
  /\ order' = [order EXCEPT ![c][t] = "done"]
  /\ UNCHANGED <<pc, todo, current, count, view, check, decision, recent, pending, doubt>>

HourPasses(c, t) ==
  /\ <<c, t>> \in recent
  /\ recent' = recent \ {<<c, t>>}
  /\ UNCHANGED <<pc, todo, current, count, view, check, decision, order, pending, doubt>>

-----------------------------------------------------------------------------
CycleStep(c) ==
  \/ Begin(c) \/ LoadOrders(c) \/ OrderPlaced(c) \/ Submitted(c) \/ SubmitRaises(c)
  \/ SaveDecision(c) \/ Finish(c) \/ Crash(c)
  \/ \E t \in Target : Skip(c, t) \/ Choose(c, t)

Surroundings ==
  \E c \in Cycle, t \in Target : LateOrder(c, t) \/ OrderEnds(c, t) \/ HourPasses(c, t)

Next == Surroundings \/ \E c \in Cycle : CycleStep(c)

Spec == Init /\ [][Next]_vars

-----------------------------------------------------------------------------
(* Properties.                                                             *)

\* Every variable keeps its type.
TypeOK ==
  /\ pc \in [Cycle -> {"idle", "orders", "loop", "send", "save", "done", "broken"}]
  /\ todo \in [Cycle -> SUBSET Target]
  /\ current \in [Cycle -> Target \union {NoTarget}]
  /\ \A c \in Cycle : current[c] # NoTarget <=> pc[c] \in {"send", "save"}
  /\ count \in [Cycle -> Nat]
  /\ view \in [Cycle -> SUBSET Target]
  /\ check \in [Cycle -> {"none", "read", "fallback", "error"}]
  /\ decision \in [Cycle -> [Target -> {"none", "executed", "failed"}]]
  /\ recent \subseteq Cycle \X Target
  /\ order \in [Cycle -> [Target -> {"none", "active", "done"}]]
  /\ pending \subseteq Cycle \X Target
  /\ doubt \subseteq {"database", "broker", "overlap"}

\* The daily limit of the US open job: if cycles do not overlap and the database
\* answered the lookups, the job places no more orders in a day than the limit,
\* plus one for each cycle that broke down: its order may be on no record.
DailyLimitKept ==
  doubt \subseteq {"broker"} =>
    Cardinality({p \in Placed : p[1] \in Guarded})
      <= MaxDaily + Cardinality({c \in Guarded : pc[c] = "broken"})

\* A second open order on one symbol and side takes more than one failure: cycles
\* that overlap; or an order list that fell back to empty, and besides a lookup of
\* recent decisions that went wrong or nothing recent to be found by it.
RepeatTakesTwoFailures ==
  \A t \in Target : \A c, d \in Cycle :
    c # d /\ order[c][t] = "active" /\ order[d][t] = "active" =>
      \/ "overlap" \in doubt
      \/ "broker" \in doubt /\ ("database" \in doubt \/ ~({<<c, t>>, <<d, t>>} \subseteq recent))

\* The targets of a cycle with an order, or one still to come, and no decision row.
Unrecorded(c) == {t \in Target : /\ order[c][t] # "none" \/ <<c, t>> \in pending
                                 /\ decision[c][t] = "none"}

\* The guardrail's record lags behind the broker by one order per cycle at most,
\* whatever fails: a cycle does not go on after a submit it cannot account for.
OneUnrecordedOrderPerCycle == \A c \in Cycle : Cardinality(Unrecorded(c)) <= 1

\* The inductive strengthening of OneUnrecordedOrderPerCycle: what a cycle, its
\* decision rows and its orders say of each other.
RecordIInv(c) ==
  /\ pc[c] \notin {"send", "save", "broken"} => Unrecorded(c) = {}
  /\ pc[c] \in {"send", "save"} => Unrecorded(c) \subseteq {current[c]}
  /\ \A a, b \in Unrecorded(c) : a = b
  /\ \A t \in Target :
       /\ <<c, t>> \in pending => pc[c] = "broken" /\ decision[c][t] = "none"
       /\ t = current[c] => t \notin todo[c]
       /\ t \in todo[c] \/ t = current[c] \/ pc[c] = "idle" => decision[c][t] = "none"
       /\ <<c, t>> \in recent => decision[c][t] # "none"
       /\ decision[c][t] = "executed" => order[c][t] # "none"
       /\ decision[c][t] = "failed" => order[c][t] = "none"

\* And of RepeatTakesTwoFailures: cycles that do not overlap leave only the barriers
\* that the order list and the recent decisions are.
BarrierIInv(d) ==
  /\ check[d] = "fallback" => "broker" \in doubt
  /\ pc[d] = "loop" => check[d] # "none"
  /\ pc[d] \in {"send", "save"} => /\ check[d] \in {"read", "fallback"}
                                   /\ current[d] \notin view[d]
                                   /\ DecidedRecently(current[d]) =>
                                        "database" \in doubt \/ "overlap" \in doubt
  /\ pc[d] \in {"loop", "send", "save"} /\ check[d] = "read" /\ "overlap" \notin doubt =>
       \A c \in Cycle \ {d}, t \in Target : order[c][t] = "active" => t \in view[d]

OneAtATime ==
  "overlap" \notin doubt =>
    /\ \A c, d \in Busy : c = d
    /\ Busy # {} => pending = {}
    /\ \A p, q \in pending : p = q
    /\ \A p \in pending : \A d \in Cycle \ {p[1]} :
         order[d][p[2]] = "active" => "broker" \in doubt

RepeatIInv ==
  /\ TypeOK
  /\ \A c \in Cycle : RecordIInv(c) /\ BarrierIInv(c)
  /\ OneAtATime
  /\ RepeatTakesTwoFailures

\* And of DailyLimitKept: without trouble at the database the count is the record.
LimitIInv ==
  doubt \subseteq {"broker"} =>
    /\ \A c \in Guarded : /\ pc[c] \in {"orders", "loop", "send", "save"} => count[c] = SubmittedToday
                          /\ pc[c] \in {"send", "save"} => count[c] < MaxDaily
    /\ SubmittedToday <= MaxDaily

\* docs/system-architecture-and-linkage.md: if the order check fails, the quant
\* path skips the order instead of submitting optimistically.
FailedCheckBlocksOrders ==
  \A c \in Cycle : check[c] \in {"fallback", "error"} =>
    \A t \in Target : order[c][t] = "none" /\ <<c, t>> \notin pending
=============================================================================
