----------------------------- MODULE StrategyMonitor -----------------------------
(***************************************************************************)
(* The strategy monitor (StrategyMonitorService.run_monitor), which looks  *)
(* at the positions of an account, records an alert for every rule that is *)
(* met and, when the scheduler started it, sends the rule's order to the   *)
(* trade service.  In each instance of the scheduler service one thread of *)
(* PositionMonitorScheduler runs it while that instance leads; a run that  *)
(* is at work when the leadership is lost outlives the two seconds of      *)
(* stop(), and the thread of the next leader begins its own beside it.  A  *)
(* person runs it over HTTP, beside these, and then no order is sent.      *)
(* An alert keeps its strategy quiet for fifteen minutes, a complete run   *)
(* keeps its strategies from being due for their own period, and the open  *)
(* orders of the account are read once in a run.                           *)
(*                                                                         *)
(* One symbol stands for all: alerts, positions and orders are kept and    *)
(* compared by symbol.  Prices are left out; the market is where it makes  *)
(* the rules true.  The account is not the monitor's alone: people, the    *)
(* quant path and the broker's app trade the same position.                *)
(***************************************************************************)
EXTENDS Integers, Sequences, FiniteSets

CONSTANTS
    N,          \* number of strategies; the list is ordered by their ids
    Action,     \* Action[t]: params.action of strategy t
    When,       \* When[t]: the prices at which the rule of t is met
    Scheduler,  \* the instances of the scheduler service
    Bought,     \* the quantity held at first, and the most that others leave held
    MaxOrders,  \* bound: orders of the monitor; no run begins after the last of them
    MaxEvents   \* bound: runs by hand or beside another, trades of others, edits, moves of the
                \* market, cancelled orders and failures

Strategy == 1..N
Market == {"falling", "rising"}
Price == Market \cup {"unknown"}   \* without a quote the cost price stands for the market's

ASSUME StrategyAssumption ==
    /\ N \in Nat
    /\ Action \in [Strategy -> {"SELL", "REDUCE", "BUY", "ALERT"}]
    /\ When \in [Strategy -> SUBSET Price]
ASSUME SchedulerAssumption == "manual" \notin Scheduler
ASSUME BoundsAssumption == Bought \in Nat /\ MaxOrders \in Nat /\ MaxEvents \in Nat

Actor == Scheduler \cup {"manual"}

VARIABLES
    market,    \* where the prices go
    held,      \* the position at the broker
    orders,    \* the orders that were submitted, oldest first
    mode,      \* mode[t]: status and execution_mode of strategies
    due,       \* due[t]: the period since last_executed_at has passed
    quiet,     \* quiet[t]: strategy_alerts has an alert of the last fifteen minutes
    cached,    \* the positions in Redis
    \* the runs
    pc,        \* pc[a]: where the run of a stands
    chosen,    \* chosen[a]: the strategies it evaluates, and marks at its end
    todo,      \* todo[a]: those not evaluated yet
    seen,      \* seen[a]: the position it has read, and the market in its price
    view,      \* view[a]: realtime_orders_cache and realtime_orders_error of a scheduler's run
    sold,      \* history: sells that the run of a has submitted
    \* history
    events,    \* count for the bound
    blind,     \* a failed order list was taken for an empty one
    lost,      \* an order was submitted and its answer lost
    outdated,  \* an order was cut to a position that was not held any more
    overlap,   \* a scheduler's run began beside another one
    crossed    \* others traded the position while an order of the monitor was at work

broker == <<market, held, orders>>
table == <<mode, due, quiet>>
runs == <<pc, chosen, todo, seen>>
desk == <<view, sold>>
told == <<blind, lost, outdated, overlap, crossed>>
vars == <<broker, table, cached, runs, desk, events, told>>

NoPosition == [quantity |-> 0, market |-> "rising"]
NotLoaded == [loaded |-> FALSE, failed |-> FALSE, active |-> {}]

Init ==
    /\ market = "falling"
    /\ held = Bought
    /\ orders = <<>>
    /\ mode = [t \in Strategy |-> "auto"]
    /\ due = [t \in Strategy |-> TRUE]
    /\ quiet = [t \in Strategy |-> FALSE]
    /\ cached = NoPosition
    /\ pc = [a \in Actor |-> "idle"]
    /\ chosen = [a \in Actor |-> {}]
    /\ todo = [a \in Actor |-> {}]
    /\ seen = [a \in Actor |-> NoPosition]
    /\ view = [a \in Scheduler |-> NotLoaded]
    /\ sold = [a \in Scheduler |-> 0]
    /\ events = 0
    /\ blind = FALSE /\ lost = FALSE /\ outdated = FALSE /\ overlap = FALSE /\ crossed = FALSE

\* What nobody schedules takes one of the events.
Event == events < MaxEvents /\ events' = events + 1

Side(t) == IF Action[t] = "BUY" THEN "BUY" ELSE "SELL"

Live(o) == o.status \in {"underway", "open"}
LiveOrders == {i \in DOMAIN orders : Live(orders[i])}
LiveSells == {i \in LiveOrders : orders[i].side = "SELL"}

-----------------------------------------------------------------------------
(* A run. *)

Begin(a, strategies) ==
    /\ pc[a] = "idle"
    /\ strategies # {}
    /\ Len(orders) < MaxOrders
    /\ pc' = [pc EXCEPT ![a] = "positions"]
    /\ chosen' = [chosen EXCEPT ![a] = strategies]
    /\ todo' = [todo EXCEPT ![a] = strategies]
    /\ UNCHANGED <<broker, table, cached, seen, desk, blind, lost, outdated, crossed>>

Automatic == {t \in Strategy : mode[t] = "auto"}

OthersIdle(a) == \A b \in Scheduler \ {a} : pc[b] = "idle"

\* The run of the leader takes the strategies that are due, ...
Poll ==
    /\ \E a \in Scheduler : OthersIdle(a) /\ Begin(a, {t \in Automatic : due[t]})
    /\ UNCHANGED <<events, overlap>>

\* ... or that a lagging replica shows so.
PollReplica ==
    /\ \E a \in Scheduler : OthersIdle(a) /\ Begin(a, Automatic)
    /\ Event
    /\ UNCHANGED overlap

\* A new leader's thread begins while the run of the former one is at work: last_run_at
\* and last_executed_at are written at a run's end.
PollBeside ==
    /\ \E a \in Scheduler, strategies \in {Automatic, {t \in Automatic : due[t]}} :
          ~OthersIdle(a) /\ Begin(a, strategies)
    /\ Event
    /\ overlap' = TRUE

\* A run by hand takes every active strategy, or the one that is asked for.
RunByHand ==
    /\ LET active == {t \in Strategy : mode[t] \in {"auto", "manual"}}
       IN  \E strategies \in {active} \cup {{t} : t \in active} : Begin("manual", strategies)
    /\ Event
    /\ UNCHANGED overlap

Current(a) == CHOOSE t \in todo[a] : \A u \in todo[a] : t <= u

\* get_positions: from the broker, with or without a quote, or after a failure what
\* Redis still has, or nothing.
\* Without a position no strategy is evaluated.
ReadPositions(a) ==
    /\ pc[a] = "positions"
    /\ \/ /\ seen' = [seen EXCEPT ![a] = [quantity |-> held, market |-> market]]
          /\ cached' = seen'[a]
          /\ UNCHANGED events
       \/ /\ seen' = [seen EXCEPT ![a] = [quantity |-> held, market |-> "unknown"]]
          /\ cached' = seen'[a]
          /\ Event
       \/ /\ \E p \in {cached, NoPosition} : seen' = [seen EXCEPT ![a] = p]
          /\ Event
          /\ UNCHANGED cached
    /\ todo' = [todo EXCEPT ![a] = IF seen'[a].quantity > 0 THEN @ ELSE {}]
    /\ pc' = [pc EXCEPT ![a] = "evaluate"]
    /\ UNCHANGED <<broker, table, chosen, desk, told>>

\* _evaluate_strategy, and the query for an alert of the last fifteen minutes:
\* the rule is met and no alert is found, be it that the query failed or went
\* to a lagging replica ...
Meets(a) ==
    /\ pc[a] = "evaluate"
    /\ todo[a] # {}
    /\ seen[a].market \in When[Current(a)]
    /\ \/ ~quiet[Current(a)] /\ UNCHANGED events
       \/ quiet[Current(a)] /\ Event
    /\ pc' = [pc EXCEPT ![a] = "alert"]
    /\ UNCHANGED <<broker, table, cached, chosen, todo, seen, desk, told>>

\* ... or the loop goes on to the next strategy.
Passes(a) ==
    /\ pc[a] = "evaluate"
    /\ todo[a] # {}
    /\ seen[a].market \notin When[Current(a)] \/ quiet[Current(a)]
    /\ todo' = [todo EXCEPT ![a] = @ \ {Current(a)}]
    /\ UNCHANGED <<broker, table, cached, pc, chosen, seen, desk, events, told>>

Skip(a) ==
    /\ todo' = [todo EXCEPT ![a] = @ \ {Current(a)}]
    /\ pc' = [pc EXCEPT ![a] = "evaluate"]

\* Defect: a run by hand goes on to the order too.
AlertAndOrder(a) ==
    /\ pc[a] = "alert"
    /\ quiet' = [quiet EXCEPT ![Current(a)] = TRUE]
    /\ pc' = [pc EXCEPT ![a] = IF a \in Scheduler /\ view[a].loaded THEN "execute" ELSE "orders"]
    /\ UNCHANGED <<broker, mode, due, cached, chosen, todo, seen, desk, events, told>>

\* The alert is inserted and the strategy's counter raised; only a
\* scheduler's run goes on to the order.
Alert(a) ==
    /\ pc[a] = "alert"
    /\ quiet' = [quiet EXCEPT ![Current(a)] = TRUE]
    /\ IF a \in Scheduler
       THEN pc' = [pc EXCEPT ![a] = IF view[a].loaded THEN "execute" ELSE "orders"] /\ UNCHANGED todo
       ELSE Skip(a)
    /\ UNCHANGED <<broker, mode, due, cached, chosen, seen, desk, events, told>>

\* Defect: a filled or cancelled order counts as well.
AnyStatus(status) == TRUE

\* The statuses that _find_active_trade_service_order takes for active.
ActiveStatus(status) == status = "open"

\* _load_trade_service_orders, once in a run: the open orders, one of somebody else
\* perhaps among them, an error, or what the broker adapter makes of a failure: no order at all.
LoadOrders(a) ==
    LET own == {orders[i].side : i \in {j \in DOMAIN orders : ActiveStatus(orders[j].status)}}
        Loaded(failed, active) ==
            view' = [view EXCEPT ![a] = [loaded |-> TRUE, failed |-> failed, active |-> active]]
    IN  /\ pc[a] = "orders"
        /\ \/ Loaded(FALSE, own) /\ UNCHANGED <<events, blind>>
           \/ /\ \E side \in {"SELL", "BUY"} : Loaded(FALSE, own \cup {side})
              /\ Event /\ UNCHANGED blind
           \/ Loaded(TRUE, {}) /\ Event /\ UNCHANGED blind
           \/ Loaded(FALSE, {}) /\ Event /\ blind' = TRUE
        /\ pc' = [pc EXCEPT ![a] = "execute"]
        /\ UNCHANGED <<broker, table, cached, chosen, todo, seen, sold, lost, outdated, overlap, crossed>>

\* _resolve_strategy_order_quantity.
Quantity(t, position) ==
    CASE Action[t] = "SELL"   -> position
      [] Action[t] = "REDUCE" -> (position + 1) \div 2
      [] Action[t] = "BUY"    -> 1
      [] Action[t] = "ALERT"  -> 0

\* Defect: nobody looks for an active order.
MayOrderUnseen(a, t) ==
    /\ Quantity(t, seen[a].quantity) > 0
    /\ ~view[a].failed

\* Defect: an order list that failed is an empty one.
MayOrderAfterFailure(a, t) ==
    /\ Quantity(t, seen[a].quantity) > 0
    /\ Side(t) \notin view[a].active

\* The conditions under which _execute_strategy_alert goes on to an order.
MayOrder(a, t) ==
    /\ Quantity(t, seen[a].quantity) > 0
    /\ ~view[a].failed
    /\ Side(t) \notin view[a].active

NoOrder(a) ==
    /\ pc[a] = "execute"
    /\ ~MayOrder(a, Current(a))
    /\ Skip(a)
    /\ UNCHANGED <<broker, table, cached, chosen, seen, desk, events, told>>

\* The submit, after the account was found to be a paper account.
Submit(a, status) ==
    LET t == Current(a)
        o == [side |-> Side(t), quantity |-> Quantity(t, seen[a].quantity), status |-> status]
    IN  /\ pc[a] = "execute"
        /\ MayOrder(a, t)
        /\ Len(orders) < MaxOrders
        /\ orders' = Append(orders, o)
        /\ sold' = [sold EXCEPT ![a] = IF o.side = "SELL" THEN @ + 1 ELSE @]
        /\ outdated' = (outdated \/ seen[a].quantity # held)
        /\ Skip(a)
        /\ UNCHANGED <<market, held, table, cached, chosen, seen, blind, overlap, crossed>>

\* Defect: the order is not added.
NotedNothing(active, side) == active

\* What the order the run has just submitted adds to its list.
Noted(active, side) == active \cup {side}

Submitted(a) ==
    /\ Submit(a, "open")
    /\ view' = [view EXCEPT ![a].active = Noted(@, Side(Current(a)))]
    /\ UNCHANGED <<events, lost>>

\* The request runs into its timeout; the trade service places the order all
\* the same, now or later.
AnswerLost(a) ==
    /\ \E status \in {"open", "underway"} : Submit(a, status)
    /\ Event
    /\ lost' = TRUE
    /\ UNCHANGED view

\* The account is not a paper account, or the trade service refuses.
Refused(a) ==
    /\ pc[a] = "execute"
    /\ MayOrder(a, Current(a))
    /\ Event
    /\ Skip(a)
    /\ UNCHANGED <<broker, table, cached, chosen, seen, desk, told>>

\* The bound on orders: the model does not look further.
OutOfOrders(a) ==
    /\ pc[a] = "execute"
    /\ MayOrder(a, Current(a))
    /\ Len(orders) = MaxOrders
    /\ Skip(a)
    /\ UNCHANGED <<broker, table, cached, chosen, seen, desk, events, told>>

\* The local variables of the runs of as go with them.
Leave(as) ==
    /\ pc' = [a \in Actor |-> IF a \in as THEN "idle" ELSE pc[a]]
    /\ chosen' = [a \in Actor |-> IF a \in as THEN {} ELSE chosen[a]]
    /\ todo' = [a \in Actor |-> IF a \in as THEN {} ELSE todo[a]]
    /\ seen' = [a \in Actor |-> IF a \in as THEN NoPosition ELSE seen[a]]
    /\ view' = [a \in Scheduler |-> IF a \in as THEN NotLoaded ELSE view[a]]
    /\ sold' = [a \in Scheduler |-> IF a \in as THEN 0 ELSE sold[a]]

\* _mark_strategies_executed, whoever started the run and whatever came of it.
MarkExecuted(a) ==
    /\ pc[a] = "evaluate"
    /\ todo[a] = {}
    /\ due' = [t \in Strategy |-> due[t] /\ t \notin chosen[a]]
    /\ Leave({a})
    /\ UNCHANGED <<broker, mode, quiet, cached, events, told>>

\* A statement raises, or the process of the run dies: nothing is marked.
RunEnds(a) ==
    /\ pc[a] # "idle"
    /\ Event
    /\ Leave({a})
    /\ UNCHANGED <<broker, table, cached, told>>

-----------------------------------------------------------------------------
(* The broker, the market, the clock and the strategy editor. *)

Settle(i, status) == orders' = [orders EXCEPT ![i].status = status]

Arrives(i) ==
    /\ orders[i].status = "underway"
    /\ Settle(i, "open")
    /\ UNCHANGED <<market, held, table, cached, runs, desk, events, told>>

Fills(i) ==
    /\ orders[i].status = "open"
    /\ Settle(i, "filled")
    /\ held' = IF orders[i].side = "SELL" THEN held - orders[i].quantity ELSE held + orders[i].quantity
    /\ UNCHANGED <<market, table, cached, runs, desk, events, told>>

Cancelled(i) ==
    /\ Live(orders[i])
    /\ Event
    /\ Settle(i, "cancelled")
    /\ UNCHANGED <<market, held, table, cached, runs, desk, told>>

\* An order of somebody else's fills: they sell no more than is held.
OthersTrade ==
    /\ Event
    /\ held' \in (0..Bought) \ {held}
    /\ crossed' = (crossed \/ LiveOrders # {})
    /\ UNCHANGED <<market, orders, table, cached, runs, desk, blind, lost, outdated, overlap>>

MarketTurns ==
    /\ Event
    /\ market' = IF market = "falling" THEN "rising" ELSE "falling"
    /\ UNCHANGED <<held, orders, table, cached, runs, desk, told>>

AlertAges(t) ==
    /\ quiet[t]
    /\ quiet' = [quiet EXCEPT ![t] = FALSE]
    /\ UNCHANGED <<broker, mode, due, cached, runs, desk, events, told>>

PeriodPasses(t) ==
    /\ ~due[t]
    /\ due' = [due EXCEPT ![t] = TRUE]
    /\ UNCHANGED <<broker, mode, quiet, cached, runs, desk, events, told>>

\* save_strategy: its status and its execution mode.
SaveStrategy(t, m) ==
    /\ mode[t] # m
    /\ Event
    /\ mode' = [mode EXCEPT ![t] = m]
    /\ UNCHANGED <<broker, due, quiet, cached, runs, desk, told>>

\* delete_strategy: its alerts go with it.  The same rule, entered again later,
\* is a strategy that has no alerts and was never executed.
DeleteStrategy(t) ==
    /\ Event
    /\ mode' = [mode EXCEPT ![t] = "stopped"]
    /\ quiet' = [quiet EXCEPT ![t] = FALSE]
    /\ due' = [due EXCEPT ![t] = TRUE]
    /\ UNCHANGED <<broker, cached, runs, desk, told>>

-----------------------------------------------------------------------------
(* The next-state relation. *)

Work(a) == ReadPositions(a) \/ Meets(a) \/ Passes(a) \/ Alert(a) \/ MarkExecuted(a)

Execute(a) == LoadOrders(a) \/ NoOrder(a) \/ Submitted(a) \/ OutOfOrders(a)

Next ==
    \/ Poll \/ PollReplica \/ PollBeside \/ RunByHand
    \/ \E a \in Actor : Work(a) \/ RunEnds(a)
    \/ \E a \in Scheduler : Execute(a) \/ AnswerLost(a) \/ Refused(a)
    \/ \E i \in DOMAIN orders : Arrives(i) \/ Fills(i) \/ Cancelled(i)
    \/ OthersTrade \/ MarketTurns
    \/ \E t \in Strategy :
          \/ AlertAges(t) \/ PeriodPasses(t) \/ DeleteStrategy(t)
          \/ \E m \in {"auto", "manual", "stopped"} : SaveStrategy(t, m)

Spec == Init /\ [][Next]_vars

\* Some instance leads, its threads run and the clock too; no order has to fill, no
\* run by hand has to end, and nobody has to run, edit or cancel anything.
FairSpec ==
    /\ Spec
    /\ WF_vars(Poll)
    /\ \A a \in Scheduler : WF_vars(Work(a) \/ Execute(a))
    /\ \A t \in Strategy : WF_vars(AlertAges(t)) /\ WF_vars(PeriodPasses(t))

-----------------------------------------------------------------------------
(* Properties. *)

Position == [quantity : Int, market : Price]
Order == [side : {"SELL", "BUY"}, quantity : Nat,
          status : {"underway", "open", "filled", "cancelled"}]
View == [loaded : BOOLEAN, failed : BOOLEAN, active : SUBSET {"SELL", "BUY"}]

\* The variables keep their types: only a scheduler's run comes to orders, and
\* what a run still has to evaluate is among what it will mark.
TypeOK ==
    /\ market \in Market
    /\ held \in Int
    /\ orders \in Seq(Order)
    /\ mode \in [Strategy -> {"auto", "manual", "stopped"}]
    /\ due \in [Strategy -> BOOLEAN]
    /\ quiet \in [Strategy -> BOOLEAN]
    /\ cached \in Position
    /\ pc \in [Actor -> {"idle", "positions", "evaluate", "alert", "orders", "execute"}]
    /\ pc["manual"] \notin {"orders", "execute"}
    /\ chosen \in [Actor -> SUBSET Strategy]
    /\ todo \in [Actor -> SUBSET Strategy]
    /\ \A a \in Actor : todo[a] \subseteq chosen[a]
    /\ seen \in [Actor -> Position]
    /\ view \in [Scheduler -> View]
    /\ sold \in [Scheduler -> Nat]
    /\ events \in 0..MaxEvents
    /\ blind \in BOOLEAN /\ lost \in BOOLEAN /\ outdated \in BOOLEAN
    /\ overlap \in BOOLEAN /\ crossed \in BOOLEAN

\* Two sells of the monitor are at work at the same time only if an order list
\* fell back to empty, the answer to a submit was lost, or a scheduler's run began
\* beside another after a change of leadership: neither the rules of one run, nor a
\* run after one that broke off before it had marked anything, nor a run by hand
\* beside it, nor a stale due date, nor an alert that a query missed leads to a
\* second one.
OneLiveSell == Cardinality(LiveSells) > 1 => blind \/ lost \/ overlap

\* An order at work never sells more than is held, unless one of these three came
\* before it, or it was cut to a position that had changed since the run read it
\* (the order of an earlier run, or of somebody else, that fills between the
\* positions and the submit), or others traded the position while an order of the
\* monitor was at work.
Caused == blind \/ lost \/ overlap \/ outdated \/ crossed

OversoldHasACause == \A i \in LiveSells : orders[i].quantity > held => Caused

\* The monitor's orders leave no short position behind without one of these causes:
\* whatever order in which they fill, and however many runs sent them.  Others sell
\* no more than is held.
NeverShort == held < 0 => Caused

\* A run sells once: the list of open orders is read once, and the order the
\* run has sent counts as open in it, also when it has filled meanwhile and
\* the position of the run is not held any more.
OneSellPerRun == \A a \in Scheduler : sold[a] > 1 => lost

\* A rule that stays met is carried out.  Failed runs, refused and cancelled
\* orders and runs by hand, whose alert keeps the rule quiet and whose mark
\* puts the scheduler's run off, delay the order as often as they happen; when
\* no more of them happen, again and again there is a sell at work or nothing
\* left to sell.
RuleIsCarriedOut ==
    <>[](/\ market = "falling"
         /\ \E t \in Strategy :
               mode[t] = "auto" /\ "falling" \in When[t] /\ Action[t] \in {"SELL", "REDUCE"})
    => []<>(held <= 0 \/ LiveSells # {} \/ Len(orders) = MaxOrders)

\* The inductive strengthening of the three: a run loads the order list once,
\* before its first order, and has a strategy in hand while it is at work on it; ...
RunIsOrderly ==
    /\ \A a \in Actor : pc[a] \in {"alert", "orders", "execute"} => todo[a] # {}
    /\ \A a \in Scheduler :
          /\ pc[a] = "orders" => ~view[a].loaded
          /\ pc[a] = "execute" => view[a].loaded

\* ... only a run at work has a list, and one run is at work at a time; ...
RunsAreApart ==
    /\ \A a \in Scheduler : pc[a] = "idle" => ~view[a].loaded
    /\ ~overlap => \A a, b \in Scheduler : pc[a] # "idle" /\ pc[b] # "idle" => a = b

\* ... a sell that the run has sent and had answered is in its list; ...
SellIsNoted ==
    ~lost => \A a \in Scheduler :
               sold[a] <= 1 /\ (sold[a] = 1 => view[a].loaded /\ "SELL" \in view[a].active)

\* ... a list that shows no sell is true, since only this run submits one; ...
ListIsTrue ==
    ~blind /\ ~lost /\ ~overlap =>
        /\ \A i \in DOMAIN orders : orders[i].status # "underway"
        /\ \A i, j \in LiveSells : i = j
        /\ \A a \in Scheduler :
              view[a].loaded /\ ~view[a].failed /\ "SELL" \notin view[a].active => LiveSells = {}

MonitorIInv ==
    TypeOK /\ RunIsOrderly /\ RunsAreApart /\ SellIsNoted /\ ListIsTrue /\ OversoldHasACause

=============================================================================
