-------------------------- MODULE StrategyMonitorProofs --------------------------
(***************************************************************************)
(* Theorems about StrategyMonitor, for any list of strategies, any number  *)
(* of instances of the scheduler service and any position: the types, and  *)
(* that two sells at work, two sells of one run and a sell of more than is *)
(* held have the causes that are named.                                    *)
(***************************************************************************)
EXTENDS StrategyMonitor, FiniteSetTheorems, WellFoundedInduction, TLAPS

Step == {"idle", "positions", "evaluate", "alert", "orders", "execute"}
OrderStatus == {"underway", "open", "filled", "cancelled"}

-----------------------------------------------------------------------------
(* The operators. *)

\* Every instance of the scheduler is an actor, and so is a person.
LEMMA Actors == Scheduler \subseteq Actor /\ "manual" \in Actor /\ "manual" \notin Scheduler
BY SchedulerAssumption DEF Actor

\* A set of natural numbers that is not empty has a least one.
LEMMA LeastNatural ==
    ASSUME NEW T, T \subseteq Nat, T # {}
    PROVE  \E t \in T : \A u \in T : t <= u
<1>1. PICK t \in T : \A u \in T : <<u, t>> \notin OpToRel(<, Nat)
    BY NatLessThanWellFounded, WFMin
<1>2. \A u \in T : ~(u < t)
    BY <1>1 DEF OpToRel
<1> QED BY <1>2

\* The strategy in hand is one of those that are left.
LEMMA CurrentIsThere ==
    ASSUME TypeOK, NEW a \in Actor, todo[a] # {}
    PROVE  Current(a) \in todo[a] /\ Current(a) \in Strategy
<1>1. todo[a] \subseteq Strategy /\ todo[a] \subseteq Nat
    BY StrategyAssumption DEF TypeOK, Strategy
<1>2. \E t \in todo[a] : \A u \in todo[a] : t <= u
    BY <1>1, LeastNatural
<1> QED BY <1>1, <1>2 DEF Current

\* A quantity is a whole number, and a sell never asks for more than the
\* position it was computed from.
LEMMA QuantityBounded ==
    ASSUME NEW t \in Strategy, NEW position \in Int
    PROVE  /\ Quantity(t, position) \in Int
           /\ Side(t) \in {"SELL", "BUY"}
           /\ Side(t) = "SELL" /\ Quantity(t, position) > 0 => Quantity(t, position) <= position
<1>1. CASE Action[t] = "SELL"
    BY <1>1 DEF Quantity, Side
<1>2. CASE Action[t] = "REDUCE"
    BY <1>2 DEF Quantity, Side
<1>3. CASE Action[t] = "BUY"
    BY <1>3 DEF Quantity, Side
<1>4. CASE Action[t] = "ALERT"
    BY <1>4 DEF Quantity, Side
<1> QED BY <1>1, <1>2, <1>3, <1>4, StrategyAssumption

\* The end of runs clears their local variables and no others.
LEMMA LeaveClears ==
    ASSUME TypeOK, NEW as \in SUBSET Actor, Leave(as)
    PROVE  /\ \A a \in Actor : IF a \in as THEN pc'[a] = "idle" /\ todo'[a] = {}
                               ELSE pc'[a] = pc[a] /\ todo'[a] = todo[a]
           /\ \A a \in Scheduler : IF a \in as THEN view'[a] = NotLoaded /\ sold'[a] = 0
                                   ELSE view'[a] = view[a] /\ sold'[a] = sold[a]
BY DEF Leave

\* It keeps the types.
LEMMA LeaveKeepsTypes ==
    ASSUME TypeOK, NEW as \in SUBSET Actor, Leave(as)
    PROVE  /\ pc' \in [Actor -> Step] /\ pc'["manual"] \notin {"orders", "execute"}
           /\ chosen' \in [Actor -> SUBSET Strategy] /\ todo' \in [Actor -> SUBSET Strategy]
           /\ \A a \in Actor : todo'[a] \subseteq chosen'[a]
           /\ seen' \in [Actor -> Position]
           /\ view' \in [Scheduler -> View] /\ sold' \in [Scheduler -> Nat]
<1>1. NoPosition \in Position /\ NotLoaded \in View
    BY DEF NoPosition, Position, Price, Market, NotLoaded, View
<1>2. pc' \in [Actor -> Step] /\ pc'["manual"] \notin {"orders", "execute"}
    BY Actors DEF Leave, TypeOK, Step
<1>3. /\ chosen' \in [Actor -> SUBSET Strategy] /\ todo' \in [Actor -> SUBSET Strategy]
      /\ \A a \in Actor : todo'[a] \subseteq chosen'[a]
    BY DEF Leave, TypeOK
<1>4. seen' \in [Actor -> Position]
    BY <1>1 DEF Leave, TypeOK
<1>5. view' \in [Scheduler -> View]
  <2>1. view \in [Scheduler -> View]
    BY DEF TypeOK
  <2> QED BY <1>1, <2>1, Zenon DEF Leave
<1>6. sold' \in [Scheduler -> Nat]
    BY DEF Leave, TypeOK
<1> QED BY <1>2, <1>3, <1>4, <1>5, <1>6

\* The loop goes on to the next strategy.
LEMMA SkipKeepsTypes ==
    ASSUME TypeOK, NEW a \in Actor, Skip(a), UNCHANGED chosen
    PROVE  /\ pc' \in [Actor -> Step] /\ pc'["manual"] \notin {"orders", "execute"}
           /\ todo' \in [Actor -> SUBSET Strategy]
           /\ \A b \in Actor : todo'[b] \subseteq chosen'[b]
BY Actors DEF Skip, TypeOK, Step

\* A change of an order's status keeps the rest.
LEMMA OrderSettled ==
    ASSUME TypeOK, NEW i \in DOMAIN orders, NEW status \in OrderStatus, Settle(i, status)
    PROVE  /\ orders' \in Seq(Order)
           /\ DOMAIN orders' = DOMAIN orders
           /\ \A j \in DOMAIN orders :
                /\ orders'[j].side = orders[j].side
                /\ orders'[j].quantity = orders[j].quantity
                /\ orders'[j].status = IF j = i THEN status ELSE orders[j].status
<1> DEFINE o == [orders[i] EXCEPT !.status = status]
<1>1. orders \in Seq(Order) /\ orders[i] \in Order
    BY DEF TypeOK
<1>2. o \in Order /\ o.side = orders[i].side /\ o.quantity = orders[i].quantity /\ o.status = status
    BY <1>1 DEF Order, OrderStatus
<1>3. orders' = [orders EXCEPT ![i] = o]
    BY DEF Settle
<1> HIDE DEF o
<1>4. orders' \in Seq(Order) /\ DOMAIN orders' = DOMAIN orders
    BY <1>1, <1>2, <1>3
<1>5. \A j \in DOMAIN orders : orders'[j] = IF j = i THEN o ELSE orders[j]
    BY <1>3
<1> QED BY <1>2, <1>4, <1>5

\* What a submit appends.
LEMMA SubmitAppends ==
    ASSUME TypeOK, RunIsOrderly, NEW a \in Scheduler,
           NEW status \in {"open", "underway"}, Submit(a, status)
    PROVE  \E t \in Strategy, q \in Nat :
              /\ t = Current(a) /\ q = Quantity(t, seen[a].quantity)
              /\ Side(t) \in {"SELL", "BUY"}
              /\ Side(t) = "SELL" => q <= seen[a].quantity
              /\ orders' = Append(orders, [side |-> Side(t), quantity |-> q, status |-> status])
              /\ orders' \in Seq(Order)
<1> DEFINE t == Current(a)
           q == Quantity(t, seen[a].quantity)
           o == [side |-> Side(t), quantity |-> q, status |-> status]
<1>1. t \in Strategy
    BY Actors, CurrentIsThere DEF Submit, RunIsOrderly
<1>2. seen[a].quantity \in Int
    BY Actors DEF TypeOK, Position
<1>3. /\ q \in Nat /\ Side(t) \in {"SELL", "BUY"}
      /\ Side(t) = "SELL" => q <= seen[a].quantity
  <2>1. q > 0
    BY DEF Submit, MayOrder
  <2> QED BY <1>1, <1>2, <2>1, QuantityBounded
<1>4. orders' = Append(orders, o)
    BY DEF Submit
<1>5. o \in Order
    BY <1>3 DEF Order
<1>6. orders' \in Seq(Order)
    BY <1>4, <1>5 DEF TypeOK
<1> QED BY <1>1, <1>3, <1>4, <1>6

\* The sells that a submit adds to the count of its run, and of no other.
LEMMA SubmitCounts ==
    ASSUME TypeOK, NEW a \in Scheduler, NEW status, Submit(a, status)
    PROVE  /\ sold' \in [Scheduler -> Nat]
           /\ sold'[a] = IF Side(Current(a)) = "SELL" THEN sold[a] + 1 ELSE sold[a]
           /\ \A b \in Scheduler \ {a} : sold'[b] = sold[b]
<1>1. sold' = [sold EXCEPT ![a] = IF Side(Current(a)) = "SELL" THEN @ + 1 ELSE @]
    BY DEF Submit
<1>2. sold \in [Scheduler -> Nat]
    BY DEF TypeOK
<1> QED BY <1>1, <1>2

-----------------------------------------------------------------------------
(* Types. *)

\* A step of a run keeps the types.
LEMMA WorkKeepsTypes ==
    ASSUME TypeOK, RunIsOrderly, NEW a \in Actor, Work(a) \/ RunEnds(a)
    PROVE  TypeOK'
<1> USE DEF Step
<1>e. Event => events' \in 0..MaxEvents
    BY BoundsAssumption DEF Event, TypeOK
<1>1. CASE ReadPositions(a)
  <2>1. NoPosition \in Position
    BY DEF NoPosition, Position, Price, Market
  <2>2. \A p \in {market, "unknown"} : [quantity |-> held, market |-> p] \in Position
    BY DEF TypeOK, Position, Price
  <2>3. seen' \in [Actor -> Position] /\ cached' \in Position
    <3>1. cached \in Position /\ seen \in [Actor -> Position]
      BY DEF TypeOK
    <3>2. ASSUME NEW p \in {market, "unknown"}, cached' = seen'[a],
                 seen' = [seen EXCEPT ![a] = [quantity |-> held, market |-> p]]
          PROVE  seen' \in [Actor -> Position] /\ cached' \in Position
      BY <2>2, <3>1, <3>2
    <3>3. CASE cached' = cached /\ \E p \in {cached, NoPosition} : seen' = [seen EXCEPT ![a] = p]
      BY <2>1, <3>1, <3>3
    <3> QED BY <1>1, <3>2, <3>3 DEF ReadPositions
  <2>4. todo' \in [Actor -> SUBSET Strategy] /\ \A b \in Actor : todo'[b] \subseteq chosen[b]
    BY <1>1 DEF ReadPositions, TypeOK
  <2>5. pc' \in [Actor -> Step] /\ pc'["manual"] \notin {"orders", "execute"}
    BY <1>1, Actors DEF ReadPositions, TypeOK
  <2>6. events' \in 0..MaxEvents
    BY <1>1, <1>e DEF ReadPositions, TypeOK
  <2> QED BY <1>1, <2>3, <2>4, <2>5, <2>6 DEF ReadPositions, TypeOK, broker, table, desk, told
<1>2. CASE Meets(a)
  <2>1. pc' \in [Actor -> Step] /\ pc'["manual"] \notin {"orders", "execute"}
    BY <1>2, Actors DEF Meets, TypeOK
  <2>2. events' \in 0..MaxEvents
    BY <1>2, <1>e DEF Meets, TypeOK
  <2> QED BY <1>2, <2>1, <2>2 DEF Meets, TypeOK, broker, table, desk, told
<1>3. CASE Passes(a)
  <2>1. todo' \in [Actor -> SUBSET Strategy] /\ \A b \in Actor : todo'[b] \subseteq chosen[b]
    BY <1>3 DEF Passes, TypeOK
  <2> QED BY <1>3, <2>1 DEF Passes, TypeOK, broker, table, desk, told
<1>4. CASE Alert(a)
  <2>0. quiet' \in [Strategy -> BOOLEAN]
    BY <1>4 DEF Alert, TypeOK
  <2>1. /\ pc' \in [Actor -> Step] /\ pc'["manual"] \notin {"orders", "execute"}
        /\ todo' \in [Actor -> SUBSET Strategy]
        /\ \A b \in Actor : todo'[b] \subseteq chosen'[b]
    <3>1. CASE a \in Scheduler
      BY <1>4, <3>1, Actors DEF Alert, TypeOK
    <3>2. CASE a \notin Scheduler
      BY <1>4, <3>2, SkipKeepsTypes DEF Alert
    <3> QED BY <3>1, <3>2
  <2> QED BY <1>4, <2>0, <2>1 DEF Alert, TypeOK, broker, desk, told
<1>5. CASE MarkExecuted(a)
  <2>1. due' \in [Strategy -> BOOLEAN]
    BY <1>5 DEF MarkExecuted, TypeOK
  <2>2. {a} \in SUBSET Actor /\ Leave({a})
    BY <1>5 DEF MarkExecuted
  <2> QED BY <1>5, <2>1, <2>2, LeaveKeepsTypes DEF MarkExecuted, TypeOK, broker, told
<1>6. CASE RunEnds(a)
  <2>1. {a} \in SUBSET Actor /\ Leave({a}) /\ events' \in 0..MaxEvents
    BY <1>6, <1>e DEF RunEnds
  <2> QED BY <1>6, <2>1, LeaveKeepsTypes DEF RunEnds, TypeOK, broker, table, told
<1> QED BY <1>1, <1>2, <1>3, <1>4, <1>5, <1>6 DEF Work

\* The beginning of a run.
LEMMA Beginning ==
    ASSUME Poll \/ PollReplica \/ PollBeside \/ RunByHand
    PROVE  \E a \in Actor, strategies \in SUBSET Strategy : Begin(a, strategies)
BY Actors DEF Poll, PollReplica, PollBeside, RunByHand, Automatic

\* It keeps them.
LEMMA BeginKeepsTypes ==
    ASSUME TypeOK, Poll \/ PollReplica \/ PollBeside \/ RunByHand
    PROVE  TypeOK'
<1>1. events' \in 0..MaxEvents /\ overlap' \in BOOLEAN
  <2>1. overlap \in BOOLEAN /\ events \in 0..MaxEvents
    BY DEF TypeOK
  <2>2. events' \in 0..MaxEvents
    BY <2>1, BoundsAssumption DEF Poll, PollReplica, PollBeside, RunByHand, Event
  <2>3. overlap' = TRUE \/ overlap' = overlap
    BY Zenon DEF Poll, PollReplica, PollBeside, RunByHand
  <2> QED BY <2>1, <2>2, <2>3
<1>2. PICK a \in Actor, strategies \in SUBSET Strategy : Begin(a, strategies)
    BY Beginning
<1>3. pc' \in [Actor -> Step] /\ pc'["manual"] \notin {"orders", "execute"}
    BY <1>2, Actors DEF Begin, TypeOK, Step
<1>4. /\ chosen' \in [Actor -> SUBSET Strategy] /\ todo' \in [Actor -> SUBSET Strategy]
      /\ \A b \in Actor : todo'[b] \subseteq chosen'[b]
    BY <1>2 DEF Begin, TypeOK
<1> QED BY <1>1, <1>2, <1>3, <1>4 DEF Begin, TypeOK, broker, table, desk, Step

\* The list that a run loads: the open orders, and perhaps one of somebody
\* else's, or no order at all.
LEMMA LoadedList ==
    ASSUME TypeOK, NEW a \in Scheduler, LoadOrders(a)
    PROVE  /\ view'[a] \in View /\ view'[a].loaded
           /\ \A b \in Scheduler \ {a} : view'[b] = view[b]
           /\ view' \in [Scheduler -> View]
           /\ ~blind' => /\ ~blind
                         /\ \/ view'[a].failed
                            \/ \A i \in DOMAIN orders :
                                  orders[i].status = "open" => orders[i].side \in view'[a].active
<1> DEFINE own == {orders[i].side : i \in {j \in DOMAIN orders : ActiveStatus(orders[j].status)}}
           list(failed, active) == [loaded |-> TRUE, failed |-> failed, active |-> active]
           Loaded(failed, active) == view' = [view EXCEPT ![a] = list(failed, active)]
<1>1. own \in SUBSET {"SELL", "BUY"}
  <2>1. \A i \in DOMAIN orders : orders[i] \in Order
    BY DEF TypeOK
  <2> QED BY <2>1 DEF Order
<1>2. \A i \in DOMAIN orders : orders[i].status = "open" => orders[i].side \in own
    BY DEF ActiveStatus
<1>3. \/ Loaded(FALSE, own) /\ blind' = blind
      \/ \E side \in {"SELL", "BUY"} : Loaded(FALSE, own \cup {side}) /\ blind' = blind
      \/ Loaded(TRUE, {}) /\ blind' = blind
      \/ Loaded(FALSE, {}) /\ blind' = TRUE
    BY DEF LoadOrders
<1>4. ASSUME NEW failed \in BOOLEAN, NEW active \in SUBSET {"SELL", "BUY"}, Loaded(failed, active)
      PROVE  /\ view'[a] \in View /\ view'[a].loaded /\ view' \in [Scheduler -> View]
             /\ view'[a].failed = failed /\ view'[a].active = active
             /\ \A b \in Scheduler \ {a} : view'[b] = view[b]
  <2>1. list(failed, active) \in View
    BY DEF View
  <2>2. view \in [Scheduler -> View]
    BY DEF TypeOK
  <2>3. /\ list(failed, active).loaded /\ list(failed, active).failed = failed
        /\ list(failed, active).active = active
    OBVIOUS
  <2> HIDE DEF list
  <2> QED BY <1>4, <2>1, <2>2, <2>3
<1> HIDE DEF own, Loaded
<1>5. CASE Loaded(FALSE, own) /\ blind' = blind
    BY <1>1, <1>2, <1>4, <1>5
<1>6. ASSUME NEW side \in {"SELL", "BUY"}, Loaded(FALSE, own \cup {side}), blind' = blind
      PROVE  /\ view'[a] \in View /\ view'[a].loaded /\ view' \in [Scheduler -> View]
             /\ \A b \in Scheduler \ {a} : view'[b] = view[b]
             /\ ~blind' => /\ ~blind
                           /\ \A i \in DOMAIN orders :
                                orders[i].status = "open" => orders[i].side \in view'[a].active
  <2>1. own \cup {side} \in SUBSET {"SELL", "BUY"}
    BY <1>1
  <2>2. ~blind' => ~blind
    BY <1>6, Zenon
  <2> QED BY <1>2, <1>4, <1>6, <2>1, <2>2
<1>7. CASE Loaded(TRUE, {}) /\ blind' = blind
    BY <1>4, <1>7
<1>8. CASE Loaded(FALSE, {}) /\ blind' = TRUE
    BY <1>4, <1>8
<1> QED BY <1>3, <1>5, <1>6, <1>7, <1>8, Zenon

\* The order list and the orders keep the types.
LEMMA ExecuteKeepsTypes ==
    ASSUME TypeOK, RunIsOrderly, NEW a \in Scheduler, Execute(a) \/ AnswerLost(a) \/ Refused(a)
    PROVE  TypeOK'
<1> USE DEF Step
<1>e. Event => events' \in 0..MaxEvents
    BY BoundsAssumption DEF Event, TypeOK
<1>a. a \in Actor
    BY Actors
<1>1. CASE LoadOrders(a)
  <2>1. view' \in [Scheduler -> View]
    BY <1>1, LoadedList
  <2>2. pc' \in [Actor -> Step] /\ pc'["manual"] \notin {"orders", "execute"}
    BY <1>1, Actors DEF LoadOrders, TypeOK
  <2>3. events' \in 0..MaxEvents /\ blind' \in BOOLEAN
    BY <1>1, <1>e DEF LoadOrders, TypeOK
  <2> QED BY <1>1, <2>1, <2>2, <2>3 DEF LoadOrders, TypeOK, broker, table
<1>2. CASE NoOrder(a) \/ OutOfOrders(a) \/ Refused(a)
  <2>1. Skip(a) /\ UNCHANGED <<broker, table, cached, chosen, seen, desk, told>>
        /\ events' \in 0..MaxEvents
    BY <1>2, <1>e DEF NoOrder, OutOfOrders, Refused, TypeOK
  <2> QED BY <1>a, <2>1, SkipKeepsTypes DEF TypeOK, broker, table, desk, told
<1>3. ASSUME NEW status \in {"open", "underway"}, Submit(a, status), events' \in 0..MaxEvents,
             lost' \in BOOLEAN, view' \in [Scheduler -> View]
      PROVE  TypeOK'
  <2>1. orders' \in Seq(Order) /\ sold' \in [Scheduler -> Nat]
    BY <1>3, SubmitAppends, SubmitCounts
  <2>2. Skip(a) /\ UNCHANGED <<market, held, table, cached, chosen, seen, blind, overlap, crossed>>
        /\ outdated' \in BOOLEAN
    BY <1>3 DEF Submit, TypeOK
  <2> QED BY <1>3, <1>a, <2>1, <2>2, SkipKeepsTypes DEF TypeOK, table
<1>4. CASE Submitted(a)
  <2>1. Side(Current(a)) \in {"SELL", "BUY"}
    BY DEF Side
  <2>2. view' \in [Scheduler -> View]
    BY <1>4, <2>1 DEF Submitted, Noted, TypeOK, View
  <2> QED BY <1>3, <1>4, <2>2 DEF Submitted, TypeOK
<1>5. CASE AnswerLost(a)
    BY <1>3, <1>5, <1>e DEF AnswerLost, TypeOK
<1> QED BY <1>1, <1>2, <1>4, <1>5 DEF Execute

\* So do the broker, the market, the clock and the editor.
LEMMA WorldKeepsTypes ==
    ASSUME TypeOK,
           \/ \E i \in DOMAIN orders : Arrives(i) \/ Fills(i) \/ Cancelled(i)
           \/ OthersTrade \/ MarketTurns
           \/ \E t \in Strategy :
                 \/ AlertAges(t) \/ PeriodPasses(t) \/ DeleteStrategy(t)
                 \/ \E m \in {"auto", "manual", "stopped"} : SaveStrategy(t, m)
    PROVE  TypeOK'
<1>e. Event => events' \in 0..MaxEvents
    BY BoundsAssumption DEF Event, TypeOK
<1>1. ASSUME NEW i \in DOMAIN orders, Arrives(i) PROVE TypeOK'
    BY <1>1, OrderSettled DEF Arrives, TypeOK, table, runs, desk, told, OrderStatus
<1>2. ASSUME NEW i \in DOMAIN orders, Fills(i) PROVE TypeOK'
  <2>1. orders[i] \in Order
    BY DEF TypeOK
  <2>2. held' \in Int
    BY <1>2, <2>1 DEF Fills, TypeOK, Order
  <2> QED BY <1>2, <2>2, OrderSettled DEF Fills, TypeOK, table, runs, desk, told, OrderStatus
<1>3. ASSUME NEW i \in DOMAIN orders, Cancelled(i) PROVE TypeOK'
    BY <1>3, <1>e, OrderSettled DEF Cancelled, TypeOK, table, runs, desk, told, OrderStatus
<1>4. CASE MarketTurns
    BY <1>4, <1>e DEF MarketTurns, TypeOK, table, runs, desk, told, Market
<1>5. CASE OthersTrade
  <2>1. held' \in Int /\ crossed' \in BOOLEAN
    BY <1>5, BoundsAssumption DEF OthersTrade
  <2> QED BY <1>5, <1>e, <2>1 DEF OthersTrade, TypeOK, table, runs, desk
<1>6. ASSUME NEW t \in Strategy,
             \/ AlertAges(t) \/ PeriodPasses(t) \/ DeleteStrategy(t)
             \/ \E m \in {"auto", "manual", "stopped"} : SaveStrategy(t, m)
      PROVE  TypeOK'
  <2>1. /\ mode' \in [Strategy -> {"auto", "manual", "stopped"}]
        /\ due' \in [Strategy -> BOOLEAN] /\ quiet' \in [Strategy -> BOOLEAN]
    <3>1. /\ mode \in [Strategy -> {"auto", "manual", "stopped"}]
          /\ due \in [Strategy -> BOOLEAN] /\ quiet \in [Strategy -> BOOLEAN]
      BY DEF TypeOK
    <3>2. CASE AlertAges(t)
      BY <3>1, <3>2 DEF AlertAges
    <3>3. CASE PeriodPasses(t)
      BY <3>1, <3>3 DEF PeriodPasses
    <3>4. CASE DeleteStrategy(t)
      BY <3>1, <3>4 DEF DeleteStrategy
    <3>5. CASE \E m \in {"auto", "manual", "stopped"} : SaveStrategy(t, m)
      BY <3>1, <3>5 DEF SaveStrategy
    <3> QED BY <1>6, <3>2, <3>3, <3>4, <3>5
  <2>2. events' \in 0..MaxEvents
    BY <1>6, <1>e DEF AlertAges, PeriodPasses, DeleteStrategy, SaveStrategy, TypeOK
  <2>3. UNCHANGED <<broker, cached, runs, desk, told>>
    BY <1>6 DEF AlertAges, PeriodPasses, DeleteStrategy, SaveStrategy
  <2> QED BY <2>1, <2>2, <2>3 DEF TypeOK, broker, runs, desk, told
<1> QED BY <1>1, <1>2, <1>3, <1>4, <1>5, <1>6

\* Every step keeps them.
LEMMA NextKeepsTypes ==
    ASSUME TypeOK, RunIsOrderly, [Next]_vars
    PROVE  TypeOK'
<1>1. CASE UNCHANGED vars
    BY <1>1 DEF vars, broker, table, runs, desk, told, TypeOK
<1>2. CASE Next
    BY <1>2, WorkKeepsTypes, BeginKeepsTypes, ExecuteKeepsTypes, WorldKeepsTypes DEF Next
<1> QED BY <1>1, <1>2

-----------------------------------------------------------------------------
(* The runs. *)

\* What a step is to the runs.
LEMMA StepOfRuns ==
    ASSUME [Next]_vars
    PROVE  \/ \E a \in Actor : Work(a) \/ RunEnds(a)
           \/ Poll \/ PollReplica \/ PollBeside \/ RunByHand
           \/ \E a \in Scheduler : LoadOrders(a)
           \/ \E a \in Scheduler : NoOrder(a) \/ OutOfOrders(a) \/ Refused(a)
           \/ \E a \in Scheduler : Submitted(a) \/ AnswerLost(a)
           \/ UNCHANGED <<runs, desk, overlap>>
<1>1. \A i \in DOMAIN orders : Arrives(i) \/ Fills(i) \/ Cancelled(i) => UNCHANGED <<runs, desk, overlap>>
    BY Zenon DEF Arrives, Fills, Cancelled, told
<1>2. \A t \in Strategy :
         \/ AlertAges(t) \/ PeriodPasses(t) \/ DeleteStrategy(t)
         \/ \E m \in {"auto", "manual", "stopped"} : SaveStrategy(t, m)
         => UNCHANGED <<runs, desk, overlap>>
    BY Zenon DEF AlertAges, PeriodPasses, DeleteStrategy, SaveStrategy, told
<1>3. OthersTrade \/ MarketTurns \/ UNCHANGED vars => UNCHANGED <<runs, desk, overlap>>
    BY Zenon DEF OthersTrade, MarketTurns, vars, told
<1> QED BY <1>1, <1>2, <1>3 DEF Next, Execute

\* The lists after an order: the order is in the one of its run, or its answer
\* was lost; the lists of other runs are as they were.
LEMMA ViewAfterSubmit ==
    ASSUME TypeOK, NEW a \in Scheduler, Submitted(a) \/ AnswerLost(a)
    PROVE  /\ view'[a].loaded = view[a].loaded /\ view'[a].failed = view[a].failed
           /\ view[a].active \subseteq view'[a].active
           /\ \A b \in Scheduler \ {a} : view'[b] = view[b]
           /\ ~lost' => ~lost /\ Submit(a, "open") /\ Side(Current(a)) \in view'[a].active
<1>1. view \in [Scheduler -> View]
    BY DEF TypeOK
<1>2. CASE Submitted(a)
  <2>1. view' = [view EXCEPT ![a].active = @ \cup {Side(Current(a))}]
    BY <1>2 DEF Submitted, Noted
  <2>2. /\ view'[a] = [view[a] EXCEPT !.active = @ \cup {Side(Current(a))}]
        /\ \A b \in Scheduler \ {a} : view'[b] = view[b]
    BY <1>1, <2>1
  <2>3. view[a] \in View
    BY <1>1
  <2>4. /\ view'[a].loaded = view[a].loaded /\ view'[a].failed = view[a].failed
        /\ view'[a].active = view[a].active \cup {Side(Current(a))}
    BY <2>2, <2>3 DEF View
  <2>5. lost' = lost /\ Submit(a, "open")
    BY <1>2 DEF Submitted
  <2> QED BY <2>2, <2>4, <2>5
<1>3. CASE AnswerLost(a)
  <2>1. view' = view /\ lost'
    BY <1>3 DEF AnswerLost
  <2> QED BY <2>1
<1> QED BY <1>2, <1>3

\* The order list is loaded once, and before the first order.
LEMMA NextIsOrderly ==
    ASSUME TypeOK, RunIsOrderly, [Next]_vars
    PROVE  RunIsOrderly'
<1> USE Actors DEF RunIsOrderly
<1>1. ASSUME NEW a \in Actor, Work(a) PROVE RunIsOrderly'
  <2>1. CASE ReadPositions(a)
    BY <2>1 DEF ReadPositions, TypeOK, desk
  <2>2. CASE Meets(a)
    BY <2>2 DEF Meets, TypeOK, desk
  <2>3. CASE Passes(a)
    BY <2>3 DEF Passes, TypeOK, desk
  <2>4. CASE Alert(a)
    <3>1. view' = view
      BY <2>4 DEF Alert, desk
    <3>2. CASE a \in Scheduler
      BY <2>4, <3>1, <3>2 DEF Alert, TypeOK
    <3>3. CASE a \notin Scheduler
      BY <2>4, <3>1, <3>3 DEF Alert, Skip, TypeOK
    <3> QED BY <3>2, <3>3
  <2>5. CASE MarkExecuted(a)
    BY <2>5, LeaveClears DEF MarkExecuted
  <2> QED BY <1>1, <2>1, <2>2, <2>3, <2>4, <2>5 DEF Work
<1>2. ASSUME NEW a \in Actor, RunEnds(a) PROVE RunIsOrderly'
    BY <1>2, LeaveClears DEF RunEnds
<1>3. ASSUME NEW a \in Actor, NEW strategies, Begin(a, strategies) PROVE RunIsOrderly'
    BY <1>3 DEF Begin, TypeOK, desk
<1>4. ASSUME NEW a \in Scheduler, LoadOrders(a) PROVE RunIsOrderly'
  <2>1. view'[a].loaded /\ \A b \in Scheduler \ {a} : view'[b] = view[b]
    BY <1>4, LoadedList
  <2>2. pc' = [pc EXCEPT ![a] = "execute"] /\ UNCHANGED todo /\ pc[a] = "orders"
    BY <1>4 DEF LoadOrders, runs
  <2> QED BY <2>1, <2>2 DEF TypeOK
<1>5. ASSUME NEW a \in Scheduler, Skip(a), \A b \in Scheduler : view'[b].loaded = view[b].loaded
      PROVE  RunIsOrderly'
    BY <1>5 DEF Skip, TypeOK
<1>6. ASSUME NEW a \in Scheduler, NoOrder(a) \/ OutOfOrders(a) \/ Refused(a) PROVE RunIsOrderly'
    BY <1>5, <1>6 DEF NoOrder, OutOfOrders, Refused, desk
<1>7. ASSUME NEW a \in Scheduler, Submitted(a) \/ AnswerLost(a) PROVE RunIsOrderly'
  <2>1. \A b \in Scheduler : view'[b].loaded = view[b].loaded
    BY <1>7, ViewAfterSubmit
  <2> QED BY <1>5, <1>7, <2>1 DEF Submitted, AnswerLost, Submit
<1>8. CASE UNCHANGED <<runs, desk, overlap>>
    BY <1>8 DEF runs, desk
<1> QED BY <1>1, <1>2, <1>3, <1>4, <1>6, <1>7, <1>8, StepOfRuns, Beginning

\* A step that begins no run.
BeginsNone ==
    /\ \A b \in Scheduler : pc[b] = "idle" => pc'[b] = "idle" /\ view'[b].loaded = view[b].loaded
    /\ \A b \in Scheduler : pc'[b] = "idle" => pc[b] = "idle" \/ ~view'[b].loaded
    /\ overlap' = overlap

LEMMA OtherStepsBeginNone ==
    ASSUME TypeOK, [Next]_vars, ~(Poll \/ PollReplica \/ PollBeside \/ RunByHand)
    PROVE  BeginsNone
<1> USE Actors DEF BeginsNone
<1>1. ASSUME NEW a \in Actor, Work(a) PROVE BeginsNone
  <2>0. overlap' = overlap
    BY <1>1, Zenon DEF Work, ReadPositions, Meets, Passes, Alert, MarkExecuted, told
  <2>1. CASE MarkExecuted(a)
    BY <2>0, <2>1, LeaveClears DEF MarkExecuted, NotLoaded
  <2>2. CASE ~MarkExecuted(a)
    <3>1. view' = view
      BY <1>1, <2>2 DEF Work, ReadPositions, Meets, Passes, Alert, desk
    <3>2. \A b \in Actor : (pc'[b] = "idle") = (pc[b] = "idle")
      BY <1>1, <2>2 DEF Work, ReadPositions, Meets, Passes, Alert, Skip, TypeOK, runs
    <3> QED BY <2>0, <3>1, <3>2
  <2> QED BY <2>1, <2>2
<1>2. ASSUME NEW a \in Actor, RunEnds(a) PROVE BeginsNone
  <2>1. overlap' = overlap
    BY <1>2, Zenon DEF RunEnds, told
  <2> QED BY <1>2, <2>1, LeaveClears DEF RunEnds, NotLoaded
<1>3. ASSUME NEW a \in Scheduler, LoadOrders(a) PROVE BeginsNone
  <2>1. overlap' = overlap
    BY <1>3, Zenon DEF LoadOrders
  <2>2. pc' = [pc EXCEPT ![a] = "execute"] /\ pc[a] = "orders"
    BY <1>3 DEF LoadOrders
  <2> QED BY <1>3, <2>1, <2>2, LoadedList DEF TypeOK
<1>4. ASSUME NEW a \in Scheduler, Skip(a), pc[a] = "execute", overlap' = overlap,
             \A b \in Scheduler : view'[b].loaded = view[b].loaded
      PROVE  BeginsNone
    BY <1>4 DEF Skip, TypeOK
<1>5. ASSUME NEW a \in Scheduler, NoOrder(a) \/ OutOfOrders(a) \/ Refused(a) PROVE BeginsNone
  <2>1. overlap' = overlap
    BY <1>5, Zenon DEF NoOrder, OutOfOrders, Refused, told
  <2> QED BY <1>4, <1>5, <2>1 DEF NoOrder, OutOfOrders, Refused, desk
<1>6. ASSUME NEW a \in Scheduler, Submitted(a) \/ AnswerLost(a) PROVE BeginsNone
  <2>1. overlap' = overlap
    BY <1>6, Zenon DEF Submitted, AnswerLost, Submit
  <2>2. \A b \in Scheduler : view'[b].loaded = view[b].loaded
    BY <1>6, ViewAfterSubmit
  <2> QED BY <1>4, <1>6, <2>1, <2>2 DEF Submitted, AnswerLost, Submit
<1>7. CASE UNCHANGED <<runs, desk, overlap>>
  <2>1. overlap' = overlap
    BY <1>7, Zenon
  <2> QED BY <1>7, <2>1 DEF runs, desk
<1> QED BY <1>1, <1>2, <1>3, <1>5, <1>6, <1>7, StepOfRuns

\* A run beside another is known, and an instance at rest has no list.
LEMMA NextRunsApart ==
    ASSUME TypeOK, RunsAreApart, [Next]_vars
    PROVE  RunsAreApart'
<1> USE Actors DEF RunsAreApart
<1>1. ASSUME NEW a \in Scheduler, NEW strategies, Begin(a, strategies),
             overlap' \/ (OthersIdle(a) /\ overlap' = overlap)
      PROVE  RunsAreApart'
  <2>1. view' = view /\ pc' = [pc EXCEPT ![a] = "positions"]
    BY <1>1 DEF Begin, desk
  <2>2. \A b \in Scheduler \ {a} : pc'[b] = pc[b]
    BY <2>1 DEF TypeOK
  <2>3. \A b \in Scheduler : pc'[b] = "idle" => pc[b] = "idle"
    BY <2>1 DEF TypeOK
  <2>4. ~overlap' => \A b \in Scheduler : pc'[b] # "idle" => b = a
    BY <1>1, <2>2 DEF OthersIdle
  <2> QED BY <2>1, <2>3, <2>4
<1>2. CASE Poll \/ PollReplica
  <2>1. overlap' = overlap
    BY <1>2, Zenon DEF Poll, PollReplica
  <2> QED BY <1>1, <1>2, <2>1 DEF Poll, PollReplica
<1>3. CASE PollBeside
    BY <1>1, <1>3 DEF PollBeside
<1>4. CASE RunByHand
  <2>1. overlap' = overlap
    BY <1>4, Zenon DEF RunByHand
  <2>2. view' = view /\ \A b \in Scheduler : pc'[b] = pc[b]
    BY <1>4 DEF RunByHand, Begin, desk, TypeOK
  <2> QED BY <2>1, <2>2
<1>5. CASE BeginsNone
    BY <1>5 DEF BeginsNone
<1> QED BY <1>2, <1>3, <1>4, <1>5, OtherStepsBeginNone

-----------------------------------------------------------------------------
(* The sells at work. *)

\* A step that submits nothing.
FewerSells ==
    /\ LiveSells' \subseteq LiveSells
    /\ \A i \in LiveSells' : orders'[i].quantity = orders[i].quantity
    /\ (\A i \in DOMAIN orders : orders[i].status # "underway")
       => \A i \in DOMAIN orders' : orders'[i].status # "underway"

\* Orders that are left alone.
LEMMA SameOrders == orders' = orders => FewerSells
BY DEF FewerSells, LiveSells, LiveOrders, Live

\* An order whose status changes, other than from a dead to a live one.
LEMMA SettledSells ==
    ASSUME TypeOK, NEW i \in DOMAIN orders, NEW status \in {"open", "filled", "cancelled"},
           Settle(i, status), Live(orders[i])
    PROVE  /\ FewerSells
           /\ status # "open" => i \notin LiveSells'
<1>1. /\ DOMAIN orders' = DOMAIN orders
      /\ \A j \in DOMAIN orders :
            /\ orders'[j].side = orders[j].side /\ orders'[j].quantity = orders[j].quantity
            /\ orders'[j].status = IF j = i THEN status ELSE orders[j].status
    BY OrderSettled DEF OrderStatus
<1>2. LiveSells' \subseteq LiveSells
    BY <1>1 DEF LiveSells, LiveOrders, Live
<1>3. LiveSells \subseteq DOMAIN orders
    BY DEF LiveSells, LiveOrders
<1>4. \A j \in LiveSells' : orders'[j].quantity = orders[j].quantity
    BY <1>1, <1>2, <1>3
<1>5. (\A j \in DOMAIN orders : orders[j].status # "underway")
      => \A j \in DOMAIN orders' : orders'[j].status # "underway"
    BY <1>1
<1>6. status # "open" => i \notin LiveSells'
    BY <1>1 DEF LiveSells, LiveOrders, Live
<1> QED BY <1>2, <1>4, <1>5, <1>6 DEF FewerSells

\* What a submit adds to the sells at work.
LEMMA SubmittedSells ==
    ASSUME TypeOK, RunIsOrderly, NEW a \in Scheduler,
           NEW status \in {"open", "underway"}, Submit(a, status)
    PROVE  LET new == Len(orders) + 1
               side == Side(Current(a))
           IN  /\ LiveSells' = IF side = "SELL" THEN LiveSells \cup {new} ELSE LiveSells
               /\ new \notin LiveSells
               /\ \A i \in LiveSells : orders'[i].quantity = orders[i].quantity
               /\ side = "SELL" => orders'[new].quantity <= seen[a].quantity
               /\ DOMAIN orders' = DOMAIN orders \cup {new}
               /\ \A i \in DOMAIN orders : orders'[i].status = orders[i].status
               /\ orders'[new].status = status
<1>1. PICK t \in Strategy, q \in Nat :
          /\ t = Current(a)
          /\ Side(t) = "SELL" => q <= seen[a].quantity
          /\ orders' = Append(orders, [side |-> Side(t), quantity |-> q, status |-> status])
    BY SubmitAppends
<1> DEFINE new == Len(orders) + 1
           o == [side |-> Side(t), quantity |-> q, status |-> status]
<1>2. orders \in Seq(Order) /\ Len(orders) \in Nat /\ DOMAIN orders = 1..Len(orders)
    BY DEF TypeOK
<1>3. /\ DOMAIN orders' = DOMAIN orders \cup {new} /\ new \notin DOMAIN orders
      /\ \A i \in DOMAIN orders : orders'[i] = orders[i]
      /\ orders'[new] = o
  <2> HIDE DEF o
  <2> QED BY <1>1, <1>2 DEF o
<1>4. LiveSells \subseteq DOMAIN orders
    BY DEF LiveSells, LiveOrders
<1>5. o.side = Side(t) /\ o.quantity = q /\ o.status = status
    OBVIOUS
<1> HIDE DEF o
<1>6. LiveSells' = IF Side(t) = "SELL" THEN LiveSells \cup {new} ELSE LiveSells
  <2>1. \A i : i \in LiveSells' <=> i \in DOMAIN orders' /\ orders'[i].status \in {"underway", "open"} /\ orders'[i].side = "SELL"
    BY DEF LiveSells, LiveOrders, Live
  <2>2. \A i : i \in LiveSells <=> i \in DOMAIN orders /\ orders[i].status \in {"underway", "open"} /\ orders[i].side = "SELL"
    BY DEF LiveSells, LiveOrders, Live
  <2>3. ASSUME NEW i \in DOMAIN orders PROVE i \in LiveSells' <=> i \in LiveSells
    BY <1>3, <2>1, <2>2
  <2>4. new \in LiveSells' <=> Side(t) = "SELL"
    BY <1>3, <1>5, <2>1
  <2> HIDE DEF new
  <2> QED BY <1>3, <1>4, <2>1, <2>3, <2>4
<1> QED BY <1>1, <1>3, <1>4, <1>5, <1>6

\* What the runs were told is remembered.
Remembered ==
    /\ blind => blind'
    /\ lost => lost'
    /\ outdated => outdated'
    /\ overlap => overlap'
    /\ crossed => crossed'

\* A step that is no submit: what it does to the lists of the runs and to the
\* orders.
LEMMA OtherSteps ==
    ASSUME TypeOK, [Next]_vars, \A a \in Scheduler : ~Submitted(a) /\ ~AnswerLost(a)
    PROVE  /\ FewerSells
           /\ \/ \E a \in Scheduler : LoadOrders(a)
              \/ \A b \in Scheduler : \/ view'[b] = NotLoaded /\ sold'[b] = 0
                                      \/ view'[b] = view[b] /\ sold'[b] = sold[b]
           /\ Remembered
<1> DEFINE L == \/ \E a \in Scheduler : LoadOrders(a)
                \/ \A b \in Scheduler : \/ view'[b] = NotLoaded /\ sold'[b] = 0
                                        \/ view'[b] = view[b] /\ sold'[b] = sold[b]
           P == FewerSells /\ L /\ Remembered
<1>0. /\ UNCHANGED told => Remembered
      /\ UNCHANGED desk => L
  <2>1. UNCHANGED told => Remembered
    BY DEF told, Remembered
  <2> QED BY <2>1 DEF desk
<1> SUFFICES P
    OBVIOUS
<1> HIDE DEF L
<1>1. ASSUME NEW a \in Actor, Work(a) \/ RunEnds(a) PROVE P
  <2>1. orders' = orders /\ UNCHANGED told
    BY <1>1 DEF Work, ReadPositions, Meets, Passes, Alert, MarkExecuted, RunEnds, broker
  <2>2. UNCHANGED desk \/ Leave({a})
    BY <1>1 DEF Work, ReadPositions, Meets, Passes, Alert, MarkExecuted, RunEnds
  <2>3. L
    BY <1>0, <2>2, LeaveClears DEF L
  <2> QED BY <1>0, <2>1, <2>3, SameOrders
<1>2. CASE Poll \/ PollReplica \/ PollBeside \/ RunByHand
  <2>1. PICK a \in Actor, strategies \in SUBSET Strategy : Begin(a, strategies)
    BY <1>2, Beginning
  <2>2. orders' = orders /\ UNCHANGED desk /\ UNCHANGED <<blind, lost, outdated, crossed>>
    BY <2>1 DEF Begin, broker
  <2>3. overlap => overlap'
    BY <1>2, Zenon DEF Poll, PollReplica, PollBeside, RunByHand
  <2>4. Remembered
    BY <2>2, <2>3, Zenon DEF Remembered
  <2> QED BY <1>0, <2>2, <2>4, SameOrders
<1>3. ASSUME NEW a \in Scheduler, LoadOrders(a) PROVE P
  <2>1. orders' = orders
    BY <1>3 DEF LoadOrders, broker
  <2>2. blind => blind'
    BY <1>3, Zenon DEF LoadOrders
  <2>3. Remembered
    BY <1>3, <2>2, Zenon DEF LoadOrders, Remembered
  <2> QED BY <1>3, <2>1, <2>3, SameOrders DEF L
<1>4. ASSUME NEW a \in Scheduler, NoOrder(a) \/ OutOfOrders(a) \/ Refused(a) PROVE P
    BY <1>0, <1>4, SameOrders DEF NoOrder, OutOfOrders, Refused, broker
<1>5. ASSUME NEW i \in DOMAIN orders, Arrives(i) \/ Fills(i) \/ Cancelled(i) PROVE P
  <2>1. PICK status \in {"open", "filled", "cancelled"} : Settle(i, status)
    BY <1>5 DEF Arrives, Fills, Cancelled
  <2>2. Live(orders[i]) /\ UNCHANGED <<desk, told>>
    BY <1>5 DEF Arrives, Fills, Cancelled, Live
  <2> QED BY <1>0, <2>1, <2>2, SettledSells
<1>6. CASE MarketTurns
    BY <1>0, <1>6, SameOrders DEF MarketTurns
<1>7. CASE OthersTrade
  <2>1. crossed => crossed'
    BY <1>7, Zenon DEF OthersTrade
  <2>2. Remembered
    BY <1>7, <2>1, Zenon DEF OthersTrade, Remembered
  <2> QED BY <1>0, <1>7, <2>2, SameOrders DEF OthersTrade
<1>8. ASSUME NEW t \in Strategy,
             \/ AlertAges(t) \/ PeriodPasses(t) \/ DeleteStrategy(t)
             \/ \E m \in {"auto", "manual", "stopped"} : SaveStrategy(t, m)
      PROVE  P
    BY <1>0, <1>8, SameOrders DEF AlertAges, PeriodPasses, DeleteStrategy, SaveStrategy, broker
<1>9. CASE UNCHANGED vars
    BY <1>0, <1>9, SameOrders DEF vars, broker
<1> QED BY <1>1, <1>2, <1>3, <1>4, <1>5, <1>6, <1>7, <1>8, <1>9 DEF Next, Execute

\* A submit forgets nothing either.
LEMMA NextRemembers ==
    ASSUME TypeOK, [Next]_vars
    PROVE  Remembered
<1>1. ASSUME NEW a \in Scheduler, Submitted(a) \/ AnswerLost(a) PROVE Remembered
  <2>1. PICK status : Submit(a, status)
    BY <1>1 DEF Submitted, AnswerLost
  <2>2. outdated => outdated'
    BY <2>1, Zenon DEF Submit
  <2>3. lost => lost'
    BY <1>1, Zenon DEF Submitted, AnswerLost
  <2> QED BY <2>1, <2>2, <2>3, Zenon DEF Submit, Remembered
<1>2. CASE \A a \in Scheduler : ~Submitted(a) /\ ~AnswerLost(a)
    BY <1>2, OtherSteps
<1> QED BY <1>1, <1>2

\* A run notes the sell it has sent.
LEMMA NextNotesSells ==
    ASSUME TypeOK, RunIsOrderly, SellIsNoted, [Next]_vars
    PROVE  SellIsNoted'
<1>0. sold \in [Scheduler -> Nat]
    BY DEF TypeOK
<1>1. ASSUME NEW a \in Scheduler, Submitted(a) \/ AnswerLost(a) PROVE SellIsNoted'
  <2> SUFFICES ASSUME ~lost', NEW b \in Scheduler
               PROVE  sold'[b] <= 1 /\ (sold'[b] = 1 => view'[b].loaded /\ "SELL" \in view'[b].active)
    BY DEF SellIsNoted
  <2>1. /\ view'[a].loaded = view[a].loaded /\ view[a].active \subseteq view'[a].active
        /\ ~lost /\ Submit(a, "open") /\ Side(Current(a)) \in view'[a].active
        /\ b # a => view'[b] = view[b]
    BY <1>1, ViewAfterSubmit
  <2>2. /\ sold'[a] = IF Side(Current(a)) = "SELL" THEN sold[a] + 1 ELSE sold[a]
        /\ b # a => sold'[b] = sold[b]
    BY <2>1, SubmitCounts
  <2>3. view[a].loaded /\ Side(Current(a)) \notin view[a].active
    BY <2>1 DEF Submit, MayOrder, RunIsOrderly
  <2>4. /\ sold[a] <= 1 /\ sold[b] <= 1 /\ sold[a] \in Nat
        /\ sold[a] = 1 => view[a].loaded /\ "SELL" \in view[a].active
        /\ sold[b] = 1 => view[b].loaded /\ "SELL" \in view[b].active
    BY <1>0, <2>1 DEF SellIsNoted
  <2>5. CASE b # a
    BY <2>1, <2>2, <2>4, <2>5
  <2>6. CASE b = a /\ Side(Current(a)) = "SELL"
    <3>1. sold[a] # 1
      BY <2>3, <2>4, <2>6, Zenon
    <3>2. sold[a] = 0
      BY <2>4, <3>1
    <3>3. sold'[b] = 1
      BY <2>2, <2>6, <3>2
    <3>4. view'[b].loaded /\ "SELL" \in view'[b].active
      BY <2>1, <2>3, <2>6, Zenon
    <3> QED BY <3>3, <3>4
  <2>7. CASE b = a /\ Side(Current(a)) # "SELL"
    BY <2>1, <2>2, <2>4, <2>7
  <2> QED BY <2>5, <2>6, <2>7
<1>2. CASE \A a \in Scheduler : ~Submitted(a) /\ ~AnswerLost(a)
  <2>1. lost => lost'
    BY <1>2, OtherSteps DEF Remembered
  <2>2. ASSUME NEW a \in Scheduler, LoadOrders(a) PROVE SellIsNoted'
    <3>1. ~view[a].loaded /\ sold' = sold /\ \A b \in Scheduler \ {a} : view'[b] = view[b]
      BY <2>2, LoadedList DEF LoadOrders, RunIsOrderly
    <3> QED BY <1>0, <2>1, <3>1 DEF SellIsNoted
  <2>3. CASE \A b \in Scheduler : \/ view'[b] = NotLoaded /\ sold'[b] = 0
                                  \/ view'[b] = view[b] /\ sold'[b] = sold[b]
    BY <2>1, <2>3 DEF SellIsNoted
  <2> QED BY <1>2, <2>2, <2>3, OtherSteps
<1> QED BY <1>1, <1>2

\* While a run is at its order, and none began beside another, no other run of
\* a scheduler has a list.
LEMMA OthersHaveNoList ==
    ASSUME RunsAreApart, ~overlap, NEW a \in Scheduler, pc[a] = "execute"
    PROVE  \A b \in Scheduler \ {a} : ~view[b].loaded
BY DEF RunsAreApart

\* A list without a sell is true.
LEMMA NextListIsTrue ==
    ASSUME TypeOK, RunIsOrderly, RunsAreApart, ListIsTrue, [Next]_vars
    PROVE  ListIsTrue'
<1> SUFFICES ASSUME ~blind', ~lost', ~overlap' PROVE ListIsTrue'
    BY DEF ListIsTrue
<1>0. ~blind /\ ~lost /\ ~overlap
    BY NextRemembers DEF Remembered
<1>1. ASSUME NEW a \in Scheduler, Submitted(a) \/ AnswerLost(a) PROVE ListIsTrue'
  <2> DEFINE side == Side(Current(a))
             new == Len(orders) + 1
  <2>1. /\ view'[a].loaded = view[a].loaded /\ view'[a].failed = view[a].failed
        /\ view[a].active \subseteq view'[a].active
        /\ \A b \in Scheduler \ {a} : view'[b] = view[b]
        /\ Submit(a, "open") /\ side \in view'[a].active
    BY <1>1, ViewAfterSubmit
  <2>2. view[a].loaded /\ ~view[a].failed /\ side \notin view[a].active
    BY <2>1 DEF Submit, MayOrder, RunIsOrderly
  <2>3. /\ LiveSells' = IF side = "SELL" THEN LiveSells \cup {new} ELSE LiveSells
        /\ DOMAIN orders' = DOMAIN orders \cup {new}
        /\ \A i \in DOMAIN orders : orders'[i].status = orders[i].status
        /\ orders'[new].status = "open"
    BY <2>1, SubmittedSells
  <2>4. side = "SELL" => LiveSells = {}
    BY <1>0, <2>2 DEF ListIsTrue
  <2>5. \A i \in DOMAIN orders' : orders'[i].status # "underway"
    BY <1>0, <2>3 DEF ListIsTrue
  <2>6. \A i, j \in LiveSells' : i = j
    BY <1>0, <2>3, <2>4 DEF ListIsTrue
  <2>7. "SELL" \notin view'[a].active => LiveSells' = {}
    <3> SUFFICES ASSUME "SELL" \notin view'[a].active PROVE LiveSells' = {}
      OBVIOUS
    <3>1. side # "SELL" /\ "SELL" \notin view[a].active
      BY <2>1
    <3>2. LiveSells = {}
      BY <1>0, <2>2, <3>1 DEF ListIsTrue
    <3> QED BY <2>3, <3>1, <3>2
  <2>8. \A b \in Scheduler \ {a} : ~view'[b].loaded
    BY <1>0, <2>1, OthersHaveNoList DEF Submit
  <2>9. \A b \in Scheduler :
           view'[b].loaded /\ ~view'[b].failed /\ "SELL" \notin view'[b].active => LiveSells' = {}
    BY <2>7, <2>8
  <2> QED BY <2>5, <2>6, <2>9 DEF ListIsTrue
<1>2. CASE \A a \in Scheduler : ~Submitted(a) /\ ~AnswerLost(a)
  <2>1. FewerSells
    BY <1>2, OtherSteps
  <2>2. /\ \A i \in DOMAIN orders' : orders'[i].status # "underway"
        /\ \A i, j \in LiveSells' : i = j
        /\ LiveSells' \subseteq LiveSells
    BY <1>0, <2>1 DEF ListIsTrue, FewerSells
  <2>3. \A b \in Scheduler :
           view[b].loaded /\ ~view[b].failed /\ "SELL" \notin view[b].active => LiveSells' = {}
    BY <1>0, <2>2 DEF ListIsTrue
  <2>4. ASSUME NEW a \in Scheduler, LoadOrders(a) PROVE ListIsTrue'
    <3>1. /\ \A b \in Scheduler \ {a} : view'[b] = view[b]
          /\ \/ view'[a].failed
             \/ \A i \in DOMAIN orders :
                   orders[i].status = "open" => orders[i].side \in view'[a].active
      BY <2>4, LoadedList
    <3>2. \A i \in LiveSells : i \in DOMAIN orders /\ orders[i].status = "open" /\ orders[i].side = "SELL"
      BY <1>0 DEF ListIsTrue, LiveSells, LiveOrders, Live
    <3>3. ~view'[a].failed /\ "SELL" \notin view'[a].active => LiveSells' = {}
      BY <2>2, <3>1, <3>2
    <3>4. \A b \in Scheduler :
             view'[b].loaded /\ ~view'[b].failed /\ "SELL" \notin view'[b].active => LiveSells' = {}
      BY <2>3, <3>1, <3>3
    <3> QED BY <2>2, <3>4 DEF ListIsTrue
  <2>5. CASE \A b \in Scheduler : \/ view'[b] = NotLoaded /\ sold'[b] = 0
                                  \/ view'[b] = view[b] /\ sold'[b] = sold[b]
    <3>1. \A b \in Scheduler :
             view'[b].loaded /\ ~view'[b].failed /\ "SELL" \notin view'[b].active => LiveSells' = {}
      BY <2>3, <2>5 DEF NotLoaded
    <3> QED BY <2>2, <3>1 DEF ListIsTrue
  <2> QED BY <1>2, <2>4, <2>5, OtherSteps
<1> QED BY <1>1, <1>2

\* Only a fill of a monitor's order, or of somebody else's, changes what is held.
LEMMA HeldChangesByFills ==
    ASSUME [Next]_vars
    PROVE  held' = held \/ OthersTrade \/ \E j \in DOMAIN orders : Fills(j)
<1>1. \A a \in Actor : Work(a) \/ RunEnds(a) => held' = held
    BY DEF Work, ReadPositions, Meets, Passes, Alert, MarkExecuted, RunEnds, broker
<1>2. Poll \/ PollReplica \/ PollBeside \/ RunByHand => held' = held
    BY Beginning DEF Begin, broker
<1>3. \A a \in Scheduler : Execute(a) \/ AnswerLost(a) \/ Refused(a) => held' = held
    BY DEF Execute, LoadOrders, NoOrder, OutOfOrders, Refused, Submitted, AnswerLost, Submit, broker
<1>4. \A j \in DOMAIN orders : Arrives(j) \/ Cancelled(j) => held' = held
    BY DEF Arrives, Cancelled
<1>5. \A t \in Strategy :
         \/ AlertAges(t) \/ PeriodPasses(t) \/ DeleteStrategy(t)
         \/ \E m \in {"auto", "manual", "stopped"} : SaveStrategy(t, m)
         => held' = held
    BY DEF AlertAges, PeriodPasses, DeleteStrategy, SaveStrategy, broker
<1>6. MarketTurns \/ UNCHANGED vars => held' = held
    BY DEF MarketTurns, vars, broker
<1> QED BY <1>1, <1>2, <1>3, <1>4, <1>5, <1>6 DEF Next

\* An order is cut to what is held, and what is held shrinks only by the one
\* sell at work, or while none is.
LEMMA NextDoesNotOversell ==
    ASSUME TypeOK, RunIsOrderly, ListIsTrue, OversoldHasACause, [Next]_vars
    PROVE  OversoldHasACause'
<1> SUFFICES ASSUME ~Caused', NEW i \in LiveSells'
             PROVE  ~(orders'[i].quantity > held')
    BY DEF OversoldHasACause
<1>0. /\ held \in Int
      /\ \A j \in DOMAIN orders : orders[j].quantity \in Nat /\ orders[j].side \in {"SELL", "BUY"}
      /\ LiveSells \subseteq DOMAIN orders
  <2>1. \A j \in DOMAIN orders : orders[j] \in Order
    BY DEF TypeOK
  <2> QED BY <2>1 DEF TypeOK, Order, LiveSells, LiveOrders
<1>c. ~Caused /\ ~blind /\ ~lost /\ ~overlap
    BY NextRemembers DEF Remembered, Caused
<1>1. ASSUME NEW a \in Scheduler, Submitted(a) \/ AnswerLost(a)
      PROVE  ~(orders'[i].quantity > held')
  <2>1. Submit(a, "open")
    BY <1>1, ViewAfterSubmit DEF Caused
  <2>2. held' = held /\ seen[a].quantity = held
    <3>1. outdated' = (outdated \/ seen[a].quantity # held)
      BY <2>1, Zenon DEF Submit
    <3> QED BY <2>1, <3>1 DEF Submit, Caused
  <2>3. \/ i \in LiveSells /\ orders'[i].quantity = orders[i].quantity
        \/ orders'[i].quantity <= held
    BY <2>1, <2>2, SubmittedSells
  <2>4. i \in LiveSells => ~(orders[i].quantity > held)
    BY <1>c DEF OversoldHasACause
  <2>5. orders'[i].quantity \in Int
    <3>1. orders' \in Seq(Order)
      BY <2>1, SubmitAppends
    <3>2. i \in DOMAIN orders'
      BY DEF LiveSells, LiveOrders
    <3>3. orders'[i] \in Order
      BY <3>1, <3>2
    <3> QED BY <3>3 DEF Order
  <2> QED BY <1>0, <2>2, <2>3, <2>4, <2>5
<1>2. CASE \A a \in Scheduler : ~Submitted(a) /\ ~AnswerLost(a)
  <2>1. FewerSells
    BY <1>2, OtherSteps
  <2>2. i \in LiveSells /\ orders'[i].quantity = orders[i].quantity
    BY <2>1 DEF FewerSells
  <2>3. ~(orders[i].quantity > held)
    BY <1>c, <2>2 DEF OversoldHasACause
  <2>4. ASSUME NEW j \in DOMAIN orders, Fills(j) PROVE held' >= held
    <3>1. Settle(j, "filled") /\ Live(orders[j])
      BY <2>4 DEF Fills, Live
    <3>2. j \notin LiveSells'
      BY <3>1, SettledSells
    <3>3. j \notin LiveSells
      BY <1>c, <2>2, <3>2 DEF ListIsTrue
    <3>4. orders[j].side = "BUY"
      BY <1>0, <3>1, <3>3 DEF LiveSells, LiveOrders
    <3> QED BY <1>0, <2>4, <3>4 DEF Fills
  <2>5. ~OthersTrade
    <3>1. LiveOrders # {}
      BY <2>2 DEF LiveSells
    <3>2. OthersTrade => crossed'
      BY <3>1, Zenon DEF OthersTrade
    <3> QED BY <3>2 DEF Caused
  <2>6. held' \in Int
    BY NextKeepsTypes DEF TypeOK
  <2>7. held' >= held
    BY <1>0, <2>4, <2>5, HeldChangesByFills
  <2> QED BY <1>0, <2>2, <2>3, <2>6, <2>7
<1> QED BY <1>1, <1>2

-----------------------------------------------------------------------------
(* The theorems. *)

\* The inductive invariant holds in every reachable state.
THEOREM MonitorInvariant == Spec => []MonitorIInv
<1>1. Init => MonitorIInv
  <2> SUFFICES ASSUME Init PROVE MonitorIInv
    OBVIOUS
  <2>1. NoPosition \in Position /\ NotLoaded \in View
    BY DEF NoPosition, NotLoaded, Position, Price, Market, View
  <2>2. orders = <<>> /\ orders \in Seq(Order) /\ DOMAIN orders = {}
    BY DEF Init
  <2>3. LiveSells = {}
    BY <2>2 DEF LiveSells, LiveOrders
  <2>4. TypeOK
    <3>0. /\ market \in Market
          /\ blind \in BOOLEAN /\ lost \in BOOLEAN /\ outdated \in BOOLEAN
          /\ overlap \in BOOLEAN /\ crossed \in BOOLEAN
      BY DEF Init, Market
    <3>1. held \in Int /\ events \in 0..MaxEvents
      <4>1. held = Bought /\ events = 0
        BY DEF Init
      <4> QED BY <4>1, BoundsAssumption
    <3>2. /\ mode \in [Strategy -> {"auto", "manual", "stopped"}]
          /\ due \in [Strategy -> BOOLEAN] /\ quiet \in [Strategy -> BOOLEAN]
      BY DEF Init
    <3>3. /\ pc \in [Actor -> {"idle", "positions", "evaluate", "alert", "orders", "execute"}]
          /\ pc["manual"] \notin {"orders", "execute"}
      BY Actors DEF Init
    <3>4. /\ chosen \in [Actor -> SUBSET Strategy] /\ todo \in [Actor -> SUBSET Strategy]
          /\ \A a \in Actor : todo[a] \subseteq chosen[a]
      BY DEF Init
    <3>5. cached \in Position /\ seen \in [Actor -> Position]
      BY <2>1 DEF Init
    <3>6. view \in [Scheduler -> View] /\ sold \in [Scheduler -> Nat]
      BY <2>1 DEF Init
    <3> QED BY <2>2, <3>0, <3>1, <3>2, <3>3, <3>4, <3>5, <3>6 DEF TypeOK
  <2>5. RunIsOrderly /\ RunsAreApart /\ SellIsNoted
    BY Actors DEF Init, RunIsOrderly, RunsAreApart, SellIsNoted, NotLoaded
  <2>6. ListIsTrue /\ OversoldHasACause
    BY <2>2, <2>3 DEF ListIsTrue, OversoldHasACause
  <2> QED BY <2>4, <2>5, <2>6 DEF MonitorIInv
<1>2. MonitorIInv /\ [Next]_vars => MonitorIInv'
    BY NextKeepsTypes, NextIsOrderly, NextRunsApart, NextNotesSells, NextListIsTrue,
       NextDoesNotOversell
    DEF MonitorIInv
<1> QED BY <1>1, <1>2, PTL DEF Spec

\* The variables keep their types; only a scheduler's run comes to orders.
THEOREM TypeCorrect == Spec => []TypeOK
BY MonitorInvariant, PTL DEF MonitorIInv

\* Two sells at work: an order list that fell back to empty, a lost answer, or a
\* run of the scheduler that began beside another.
THEOREM SellsAreOneAtATime == Spec => []OneLiveSell
<1>1. MonitorIInv => OneLiveSell
  <2> SUFFICES ASSUME MonitorIInv, ~blind, ~lost, ~overlap PROVE ~(Cardinality(LiveSells) > 1)
    BY DEF OneLiveSell
  <2>1. \A i, j \in LiveSells : i = j
    BY DEF MonitorIInv, ListIsTrue
  <2>2. LiveSells = {} \/ \E i : LiveSells = {i}
    BY <2>1
  <2>3. Cardinality(LiveSells) = 0 \/ Cardinality(LiveSells) = 1
    BY <2>2, FS_EmptySet, FS_Singleton
  <2> QED BY <2>3
<1> QED BY <1>1, MonitorInvariant, PTL

\* A sell of more than is held: one of these three, a position that changed after
\* the run had read it, or a trade of others while an order was at work.
THEOREM OversoldHasCauses == Spec => []OversoldHasACause
BY MonitorInvariant, PTL DEF MonitorIInv

\* Two sells of one run: a lost answer, however many runs there are.
THEOREM RunsSellOnce == Spec => []OneSellPerRun
<1>1. MonitorIInv => OneSellPerRun
    BY DEF MonitorIInv, SellIsNoted, OneSellPerRun, TypeOK
<1> QED BY <1>1, MonitorInvariant, PTL

\* What is held never falls below nothing without one of the five causes: the
\* fill that would do it is of an order that exceeds the position.
THEOREM ShortHasCauses == Spec => []NeverShort
<1>1. Init => NeverShort
    BY BoundsAssumption DEF Init, NeverShort
<1>2. MonitorIInv /\ NeverShort /\ [Next]_vars => NeverShort'
  <2> SUFFICES ASSUME MonitorIInv, NeverShort, [Next]_vars, ~Caused' PROVE ~(held' < 0)
    BY DEF NeverShort
  <2>1. TypeOK /\ OversoldHasACause /\ held \in Int
    BY DEF MonitorIInv, TypeOK
  <2>2. ~Caused /\ ~(held < 0)
    <3>1. ~Caused
      BY <2>1, NextRemembers DEF Remembered, Caused
    <3> QED BY <3>1 DEF NeverShort
  <2>3. ASSUME NEW j \in DOMAIN orders, Fills(j) PROVE ~(held' < 0)
    <3>1. orders[j] \in Order /\ orders[j].quantity \in Nat /\ orders[j].side \in {"SELL", "BUY"}
      <4>1. orders[j] \in Order
        BY <2>1 DEF TypeOK
      <4> QED BY <4>1 DEF Order
    <3>2. CASE orders[j].side = "SELL"
      <4>1. j \in LiveSells
        BY <2>3, <3>2 DEF Fills, LiveSells, LiveOrders, Live
      <4>2. ~(orders[j].quantity > held)
        BY <2>1, <2>2, <4>1 DEF OversoldHasACause
      <4>3. held' = held - orders[j].quantity
        BY <2>3, <3>2 DEF Fills
      <4> QED BY <2>1, <3>1, <4>2, <4>3
    <3>3. CASE orders[j].side = "BUY"
      <4>1. held' = held + orders[j].quantity
        BY <2>3, <3>3 DEF Fills
      <4> QED BY <2>1, <2>2, <3>1, <4>1
    <3> QED BY <3>1, <3>2, <3>3
  <2>4. CASE OthersTrade
    <3>1. held' \in 0..Bought
      BY <2>4 DEF OthersTrade
    <3> QED BY <3>1, BoundsAssumption
  <2> QED BY <2>2, <2>3, <2>4, HeldChangesByFills
<1> QED BY <1>1, <1>2, MonitorInvariant, PTL DEF Spec

=============================================================================
