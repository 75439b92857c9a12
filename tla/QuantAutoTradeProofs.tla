------------------------ MODULE QuantAutoTradeProofs ------------------------
(***************************************************************************)
(* What holds of the automatic orders of a day, for any number of cycles   *)
(* and targets and any daily limit; and, at the end, with the sagas, the   *)
(* outbox and the inbox of the trade service behind them.                  *)
(***************************************************************************)
EXTENDS QuantPipeline, FiniteSetTheorems, TLAPS

-----------------------------------------------------------------------------
(* Cells and counts.                                                       *)

\* What a write of one cell of a table of cycles and targets does.
CellSet(new, table, c, t, value) ==
  /\ new[c][t] = value
  /\ \A u \in Target \ {t} : new[c][u] = table[c][u]
  /\ \A d \in Cycle \ {c} : new[d] = table[d]

\* Writing one cell keeps the table's type and every other cell.
LEMMA CellWrite ==
  ASSUME NEW V, NEW table \in [Cycle -> [Target -> V]],
         NEW c \in Cycle, NEW t \in Target, NEW value \in V
  PROVE  /\ [table EXCEPT ![c][t] = value] \in [Cycle -> [Target -> V]]
         /\ CellSet([table EXCEPT ![c][t] = value], table, c, t, value)
<1> DEFINE row == [table[c] EXCEPT ![t] = value]
<1>1. table[c] \in [Target -> V]
  OBVIOUS
<1>2. row \in [Target -> V] /\ row[t] = value /\ \A u \in Target \ {t} : row[u] = table[c][u]
  BY <1>1
<1>3. [table EXCEPT ![c][t] = value] = [table EXCEPT ![c] = row]
  OBVIOUS
<1> HIDE DEF row
<1>4. /\ [table EXCEPT ![c] = row] \in [Cycle -> [Target -> V]]
      /\ [table EXCEPT ![c] = row][c] = row
      /\ \A d \in Cycle \ {c} : [table EXCEPT ![c] = row][d] = table[d]
  BY <1>2
<1> QED
  BY <1>2, <1>3, <1>4 DEF CellSet

\* A new status of one order, and a new decision row.
LEMMA OrderWrite ==
  ASSUME TypeOK, NEW c \in Cycle, NEW t \in Target, NEW value \in {"active", "done"},
         order' = [order EXCEPT ![c][t] = value]
  PROVE  /\ order' \in [Cycle -> [Target -> {"none", "active", "done"}]]
         /\ CellSet(order', order, c, t, value)
<1> DEFINE V == {"none", "active", "done"}
<1>1. order \in [Cycle -> [Target -> V]] /\ value \in V
  BY DEF TypeOK
<1> HIDE DEF V
<1>2. order' \in [Cycle -> [Target -> V]] /\ CellSet(order', order, c, t, value)
  BY <1>1, CellWrite
<1> QED
  BY <1>2 DEF V

\* Likewise a new decision row.
LEMMA DecisionWrite ==
  ASSUME TypeOK, NEW c \in Cycle, NEW t \in Target, NEW value \in {"executed", "failed"},
         decision' = [decision EXCEPT ![c][t] = value]
  PROVE  /\ decision' \in [Cycle -> [Target -> {"none", "executed", "failed"}]]
         /\ CellSet(decision', decision, c, t, value)
<1> DEFINE V == {"none", "executed", "failed"}
<1>1. decision \in [Cycle -> [Target -> V]] /\ value \in V
  BY DEF TypeOK
<1> HIDE DEF V
<1>2. decision' \in [Cycle -> [Target -> V]] /\ CellSet(decision', decision, c, t, value)
  BY <1>1, CellWrite
<1> QED
  BY <1>2 DEF V

\* Sets of pairs of a cycle and a target can be counted.
LEMMA Counts ==
  ASSUME NEW S \in SUBSET (Cycle \X Target)
  PROVE  IsFiniteSet(S) /\ Cardinality(S) \in Nat
<1>1. IsFiniteSet(Cycle \X Target)
  BY GuardedAssumption, TargetAssumption, FS_Product
<1> QED
  BY <1>1, FS_Subset, FS_CardinalityType

\* The guardrail's count is a number.
LEMMA SubmittedTodayType == SubmittedToday \in Nat
<1>1. {p \in Guarded \X Target : decision[p[1]][p[2]] = "executed"} \in SUBSET (Cycle \X Target)
  BY GuardedAssumption
<1> QED
  BY <1>1, Counts DEF SubmittedToday

-----------------------------------------------------------------------------
(* Types.                                                                  *)

\* A cycle that leaves resets its own variables within their types.
LEMMA LeaveTypes ==
  ASSUME TypeOK, NEW c \in Cycle, NEW label \in {"done", "broken"}, Leave(c, label),
         UNCHANGED doubt,
         decision' \in [Cycle -> [Target -> {"none", "executed", "failed"}]],
         recent' \subseteq Cycle \X Target,
         order' \in [Cycle -> [Target -> {"none", "active", "done"}]],
         pending' \subseteq Cycle \X Target
  PROVE  TypeOK'
BY TargetAssumption DEF TypeOK, Leave

\* The day starts with every variable in its type.
LEMMA InitTypes == Init => TypeOK
BY TargetAssumption DEF Init, TypeOK

\* Every step keeps the types.
LEMMA StepTypes == TypeOK /\ [Next]_vars => TypeOK'
<1> SUFFICES ASSUME TypeOK, [Next]_vars PROVE TypeOK'
  OBVIOUS
<1> USE TargetAssumption
<1>0. ASSUME NEW c \in Cycle, pc[c] \in {"send", "save"} PROVE current[c] \in Target
  BY <1>0 DEF TypeOK
<1>1. ASSUME NEW c \in Cycle, Begin(c) PROVE TypeOK'
  BY <1>1, SubmittedTodayType DEF Begin, TypeOK
<1>2. ASSUME NEW c \in Cycle, LoadOrders(c) PROVE TypeOK'
  <2>1. Open \subseteq Target
    BY DEF Open
  <2>2. view' \in [Cycle -> SUBSET Target]
    <3> PICK shown \in SUBSET Target : view' = [view EXCEPT ![c] = shown]
      BY <1>2, <2>1 DEF LoadOrders
    <3> QED
      BY DEF TypeOK
  <2>3. check' \in [Cycle -> {"none", "read", "fallback", "error"}]
    BY <1>2 DEF LoadOrders, TypeOK
  <2> QED
    BY <1>2, <2>2, <2>3 DEF LoadOrders, TypeOK
<1>3. ASSUME NEW c \in Cycle, NEW t \in Target, Skip(c, t) PROVE TypeOK'
  BY <1>3 DEF Skip, TypeOK
<1>4. ASSUME NEW c \in Cycle, NEW t \in Target, Choose(c, t) PROVE TypeOK'
  BY <1>4 DEF Choose, TypeOK
<1>5. ASSUME NEW c \in Cycle, Submitted(c) PROVE TypeOK'
  BY <1>0, <1>5 DEF Submitted, TypeOK
<1>6. ASSUME NEW c \in Cycle, SubmitRaises(c) PROVE TypeOK'
  <2>1. current[c] \in Target
    BY <1>0, <1>6 DEF SubmitRaises
  <2>2. order' \in [Cycle -> [Target -> {"none", "active", "done"}]]
    BY <1>6 DEF SubmitRaises, TypeOK
  <2>3. pending' \subseteq Cycle \X Target
    BY <2>1, <1>6 DEF SubmitRaises, TypeOK
  <2>4. decision' = decision /\ recent' = recent /\ doubt' = doubt /\ Leave(c, "broken")
    BY <1>6 DEF SubmitRaises
  <2> QED
    BY <2>2, <2>3, <2>4, LeaveTypes DEF TypeOK
<1>7. ASSUME NEW c \in Cycle, SaveDecision(c) PROVE TypeOK'
  <2>1. current[c] \in Target
    BY <1>0, <1>7 DEF SaveDecision
  <2>2. decision' \in [Cycle -> [Target -> {"none", "executed", "failed"}]]
    <3>1. ExecutionStatus(c, current[c]) \in {"executed", "failed"}
      BY DEF ExecutionStatus
    <3> QED
      BY <2>1, <3>1, <1>7, DecisionWrite DEF SaveDecision, TypeOK
  <2>3. recent' \subseteq Cycle \X Target
    BY <2>1, <1>7 DEF SaveDecision, TypeOK
  <2>4. order' = order /\ pending' = pending /\ doubt' = doubt /\ pc[c] = "save"
    BY <1>7 DEF SaveDecision
  <2>5. CASE Leave(c, "broken")
    BY <2>2, <2>3, <2>4, <2>5, LeaveTypes DEF TypeOK
  <2>6. CASE ~Leave(c, "broken")
    <3>1. /\ count' = [count EXCEPT ![c] = IF ExecutionStatus(c, current[c]) = "executed"
                                             THEN @ + 1 ELSE @]
          /\ current' = [current EXCEPT ![c] = NoTarget]
          /\ pc' = [pc EXCEPT ![c] = "loop"]
          /\ UNCHANGED <<todo, view, check>>
      BY <1>7, <2>6 DEF SaveDecision
    <3>2. count' \in [Cycle -> Nat]
      BY <3>1 DEF TypeOK
    <3> QED
      BY <2>2, <2>3, <2>4, <3>1, <3>2 DEF TypeOK
  <2> QED
    BY <2>5, <2>6
<1>8. ASSUME NEW c \in Cycle, Finish(c) \/ Crash(c) PROVE TypeOK'
  <2>1. UNCHANGED <<decision, recent, order, pending, doubt>>
        /\ (Leave(c, "done") \/ Leave(c, "broken"))
    BY <1>8 DEF Finish, Crash
  <2> QED
    BY <2>1, LeaveTypes DEF TypeOK
<1>9. ASSUME NEW c \in Cycle, NEW t \in Target, LateOrder(c, t) PROVE TypeOK'
  <2>1. order' \in [Cycle -> [Target -> {"none", "active", "done"}]]
    BY <1>9, OrderWrite DEF LateOrder, TypeOK
  <2> QED
    BY <1>9, <2>1 DEF LateOrder, TypeOK
<1>10. ASSUME NEW c \in Cycle, NEW t \in Target, OrderEnds(c, t) PROVE TypeOK'
  <2>1. order' \in [Cycle -> [Target -> {"none", "active", "done"}]]
    BY <1>10, OrderWrite DEF OrderEnds, TypeOK
  <2> QED
    BY <1>10, <2>1 DEF OrderEnds, TypeOK
<1>11. ASSUME NEW c \in Cycle, NEW t \in Target, HourPasses(c, t) PROVE TypeOK'
  BY <1>11 DEF HourPasses, TypeOK
<1>12. CASE UNCHANGED vars
  BY <1>12 DEF vars, TypeOK
<1>13. ASSUME NEW c \in Cycle, OrderPlaced(c) PROVE TypeOK'
  <2>1. order' \in [Cycle -> [Target -> {"none", "active", "done"}]]
    BY <1>0, <1>13, OrderWrite DEF OrderPlaced, TypeOK
  <2> QED
    BY <1>13, <2>1 DEF OrderPlaced, TypeOK
<1> QED
  BY <1>1, <1>2, <1>3, <1>4, <1>5, <1>6, <1>7, <1>8, <1>9, <1>10, <1>11, <1>12, <1>13
  DEF Next, CycleStep, Surroundings

\* Every variable keeps its type; a cycle has a current decision exactly while it is
\* submitting or recording it.
THEOREM QuantTypes == Spec => []TypeOK
BY InitTypes, StepTypes, PTL DEF Spec
-----------------------------------------------------------------------------
(* One unrecorded order per cycle.                                         *)

\* What a step of cycle c leaves of the other cycles.
Aside(c) ==
  \A d \in Cycle \ {c} :
    /\ pc'[d] = pc[d] /\ todo'[d] = todo[d] /\ current'[d] = current[d]
    /\ count'[d] = count[d] /\ view'[d] = view[d] /\ check'[d] = check[d]
    /\ decision'[d] = decision[d] /\ order'[d] = order[d]
    /\ \A t \in Target : /\ <<d, t>> \in pending' <=> <<d, t>> \in pending
                         /\ <<d, t>> \in recent' <=> <<d, t>> \in recent

\* What RecordIInv says of a cycle is untouched by the steps of another.
LEMMA AsideKeepsRecord ==
  ASSUME NEW c \in Cycle, Aside(c), NEW d \in Cycle, d # c, RecordIInv(d)
  PROVE  RecordIInv(d)'
<1>1. /\ pc'[d] = pc[d] /\ todo'[d] = todo[d] /\ current'[d] = current[d]
      /\ decision'[d] = decision[d] /\ order'[d] = order[d]
      /\ \A t \in Target : /\ <<d, t>> \in pending' <=> <<d, t>> \in pending
                           /\ <<d, t>> \in recent' <=> <<d, t>> \in recent
  BY DEF Aside
<1>2. \A t : t \in Unrecorded(d)' <=> t \in Unrecorded(d)
  BY <1>1 DEF Unrecorded
<1> QED
  BY <1>1, <1>2 DEF RecordIInv

\* What becomes of the targets of a cycle and of its own variables when it leaves.
LEMMA LeaveEffect ==
  ASSUME TypeOK, NEW c \in Cycle, NEW label \in {"done", "broken"}, Leave(c, label)
  PROVE  /\ pc'[c] = label /\ todo'[c] = {} /\ current'[c] = NoTarget /\ check'[c] = "none"
         /\ \A d \in Cycle \ {c} :
              /\ pc'[d] = pc[d] /\ todo'[d] = todo[d] /\ current'[d] = current[d]
              /\ count'[d] = count[d] /\ view'[d] = view[d] /\ check'[d] = check[d]
BY DEF TypeOK, Leave

\* A step of a cycle leaves the other cycles alone.
LEMMA CycleStepAside ==
  ASSUME TypeOK, NEW c \in Cycle, CycleStep(c)
  PROVE  Aside(c)
<1>0. pc[c] \in {"send", "save"} => current[c] \in Target
  BY TargetAssumption DEF TypeOK
<1>1. CASE Begin(c)
  BY <1>1 DEF Begin, Aside, TypeOK
<1>2. CASE LoadOrders(c)
  BY <1>2 DEF LoadOrders, Aside, TypeOK
<1>3. ASSUME NEW t \in Target, Skip(c, t) PROVE Aside(c)
  BY <1>3 DEF Skip, Aside, TypeOK
<1>4. ASSUME NEW t \in Target, Choose(c, t) PROVE Aside(c)
  BY <1>4 DEF Choose, Aside, TypeOK
<1>5. CASE Submitted(c)
  BY <1>5 DEF Submitted, Aside, TypeOK
<1>6. CASE SubmitRaises(c)
  BY <1>6, LeaveEffect DEF SubmitRaises, Aside
<1>7. CASE SaveDecision(c)
  <2>1. current[c] \in Target
    BY <1>0, <1>7 DEF SaveDecision
  <2>2. \A d \in Cycle \ {c} : decision'[d] = decision[d]
    <3>1. ExecutionStatus(c, current[c]) \in {"executed", "failed"}
      BY DEF ExecutionStatus
    <3> QED
      BY <2>1, <3>1, <1>7, DecisionWrite DEF SaveDecision, CellSet
  <2>3. \A d \in Cycle \ {c} : \A t \in Target : <<d, t>> \in recent' <=> <<d, t>> \in recent
    BY <1>7 DEF SaveDecision
  <2>4. order' = order /\ pending' = pending
    BY <1>7 DEF SaveDecision
  <2>5. CASE Leave(c, "broken")
    BY <2>2, <2>3, <2>4, <2>5, LeaveEffect DEF Aside
  <2>6. CASE ~Leave(c, "broken")
    <3>1. /\ count' = [count EXCEPT ![c] = IF ExecutionStatus(c, current[c]) = "executed"
                                             THEN @ + 1 ELSE @]
          /\ current' = [current EXCEPT ![c] = NoTarget]
          /\ pc' = [pc EXCEPT ![c] = "loop"]
          /\ UNCHANGED <<todo, view, check>>
      BY <1>7, <2>6 DEF SaveDecision
    <3> QED
      BY <2>2, <2>3, <2>4, <3>1 DEF Aside, TypeOK
  <2> QED
    BY <2>5, <2>6
<1>8. CASE Finish(c)
  BY <1>8, LeaveEffect DEF Finish, Aside
<1>9. CASE Crash(c)
  BY <1>9, LeaveEffect DEF Crash, Aside
<1>10. CASE OrderPlaced(c)
  <2>1. \A d \in Cycle \ {c} : order'[d] = order[d]
    BY <1>0, <1>10, OrderWrite DEF OrderPlaced, CellSet
  <2> QED
    BY <1>10, <2>1 DEF OrderPlaced, Aside, TypeOK
<1> QED
  BY <1>1, <1>2, <1>3, <1>4, <1>5, <1>6, <1>7, <1>8, <1>9, <1>10 DEF CycleStep

\* A step of a cycle keeps what RecordIInv says of it.
LEMMA CycleStepKeepsRecord ==
  ASSUME TypeOK, NEW c \in Cycle, RecordIInv(c), CycleStep(c)
  PROVE  RecordIInv(c)'
<1>0. pc[c] \in {"send", "save"} => current[c] \in Target
  BY TargetAssumption DEF TypeOK
<1> USE TargetAssumption
<1>1. CASE Begin(c)
  <2>1. pc[c] = "idle" /\ pc'[c] = "orders" /\ todo'[c] \subseteq Target
        /\ UNCHANGED <<current, decision, recent, order, pending>>
    BY <1>1 DEF Begin, TypeOK
  <2>2. current[c] \notin Target
    BY <2>1 DEF TypeOK
  <2> QED
    BY <2>1, <2>2 DEF RecordIInv, Unrecorded
<1>2. CASE LoadOrders(c)
  BY <1>2 DEF LoadOrders, RecordIInv, Unrecorded, TypeOK
<1>3. ASSUME NEW t \in Target, Skip(c, t) PROVE RecordIInv(c)'
  BY <1>3 DEF Skip, RecordIInv, Unrecorded, TypeOK
<1>4. ASSUME NEW t \in Target, Choose(c, t) PROVE RecordIInv(c)'
  BY <1>4 DEF Choose, RecordIInv, Unrecorded, TypeOK
<1>5. CASE Submitted(c)
  <2>1. /\ pc[c] = "send" /\ pc'[c] = "save"
        /\ UNCHANGED <<todo, current, decision, recent, order, pending>>
    BY <1>5 DEF Submitted, TypeOK
  <2> QED
    BY <1>0, <2>1 DEF RecordIInv, Unrecorded
<1>6. CASE SubmitRaises(c)
  <2>1. /\ pc[c] = "send" /\ pc'[c] = "broken" /\ todo'[c] = {} /\ current'[c] = NoTarget
        /\ UNCHANGED <<decision, recent, order>>
    BY <1>6, LeaveEffect DEF SubmitRaises
  <2>2. \A t \in Target \ {current[c]} : <<c, t>> \in pending' <=> <<c, t>> \in pending
    BY <1>6 DEF SubmitRaises
  <2> QED
    BY <1>0, <2>1, <2>2 DEF RecordIInv, Unrecorded
<1>7. CASE SaveDecision(c)
  <2> PICK outcome \in {"executed", "failed"} : outcome = ExecutionStatus(c, current[c])
    BY DEF ExecutionStatus
  <2>1. /\ pc[c] = "save" /\ current[c] \in Target
        /\ UNCHANGED <<order, pending>>
    BY <1>0, <1>7 DEF SaveDecision
  <2>2. outcome = "executed" <=> order[c][current[c]] # "none"
    BY DEF ExecutionStatus
  <2>3. /\ todo'[c] \subseteq todo[c] /\ current'[c] = NoTarget /\ pc'[c] \in {"loop", "broken"}
    BY <1>7, LeaveEffect DEF SaveDecision, TypeOK
  <2>4. CASE UNCHANGED <<decision, recent>> /\ pc'[c] = "broken"
    BY <2>1, <2>3, <2>4 DEF RecordIInv, Unrecorded
  <2>5. CASE /\ decision' = [decision EXCEPT ![c][current[c]] = outcome]
             /\ recent' = recent \union {<<c, current[c]>>}
    <3>1. /\ decision'[c][current[c]] = outcome
          /\ \A t \in Target \ {current[c]} : decision'[c][t] = decision[c][t]
      <4> PICK value : value = outcome /\ decision' = [decision EXCEPT ![c][current[c]] = value]
        BY <2>5
      <4> QED
        BY <2>1 DEF TypeOK
    <3>2. <<c, current[c]>> \in recent'
          /\ \A t \in Target \ {current[c]} : <<c, t>> \in recent' <=> <<c, t>> \in recent
      BY <2>5
    <3>3. Unrecorded(c)' = {}
      BY <2>1, <3>1 DEF RecordIInv, Unrecorded
    <3> QED
      BY <2>1, <2>2, <2>3, <3>1, <3>2, <3>3 DEF RecordIInv
  <2> QED
    BY <1>7, <2>4, <2>5, LeaveEffect DEF SaveDecision
<1>8. CASE Finish(c) \/ Crash(c)
  <2>1. /\ pc'[c] \in {"done", "broken"} /\ todo'[c] = {} /\ current'[c] = NoTarget
        /\ pc'[c] = "done" => pc[c] = "loop"
        /\ UNCHANGED <<decision, recent, order, pending>>
    BY <1>8, LeaveEffect DEF Finish, Crash
  <2>2. pc[c] \in {"orders", "loop", "save"}
    BY <1>8 DEF Finish, Crash
  <2> QED
    BY <2>1, <2>2 DEF RecordIInv, Unrecorded
<1>9. CASE OrderPlaced(c)
  <2>1. /\ pc[c] = "send" /\ UNCHANGED <<pc, todo, current, decision, recent, pending>>
    BY <1>9 DEF OrderPlaced
  <2>2. /\ order'[c][current[c]] = "active"
        /\ \A t \in Target \ {current[c]} : order'[c][t] = order[c][t]
    BY <1>0, <1>9, OrderWrite DEF OrderPlaced, CellSet
  <2> QED
    BY <1>0, <2>1, <2>2 DEF RecordIInv, Unrecorded
<1> QED
  BY <1>1, <1>2, <1>3, <1>4, <1>5, <1>6, <1>7, <1>8, <1>9 DEF CycleStep

\* So do a late order, the end of an order and the passing of an hour.
LEMMA SurroundingsKeepRecord ==
  ASSUME TypeOK, \A d \in Cycle : RecordIInv(d), NEW c \in Cycle, NEW t \in Target,
         LateOrder(c, t) \/ OrderEnds(c, t) \/ HourPasses(c, t)
  PROVE  \A d \in Cycle : RecordIInv(d)'
<1> SUFFICES ASSUME NEW d \in Cycle PROVE RecordIInv(d)'
  OBVIOUS
<1> RecordIInv(d)
  OBVIOUS
<1>1. UNCHANGED <<pc, todo, current, decision>>
  BY DEF LateOrder, OrderEnds, HourPasses
<1>2. \A u \in Target : <<d, u>> \in recent' => <<d, u>> \in recent
  BY DEF LateOrder, OrderEnds, HourPasses
<1>3. CASE LateOrder(c, t)
  <2>1. /\ order'[c][t] \in {order[c][t], "active"}
        /\ \A u \in Target \ {t} : order'[c][u] = order[c][u]
        /\ \A e \in Cycle \ {c} : order'[e] = order[e]
    BY <1>3, OrderWrite DEF LateOrder, CellSet
  <2>2. <<c, t>> \in pending /\ pending' = pending \ {<<c, t>>}
    BY <1>3 DEF LateOrder
  <2> QED
    <3>1. CASE d = c
      BY <1>1, <1>2, <2>1, <2>2, <3>1 DEF RecordIInv, Unrecorded
    <3>2. CASE d # c
      <4> order'[d] = order[d] /\ \A u \in Target : <<d, u>> \in pending' <=> <<d, u>> \in pending
        BY <2>1, <2>2, <3>2
      <4> QED
        BY <1>1, <1>2 DEF RecordIInv, Unrecorded
    <3> QED
      BY <3>1, <3>2
<1>4. CASE OrderEnds(c, t)
  <2>1. /\ order'[c][t] = "done" /\ order[c][t] = "active"
        /\ \A u \in Target \ {t} : order'[c][u] = order[c][u]
        /\ \A e \in Cycle \ {c} : order'[e] = order[e]
    <3> CellSet(order', order, c, t, "done")
      BY <1>4, OrderWrite DEF OrderEnds
    <3> QED
      BY <1>4 DEF OrderEnds, CellSet
  <2>2. pending' = pending
    BY <1>4 DEF OrderEnds
  <2> QED
    <3>1. CASE d = c
      BY <1>1, <1>2, <2>1, <2>2, <3>1 DEF RecordIInv, Unrecorded
    <3>2. CASE d # c
      <4> order'[d] = order[d] /\ \A u \in Target : <<d, u>> \in pending' <=> <<d, u>> \in pending
        BY <2>1, <2>2, <3>2
      <4> QED
        BY <1>1, <1>2 DEF RecordIInv, Unrecorded
    <3> QED
      BY <3>1, <3>2
<1>5. CASE HourPasses(c, t)
  <2>1. order' = order /\ pending' = pending
    BY <1>5 DEF HourPasses
  <2> QED
    BY <1>1, <1>2, <2>1 DEF RecordIInv, Unrecorded
<1> QED
  BY <1>3, <1>4, <1>5

\* The records of all cycles, together.
Records == TypeOK /\ \A c \in Cycle : RecordIInv(c)

\* They stay in order with every step, ...
LEMMA RecordsStep == Records /\ [Next]_vars => Records'
<1> SUFFICES ASSUME Records, [Next]_vars PROVE Records'
  OBVIOUS
<1> USE DEF Records
<1>1. TypeOK'
  BY StepTypes
<1>2. CASE UNCHANGED vars
  BY <1>1, <1>2 DEF vars, RecordIInv, Unrecorded
<1>3. ASSUME NEW c \in Cycle, CycleStep(c) PROVE Records'
  BY <1>1, <1>3, CycleStepAside, CycleStepKeepsRecord, AsideKeepsRecord
<1>4. CASE Surroundings
  BY <1>1, <1>4, SurroundingsKeepRecord DEF Surroundings
<1> QED
  BY <1>2, <1>3, <1>4 DEF Next

\* ... and are so at the start of the day, ...
LEMMA RecordsInit == Init => Records
BY InitTypes, TargetAssumption DEF Init, Records, RecordIInv, Unrecorded

\* ... and therefore at any time.
LEMMA RecordsInvariant == Spec => []Records
BY RecordsInit, RecordsStep, PTL DEF Spec

\* At any time a cycle has at most one order, placed or still to come, that no decision
\* row accounts for, whatever fails.
THEOREM RecordLagsByOne == Spec => []OneUnrecordedOrderPerCycle
<1>1. Records => OneUnrecordedOrderPerCycle
  <2> SUFFICES ASSUME Records, NEW c \in Cycle PROVE Cardinality(Unrecorded(c)) <= 1
    BY DEF OneUnrecordedOrderPerCycle
  <2>1. \A a, b \in Unrecorded(c) : a = b
    BY DEF Records, RecordIInv
  <2>2. CASE Unrecorded(c) = {}
    BY <2>2, FS_EmptySet
  <2>3. CASE Unrecorded(c) # {}
    <3> DEFINE left == Unrecorded(c)
    <3>1. PICK t \in left : left = {t}
      BY <2>1, <2>3
    <3> HIDE DEF left
    <3>2. Cardinality(left) = 1
      BY <3>1, FS_Singleton
    <3> QED
      BY <3>2 DEF left
  <2> QED
    BY <2>2, <2>3
<1> QED
  BY <1>1, RecordsInvariant, PTL

-----------------------------------------------------------------------------
(* A second open order takes two failures.                                 *)

\* What a step of cycle c does to what the cycles share.
Effect(c) ==
  /\ doubt \subseteq doubt'
  /\ c \notin Busy =>
       /\ pc'[c] = "orders"
       /\ "overlap" \in doubt' \/ (Busy = {} /\ pending = {})
       /\ UNCHANGED <<order, pending, recent, decision>>
  /\ \A t \in Target :
       /\ order'[c][t] = "active" =>
            order[c][t] = "active" \/ (pc[c] = "send" /\ t = current[c])
       /\ <<c, t>> \in pending' =>
            \/ <<c, t>> \in pending
            \/ pc[c] = "send" /\ t = current[c] /\ pc'[c] = "broken" /\ order' = order
       /\ <<c, t>> \in recent' =>
            <<c, t>> \in recent \/ (pc[c] = "save" /\ t = current[c] /\ order' = order)

\* Every step of a cycle is of this kind.
LEMMA CycleStepEffect ==
  ASSUME TypeOK, NEW c \in Cycle, CycleStep(c)
  PROVE  Effect(c)
<1>0. pc[c] \in {"send", "save"} => current[c] \in Target
  BY TargetAssumption DEF TypeOK
<1>1. CASE Begin(c)
  <2>1. "overlap" \in doubt' \/ (Busy = {} /\ pending = {})
    BY <1>1 DEF Begin
  <2> QED
    BY <1>1, <2>1 DEF Begin, Effect, TypeOK
<1>2. CASE LoadOrders(c)
  BY <1>2 DEF LoadOrders, Effect, Busy
<1>3. ASSUME NEW t \in Target, Skip(c, t) \/ Choose(c, t) PROVE Effect(c)
  BY <1>3 DEF Skip, Choose, Effect, Busy
<1>4. CASE OrderPlaced(c)
  <2>1. \A t \in Target \ {current[c]} : order'[c][t] = order[c][t]
    BY <1>0, <1>4, OrderWrite DEF OrderPlaced, CellSet
  <2> QED
    BY <1>4, <2>1 DEF OrderPlaced, Effect, Busy
<1>5. CASE SubmitRaises(c)
  <2>1. pc[c] = "send" /\ pc'[c] = "broken" /\ UNCHANGED <<recent, order, doubt>>
    BY <1>5, LeaveEffect DEF SubmitRaises
  <2>2. pending' \in {pending, pending \union {<<c, current[c]>>}}
    BY <1>5 DEF SubmitRaises
  <2> QED
    BY <2>1, <2>2 DEF Effect, Busy
<1>6. CASE SaveDecision(c)
  <2>1. pc[c] = "save" /\ UNCHANGED <<order, pending, doubt>>
    BY <1>6 DEF SaveDecision
  <2>2. recent' \in {recent, recent \union {<<c, current[c]>>}}
    BY <1>6 DEF SaveDecision
  <2> QED
    BY <2>1, <2>2 DEF Effect, Busy
<1>7. CASE Finish(c) \/ Crash(c)
  BY <1>7 DEF Finish, Crash, Effect, Busy
<1>8. CASE Submitted(c)
  BY <1>8 DEF Submitted, Effect, Busy
<1> QED
  BY <1>1, <1>2, <1>3, <1>4, <1>5, <1>6, <1>7, <1>8 DEF CycleStep

\* A cycle that is about to order a target somebody has an open order on was shown an
\* empty list.
LEMMA OnlyFallbackGetsThrough ==
  ASSUME TypeOK, NEW c \in Cycle, BarrierIInv(c), "overlap" \notin doubt,
         pc[c] \in {"send", "save"}, NEW d \in Cycle, d # c, order[d][current[c]] = "active"
  PROVE  "broker" \in doubt
BY TargetAssumption DEF TypeOK, BarrierIInv

\* The barriers of a cycle survive the steps of another: one at work at the same time is an overlap.
LEMMA CycleStepKeepsOthersBarrier ==
  ASSUME TypeOK, OneAtATime, NEW c \in Cycle, Aside(c), Effect(c),
         NEW d \in Cycle, d # c, BarrierIInv(d)
  PROVE  BarrierIInv(d)'
<1>1. /\ pc'[d] = pc[d] /\ current'[d] = current[d] /\ view'[d] = view[d] /\ check'[d] = check[d]
      /\ doubt \subseteq doubt'
  BY DEF Aside, Effect
<1>2. CASE c \in Busy /\ d \in Busy
  <2>1. "overlap" \in doubt
    BY <1>2 DEF OneAtATime
  <2> QED
    BY <1>1, <2>1 DEF BarrierIInv
<1>3. CASE c \notin Busy
  <2>1. UNCHANGED <<order, recent>>
    BY <1>3 DEF Effect
  <2> QED
    BY <1>1, <2>1 DEF BarrierIInv, DecidedRecently
<1>4. CASE d \notin Busy
  BY <1>1, <1>4 DEF BarrierIInv, Busy
<1> QED
  BY <1>2, <1>3, <1>4

\* A cycle builds up its barriers before it submits and keeps them until it is done.
LEMMA CycleStepKeepsOwnBarrier ==
  ASSUME TypeOK, NEW c \in Cycle, BarrierIInv(c), CycleStep(c), Aside(c)
  PROVE  BarrierIInv(c)'
<1>0. \A d \in Cycle \ {c} : order'[d] = order[d]
  BY DEF Aside
<1>1. CASE Begin(c)
  BY <1>1 DEF Begin, BarrierIInv, TypeOK
<1>2. CASE LoadOrders(c)
  <2>1. pc'[c] = "loop" /\ UNCHANGED <<order, current>>
    BY <1>2 DEF LoadOrders, TypeOK
  <2>2. /\ check'[c] \in {"read", "fallback", "error"}
        /\ check'[c] = "read" => view'[c] = Open
        /\ check'[c] = "fallback" => "broker" \in doubt'
    BY <1>2 DEF LoadOrders, TypeOK
  <2> QED
    BY <2>1, <2>2 DEF BarrierIInv, Open
<1>3. ASSUME NEW t \in Target, Skip(c, t) PROVE BarrierIInv(c)'
  BY <1>3 DEF Skip, BarrierIInv, DecidedRecently
<1>4. ASSUME NEW t \in Target, Choose(c, t) PROVE BarrierIInv(c)'
  <2>1. /\ pc[c] = "loop" /\ pc'[c] = "send" /\ current'[c] = t /\ t \notin view[c]
        /\ check[c] # "error" /\ doubt \subseteq doubt'
        /\ DecidedRecently(t) => "database" \in doubt'
        /\ UNCHANGED <<view, check, recent, order>>
    BY <1>4 DEF Choose, TypeOK
  <2>2. check[c] \in {"read", "fallback"}
    BY <2>1 DEF BarrierIInv, TypeOK
  <2> QED
    BY <2>1, <2>2 DEF BarrierIInv, DecidedRecently
<1>5. CASE Submitted(c) \/ OrderPlaced(c)
  <2>1. /\ pc[c] = "send" /\ pc'[c] \in {"send", "save"}
        /\ UNCHANGED <<current, view, check, recent, doubt>>
    BY <1>5 DEF Submitted, OrderPlaced, TypeOK
  <2> QED
    BY <1>0, <2>1 DEF BarrierIInv, DecidedRecently
<1>6. CASE Leave(c, "broken") \/ Leave(c, "done")
  BY <1>6, LeaveEffect DEF BarrierIInv
<1>7. CASE SaveDecision(c) /\ ~Leave(c, "broken")
  <2>1. /\ pc[c] = "save" /\ pc'[c] = "loop" /\ UNCHANGED <<view, check, order, doubt>>
    BY <1>7 DEF SaveDecision, TypeOK
  <2> QED
    BY <2>1 DEF BarrierIInv
<1> QED
  BY <1>1, <1>2, <1>3, <1>4, <1>5, <1>6, <1>7 DEF CycleStep, SubmitRaises, Finish, Crash

\* Without an overlap one cycle works, and only when no earlier submit is under way.
LEMMA CycleStepKeepsOneAtATime ==
  ASSUME TypeOK', NEW c \in Cycle, BarrierIInv(c), TypeOK, OneAtATime, Aside(c), Effect(c)
  PROVE  OneAtATime'
<1> SUFFICES ASSUME "overlap" \notin doubt'
             PROVE  /\ \A d, e \in Busy' : d = e
                    /\ Busy' # {} => pending' = {}
                    /\ \A p, q \in pending' : p = q
                    /\ \A p \in pending' : \A d \in Cycle \ {p[1]} :
                         order'[d][p[2]] = "active" => "broker" \in doubt'
  BY DEF OneAtATime
<1>1. "overlap" \notin doubt /\ doubt \subseteq doubt'
  BY DEF Effect
<1>2. \A d \in Cycle \ {c} : d \in Busy' <=> d \in Busy
  BY DEF Aside, Busy
<1>3. Busy \subseteq {c} /\ Busy' \subseteq {c} /\ pending = {}
  <2>1. CASE c \in Busy
    BY <1>1, <1>2, <2>1 DEF OneAtATime, Busy
  <2>2. CASE c \notin Busy
    BY <1>2, <2>2 DEF Effect, Busy
  <2> QED
    BY <2>1, <2>2
<1>4. \A p \in pending' : /\ p = <<c, current[c]>> /\ current[c] \in Target
                          /\ pc[c] = "send" /\ pc'[c] = "broken" /\ order' = order
  <2> SUFFICES ASSUME NEW d \in Cycle, NEW t \in Target, <<d, t>> \in pending'
               PROVE  /\ d = c /\ t = current[c]
                      /\ pc[c] = "send" /\ pc'[c] = "broken" /\ order' = order
    BY DEF TypeOK
  <2>1. d = c
    BY <1>3 DEF Aside
  <2> QED
    BY <1>3, <2>1 DEF Effect
<1>5. pending' # {} => Busy' = {}
  BY <1>3, <1>4 DEF Busy
<1>6. ASSUME NEW p \in pending', NEW d \in Cycle \ {p[1]}, order'[d][p[2]] = "active"
      PROVE  "broker" \in doubt'
  <2>1. /\ p[1] = c /\ p[2] = current[c] /\ pc[c] = "send" /\ order' = order
    BY <1>4, <1>6
  <2> QED
    BY <1>1, <1>6, <2>1, OnlyFallbackGetsThrough
<1> QED
  BY <1>3, <1>4, <1>5, <1>6

\* What RepeatTakesTwoFailures says of two orders on a target.
Explained(a, b, t) ==
  \/ "overlap" \in doubt
  \/ "broker" \in doubt /\ ("database" \in doubt \/ ~({<<a, t>>, <<b, t>>} \subseteq recent))

\* A pair of open orders of which the stepping cycle has one is explained after the step.
LEMMA CycleStepExplained ==
  ASSUME TypeOK, NEW c \in Cycle, RecordIInv(c), BarrierIInv(c), RepeatTakesTwoFailures,
         Aside(c), Effect(c), NEW d \in Cycle, d # c, NEW t \in Target,
         order'[c][t] = "active", order'[d][t] = "active"
  PROVE  Explained(c, d, t)'
<1> SUFFICES ASSUME "overlap" \notin doubt'
             PROVE  /\ "broker" \in doubt'
                    /\ "database" \in doubt' \/ <<c, t>> \notin recent' \/ <<d, t>> \notin recent'
  BY DEF Explained
<1>1. "overlap" \notin doubt /\ doubt \subseteq doubt' /\ order[d][t] = "active"
  BY DEF Effect, Aside
<1>2. CASE order[c][t] = "active"
  <2>1. /\ "broker" \in doubt
        /\ "database" \in doubt \/ <<c, t>> \notin recent \/ <<d, t>> \notin recent
    BY <1>1, <1>2 DEF RepeatTakesTwoFailures
  <2>2. CASE <<c, t>> \in recent' /\ <<c, t>> \notin recent /\ <<d, t>> \in recent'
    <3>1. pc[c] = "save" /\ t = current[c]
      BY <2>2 DEF Effect
    <3>2. DecidedRecently(current[c])
      BY <2>2, <3>1 DEF Aside, DecidedRecently
    <3> QED
      BY <1>1, <2>1, <3>1, <3>2 DEF BarrierIInv
  <2> QED
    BY <1>1, <2>1, <2>2 DEF Aside
<1>3. CASE order[c][t] # "active"
  <2>1. pc[c] = "send" /\ t = current[c]
    BY <1>3 DEF Effect
  <2>2. "broker" \in doubt
    BY <1>1, <2>1, OnlyFallbackGetsThrough
  <2>3. <<c, t>> \notin recent'
    BY <2>1 DEF Effect, RecordIInv
  <2> QED
    BY <1>1, <2>2, <2>3
<1> QED
  BY <1>2, <1>3

\* And so is every other pair.
LEMMA CycleStepKeepsRepeat ==
  ASSUME TypeOK, NEW c \in Cycle, RecordIInv(c), BarrierIInv(c), RepeatTakesTwoFailures,
         Aside(c), Effect(c)
  PROVE  RepeatTakesTwoFailures'
<1> SUFFICES ASSUME NEW t \in Target, NEW a \in Cycle, NEW b \in Cycle, a # b,
                    order'[a][t] = "active", order'[b][t] = "active"
             PROVE  Explained(a, b, t)'
  BY DEF RepeatTakesTwoFailures, Explained
<1>1. CASE a = c
  BY <1>1, CycleStepExplained
<1>2. CASE b = c
  BY <1>2, CycleStepExplained DEF Explained
<1>3. CASE a # c /\ b # c
  <2>1. /\ doubt \subseteq doubt' /\ order[a][t] = "active" /\ order[b][t] = "active"
        /\ <<a, t>> \in recent' <=> <<a, t>> \in recent
        /\ <<b, t>> \in recent' <=> <<b, t>> \in recent
    BY <1>3 DEF Aside, Effect
  <2>2. Explained(a, b, t)
    BY <2>1 DEF RepeatTakesTwoFailures, Explained
  <2> QED
    BY <2>1, <2>2 DEF Explained
<1> QED
  BY <1>1, <1>2, <1>3

\* A late order may open a second order, but only one that is explained.
LEMMA SurroundingsKeepRepeat ==
  ASSUME RepeatIInv, TypeOK', NEW c \in Cycle, NEW t \in Target,
         LateOrder(c, t) \/ OrderEnds(c, t) \/ HourPasses(c, t)
  PROVE  /\ \A d \in Cycle : BarrierIInv(d)'
         /\ OneAtATime' /\ RepeatTakesTwoFailures'
<1> USE DEF RepeatIInv
<1>1. UNCHANGED <<pc, todo, current, count, view, check, decision, doubt>> /\ Busy' = Busy
      /\ pending' \subseteq pending /\ recent' \subseteq recent
  BY DEF LateOrder, OrderEnds, HourPasses, Busy
<1>2. CASE \A d \in Cycle, u \in Target : order'[d][u] = "active" => order[d][u] = "active"
  <2>1. ASSUME NEW d \in Cycle PROVE BarrierIInv(d)'
    BY <1>1, <1>2 DEF BarrierIInv, DecidedRecently
  <2>2. OneAtATime'
    <3>1. \A p \in pending : p[2] \in Target
      BY DEF TypeOK
    <3> QED
      BY <1>1, <1>2, <3>1 DEF OneAtATime
  <2>3. RepeatTakesTwoFailures'
    BY <1>1, <1>2 DEF RepeatTakesTwoFailures
  <2> QED
    BY <2>1, <2>2, <2>3
<1>3. CASE LateOrder(c, t)
  <2>1. /\ <<c, t>> \in pending /\ pending' = pending \ {<<c, t>>}
        /\ recent' = recent
    BY <1>3 DEF LateOrder
  <2>2. \A d \in Cycle, u \in Target :
          order'[d][u] = "active" => order[d][u] = "active" \/ (d = c /\ u = t)
    BY <1>3, OrderWrite DEF LateOrder, CellSet
  <2>3. "overlap" \notin doubt => Busy = {} /\ pending' = {}
    BY <2>1 DEF OneAtATime
  <2>4. ASSUME NEW d \in Cycle PROVE BarrierIInv(d)'
    <3>1. CASE "overlap" \in doubt
      BY <1>1, <3>1 DEF BarrierIInv
    <3>2. CASE d \notin Busy
      BY <1>1, <3>2 DEF BarrierIInv, Busy
    <3> QED
      BY <2>3, <3>1, <3>2
  <2>5. OneAtATime'
    BY <1>1, <2>3 DEF OneAtATime
  <2>6. RepeatTakesTwoFailures'
    <3> SUFFICES ASSUME NEW u \in Target, NEW a \in Cycle, NEW b \in Cycle, a # b,
                        order'[a][u] = "active", order'[b][u] = "active",
                        "overlap" \notin doubt
                 PROVE  /\ "broker" \in doubt
                        /\ "database" \in doubt \/ ~({<<a, u>>, <<b, u>>} \subseteq recent)
      BY <1>1, <2>1 DEF RepeatTakesTwoFailures
    <3>1. <<c, t>> \notin recent
      BY <2>1 DEF RecordIInv
    <3>2. \A d \in Cycle \ {c} : order[d][t] = "active" => "broker" \in doubt
      BY <2>1 DEF OneAtATime
    <3>3. CASE order[a][u] = "active" /\ order[b][u] = "active"
      BY <3>3 DEF RepeatTakesTwoFailures
    <3>4. CASE ~(order[a][u] = "active" /\ order[b][u] = "active")
      <4>1. u = t /\ (a = c \/ b = c)
        BY <2>2, <3>4
      <4>2. "broker" \in doubt
        BY <2>2, <3>2, <4>1
      <4> QED
        BY <3>1, <4>1, <4>2
    <3> QED
      BY <3>3, <3>4
  <2> QED
    BY <2>4, <2>5, <2>6
<1>4. CASE OrderEnds(c, t) \/ HourPasses(c, t)
  <2>1. \A d \in Cycle, u \in Target : order'[d][u] = "active" => order[d][u] = "active"
    <3>1. CASE OrderEnds(c, t)
      <4> CellSet(order', order, c, t, "done")
        BY <3>1, OrderWrite DEF OrderEnds
      <4> QED
        BY DEF CellSet
    <3>2. CASE HourPasses(c, t)
      BY <3>2 DEF HourPasses
    <3> QED
      BY <1>4, <3>1, <3>2
  <2> QED
    BY <1>2, <2>1
<1> QED
  BY <1>3, <1>4

\* The barriers and the records together are inductive.
LEMMA RepeatInvariant == Spec => []RepeatIInv
<1>1. Init => RepeatIInv
  <2> SUFFICES ASSUME Init PROVE RepeatIInv
    OBVIOUS
  <2>1. TypeOK
    BY InitTypes
  <2>2. \A c \in Cycle : RecordIInv(c)
    BY TargetAssumption DEF Init, RecordIInv, Unrecorded
  <2>3. \A c \in Cycle : BarrierIInv(c)
    BY DEF Init, BarrierIInv
  <2>4. OneAtATime /\ RepeatTakesTwoFailures
    BY DEF Init, OneAtATime, Busy, RepeatTakesTwoFailures
  <2> QED
    BY <2>1, <2>2, <2>3, <2>4 DEF RepeatIInv
<1>2. RepeatIInv /\ [Next]_vars => RepeatIInv'
  <2> SUFFICES ASSUME RepeatIInv, [Next]_vars PROVE RepeatIInv'
    OBVIOUS
  <2>1. TypeOK'
    BY StepTypes DEF RepeatIInv
  <2>2. CASE UNCHANGED vars
    <3>1. (\A c \in Cycle : RecordIInv(c))'
      BY <2>2 DEF vars, RepeatIInv, RecordIInv, Unrecorded
    <3>2. (\A c \in Cycle : BarrierIInv(c))'
      BY <2>2 DEF vars, RepeatIInv, BarrierIInv, DecidedRecently
    <3>3. OneAtATime' /\ RepeatTakesTwoFailures'
      BY <2>2 DEF vars, RepeatIInv, OneAtATime, Busy, RepeatTakesTwoFailures
    <3> QED
      BY <2>1, <3>1, <3>2, <3>3 DEF RepeatIInv
  <2>3. ASSUME NEW c \in Cycle, CycleStep(c) PROVE RepeatIInv'
    <3>1. Aside(c) /\ Effect(c)
      BY <2>3, CycleStepAside, CycleStepEffect DEF RepeatIInv
    <3>2. (\A d \in Cycle : RecordIInv(d))'
      BY <2>3, <3>1, CycleStepKeepsRecord, AsideKeepsRecord DEF RepeatIInv
    <3>3. (\A d \in Cycle : BarrierIInv(d))'
      BY <2>3, <3>1, CycleStepKeepsOwnBarrier, CycleStepKeepsOthersBarrier DEF RepeatIInv
    <3>4. OneAtATime'
      BY <2>1, <3>1, CycleStepKeepsOneAtATime DEF RepeatIInv
    <3>5. RepeatTakesTwoFailures'
      BY <3>1, CycleStepKeepsRepeat DEF RepeatIInv
    <3> QED
      BY <2>1, <3>2, <3>3, <3>4, <3>5 DEF RepeatIInv
  <2>4. CASE Surroundings
    BY <2>1, <2>4, SurroundingsKeepRecord, SurroundingsKeepRepeat DEF RepeatIInv, Surroundings
  <2> QED
    BY <2>2, <2>3, <2>4 DEF Next
<1> QED
  BY <1>1, <1>2, PTL DEF Spec

\* Two open orders on one symbol and side take cycles that overlap, or an order list that
\* fell back to empty together with a second failure.
THEOREM RepeatsExplained == Spec => []RepeatTakesTwoFailures
<1>1. RepeatIInv => RepeatTakesTwoFailures
  BY DEF RepeatIInv
<1> QED
  BY <1>1, RepeatInvariant, PTL

-----------------------------------------------------------------------------
(* The daily limit.                                                        *)

\* The orders of the US open job that its guardrail counts.
Counted == {p \in Guarded \X Target : decision[p[1]][p[2]] = "executed"}

\* The guardrail's count is the number of the counted orders.
LEMMA CountedType == Counted \in SUBSET (Cycle \X Target) /\ SubmittedToday = Cardinality(Counted)
BY GuardedAssumption DEF Counted, SubmittedToday

\* A decision row is written for one target of the cycle, and counts if it says executed.
LEMMA SaveCounts ==
  ASSUME Records, NEW c \in Cycle, SaveDecision(c)
  PROVE  \/ decision' = decision /\ Leave(c, "broken")
         \/ /\ SubmittedToday' = IF c \in Guarded /\ ExecutionStatus(c, current[c]) = "executed"
                                   THEN SubmittedToday + 1 ELSE SubmittedToday
            /\ \/ Leave(c, "broken")
               \/ pc' = [pc EXCEPT ![c] = "loop"]
                  /\ count' = [count EXCEPT ![c] = IF ExecutionStatus(c, current[c]) = "executed"
                                                     THEN @ + 1 ELSE @]
<1> TypeOK /\ RecordIInv(c)
  BY DEF Records
<1> PICK outcome \in {"executed", "failed"} : outcome = ExecutionStatus(c, current[c])
  BY DEF ExecutionStatus
<1>1. pc[c] = "save" /\ current[c] \in Target
  BY TargetAssumption DEF SaveDecision, TypeOK
<1>2. CASE decision' = [decision EXCEPT ![c][current[c]] = outcome]
  <2> PICK t \in Target : t = current[c]
    BY <1>1
  <2>1. /\ decision'[c][t] = outcome /\ decision[c][t] = "none"
        /\ \A u \in Target \ {t} : decision'[c][u] = decision[c][u]
        /\ \A d \in Cycle \ {c} : decision'[d] = decision[d]
    <3>1. decision[c][t] = "none"
      BY DEF RecordIInv
    <3>2. PICK value : value = outcome /\ decision' = [decision EXCEPT ![c][current[c]] = value]
      BY <1>2
    <3> QED
      BY <1>1, <3>1, <3>2 DEF TypeOK
  <2>2. <<c, t>> \notin Counted /\ IsFiniteSet(Counted)
    BY <2>1, CountedType, Counts DEF Counted
  <2>3. CASE c \in Guarded /\ outcome = "executed"
    <3>1. Counted' = Counted \union {<<c, t>>}
      BY GuardedAssumption, <2>1, <2>3 DEF Counted
    <3>2. Cardinality(Counted \union {<<c, t>>}) = Cardinality(Counted) + 1
      BY <2>2, FS_AddElement
    <3>3. SubmittedToday' = SubmittedToday + 1
      BY <3>1, <3>2, CountedType DEF SubmittedToday, Counted
    <3> QED
      BY <2>3, <3>3 DEF SaveDecision
  <2>4. CASE ~(c \in Guarded /\ outcome = "executed")
    <3>1. Counted' = Counted
      BY GuardedAssumption, <2>1, <2>4 DEF Counted
    <3>2. SubmittedToday' = SubmittedToday
      BY <3>1 DEF SubmittedToday, Counted
    <3> QED
      BY <2>4, <3>2 DEF SaveDecision
  <2> QED
    BY <2>3, <2>4
<1>3. CASE ~(decision' = [decision EXCEPT ![c][current[c]] = outcome])
  BY <1>3 DEF SaveDecision
<1> QED
  BY <1>2, <1>3

\* The inductive invariant behind the daily limit.
DayIInv == RepeatIInv /\ LimitIInv

\* A step of a cycle keeps the count equal to the record, and the record within the limit.
LEMMA CycleStepKeepsLimit ==
  ASSUME DayIInv, NEW c \in Cycle, CycleStep(c)
  PROVE  LimitIInv'
<1> DEFINE atWork == {"orders", "loop", "send", "save"}
<1> SUFFICES ASSUME doubt' \subseteq {"broker"}
             PROVE  /\ \A d \in Guarded : /\ pc'[d] \in atWork => count'[d] = SubmittedToday'
                                          /\ pc'[d] \in {"send", "save"} => count'[d] < MaxDaily
                    /\ SubmittedToday' <= MaxDaily
  BY DEF LimitIInv
<1> TypeOK /\ Records /\ OneAtATime
  BY DEF DayIInv, RepeatIInv, Records
<1> Aside(c) /\ Effect(c)
  BY CycleStepAside, CycleStepEffect
<1> SubmittedToday \in Nat /\ MaxDaily \in Nat /\ Guarded \subseteq Cycle
  BY SubmittedTodayType, DailyAssumption, GuardedAssumption
<1>0. /\ doubt \subseteq {"broker"} /\ "overlap" \notin doubt'
      /\ \A d \in Guarded : /\ pc[d] \in atWork => count[d] = SubmittedToday
                            /\ pc[d] \in {"send", "save"} => count[d] < MaxDaily
      /\ SubmittedToday <= MaxDaily
  BY DEF Effect, DayIInv, LimitIInv
<1>1. \A d \in Cycle \ {c} : pc'[d] = pc[d] /\ pc[d] \notin atWork
  <2>1. \A d \in Cycle \ {c} : pc'[d] = pc[d]
    BY DEF Aside
  <2>2. \A d \in Cycle \ {c} : d \notin Busy
    BY <1>0 DEF Effect, OneAtATime
  <2> QED
    BY <2>1, <2>2 DEF Busy
<1>2. ASSUME SubmittedToday' = SubmittedToday,
             c \in Guarded => /\ pc'[c] \in atWork => count'[c] = SubmittedToday
                              /\ pc'[c] \in {"send", "save"} => count'[c] < MaxDaily
      PROVE  /\ \A d \in Guarded : /\ pc'[d] \in atWork => count'[d] = SubmittedToday'
                                   /\ pc'[d] \in {"send", "save"} => count'[d] < MaxDaily
             /\ SubmittedToday' <= MaxDaily
  BY <1>0, <1>1, <1>2
<1>3. ASSUME decision' = decision PROVE SubmittedToday' = SubmittedToday
  BY <1>3 DEF SubmittedToday
<1>4. CASE Begin(c)
  <2>1. decision' = decision /\ pc'[c] = "orders"
    BY <1>0, <1>4 DEF Begin, TypeOK
  <2>2. PICK answered \in BOOLEAN :
          /\ count' = [count EXCEPT ![c] = IF answered THEN SubmittedToday ELSE 0]
          /\ (IF answered THEN {} ELSE {"database"}) \subseteq doubt'
    BY <1>4 DEF Begin
  <2>3. answered
    BY <1>0, <2>2
  <2>4. count'[c] = SubmittedToday
    BY <1>0, <2>2, <2>3 DEF TypeOK
  <2> QED
    BY <1>2, <1>3, <2>1, <2>4
<1>5. CASE LoadOrders(c)
  <2>1. decision' = decision /\ pc[c] = "orders" /\ pc'[c] = "loop" /\ count' = count
    BY <1>5 DEF LoadOrders, TypeOK
  <2> QED
    BY <1>0, <1>2, <1>3, <2>1
<1>6. ASSUME NEW t \in Target, Skip(c, t) PROVE LimitIInv'
  <2>1. decision' = decision /\ pc' = pc /\ count' = count
    BY <1>6 DEF Skip
  <2> QED
    BY <1>0, <1>2, <1>3, <2>1 DEF LimitIInv
<1>7. ASSUME NEW t \in Target, Choose(c, t) PROVE LimitIInv'
  <2>1. /\ decision' = decision /\ pc[c] = "loop" /\ pc'[c] = "send" /\ count' = count
        /\ c \in Guarded => ~(count[c] >= MaxDaily)
    BY <1>7 DEF Choose, LimitReached, TypeOK
  <2> QED
    BY <1>0, <1>2, <1>3, <2>1 DEF LimitIInv
<1>8. CASE Submitted(c) \/ OrderPlaced(c)
  <2>1. decision' = decision /\ pc[c] = "send" /\ pc'[c] \in {"send", "save"} /\ count' = count
    BY <1>8 DEF Submitted, OrderPlaced, TypeOK
  <2> QED
    BY <1>0, <1>2, <1>3, <2>1
<1>9. CASE decision' = decision /\ (Leave(c, "broken") \/ Leave(c, "done"))
  <2>1. pc'[c] \notin atWork
    BY <1>9, LeaveEffect
  <2> QED
    BY <1>2, <1>3, <1>9, <2>1
<1>10. CASE SaveDecision(c)
  <2>1. CASE decision' = decision /\ Leave(c, "broken")
    BY <1>9, <2>1
  <2>2. CASE /\ SubmittedToday' = IF c \in Guarded /\ ExecutionStatus(c, current[c]) = "executed"
                                    THEN SubmittedToday + 1 ELSE SubmittedToday
             /\ \/ Leave(c, "broken")
                \/ pc' = [pc EXCEPT ![c] = "loop"]
                   /\ count' = [count EXCEPT ![c] = IF ExecutionStatus(c, current[c]) = "executed"
                                                      THEN @ + 1 ELSE @]
    <3>1. pc[c] = "save"
      BY <1>10 DEF SaveDecision
    <3>2. SubmittedToday' <= MaxDaily
      BY <1>0, <2>2, <3>1
    <3>3. \/ pc'[c] = "broken"
          \/ pc'[c] = "loop" /\ (c \in Guarded => count'[c] = SubmittedToday')
      <4>1. CASE Leave(c, "broken")
        BY <4>1, LeaveEffect
      <4>2. CASE ~Leave(c, "broken")
        <5>1. pc'[c] = "loop"
          BY <2>2, <4>2 DEF TypeOK
        <5>2. count'[c] = IF ExecutionStatus(c, current[c]) = "executed" THEN count[c] + 1 ELSE count[c]
          BY <2>2, <4>2 DEF TypeOK
        <5> QED
          BY <1>0, <2>2, <3>1, <5>1, <5>2
      <4> QED
        BY <4>1, <4>2
    <3> QED
      BY <1>1, <3>2, <3>3
  <2> QED
    BY <1>10, <2>1, <2>2, SaveCounts
<1> QED
  BY <1>4, <1>5, <1>6, <1>7, <1>8, <1>9, <1>10 DEF CycleStep, SubmitRaises, Finish, Crash, LimitIInv

\* Together with the barriers and the records the limit is inductive.
LEMMA DayInvariant == Spec => []DayIInv
<1>1. Init => LimitIInv
  <2> SUFFICES ASSUME Init PROVE SubmittedToday <= MaxDaily /\ \A c \in Guarded : pc[c] = "idle"
    BY DEF LimitIInv
  <2>1. Counted = {}
    BY GuardedAssumption DEF Init, Counted
  <2>2. SubmittedToday = 0
    BY <2>1, CountedType, FS_EmptySet
  <2> QED
    BY <2>2, GuardedAssumption, DailyAssumption DEF Init
<1>2. DayIInv /\ [Next]_vars => LimitIInv'
  <2> SUFFICES ASSUME DayIInv, [Next]_vars PROVE LimitIInv'
    OBVIOUS
  <2>1. ASSUME UNCHANGED <<pc, count, decision, doubt>> PROVE LimitIInv'
    BY <2>1 DEF DayIInv, LimitIInv, SubmittedToday
  <2>2. ASSUME NEW c \in Cycle, CycleStep(c) PROVE LimitIInv'
    BY <2>2, CycleStepKeepsLimit
  <2> QED
    BY <2>1, <2>2 DEF Next, vars, Surroundings, LateOrder, OrderEnds, HourPasses
<1> QED
  BY <1>1, <1>2, RepeatInvariant, PTL DEF Spec, DayIInv

\* The orders of the US open job that no decision row accounts for: one at most for the
\* cycle at work, and one for each cycle that broke down.
LEMMA Unaccounted ==
  ASSUME RepeatIInv, "overlap" \notin doubt,
         NEW U, U = {p \in Placed : p[1] \in Guarded} \ Counted
  PROVE  LET broken == {c \in Guarded : pc[c] = "broken"}
             saving == {c \in Guarded : pc[c] \in {"send", "save"}}
         IN  /\ IsFiniteSet(U) /\ IsFiniteSet(broken)
             /\ Cardinality(U) <= Cardinality(broken) + (IF saving = {} THEN 0 ELSE 1)
<1> DEFINE broken == {c \in Guarded : pc[c] = "broken"}
           saving == {c \in Guarded : pc[c] \in {"send", "save"}}
<1>1. IsFiniteSet(U)
  <2>1. U \in SUBSET (Cycle \X Target)
    BY DEF Placed
  <2> QED
    BY <2>1, Counts
<1>2. IsFiniteSet(broken) /\ IsFiniteSet(saving) /\ IsFiniteSet(broken \union saving)
  <2>1. broken \in SUBSET Cycle /\ saving \in SUBSET Cycle
    BY GuardedAssumption
  <2> QED
    BY <2>1, GuardedAssumption, FS_Subset, FS_Union
<1>3. \A p \in U : p[1] \in broken \union saving /\ p[2] \in Unrecorded(p[1])
                   /\ p = <<p[1], p[2]>>
  <2> SUFFICES ASSUME NEW c \in Cycle, NEW t \in Target, <<c, t>> \in U
               PROVE  c \in broken \union saving /\ t \in Unrecorded(c)
    BY DEF Placed
  <2>1. c \in Guarded /\ order[c][t] # "none" /\ decision[c][t] # "executed"
    BY DEF Placed, Counted
  <2>2. decision[c][t] = "none"
    BY <2>1 DEF RepeatIInv, RecordIInv, TypeOK
  <2>3. t \in Unrecorded(c)
    BY <2>1, <2>2 DEF Unrecorded
  <2>4. pc[c] \in {"send", "save", "broken"}
    BY <2>3 DEF RepeatIInv, RecordIInv
  <2> QED
    BY <2>1, <2>3, <2>4
<1>4. \A p, q \in U : p[1] = q[1] => p = q
  BY <1>3, GuardedAssumption DEF RepeatIInv, RecordIInv
<1>5. Cardinality(U) <= Cardinality(broken \union saving)
  <2> DEFINE owner == [p \in U |-> p[1]]
  <2>1. owner \in Injection(U, broken \union saving)
    BY <1>3, <1>4 DEF Injection, IsInjective
  <2> QED
    BY <1>2, <2>1, FS_Injection
<1>6. \A c, d \in saving : c = d
  BY GuardedAssumption DEF RepeatIInv, OneAtATime, Busy
<1>7. CASE saving = {}
  <2>1. broken \union saving = broken
    BY <1>7
  <2> QED
    <3>1. Cardinality(U) <= Cardinality(broken)
      BY <1>5, <2>1
    <3>2. Cardinality(broken) \in Nat
      BY <1>2, FS_CardinalityType
    <3> QED
      BY <1>1, <1>2, <1>7, <3>1, <3>2
<1>8. CASE saving # {}
  <2> PICK c \in saving : saving = {c}
    BY <1>6, <1>8
  <2>1. c \notin broken /\ broken \union saving = broken \union {c}
    OBVIOUS
  <2>2. Cardinality(broken \union {c}) = Cardinality(broken) + 1
    BY <1>2, <2>1, FS_AddElement
  <2> QED
    <3>1. Cardinality(U) <= Cardinality(broken) + 1
      BY <1>5, <2>1, <2>2
    <3> QED
      BY <1>1, <1>2, <1>8, <3>1
<1> QED
  BY <1>7, <1>8

\* If cycles do not overlap and the database answered, the US open job places no more
\* orders in a day than its limit and one for each of its cycles that broke down.
THEOREM LimitKept == Spec => []DailyLimitKept
<1>1. DayIInv => DailyLimitKept
  <2> SUFFICES ASSUME DayIInv, doubt \subseteq {"broker"}
               PROVE  Cardinality({p \in Placed : p[1] \in Guarded})
                        <= MaxDaily + Cardinality({c \in Guarded : pc[c] = "broken"})
    BY DEF DailyLimitKept
  <2> DEFINE P == {p \in Placed : p[1] \in Guarded}
             U == P \ Counted
             broken == {c \in Guarded : pc[c] = "broken"}
             saving == {c \in Guarded : pc[c] \in {"send", "save"}}
  <2>1. RepeatIInv /\ "overlap" \notin doubt
    BY DEF DayIInv
  <2>2. /\ IsFiniteSet(U) /\ IsFiniteSet(broken)
        /\ Cardinality(U) <= Cardinality(broken) + (IF saving = {} THEN 0 ELSE 1)
    BY <2>1, Unaccounted
  <2>3. IsFiniteSet(P) /\ IsFiniteSet(P \intersect Counted) /\ IsFiniteSet(Counted)
    <3>1. P \in SUBSET (Cycle \X Target) /\ P \intersect Counted \in SUBSET (Cycle \X Target)
      BY DEF Placed
    <3> QED
      BY <3>1, CountedType, Counts
  <2>4. Cardinality(U) = Cardinality(P) - Cardinality(P \intersect Counted)
    BY <2>3, FS_Difference
  <2>5. Cardinality(P \intersect Counted) <= SubmittedToday
    BY <2>3, CountedType, FS_Intersection
  <2>6. /\ SubmittedToday <= MaxDaily
        /\ saving # {} => SubmittedToday < MaxDaily
    BY DEF DayIInv, LimitIInv
  <2>7. /\ Cardinality(P) \in Nat /\ Cardinality(U) \in Nat /\ Cardinality(broken) \in Nat
        /\ Cardinality(P \intersect Counted) \in Nat /\ SubmittedToday \in Nat /\ MaxDaily \in Nat
    BY <2>2, <2>3, FS_CardinalityType, SubmittedTodayType, DailyAssumption
  <2> HIDE DEF P, U, broken, saving
  <2>8. Cardinality(P) <= MaxDaily + Cardinality(broken)
    BY <2>2, <2>4, <2>5, <2>6, <2>7
  <2> QED
    BY <2>8 DEF P, broken
<1> QED
  BY <1>1, DayInvariant, PTL

-----------------------------------------------------------------------------
(* With the trade service.                                                 *)

\* What the trade service asks of its constants.
LEMMA SentAssumptions ==
  ASSUME PipelineAssumption
  PROVE  /\ Trade!IsFiniteSet(Sent) /\ Sent \intersect Cancel = {}
         /\ OnLive \subseteq Sent /\ PositionLimit \in Nat
<1>1. IsFiniteSet(Sent)
  BY GuardedAssumption, TargetAssumption, FS_Product DEF Sent
<1>2. Trade!IsFiniteSet(Sent)
  BY <1>1 DEF IsFiniteSet, Trade!IsFiniteSet
<1> QED
  BY <1>2 DEF PipelineAssumption

\* The trade service behaves behind the quant path as TradePipeline says: what is proved
\* of sagas, outbox and inbox holds there.
THEOREM QuantPipelineKeepsTrade ==
  ASSUME PipelineAssumption PROVE PipelineSpec => Trade!PipelineSpec
<1>1. PipelineInit => Trade!PipelineInit
  BY DEF PipelineInit
<1>2. [PipelineNext]_<<vars, tradeVars>> => [Trade!PipelineNext]_(Trade!pipelineVars)
  <2> SUFFICES ASSUME [PipelineNext]_<<vars, tradeVars>>
               PROVE  Trade!PipelineNext \/ UNCHANGED Trade!pipelineVars
    OBVIOUS
  <2>1. ASSUME UNCHANGED tradeVars PROVE UNCHANGED Trade!pipelineVars
    BY <2>1 DEF tradeVars, Trade!pipelineVars, Trade!vars, Trade!outbox
  <2> QED
    BY <2>1 DEF PipelineNext, ServiceStep, DeskStep, Answered, Raised
<1> QED
  BY <1>1, <1>2, PTL DEF PipelineSpec, Trade!PipelineSpec

\* What the trade service knows at any time.
LEMMA TradeInvariants ==
  ASSUME PipelineAssumption
  PROVE  PipelineSpec => [](Trade!StoryIInv /\ Trade!PipelineIInv)
<1>1. (Trade!PipelineSpec => []Trade!StoryIInv) /\ (Trade!PipelineSpec => []Trade!PipelineIInv)
  BY SentAssumptions, Trade!PipelineStory, Trade!PipelineInvariant
<1> QED
  BY <1>1, QuantPipelineKeepsTrade, PTL

\* The brokers' orders and the handlers' stages have their types.
LEMMA TradeTypes ==
  ASSUME Trade!StoryIInv
  PROVE  /\ brokerOrder \in [Sent -> {"none"} \union Trade!LiveStatus]
         /\ stage \in [Sent \union Cancel -> Trade!PcLabel]
BY DEF Trade!StoryIInv, Trade!SagaIInv, Trade!TypeOK, Trade!LiveStatus, Trade!Ended, Trade!Request

\* What a step of the trade service does to the handlers and to the broker's orders.
ServiceAdvances ==
  \/ UNCHANGED <<stage, brokerOrder>>
  \/ \E r \in Sent \union Cancel :
       /\ Trade!Advances(r)
       /\ \/ brokerOrder' = brokerOrder
          \/ Trade!Places(r)
          \/ /\ stage'[r] = stage[r] \/ stage[r] \notin Trade!Early
             /\ \E s \in Sent : Trade!OrderChanges(s)

LEMMA ServiceStepAdvances ==
  ASSUME PipelineAssumption, Trade!StoryIInv, ServiceStep
  PROVE  ServiceAdvances
<1>1. Trade!SagaIInv
  BY DEF Trade!StoryIInv
<1>2. [Trade!Next]_(Trade!vars)
  BY DEF ServiceStep, Trade!PipelineNext, Trade!HandlerStep, Trade!RelayStep, Trade!ConsumeLoop
<1> QED
  BY <1>1, <1>2, SentAssumptions, Trade!StepAdvances DEF ServiceAdvances, Trade!Request

\* A handler on its way to the broker was asked before the step, and one that goes on
\* from there is asked still.
LEMMA HandlersWereAsked ==
  ASSUME LinkIInv, ServiceStep, ServiceAdvances, NEW s \in Sent,
         UnderWay(s)', stage'[s] # "idle"
  PROVE  UnderWay(s) /\ Asked(s)
<1>1. s \in Sent \union Cancel
  OBVIOUS
<1>2. stage[s] \in Trade!Early
  BY <1>1 DEF ServiceAdvances, UnderWay, Trade!Advances, Trade!Request
<1> QED
  BY <1>2 DEF ServiceStep, LinkIInv, UnderWay

\* A cycle sees of the broker's orders what _standard_order_status makes of them.
LEMMA ShownOrder ==
  ASSUME Trade!StoryIInv, NEW c \in Cycle, NEW t \in Target
  PROVE  /\ Shown[c][t] = Seen(brokerOrder[<<c, t>>])
         /\ Seen(brokerOrder[<<c, t>>]) = "none" <=> brokerOrder[<<c, t>>] = "none"
<1>1. Shown[c][t] = Seen(brokerOrder[<<c, t>>])
  BY DEF Shown
<1>2. brokerOrder[<<c, t>>] \in {"none"} \union Trade!LiveStatus
  BY TradeTypes DEF Sent
<1> QED
  BY <1>1, <1>2 DEF Seen, Trade!LiveStatus, Trade!Ended

\* What becomes of one order at the broker, a cycle sees in one cell.
LEMMA ShownWrite ==
  ASSUME order = Shown, order' = Shown', NEW c \in Cycle, NEW t \in Target,
         \A s \in Sent \ {<<c, t>>} : brokerOrder'[s] = brokerOrder[s]
  PROVE  order' = [order EXCEPT ![c][t] = Seen(brokerOrder'[<<c, t>>])]
<1> DEFINE row(d)  == [u \in Target |-> Seen(brokerOrder[<<d, u>>])]
           newRow(d) == [u \in Target |-> Seen(brokerOrder'[<<d, u>>])]
<1>1. order = [d \in Cycle |-> row(d)] /\ order' = [d \in Cycle |-> newRow(d)]
  BY DEF Shown
<1>2. \A d \in Cycle, u \in Target : <<d, u>> # <<c, t>> =>
        Seen(brokerOrder'[<<d, u>>]) = Seen(brokerOrder[<<d, u>>])
  BY DEF Sent
<1>3. ASSUME NEW d \in Cycle \ {c} PROVE newRow(d) = row(d)
  BY <1>2
<1>4. newRow(c) = [row(c) EXCEPT ![t] = Seen(brokerOrder'[<<c, t>>])]
  BY <1>2
<1> HIDE DEF row, newRow
<1>5. order[c] = row(c)
  BY <1>1
<1>6. [order EXCEPT ![c][t] = Seen(brokerOrder'[<<c, t>>])] = [order EXCEPT ![c] = newRow(c)]
  BY <1>4, <1>5
<1>7. [d \in Cycle |-> newRow(d)] = [[d \in Cycle |-> row(d)] EXCEPT ![c] = newRow(c)]
  BY <1>3
<1> QED
  BY <1>1, <1>6, <1>7

\* A step of the trade service is one of the surroundings of the cycles or the placing of
\* an order that a cycle waits for: it does nothing that QuantAutoTrade leaves out.
LEMMA ServiceStepMaps ==
  ASSUME PipelineAssumption, Records, LinkIInv, Trade!StoryIInv, ServiceStep
  PROVE  [Next]_vars
<1>0. ServiceAdvances
  BY ServiceStepAdvances
<1>1. /\ order = Shown /\ order' = Shown' /\ UNCHANGED deskVars
      /\ pending' = {s \in pending : UnderWay(s)'}
      /\ pending \subseteq Sent /\ \A s \in pending : UnderWay(s)
  BY DEF ServiceStep, LinkIInv, Records, TypeOK, Sent
<1>2. ASSUME brokerOrder' = brokerOrder PROVE order' = order
  BY <1>1, <1>2 DEF Shown
<1>3. ASSUME NEW r \in Sent \union Cancel, \A q \in (Sent \union Cancel) \ {r} : stage'[q] = stage[q]
      PROVE  pending' = pending \/ (r \in pending /\ pending' = pending \ {r})
  BY <1>1, <1>3 DEF UnderWay
<1>4. CASE UNCHANGED <<stage, brokerOrder>>
  <2>1. order' = order /\ pending' = pending
    BY <1>1, <1>2, <1>4 DEF UnderWay
  <2> QED
    BY <1>1, <2>1 DEF vars, deskVars
<1>5. ASSUME NEW r \in Sent \union Cancel, Trade!Advances(r),
             \/ brokerOrder' = brokerOrder
             \/ Trade!Places(r)
             \/ /\ stage'[r] = stage[r] \/ stage[r] \notin Trade!Early
                /\ \E s \in Sent : Trade!OrderChanges(s)
      PROVE  [Next]_vars
  <2>1. pending' = pending \/ (r \in pending /\ pending' = pending \ {r})
    BY <1>3, <1>5 DEF Trade!Advances, Trade!Request
  <2>2. CASE brokerOrder' = brokerOrder
    <3>1. order' = order
      BY <1>2, <2>2
    <3>2. CASE pending' = pending
      BY <1>1, <3>1, <3>2 DEF vars, deskVars
    <3>3. CASE r \in pending /\ pending' = pending \ {r}
      <4> PICK c \in Cycle, t \in Target : r = <<c, t>>
        BY <1>1, <3>3 DEF Sent
      <4> QED
        BY <1>1, <3>1, <3>3 DEF LateOrder, Next, Surroundings, deskVars
    <3> QED
      BY <2>1, <3>2, <3>3
  <2>3. CASE Trade!Places(r)
    <3> PICK c \in Cycle, t \in Target : r = <<c, t>>
      BY <2>3 DEF Trade!Places, Sent
    <3>1. r \in Sent /\ stage[r] = "place" /\ stage'[r] \notin Trade!Early
          /\ brokerOrder[r] = "none" /\ brokerOrder' = [brokerOrder EXCEPT ![r] = "new"]
      BY <2>3 DEF Trade!Places
    <3>2. order' = [order EXCEPT ![c][t] = "active"] /\ order[c][t] = "none"
      <4>1. order[c][t] = "none"
        BY <1>1, <3>1, ShownOrder
      <4>2. brokerOrder'[r] = "new" /\ \A s \in Sent \ {r} : brokerOrder'[s] = brokerOrder[s]
        BY <3>1, TradeTypes
      <4> QED
        BY <1>1, <4>1, <4>2, ShownWrite DEF Seen
    <3>3. Asked(r)
      BY <3>1 DEF LinkIInv, UnderWay, Trade!Early
    <3>4. CASE r \in pending
      <4>1. pending' = pending \ {r}
        BY <1>1, <2>1, <3>1, <3>4 DEF UnderWay
      <4> QED
        BY <1>1, <3>2, <3>4, <4>1 DEF LateOrder, Next, Surroundings, deskVars
    <3>5. CASE r \notin pending
      <4>1. pc[c] = "send" /\ current[c] = t /\ pending' = pending
        BY <2>1, <3>3, <3>5 DEF Asked
      <4> QED
        BY <1>1, <3>2, <4>1 DEF OrderPlaced, Next, CycleStep, deskVars
    <3> QED
      BY <3>4, <3>5
  <2>4. ASSUME stage'[r] = stage[r] \/ stage[r] \notin Trade!Early,
               NEW s \in Sent, Trade!OrderChanges(s)
        PROVE  [Next]_vars
    <3>1. pending' = pending
      BY <1>1, <2>1, <2>4 DEF UnderWay
    <3> PICK c \in Cycle, t \in Target : s = <<c, t>>
      BY DEF Sent
    <3>2. order[c][t] = "active" /\ (order' = order \/ order' = [order EXCEPT ![c][t] = "done"])
      <4>1. /\ brokerOrder[s] \in {"new", "pendingcancel"}
            /\ brokerOrder'[s] \in {"pendingcancel"} \union Trade!Ended
            /\ \A e \in Sent \ {s} : brokerOrder'[e] = brokerOrder[e]
        BY <2>4 DEF Trade!OrderChanges
      <4>2. order[c][t] = "active"
        BY <1>1, <4>1, ShownOrder DEF Seen
      <4>3. order' = [order EXCEPT ![c][t] = Seen(brokerOrder'[s])]
        BY <1>1, <4>1, ShownWrite
      <4>4. Seen(brokerOrder'[s]) \in {"active", "done"}
        BY <4>1 DEF Seen, Trade!Ended
      <4>5. [order EXCEPT ![c][t] = "active"] = order
        BY <1>1, <4>2 DEF Records, TypeOK
      <4> QED
        BY <4>2, <4>3, <4>4, <4>5
    <3> QED
      BY <1>1, <3>1, <3>2 DEF OrderEnds, Next, Surroundings, vars, deskVars
  <2> QED
    BY <1>5, <2>2, <2>3, <2>4
<1> QED
  BY <1>0, <1>4, <1>5 DEF ServiceAdvances

\* A step of the whole is a step of the quant path, or none.
LEMMA PipelineStepMaps ==
  ASSUME PipelineAssumption, Records, LinkIInv, Trade!StoryIInv, [PipelineNext]_<<vars, tradeVars>>
  PROVE  [Next]_vars
<1>1. CASE DeskStep
  BY <1>1 DEF DeskStep, Next, CycleStep, Surroundings
<1>2. ASSUME NEW c \in Cycle, Answered(c) \/ Raised(c) PROVE [Next]_vars
  BY <1>2 DEF Answered, Raised, Next, CycleStep
<1>3. CASE UNCHANGED <<vars, tradeVars>>
  BY <1>3
<1> QED
  BY <1>1, <1>2, <1>3, ServiceStepMaps DEF PipelineNext

\* A request that a cycle waits for or has left under way has no decision row.
LEMMA AskedIsUndecided ==
  ASSUME Records, NEW c \in Cycle, NEW t \in Target, Asked(<<c, t>>)
  PROVE  decision[c][t] = "none" /\ pc[c] \in {"send", "broken"}
BY DEF Records, RecordIInv, Asked

\* The links hold at the start, ...
LEMMA LinkInit == PipelineInit => LinkIInv
<1> SUFFICES ASSUME PipelineInit PROVE LinkIInv
  OBVIOUS
<1>1. /\ brokerOrder = [s \in Sent |-> "none"] /\ pending = {}
      /\ \A s \in Sent : stage[s] = "idle"
      /\ order = [c \in Cycle |-> [t \in Target |-> "none"]]
      /\ pc = [c \in Cycle |-> "idle"]
      /\ decision = [c \in Cycle |-> [t \in Target |-> "none"]]
  BY DEF PipelineInit, Init, Trade!PipelineInit, Trade!Init, Trade!Request
<1>2. \A c \in Cycle, t \in Target : Seen(brokerOrder[<<c, t>>]) = "none"
  BY <1>1 DEF Sent, Seen
<1>3. order = Shown
  BY <1>1, <1>2 DEF Shown
<1> QED
  BY <1>1, <1>3 DEF LinkIInv, Sent

\* ... in the steps of the trade service, ...
LEMMA ServiceStepKeepsLink ==
  ASSUME PipelineAssumption, Records, LinkIInv, Trade!StoryIInv, ServiceStep
  PROVE  LinkIInv'
<1>0. ServiceAdvances
  BY ServiceStepAdvances
<1>1. /\ order' = Shown' /\ UNCHANGED deskVars /\ pending' = {s \in pending : UnderWay(s)'}
      /\ \A s \in Sent : stage[s] = "idle" /\ stage'[s] # "idle" => Asked(s)
  BY DEF ServiceStep
<1>2. ASSUME NEW s \in Sent, UnderWay(s)', stage'[s] # "idle" PROVE Asked(s)'
  <2>1. Asked(s)
    BY <1>0, <1>2, HandlersWereAsked
  <2> QED
    BY <1>1, <1>2, <2>1 DEF Asked, deskVars
<1>3. ASSUME NEW s \in Sent, stage[s] \in {"ok", "idle"}, ~Asked(s) PROVE stage'[s] = stage[s]
  <2>1. s \in Sent \union Cancel
    OBVIOUS
  <2> QED
    BY <1>0, <1>1, <1>3, <2>1
    DEF ServiceAdvances, Trade!Advances, Trade!Request, Trade!Stopped, Trade!Answer
<1>4. ASSUME NEW c \in Cycle, pc'[c] = "save" PROVE stage'[<<c, current'[c]>>] \in {"ok", "idle"}
  <2>1. pc[c] = "save" /\ current'[c] = current[c]
    BY <1>1, <1>4 DEF deskVars
  <2>2. <<c, current[c]>> \in Sent
    BY <2>1 DEF Records, TypeOK, Sent
  <2>3. ~Asked(<<c, current[c]>>)
    BY <2>1, <2>2, AskedIsUndecided DEF Sent
  <2> QED
    BY <1>3, <2>1, <2>2, <2>3 DEF LinkIInv
<1>5. ASSUME NEW s \in Sent, decision'[s[1]][s[2]] # "none"
      PROVE  /\ decision'[s[1]][s[2]] = "executed" => stage'[s] = "ok"
             /\ decision'[s[1]][s[2]] = "failed" => stage'[s] = "idle"
  <2>1. decision' = decision
    BY <1>1 DEF deskVars
  <2>2. ~Asked(s)
    BY <1>5, <2>1, AskedIsUndecided DEF Sent
  <2> QED
    BY <1>3, <2>1, <2>2 DEF LinkIInv
<1> QED
  BY <1>1, <1>2, <1>4, <1>5 DEF LinkIInv

\* Where a handler has begun or answered, its stage tells whether there is an order.
LEMMA StageTellsOrder ==
  ASSUME Trade!StoryIInv, NEW s \in Sent
  PROVE  /\ stage[s] = "ok" => brokerOrder[s] # "none" /\ saga[s].status = "completed"
         /\ stage[s] = "idle" => brokerOrder[s] = "none" /\ saga[s] = Trade!NoSaga
<1>1. Trade!SubmitIInv(s) /\ Trade!SubmitStory(s)
  BY DEF Trade!StoryIInv, Trade!SagaIInv
<1> QED
  BY <1>1 DEF Trade!SubmitIInv, Trade!SubmitStory, Trade!PlacedStage, Trade!EarlyStage, Trade!Early,
              Trade!Posted

\* ... in those of the cycles, ...
LEMMA DeskStepKeepsLink ==
  ASSUME Records, LinkIInv, Trade!StoryIInv, DeskStep
  PROVE  LinkIInv'
<1> TypeOK
  BY DEF Records
<1>1. UNCHANGED <<stage, brokerOrder, order, pending>>
  BY DEF DeskStep, tradeVars, Begin, LoadOrders, SaveDecision, Finish, Crash, Skip, Choose, HourPasses
<1>2. /\ Shown' = Shown /\ \A s \in Sent : UnderWay(s)' <=> UnderWay(s)
      /\ pending \subseteq Sent
  BY <1>1 DEF Shown, UnderWay, TypeOK, Sent
<1>3. ASSUME NEW c \in Cycle, CycleStep(c), pc[c] # "send", pc'[c] # "save",
             decision' = decision \/ SaveDecision(c)
      PROVE  LinkIInv'
  <2>1. \A d \in Cycle \ {c} : pc'[d] = pc[d] /\ current'[d] = current[d] /\ decision'[d] = decision[d]
    BY <1>3, CycleStepAside DEF Aside
  <2>2. ASSUME NEW s \in Sent, UnderWay(s), stage[s] # "idle" PROVE Asked(s)'
    BY <1>1, <1>3, <2>1, <2>2 DEF LinkIInv, Asked, Sent
  <2>3. ASSUME NEW d \in Cycle, pc'[d] = "save" PROVE stage[<<d, current'[d]>>] \in {"ok", "idle"}
    BY <1>3, <2>1, <2>3 DEF LinkIInv
  <2>4. ASSUME NEW d \in Cycle, NEW t \in Target
        PROVE  /\ decision'[d][t] = "executed" => stage[<<d, t>>] = "ok"
               /\ decision'[d][t] = "failed" => stage[<<d, t>>] = "idle"
    <3>1. CASE decision'[d][t] = decision[d][t]
      BY <3>1 DEF LinkIInv, Sent
    <3>2. CASE decision'[d][t] # decision[d][t]
      <4>1. d = c /\ SaveDecision(c) /\ pc[c] = "save" /\ current[c] \in Target
        BY <1>3, <2>1, <3>2, TargetAssumption DEF SaveDecision, TypeOK
      <4> PICK outcome \in {"executed", "failed"} : outcome = ExecutionStatus(c, current[c])
        BY DEF ExecutionStatus
      <4>2. decision' = [decision EXCEPT ![c][current[c]] = outcome]
        BY <3>2, <4>1 DEF SaveDecision
      <4>3. t = current[c] /\ decision'[d][t] = outcome
        BY <3>2, <4>1, <4>2, DecisionWrite DEF CellSet
      <4>4. outcome = "executed" <=> brokerOrder[<<c, t>>] # "none"
        BY <4>1, <4>3, ShownOrder DEF ExecutionStatus, LinkIInv
      <4>5. stage[<<c, t>>] \in {"ok", "idle"}
        BY <4>1, <4>3 DEF LinkIInv
      <4>6. stage[<<c, t>>] = "ok" <=> brokerOrder[<<c, t>>] # "none"
        BY <4>5, StageTellsOrder DEF Sent
      <4> QED
        BY <4>1, <4>3, <4>4, <4>5, <4>6
    <3> QED
      BY <3>1, <3>2
  <2> QED
    BY <1>1, <1>2, <2>2, <2>3, <2>4 DEF LinkIInv, Sent
<1>4. ASSUME NEW c \in Cycle, NEW t \in Target, HourPasses(c, t) PROVE LinkIInv'
  <2>1. UNCHANGED <<pc, current, decision>>
    BY <1>4 DEF HourPasses
  <2> QED
    BY <1>1, <1>2, <2>1 DEF LinkIInv, Asked
<1>5. ASSUME NEW c \in Cycle, NEW t \in Target, Skip(c, t) \/ Choose(c, t) PROVE LinkIInv'
  <2>1. CycleStep(c) /\ pc[c] = "loop" /\ pc'[c] # "save" /\ decision' = decision
    BY <1>5 DEF CycleStep, Skip, Choose, TypeOK
  <2> QED
    BY <1>3, <2>1
<1>6. ASSUME NEW c \in Cycle, Begin(c) \/ LoadOrders(c) \/ Finish(c) \/ Crash(c) PROVE LinkIInv'
  <2>1. CycleStep(c) /\ pc[c] # "send" /\ pc'[c] # "save" /\ decision' = decision
    BY <1>6, LeaveEffect DEF CycleStep, Begin, LoadOrders, Finish, Crash, TypeOK
  <2> QED
    BY <1>3, <2>1
<1>7. ASSUME NEW c \in Cycle, SaveDecision(c) PROVE LinkIInv'
  <2>1. CycleStep(c) /\ pc[c] # "send" /\ pc'[c] # "save"
    BY <1>7, LeaveEffect DEF CycleStep, SaveDecision, TypeOK
  <2> QED
    BY <1>3, <1>7, <2>1
<1> QED
  BY <1>4, <1>5, <1>6, <1>7 DEF DeskStep

\* ... and when a request is answered or given up.
LEMMA AnswerKeepsLink ==
  ASSUME Records, LinkIInv, NEW c \in Cycle, Answered(c) \/ Raised(c)
  PROVE  LinkIInv'
<1> DEFINE s == <<c, current[c]>>
<1>1. TypeOK /\ CycleStep(c) /\ pc[c] = "send" /\ s \in Sent
  BY TargetAssumption DEF Records, TypeOK, Answered, Raised, Submitted, SubmitRaises, CycleStep, Sent
<1>2. UNCHANGED <<stage, brokerOrder, order, decision>>
  BY DEF Answered, Raised, Submitted, SubmitRaises, tradeVars
<1>3. Shown' = Shown /\ \A q \in Sent : UnderWay(q)' = UnderWay(q)
  BY <1>2 DEF Shown, UnderWay
<1>4. \A d \in Cycle \ {c} : pc'[d] = pc[d] /\ current'[d] = current[d]
  BY <1>1, CycleStepAside DEF Aside
<1>5. pending \subseteq pending' /\ pending' \subseteq pending \union {s}
  BY DEF Answered, Raised, Submitted, SubmitRaises
<1>6. ASSUME NEW q \in Sent, UnderWay(q), stage[q] # "idle" PROVE Asked(q)'
  <2>1. CASE q = s
    <3>1. CASE Raised(c)
      BY <1>6, <2>1, <3>1 DEF Raised, Asked
    <3>2. CASE Answered(c)
      BY <1>6, <2>1, <3>2 DEF Answered, UnderWay, Trade!Early
    <3> QED
      BY <3>1, <3>2
  <2>2. CASE q # s
    BY <1>4, <1>5, <1>6, <2>2 DEF LinkIInv, Asked, Sent
  <2> QED
    BY <2>1, <2>2
<1>7. ASSUME NEW q \in pending' PROVE UnderWay(q)
  <2>1. CASE q \in pending
    BY <2>1 DEF LinkIInv
  <2>2. CASE q = s /\ Raised(c)
    BY <1>7, <2>2 DEF Raised
  <2> QED
    BY <1>5, <1>7, <2>1, <2>2 DEF Answered, Submitted
<1>8. ASSUME NEW d \in Cycle, pc'[d] = "save" PROVE stage[<<d, current'[d]>>] \in {"ok", "idle"}
  <2>1. CASE d = c
    <3>1. Answered(c)
      BY <1>1, <1>8, <2>1, LeaveEffect DEF Raised, SubmitRaises
    <3> QED
      BY <2>1, <3>1 DEF Answered, Submitted
  <2>2. CASE d # c
    BY <1>4, <1>8, <2>2 DEF LinkIInv
  <2> QED
    BY <2>1, <2>2
<1>9. pending' \subseteq Sent
  BY <1>1, <1>5 DEF TypeOK, Sent
<1> QED
  BY <1>2, <1>3, <1>6, <1>7, <1>8, <1>9 DEF LinkIInv

\* Cycles, records and links hold together at any time.
LEMMA QuantPipelineInvariant ==
  ASSUME PipelineAssumption PROVE PipelineSpec => [](Records /\ LinkIInv)
<1>1. PipelineInit => Records /\ LinkIInv
  BY RecordsInit, LinkInit DEF PipelineInit
<1>2. Records /\ LinkIInv /\ Trade!StoryIInv /\ [PipelineNext]_<<vars, tradeVars>>
        => Records' /\ LinkIInv'
  <2> SUFFICES ASSUME Records, LinkIInv, Trade!StoryIInv, [PipelineNext]_<<vars, tradeVars>>
               PROVE  Records' /\ LinkIInv'
    OBVIOUS
  <2>1. Records'
    BY PipelineStepMaps, RecordsStep
  <2>2. CASE UNCHANGED <<vars, tradeVars>>
    BY <2>1, <2>2 DEF vars, tradeVars, LinkIInv, Shown, Asked, UnderWay
  <2> QED
    BY <2>1, <2>2, ServiceStepKeepsLink, DeskStepKeepsLink, AnswerKeepsLink DEF PipelineNext
<1> QED
  BY <1>1, <1>2, TradeInvariants, PTL DEF PipelineSpec

\* What QuantAutoTrade leaves to its surroundings is what the trade service really does:
\* all that is proved of the cycles holds with the sagas behind them.
THEOREM PipelineKeepsCycles == ASSUME PipelineAssumption PROVE PipelineSpec => Spec
<1>1. PipelineInit => Init
  BY DEF PipelineInit
<1>2. Records /\ LinkIInv /\ Trade!StoryIInv /\ [PipelineNext]_<<vars, tradeVars>> => [Next]_vars
  BY PipelineStepMaps
<1> QED
  BY <1>1, <1>2, QuantPipelineInvariant, TradeInvariants, PTL DEF PipelineSpec, Spec

\* A row that says executed stands for a completed saga and an order that passed the risk
\* gate and reached the broker, and consumers never read of a failure, a rejection or a
\* compensation of it; a row that says failed stands for a request without saga or order.
THEOREM DecisionBacked == ASSUME PipelineAssumption PROVE PipelineSpec => []DecisionIsBacked
<1>1. ASSUME LinkIInv, Trade!StoryIInv, Trade!PipelineIInv PROVE DecisionIsBacked
  <2> SUFFICES ASSUME NEW s \in Sent
               PROVE  /\ stage[s] = "ok" =>
                           /\ saga[s].status = "completed"
                           /\ <<"risk_check", "completed">> \in saga[s].steps
                           /\ brokerOrder[s] # "none"
                           /\ \A event \in {"failed", "rejected", "compensated"} :
                                <<s, event>> \notin inbox
                      /\ stage[s] = "idle" => saga[s].status = "none" /\ brokerOrder[s] = "none"
    BY <1>1 DEF LinkIInv, DecisionIsBacked
  <2>1. Trade!SubmitIInv(s) /\ Trade!SubmitStory(s)
    BY <1>1 DEF Trade!StoryIInv, Trade!SagaIInv
  <2>2. ASSUME stage[s] = "ok" PROVE <<"risk_check", "completed">> \in saga[s].steps
    BY <2>1, <2>2 DEF Trade!SubmitIInv, Trade!Posted
  <2>3. ASSUME stage[s] = "ok", NEW event \in {"failed", "rejected", "compensated"}
        PROVE  <<s, event>> \notin inbox
    <3>1. event \notin saga[s].events
      BY <2>1, <2>3 DEF Trade!SubmitStory
    <3>2. \A a \in inbox : a[2] \in saga[a[1]].events
      BY <1>1 DEF Trade!PipelineIInv, Trade!Recorded
    <3> QED
      BY <3>1, <3>2
  <2> QED
    BY <1>1, <2>2, <2>3, StageTellsOrder DEF Trade!NoSaga
<1> QED
  BY <1>1, QuantPipelineInvariant, TradeInvariants, PTL

\* If cycles do not overlap and the database answered, the broker gets no more orders of
\* the US open job in a day than its limit and one for each of its cycles that broke down.
THEOREM LimitKeptInTrade == ASSUME PipelineAssumption PROVE PipelineSpec => []LimitKeptAtTheBroker
<1>1. ASSUME LinkIInv, Trade!StoryIInv, DailyLimitKept PROVE LimitKeptAtTheBroker
  <2>1. {p \in Placed : p[1] \in Guarded} = {s \in Guarded \X Target : brokerOrder[s] # "none"}
    <3>1. \A c \in Cycle, t \in Target : order[c][t] # "none" <=> brokerOrder[<<c, t>>] # "none"
      <4> SUFFICES ASSUME NEW c \in Cycle, NEW t \in Target
                   PROVE  order[c][t] # "none" <=> brokerOrder[<<c, t>>] # "none"
        OBVIOUS
      <4>1. order[c][t] = Shown[c][t]
        BY <1>1 DEF LinkIInv
      <4> QED
        BY <1>1, <4>1, ShownOrder
    <3> QED
      BY <3>1, GuardedAssumption DEF Placed
  <2> QED
    BY <1>1, <2>1 DEF DailyLimitKept, LimitKeptAtTheBroker
<1> QED
  BY <1>1, QuantPipelineInvariant, TradeInvariants, PipelineKeepsCycles, LimitKept, PTL
=============================================================================
