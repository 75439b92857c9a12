-------------------------- MODULE TradeSagaProofs --------------------------
(***************************************************************************)
(* What holds of every submit and cancel saga, for any number of requests. *)
(***************************************************************************)
EXTENDS TradePipeline, FiniteSetTheorems, TLAPS

-----------------------------------------------------------------------------
(* Rows.                                                                   *)

\* What one writer changes in a row, and that it changes nothing else.
StepAdded(new, row, step) ==
  /\ new \in SagaRow /\ new.steps = row.steps \union {step}
  /\ new.status = row.status /\ new.events = row.events /\ new.compensation = row.compensation

StatusSet(new, row, status) ==
  /\ new \in SagaRow /\ new.status = status
  /\ new.steps = row.steps /\ new.events = row.events /\ new.compensation = row.compensation

EventAdded(new, row, event) ==
  /\ new \in SagaRow /\ new.events = row.events \union {event}
  /\ new.steps = row.steps /\ new.status = row.status /\ new.compensation = row.compensation

OutcomeSet(new, row, outcome) ==
  /\ new \in SagaRow /\ new.status = "failed" /\ new.compensation = outcome
  /\ new.steps = row.steps /\ new.events = row.events

\* Each writer of the saga tables changes one column (the outcome of a
\* compensation two) and keeps the row's type.
LEMMA RowWriters ==
  ASSUME NEW row \in SagaRow
  PROVE  /\ \A name \in StepName, outcome \in {"completed", "failed"} :
              StepAdded(WithStep(row, name, outcome), row, <<name, outcome>>)
         /\ \A status \in {"pending", "failed", "risk_rejected", "completed"} :
              StatusSet(WithStatus(row, status), row, status)
         /\ \A event \in EventType : EventAdded(WithEvent(row, event), row, event)
         /\ \A outcome \in Compensation :
              OutcomeSet(CompensatedRow(row, outcome), row, outcome)
<1>1. \A name \in StepName, outcome \in {"completed", "failed"} :
        StepAdded(WithStep(row, name, outcome), row, <<name, outcome>>)
  BY DEF SagaRow, WithStep, StepAdded
<1>2. \A status \in {"pending", "failed", "risk_rejected", "completed"} :
        StatusSet(WithStatus(row, status), row, status)
  BY DEF SagaRow, WithStatus, StatusSet
<1>3. \A event \in EventType : EventAdded(WithEvent(row, event), row, event)
  BY DEF SagaRow, WithEvent, EventAdded
<1>4. \A outcome \in Compensation : OutcomeSet(CompensatedRow(row, outcome), row, outcome)
  BY DEF SagaRow, CompensatedRow, OutcomeSet
<1> QED
  BY <1>1, <1>2, <1>3, <1>4

\* A new saga is pending and has told one event.
LEMMA NewRow ==
  \A event \in EventType :
    LET new == NewSaga(event) IN
    /\ new \in SagaRow
    /\ new.status = "pending" /\ new.compensation = "null"
    /\ new.events = {event} /\ new.steps = {<<"received", "completed">>}
<1>1. NoSaga \in SagaRow
  BY DEF NoSaga, SagaRow
<1> QED
  BY DEF NewSaga, SagaRow, StepName

\* A saga that was never inserted says nothing.
LEMMA NoRow ==
  /\ NoSaga \in SagaRow
  /\ NoSaga.status = "none" /\ NoSaga.compensation = "null"
  /\ NoSaga.events = {} /\ NoSaga.steps = {}
BY DEF NoSaga, SagaRow

-----------------------------------------------------------------------------
(* One step of a handler, seen from its own request and from the others.   *)

\* What a step of request r leaves of another request.
Aside(r) ==
  \A q \in Request \ {r} : pc'[q] = pc[q] /\ why'[q] = why[q] /\ saga'[q] = saga[q]

\* Write: the row is new, or the transaction failed and it may be the old one.
LEMMA WriteEffect ==
  ASSUME TypeOK, NEW r \in Request, NEW from, NEW row \in SagaRow,
         NEW to \in PcLabel, NEW onError \in PcLabel,
         Write(r, from, row, to, onError)
  PROVE  /\ pc[r] = from /\ pc'[r] \in {to, onError}
         /\ saga'[r] = row \/ (saga'[r] = saga[r] /\ pc'[r] = onError)
         /\ why'[r] = why[r] /\ Aside(r)
         /\ UNCHANGED <<target, order, projection, fetched>>
         /\ TypeOK'
<1> USE DEF TypeOK, Write, Transaction
<1>1. pc[r] = from /\ pc'[r] \in {to, onError}
  OBVIOUS
<1>2. saga'[r] = row \/ (saga'[r] = saga[r] /\ pc'[r] = onError)
  OBVIOUS
<1>3. why'[r] = why[r] /\ Aside(r)
  BY DEF Aside
<1>4. UNCHANGED <<target, order, projection, fetched>>
  OBVIOUS
<1>5. TypeOK'
  OBVIOUS
<1> QED
  BY <1>1, <1>2, <1>3, <1>4, <1>5

\* Project: likewise for the projection of an order.
LEMMA ProjectEffect ==
  ASSUME TypeOK, NEW r \in Request, NEW from, NEW s \in Submit, NEW status \in {"submitted", "cancelled"},
         NEW to \in PcLabel, NEW onError \in PcLabel,
         Project(r, from, s, status, to, onError)
  PROVE  /\ pc[r] = from /\ pc'[r] \in {to, onError}
         /\ projection'[s] = status \/ (projection'[s] = projection[s] /\ pc'[r] = onError)
         /\ \A d \in Submit \ {s} : projection'[d] = projection[d]
         /\ Aside(r)
         /\ UNCHANGED <<why, saga, target, order, fetched>>
         /\ TypeOK'
<1> USE DEF TypeOK, Project, Transaction
<1>1. pc[r] = from /\ pc'[r] \in {to, onError}
  OBVIOUS
<1>2. projection'[s] = status \/ (projection'[s] = projection[s] /\ pc'[r] = onError)
  OBVIOUS
<1>3. \A d \in Submit \ {s} : projection'[d] = projection[d]
  OBVIOUS
<1>4. Aside(r) /\ UNCHANGED <<why, saga, target, order, fetched>>
  BY DEF Aside
<1>5. TypeOK'
  OBVIOUS
<1> QED
  BY <1>1, <1>2, <1>3, <1>4, <1>5

\* A step that leaves the saga's row alone.
LEMMA GoToEffect ==
  ASSUME TypeOK, NEW r \in Request, NEW from, NEW to \in PcLabel, GoTo(r, from, to)
  PROVE  /\ pc[r] = from /\ pc'[r] = to
         /\ \A q \in Request \ {r} : pc'[q] = pc[q]
         /\ pc' \in [Request -> PcLabel]
BY DEF TypeOK, GoTo

\* Giving up remembers the step that failed.
LEMMA GiveUpEffect ==
  ASSUME TypeOK, NEW r \in Request, NEW from, NEW step \in FailingStep, GiveUp(r, from, step)
  PROVE  /\ pc[r] = from /\ pc'[r] = "fail_step" /\ why'[r] = step
         /\ \A q \in Request \ {r} : pc'[q] = pc[q] /\ why'[q] = why[q]
         /\ pc' \in [Request -> PcLabel]
         /\ why' \in [Request -> {"none"} \union FailingStep \union Compensation]
BY DEF TypeOK, GoTo, GiveUp, PcLabel

\* The broker: a cancel request never makes an order, or makes one new again.
LEMMA BrokerCancelEffect ==
  ASSUME TypeOK, NEW s \in Submit, NEW taken \in BOOLEAN, BrokerCancel(s, taken)
  PROVE  /\ order' \in [Submit -> {"none"} \union LiveStatus]
         /\ \A d \in Submit \ {s} : order'[d] = order[d]
         /\ order'[s] = order[s] \/ (order[s] # "none" /\ order'[s] = "pendingcancel")
         /\ taken => order'[s] = "pendingcancel"
BY DEF TypeOK, BrokerCancel, LiveStatus, Ended

-----------------------------------------------------------------------------
(* Types, and what a step leaves of the other requests.                    *)

\* What happens meanwhile to the order of a submit that is not taking a step.
OrderGoesOn(d) ==
  /\ order'[d] = order[d] \/ (order[d] # "none" /\ order'[d] \notin {"none", "new"})
  /\ projection'[d] = projection[d] \/ projection'[d] # "absent"

\* A cancel request that the broker took is not taken back.
CancelStays(d) == order[d] \notin {"none", "new"} => order'[d] \notin {"none", "new"}

\* A step of request r concerns its own saga and at most one order.
Frame(r) ==
  /\ Aside(r) /\ target' = target
  /\ \A d \in Submit \ {r} : OrderGoesOn(d)
  /\ \A d \in Submit : CancelStays(d)

\* The labels the actions use are labels of PcLabel.
LEMMA Labels ==
  /\ {"idle", "context", "price", "priced", "risk", "risk_passed", "place", "placed"} \subseteq PcLabel
  /\ {"project", "announce", "complete", "ok", "refused", "broken", "compensated"} \subseteq PcLabel
  /\ {"compensate", "comp_step", "comp_status", "comp_event"} \subseteq PcLabel
  /\ {"validate", "ask", "taken", "cancel_status", "cancel_event", "cancel_project"} \subseteq PcLabel
  /\ {"fail_step", "fail_status", "fail_event"} \subseteq PcLabel
BY DEF PcLabel, Stopped, Answer

\* A step of a submit keeps the types and leaves the other requests alone.
LEMMA SubmitStepEffect ==
  ASSUME TypeOK, NEW s \in Submit, SubmitIInv(s), SubmitStep(s)
  PROVE  TypeOK' /\ Frame(s)
<1> s \in Request /\ saga[s] \in SagaRow
  BY DEF Request, TypeOK
<1>c. pc[s] \in {"comp_step", "comp_status"} => why[s] \in Compensation
  BY DEF SubmitIInv, UndoingStage, Undoing
<1> USE Labels
<1>1. CASE RefuseAutoOrder(s)
  BY <1>1, GoToEffect DEF RefuseAutoOrder, TypeOK, Frame, Aside, OrderGoesOn, CancelStays
<1>2. CASE CreateSubmitSaga(s)
  <2> PICK to \in {"context", "price"} : Write(s, "idle", NewSaga("requested"), to, "broken")
    BY <1>2 DEF CreateSubmitSaga
  <2> NewSaga("requested") \in SagaRow
    BY NewRow DEF EventType
  <2> QED
    BY WriteEffect DEF Frame, OrderGoesOn, CancelStays
<1>3. CASE RecordContext(s)
  <2> WithStep(saga[s], "strategy_context", "completed") \in SagaRow
    BY RowWriters DEF StepAdded, StepName
  <2> QED
    BY <1>3, WriteEffect DEF RecordContext, Frame, OrderGoesOn, CancelStays
<1>4. CASE LoadReferencePrice(s)
  BY <1>4, GoToEffect, GiveUpEffect
  DEF LoadReferencePrice, FailingStep, TypeOK, Frame, Aside, OrderGoesOn, CancelStays
<1>5. CASE CompleteReferencePrice(s)
  <2> WithStep(saga[s], "reference_price", "completed") \in SagaRow
    BY RowWriters DEF StepAdded, StepName, FailingStep
  <2> QED
    BY <1>5, WriteEffect DEF CompleteReferencePrice, Frame, OrderGoesOn, CancelStays
<1>6. CASE RunRiskCheck(s)
  BY <1>6, GoToEffect, GiveUpEffect
  DEF RunRiskCheck, FailingStep, TypeOK, Frame, Aside, OrderGoesOn, CancelStays
<1>7. CASE PassRiskGate(s)
  <2> WithStep(saga[s], "risk_check", "completed") \in SagaRow
    BY RowWriters DEF StepAdded, StepName, FailingStep
  <2> QED
    BY <1>7, WriteEffect DEF PassRiskGate, Frame, OrderGoesOn, CancelStays
<1>8. CASE SubmitToBroker(s)
  <2> order[s] = "none"
    BY <1>8 DEF SubmitToBroker, GoTo, GiveUp, SubmitIInv, EarlyStage, Early
  <2> QED
    BY <1>8, GoToEffect, GiveUpEffect
    DEF SubmitToBroker, FailingStep, TypeOK, LiveStatus, Ended, Frame, Aside, OrderGoesOn, CancelStays
<1>9. CASE RecordPlaced(s)
  <2> WithStep(saga[s], "broker_submit", "completed") \in SagaRow
    BY RowWriters DEF StepAdded, StepName, FailingStep
  <2> QED
    BY <1>9, WriteEffect DEF RecordPlaced, Frame, OrderGoesOn, CancelStays
<1>10. CASE ProjectPlaced(s)
  BY <1>10, ProjectEffect DEF ProjectPlaced, Frame, Aside, OrderGoesOn, CancelStays
<1>11. CASE AnnouncePlaced(s)
  <2> WithEvent(saga[s], "submitted") \in SagaRow
    BY RowWriters DEF EventAdded, EventType
  <2> QED
    BY <1>11, WriteEffect DEF AnnouncePlaced, Frame, OrderGoesOn, CancelStays
<1>12. CASE CompleteSubmit(s)
  <2> WithStatus(saga[s], "completed") \in SagaRow
    BY RowWriters DEF StatusSet
  <2> QED
    BY <1>12, WriteEffect DEF CompleteSubmit, Frame, OrderGoesOn, CancelStays
<1>13. CASE Compensate(s)
  <2> PICK taken \in BOOLEAN :
        /\ BrokerCancel(s, taken)
        /\ why' = [why EXCEPT ![s] = IF taken THEN "cancelled" ELSE "cancel_failed"]
    BY <1>13 DEF Compensate
  <2> QED
    BY <1>13, GoToEffect, BrokerCancelEffect
    DEF Compensate, Compensation, TypeOK, Frame, Aside, OrderGoesOn, CancelStays
<1>14. CASE RecordCompensation(s)
  <2> DEFINE outcome == IF why[s] = "cancelled" THEN "completed" ELSE "failed"
  <2> WithStep(saga[s], "compensation", outcome) \in SagaRow
    BY RowWriters DEF StepAdded, StepName
  <2> QED
    BY <1>14, WriteEffect DEF RecordCompensation, Frame, OrderGoesOn, CancelStays
<1>15. CASE SettleCompensation(s)
  <2> pc[s] = "comp_status"
    BY <1>15 DEF SettleCompensation, Write, Transaction
  <2> CompensatedRow(saga[s], why[s]) \in SagaRow
    BY <1>c, RowWriters DEF OutcomeSet
  <2> QED
    BY <1>15, WriteEffect DEF SettleCompensation, Frame, OrderGoesOn, CancelStays
<1>16. CASE AnnounceCompensation(s)
  <2> WithEvent(saga[s], "compensated") \in SagaRow
    BY RowWriters DEF EventAdded, EventType
  <2> QED
    BY <1>16, WriteEffect DEF AnnounceCompensation, Frame, OrderGoesOn, CancelStays
<1> QED
  BY <1>1, <1>2, <1>3, <1>4, <1>5, <1>6, <1>7, <1>8, <1>9, <1>10, <1>11, <1>12, <1>13, <1>14,
     <1>15, <1>16 DEF SubmitStep

\* So does a step of a cancel.
LEMMA CancelStepEffect ==
  ASSUME TypeOK, NEW c \in Cancel, CancelStep(c)
  PROVE  TypeOK' /\ Frame(c)
<1> c \in Request /\ saga[c] \in SagaRow /\ target[c] \in Submit /\ c \notin Submit
  BY SubmitAssumption DEF Request, TypeOK
<1> USE Labels
<1>1. CASE CreateCancelSaga(c)
  <2> NewSaga("cancel_requested") \in SagaRow
    BY NewRow DEF EventType
  <2> QED
    BY <1>1, WriteEffect DEF CreateCancelSaga, Frame, OrderGoesOn, CancelStays
<1>2. CASE RecordCancelStart(c)
  <2> WithStep(saga[c], "cancel_validate", "completed") \in SagaRow
    BY RowWriters DEF StepAdded, StepName
  <2> QED
    BY <1>2, WriteEffect DEF RecordCancelStart, Frame, OrderGoesOn, CancelStays
<1>3. CASE AskBrokerToCancel(c)
  <2> PICK taken \in BOOLEAN :
        /\ BrokerCancel(target[c], taken)
        /\ IF taken THEN GoTo(c, "ask", "taken") /\ UNCHANGED why
                    ELSE GiveUp(c, "ask", "broker_cancel")
    BY <1>3 DEF AskBrokerToCancel
  <2> QED
    BY <1>3, GoToEffect, GiveUpEffect, BrokerCancelEffect
    DEF AskBrokerToCancel, FailingStep, TypeOK, Frame, Aside, OrderGoesOn, CancelStays
<1>4. CASE RecordTaken(c)
  <2> WithStep(saga[c], "broker_cancel", "completed") \in SagaRow
    BY RowWriters DEF StepAdded, StepName, FailingStep
  <2> QED
    BY <1>4, WriteEffect DEF RecordTaken, Frame, OrderGoesOn, CancelStays
<1>5. CASE CompleteCancel(c)
  <2> WithStatus(saga[c], "completed") \in SagaRow
    BY RowWriters DEF StatusSet
  <2> QED
    BY <1>5, WriteEffect DEF CompleteCancel, Frame, OrderGoesOn, CancelStays
<1>6. CASE AnnounceCancelled(c)
  <2> WithEvent(saga[c], "cancelled") \in SagaRow
    BY RowWriters DEF EventAdded, EventType
  <2> QED
    BY <1>6, WriteEffect DEF AnnounceCancelled, Frame, OrderGoesOn, CancelStays
<1>7. CASE ProjectCancelled(c)
  BY <1>7, ProjectEffect DEF ProjectCancelled, Frame, Aside, OrderGoesOn, CancelStays
<1> QED
  BY <1>1, <1>2, <1>3, <1>4, <1>5, <1>6, <1>7 DEF CancelStep

\* The rows the failure path writes.
LEMMA FailureRows ==
  ASSUME NEW row \in SagaRow, NEW step \in FailingStep
  PROVE  /\ WithStep(row, step, "failed") \in SagaRow
         /\ WithStatus(row, FinalStatus(step)) \in SagaRow
         /\ WithEvent(row, FinalEvent(step)) \in SagaRow
<1>1. step \in StepName
  BY DEF StepName
<1>2. FinalStatus(step) \in {"risk_rejected", "failed"}
  BY DEF FinalStatus
<1>3. FinalEvent(step) \in EventType
  BY DEF FinalEvent, EventType
<1> QED
  BY <1>1, <1>2, <1>3, RowWriters DEF StepAdded, StatusSet, EventAdded

\* So does a step of the failure path.
LEMMA FailStepEffect ==
  ASSUME TypeOK, NEW r \in Request, pc[r] \in Failing => why[r] \in FailingStep, FailStep(r)
  PROVE  TypeOK' /\ Frame(r)
<1> USE Labels
<1> saga[r] \in SagaRow
  BY DEF TypeOK
<1>1. CASE RecordFailedStep(r)
  <2> pc[r] = "fail_step"
    BY <1>1 DEF RecordFailedStep, Write, Transaction
  <2> WithStep(saga[r], why[r], "failed") \in SagaRow
    BY FailureRows DEF Failing
  <2> QED
    BY <1>1, WriteEffect DEF RecordFailedStep, Frame, OrderGoesOn, CancelStays
<1>2. CASE SettleFailed(r)
  <2> pc[r] = "fail_status"
    BY <1>2 DEF SettleFailed, Write, Transaction
  <2> WithStatus(saga[r], FinalStatus(why[r])) \in SagaRow
    BY FailureRows DEF Failing
  <2> QED
    BY <1>2, WriteEffect DEF SettleFailed, Frame, OrderGoesOn, CancelStays
<1>3. CASE AnnounceFailed(r)
  <2> pc[r] = "fail_event"
    BY <1>3 DEF AnnounceFailed, Write, Transaction
  <2> WithEvent(saga[r], FinalEvent(why[r])) \in SagaRow
    BY FailureRows DEF Failing
  <2> QED
    BY <1>3, WriteEffect DEF AnnounceFailed, Frame, OrderGoesOn, CancelStays
<1> QED
  BY <1>1, <1>2, <1>3 DEF FailStep

\* So does a crash.
LEMMA CrashEffect ==
  ASSUME TypeOK, NEW r \in Request, Crash(r)
  PROVE  TypeOK' /\ Frame(r) /\ pc'[r] = "broken" /\ pc[r] \notin Stopped \union {"idle"}
BY Labels DEF Crash, TypeOK, Frame, Aside, OrderGoesOn, CancelStays

\* The order list and the market leave the sagas alone.
LEMMA SurroundingsEffect ==
  ASSUME TypeOK, OrderList \/ \E s \in Submit : OrderMoves(s)
  PROVE  /\ TypeOK' /\ UNCHANGED <<pc, why, saga, target>>
         /\ \A d \in Submit : OrderGoesOn(d)
<1>1. ASSUME NEW s \in Submit, OrderMoves(s)
      PROVE  /\ TypeOK' /\ UNCHANGED <<pc, why, saga, target>>
             /\ \A d \in Submit : OrderGoesOn(d)
  BY <1>1 DEF OrderMoves, TypeOK, LiveStatus, Ended, OrderGoesOn, CancelStays
<1>2. ASSUME NEW filter, FetchLiveOrders(filter)
      PROVE  /\ TypeOK' /\ UNCHANGED <<pc, why, saga, target>>
             /\ \A d \in Submit : OrderGoesOn(d)
  BY <1>2 DEF FetchLiveOrders, TypeOK, OrderGoesOn, CancelStays
<1>3. ASSUME NEW s \in Submit, BackfillProjection(s)
      PROVE  /\ TypeOK' /\ UNCHANGED <<pc, why, saga, target>>
             /\ \A d \in Submit : OrderGoesOn(d)
  <2>1. fetched[s] \in LiveStatus
    BY <1>3 DEF BackfillProjection, TypeOK
  <2>2. projection' \in [Submit -> {"absent", "submitted", "cancelled"} \union LiveStatus]
    BY <1>3, <2>1 DEF BackfillProjection, TypeOK
  <2>3. fetched' \in [Submit -> {"nothing"} \union LiveStatus]
    BY <1>3 DEF BackfillProjection, TypeOK
  <2> QED
    BY <1>3, <2>1, <2>2, <2>3 DEF BackfillProjection, TypeOK, OrderGoesOn, LiveStatus, Ended
<1> QED
  BY <1>1, <1>2, <1>3 DEF OrderList

-----------------------------------------------------------------------------
(* A request that is not taking a step keeps its invariant.                *)

\* What SubmitIInv says of a submit survives the steps of others.
LEMMA SubmitAsideKept ==
  ASSUME TypeOK, TypeOK', NEW s \in Submit, SubmitIInv(s), OrderGoesOn(s),
         pc'[s] = pc[s], why'[s] = why[s], saga'[s] = saga[s]
  PROVE  SubmitIInv(s)'
BY DEF SubmitIInv, OrderGoesOn, EarlyStage, PlacedStage, UndoingStage, FailingStage, SubmitRecord

\* What CancelIInv says of a cancel survives the steps of others.
LEMMA CancelAsideKept ==
  ASSUME TypeOK, TypeOK', NEW c \in Cancel, CancelIInv(c), target' = target,
         CancelStays(target[c]),
         pc'[c] = pc[c], why'[c] = why[c], saga'[c] = saga[c]
  PROVE  CancelIInv(c)'
BY DEF CancelIInv, OrderGoesOn, CancelStays

-----------------------------------------------------------------------------
(* A submit keeps its invariant through its own steps.                     *)

\* The projection of a new order, seen from its submit.
LEMMA ProjectPlacedEffect ==
  ASSUME TypeOK, NEW s \in Submit, ProjectPlaced(s)
  PROVE  /\ pc[s] = "project" /\ pc'[s] \in {"announce", "compensate"}
         /\ projection'[s] = "submitted" \/ (projection'[s] = projection[s] /\ pc'[s] = "compensate")
         /\ saga'[s] = saga[s] /\ order'[s] = order[s] /\ why'[s] = why[s]
<1> s \in Request
  BY DEF Request
<1> QED
  BY DEF ProjectPlaced, Project, Transaction, TypeOK

\* A step of a submit leads to the next stage of its invariant.
LEMMA SubmitStepKept ==
  ASSUME TypeOK, TypeOK', NEW s \in Submit, SubmitIInv(s), SubmitStep(s)
  PROVE  SubmitIInv(s)'
<1> s \in Request /\ saga[s] \in SagaRow /\ saga'[s] \in SagaRow
  BY DEF Request, TypeOK
<1> USE Labels DEF SubmitIInv, EarlyStage, PlacedStage, UndoingStage, FailingStage, SubmitRecord,
                   Early, Posted, Undoing, Failing
<1>1. CASE RefuseAutoOrder(s)
  BY <1>1, GoToEffect DEF RefuseAutoOrder
<1>2. CASE CreateSubmitSaga(s)
  <2>1. PICK to \in {"context", "price"} : Write(s, "idle", NewSaga("requested"), to, "broken")
    BY <1>2 DEF CreateSubmitSaga
  <2>2. LET new == NewSaga("requested") IN
        /\ new \in SagaRow /\ new.status = "pending" /\ new.compensation = "null"
        /\ new.events = {"requested"}
    BY NewRow DEF EventType
  <2> QED
    BY <1>2, <2>1, <2>2, WriteEffect DEF CreateSubmitSaga, Outcomes
<1>3. CASE RecordContext(s)
  <2>1. StepAdded(WithStep(saga[s], "strategy_context", "completed"), saga[s], <<"strategy_context", "completed">>)
    BY RowWriters DEF StepName
  <2> QED
    BY <1>3, <2>1, WriteEffect DEF RecordContext, StepAdded
<1>4. CASE LoadReferencePrice(s)
  BY <1>4, GoToEffect, GiveUpEffect DEF LoadReferencePrice, FailingStep
<1>5. CASE CompleteReferencePrice(s)
  <2>1. StepAdded(WithStep(saga[s], "reference_price", "completed"), saga[s], <<"reference_price", "completed">>)
    BY RowWriters DEF StepName, FailingStep
  <2> QED
    BY <1>5, <2>1, WriteEffect DEF CompleteReferencePrice, StepAdded
<1>6. CASE RunRiskCheck(s)
  BY <1>6, GoToEffect, GiveUpEffect DEF RunRiskCheck, FailingStep
<1>7. CASE PassRiskGate(s)
  <2>1. StepAdded(WithStep(saga[s], "risk_check", "completed"), saga[s], <<"risk_check", "completed">>)
    BY RowWriters DEF StepName, FailingStep
  <2> QED
    BY <1>7, <2>1, WriteEffect DEF PassRiskGate, StepAdded
<1>8. CASE SubmitToBroker(s)
  BY <1>8, GoToEffect, GiveUpEffect DEF SubmitToBroker, FailingStep, TypeOK, Outcomes
<1>9. CASE RecordPlaced(s)
  <2>1. StepAdded(WithStep(saga[s], "broker_submit", "completed"), saga[s], <<"broker_submit", "completed">>)
    BY RowWriters DEF StepName, FailingStep
  <2> QED
    BY <1>9, <2>1, WriteEffect DEF RecordPlaced, StepAdded
<1>10. CASE ProjectPlaced(s)
  <2>1. /\ pc[s] = "project" /\ pc'[s] \in {"announce", "compensate"}
        /\ projection'[s] = "submitted" \/ (projection'[s] = projection[s] /\ pc'[s] = "compensate")
        /\ saga'[s] = saga[s] /\ order'[s] = order[s]
    BY <1>10, ProjectPlacedEffect
  <2> QED
    BY <2>1
<1>11. CASE AnnouncePlaced(s)
  <2>1. EventAdded(WithEvent(saga[s], "submitted"), saga[s], "submitted")
    BY RowWriters DEF EventType
  <2> QED
    BY <1>11, <2>1, WriteEffect DEF AnnouncePlaced, EventAdded, Outcomes
<1>12. CASE CompleteSubmit(s)
  <2>1. StatusSet(WithStatus(saga[s], "completed"), saga[s], "completed")
    BY RowWriters
  <2> QED
    BY <1>12, <2>1, WriteEffect DEF CompleteSubmit, StatusSet
<1>13. CASE Compensate(s)
  <2> PICK taken \in BOOLEAN :
        /\ BrokerCancel(s, taken)
        /\ why' = [why EXCEPT ![s] = IF taken THEN "cancelled" ELSE "cancel_failed"]
    BY <1>13 DEF Compensate
  <2> why'[s] = IF taken THEN "cancelled" ELSE "cancel_failed"
    BY DEF TypeOK
  <2> QED
    BY <1>13, GoToEffect, BrokerCancelEffect DEF Compensate, Compensation
<1>14. CASE RecordCompensation(s)
  <2> DEFINE outcome == IF why[s] = "cancelled" THEN "completed" ELSE "failed"
  <2>1. StepAdded(WithStep(saga[s], "compensation", outcome), saga[s], <<"compensation", outcome>>)
    BY RowWriters DEF StepName
  <2> QED
    BY <1>14, <2>1, WriteEffect DEF RecordCompensation, StepAdded
<1>15. CASE SettleCompensation(s)
  <2>1. pc[s] = "comp_status" /\ why[s] \in Compensation
    BY <1>15 DEF SettleCompensation, Write, Transaction
  <2>2. OutcomeSet(CompensatedRow(saga[s], why[s]), saga[s], why[s])
    BY <2>1, RowWriters
  <2> QED
    BY <1>15, <2>1, <2>2, WriteEffect DEF SettleCompensation, OutcomeSet
<1>16. CASE AnnounceCompensation(s)
  <2>1. EventAdded(WithEvent(saga[s], "compensated"), saga[s], "compensated")
    BY RowWriters DEF EventType
  <2> QED
    BY <1>16, <2>1, WriteEffect DEF AnnounceCompensation, EventAdded, Outcomes
<1> QED
  BY <1>1, <1>2, <1>3, <1>4, <1>5, <1>6, <1>7, <1>8, <1>9, <1>10, <1>11, <1>12, <1>13, <1>14,
     <1>15, <1>16 DEF SubmitStep

\* The failure path of a submit leads to the end of its invariant.
LEMMA SubmitFailKept ==
  ASSUME TypeOK, TypeOK', NEW s \in Submit, SubmitIInv(s), FailStep(s) \/ Crash(s)
  PROVE  SubmitIInv(s)'
<1> s \in Request /\ saga[s] \in SagaRow /\ saga'[s] \in SagaRow
  BY DEF Request, TypeOK
<1> USE Labels DEF SubmitIInv, EarlyStage, PlacedStage, UndoingStage, FailingStage, SubmitRecord,
                   Early, Posted, Undoing, Failing
<1>1. CASE RecordFailedStep(s)
  <2>1. pc[s] = "fail_step" /\ why[s] \in FailingStep
    BY <1>1 DEF RecordFailedStep, Write, Transaction, FailingStep
  <2>2. StepAdded(WithStep(saga[s], why[s], "failed"), saga[s], <<why[s], "failed">>)
    BY <2>1, RowWriters DEF StepName
  <2> QED
    BY <1>1, <2>1, <2>2, WriteEffect DEF RecordFailedStep, StepAdded
<1>2. CASE SettleFailed(s)
  <2>1. pc[s] = "fail_status" /\ FinalStatus(why[s]) \in {"risk_rejected", "failed"}
    BY <1>2 DEF SettleFailed, Write, Transaction, FinalStatus
  <2>2. StatusSet(WithStatus(saga[s], FinalStatus(why[s])), saga[s], FinalStatus(why[s]))
    BY <2>1, RowWriters
  <2> QED
    BY <1>2, <2>1, <2>2, WriteEffect DEF SettleFailed, StatusSet, FinalStatus
<1>3. CASE AnnounceFailed(s)
  <2>1. pc[s] = "fail_event" /\ FinalEvent(why[s]) \in {"rejected", "cancel_failed", "failed"}
    BY <1>3 DEF AnnounceFailed, Write, Transaction, FinalEvent
  <2>2. EventAdded(WithEvent(saga[s], FinalEvent(why[s])), saga[s], FinalEvent(why[s]))
    BY <2>1, RowWriters DEF EventType
  <2> QED
    BY <1>3, <2>1, <2>2, WriteEffect DEF AnnounceFailed, EventAdded, FinalEvent, Outcomes
<1>4. CASE Crash(s)
  BY <1>4 DEF Crash, TypeOK, Stopped, Answer
<1> QED
  BY <1>1, <1>2, <1>3, <1>4 DEF FailStep

-----------------------------------------------------------------------------
(* A cancel keeps its invariant through its own steps.                     *)

\* A step of a cancel leads to the next stage of its invariant.
LEMMA CancelStepKept ==
  ASSUME TypeOK, TypeOK', NEW c \in Cancel, CancelIInv(c), CancelStep(c)
  PROVE  CancelIInv(c)'
<1> c \in Request /\ saga[c] \in SagaRow /\ saga'[c] \in SagaRow /\ target[c] \in Submit
  BY DEF Request, TypeOK
<1> USE Labels DEF CancelIInv, Failing, Closing
<1>1. CASE CreateCancelSaga(c)
  <2>1. LET new == NewSaga("cancel_requested") IN new \in SagaRow /\ new.status = "pending"
    BY NewRow DEF EventType
  <2> QED
    BY <1>1, <2>1, WriteEffect DEF CreateCancelSaga
<1>2. CASE RecordCancelStart(c)
  <2>1. StepAdded(WithStep(saga[c], "cancel_validate", "completed"), saga[c],
                  <<"cancel_validate", "completed">>)
    BY RowWriters DEF StepName
  <2> QED
    BY <1>2, <2>1, WriteEffect DEF RecordCancelStart, StepAdded
<1>3. CASE AskBrokerToCancel(c)
  <2>1. PICK taken \in BOOLEAN :
        /\ BrokerCancel(target[c], taken)
        /\ IF taken THEN GoTo(c, "ask", "taken") /\ UNCHANGED why
                    ELSE GiveUp(c, "ask", "broker_cancel")
    BY <1>3 DEF AskBrokerToCancel
  <2>2. saga' = saga /\ target' = target
    BY <1>3 DEF AskBrokerToCancel
  <2>3. taken => order'[target[c]] = "pendingcancel"
    BY <2>1, BrokerCancelEffect
  <2>4. CASE taken
    BY <2>1, <2>2, <2>3, <2>4, GoToEffect
  <2>5. CASE ~taken
    <3>1. pc[c] = "ask" /\ pc'[c] = "fail_step" /\ why'[c] = "broker_cancel"
      BY <2>1, <2>5, GiveUpEffect DEF FailingStep
    <3> QED
      BY <2>2, <3>1
  <2> QED
    BY <2>4, <2>5
<1>4. CASE RecordTaken(c)
  <2>1. StepAdded(WithStep(saga[c], "broker_cancel", "completed"), saga[c],
                  <<"broker_cancel", "completed">>)
    BY RowWriters DEF StepName, FailingStep
  <2> QED
    BY <1>4, <2>1, WriteEffect DEF RecordTaken, StepAdded
<1>5. CASE CompleteCancel(c)
  <2>1. StatusSet(WithStatus(saga[c], "completed"), saga[c], "completed")
    BY RowWriters
  <2> QED
    BY <1>5, <2>1, WriteEffect DEF CompleteCancel, StatusSet
<1>6. CASE AnnounceCancelled(c)
  <2>1. EventAdded(WithEvent(saga[c], "cancelled"), saga[c], "cancelled")
    BY RowWriters DEF EventType
  <2> QED
    BY <1>6, <2>1, WriteEffect DEF AnnounceCancelled, EventAdded
<1>7. CASE ProjectCancelled(c)
  BY <1>7 DEF ProjectCancelled, Project, Transaction, TypeOK
<1> QED
  BY <1>1, <1>2, <1>3, <1>4, <1>5, <1>6, <1>7 DEF CancelStep

\* The failure path of a cancel leads to the end of its invariant.
LEMMA CancelFailKept ==
  ASSUME TypeOK, TypeOK', NEW c \in Cancel, CancelIInv(c), FailStep(c) \/ Crash(c)
  PROVE  CancelIInv(c)'
<1> c \in Request /\ saga[c] \in SagaRow /\ saga'[c] \in SagaRow /\ target[c] \in Submit
  BY DEF Request, TypeOK
<1> USE Labels DEF CancelIInv, Failing, Closing
<1>0. pc[c] \in Failing => /\ why[c] \in FailingStep /\ FinalStatus(why[c]) = "failed"
                           /\ FinalEvent(why[c]) = "cancel_failed"
  BY DEF FailingStep, FinalStatus, FinalEvent
<1>1. CASE RecordFailedStep(c)
  <2>1. pc[c] = "fail_step"
    BY <1>1 DEF RecordFailedStep, Write, Transaction
  <2>2. StepAdded(WithStep(saga[c], why[c], "failed"), saga[c], <<why[c], "failed">>)
    BY <1>0, <2>1, RowWriters DEF StepName
  <2> QED
    BY <1>1, <2>1, <2>2, WriteEffect DEF RecordFailedStep, StepAdded
<1>2. CASE SettleFailed(c)
  <2>1. pc[c] = "fail_status"
    BY <1>2 DEF SettleFailed, Write, Transaction
  <2>2. StatusSet(WithStatus(saga[c], FinalStatus(why[c])), saga[c], "failed")
    BY <1>0, <2>1, RowWriters
  <2> QED
    BY <1>2, <2>1, <2>2, WriteEffect DEF SettleFailed, StatusSet
<1>3. CASE AnnounceFailed(c)
  <2>1. pc[c] = "fail_event"
    BY <1>3 DEF AnnounceFailed, Write, Transaction
  <2>2. EventAdded(WithEvent(saga[c], FinalEvent(why[c])), saga[c], "cancel_failed")
    BY <1>0, <2>1, RowWriters DEF EventType
  <2> QED
    BY <1>3, <2>1, <2>2, WriteEffect DEF AnnounceFailed, EventAdded
<1>4. CASE Crash(c)
  BY <1>4 DEF Crash, TypeOK, Stopped, Answer
<1> QED
  BY <1>1, <1>2, <1>3, <1>4 DEF FailStep

-----------------------------------------------------------------------------
(* The invariant.                                                          *)

\* Requests that have not begun satisfy the invariant.
LEMMA SagaInit == Init => SagaIInv
<1> SUFFICES ASSUME Init PROVE SagaIInv
  OBVIOUS
<1>1. TypeOK
  BY NoRow, Labels DEF Init, TypeOK
<1>2. ASSUME NEW s \in Submit PROVE SubmitIInv(s)
  BY NoRow DEF Init, Request, SubmitIInv, EarlyStage, SubmitRecord, Early, Posted, Undoing, Failing
<1>3. ASSUME NEW c \in Cancel PROVE CancelIInv(c)
  BY NoRow DEF Init, Request, CancelIInv, Closing, Failing
<1> QED
  BY <1>1, <1>2, <1>3 DEF SagaIInv

\* The requests that a step of r leaves alone keep their invariants.
LEMMA OthersKept ==
  ASSUME SagaIInv, TypeOK', NEW r \in Request, Frame(r)
  PROVE  /\ \A s \in Submit \ {r} : SubmitIInv(s)'
         /\ \A c \in Cancel \ {r} : CancelIInv(c)'
<1>1. ASSUME NEW s \in Submit \ {r} PROVE SubmitIInv(s)'
  BY SubmitAsideKept DEF SagaIInv, Frame, Aside, Request
<1>2. ASSUME NEW c \in Cancel \ {r} PROVE CancelIInv(c)'
  <2>1. target[c] \in Submit
    BY DEF SagaIInv, TypeOK
  <2> QED
    BY <2>1, CancelAsideKept DEF SagaIInv, Frame, Aside, Request
<1> QED
  BY <1>1, <1>2

\* Every step keeps the invariant of all sagas.
LEMMA SagaStep == SagaIInv /\ [Next]_vars => SagaIInv'
<1> SUFFICES ASSUME SagaIInv, [Next]_vars PROVE SagaIInv'
  OBVIOUS
<1> TypeOK
  BY DEF SagaIInv
<1>1. ASSUME NEW s \in Submit, SubmitStep(s) PROVE SagaIInv'
  <2>1. s \in Request /\ s \notin Cancel /\ SubmitIInv(s)
    BY SubmitAssumption DEF Request, SagaIInv
  <2>2. TypeOK' /\ Frame(s)
    BY <1>1, <2>1, SubmitStepEffect
  <2>3. SubmitIInv(s)'
    BY <1>1, <2>1, <2>2, SubmitStepKept
  <2> QED
    BY <2>1, <2>2, <2>3, OthersKept DEF SagaIInv
<1>2. ASSUME NEW c \in Cancel, CancelStep(c) PROVE SagaIInv'
  <2>1. c \in Request /\ c \notin Submit /\ CancelIInv(c)
    BY SubmitAssumption DEF Request, SagaIInv
  <2>2. TypeOK' /\ Frame(c)
    BY <1>2, CancelStepEffect
  <2>3. CancelIInv(c)'
    BY <1>2, <2>1, <2>2, CancelStepKept
  <2> QED
    BY <2>1, <2>2, <2>3, OthersKept DEF SagaIInv
<1>3. ASSUME NEW r \in Request, FailStep(r) \/ Crash(r) PROVE SagaIInv'
  <2>1. pc[r] \in Failing => why[r] \in FailingStep
    BY DEF SagaIInv, SubmitIInv, FailingStage, CancelIInv, Request, FailingStep
  <2>2. TypeOK' /\ Frame(r)
    BY <1>3, <2>1, FailStepEffect, CrashEffect
  <2>3. CASE r \in Submit
    <3>1. r \notin Cancel /\ SubmitIInv(r)
      BY <2>3, SubmitAssumption DEF SagaIInv
    <3>2. SubmitIInv(r)'
      BY <1>3, <2>2, <2>3, <3>1, SubmitFailKept
    <3> QED
      BY <2>2, <3>1, <3>2, OthersKept DEF SagaIInv
  <2>4. CASE r \in Cancel
    <3>1. r \notin Submit /\ CancelIInv(r)
      BY <2>4, SubmitAssumption DEF SagaIInv
    <3>2. CancelIInv(r)'
      BY <1>3, <2>2, <2>4, <3>1, CancelFailKept
    <3> QED
      BY <2>2, <3>1, <3>2, OthersKept DEF SagaIInv
  <2> QED
    BY <2>3, <2>4 DEF Request
<1>4. CASE OrderList \/ \E s \in Submit : OrderMoves(s)
  <2>1. /\ TypeOK' /\ UNCHANGED <<pc, why, saga, target>>
        /\ \A d \in Submit : OrderGoesOn(d)
    BY <1>4, SurroundingsEffect
  <2>2. ASSUME NEW s \in Submit PROVE SubmitIInv(s)'
    BY <2>1, SubmitAsideKept DEF SagaIInv
  <2>3. ASSUME NEW c \in Cancel PROVE CancelIInv(c)'
    <3>1. target[c] \in Submit
      BY DEF TypeOK
    <3>2. CancelStays(target[c])
      BY <2>1, <3>1 DEF OrderGoesOn, CancelStays
    <3> QED
      BY <2>1, <3>2, CancelAsideKept DEF SagaIInv
  <2> QED
    BY <2>1, <2>2, <2>3 DEF SagaIInv
<1>5. CASE UNCHANGED vars
  <2>1. TypeOK'
    BY <1>5 DEF vars, TypeOK
  <2>2. ASSUME NEW s \in Submit PROVE SubmitIInv(s)'
    BY <1>5, <2>1, SubmitAsideKept DEF vars, SagaIInv, OrderGoesOn
  <2>3. ASSUME NEW c \in Cancel PROVE CancelIInv(c)'
    BY <1>5, <2>1, CancelAsideKept DEF vars, SagaIInv, CancelStays
  <2> QED
    BY <2>1, <2>2, <2>3 DEF SagaIInv
<1> QED
  BY <1>1, <1>2, <1>3, <1>4, <1>5 DEF Next

\* The stage of every handler and its record agree at any time.
LEMMA SagaInvariant == Spec => []SagaIInv
BY SagaInit, SagaStep, PTL DEF Spec

-----------------------------------------------------------------------------
(* What it says.                                                           *)

\* The variables of the sagas keep their types: the failed step and the outcome
\* of a compensation share a variable, and neither is ever taken for the other.
THEOREM SagaTypes == Spec => []TypeOK
<1>1. SagaIInv => TypeOK
  BY DEF SagaIInv
<1> QED
  BY <1>1, SagaInvariant, PTL

\* No order at the broker without a risk check on record, whatever fails.
THEOREM GatedOrders == Spec => []OnlyGatedOrdersTrade
<1>1. SagaIInv => OnlyGatedOrdersTrade
  BY DEF SagaIInv, SubmitIInv, SubmitRecord, OnlyGatedOrdersTrade
<1> QED
  BY <1>1, SagaInvariant, PTL

\* The outbox tells one story about each submit.
THEOREM OneOutcome == Spec => []OneOutcomePerSubmit
<1>1. ASSUME SagaIInv, NEW s \in Submit
      PROVE  Cardinality(saga[s].events \intersect Outcomes) <= 1
  <2> DEFINE told == saga[s].events \intersect Outcomes
  <2>1. \A a, b \in told : a = b
    BY <1>1 DEF SagaIInv, SubmitIInv, SubmitRecord
  <2>2. CASE told = {}
    BY <2>2, FS_EmptySet
  <2>3. CASE told # {}
    <3>1. PICK a \in told : told = {a}
      BY <2>1, <2>3
    <3> QED
      BY <3>1, FS_Singleton
  <2> QED
    BY <2>2, <2>3
<1>2. SagaIInv => OneOutcomePerSubmit
  BY <1>1 DEF SagaIInv, SubmitIInv, SubmitRecord, OneOutcomePerSubmit, Outcomes
<1> QED
  BY <1>2, SagaInvariant, PTL

\* A completed submit has everything it stands for on record.
THEOREM CompletedHasEvidence == Spec => []CompletedSubmitHasEvidence
<1>1. SagaIInv => CompletedSubmitHasEvidence
  BY DEF SagaIInv, SubmitIInv, SubmitRecord, CompletedSubmitHasEvidence
<1> QED
  BY <1>1, SagaInvariant, PTL

\* What the sagas call cancelled, the broker has agreed to cancel.
THEOREM CancelTaken == Spec => []CancelWasTaken
<1>1. SagaIInv => CancelWasTaken
  BY DEF SagaIInv, SubmitIInv, SubmitRecord, CancelIInv, CancelWasTaken
<1> QED
  BY <1>1, SagaInvariant, PTL

\* The caller's answer agrees with the saga and the outbox.
THEOREM AnswerOnRecord == Spec => []AnswerMatchesRecord
<1>1. ASSUME SagaIInv, NEW s \in Submit
      PROVE  /\ pc[s] = "ok" => saga[s].status = "completed"
             /\ pc[s] = "refused" /\ s \notin AutoOnLive =>
                  /\ saga[s].status \in {"failed", "risk_rejected"}
                  /\ saga[s].events \intersect {"failed", "rejected", "cancel_failed"} # {}
             /\ pc[s] = "compensated" =>
                  /\ saga[s].status = "failed" /\ saga[s].compensation = why[s]
                  /\ "compensated" \in saga[s].events
  BY <1>1 DEF SagaIInv, SubmitIInv, PlacedStage, UndoingStage, FailingStage, Posted, Undoing,
              FinalStatus, FinalEvent
<1>2. ASSUME SagaIInv, NEW c \in Cancel
      PROVE  /\ pc[c] = "ok" => saga[c].status = "completed"
             /\ pc[c] = "refused" => saga[c].status = "failed" /\ "cancel_failed" \in saga[c].events
             /\ pc[c] # "compensated"
  BY <1>2 DEF SagaIInv, CancelIInv, Closing, Failing
<1>3. SagaIInv => AnswerMatchesRecord
  BY <1>1, <1>2 DEF AnswerMatchesRecord, Request
<1> QED
  BY <1>3, SagaInvariant, PTL

-----------------------------------------------------------------------------
(* The projection.                                                         *)

\* How an order, its projection and the copy of it that an order-list request
\* holds may change in one step.
Evolves(d) ==
  /\ \/ order'[d] = order[d]
     \/ order[d] = "none" /\ order'[d] = "new"
     \/ order[d] \in {"new", "pendingcancel"} /\ order'[d] \in {"pendingcancel"} \union Ended
  /\ \/ projection'[d] = projection[d]
     \/ projection'[d] = "submitted" /\ order[d] # "none" /\ order'[d] = order[d]
     \/ projection'[d] = "cancelled" /\ order[d] \notin {"none", "new"} /\ order'[d] = order[d]
     \/ projection'[d] = fetched[d] /\ fetched[d] # "nothing" /\ order'[d] = order[d]
  /\ \/ fetched'[d] \in {fetched[d], "nothing"}
     \/ fetched'[d] = order[d] /\ order[d] # "none" /\ order'[d] = order[d]

\* A step of a submit projects only what happened to its order.
LEMMA SubmitStepEvolves ==
  ASSUME SagaIInv, NEW s \in Submit, SubmitStep(s), NEW d \in Submit
  PROVE  Evolves(d)
<1> TypeOK /\ SubmitIInv(s)
  BY DEF SagaIInv
<1>1. CASE UNCHANGED <<order, projection, fetched>>
  BY <1>1 DEF Evolves
<1>2. CASE SubmitToBroker(s)
  <2>1. order[s] = "none"
    BY <1>2 DEF SubmitToBroker, GoTo, GiveUp, SubmitIInv, EarlyStage, Early
  <2> QED
    BY <1>2, <2>1 DEF SubmitToBroker, Evolves, TypeOK
<1>3. CASE ProjectPlaced(s)
  <2>1. order[s] # "none"
    BY <1>3 DEF ProjectPlaced, Project, Transaction, SubmitIInv, PlacedStage, Posted
  <2> QED
    BY <1>3, <2>1 DEF ProjectPlaced, Project, Evolves, TypeOK
<1>4. CASE Compensate(s)
  BY <1>4 DEF Compensate, BrokerCancel, Evolves, TypeOK
<1> QED
  BY <1>1, <1>2, <1>3, <1>4
  DEF SubmitStep, RefuseAutoOrder, CreateSubmitSaga, RecordContext, LoadReferencePrice,
      CompleteReferencePrice, RunRiskCheck, PassRiskGate, RecordPlaced, AnnouncePlaced,
      CompleteSubmit, RecordCompensation, SettleCompensation, AnnounceCompensation, Write

\* A step of a cancel projects a cancellation only after the broker took it.
LEMMA CancelStepEvolves ==
  ASSUME SagaIInv, NEW c \in Cancel, CancelStep(c), NEW d \in Submit
  PROVE  Evolves(d)
<1> TypeOK /\ CancelIInv(c) /\ target[c] \in Submit
  BY DEF SagaIInv, TypeOK
<1>1. CASE UNCHANGED <<order, projection, fetched>>
  BY <1>1 DEF Evolves
<1>2. CASE AskBrokerToCancel(c)
  BY <1>2 DEF AskBrokerToCancel, BrokerCancel, Evolves, TypeOK
<1>3. CASE ProjectCancelled(c)
  <2>1. order[target[c]] \notin {"none", "new"}
    BY <1>3 DEF ProjectCancelled, Project, Transaction, CancelIInv, Closing
  <2> QED
    BY <1>3, <2>1 DEF ProjectCancelled, Project, Evolves, TypeOK
<1> QED
  BY <1>1, <1>2, <1>3
  DEF CancelStep, CreateCancelSaga, RecordCancelStart, RecordTaken, CompleteCancel,
      AnnounceCancelled, Write

\* No step of any kind invents a projection.
LEMMA StepEvolves ==
  ASSUME SagaIInv, [Next]_vars, NEW d \in Submit
  PROVE  Evolves(d)
<1> TypeOK
  BY DEF SagaIInv
<1>1. CASE \E s \in Submit : SubmitStep(s)
  BY <1>1, SubmitStepEvolves
<1>2. CASE \E c \in Cancel : CancelStep(c)
  BY <1>2, CancelStepEvolves
<1>3. CASE \E r \in Request : FailStep(r) \/ Crash(r)
  BY <1>3 DEF FailStep, RecordFailedStep, SettleFailed, AnnounceFailed, Crash, Write, Evolves
<1>4. CASE \E s \in Submit : OrderMoves(s)
  BY <1>4 DEF OrderMoves, Evolves, TypeOK, Ended
<1>5. ASSUME NEW filter, FetchLiveOrders(filter) PROVE Evolves(d)
  BY <1>5 DEF FetchLiveOrders, Evolves
<1>6. ASSUME NEW s \in Submit, BackfillProjection(s) PROVE Evolves(d)
  BY <1>6 DEF BackfillProjection, Evolves, TypeOK
<1>7. CASE UNCHANGED vars
  BY <1>7 DEF vars, Evolves
<1> QED
  BY <1>1, <1>2, <1>3, <1>4, <1>5, <1>6, <1>7 DEF Next, OrderList

\* The projection shows nothing that did not happen, although it is written by
\* three kinds of handlers from data of different ages.
THEOREM ProjectionSound == Spec => []ProjectionIsNotInvented
<1>1. Init => ProjectionIInv
  BY SagaInit DEF Init, ProjectionIInv, CopyIsSound, Ended
<1>2. ProjectionIInv /\ [Next]_vars => ProjectionIInv'
  <2> SUFFICES ASSUME ProjectionIInv, [Next]_vars PROVE ProjectionIInv'
    OBVIOUS
  <2>1. SagaIInv /\ SagaIInv'
    BY SagaStep DEF ProjectionIInv
  <2>2. ASSUME NEW d \in Submit
        PROVE  CopyIsSound(d, projection[d])' /\ CopyIsSound(d, fetched[d])'
    <3>1. Evolves(d)
      BY <2>1, <2>2, StepEvolves
    <3> QED
      BY <2>2, <3>1 DEF ProjectionIInv, CopyIsSound, Evolves, Ended
  <2> QED
    BY <2>1, <2>2 DEF ProjectionIInv
<1>3. ProjectionIInv => ProjectionIsNotInvented
  BY DEF ProjectionIInv, SagaIInv, TypeOK, LiveStatus, Ended, CopyIsSound, ProjectionIsNotInvented
<1> QED
  BY <1>1, <1>2, <1>3, PTL DEF Spec

-----------------------------------------------------------------------------
(* Announcements.                                                          *)

\* A step records at most one event for its request.
Announces(r) ==
  \/ saga'[r].events = saga[r].events
  \/ \E event \in EventType : saga'[r].events = saga[r].events \union {event}

\* A step of a submit announces at most one event, and only what its record says.
LEMMA SubmitStepTold ==
  ASSUME TypeOK, TypeOK', NEW s \in Submit, SubmitIInv(s), SubmitStory(s), SubmitStep(s)
  PROVE  SubmitStory(s)' /\ Announces(s)
<1> s \in Request /\ saga[s] \in SagaRow /\ saga'[s] \in SagaRow
  BY DEF Request, TypeOK
<1> USE Labels DEF SubmitStory, Undoing, Announces
<1>1. CASE RefuseAutoOrder(s)
  BY <1>1, GoToEffect, NoRow DEF RefuseAutoOrder
<1>2. CASE CreateSubmitSaga(s)
  <2>1. PICK to \in {"context", "price"} : Write(s, "idle", NewSaga("requested"), to, "broken")
    BY <1>2 DEF CreateSubmitSaga
  <2>2. LET new == NewSaga("requested") IN
        /\ new \in SagaRow /\ new.status = "pending" /\ new.events = {"requested"}
    BY NewRow DEF EventType
  <2>3. "requested" \in EventType
    BY DEF EventType
  <2> QED
    BY <1>2, <2>1, <2>2, <2>3, WriteEffect, NoRow DEF CreateSubmitSaga
<1>3. CASE RecordContext(s)
  <2>1. StepAdded(WithStep(saga[s], "strategy_context", "completed"), saga[s], <<"strategy_context", "completed">>)
    BY RowWriters DEF StepName
  <2> QED
    BY <1>3, <2>1, WriteEffect DEF RecordContext, StepAdded
<1>4. CASE LoadReferencePrice(s)
  BY <1>4, GoToEffect, GiveUpEffect DEF LoadReferencePrice, FailingStep
<1>5. CASE CompleteReferencePrice(s)
  <2>1. StepAdded(WithStep(saga[s], "reference_price", "completed"), saga[s], <<"reference_price", "completed">>)
    BY RowWriters DEF StepName, FailingStep
  <2> QED
    BY <1>5, <2>1, WriteEffect DEF CompleteReferencePrice, StepAdded
<1>6. CASE RunRiskCheck(s)
  BY <1>6, GoToEffect, GiveUpEffect DEF RunRiskCheck, FailingStep
<1>7. CASE PassRiskGate(s)
  <2>1. StepAdded(WithStep(saga[s], "risk_check", "completed"), saga[s], <<"risk_check", "completed">>)
    BY RowWriters DEF StepName, FailingStep
  <2> QED
    BY <1>7, <2>1, WriteEffect DEF PassRiskGate, StepAdded
<1>8. CASE SubmitToBroker(s)
  BY <1>8, GoToEffect, GiveUpEffect DEF SubmitToBroker, FailingStep
<1>9. CASE RecordPlaced(s)
  <2>1. StepAdded(WithStep(saga[s], "broker_submit", "completed"), saga[s], <<"broker_submit", "completed">>)
    BY RowWriters DEF StepName, FailingStep
  <2> QED
    BY <1>9, <2>1, WriteEffect DEF RecordPlaced, StepAdded
<1>10. CASE ProjectPlaced(s)
  <2>1. /\ pc[s] = "project" /\ pc'[s] \in {"announce", "compensate"}
        /\ projection'[s] = "submitted" \/ (projection'[s] = projection[s] /\ pc'[s] = "compensate")
        /\ saga'[s] = saga[s]
    BY <1>10, ProjectPlacedEffect
  <2> QED
    BY <2>1
<1>11. CASE AnnouncePlaced(s)
  <2>1. EventAdded(WithEvent(saga[s], "submitted"), saga[s], "submitted") /\ "submitted" \in EventType
    BY RowWriters DEF EventType
  <2>2. /\ pc[s] = "announce" /\ order[s] # "none" /\ projection[s] # "absent"
        /\ <<"risk_check", "completed">> \in saga[s].steps
    BY <1>11 DEF AnnouncePlaced, Write, Transaction, SubmitIInv, PlacedStage, Posted
  <2> QED
    BY <1>11, <2>1, <2>2, WriteEffect DEF AnnouncePlaced, EventAdded
<1>12. CASE CompleteSubmit(s)
  <2>1. StatusSet(WithStatus(saga[s], "completed"), saga[s], "completed")
    BY RowWriters
  <2> QED
    BY <1>12, <2>1, WriteEffect DEF CompleteSubmit, StatusSet
<1>13. CASE Compensate(s)
  <2>1. \E taken \in BOOLEAN : BrokerCancel(s, taken)
    BY <1>13 DEF Compensate
  <2>2. order'[s] = order[s] \/ order'[s] # "none"
    BY <2>1, BrokerCancelEffect
  <2> QED
    BY <1>13, <2>2, GoToEffect DEF Compensate
<1>14. CASE RecordCompensation(s)
  <2> DEFINE outcome == IF why[s] = "cancelled" THEN "completed" ELSE "failed"
  <2>1. StepAdded(WithStep(saga[s], "compensation", outcome), saga[s], <<"compensation", outcome>>)
    BY RowWriters DEF StepName
  <2> QED
    BY <1>14, <2>1, WriteEffect DEF RecordCompensation, StepAdded
<1>15. CASE SettleCompensation(s)
  <2>1. pc[s] = "comp_status" /\ why[s] \in Compensation
    BY <1>15 DEF SettleCompensation, Write, Transaction, SubmitIInv, UndoingStage
  <2>2. OutcomeSet(CompensatedRow(saga[s], why[s]), saga[s], why[s])
    BY <2>1, RowWriters
  <2> QED
    BY <1>15, <2>1, <2>2, WriteEffect DEF SettleCompensation, OutcomeSet, Compensation
<1>16. CASE AnnounceCompensation(s)
  <2>1. EventAdded(WithEvent(saga[s], "compensated"), saga[s], "compensated") /\ "compensated" \in EventType
    BY RowWriters DEF EventType
  <2>2. pc[s] = "comp_event" /\ saga[s].status = "failed" /\ saga[s].compensation \in Compensation
    BY <1>16 DEF AnnounceCompensation, Write, Transaction, SubmitIInv, UndoingStage
  <2> QED
    BY <1>16, <2>1, <2>2, WriteEffect DEF AnnounceCompensation, EventAdded, Compensation
<1> QED
  BY <1>1, <1>2, <1>3, <1>4, <1>5, <1>6, <1>7, <1>8, <1>9, <1>10, <1>11, <1>12, <1>13, <1>14,
     <1>15, <1>16 DEF SubmitStep

\* A failing submit announces its end after its row says so.
LEMMA SubmitFailTold ==
  ASSUME TypeOK, TypeOK', NEW s \in Submit, SubmitIInv(s), SubmitStory(s), FailStep(s) \/ Crash(s)
  PROVE  SubmitStory(s)' /\ Announces(s)
<1> s \in Request /\ saga[s] \in SagaRow /\ saga'[s] \in SagaRow
  BY DEF Request, TypeOK
<1> USE Labels DEF SubmitStory, Undoing, Announces
<1>0. pc[s] \in Failing =>
        /\ why[s] \in {"reference_price", "risk_check", "broker_submit"}
        /\ saga[s].compensation = "null" /\ saga[s].events \subseteq {"requested", FinalEvent(why[s])}
        /\ pc[s] = "fail_event" => saga[s].status = FinalStatus(why[s])
  BY DEF SubmitIInv, FailingStage
<1>1. CASE RecordFailedStep(s)
  <2>1. pc[s] = "fail_step" /\ why[s] \in FailingStep
    BY <1>0, <1>1 DEF RecordFailedStep, Write, Transaction, FailingStep, Failing
  <2>2. StepAdded(WithStep(saga[s], why[s], "failed"), saga[s], <<why[s], "failed">>)
    BY <2>1, RowWriters DEF StepName
  <2> QED
    BY <1>1, <2>1, <2>2, WriteEffect DEF RecordFailedStep, StepAdded
<1>2. CASE SettleFailed(s)
  <2>1. pc[s] = "fail_status" /\ FinalStatus(why[s]) \in {"risk_rejected", "failed"}
    BY <1>2 DEF SettleFailed, Write, Transaction, FinalStatus
  <2>2. StatusSet(WithStatus(saga[s], FinalStatus(why[s])), saga[s], FinalStatus(why[s]))
    BY <2>1, RowWriters
  <2> QED
    BY <1>2, <2>1, <2>2, WriteEffect DEF SettleFailed, StatusSet
<1>3. CASE AnnounceFailed(s)
  <2>1. pc[s] = "fail_event"
    BY <1>3 DEF AnnounceFailed, Write, Transaction
  <2>2. /\ saga[s].status = FinalStatus(why[s]) /\ saga[s].compensation = "null"
        /\ FinalEvent(why[s]) \in EventType
        /\ \/ FinalEvent(why[s]) = "rejected" /\ FinalStatus(why[s]) = "risk_rejected"
           \/ FinalEvent(why[s]) = "failed" /\ FinalStatus(why[s]) = "failed"
    BY <1>0, <2>1 DEF Failing, FinalEvent, FinalStatus, EventType
  <2>3. EventAdded(WithEvent(saga[s], FinalEvent(why[s])), saga[s], FinalEvent(why[s]))
    BY <2>2, RowWriters
  <2> QED
    BY <1>3, <2>1, <2>2, <2>3, WriteEffect DEF AnnounceFailed, EventAdded
<1>4. CASE Crash(s)
  BY <1>4 DEF Crash, TypeOK, Stopped, Answer
<1> QED
  BY <1>1, <1>2, <1>3, <1>4 DEF FailStep

\* A cancel announces its end after its row says so, whichever end it is.
LEMMA CancelTold ==
  ASSUME TypeOK, TypeOK', NEW c \in Cancel, CancelIInv(c), CancelStory(c),
         CancelStep(c) \/ FailStep(c) \/ Crash(c)
  PROVE  CancelStory(c)' /\ Announces(c)
<1> c \in Request /\ saga[c] \in SagaRow /\ saga'[c] \in SagaRow
  BY DEF Request, TypeOK
<1> USE Labels DEF CancelStory, Announces
<1>0. pc[c] \in Failing => /\ why[c] \in FailingStep /\ FinalStatus(why[c]) = "failed"
                           /\ FinalEvent(why[c]) = "cancel_failed"
  BY DEF CancelIInv, FailingStep, FinalStatus, FinalEvent
<1>1. CASE CreateCancelSaga(c)
  <2>1. LET new == NewSaga("cancel_requested") IN
        new \in SagaRow /\ new.status = "pending" /\ new.events = {"cancel_requested"}
    BY NewRow DEF EventType
  <2>2. "cancel_requested" \in EventType
    BY DEF EventType
  <2> QED
    BY <1>1, <2>1, <2>2, WriteEffect, NoRow DEF CreateCancelSaga
<1>2. CASE RecordCancelStart(c)
  <2>1. StepAdded(WithStep(saga[c], "cancel_validate", "completed"), saga[c],
                  <<"cancel_validate", "completed">>)
    BY RowWriters DEF StepName
  <2> QED
    BY <1>2, <2>1, WriteEffect DEF RecordCancelStart, StepAdded
<1>3. CASE AskBrokerToCancel(c)
  <2>1. saga' = saga
    BY <1>3 DEF AskBrokerToCancel
  <2>2. pc[c] = "ask" /\ pc'[c] \in {"taken", "fail_step"}
    BY <1>3, GoToEffect, GiveUpEffect DEF AskBrokerToCancel, FailingStep
  <2> QED
    BY <2>1, <2>2
<1>4. CASE RecordTaken(c)
  <2>1. StepAdded(WithStep(saga[c], "broker_cancel", "completed"), saga[c],
                  <<"broker_cancel", "completed">>)
    BY RowWriters DEF StepName, FailingStep
  <2> QED
    BY <1>4, <2>1, WriteEffect DEF RecordTaken, StepAdded
<1>5. CASE CompleteCancel(c)
  <2>1. StatusSet(WithStatus(saga[c], "completed"), saga[c], "completed")
    BY RowWriters
  <2> QED
    BY <1>5, <2>1, WriteEffect DEF CompleteCancel, StatusSet
<1>6. CASE AnnounceCancelled(c)
  <2>1. EventAdded(WithEvent(saga[c], "cancelled"), saga[c], "cancelled") /\ "cancelled" \in EventType
    BY RowWriters DEF EventType
  <2>2. pc[c] = "cancel_event" /\ saga[c].status = "completed"
    BY <1>6 DEF AnnounceCancelled, Write, Transaction, CancelIInv, Closing
  <2> QED
    BY <1>6, <2>1, <2>2, WriteEffect DEF AnnounceCancelled, EventAdded
<1>7. CASE ProjectCancelled(c)
  BY <1>7 DEF ProjectCancelled, Project, Transaction, TypeOK
<1>8. CASE RecordFailedStep(c)
  <2>1. pc[c] = "fail_step"
    BY <1>8 DEF RecordFailedStep, Write, Transaction
  <2>2. StepAdded(WithStep(saga[c], why[c], "failed"), saga[c], <<why[c], "failed">>)
    BY <1>0, <2>1, RowWriters DEF StepName, Failing
  <2> QED
    BY <1>8, <2>1, <2>2, WriteEffect DEF RecordFailedStep, StepAdded
<1>9. CASE SettleFailed(c)
  <2>1. pc[c] = "fail_status"
    BY <1>9 DEF SettleFailed, Write, Transaction
  <2>2. StatusSet(WithStatus(saga[c], FinalStatus(why[c])), saga[c], "failed")
    BY <1>0, <2>1, RowWriters DEF Failing
  <2> QED
    BY <1>9, <2>1, <2>2, WriteEffect DEF SettleFailed, StatusSet
<1>10. CASE AnnounceFailed(c)
  <2>1. pc[c] = "fail_event" /\ saga[c].status = "failed" /\ "cancel_failed" \in EventType
    BY <1>10 DEF AnnounceFailed, Write, Transaction, CancelIInv, EventType
  <2>2. EventAdded(WithEvent(saga[c], FinalEvent(why[c])), saga[c], "cancel_failed")
    BY <1>0, <2>1, RowWriters DEF EventType, Failing
  <2> QED
    BY <1>10, <2>1, <2>2, WriteEffect DEF AnnounceFailed, EventAdded
<1>11. CASE Crash(c)
  BY <1>11 DEF Crash, TypeOK, Stopped, Answer
<1> QED
  BY <1>1, <1>2, <1>3, <1>4, <1>5, <1>6, <1>7, <1>8, <1>9, <1>10, <1>11 DEF CancelStep, FailStep

\* The stories of the requests that a step of r leaves alone.
LEMMA OtherStoriesKept ==
  ASSUME StoryIInv, NEW r \in Request, Frame(r)
  PROVE  /\ \A s \in Submit \ {r} : SubmitStory(s)'
         /\ \A c \in Cancel \ {r} : CancelStory(c)'
BY DEF StoryIInv, Frame, Aside, OrderGoesOn, SubmitStory, CancelStory, Request

\* Only one request announces at a time.
OneAnnouncement ==
  \/ UNCHANGED saga
  \/ \E r \in Request : Announces(r) /\ \A q \in Request \ {r} : saga'[q] = saga[q]

\* Every step keeps the stories, and adds at most one event to the outbox.
LEMMA StoryStep == StoryIInv /\ [Next]_vars => StoryIInv' /\ OneAnnouncement
<1> SUFFICES ASSUME StoryIInv, [Next]_vars PROVE StoryIInv' /\ OneAnnouncement
  OBVIOUS
<1>0. SagaIInv /\ SagaIInv' /\ TypeOK /\ TypeOK'
  BY SagaStep DEF StoryIInv, SagaIInv
<1>1. ASSUME NEW r \in Request, Frame(r),
             r \in Submit => SubmitStory(r)' /\ Announces(r),
             r \in Cancel => CancelStory(r)' /\ Announces(r)
      PROVE  StoryIInv' /\ OneAnnouncement
  <2>1. OneAnnouncement
    BY <1>1 DEF OneAnnouncement, Frame, Aside, Request
  <2> QED
    BY <1>0, <1>1, <2>1, OtherStoriesKept DEF StoryIInv
<1>2. ASSUME NEW s \in Submit, SubmitStep(s) PROVE StoryIInv' /\ OneAnnouncement
  <2>1. s \in Request /\ s \notin Cancel /\ SubmitIInv(s) /\ SubmitStory(s)
    BY SubmitAssumption DEF Request, SagaIInv, StoryIInv
  <2>2. SubmitStory(s)' /\ Announces(s) /\ Frame(s)
    BY <1>0, <1>2, <2>1, SubmitStepTold, SubmitStepEffect
  <2> QED
    BY <1>1, <2>1, <2>2
<1>3. ASSUME NEW c \in Cancel, CancelStep(c) PROVE StoryIInv' /\ OneAnnouncement
  <2>1. c \in Request /\ c \notin Submit /\ CancelIInv(c) /\ CancelStory(c)
    BY SubmitAssumption DEF Request, SagaIInv, StoryIInv
  <2>2. CancelStory(c)' /\ Announces(c) /\ Frame(c)
    BY <1>0, <1>3, <2>1, CancelTold, CancelStepEffect
  <2> QED
    BY <1>1, <2>1, <2>2
<1>4. ASSUME NEW r \in Request, FailStep(r) \/ Crash(r) PROVE StoryIInv' /\ OneAnnouncement
  <2>1. pc[r] \in Failing => why[r] \in FailingStep
    BY <1>0 DEF SagaIInv, SubmitIInv, FailingStage, CancelIInv, Request, FailingStep
  <2>2. Frame(r)
    BY <1>0, <1>4, <2>1, FailStepEffect, CrashEffect
  <2>3. r \in Submit => SubmitStory(r)' /\ Announces(r)
    BY <1>0, <1>4, SubmitFailTold DEF SagaIInv, StoryIInv
  <2>4. r \in Cancel => CancelStory(r)' /\ Announces(r)
    BY <1>0, <1>4, CancelTold DEF SagaIInv, StoryIInv
  <2> QED
    BY <1>1, <2>2, <2>3, <2>4
<1>5. CASE OrderList \/ \E s \in Submit : OrderMoves(s)
  <2>1. UNCHANGED <<pc, why, saga, target>> /\ \A d \in Submit : OrderGoesOn(d)
    BY <1>0, <1>5, SurroundingsEffect
  <2> QED
    BY <1>0, <2>1 DEF StoryIInv, SubmitStory, CancelStory, OrderGoesOn, OneAnnouncement
<1>6. CASE UNCHANGED vars
  BY <1>0, <1>6 DEF vars, StoryIInv, SubmitStory, CancelStory, OneAnnouncement
<1> QED
  BY <1>2, <1>3, <1>4, <1>5, <1>6 DEF Next

\* Every handler's announcements agree with its record at any time.
LEMMA StoryInvariant == Spec => []StoryIInv
<1>1. Init => StoryIInv
  BY SagaInit, NoRow DEF Init, Request, StoryIInv, SubmitStory, CancelStory
<1> QED
  BY <1>1, StoryStep, PTL DEF Spec

\* What the stories say of one event.
LEMMA StoryIsTrue ==
  ASSUME StoryIInv, NEW r \in Request, NEW event \in saga[r].events
  PROVE  AnnouncementIsTrue(r, event)
<1> saga[r] \in SagaRow /\ event \in EventType
  BY DEF StoryIInv, SagaIInv, TypeOK, SagaRow
<1>1. CASE r \in Submit
  <2>1. SubmitIInv(r) /\ SubmitStory(r) /\ SubmitRecord(r)
    BY <1>1 DEF StoryIInv, SagaIInv, SubmitIInv
  <2> QED
    BY <2>1 DEF SubmitStory, SubmitRecord, Outcomes, AnnouncementIsTrue
<1>2. CASE r \in Cancel
  BY <1>2 DEF StoryIInv, SagaIInv, CancelIInv, CancelStory, AnnouncementIsTrue
<1> QED
  BY <1>1, <1>2 DEF Request

\* Every recorded event is true, from its record on.
THEOREM AnnouncementsTrue == Spec => []AnnouncementsAreTrue
<1>1. StoryIInv => AnnouncementsAreTrue
  BY StoryIsTrue DEF AnnouncementsAreTrue
<1> QED
  BY <1>1, StoryInvariant, PTL

-----------------------------------------------------------------------------
(* Completed sagas.                                                        *)

\* A step of its own leaves a completed submit completed, or compensates it.
LEMMA OwnStepLeavesCompleted ==
  ASSUME SagaIInv, NEW s \in Submit, SubmitStep(s), saga[s].status = "completed"
  PROVE  \/ saga'[s].status = "completed"
         \/ saga'[s].status = "failed" /\ saga'[s].compensation \in Compensation
<1> TypeOK /\ SubmitIInv(s) /\ s \in Request /\ saga[s] \in SagaRow
  BY DEF SagaIInv, TypeOK, Request
<1>0. pc[s] \notin Early /\ pc[s] # "idle"
  BY DEF SubmitIInv, EarlyStage, Early
<1>1. CASE RecordPlaced(s)
  <2>1. StepAdded(WithStep(saga[s], "broker_submit", "completed"), saga[s], <<"broker_submit", "completed">>)
    BY RowWriters DEF StepName, FailingStep
  <2> QED
    BY <1>1, <2>1 DEF RecordPlaced, Write, StepAdded, TypeOK
<1>2. CASE AnnouncePlaced(s)
  <2>1. EventAdded(WithEvent(saga[s], "submitted"), saga[s], "submitted")
    BY RowWriters DEF EventType
  <2> QED
    BY <1>2, <2>1 DEF AnnouncePlaced, Write, EventAdded, TypeOK
<1>3. CASE CompleteSubmit(s)
  <2>1. StatusSet(WithStatus(saga[s], "completed"), saga[s], "completed")
    BY RowWriters
  <2> QED
    BY <1>3, <2>1 DEF CompleteSubmit, Write, StatusSet, TypeOK
<1>4. CASE RecordCompensation(s)
  <2> DEFINE outcome == IF why[s] = "cancelled" THEN "completed" ELSE "failed"
  <2>1. StepAdded(WithStep(saga[s], "compensation", outcome), saga[s], <<"compensation", outcome>>)
    BY RowWriters DEF StepName
  <2> QED
    BY <1>4, <2>1 DEF RecordCompensation, Write, StepAdded, TypeOK
<1>5. CASE SettleCompensation(s)
  <2>1. why[s] \in Compensation
    BY <1>5 DEF SettleCompensation, Write, Transaction, SubmitIInv, UndoingStage, Undoing
  <2>2. OutcomeSet(CompensatedRow(saga[s], why[s]), saga[s], why[s])
    BY <2>1, RowWriters
  <2> QED
    BY <1>5, <2>1, <2>2 DEF SettleCompensation, Write, OutcomeSet, TypeOK
<1>6. CASE AnnounceCompensation(s)
  <2>1. EventAdded(WithEvent(saga[s], "compensated"), saga[s], "compensated")
    BY RowWriters DEF EventType
  <2> QED
    BY <1>6, <2>1 DEF AnnounceCompensation, Write, EventAdded, TypeOK
<1>7. CASE UNCHANGED saga
  BY <1>7
<1>8. ~(CreateSubmitSaga(s) \/ RecordContext(s) \/ CompleteReferencePrice(s) \/ PassRiskGate(s))
  BY <1>0 DEF Early, CreateSubmitSaga, RecordContext, CompleteReferencePrice, PassRiskGate, Write, Transaction
<1> QED
  BY <1>1, <1>2, <1>3, <1>4, <1>5, <1>6, <1>7, <1>8
  DEF SubmitStep, RefuseAutoOrder, LoadReferencePrice, RunRiskCheck, SubmitToBroker, ProjectPlaced,
      Project, Compensate

\* A step of its own leaves a completed cancel completed.
LEMMA OwnStepLeavesCancelled ==
  ASSUME SagaIInv, NEW c \in Cancel, CancelStep(c), saga[c].status = "completed"
  PROVE  saga'[c].status = "completed"
<1> TypeOK /\ CancelIInv(c) /\ c \in Request /\ saga[c] \in SagaRow
  BY DEF SagaIInv, TypeOK, Request
<1>0. pc[c] \notin {"idle", "validate", "ask"}
  BY DEF CancelIInv
<1>1. CASE RecordTaken(c)
  <2>1. StepAdded(WithStep(saga[c], "broker_cancel", "completed"), saga[c], <<"broker_cancel", "completed">>)
    BY RowWriters DEF StepName, FailingStep
  <2> QED
    BY <1>1, <2>1 DEF RecordTaken, Write, StepAdded, TypeOK
<1>2. CASE CompleteCancel(c)
  <2>1. StatusSet(WithStatus(saga[c], "completed"), saga[c], "completed")
    BY RowWriters
  <2> QED
    BY <1>2, <2>1 DEF CompleteCancel, Write, StatusSet, TypeOK
<1>3. CASE AnnounceCancelled(c)
  <2>1. EventAdded(WithEvent(saga[c], "cancelled"), saga[c], "cancelled")
    BY RowWriters DEF EventType
  <2> QED
    BY <1>3, <2>1 DEF AnnounceCancelled, Write, EventAdded, TypeOK
<1>4. CASE UNCHANGED saga
  BY <1>4
<1>5. ~(CreateCancelSaga(c) \/ RecordCancelStart(c))
  BY <1>0 DEF CreateCancelSaga, RecordCancelStart, Write, Transaction
<1> QED
  BY <1>1, <1>2, <1>3, <1>4, <1>5 DEF CancelStep, AskBrokerToCancel, ProjectCancelled, Project

\* A completed saga changes only into a compensated one.
THEOREM CompletedStays == Spec => CompletedIsLeftOnlyByCompensation
<1> DEFINE Left(r) == \/ saga'[r].status = "completed"
                      \/ saga'[r].status = "failed" /\ saga'[r].compensation \in Compensation
<1>1. ASSUME SagaIInv, [Next]_vars, NEW r \in Request, saga[r].status = "completed" PROVE Left(r)
  <2> TypeOK
    BY <1>1 DEF SagaIInv
  <2>1. CASE UNCHANGED saga
    BY <1>1, <2>1
  <2>2. ASSUME NEW s \in Submit, SubmitStep(s) PROVE Left(r)
    <3>1. s \in Request /\ Frame(s)
      BY <1>1, <2>2, SubmitStepEffect DEF SagaIInv, Request
    <3> QED
      BY <1>1, <2>2, <3>1, OwnStepLeavesCompleted DEF Frame, Aside
  <2>3. ASSUME NEW c \in Cancel, CancelStep(c) PROVE Left(r)
    <3>1. c \in Request /\ Frame(c)
      BY <1>1, <2>3, CancelStepEffect DEF SagaIInv, Request
    <3> QED
      BY <1>1, <2>3, <3>1, OwnStepLeavesCancelled DEF Frame, Aside
  <2>4. ASSUME NEW q \in Request, FailStep(q) PROVE Left(r)
    <3>1. pc[q] \in Failing
      BY <2>4 DEF FailStep, RecordFailedStep, SettleFailed, AnnounceFailed, Write, Transaction, Failing
    <3>2. saga[q].status # "completed" /\ why[q] \in FailingStep
      BY <1>1, <3>1 DEF SagaIInv, SubmitIInv, CancelIInv, FailingStage, Request, Failing, FailingStep
    <3>3. Frame(q)
      BY <2>4, <3>2, FailStepEffect
    <3> QED
      BY <1>1, <3>2, <3>3 DEF Frame, Aside
  <2> QED
    BY <1>1, <2>1, <2>2, <2>3, <2>4
    DEF Next, vars, Crash, OrderList, FetchLiveOrders, BackfillProjection, OrderMoves
<1>2. SagaIInv /\ [Next]_vars =>
        [\A r \in Request : saga[r].status = "completed" => Left(r)]_vars
  BY <1>1
<1> QED
  BY <1>2, SagaInvariant, PTL DEF Spec, CompletedIsLeftOnlyByCompensation
-----------------------------------------------------------------------------
(* The pipeline from the sagas to the inbox.                               *)

\* The pipeline leaves the sagas as they are: whatever is proved of them holds in it.
THEOREM PipelineKeepsSagas == PipelineSpec => Spec
<1>1. PipelineInit => Init
  BY DEF PipelineInit
<1>2. [PipelineNext]_pipelineVars => [Next]_vars
  BY DEF PipelineNext, HandlerStep, RelayStep, ConsumeLoop, pipelineVars
<1> QED
  BY <1>1, <1>2, PTL DEF PipelineSpec, Spec

\* The stories hold in the pipeline, and a step of it announces at most one event.
LEMMA PipelineStory == PipelineSpec => []StoryIInv
BY PipelineKeepsSagas, StoryInvariant, PTL

\* Events are recorded for good, and a step records at most one.
LEMMA RecordedGrows ==
  ASSUME StoryIInv, [Next]_vars
  PROVE  \/ \A a \in Announcement : Recorded(a)' <=> Recorded(a)
         \/ \E new \in Announcement :
              \A a \in Announcement : Recorded(a)' <=> (Recorded(a) \/ a = new)
<1>1. OneAnnouncement
  BY StoryStep
<1>2. CASE UNCHANGED saga
  BY <1>2 DEF Recorded
<1>3. ASSUME NEW r \in Request, Announces(r), \A q \in Request \ {r} : saga'[q] = saga[q]
      PROVE  \/ \A a \in Announcement : Recorded(a)' <=> Recorded(a)
             \/ \E new \in Announcement :
                  \A a \in Announcement : Recorded(a)' <=> (Recorded(a) \/ a = new)
  <2>1. CASE saga'[r].events = saga[r].events
    BY <1>3, <2>1 DEF Recorded, Announcement
  <2>2. ASSUME NEW event \in EventType, saga'[r].events = saga[r].events \union {event}
        PROVE  \E new \in Announcement :
                 \A a \in Announcement : Recorded(a)' <=> (Recorded(a) \/ a = new)
    <3>1. <<r, event>> \in Announcement
      BY DEF Announcement
    <3>2. ASSUME NEW a \in Announcement PROVE Recorded(a)' <=> (Recorded(a) \/ a = <<r, event>>)
      <4>1. PICK q \in Request, f \in EventType : a = <<q, f>>
        BY DEF Announcement
      <4> QED
        BY <1>3, <2>2, <4>1 DEF Recorded
    <3> QED
      BY <3>1, <3>2
  <2> QED
    BY <1>3, <2>1, <2>2 DEF Announces
<1> QED
  BY <1>1, <1>2, <1>3 DEF OneAnnouncement

\* A step of the sagas is, for the outbox, the record of one event or nothing.
LEMMA HandlerStepRecords ==
  ASSUME StoryIInv, PipelineIInv, HandlerStep
  PROVE  PipelineIInv' /\ [Outbox!Next]_outbox
<1> USE DEF PipelineIInv, Outbox!TypeOK, Outbox!Phase
<1>1. /\ UNCHANGED <<delivered, inbox>>
      /\ phase' = [a \in Announcement |->
                     IF phase[a] = "absent" /\ Recorded(a)' THEN "owed" ELSE phase[a]]
  BY DEF HandlerStep
<1>2. [Next]_vars
  BY DEF HandlerStep
<1>3. CASE \A a \in Announcement : Recorded(a)' <=> Recorded(a)
  <2>1. phase' = phase
    BY <1>1, <1>3
  <2> QED
    BY <1>1, <1>3, <2>1 DEF outbox
<1>4. ASSUME NEW new \in Announcement, ~Recorded(new),
             \A a \in Announcement : Recorded(a)' <=> (Recorded(a) \/ a = new)
      PROVE  PipelineIInv' /\ [Outbox!Next]_outbox
  <2>1. phase' = [phase EXCEPT ![new] = "owed"] /\ phase[new] = "absent"
    BY <1>1, <1>4
  <2>2. Outbox!Record(new)
    BY <1>1, <2>1 DEF Outbox!Record
  <2> QED
    BY <1>1, <1>4, <2>1, <2>2 DEF Outbox!Next
<1>5. \/ \A a \in Announcement : Recorded(a)' <=> Recorded(a)
      \/ \E new \in Announcement :
           \A a \in Announcement : Recorded(a)' <=> (Recorded(a) \/ a = new)
  BY <1>2, RecordedGrows
<1> QED
  BY <1>3, <1>4, <1>5

\* A step of the relay moves rows that are there.
LEMMA RelayStepMoves ==
  ASSUME PipelineIInv, RelayStep
  PROVE  PipelineIInv' /\ Outbox!SharedNext
<1> USE DEF PipelineIInv, Outbox!TypeOK, Outbox!Phase
<1>1. UNCHANGED <<vars, inbox>> /\ \A a \in Announcement : Recorded(a)' <=> Recorded(a)
  BY DEF RelayStep, vars, Recorded
<1>2. ASSUME NEW a \in Announcement, Outbox!Deliver(a) \/ Outbox!Settle(a) \/ Outbox!Overwrite(a)
      PROVE  PipelineIInv' /\ Outbox!SharedNext
  <2>1. PipelineIInv'
    BY <1>1, <1>2 DEF Outbox!Deliver, Outbox!Settle, Outbox!Overwrite
  <2> QED
    BY <1>2, <2>1 DEF Outbox!Next, Outbox!SharedNext
<1>3. ASSUME NEW S \in SUBSET Announcement,
             Outbox!ParkMany(S) \/ Outbox!Reopen(S) \/ Outbox!Discard(S)
      PROVE  PipelineIInv' /\ Outbox!SharedNext
  <2>1. PipelineIInv'
    BY <1>1, <1>3 DEF Outbox!ParkMany, Outbox!Reopen, Outbox!Discard
  <2> QED
    BY <1>3, <2>1 DEF Outbox!Next, Outbox!SharedNext
<1> QED
  BY <1>2, <1>3 DEF RelayStep

\* Every step of the pipeline keeps its invariant and is a step of the outbox.
LEMMA PipelineStep ==
  StoryIInv /\ PipelineIInv /\ [PipelineNext]_pipelineVars => PipelineIInv' /\ [Outbox!SharedNext]_outbox
<1> SUFFICES ASSUME StoryIInv, PipelineIInv, [PipelineNext]_pipelineVars
             PROVE  PipelineIInv' /\ [Outbox!SharedNext]_outbox
  OBVIOUS
<1>1. CASE HandlerStep
  BY <1>1, HandlerStepRecords DEF Outbox!SharedNext
<1>2. CASE RelayStep
  BY <1>2, RelayStepMoves
<1>3. ASSUME NEW a \in Announcement, ConsumeLoop(a)
      PROVE  PipelineIInv' /\ [Outbox!SharedNext]_outbox
  BY <1>3 DEF ConsumeLoop, PipelineIInv, Outbox!TypeOK, Recorded, vars, outbox
<1>4. CASE UNCHANGED pipelineVars
  BY <1>4 DEF pipelineVars, PipelineIInv, Outbox!TypeOK, Recorded, vars, outbox
<1> QED
  BY <1>1, <1>2, <1>3, <1>4 DEF PipelineNext

\* The outbox has exactly the events of the sagas, the inbox only delivered ones.
LEMMA PipelineInvariant == PipelineSpec => []PipelineIInv
<1>1. PipelineInit => PipelineIInv
  BY NoRow DEF PipelineInit, Init, PipelineIInv, Outbox!Init, Outbox!TypeOK, Outbox!Phase, Recorded,
               Announcement
<1>2. StoryIInv /\ PipelineIInv /\ [PipelineNext]_pipelineVars => PipelineIInv'
  BY PipelineStep
<1> QED
  BY <1>1, <1>2, PipelineStory, PTL DEF PipelineSpec

\* The writers of the sagas use the outbox as EventDelivery expects, which is what
\* any number of flushers keep (SharedPromiseKept of OutboxRelay): every event is
\* recorded once and never taken back.
THEOREM PipelineKeepsOutbox == PipelineSpec => Outbox!SharedSpec
<1>1. PipelineInit => Outbox!Init
  BY DEF PipelineInit
<1>2. StoryIInv /\ PipelineIInv /\ [PipelineNext]_pipelineVars => [Outbox!SharedNext]_(Outbox!vars)
  BY PipelineStep DEF outbox, Outbox!vars
<1> QED
  BY <1>1, <1>2, PipelineStory, PipelineInvariant, PTL DEF PipelineSpec, Outbox!SharedSpec

\* What the consumer stored is true of the order, the projection and the saga,
\* however late it came.
THEOREM InboxTrue == PipelineSpec => []InboxIsTrue
<1>1. StoryIInv /\ PipelineIInv => InboxIsTrue
  <2> SUFFICES ASSUME StoryIInv, PipelineIInv, NEW a \in inbox
               PROVE  AnnouncementIsTrue(a[1], a[2])
    BY DEF InboxIsTrue
  <2>1. a \in delivered /\ Recorded(a) /\ a \in Announcement
    BY DEF PipelineIInv, Outbox!TypeOK
  <2>2. a[1] \in Request /\ a[2] \in saga[a[1]].events
    BY <2>1 DEF Recorded, Announcement
  <2> QED
    BY <2>2, StoryIsTrue
<1> QED
  BY <1>1, PipelineStory, PipelineInvariant, PTL

\* The inbox tells one story of each submit.
THEOREM InboxStory == PipelineSpec => []InboxTellsOneStory
<1>1. StoryIInv /\ PipelineIInv => InboxTellsOneStory
  <2> SUFFICES ASSUME StoryIInv, PipelineIInv, NEW s \in Submit,
                      NEW a \in Outcomes, NEW b \in Outcomes,
                      <<s, a>> \in inbox, <<s, b>> \in inbox
               PROVE  a = b
    BY DEF InboxTellsOneStory, Outcomes
  <2>1. Recorded(<<s, a>>) /\ Recorded(<<s, b>>)
    BY DEF PipelineIInv
  <2> QED
    BY <2>1 DEF Recorded, StoryIInv, SagaIInv, SubmitIInv, SubmitRecord
<1> QED
  BY <1>1, PipelineStory, PipelineInvariant, PTL

\* What was read as rejected never becomes an order.
THEOREM RejectionFinal == PipelineSpec => RejectionIsFinal
<1>1. InboxIsTrue /\ InboxIsTrue' /\ [PipelineNext]_pipelineVars =>
        [\A s \in Submit : <<s, "rejected">> \in inbox =>
           order'[s] = "none" /\ saga'[s].status = "risk_rejected"]_pipelineVars
  <2> SUFFICES ASSUME InboxIsTrue', [PipelineNext]_pipelineVars, NEW s \in Submit,
                      <<s, "rejected">> \in inbox
               PROVE  order'[s] = "none" /\ saga'[s].status = "risk_rejected"
    OBVIOUS
  <2>1. <<s, "rejected">> \in inbox'
    BY DEF PipelineNext, HandlerStep, RelayStep, ConsumeLoop, pipelineVars
  <2> QED
    BY <2>1 DEF InboxIsTrue, AnnouncementIsTrue
<1> QED
  BY <1>1, InboxTrue, PTL DEF PipelineSpec, RejectionIsFinal
-----------------------------------------------------------------------------
(* What callers of the trade service can rely on.                          *)

\* Handlers go forward: only r moves, it never goes back to a stage before the broker
\* call, and once it has answered it has answered.
Advances(r) ==
  /\ \A q \in Request \ {r} : pc'[q] = pc[q]
  /\ pc[r] \in Stopped => pc'[r] = pc[r]
  /\ pc'[r] \in Early => pc[r] \in Early
  /\ pc'[r] = "idle" => pc[r] = "idle"

\* An order is placed by the handler that stands before the broker call, and it goes
\* on while no handler enters or leaves the stages before that call.
Places(r) ==
  /\ r \in Submit /\ pc[r] = "place" /\ pc'[r] \notin Early
  /\ order[r] = "none" /\ order' = [order EXCEPT ![r] = "new"]

OrderChanges(d) ==
  /\ order[d] \in {"new", "pendingcancel"} /\ order'[d] \in {"pendingcancel"} \union Ended
  /\ \A e \in Submit \ {d} : order'[e] = order[e]

\* Every step of a submit advances its handler, and changes the broker's orders so.
LEMMA SubmitStepAdvances ==
  ASSUME SagaIInv, NEW s \in Submit, SubmitStep(s)
  PROVE  Advances(s) /\ (order' = order \/ Places(s) \/ (pc[s] \notin Early /\ OrderChanges(s)))
<1> TypeOK /\ SubmitIInv(s) /\ s \in Request
  BY DEF SagaIInv, Request
<1>0. ASSUME NEW q \in Request \ {s} PROVE pc'[q] = pc[q]
  BY SubmitStepEffect DEF Frame, Aside
<1>1. Advances(s)
  BY <1>0
  DEF SubmitStep, RefuseAutoOrder, CreateSubmitSaga, RecordContext, LoadReferencePrice,
      CompleteReferencePrice, RunRiskCheck, PassRiskGate, SubmitToBroker, RecordPlaced, ProjectPlaced,
      AnnouncePlaced, CompleteSubmit, Compensate, RecordCompensation, SettleCompensation,
      AnnounceCompensation, Write, Project, Transaction, GoTo, GiveUp, Advances, Early, Stopped, Answer,
      TypeOK
<1>2. CASE SubmitToBroker(s)
  <2>1. pc[s] = "place" /\ order[s] = "none"
    BY <1>2 DEF SubmitToBroker, GoTo, GiveUp, SubmitIInv, EarlyStage, Early
  <2>2. pc'[s] \in {"placed", "fail_step"}
    BY <1>2 DEF SubmitToBroker, GoTo, GiveUp, TypeOK
  <2> QED
    BY <1>1, <1>2, <2>1, <2>2 DEF SubmitToBroker, Places, Early
<1>3. CASE Compensate(s)
  <2>1. pc[s] = "compensate"
    BY <1>3 DEF Compensate, GoTo
  <2>2. order' = order \/ OrderChanges(s)
    BY <1>3 DEF Compensate, BrokerCancel, OrderChanges, TypeOK
  <2> QED
    BY <1>1, <2>1, <2>2 DEF Early
<1>4. CASE UNCHANGED order
  BY <1>1, <1>4
<1> QED
  BY <1>2, <1>3, <1>4
  DEF SubmitStep, RefuseAutoOrder, CreateSubmitSaga, RecordContext, LoadReferencePrice,
      CompleteReferencePrice, RunRiskCheck, PassRiskGate, RecordPlaced, ProjectPlaced, AnnouncePlaced,
      CompleteSubmit, RecordCompensation, SettleCompensation, AnnounceCompensation, Write, Project

\* So is every step of a cancel, ...
LEMMA CancelStepAdvances ==
  ASSUME SagaIInv, NEW c \in Cancel, CancelStep(c)
  PROVE  /\ Advances(c)
         /\ order' = order \/ (pc[c] \notin Early /\ \E d \in Submit : OrderChanges(d))
<1> TypeOK /\ c \in Request /\ target[c] \in Submit
  BY DEF SagaIInv, TypeOK, Request
<1>0. ASSUME NEW q \in Request \ {c} PROVE pc'[q] = pc[q]
  BY CancelStepEffect DEF Frame, Aside
<1>1. Advances(c)
  BY <1>0
  DEF CancelStep, CreateCancelSaga, RecordCancelStart, AskBrokerToCancel, RecordTaken, CompleteCancel,
      AnnounceCancelled, ProjectCancelled, Write, Project, Transaction, GoTo, GiveUp, Advances, Early,
      Stopped, Answer, TypeOK
<1>2. CASE AskBrokerToCancel(c)
  <2>1. pc[c] = "ask"
    BY <1>2 DEF AskBrokerToCancel, GoTo, GiveUp
  <2>2. order' = order \/ OrderChanges(target[c])
    BY <1>2 DEF AskBrokerToCancel, BrokerCancel, OrderChanges, TypeOK
  <2> QED
    BY <1>1, <2>1, <2>2 DEF Early
<1>3. CASE UNCHANGED order
  BY <1>1, <1>3
<1> QED
  BY <1>2, <1>3
  DEF CancelStep, CreateCancelSaga, RecordCancelStart, RecordTaken, CompleteCancel, AnnounceCancelled,
      ProjectCancelled, Write, Project

\* ... of the failure path, the order list and the market.
LEMMA StepAdvances ==
  ASSUME SagaIInv, [Next]_vars
  PROVE  \/ UNCHANGED <<pc, order>>
         \/ \E r \in Request :
              /\ Advances(r)
              /\ \/ order' = order
                 \/ Places(r)
                 \/ /\ pc'[r] = pc[r] \/ pc[r] \notin Early
                    /\ \E d \in Submit : OrderChanges(d)
<1> TypeOK
  BY DEF SagaIInv
<1>1. ASSUME NEW s \in Submit, SubmitStep(s)
      PROVE  /\ s \in Request /\ Advances(s)
             /\ order' = order \/ Places(s) \/ (pc[s] \notin Early /\ OrderChanges(s))
  BY <1>1, SubmitStepAdvances DEF Request
<1>2. ASSUME NEW c \in Cancel, CancelStep(c)
      PROVE  /\ c \in Request /\ Advances(c)
             /\ order' = order \/ (pc[c] \notin Early /\ \E d \in Submit : OrderChanges(d))
  BY <1>2, CancelStepAdvances DEF Request
<1>3. ASSUME NEW r \in Request, FailStep(r) \/ Crash(r) PROVE Advances(r) /\ order' = order
  BY <1>3
  DEF FailStep, RecordFailedStep, SettleFailed, AnnounceFailed, Crash, Write, Transaction, Advances,
      Early, Stopped, Answer, TypeOK
<1>4. ASSUME NEW s \in Submit, OrderMoves(s)
      PROVE  s \in Request /\ pc' = pc /\ Advances(s) /\ OrderChanges(s)
  BY <1>4 DEF OrderMoves, Request, Advances, OrderChanges, TypeOK
<1>5. CASE OrderList \/ UNCHANGED vars
  BY <1>5 DEF OrderList, FetchLiveOrders, BackfillProjection, vars
<1> QED
  BY <1>1, <1>2, <1>3, <1>4, <1>5 DEF Next
=============================================================================
