----------------------------- MODULE TradeSaga -----------------------------
(***************************************************************************)
(* The submit and cancel sagas of the trade service                        *)
(* (legacy_trade_service/trade_submit_flow.py, trade_cancel_flow.py, the   *)
(* saga writers of outbox.py) and the order projections they share with    *)
(* the order list (apps/trading/trade-service/src/main.py).                *)
(*                                                                         *)
(* A handler is a sequence of short database transactions and broker       *)
(* calls; requests are served by concurrent threads.  A transaction may    *)
(* fail, before or after the commit took effect; a broker call may raise,  *)
(* before or after the broker acted; a process may die anywhere, and       *)
(* nothing picks a saga up again.  A submit request places at most one     *)
(* order, which therefore carries the name of the request.                 *)
(***************************************************************************)
EXTENDS Integers, FiniteSets

CONSTANTS
  Submit,        \* POST /orders/submit requests of one account, one symbol, one size
  Cancel,        \* POST /orders/cancel requests
  AutoOnLive,    \* the submits of an automatic strategy aimed at a live account
  PositionLimit, \* how many such orders max_position_ratio lets one symbol hold
  BrokerFails    \* TRUE: get_positions may have to answer from its cache

ASSUME SubmitAssumption == IsFiniteSet(Submit) /\ Submit \intersect Cancel = {}
ASSUME AutoAssumption   == AutoOnLive \subseteq Submit
ASSUME LimitAssumption  == PositionLimit \in Nat /\ BrokerFails \in BOOLEAN

VARIABLES
  pc,          \* where each handler stands
  why,         \* the step that failed, or what the compensation achieved
  saga,        \* per request, its trade_sagas row, its steps and its outbox events
  target,      \* payload.order_id of each cancel
  order,       \* the broker's orders
  projection,  \* trade_order_projections.status
  fetched      \* live statuses an order-list request has still to write back

vars == <<pc, why, saga, target, order, projection, fetched>>

Request == Submit \union Cancel

-----------------------------------------------------------------------------
FailingStep  == {"reference_price", "risk_check", "broker_submit", "broker_cancel"}
Compensation == {"cancelled", "cancel_failed"}
StepName     == FailingStep \union {"received", "strategy_context", "compensation", "cancel_validate"}
EventType    == {"requested", "failed", "rejected", "submitted", "compensated",
                 "cancel_requested", "cancel_failed", "cancelled"}
Ended        == {"filled", "canceled", "rejected"}
LiveStatus   == {"new", "pendingcancel"} \union Ended
Answer       == {"ok", "refused", "compensated"}
Stopped      == Answer \union {"broken"}

SagaRow == [status       : {"none", "pending", "failed", "risk_rejected", "completed"},
            compensation : {"null"} \union Compensation,
            steps        : SUBSET (StepName \X {"completed", "failed"}),
            events       : SUBSET EventType]

NoSaga == [status |-> "none", compensation |-> "null", steps |-> {}, events |-> {}]

\* _create_saga: the saga, its first step and its first event in one transaction.
NewSaga(event) ==
  [status |-> "pending", compensation |-> "null",
   steps |-> {<<"received", "completed">>}, events |-> {event}]

WithStep(row, name, outcome) == [row EXCEPT !.steps = @ \union {<<name, outcome>>}]
WithStatus(row, status)      == [row EXCEPT !.status = status]
WithEvent(row, event)        == [row EXCEPT !.events = @ \union {event}]

Init ==
  /\ pc         = [r \in Request |-> "idle"]
  /\ why        = [r \in Request |-> "none"]
  /\ saga       = [r \in Request |-> NoSaga]
  /\ target     \in [Cancel -> Submit]
  /\ order      = [s \in Submit |-> "none"]
  /\ projection = [s \in Submit |-> "absent"]
  /\ fetched    = [s \in Submit |-> "nothing"]

-----------------------------------------------------------------------------
(* One transaction, committed or failed; a failed one may have taken       *)
(* effect all the same.                                                    *)

Transaction(r, from, to, onError) ==
  /\ pc[r] = from
  /\ pc' \in {[pc EXCEPT ![r] = to], [pc EXCEPT ![r] = onError]}

Write(r, from, row, to, onError) ==
  /\ Transaction(r, from, to, onError)
  /\ \/ saga' = [saga EXCEPT ![r] = row]
     \/ saga' = saga /\ pc'[r] = onError
  /\ UNCHANGED <<why, target, order, projection, fetched>>

Project(r, from, s, status, to, onError) ==
  /\ Transaction(r, from, to, onError)
  /\ \/ projection' = [projection EXCEPT ![s] = status]
     \/ projection' = projection /\ pc'[r] = onError
  /\ UNCHANGED <<why, saga, target, order, fetched>>

\* A step without a transaction.
GoTo(r, from, to) == pc[r] = from /\ pc' = [pc EXCEPT ![r] = to]

GiveUp(r, from, step) ==
  /\ GoTo(r, from, "fail_step")
  /\ why' = [why EXCEPT ![r] = step]

\* Defect: an exception counts as an accepted cancel.
BrokerCancelAssumed(s, taken) ==
  \/ /\ order[s] \in {"new", "pendingcancel"}
     /\ order' = [order EXCEPT ![s] = "pendingcancel"]
  \/ UNCHANGED order

\* broker.cancel_order: TRUE if the broker took the request, which does not yet
\* mean that the order is cancelled; FALSE also when the answer was lost.
BrokerCancel(s, taken) ==
  \/ /\ order[s] \in {"new", "pendingcancel"}
     /\ order' = [order EXCEPT ![s] = "pendingcancel"]
  \/ ~taken /\ UNCHANGED order

-----------------------------------------------------------------------------
(* _submit_order.                                                          *)

\* _assert_auto_order_uses_paper_account answers 403 before any saga exists.
RefuseAutoOrder(s) ==
  /\ s \in AutoOnLive
  /\ GoTo(s, "idle", "refused")
  /\ UNCHANGED <<why, saga, target, order, projection, fetched>>

\* The strategy_context step is recorded if the payload has a source or a context.
CreateSubmitSaga(s) ==
  /\ s \notin AutoOnLive
  /\ \E to \in {"context", "price"} : Write(s, "idle", NewSaga("requested"), to, "broken")

RecordContext(s) ==
  Write(s, "context", WithStep(saga[s], "strategy_context", "completed"), "price", "broken")

LoadReferencePrice(s) ==
  /\ \/ GoTo(s, "price", "priced") /\ UNCHANGED why
     \/ GiveUp(s, "price", "reference_price")
  /\ UNCHANGED <<saga, target, order, projection, fetched>>

CompleteReferencePrice(s) ==
  Write(s, "priced", WithStep(saga[s], "reference_price", "completed"), "risk", "broken")

\* What earlier orders have filled.
Filled == {s \in Submit : order[s] = "filled"}

\* The positions check_order_risk sees: those, or what a cache knows of them.
SeenPositions == IF BrokerFails THEN SUBSET Filled ELSE {Filled}

\* Other rules of check_order_risk may refuse the order too, and reading the
\* account may raise.
RunRiskCheck(s) ==
  /\ \/ /\ GoTo(s, "risk", "risk_passed") /\ UNCHANGED why
        /\ \E positions \in SeenPositions : Cardinality(positions) < PositionLimit
     \/ GiveUp(s, "risk", "risk_check")
     \/ GoTo(s, "risk", "broken") /\ UNCHANGED why
  /\ UNCHANGED <<saga, target, order, projection, fetched>>

\* Defect: the order is placed before the risk step is on record.
PassRiskGateUnrecorded(s) ==
  /\ GoTo(s, "risk_passed", "place")
  /\ UNCHANGED <<why, saga, target, order, projection, fetched>>

PassRiskGate(s) ==
  Write(s, "risk_passed", WithStep(saga[s], "risk_check", "completed"), "place", "broken")

\* place_order returns an order id, or raises or returns none whether or not the
\* broker has the order.
SubmitToBroker(s) ==
  /\ \/ /\ GoTo(s, "place", "placed") /\ UNCHANGED why
        /\ order' = [order EXCEPT ![s] = "new"]
     \/ /\ GiveUp(s, "place", "broker_submit")
        /\ order' \in {order, [order EXCEPT ![s] = "new"]}
  /\ UNCHANGED <<saga, target, projection, fetched>>

\* _persist_submitted_order: any error in its try block leads to compensation.
RecordPlaced(s) ==
  Write(s, "placed", WithStep(saga[s], "broker_submit", "completed"), "project", "compensate")

\* Defect: an error of the projection is ignored.
ProjectPlacedIfPossible(s) == Project(s, "project", s, "submitted", "announce", "announce")

ProjectPlaced(s) == Project(s, "project", s, "submitted", "announce", "compensate")

\* Defect: an error after the submitted event ends in the failure path.
AnnouncePlacedOrFail(s) ==
  \/ Write(s, "announce", WithEvent(saga[s], "submitted"), "complete", "compensate")
  \/ /\ pc[s] = "announce"
     /\ saga' = [saga EXCEPT ![s] = WithEvent(@, "submitted")]
     /\ pc' = [pc EXCEPT ![s] = "fail_step"]
     /\ why' = [why EXCEPT ![s] = "broker_submit"]
     /\ UNCHANGED <<target, order, projection, fetched>>

AnnouncePlaced(s) ==
  Write(s, "announce", WithEvent(saga[s], "submitted"), "complete", "compensate")

CompleteSubmit(s) ==
  Write(s, "complete", WithStatus(saga[s], "completed"), "ok", "compensate")

\* _handle_submit_persistence_failure.
Compensate(s) ==
  /\ GoTo(s, "compensate", "comp_step")
  /\ \E taken \in BOOLEAN :
       /\ BrokerCancel(s, taken)
       /\ why' = [why EXCEPT ![s] = IF taken THEN "cancelled" ELSE "cancel_failed"]
  /\ UNCHANGED <<saga, target, projection, fetched>>

RecordCompensation(s) ==
  Write(s, "comp_step",
        WithStep(saga[s], "compensation", IF why[s] = "cancelled" THEN "completed" ELSE "failed"),
        "comp_status", "broken")

\* Defect: the outcome of the compensation goes only into the message.
CompensatedRowWithoutOutcome(row, outcome) == [row EXCEPT !.status = "failed"]

CompensatedRow(row, outcome) == [row EXCEPT !.status = "failed", !.compensation = outcome]

SettleCompensation(s) ==
  Write(s, "comp_status", CompensatedRow(saga[s], why[s]), "comp_event", "broken")

AnnounceCompensation(s) ==
  Write(s, "comp_event", WithEvent(saga[s], "compensated"), "compensated", "broken")

-----------------------------------------------------------------------------
(* _cancel_order.                                                          *)

CreateCancelSaga(c) == Write(c, "idle", NewSaga("cancel_requested"), "validate", "broken")

RecordCancelStart(c) ==
  Write(c, "validate", WithStep(saga[c], "cancel_validate", "completed"), "ask", "broken")

\* Defect: whatever the broker says, the cancel goes on to its projection.
AskAndProject(c) ==
  /\ GoTo(c, "ask", "cancel_project")
  /\ \E taken \in BOOLEAN : BrokerCancel(target[c], taken)
  /\ UNCHANGED <<why, saga, target, projection, fetched>>

AskBrokerToCancel(c) ==
  /\ \E taken \in BOOLEAN :
       /\ BrokerCancel(target[c], taken)
       /\ IF taken THEN GoTo(c, "ask", "taken") /\ UNCHANGED why
                   ELSE GiveUp(c, "ask", "broker_cancel")
  /\ UNCHANGED <<saga, target, projection, fetched>>

RecordTaken(c) ==
  Write(c, "taken", WithStep(saga[c], "broker_cancel", "completed"), "cancel_status", "broken")

CompleteCancel(c) ==
  Write(c, "cancel_status", WithStatus(saga[c], "completed"), "cancel_event", "broken")

AnnounceCancelled(c) ==
  Write(c, "cancel_event", WithEvent(saga[c], "cancelled"), "cancel_project", "broken")

ProjectCancelled(c) == Project(c, "cancel_project", target[c], "cancelled", "ok", "broken")

-----------------------------------------------------------------------------
(* The failure path of both sagas: step, status, event.                    *)

\* Defect: an order the risk check refused fails with the status of the step.
FinalStatusOfStep(step) == IF step = "risk_check" THEN "rejected" ELSE "failed"

FinalStatus(step) == IF step = "risk_check" THEN "risk_rejected" ELSE "failed"

FinalEvent(step) == CASE step = "risk_check"    -> "rejected"
                      [] step = "broker_cancel" -> "cancel_failed"
                      [] OTHER                  -> "failed"

RecordFailedStep(r) ==
  Write(r, "fail_step", WithStep(saga[r], why[r], "failed"), "fail_status", "broken")

\* Defect: an error of the status update is logged and the handler goes on.
SettleFailedIfPossible(r) ==
  Write(r, "fail_status", WithStatus(saga[r], FinalStatus(why[r])), "fail_event", "fail_event")

SettleFailed(r) ==
  Write(r, "fail_status", WithStatus(saga[r], FinalStatus(why[r])), "fail_event", "broken")

AnnounceFailed(r) ==
  Write(r, "fail_event", WithEvent(saga[r], FinalEvent(why[r])), "refused", "broken")

\* The process dies, or the thread is lost with it.
Crash(r) ==
  /\ pc[r] \notin Stopped \union {"idle"}
  /\ pc' = [pc EXCEPT ![r] = "broken"]
  /\ UNCHANGED <<why, saga, target, order, projection, fetched>>

-----------------------------------------------------------------------------
(* The order list: _list_projected_orders asks the broker if it finds no   *)
(* projection with the wanted status, and writes what it reads back.       *)
(* fetch_all answers a database error with no rows, so that can happen     *)
(* whatever the table holds.                                               *)

Wanted(status, filter) == filter = "any" \/ status = filter

FetchLiveOrders(filter) ==
  /\ \A s \in Submit : fetched[s] = "nothing"
  /\ fetched' = [s \in Submit |-> IF order[s] # "none" /\ Wanted(order[s], filter)
                                    THEN order[s] ELSE "nothing"]
  /\ UNCHANGED <<pc, why, saga, target, order, projection>>

\* One upsert of _backfill_order_projections; it may fail and end the loop.
BackfillProjection(s) ==
  /\ fetched[s] # "nothing"
  /\ \/ fetched' = [fetched EXCEPT ![s] = "nothing"]
     \/ fetched' = [d \in Submit |-> "nothing"]
  /\ \/ projection' = [projection EXCEPT ![s] = fetched[s]]
     \/ projection' = projection /\ \A d \in Submit : fetched'[d] = "nothing"
  /\ UNCHANGED <<pc, why, saga, target, order>>

\* The market, the exchange, and the broker's handling of a cancel request: an order
\* fills, is cancelled (here, elsewhere, or at the end of its day) or is rejected.
\* One that is partly filled is still at work.
OrderMoves(s) ==
  /\ order[s] \in {"new", "pendingcancel"}
  /\ \E end \in Ended : order' = [order EXCEPT ![s] = end]
  /\ UNCHANGED <<pc, why, saga, target, projection, fetched>>

-----------------------------------------------------------------------------
SubmitStep(s) ==
  \/ RefuseAutoOrder(s) \/ CreateSubmitSaga(s) \/ RecordContext(s)
  \/ LoadReferencePrice(s) \/ CompleteReferencePrice(s)
  \/ RunRiskCheck(s) \/ PassRiskGate(s) \/ SubmitToBroker(s)
  \/ RecordPlaced(s) \/ ProjectPlaced(s) \/ AnnouncePlaced(s) \/ CompleteSubmit(s)
  \/ Compensate(s) \/ RecordCompensation(s) \/ SettleCompensation(s) \/ AnnounceCompensation(s)

CancelStep(c) ==
  \/ CreateCancelSaga(c) \/ RecordCancelStart(c) \/ AskBrokerToCancel(c)
  \/ RecordTaken(c) \/ CompleteCancel(c) \/ AnnounceCancelled(c) \/ ProjectCancelled(c)

FailStep(r) == RecordFailedStep(r) \/ SettleFailed(r) \/ AnnounceFailed(r)

OrderList ==
  \/ \E filter \in LiveStatus \union {"any", "submitted", "cancelled"} : FetchLiveOrders(filter)
  \/ \E s \in Submit : BackfillProjection(s)

Next ==
  \/ \E s \in Submit : SubmitStep(s) \/ OrderMoves(s)
  \/ \E c \in Cancel : CancelStep(c)
  \/ \E r \in Request : FailStep(r) \/ Crash(r)
  \/ OrderList

Spec == Init /\ [][Next]_vars

-----------------------------------------------------------------------------
(* Properties.                                                             *)

PcLabel == {"idle", "context", "price", "priced", "risk", "risk_passed", "place", "placed",
            "project", "announce", "complete", "compensate", "comp_step", "comp_status",
            "comp_event", "validate", "ask", "taken", "cancel_status", "cancel_event",
            "cancel_project", "fail_step", "fail_status", "fail_event"} \union Stopped

\* Every variable keeps its type.
TypeOK ==
  /\ pc \in [Request -> PcLabel]
  /\ why \in [Request -> {"none"} \union FailingStep \union Compensation]
  /\ saga \in [Request -> SagaRow]
  /\ target \in [Cancel -> Submit]
  /\ order \in [Submit -> {"none"} \union LiveStatus]
  /\ projection \in [Submit -> {"absent", "submitted", "cancelled"} \union LiveStatus]
  /\ fetched \in [Submit -> {"nothing"} \union LiveStatus]

\* A submit saga says completed only if everything it stands for is on record:
\* the risk gate was passed, the broker has the order, the projection exists and
\* the submitted event waits in the outbox.  (_persist_submitted_order marks the
\* saga last.)
CompletedSubmitHasEvidence ==
  \A s \in Submit : saga[s].status = "completed" =>
    /\ <<"risk_check", "completed">> \in saga[s].steps
    /\ order[s] # "none"
    /\ projection[s] # "absent"
    /\ "submitted" \in saga[s].events

\* An order the risk gate or the reference price stopped never reaches the broker,
\* whatever fails on the way, and the broker has no order that passed no gate.
OnlyGatedOrdersTrade ==
  \A s \in Submit : order[s] # "none" =>
    /\ <<"risk_check", "completed">> \in saga[s].steps
    /\ saga[s].status # "risk_rejected"
    /\ saga[s].events \intersect {"rejected"} = {}

\* The outbox never tells two stories about one submit: it has one outcome, and a
\* compensation only ever follows an order whose id was known.
OneOutcomePerSubmit ==
  \A s \in Submit :
    /\ Cardinality(saga[s].events \intersect {"failed", "rejected", "submitted"}) <= 1
    /\ "compensated" \in saga[s].events =>
         saga[s].events \intersect {"failed", "rejected"} = {} /\ order[s] # "none"

\* What each kind of event tells a consumer of the outbox, as a fact about the
\* order, its projection and the saga.
AnnouncementIsTrue(r, event) ==
  /\ saga[r].status # "none"
  /\ CASE event = "submitted"     -> /\ order[r] # "none" /\ projection[r] # "absent"
                                     /\ <<"risk_check", "completed">> \in saga[r].steps
       [] event = "rejected"      -> order[r] = "none" /\ saga[r].status = "risk_rejected"
       [] event = "failed"        -> /\ saga[r].status = "failed" /\ saga[r].compensation = "null"
                                     /\ saga[r].events \intersect {"submitted", "compensated"} = {}
       [] event = "compensated"   -> /\ saga[r].status = "failed" /\ saga[r].compensation # "null"
                                     /\ order[r] # "none"
       [] event = "cancelled"     -> /\ saga[r].status = "completed"
                                     /\ order[target[r]] \notin {"none", "new"}
       [] event = "cancel_failed" -> saga[r].status = "failed"
       [] OTHER                   -> TRUE

\* Every event in the outbox was true when it was recorded and stays so, however
\* late the relay delivers it and whatever failed after it: the saga's row is
\* settled before its end is announced, an announced order has its projection, and
\* no later failure or compensation turns a told outcome into another one.
AnnouncementsAreTrue ==
  \A r \in Request : \A event \in saga[r].events : AnnouncementIsTrue(r, event)

\* What the saga records as cancelled, the broker has at least agreed to cancel:
\* by the compensation of a submit or by a cancel request.
CancelWasTaken ==
  /\ \A s \in Submit : saga[s].compensation = "cancelled" => order[s] \notin {"none", "new"}
  /\ \A c \in Cancel : saga[c].status = "completed" => order[target[c]] \notin {"none", "new"}

\* The caller's answer agrees with the record: an order reported as submitted has
\* a completed saga, an error that names a compensation finds it in the saga and
\* in the outbox, and no refused request is left pending.
AnswerMatchesRecord ==
  \A r \in Request :
    /\ pc[r] = "ok" => saga[r].status = "completed"
    /\ pc[r] = "refused" /\ r \notin AutoOnLive =>
         /\ saga[r].status \in {"failed", "risk_rejected"}
         /\ saga[r].events \intersect {"failed", "rejected", "cancel_failed"} # {}
    /\ pc[r] = "compensated" =>
         saga[r].status = "failed" /\ saga[r].compensation = why[r] /\ "compensated" \in saga[r].events

\* The projection never shows an order the broker does not have, a cancel it did
\* not take or a fill that did not happen, although it is written by three kinds
\* of handlers from data of different ages.
ProjectionIsNotInvented ==
  \A s \in Submit :
    /\ projection[s] # "absent" => order[s] # "none"
    /\ projection[s] \in {"cancelled", "canceled", "pendingcancel"} => order[s] # "new"
    /\ projection[s] \in Ended => order[s] = projection[s]

\* A completed saga changes only into a compensated one, when its last UPDATE
\* took effect and was reported as failed.
CompletedIsLeftOnlyByCompensation ==
  [][\A r \in Request : saga[r].status = "completed" =>
       \/ saga'[r].status = "completed"
       \/ saga'[r].status = "failed" /\ saga'[r].compensation \in Compensation]_vars

\* The inductive strengthening of the invariants above: what the record, the broker
\* and the projection say of a request at each stage of its handler.
Early    == {"idle", "context", "price", "priced", "risk", "risk_passed", "place"}
Posted   == {"placed", "project", "announce", "complete", "ok"}
Undoing  == {"compensate", "comp_step", "comp_status", "comp_event", "compensated"}
Failing  == {"fail_step", "fail_status", "fail_event"}
Closing  == {"cancel_event", "cancel_project", "ok"}
Outcomes == {"failed", "rejected", "submitted"}

EarlyStage(s) ==
  /\ order[s] = "none" /\ why[s] = "none"
  /\ saga[s].status \in {"none", "pending"} /\ saga[s].compensation = "null"
  /\ saga[s].events \subseteq {"requested"}

PlacedStage(s) ==
  /\ order[s] # "none"
  /\ saga[s].status # "risk_rejected"
  /\ saga[s].events \subseteq {"requested", "submitted", "compensated"}
  /\ pc[s] \in {"announce", "complete"} => projection[s] # "absent"
  /\ pc[s] = "complete" => "submitted" \in saga[s].events
  /\ pc[s] = "ok" => saga[s].status = "completed"

UndoingStage(s) ==
  /\ pc[s] # "compensate" => why[s] \in Compensation
  /\ pc[s] # "compensate" /\ why[s] = "cancelled" => order[s] \notin {"none", "new"}
  /\ pc[s] \in {"comp_event", "compensated"} =>
       saga[s].status = "failed" /\ saga[s].compensation = why[s]
  /\ pc[s] = "compensated" => "compensated" \in saga[s].events

FailingStage(s) ==
  /\ why[s] \in {"reference_price", "risk_check", "broker_submit"}
  /\ order[s] # "none" => why[s] = "broker_submit"
  /\ saga[s].status # "completed" /\ saga[s].compensation = "null"
  /\ saga[s].events \subseteq {"requested", FinalEvent(why[s])}
  /\ saga[s].status = "risk_rejected" => why[s] = "risk_check"
  /\ pc[s] \in {"fail_event", "refused"} => saga[s].status = FinalStatus(why[s])
  /\ pc[s] = "refused" => FinalEvent(why[s]) \in saga[s].events

\* What stays true of a submit when its handler is gone.
SubmitRecord(s) ==
  /\ order[s] # "none" => /\ <<"risk_check", "completed">> \in saga[s].steps
                         /\ saga[s].status # "risk_rejected"
                         /\ "rejected" \notin saga[s].events
  /\ \A a, b \in saga[s].events \intersect Outcomes : a = b
  /\ "compensated" \in saga[s].events =>
       saga[s].events \intersect {"failed", "rejected"} = {} /\ order[s] # "none"
  /\ saga[s].status = "completed" =>
       order[s] # "none" /\ projection[s] # "absent" /\ "submitted" \in saga[s].events
  /\ saga[s].compensation = "cancelled" => order[s] \notin {"none", "new"}

SubmitIInv(s) ==
  /\ s \in AutoOnLive => pc[s] \in {"idle", "refused"} /\ saga[s] = NoSaga /\ order[s] = "none"
  /\ pc[s] \in Early \union Posted \union Undoing \union Failing \union {"refused", "broken"}
  /\ pc[s] \in Early => EarlyStage(s)
  /\ pc[s] \in {"place"} \union Posted \union Undoing => <<"risk_check", "completed">> \in saga[s].steps
  /\ pc[s] \in Posted \union Undoing => PlacedStage(s)
  /\ pc[s] \in Undoing => UndoingStage(s)
  /\ pc[s] \in Failing \/ (pc[s] = "refused" /\ s \notin AutoOnLive) => FailingStage(s)
  /\ SubmitRecord(s)

CancelIInv(c) ==
  /\ pc[c] \in {"idle", "validate", "ask", "taken", "cancel_status", "refused", "broken"}
                 \union Failing \union Closing
  /\ pc[c] \in {"taken", "cancel_status"} \union Closing \/ saga[c].status = "completed" =>
       order[target[c]] \notin {"none", "new"}
  /\ pc[c] \in Closing => saga[c].status = "completed"
  /\ pc[c] \in Failing => why[c] = "broker_cancel"
  /\ pc[c] \in {"idle", "validate", "ask", "refused"} \union Failing => saga[c].status # "completed"
  /\ pc[c] \in {"fail_event", "refused"} => saga[c].status = "failed"
  /\ pc[c] = "refused" => "cancel_failed" \in saga[c].events

SagaIInv ==
  /\ TypeOK
  /\ \A s \in Submit : SubmitIInv(s)
  /\ \A c \in Cancel : CancelIInv(c)

\* A status that was copied from the broker may be old, but the broker's order has
\* only gone on from it.
CopyIsSound(s, copy) ==
  /\ copy \notin {"absent", "nothing"} => order[s] # "none"
  /\ copy \in {"cancelled", "canceled", "pendingcancel"} => order[s] # "new"
  /\ copy \in Ended => order[s] = copy

ProjectionIInv == SagaIInv /\ \A s \in Submit : CopyIsSound(s, projection[s]) /\ CopyIsSound(s, fetched[s])

\* The inductive strengthening of AnnouncementsAreTrue: where a handler may stand
\* once it has announced an end, and what its record then says.
SubmitStory(s) ==
  /\ pc[s] = "idle" => saga[s] = NoSaga
  /\ pc[s] \notin {"idle", "refused", "broken"} => saga[s].status # "none"
  /\ saga[s].events # {} => saga[s].status # "none"
  /\ "submitted" \in saga[s].events =>
       /\ pc[s] \in {"complete", "ok", "broken"} \union Undoing
       /\ order[s] # "none" /\ projection[s] # "absent"
       /\ <<"risk_check", "completed">> \in saga[s].steps
  /\ "rejected" \in saga[s].events =>
       pc[s] \in {"refused", "broken"} /\ saga[s].status = "risk_rejected"
  /\ "failed" \in saga[s].events =>
       /\ pc[s] \in {"refused", "broken"}
       /\ saga[s].status = "failed" /\ saga[s].compensation = "null"
  /\ "compensated" \in saga[s].events =>
       /\ pc[s] \in {"compensated", "broken"}
       /\ saga[s].status = "failed" /\ saga[s].compensation # "null"
  /\ saga[s].events \intersect {"cancelled", "cancel_failed"} = {}

CancelStory(c) ==
  /\ pc[c] = "idle" => saga[c] = NoSaga
  /\ pc[c] \notin {"idle", "refused", "broken"} => saga[c].status # "none"
  /\ saga[c].events # {} => saga[c].status # "none"
  /\ "cancelled" \in saga[c].events =>
       pc[c] \in {"cancel_project", "ok", "broken"} /\ saga[c].status = "completed"
  /\ "cancel_failed" \in saga[c].events =>
       pc[c] \in {"refused", "broken"} /\ saga[c].status = "failed"
  /\ saga[c].events \subseteq {"cancel_requested", "cancelled", "cancel_failed"}

StoryIInv ==
  /\ SagaIInv
  /\ \A s \in Submit : SubmitStory(s)
  /\ \A c \in Cancel : CancelStory(c)

\* trade_cancel_flow.py records and answers that the order has been cancelled.
CancelledOrderIsNotFilled ==
  \A c \in Cancel : saga[c].status = "completed" => order[target[c]] # "filled"
=============================================================================
