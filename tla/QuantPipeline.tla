---------------------------- MODULE QuantPipeline ----------------------------
(***************************************************************************)
(* From a decision of the quant path to the event inbox: the cycles of     *)
(* QuantAutoTrade post their submits to the trade service, whose sagas,    *)
(* outbox and inbox are TradePipeline.  QuantAutoTrade imagines what the   *)
(* service does with a submit; here the handler does it step by step,      *)
(* beside the cycles, other handlers, cancels by hand, order lists and the *)
(* relay.  A submit of a cycle is named by the cycle and the target.       *)
(*                                                                         *)
(* The submits go to several symbols, so the risk check may pass or refuse *)
(* any of them (BrokerFails is TRUE: the positions it sees may come from a *)
(* cache).                                                                 *)
(***************************************************************************)
EXTENDS QuantAutoTrade

CONSTANTS
  Cancel,        \* POST /orders/cancel requests of people
  OnLive,        \* the submits that are aimed at a live account
  PositionLimit  \* as in TradeSaga

VARIABLES
  stage, why, saga, target, brokerOrder, projection, fetched,   \* TradeSaga
  phase, delivered, inbox                                       \* TradePipeline

Sent == Cycle \X Target

\* TradePipeline, from the module with its theorems so that proofs can cite them.
Trade == INSTANCE TradeSagaProofs WITH
  Submit <- Sent, AutoOnLive <- OnLive, BrokerFails <- TRUE, pc <- stage, order <- brokerOrder

\* What TradeSaga asks of its constants.
PipelineAssumption ==
  /\ Sent \intersect Cancel = {}
  /\ OnLive \subseteq Sent
  /\ PositionLimit \in Nat

deskVars  == <<pc, todo, current, count, view, check, decision, recent, doubt>>
tradeVars == <<stage, why, saga, target, brokerOrder, projection, fetched, phase, delivered, inbox>>

\* The caller waits for the answer, or has given up on a request that was sent.
Asked(s) == (pc[s[1]] = "send" /\ current[s[1]] = s[2]) \/ s \in pending

\* The handler has not come to the broker yet.
UnderWay(s) == stage[s] \in Trade!Early

\* _standard_order_status, as far as a cycle tells statuses apart.
Seen(status) == CASE status = "none"                    -> "none"
                  [] status \in {"new", "pendingcancel"} -> "active"
                  [] OTHER                               -> "done"

Shown == [c \in Cycle |-> [t \in Target |-> Seen(brokerOrder[<<c, t>>])]]

PipelineInit == Init /\ Trade!PipelineInit

\* The trade service, the market, the relay and the consumer.  A handler starts when
\* its request comes; what it does to the broker's order is what a cycle may see of it.
ServiceStep ==
  /\ Trade!PipelineNext
  /\ \A s \in Sent : stage[s] = "idle" /\ stage'[s] # "idle" => Asked(s)
  /\ order' = Shown'
  /\ pending' = {s \in pending : UnderWay(s)'}
  /\ UNCHANGED deskVars

\* A step of a cycle that does not concern a submit, and the clock.
DeskStep ==
  /\ \/ \E c \in Cycle : Begin(c) \/ LoadOrders(c) \/ SaveDecision(c) \/ Finish(c) \/ Crash(c)
     \/ \E c \in Cycle, t \in Target : Skip(c, t) \/ Choose(c, t) \/ HourPasses(c, t)
  /\ UNCHANGED tradeVars

\* The handler's only answer without an error is the order; without an account no
\* request was sent.
Answered(c) ==
  /\ Submitted(c)
  /\ stage[<<c, current[c]>>] \in {"ok", "idle"}
  /\ UNCHANGED tradeVars

\* An error, a timeout or a lost connection; a request that has not reached the
\* service may reach it still.
Raised(c) ==
  LET s == <<c, current[c]>> IN
  /\ SubmitRaises(c)
  /\ s \in pending' => UnderWay(s)
  /\ UnderWay(s) /\ stage[s] # "idle" => s \in pending'
  /\ UNCHANGED tradeVars

PipelineNext == ServiceStep \/ DeskStep \/ \E c \in Cycle : Answered(c) \/ Raised(c)

PipelineSpec == PipelineInit /\ [][PipelineNext]_<<vars, tradeVars>>

-----------------------------------------------------------------------------
(* Properties.                                                             *)

\* The rows of the quant path agree with the trade service and with what consumers
\* read: executed stands for a completed saga whose order passed the risk gate and
\* reached the broker, and no message ever says otherwise; failed for a request
\* that never became a saga.
DecisionIsBacked ==
  \A s \in Sent :
    /\ decision[s[1]][s[2]] = "executed" =>
         /\ saga[s].status = "completed" /\ <<"risk_check", "completed">> \in saga[s].steps
         /\ brokerOrder[s] # "none"
         /\ \A event \in {"failed", "rejected", "compensated"} : <<s, event>> \notin inbox
    /\ decision[s[1]][s[2]] = "failed" => saga[s].status = "none" /\ brokerOrder[s] = "none"

\* The daily limit of the US open job, counted at the broker.
LimitKeptAtTheBroker ==
  doubt \subseteq {"broker"} =>
    Cardinality({s \in Guarded \X Target : brokerOrder[s] # "none"})
      <= MaxDaily + Cardinality({c \in Guarded : pc[c] = "broken"})

\* How the cycles and the handlers stand to each other: a cycle's orders are the
\* broker's, a handler on its way to the broker was asked, a request that is still
\* under way has not come there, and an answer that was recorded is the handler's end.
LinkIInv ==
  /\ order = Shown
  /\ \A s \in Sent : UnderWay(s) /\ stage[s] # "idle" => Asked(s)
  /\ \A s \in pending : UnderWay(s)
  /\ \A c \in Cycle : pc[c] = "save" => stage[<<c, current[c]>>] \in {"ok", "idle"}
  /\ \A s \in Sent : /\ decision[s[1]][s[2]] = "executed" => stage[s] = "ok"
                     /\ decision[s[1]][s[2]] = "failed" => stage[s] = "idle"
=============================================================================
