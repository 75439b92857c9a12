---------------------------- MODULE TradePipeline ----------------------------
(***************************************************************************)
(* From a request to the event inbox: the sagas of TradeSaga record their  *)
(* events in the outbox, in the transactions that write their rows; the    *)
(* outbox table with the relay delivers them, which is SharedSpec of       *)
(* EventDelivery (what OutboxRelay is proved to implement with any number  *)
(* of flushers); and the consumer thread (OutboxRelay._consume_loop in     *)
(* legacy_trade_service/outbox.py) copies what it reads from Kafka to      *)
(* trade_event_inbox.                                                      *)
(*                                                                         *)
(* A row of the outbox goes its own way once it is recorded: it may be     *)
(* delivered late, again and again, out of order or never, while its saga  *)
(* goes on.                                                                *)
(***************************************************************************)
EXTENDS TradeSaga

VARIABLES
  phase,      \* per event, what the outbox table says of it
  delivered,  \* events that reached Kafka
  inbox       \* trade_event_inbox: events the consumer stored

outbox       == <<phase, delivered>>
pipelineVars == <<vars, outbox, inbox>>

\* The events a request may record, each at most once.
Announcement == Request \X EventType

Outbox == INSTANCE EventDelivery WITH Event <- Announcement

Recorded(a) == a[2] \in saga[a[1]].events

PipelineInit == Init /\ Outbox!Init /\ inbox = {}

\* A step of the handlers, the order list or the market: the rows it inserts are owed.
HandlerStep ==
  /\ Next
  /\ phase' = [a \in Announcement |->
                 IF phase[a] = "absent" /\ Recorded(a)' THEN "owed" ELSE phase[a]]
  /\ UNCHANGED <<delivered, inbox>>

\* The relay, and the operators who requeue, repair and purge.
RelayStep ==
  /\ \/ \E a \in Announcement : Outbox!Deliver(a) \/ Outbox!Settle(a) \/ Outbox!Overwrite(a)
     \/ \E S \in SUBSET Announcement : Outbox!ParkMany(S) \/ Outbox!Reopen(S) \/ Outbox!Discard(S)
  /\ UNCHANGED <<vars, inbox>>

\* One message of _consume_loop: INSERT IGNORE drops an event the inbox has.  A
\* message is missed if the insert fails, if it came while no consumer ran
\* (auto_offset_reset is latest), or if the thread ended with an error.
ConsumeLoop(a) ==
  /\ a \in delivered
  /\ inbox' = inbox \union {a}
  /\ UNCHANGED <<vars, outbox>>

PipelineNext == HandlerStep \/ RelayStep \/ \E a \in Announcement : ConsumeLoop(a)

PipelineSpec == PipelineInit /\ [][PipelineNext]_pipelineVars

-----------------------------------------------------------------------------
(* Properties.                                                             *)

\* The outbox has a row for every event of a saga and no other, and the inbox holds
\* nothing that was not delivered.
PipelineIInv ==
  /\ Outbox!TypeOK
  /\ \A a \in Announcement : phase[a] = "absent" <=> ~Recorded(a)
  /\ \A a \in delivered : Recorded(a)
  /\ inbox \subseteq delivered

\* Whatever the inbox holds, and however late it came, is true of the broker's
\* order, the projection and the saga as they are now.
InboxIsTrue == \A a \in inbox : AnnouncementIsTrue(a[1], a[2])

\* The inbox never holds two stories of one submit.
InboxTellsOneStory ==
  \A s \in Submit : \A a, b \in {"submitted", "rejected", "failed"} :
    <<s, a>> \in inbox /\ <<s, b>> \in inbox => a = b

\* In particular an order whose failure or rejection was read from the inbox was
\* never announced as placed, and a rejected one never reaches the broker.
RejectionIsFinal ==
  [][\A s \in Submit : <<s, "rejected">> \in inbox =>
       order'[s] = "none" /\ saga'[s].status = "risk_rejected"]_pipelineVars
=============================================================================
