---------------------------- MODULE OutboxRelay ----------------------------
(***************************************************************************)
(* The transactional outbox of the trade service                           *)
(* (legacy_trade_service/outbox.py, class OutboxRelay, and the Kafka       *)
(* producer wrapper backend-server/src/utils/kafka_bus.py).                *)
(*                                                                         *)
(* Rows of trade_outbox_events are written by the trade sagas and shipped  *)
(* to Kafka by flush_pending.  Several flushers may run at once: the relay *)
(* thread of each process and every administrator who posts to             *)
(* /outbox/flush.  Nothing locks a row: a flusher works through a list of  *)
(* rows it read earlier, so its copy of retry_count may be old, and the    *)
(* UPDATE that follows a publish does not test publish_status.  The list   *)
(* is read with DbUtil.fetch_all, which uses the read replica when one is  *)
(* configured.                                                             *)
(***************************************************************************)
EXTENDS Integers, FiniteSets

CONSTANTS
  Event,         \* event ids, numbered in the order the candidate query lists them
  Flusher,       \* concurrent executions of flush_pending
  MaxRetries,    \* OutboxRelay._max_retries
  BatchLimit,    \* LIMIT of the candidate query (80, 120)
  UseReplica,    \* settings.is_read_db_enabled()
  KafkaEnabled,  \* settings.KAFKA_ENABLED
  RetryCap       \* bound: no row is loaded once its retry_count is this high

ASSUME EventAssumption   == Event \subseteq Nat
ASSUME FlusherAssumption == IsFiniteSet(Flusher)
ASSUME RetryAssumption   == MaxRetries \in Nat /\ MaxRetries >= 3
ASSUME BoundAssumption   == /\ BatchLimit \in 1..200
                            /\ RetryCap \in Nat /\ RetryCap >= MaxRetries
ASSUME ModeAssumption    == UseReplica \in BOOLEAN /\ KafkaEnabled \in BOOLEAN

VARIABLES
  rows,       \* trade_outbox_events on the primary
  replica,    \* what the read replica shows of it
  batch,      \* per flusher, the retry_count it read for the rows it still holds
  pc,         \* per flusher, where flush_pending stands
  delivered,  \* events that reached the Kafka topic at least once
  lingering,  \* events in a producer buffer after future.get timed out
  fails       \* history: failed publishes per event, counted up to MaxRetries

vars == <<rows, replica, batch, pc, delivered, lingering, fails>>

-----------------------------------------------------------------------------
Status == {"absent", "pending", "failed", "published", "dead_letter", "purged"}

\* next_retry_at: NULL, in the future, or already reached.
NextRetry == {"null", "later", "due"}

Row == [status : Status, retry : Nat, next : NextRetry]

NoRow     == [status |-> "absent",  retry |-> 0, next |-> "null"]
FreshRow  == [status |-> "pending", retry |-> 0, next |-> "null"]
NotHeld   == -1

InTable(e) == rows[e].status \notin {"absent", "purged"}
Held(f)    == {e \in Event : batch[f][e] # NotHeld}
Holders(e) == {f \in Flusher : batch[f][e] # NotHeld}

\* The row a flusher is working on: the oldest of those it still holds.
Current(f, e) == e \in Held(f) /\ \A d \in Held(f) : e <= d

\* Defect: the candidate query forgets retry_count < max_retries.
CandidatesWithoutMaximum(view) ==
  {e \in Event : view[e].status \in {"pending", "failed"} /\ view[e].next # "later"}

Candidates(view) ==
  {e \in Event : /\ view[e].status \in {"pending", "failed"}
                 /\ view[e].retry < MaxRetries
                 /\ view[e].next # "later"}

Oldest(S) == {e \in S : Cardinality({d \in S : d < e}) < BatchLimit}

Init ==
  /\ rows      = [e \in Event |-> NoRow]
  /\ replica   = [e \in Event |-> NoRow]
  /\ batch     = [f \in Flusher |-> [e \in Event |-> NotHeld]]
  /\ pc        = [f \in Flusher |-> "idle"]
  /\ delivered = {}
  /\ lingering = {}
  /\ fails     = [e \in Event |-> 0]

-----------------------------------------------------------------------------
(* The sagas.                                                              *)

\* _insert_outbox: the row starts pending.  created_at counts seconds, so of two
\* events of one second either may be listed first.
Record(e) ==
  /\ rows[e].status = "absent"
  /\ rows' = [rows EXCEPT ![e] = FreshRow]
  /\ UNCHANGED <<replica, batch, pc, delivered, lingering, fails>>

-----------------------------------------------------------------------------
(* flush_pending.                                                          *)

LoadedRows(f, view, picked) ==
  [batch EXCEPT ![f] = [e \in Event |-> IF e \in picked THEN view[e].retry ELSE NotHeld]]

LoadFrom(f, view) ==
  LET picked == Oldest(Candidates(view)) IN
  /\ picked # {}
  /\ \A e \in picked : rows[e].retry < RetryCap
  /\ batch' = LoadedRows(f, view, picked)

LoadCandidates(f) ==
  /\ pc[f] = "idle"
  /\ KafkaEnabled
  /\ LoadFrom(f, IF UseReplica THEN replica ELSE rows)
  /\ pc' = [pc EXCEPT ![f] = "publish"]
  /\ UNCHANGED <<rows, replica, delivered, lingering, fails>>

\* Defect: publish does not wait for the acknowledgement.
PublishWithoutWaiting(f, e) ==
  /\ pc[f] = "publish" /\ Current(f, e)
  /\ lingering' = lingering \union {e}
  /\ pc' = [pc EXCEPT ![f] = "acked"]
  /\ UNCHANGED <<rows, replica, batch, delivered, fails>>

\* kafka_bus.publish returned TRUE.
PublishAcked(f, e) ==
  /\ pc[f] = "publish" /\ Current(f, e)
  /\ delivered' = delivered \union {e}
  /\ pc' = [pc EXCEPT ![f] = "acked"]
  /\ UNCHANGED <<rows, replica, batch, lingering, fails>>

\* kafka_bus.publish returned FALSE: the message was never sent, it was
\* delivered and only the acknowledgement is missing, or it is still in the
\* producer's buffer when future.get gives up.
PublishFailed(f, e) ==
  /\ pc[f] = "publish" /\ Current(f, e)
  /\ \/ UNCHANGED <<delivered, lingering>>
     \/ delivered' = delivered \union {e} /\ UNCHANGED lingering
     \/ lingering' = lingering \union {e} /\ UNCHANGED delivered
  /\ fails' = [fails EXCEPT ![e] = IF @ < MaxRetries THEN @ + 1 ELSE @]
  /\ pc' = [pc EXCEPT ![f] = "nacked"]
  /\ UNCHANGED <<rows, replica, batch>>

\* The flusher is done with a row and turns to the next one.
Advance(f, e) ==
  /\ batch' = [batch EXCEPT ![f][e] = NotHeld]
  /\ pc' = [pc EXCEPT ![f] = IF Held(f) = {e} THEN "idle" ELSE "publish"]

\* The UPDATE after a success: by event_id alone, whatever the row says now.
PublishedRow(row) == [row EXCEPT !.status = "published", !.next = "null"]

MarkPublished(f, e) ==
  /\ pc[f] = "acked" /\ Current(f, e)
  /\ rows' = IF InTable(e)
               THEN [rows EXCEPT ![e] = PublishedRow(rows[e])]
               ELSE rows
  /\ Advance(f, e)
  /\ UNCHANGED <<replica, delivered, lingering, fails>>

\* Defect: one retry too few.
AfterFailureTooEarly(row, seen) ==
  IF seen + 2 >= MaxRetries
    THEN [status |-> "dead_letter", retry |-> row.retry + 1, next |-> "null"]
    ELSE [status |-> "failed",      retry |-> row.retry + 1, next |-> "later"]

\* Defect: the comparison is strict, so the last failure leaves the row failed.
AfterFailureTooLate(row, seen) ==
  IF seen + 1 > MaxRetries
    THEN [status |-> "dead_letter", retry |-> row.retry + 1, next |-> "null"]
    ELSE [status |-> "failed",      retry |-> row.retry + 1, next |-> "later"]

\* The UPDATE after a failure: dead letter or not is decided on the copy of
\* retry_count in the flusher's list, the increment is made on the row.
AfterFailure(row, seen) ==
  IF seen + 1 >= MaxRetries
    THEN [status |-> "dead_letter", retry |-> row.retry + 1, next |-> "null"]
    ELSE [status |-> "failed",      retry |-> row.retry + 1, next |-> "later"]

MarkFailed(f, e) ==
  /\ pc[f] = "nacked" /\ Current(f, e)
  /\ rows' = IF InTable(e)
               THEN [rows EXCEPT ![e] = AfterFailure(rows[e], batch[f][e])]
               ELSE rows
  /\ Advance(f, e)
  /\ UNCHANGED <<replica, delivered, lingering, fails>>

\* The UPDATE raises, or the process dies: the rest of the list is forgotten.
\* start() runs repair_state and loads the rows anew.
Abandon(f) ==
  /\ pc[f] # "idle"
  /\ batch' = [batch EXCEPT ![f] = [e \in Event |-> NotHeld]]
  /\ pc' = [pc EXCEPT ![f] = "idle"]
  /\ UNCHANGED <<rows, replica, delivered, lingering, fails>>

-----------------------------------------------------------------------------
(* repair_state and the administrator's endpoints.                         *)

Repaired(row) ==
  IF row.status # "failed" THEN row
  ELSE IF row.retry >= MaxRetries
         THEN [row EXCEPT !.status = "dead_letter", !.next = "null"]
  ELSE IF row.next = "null" THEN [row EXCEPT !.next = "later"]
  ELSE row

RepairState ==
  /\ rows' = [e \in Event |-> Repaired(rows[e])]
  /\ UNCHANGED <<replica, batch, pc, delivered, lingering, fails>>

\* requeue_events / requeue_sagas: S is the ids given, or all ids of the sagas given.
Requeue(S) ==
  /\ rows' = [e \in Event |->
               IF e \in S /\ rows[e].status \in {"failed", "dead_letter"}
                 THEN FreshRow ELSE rows[e]]
  /\ UNCHANGED <<replica, batch, pc, delivered, lingering, fails>>

\* purge_dead_letters / purge_dead_letters_by_saga.
PurgedRow(row) == [row EXCEPT !.status = "purged", !.retry = 0, !.next = "null"]

\* Defect: purging takes failed rows along.
PurgeFailedToo(S) ==
  /\ rows' = [e \in Event |->
               IF e \in S /\ rows[e].status \in {"failed", "dead_letter"}
                 THEN PurgedRow(rows[e]) ELSE rows[e]]
  /\ UNCHANGED <<replica, batch, pc, delivered, lingering, fails>>

Purge(S) ==
  /\ rows' = [e \in Event |->
               IF e \in S /\ rows[e].status = "dead_letter"
                 THEN PurgedRow(rows[e]) ELSE rows[e]]
  /\ UNCHANGED <<replica, batch, pc, delivered, lingering, fails>>

-----------------------------------------------------------------------------
(* Kafka, the clock and replication.                                       *)

LateDelivery(e) ==
  /\ e \in lingering
  /\ lingering' = lingering \ {e}
  /\ \/ delivered' = delivered \union {e}
     \/ UNCHANGED delivered
  /\ UNCHANGED <<rows, replica, batch, pc, fails>>

BackoffElapses(e) ==
  /\ rows[e].next = "later"
  /\ rows' = [rows EXCEPT ![e].next = "due"]
  /\ UNCHANGED <<replica, batch, pc, delivered, lingering, fails>>

\* The replica applies the primary's changes in order, at any distance.
ReplicaCatchesUp ==
  /\ UseReplica
  /\ replica' = rows
  /\ UNCHANGED <<rows, batch, pc, delivered, lingering, fails>>

ReplicaBackoffElapses(e) ==
  /\ UseReplica /\ replica[e].next = "later"
  /\ replica' = [replica EXCEPT ![e].next = "due"]
  /\ UNCHANGED <<rows, batch, pc, delivered, lingering, fails>>

-----------------------------------------------------------------------------
Flush(f) ==
  \/ LoadCandidates(f)
  \/ Abandon(f)
  \/ \E e \in Event : \/ PublishAcked(f, e)  \/ PublishFailed(f, e)
                      \/ MarkPublished(f, e) \/ MarkFailed(f, e)

AdminStep ==
  \/ RepairState
  \/ \E S \in SUBSET Event : Requeue(S) \/ Purge(S)

Surroundings ==
  \/ ReplicaCatchesUp
  \/ \E e \in Event : \/ Record(e) \/ LateDelivery(e)
                      \/ BackoffElapses(e) \/ ReplicaBackoffElapses(e)

Next == AdminStep \/ Surroundings \/ \E f \in Flusher : Flush(f)

Spec == Init /\ [][Next]_vars

-----------------------------------------------------------------------------
(* Properties.                                                             *)

\* Every variable keeps its type; between two rows a flusher is idle.
TypeOK ==
  /\ rows \in [Event -> Row]
  /\ replica \in [Event -> Row]
  /\ batch \in [Flusher -> [Event -> {NotHeld} \union 0..(MaxRetries - 1)]]
  /\ pc \in [Flusher -> {"idle", "publish", "acked", "nacked"}]
  /\ delivered \subseteq Event
  /\ lingering \subseteq Event
  /\ fails \in [Event -> 0..MaxRetries]

\* A row says published only if the event reached Kafka, however many flushers
\* work on it and however old their lists are (flush_pending marks the row
\* after kafka_bus.publish has returned TRUE).
PublishedWasDelivered ==
  \A e \in Event : rows[e].status = "published" => e \in delivered

\* The relay gives an event up, and an operator can purge it, only after at
\* least MaxRetries publishes of it have failed: a flusher that decides on a
\* retry_count from its own old list never parks an event too early.
DeadLetterWasEarned ==
  \A e \in Event : rows[e].status \in {"dead_letter", "purged"} => fails[e] >= MaxRetries

\* flush_pending increments the row, not its own copy, so concurrent flushers
\* push retry_count past the maximum, by less than one each.
RetryOvershootIsBounded ==
  ~UseReplica => \A e \in Event : rows[e].retry <= MaxRetries - 1 + Cardinality(Flusher)

\* The inductive strengthening of DeadLetterWasEarned.  A failed publish whose
\* UPDATE is still to come has been counted in fails but not in the row.
Nacked(e) == {f \in Flusher : pc[f] = "nacked" /\ Current(f, e)}

Exhausted(e) == fails[e] = MaxRetries

RowIsCovered(e)     == Exhausted(e) \/ rows[e].retry + Cardinality(Nacked(e)) <= fails[e]
ReplicaIsCovered(e) == Exhausted(e) \/ replica[e].retry <= fails[e]
CopyIsCovered(f, e) ==
  batch[f][e] # NotHeld =>
    Exhausted(e) \/ (IF f \in Nacked(e) THEN batch[f][e] + 1 ELSE batch[f][e]) <= fails[e]

RetriesAreCovered ==
  /\ \A e \in Event : RowIsCovered(e) /\ ReplicaIsCovered(e)
  /\ \A e \in Event : \A f \in Flusher : CopyIsCovered(f, e)

EarnedIInv == TypeOK /\ RetriesAreCovered /\ DeadLetterWasEarned

\* The inductive strengthening of RetryOvershootIsBounded: every flusher that
\* holds a row may still add one to it.
HoldersAreCounted ==
  ~UseReplica =>
    \A e \in Event :
      rows[e].retry + Cardinality(Holders(e)) <= MaxRetries - 1 + Cardinality(Flusher)

\* What the table says, in the terms of EventDelivery.
PhaseOf(row) ==
  CASE row.status = "absent"      -> "absent"
    [] row.status = "dead_letter" -> "parked"
    [] row.status = "published"   -> "settled"
    [] row.status = "purged"      -> "discarded"
    [] OTHER                      -> "owed"

Phase == [e \in Event |-> PhaseOf(rows[e])]

Abstract == INSTANCE EventDelivery WITH phase <- Phase

\* With one flusher that reads the primary the relay keeps the outbox promise:
\* in particular, no late UPDATE takes "published" back, and a failed row is
\* never lost from the table.
ImplementsEventDelivery == Abstract!Spec

OneFlusherOnPrimary == ~UseReplica /\ \A f, g \in Flusher : f = g

\* The inductive strengthening of it: what such a flusher holds was recorded and
\* is not published yet, and what it marks has been delivered.
HeldIsOwed ==
  \A f \in Flusher : \A e \in Held(f) : rows[e].status \notin {"absent", "published"}

LingeringIsRecorded == \A e \in lingering : rows[e].status # "absent"

AckedWasDelivered ==
  \A f \in Flusher : \A e \in Event :
    pc[f] = "acked" /\ Current(f, e) => e \in delivered

PromiseIInv ==
  TypeOK /\ PublishedWasDelivered /\ AckedWasDelivered /\ HeldIsOwed /\ LingeringIsRecorded

\* Any number of flushers, with lists from the primary or from the replica, keep
\* the weaker promise: their late UPDATEs never bring a purged row back, settle
\* what was not delivered, or put an event on Kafka that nobody recorded.
KeepsSharedPromise == Abstract!SharedSpec

\* The inductive strengthening of it: a list names recorded rows only, and so does
\* the replica it may come from.
HeldIsRecorded == \A f \in Flusher : \A e \in Held(f) : rows[e].status # "absent"

ReplicaIsRecorded ==
  \A e \in Event : replica[e].status # "absent" => rows[e].status # "absent"

SharedIInv ==
  /\ TypeOK /\ PublishedWasDelivered /\ AckedWasDelivered
  /\ HeldIsRecorded /\ ReplicaIsRecorded /\ LingeringIsRecorded

\* No event waits for nothing: a row that is still to be published has retries
\* left, so the candidate query will return it once its back-off is over.  With a
\* second flusher or a replica a row can be left failed with its retries used up,
\* which only repair_state notices.
NoRowIsStranded ==
  OneFlusherOnPrimary =>
    \A e \in Event : rows[e].status \in {"pending", "failed"} => rows[e].retry < MaxRetries

\* The inductive strengthening: the flusher's copy is never behind the row.
CopyIsNotBehind ==
  OneFlusherOnPrimary =>
    \A f \in Flusher : \A e \in Held(f) : rows[e].retry <= batch[f][e]

StrandedIInv == TypeOK /\ NoRowIsStranded /\ CopyIsNotBehind

\* The relay thread keeps looping (WF); publish returns and the marking UPDATE
\* succeeds if they are tried over and over, that is, crashes and database errors
\* do not hit the same place for ever (SF); time passes; and operators leave the
\* table alone from some point on.
Fairness ==
  /\ \A f \in Flusher :
       /\ WF_vars(LoadCandidates(f))
       /\ SF_vars(\E e \in Event : PublishAcked(f, e) \/ PublishFailed(f, e))
       /\ SF_vars(\E e \in Event : MarkPublished(f, e) \/ MarkFailed(f, e))
  /\ \A e \in Event : WF_vars(BackoffElapses(e))
  /\ <>[][~AdminStep]_vars

LiveSpec == Spec /\ Fairness

\* Whatever Kafka does, an event waiting in the outbox is decided: it ends up
\* published or dead lettered, never retried for ever and never left failed.
EveryEventIsDecided ==
  \A e \in Event : rows[e].status = "pending" ~>
                     rows[e].status \in {"published", "dead_letter", "purged"}
=============================================================================
