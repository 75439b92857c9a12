------------------------- MODULE OutboxRelayProofs -------------------------
(***************************************************************************)
(* Theorems about OutboxRelay, for every set of events, every finite set   *)
(* of flushers, every MaxRetries and with or without a read replica.       *)
(***************************************************************************)
EXTENDS OutboxRelay, FiniteSetTheorems, TLAPS

\* The helpers of the specification stay within Row.
LEMMA FreshRowType == FreshRow \in Row /\ NoRow \in Row
  BY DEF FreshRow, NoRow, Row, Status, NextRetry

\* The UPDATE after a publish keeps a row's type.
LEMMA PublishedRowType ==
  ASSUME NEW row \in Row
  PROVE  PublishedRow(row) \in Row
  BY DEF PublishedRow, Row, Status, NextRetry

\* The UPDATE after a failed publish writes a row of the table's type.
LEMMA AfterFailureType ==
  ASSUME NEW row \in Row, NEW seen \in Int
  PROVE  AfterFailure(row, seen) \in Row
  BY DEF AfterFailure, Row, Status, NextRetry

\* repair_state keeps a row's type.
LEMMA RepairedType ==
  ASSUME NEW row \in Row
  PROVE  Repaired(row) \in Row
  BY DEF Repaired, Row, Status, NextRetry

\* Purging keeps a row's type (its tombstone).
LEMMA PurgedRowType ==
  ASSUME NEW row \in Row
  PROVE  PurgedRow(row) \in Row
  BY DEF PurgedRow, Row, Status, NextRetry

\* flush_pending's steps keep the types.
LEMMA FlushKeepsTypes ==
  ASSUME TypeOK, NEW f \in Flusher, Flush(f)
  PROVE  TypeOK'
<1> USE RetryAssumption, EventAssumption
<1>1. CASE LoadCandidates(f)
  <2> DEFINE view == IF UseReplica THEN replica ELSE rows
             picked == Oldest(Candidates(view))
  <2>1. view \in [Event -> Row]
    BY DEF TypeOK
  <2>2. picked \subseteq Event /\ \A e \in picked : view[e].retry \in 0..(MaxRetries - 1)
    BY <2>1 DEF Oldest, Candidates, Row
  <2>3. batch' = LoadedRows(f, view, picked)
    BY <1>1 DEF LoadCandidates, LoadFrom
  <2>4. batch' \in [Flusher -> [Event -> {NotHeld} \union 0..(MaxRetries - 1)]]
    <3> HIDE DEF view, picked
    <3> QED BY <2>2, <2>3 DEF LoadedRows, TypeOK
  <2> QED BY <1>1, <2>4 DEF LoadCandidates, TypeOK
<1>2. CASE Abandon(f)
  BY <1>2 DEF Abandon, TypeOK
<1>3. ASSUME NEW e \in Event, PublishAcked(f, e) PROVE TypeOK'
  BY <1>3 DEF PublishAcked, TypeOK
<1>4. ASSUME NEW e \in Event, PublishFailed(f, e) PROVE TypeOK'
  <2>1. fails' \in [Event -> 0..MaxRetries]
    BY <1>4 DEF PublishFailed, TypeOK
  <2> QED BY <1>4, <2>1 DEF PublishFailed, TypeOK
<1>5. ASSUME NEW e \in Event, Advance(f, e)
      PROVE  /\ batch' \in [Flusher -> [Event -> {NotHeld} \union 0..(MaxRetries - 1)]]
             /\ pc' \in [Flusher -> {"idle", "publish", "acked", "nacked"}]
  BY <1>5 DEF Advance, TypeOK
<1>6. ASSUME NEW e \in Event, MarkPublished(f, e) PROVE TypeOK'
  <2>1. rows' \in [Event -> Row]
    BY <1>6, PublishedRowType DEF MarkPublished, TypeOK
  <2> QED BY <1>5, <1>6, <2>1 DEF MarkPublished, TypeOK
<1>7. ASSUME NEW e \in Event, MarkFailed(f, e) PROVE TypeOK'
  <2>1. AfterFailure(rows[e], batch[f][e]) \in Row
    <3>1. rows[e] \in Row /\ batch[f][e] \in Int
      BY DEF TypeOK, NotHeld
    <3> QED BY <3>1, AfterFailureType
  <2>2. rows' \in [Event -> Row]
    BY <1>7, <2>1 DEF MarkFailed, TypeOK
  <2> QED BY <1>5, <1>7, <2>2 DEF MarkFailed, TypeOK
<1> QED BY <1>1, <1>2, <1>3, <1>4, <1>6, <1>7 DEF Flush

\* Every other step keeps the types.
LEMMA OtherStepsKeepTypes ==
  ASSUME TypeOK, AdminStep \/ Surroundings
  PROVE  TypeOK'
<1>1. ASSUME RepairState PROVE TypeOK'
  BY <1>1, RepairedType DEF RepairState, TypeOK
<1>2. ASSUME NEW S \in SUBSET Event, Requeue(S) PROVE TypeOK'
  BY <1>2, FreshRowType DEF Requeue, TypeOK
<1>3. ASSUME NEW S \in SUBSET Event, Purge(S) PROVE TypeOK'
  BY <1>3, PurgedRowType DEF Purge, TypeOK
<1>4. ASSUME ReplicaCatchesUp PROVE TypeOK'
  BY <1>4 DEF ReplicaCatchesUp, TypeOK
<1>5. ASSUME NEW e \in Event, Record(e) PROVE TypeOK'
  BY <1>5, FreshRowType DEF Record, TypeOK
<1>6. ASSUME NEW e \in Event, LateDelivery(e) PROVE TypeOK'
  BY <1>6 DEF LateDelivery, TypeOK
<1>7. ASSUME NEW e \in Event, BackoffElapses(e) PROVE TypeOK'
  BY <1>7 DEF BackoffElapses, TypeOK, Row, NextRetry
<1>8. ASSUME NEW e \in Event, ReplicaBackoffElapses(e) PROVE TypeOK'
  BY <1>8 DEF ReplicaBackoffElapses, TypeOK, Row, NextRetry
<1> QED BY <1>1, <1>2, <1>3, <1>4, <1>5, <1>6, <1>7, <1>8 DEF AdminStep, Surroundings

\* The type invariant holds in every reachable state.
THEOREM TypeCorrect == Spec => []TypeOK
<1>1. Init => TypeOK
  BY FreshRowType, RetryAssumption DEF Init, TypeOK
<1>2. TypeOK /\ [Next]_vars => TypeOK'
  <2>1. TypeOK /\ Next => TypeOK'
    BY FlushKeepsTypes, OtherStepsKeepTypes DEF Next
  <2>2. TypeOK /\ UNCHANGED vars => TypeOK'
    BY DEF TypeOK, vars
  <2> QED BY <2>1, <2>2
<1> QED BY <1>1, <1>2, PTL DEF Spec

-----------------------------------------------------------------------------
(* A published row was delivered.                                          *)

\* The inductive invariant behind PublishedWasDelivered: a flusher that is about
\* to mark a row has seen the acknowledgement for that very row.
PublishedIInv == TypeOK /\ PublishedWasDelivered /\ AckedWasDelivered

\* The list of a flusher names at most one row as the current one.
LEMMA CurrentIsUnique ==
  ASSUME NEW f \in Flusher, NEW d \in Event, NEW e \in Event,
         Current(f, d), Current(f, e)
  PROVE  d = e
  BY EventAssumption DEF Current

\* A step of one flusher leaves the list and the position of the others alone.
LEMMA OthersUndisturbed ==
  ASSUME TypeOK, NEW f \in Flusher, Flush(f), NEW g \in Flusher, g # f
  PROVE  /\ pc'[g] = pc[g] /\ batch'[g] = batch[g]
         /\ \A e \in Event : Current(g, e)' <=> Current(g, e)
<1>1. pc'[g] = pc[g] /\ batch'[g] = batch[g]
  BY DEF Flush, LoadCandidates, LoadFrom, LoadedRows, Abandon, PublishAcked,
         PublishFailed, MarkPublished, MarkFailed, Advance, TypeOK
<1> QED BY <1>1 DEF Current, Held

\* After its own step a flusher is at "acked" only if that step was PublishAcked.
LEMMA AckedOnlyByPublish ==
  ASSUME TypeOK, NEW f \in Flusher, Flush(f), pc'[f] = "acked"
  PROVE  \E e \in Event : PublishAcked(f, e)
<1>1. ~LoadCandidates(f) /\ ~Abandon(f)
  BY DEF LoadCandidates, Abandon, TypeOK
<1>2. ASSUME NEW e \in Event PROVE ~PublishFailed(f, e)
  BY DEF PublishFailed, TypeOK
<1>3. ASSUME NEW e \in Event PROVE ~Advance(f, e)
  BY DEF Advance, TypeOK
<1> QED BY <1>1, <1>2, <1>3 DEF Flush, MarkPublished, MarkFailed

\* Kafka never forgets: no step removes an event from delivered.
LEMMA DeliveredGrows ==
  ASSUME [Next]_vars
  PROVE  delivered \subseteq delivered'
  BY DEF Next, AdminStep, RepairState, Requeue, Purge, Surroundings, ReplicaCatchesUp,
         Record, LateDelivery, BackoffElapses, ReplicaBackoffElapses, Flush,
         LoadCandidates, Abandon, PublishAcked, PublishFailed, MarkPublished,
         MarkFailed, vars

\* Only MarkPublished turns a row into a published one.
LEMMA PublishedOnlyByMark ==
  ASSUME TypeOK, [Next]_vars, NEW e \in Event,
         rows'[e].status = "published", rows[e].status # "published"
  PROVE  \E f \in Flusher : MarkPublished(f, e)
<1>0. rows \in [Event -> Row] /\ rows[e] \in Row
  BY DEF TypeOK
<1>1. ~RepairState
  <2>1. Repaired(rows[e]).status # "published"
    BY <1>0 DEF Repaired, Row
  <2> QED BY <2>1 DEF RepairState
<1>2. ASSUME NEW S \in SUBSET Event PROVE ~Requeue(S) /\ ~Purge(S)
  <2>1. FreshRow.status # "published" /\ PurgedRow(rows[e]).status # "published"
    BY <1>0 DEF FreshRow, PurgedRow, Row
  <2> QED BY <2>1 DEF Requeue, Purge
<1>3. ~Surroundings
  <2>1. ASSUME NEW d \in Event PROVE ~Record(d)
    BY <1>0 DEF Record, FreshRow
  <2>2. ASSUME NEW d \in Event PROVE ~BackoffElapses(d)
    BY <1>0 DEF BackoffElapses, Row
  <2> QED BY <2>1, <2>2 DEF Surroundings, ReplicaCatchesUp, LateDelivery, ReplicaBackoffElapses
<1>4. ASSUME NEW f \in Flusher, Flush(f)
      PROVE  MarkPublished(f, e)
  <2>1. ~LoadCandidates(f) /\ ~Abandon(f)
    BY DEF LoadCandidates, Abandon
  <2>2. ASSUME NEW d \in Event PROVE ~PublishAcked(f, d) /\ ~PublishFailed(f, d)
    BY DEF PublishAcked, PublishFailed
  <2>3. ASSUME NEW d \in Event PROVE ~MarkFailed(f, d)
    <3>1. AfterFailure(rows[d], batch[f][d]).status # "published"
      BY DEF AfterFailure
    <3> QED BY <3>1 DEF MarkFailed, TypeOK
  <2>4. ASSUME NEW d \in Event, d # e PROVE ~MarkPublished(f, d)
    BY <2>4 DEF MarkPublished, TypeOK
  <2> QED BY <1>4, <2>1, <2>2, <2>3, <2>4 DEF Flush
<1> QED BY <1>1, <1>2, <1>3, <1>4 DEF Next, AdminStep, vars

\* Every step keeps the invariant.
LEMMA PublishedIInvKept ==
  ASSUME PublishedIInv, [Next]_vars
  PROVE  PublishedIInv'
<1>1. TypeOK /\ TypeOK'
  <2>1. TypeOK /\ Next => TypeOK'
    BY FlushKeepsTypes, OtherStepsKeepTypes DEF Next
  <2> QED BY <2>1 DEF PublishedIInv, TypeOK, vars
<1>2. PublishedWasDelivered'
  <2> SUFFICES ASSUME NEW e \in Event, rows'[e].status = "published"
               PROVE  e \in delivered'
    BY DEF PublishedWasDelivered
  <2>1. CASE rows[e].status = "published"
    BY <2>1, DeliveredGrows DEF PublishedIInv, PublishedWasDelivered
  <2>2. CASE rows[e].status # "published"
    <3>1. PICK f \in Flusher : MarkPublished(f, e)
      BY <1>1, <2>2, PublishedOnlyByMark
    <3> QED BY <3>1, DeliveredGrows DEF PublishedIInv, AckedWasDelivered, MarkPublished
  <2> QED BY <2>1, <2>2
<1>3. AckedWasDelivered'
  <2> SUFFICES ASSUME NEW g \in Flusher, NEW e \in Event, pc'[g] = "acked", Current(g, e)'
               PROVE  e \in delivered'
    BY DEF AckedWasDelivered
  <2>1. ASSUME NEW f \in Flusher, Flush(f) PROVE e \in delivered'
    <3>1. CASE g = f
      <4>1. PICK d \in Event : PublishAcked(f, d)
        BY <1>1, <2>1, <3>1, AckedOnlyByPublish
      <4>2. Current(f, e)
        BY <3>1, <4>1 DEF PublishAcked, Current, Held
      <4> QED BY <3>1, <4>1, <4>2, CurrentIsUnique DEF PublishAcked
    <3>2. CASE g # f
      BY <1>1, <2>1, <3>2, OthersUndisturbed, DeliveredGrows
         DEF PublishedIInv, AckedWasDelivered
    <3> QED BY <3>1, <3>2
  <2>2. CASE UNCHANGED <<pc, batch>>
    BY <2>2, DeliveredGrows DEF PublishedIInv, AckedWasDelivered, Current, Held
  <2>3. AdminStep \/ Surroundings \/ UNCHANGED vars => UNCHANGED <<pc, batch>>
    BY DEF AdminStep, RepairState, Requeue, Purge, Surroundings, ReplicaCatchesUp,
           Record, LateDelivery, BackoffElapses, ReplicaBackoffElapses, vars
  <2> QED BY <2>1, <2>2, <2>3 DEF Next
<1> QED BY <1>1, <1>2, <1>3 DEF PublishedIInv

\* However many flushers run and however old their lists are, a row says
\* published only if its event reached Kafka.
THEOREM PublishedDelivered == Spec => []PublishedWasDelivered
<1>1. Init => PublishedIInv
  BY FreshRowType, RetryAssumption
     DEF Init, PublishedIInv, PublishedWasDelivered, AckedWasDelivered, TypeOK, NoRow
<1>2. PublishedIInv /\ [Next]_vars => PublishedIInv'
  BY PublishedIInvKept
<1>3. PublishedIInv => PublishedWasDelivered
  BY DEF PublishedIInv
<1> QED BY <1>1, <1>2, <1>3, PTL DEF Spec

-----------------------------------------------------------------------------
(* A dead letter has used up its retries.                                  *)

\* Any set of flushers has a cardinality, and it shrinks with the set.
LEMMA FlusherSets ==
  ASSUME NEW S \in SUBSET Flusher
  PROVE  /\ IsFiniteSet(S) /\ Cardinality(S) \in Nat
         /\ \A T \in SUBSET S : Cardinality(T) <= Cardinality(S) /\ Cardinality(T) \in Nat
         /\ \A f \in S : Cardinality(S \ {f}) = Cardinality(S) - 1
         /\ \A f \in Flusher \ S : Cardinality(S \union {f}) = Cardinality(S) + 1
<1>1. IsFiniteSet(S)
  BY FlusherAssumption, FS_Subset
<1>2. Cardinality(S) \in Nat
  BY <1>1, FS_CardinalityType
<1>3. ASSUME NEW T \in SUBSET S
      PROVE  Cardinality(T) <= Cardinality(S) /\ Cardinality(T) \in Nat
  BY <1>1, FS_Subset, FS_CardinalityType
<1>4. ASSUME NEW f \in S PROVE Cardinality(S \ {f}) = Cardinality(S) - 1
  BY <1>1, FS_RemoveElement
<1>5. ASSUME NEW f \in Flusher \ S PROVE Cardinality(S \union {f}) = Cardinality(S) + 1
  BY <1>1, FS_AddElement
<1> QED BY <1>1, <1>2, <1>3, <1>4, <1>5

\* Nacked counts flushers.
LEMMA NackedIsFlushers == \A e \in Event : Nacked(e) \in SUBSET Flusher
  BY DEF Nacked

\* A flusher that is not left waiting for its failure UPDATE leaves Nacked.
LEMMA NackedShrinks ==
  ASSUME TypeOK, NEW f \in Flusher, Flush(f), pc'[f] # "nacked", NEW e \in Event
  PROVE  Nacked(e)' = Nacked(e) \ {f}
  BY OthersUndisturbed DEF Nacked

\* Steps outside flush_pending only lower retry_count, and park a row only if
\* its retry_count has reached the maximum.
LEMMA OtherStepsOnRows ==
  ASSUME TypeOK, AdminStep \/ Surroundings, NEW e \in Event
  PROVE  /\ rows'[e].retry <= rows[e].retry
         /\ replica'[e].retry \in {rows[e].retry, replica[e].retry}
         /\ rows'[e].status \in {"dead_letter", "purged"} =>
              \/ rows[e].status \in {"dead_letter", "purged"}
              \/ rows[e].retry >= MaxRetries
         /\ UNCHANGED <<pc, batch, fails>>
<1>0. /\ rows \in [Event -> Row] /\ rows[e] \in Row
      /\ replica \in [Event -> Row] /\ replica[e] \in Row
  BY DEF TypeOK
<1>1. CASE RepairState
  <2>1. /\ Repaired(rows[e]).retry = rows[e].retry
        /\ Repaired(rows[e]).status \in {"dead_letter", "purged"} =>
             \/ rows[e].status \in {"dead_letter", "purged"}
             \/ rows[e].retry >= MaxRetries
    BY <1>0 DEF Repaired, Row
  <2> QED BY <1>0, <1>1, <2>1 DEF RepairState, Row
<1>2. ASSUME NEW S \in SUBSET Event, Requeue(S) \/ Purge(S)
      PROVE  /\ rows'[e].retry <= rows[e].retry
             /\ rows'[e].status \in {"dead_letter", "purged"} =>
                  rows[e].status \in {"dead_letter", "purged"}
             /\ UNCHANGED <<replica, pc, batch, fails>>
  <2>1. FreshRow.status = "pending" /\ FreshRow.retry = 0 /\ PurgedRow(rows[e]).retry = 0
    BY <1>0 DEF FreshRow, PurgedRow, Row
  <2> QED BY <1>0, <1>2, <2>1 DEF Requeue, Purge, Row
<1>3. CASE ReplicaCatchesUp
  BY <1>0, <1>3 DEF ReplicaCatchesUp, Row
<1>4. ASSUME NEW d \in Event, Record(d) \/ LateDelivery(d)
      PROVE  /\ rows'[e].retry <= rows[e].retry
             /\ rows'[e].status \in {"dead_letter", "purged"} =>
                  rows[e].status \in {"dead_letter", "purged"}
             /\ UNCHANGED <<replica, pc, batch, fails>>
  <2>1. FreshRow.status = "pending" /\ FreshRow.retry = 0
    BY DEF FreshRow
  <2> QED BY <1>0, <1>4, <2>1 DEF Record, LateDelivery, Row
<1>5. ASSUME NEW d \in Event, BackoffElapses(d) \/ ReplicaBackoffElapses(d)
      PROVE  /\ rows'[e].retry = rows[e].retry /\ rows'[e].status = rows[e].status
             /\ replica'[e].retry = replica[e].retry
             /\ UNCHANGED <<pc, batch, fails>>
  BY <1>0, <1>5 DEF BackoffElapses, ReplicaBackoffElapses, Row
<1>6. \A x \in Nat : x <= x
  OBVIOUS
<1> QED BY <1>0, <1>1, <1>2, <1>3, <1>4, <1>5, <1>6 DEF AdminStep, Surroundings, Row

\* Steps outside flush_pending keep EarnedIInv.
LEMMA OtherStepsKeepEarned ==
  ASSUME EarnedIInv, AdminStep \/ Surroundings
  PROVE  RetriesAreCovered' /\ DeadLetterWasEarned'
<1> USE RetryAssumption DEF Exhausted
<1>1. TypeOK /\ TypeOK'
  BY OtherStepsKeepTypes DEF EarnedIInv
<1>2. UNCHANGED <<pc, batch, fails>>
  BY <1>1, OtherStepsOnRows, EventAssumption DEF AdminStep, RepairState, Requeue, Purge,
     Surroundings, ReplicaCatchesUp, Record, LateDelivery, BackoffElapses, ReplicaBackoffElapses
<1>3. ASSUME NEW e \in Event PROVE Nacked(e)' = Nacked(e) /\ Cardinality(Nacked(e)) \in Nat
  BY <1>2, FlusherSets, NackedIsFlushers DEF Nacked, Current, Held
<1>4. ASSUME NEW e \in Event
      PROVE  /\ rows[e].retry \in Nat /\ rows'[e].retry \in Nat /\ fails[e] \in 0..MaxRetries
             /\ replica[e].retry \in Nat
  BY <1>1 DEF TypeOK, Row
<1>5. ASSUME NEW e \in Event PROVE RowIsCovered(e)' /\ ReplicaIsCovered(e)'
  <2>1. RowIsCovered(e) /\ ReplicaIsCovered(e)
    BY DEF EarnedIInv, RetriesAreCovered
  <2> QED BY <1>1, <1>2, <1>3, <1>4, <2>1, OtherStepsOnRows DEF RowIsCovered, ReplicaIsCovered
<1>6. ASSUME NEW e \in Event, NEW f \in Flusher PROVE CopyIsCovered(f, e)'
  BY <1>2, <1>3 DEF EarnedIInv, RetriesAreCovered, CopyIsCovered
<1>7. ASSUME NEW e \in Event, rows'[e].status \in {"dead_letter", "purged"}
      PROVE  fails'[e] >= MaxRetries
  <2>1. RowIsCovered(e)
    BY DEF EarnedIInv, RetriesAreCovered
  <2> QED BY <1>1, <1>2, <1>3, <1>4, <1>7, <2>1, OtherStepsOnRows
          DEF EarnedIInv, DeadLetterWasEarned, RowIsCovered
<1> QED BY <1>5, <1>6, <1>7 DEF RetriesAreCovered, DeadLetterWasEarned

\* What EarnedIInv says of one event, with the types a step needs.
LEMMA EarnedFacts ==
  ASSUME EarnedIInv, NEW e \in Event
  PROVE  /\ RowIsCovered(e) /\ ReplicaIsCovered(e)
         /\ \A f \in Flusher : CopyIsCovered(f, e)
         /\ rows[e].status \in {"dead_letter", "purged"} => fails[e] >= MaxRetries
         /\ rows[e] \in Row /\ rows[e].retry \in Nat /\ replica[e].retry \in Nat
         /\ fails[e] \in 0..MaxRetries
         /\ \A f \in Flusher : batch[f][e] \in {NotHeld} \union 0..(MaxRetries - 1)
         /\ Cardinality(Nacked(e)) \in Nat
  BY FlusherSets, NackedIsFlushers
     DEF EarnedIInv, RetriesAreCovered, DeadLetterWasEarned, TypeOK, Row

\* A flush step that leaves an event's row and failure count alone, and does not
\* leave its flusher waiting, keeps the event's row covered.
LEMMA QuietFlushKeepsRow ==
  ASSUME EarnedIInv, NEW f \in Flusher, Flush(f), pc'[f] # "nacked", NEW e \in Event,
         fails'[e] = fails[e], rows'[e].retry = rows[e].retry, replica' = replica
  PROVE  RowIsCovered(e)' /\ ReplicaIsCovered(e)'
<1>1. TypeOK
  BY DEF EarnedIInv
<1>2. Cardinality(Nacked(e)') <= Cardinality(Nacked(e)) /\ Cardinality(Nacked(e)') \in Nat
  BY <1>1, NackedShrinks, NackedIsFlushers, FlusherSets
<1> QED BY <1>2, EarnedFacts DEF RowIsCovered, ReplicaIsCovered, Exhausted

\* The copies in the lists of the other flushers stay covered while no failure
\* count shrinks.
LEMMA OthersCopiesCovered ==
  ASSUME EarnedIInv, NEW f \in Flusher, Flush(f), NEW g \in Flusher, g # f, NEW e \in Event,
         fails'[e] \in 0..MaxRetries, fails'[e] >= fails[e]
  PROVE  CopyIsCovered(g, e)'
<1>1. TypeOK
  BY DEF EarnedIInv
<1>2. batch'[g][e] = batch[g][e] /\ (g \in Nacked(e)' <=> g \in Nacked(e))
  BY <1>1, OthersUndisturbed DEF Nacked
<1> QED BY <1>2, EarnedFacts, RetryAssumption DEF CopyIsCovered, Exhausted, NotHeld

\* LoadCandidates copies retry counts that are covered.
LEMMA LoadKeepsEarned ==
  ASSUME EarnedIInv, NEW f \in Flusher, LoadCandidates(f)
  PROVE  RetriesAreCovered' /\ DeadLetterWasEarned'
<1>0. TypeOK /\ Flush(f)
  BY DEF EarnedIInv, Flush
<1>1. pc'[f] = "publish" /\ UNCHANGED <<rows, replica, fails>>
  BY <1>0 DEF LoadCandidates, TypeOK
<1>2. ASSUME NEW e \in Event PROVE RowIsCovered(e)' /\ ReplicaIsCovered(e)'
  BY <1>0, <1>1, QuietFlushKeepsRow
<1>3. ASSUME NEW e \in Event PROVE CopyIsCovered(f, e)'
  <2>1. batch'[f][e] \in {NotHeld, rows[e].retry, replica[e].retry}
    BY <1>0 DEF LoadCandidates, LoadFrom, LoadedRows, TypeOK
  <2>2. f \notin Nacked(e)'
    BY <1>1 DEF Nacked
  <2> QED BY <1>1, <2>1, <2>2, EarnedFacts
          DEF CopyIsCovered, RowIsCovered, ReplicaIsCovered, Exhausted
<1>4. ASSUME NEW e \in Event, NEW g \in Flusher, g # f PROVE CopyIsCovered(g, e)'
  BY <1>0, <1>1, <1>4, EarnedFacts, OthersCopiesCovered
<1> QED BY <1>1, <1>2, <1>3, <1>4 DEF RetriesAreCovered, DeadLetterWasEarned, EarnedIInv

\* So do the steps that give up a list or hear of a success.
LEMMA AbandonAndAckKeepEarned ==
  ASSUME EarnedIInv, NEW f \in Flusher, Abandon(f) \/ \E d \in Event : PublishAcked(f, d)
  PROVE  RetriesAreCovered' /\ DeadLetterWasEarned'
<1>0. TypeOK /\ Flush(f)
  BY DEF EarnedIInv, Flush
<1>1. pc'[f] # "nacked" /\ UNCHANGED <<rows, replica, fails>>
  BY <1>0 DEF Abandon, PublishAcked, TypeOK
<1>2. ASSUME NEW e \in Event PROVE RowIsCovered(e)' /\ ReplicaIsCovered(e)'
  BY <1>0, <1>1, QuietFlushKeepsRow
<1>3. ASSUME NEW e \in Event PROVE CopyIsCovered(f, e)'
  <2>1. batch'[f][e] \in {NotHeld, batch[f][e]}
    BY <1>0 DEF Abandon, PublishAcked, TypeOK
  <2>2. f \notin Nacked(e)'
    BY <1>1 DEF Nacked
  <2> QED BY <1>1, <2>1, <2>2, EarnedFacts DEF CopyIsCovered, Exhausted
<1>4. ASSUME NEW e \in Event, NEW g \in Flusher, g # f PROVE CopyIsCovered(g, e)'
  BY <1>0, <1>1, <1>4, EarnedFacts, OthersCopiesCovered
<1> QED BY <1>1, <1>2, <1>3, <1>4 DEF RetriesAreCovered, DeadLetterWasEarned, EarnedIInv

\* PublishFailed counts the failure it adds to Nacked.
LEMMA PublishFailedKeepsEarned ==
  ASSUME EarnedIInv, NEW f \in Flusher, NEW e \in Event, PublishFailed(f, e)
  PROVE  RetriesAreCovered' /\ DeadLetterWasEarned'
<1> USE RetryAssumption
<1>0. TypeOK /\ Flush(f)
  BY DEF EarnedIInv, Flush
<1>1. UNCHANGED <<rows, replica, batch>> /\ pc[f] = "publish" /\ pc'[f] = "nacked" /\ Current(f, e)
  BY <1>0 DEF PublishFailed, TypeOK
<1>2. ASSUME NEW d \in Event
      PROVE  /\ fails'[d] \in 0..MaxRetries /\ fails'[d] >= fails[d]
             /\ d # e => fails'[d] = fails[d]
             /\ d = e => fails'[d] = MaxRetries \/ fails'[d] = fails[d] + 1
  <2>1. fails[d] \in 0..MaxRetries
    BY <1>0 DEF TypeOK
  <2>2. CASE d = e
    <3>1. fails'[d] = IF fails[d] < MaxRetries THEN fails[d] + 1 ELSE fails[d]
      BY <1>0, <2>2 DEF PublishFailed, TypeOK
    <3> QED BY <2>1, <2>2, <3>1
  <2>3. CASE d # e
    <3>1. fails'[d] = fails[d]
      BY <1>0, <2>3 DEF PublishFailed, TypeOK
    <3> QED BY <2>1, <2>3, <3>1
  <2> QED BY <2>2, <2>3
<1>3. f \notin Nacked(e) /\ Nacked(e)' = Nacked(e) \union {f}
  BY <1>0, <1>1, OthersUndisturbed DEF Nacked, Current, Held
<1>4. ASSUME NEW d \in Event, d # e PROVE Nacked(d)' = Nacked(d)
  <2>1. ~Current(f, d)
    BY <1>1, <1>4, CurrentIsUnique
  <2> QED BY <1>0, <1>1, <2>1, OthersUndisturbed DEF Nacked, Current, Held
<1>5. ASSUME NEW d \in Event PROVE RowIsCovered(d)' /\ ReplicaIsCovered(d)'
  <2>1. CASE d = e
    <3>1. Cardinality(Nacked(e)') = Cardinality(Nacked(e)) + 1
      BY <1>3, FlusherSets, NackedIsFlushers
    <3> QED BY <1>1, <1>2, <2>1, <3>1, EarnedFacts DEF RowIsCovered, ReplicaIsCovered, Exhausted
  <2>2. CASE d # e
    BY <1>1, <1>2, <1>4, <2>2, EarnedFacts DEF RowIsCovered, ReplicaIsCovered, Exhausted
  <2> QED BY <2>1, <2>2
<1>6. ASSUME NEW d \in Event PROVE CopyIsCovered(f, d)'
  <2>1. batch'[f][d] = batch[f][d]
    BY <1>1
  <2>2. CASE d = e
    BY <1>2, <1>3, <2>1, <2>2, EarnedFacts DEF CopyIsCovered, Exhausted, NotHeld
  <2>3. CASE d # e
    BY <1>2, <1>4, <2>1, <2>3, EarnedFacts DEF CopyIsCovered, Exhausted, NotHeld
  <2> QED BY <2>2, <2>3
<1>7. ASSUME NEW d \in Event, NEW g \in Flusher, g # f PROVE CopyIsCovered(g, d)'
  BY <1>0, <1>2, <1>7, OthersCopiesCovered
<1>8. ASSUME NEW d \in Event, rows'[d].status \in {"dead_letter", "purged"}
      PROVE  fails'[d] >= MaxRetries
  BY <1>1, <1>2, <1>8, EarnedFacts
<1> QED BY <1>5, <1>6, <1>7, <1>8 DEF RetriesAreCovered, DeadLetterWasEarned

\* MarkPublished never touches retry_count.
LEMMA MarkPublishedKeepsEarned ==
  ASSUME EarnedIInv, NEW f \in Flusher, NEW e \in Event, MarkPublished(f, e)
  PROVE  RetriesAreCovered' /\ DeadLetterWasEarned'
<1>0. TypeOK /\ Flush(f)
  BY DEF EarnedIInv, Flush
<1>1. pc'[f] # "nacked" /\ UNCHANGED <<replica, fails>>
  BY <1>0 DEF MarkPublished, Advance, TypeOK
<1>2. ASSUME NEW d \in Event
      PROVE  /\ rows'[d].retry = rows[d].retry
             /\ rows'[d].status = rows[d].status \/ rows'[d].status = "published"
  <2>1. PublishedRow(rows[e]).retry = rows[e].retry /\ PublishedRow(rows[e]).status = "published"
    BY EarnedFacts DEF PublishedRow, Row
  <2> QED BY <1>0, <2>1 DEF MarkPublished, TypeOK
<1>3. ASSUME NEW d \in Event PROVE RowIsCovered(d)' /\ ReplicaIsCovered(d)'
  BY <1>0, <1>1, <1>2, QuietFlushKeepsRow
<1>4. ASSUME NEW d \in Event PROVE CopyIsCovered(f, d)'
  <2>1. batch'[f][d] \in {NotHeld, batch[f][d]}
    BY <1>0 DEF MarkPublished, Advance, TypeOK
  <2>2. f \notin Nacked(d)'
    BY <1>1 DEF Nacked
  <2> QED BY <1>1, <2>1, <2>2, EarnedFacts DEF CopyIsCovered, Exhausted
<1>5. ASSUME NEW d \in Event, NEW g \in Flusher, g # f PROVE CopyIsCovered(g, d)'
  BY <1>0, <1>1, <1>5, EarnedFacts, OthersCopiesCovered
<1> QED BY <1>1, <1>2, <1>3, <1>4, <1>5, EarnedFacts DEF RetriesAreCovered, DeadLetterWasEarned

\* MarkFailed moves a failure from Nacked into the row, and parks the row only
\* when the flusher's copy and this failure make up the maximum.
LEMMA MarkFailedKeepsEarned ==
  ASSUME EarnedIInv, NEW f \in Flusher, NEW e \in Event, MarkFailed(f, e)
  PROVE  RetriesAreCovered' /\ DeadLetterWasEarned'
<1> USE RetryAssumption
<1>0. TypeOK /\ Flush(f) /\ pc[f] = "nacked" /\ Current(f, e)
  BY DEF EarnedIInv, Flush, MarkFailed
<1>1. pc'[f] # "nacked" /\ UNCHANGED <<replica, fails>>
  BY <1>0 DEF MarkFailed, Advance, TypeOK
<1>2. ASSUME NEW d \in Event, d # e PROVE rows'[d] = rows[d]
  BY <1>0, <1>2 DEF MarkFailed, TypeOK
<1>3. rows'[e].retry \in {rows[e].retry, rows[e].retry + 1}
  <2>1. AfterFailure(rows[e], batch[f][e]).retry = rows[e].retry + 1
    BY DEF AfterFailure
  <2> QED BY <1>0, <2>1 DEF MarkFailed, TypeOK
<1>4. f \in Nacked(e)
  BY <1>0 DEF Nacked
<1>5. ASSUME NEW d \in Event PROVE RowIsCovered(d)' /\ ReplicaIsCovered(d)'
  <2>1. CASE d = e
    <3>1. Cardinality(Nacked(e)') = Cardinality(Nacked(e)) - 1
      BY <1>0, <1>1, <1>4, NackedShrinks, FlusherSets, NackedIsFlushers
    <3>2. RowIsCovered(e)'
      BY <1>1, <1>3, <3>1, EarnedFacts DEF RowIsCovered, Exhausted
    <3>3. ReplicaIsCovered(e)'
      BY <1>1, EarnedFacts DEF ReplicaIsCovered, Exhausted
    <3> QED BY <2>1, <3>2, <3>3
  <2>2. CASE d # e
    BY <1>0, <1>1, <1>2, <2>2, QuietFlushKeepsRow
  <2> QED BY <2>1, <2>2
<1>6. ASSUME NEW d \in Event PROVE CopyIsCovered(f, d)'
  <2>1. batch'[f][d] \in {NotHeld, batch[f][d]}
    BY <1>0 DEF MarkFailed, Advance, TypeOK
  <2>2. f \notin Nacked(d)'
    BY <1>1 DEF Nacked
  <2> QED BY <1>1, <2>1, <2>2, EarnedFacts DEF CopyIsCovered, Exhausted, NotHeld
<1>7. ASSUME NEW d \in Event, NEW g \in Flusher, g # f PROVE CopyIsCovered(g, d)'
  BY <1>0, <1>1, <1>7, EarnedFacts, OthersCopiesCovered
<1>8. ASSUME NEW d \in Event, rows'[d].status \in {"dead_letter", "purged"}
      PROVE  fails'[d] >= MaxRetries
  <2>1. CASE d = e /\ InTable(e)
    <3>1. batch[f][e] + 1 >= MaxRetries
      <4>1. rows'[e] = AfterFailure(rows[e], batch[f][e])
        BY <1>0, <2>1 DEF MarkFailed, TypeOK
      <4> QED BY <1>8, <2>1, <4>1 DEF AfterFailure
    <3>2. batch[f][e] # NotHeld /\ batch[f][e] \in 0..(MaxRetries - 1)
      BY <1>0, EarnedFacts DEF Current, Held
    <3> QED BY <1>1, <1>4, <2>1, <3>1, <3>2, EarnedFacts DEF CopyIsCovered, Exhausted
  <2>2. CASE d # e \/ ~InTable(e)
    <3>1. rows'[d] = rows[d]
      BY <1>0, <1>2, <2>2 DEF MarkFailed, TypeOK
    <3> QED BY <1>1, <1>8, <3>1, EarnedFacts
  <2> QED BY <2>1, <2>2
<1> QED BY <1>5, <1>6, <1>7, <1>8 DEF RetriesAreCovered, DeadLetterWasEarned

\* An event is dead lettered, and can be purged, only after MaxRetries failed
\* publishes of it, however many flushers run and however old their lists are.
THEOREM DeadLetterEarned == Spec => []DeadLetterWasEarned
<1>1. Init => EarnedIInv
  <2> SUFFICES ASSUME Init PROVE EarnedIInv
    OBVIOUS
  <2>1. TypeOK
    BY FreshRowType, RetryAssumption DEF Init, TypeOK
  <2>2. ASSUME NEW e \in Event PROVE Nacked(e) = {} /\ Cardinality(Nacked(e)) = 0
    BY FS_EmptySet DEF Init, Nacked
  <2> QED BY <2>1, <2>2 DEF EarnedIInv, Init, RetriesAreCovered, DeadLetterWasEarned,
             RowIsCovered, ReplicaIsCovered, CopyIsCovered, NoRow
<1>2. EarnedIInv /\ [Next]_vars => EarnedIInv'
  <2> SUFFICES ASSUME EarnedIInv, [Next]_vars PROVE EarnedIInv'
    OBVIOUS
  <2>1. TypeOK'
    BY FlushKeepsTypes, OtherStepsKeepTypes DEF EarnedIInv, Next, TypeOK, vars
  <2>2. ASSUME NEW f \in Flusher, Flush(f) PROVE RetriesAreCovered' /\ DeadLetterWasEarned'
    BY <2>2, LoadKeepsEarned, AbandonAndAckKeepEarned, PublishFailedKeepsEarned,
       MarkPublishedKeepsEarned, MarkFailedKeepsEarned DEF Flush
  <2>3. CASE AdminStep \/ Surroundings
    BY <2>1, <2>3, OtherStepsKeepEarned DEF EarnedIInv
  <2>4. CASE UNCHANGED vars
    BY <2>4 DEF EarnedIInv, TypeOK, RetriesAreCovered, DeadLetterWasEarned, RowIsCovered,
                ReplicaIsCovered, CopyIsCovered, Exhausted, Nacked, Current, Held, vars
  <2> QED BY <2>1, <2>2, <2>3, <2>4 DEF Next, EarnedIInv
<1>3. EarnedIInv => DeadLetterWasEarned
  BY DEF EarnedIInv
<1> QED BY <1>1, <1>2, <1>3, PTL DEF Spec

-----------------------------------------------------------------------------
(* retry_count passes the maximum by less than one for each flusher.       *)

\* A step that does not raise retry_count and gives nobody a new hold on the
\* row keeps it counted.
LEMMA HoldersShrink ==
  ASSUME TypeOK, HoldersAreCounted, ~UseReplica, NEW e \in Event,
         rows'[e].retry \in Nat, rows'[e].retry <= rows[e].retry,
         Holders(e)' \subseteq Holders(e)
  PROVE  rows'[e].retry + Cardinality(Holders(e)') <= MaxRetries - 1 + Cardinality(Flusher)
<1>1. Holders(e) \in SUBSET Flusher
  BY DEF Holders
<1>2. /\ Cardinality(Holders(e)') <= Cardinality(Holders(e))
      /\ Cardinality(Holders(e)') \in Nat /\ Cardinality(Holders(e)) \in Nat
  BY <1>1, FlusherSets
<1>3. rows[e].retry \in Nat /\ Cardinality(Flusher) \in Nat
  BY FlusherSets DEF TypeOK, Row
<1> QED BY <1>2, <1>3, RetryAssumption DEF HoldersAreCounted

\* Every flusher that holds a row may add one to it, and gives the row up when
\* it does.
LEMMA FlushKeepsHolders ==
  ASSUME TypeOK, TypeOK', HoldersAreCounted, ~UseReplica, NEW f \in Flusher, Flush(f),
         NEW e \in Event
  PROVE  rows'[e].retry + Cardinality(Holders(e)') <= MaxRetries - 1 + Cardinality(Flusher)
<1> USE RetryAssumption
<1>0. /\ rows[e] \in Row /\ rows'[e] \in Row
      /\ rows[e].retry \in Nat /\ rows'[e].retry \in Nat
      /\ Cardinality(Flusher) \in Nat
  BY FlusherSets DEF TypeOK, Row
<1>1. CASE LoadCandidates(f)
  <2> DEFINE picked == Oldest(Candidates(rows))
  <2>1. rows' = rows /\ batch' = LoadedRows(f, rows, picked)
    BY <1>1 DEF LoadCandidates, LoadFrom
  <2>2. CASE e \in picked
    <3>1. rows'[e].retry <= MaxRetries - 1
      BY <1>0, <2>1, <2>2 DEF Oldest, Candidates
    <3>2. Cardinality(Holders(e)') <= Cardinality(Flusher) /\ Cardinality(Holders(e)') \in Nat
      BY FlusherSets DEF Holders
    <3> QED BY <1>0, <3>1, <3>2
  <2>3. CASE e \notin picked
    <3>1. Holders(e)' \subseteq Holders(e)
      <4> HIDE DEF picked
      <4> QED BY <2>1, <2>3 DEF Holders, LoadedRows, TypeOK
    <3> QED BY <1>0, <2>1, <3>1, HoldersShrink
  <2> QED BY <2>2, <2>3
<1>2. CASE Abandon(f) \/ \E d \in Event : PublishAcked(f, d) \/ PublishFailed(f, d)
  <2>1. rows' = rows /\ Holders(e)' \subseteq Holders(e)
    BY <1>2 DEF Abandon, PublishAcked, PublishFailed, Holders, TypeOK
  <2> QED BY <1>0, <2>1, HoldersShrink
<1>3. ASSUME NEW d \in Event, MarkPublished(f, d)
      PROVE  rows'[e].retry <= rows[e].retry /\ Holders(e)' \subseteq Holders(e)
  <2>1. PublishedRow(rows[d]).retry = rows[d].retry
    BY DEF TypeOK, PublishedRow, Row
  <2>2. rows'[e].retry = rows[e].retry
    BY <1>3, <2>1 DEF MarkPublished, TypeOK
  <2>3. Holders(e)' \subseteq Holders(e)
    BY <1>3 DEF MarkPublished, Advance, Holders, TypeOK
  <2> QED BY <1>0, <2>2, <2>3
<1>4. ASSUME NEW d \in Event, MarkFailed(f, d)
      PROVE  rows'[e].retry + Cardinality(Holders(e)') <= MaxRetries - 1 + Cardinality(Flusher)
  <2>1. CASE d = e /\ InTable(e)
    <3>1. AfterFailure(rows[e], batch[f][e]).retry = rows[e].retry + 1
      BY DEF AfterFailure
    <3>2. rows'[e].retry = rows[e].retry + 1
      BY <1>4, <2>1, <3>1 DEF MarkFailed, TypeOK
    <3>3. f \in Holders(e) /\ Holders(e)' = Holders(e) \ {f}
      BY <1>4, <2>1 DEF MarkFailed, Advance, Current, Held, Holders, TypeOK
    <3>4. /\ Holders(e) \in SUBSET Flusher /\ Cardinality(Holders(e)) \in Nat
          /\ Cardinality(Holders(e)') = Cardinality(Holders(e)) - 1
      <4>1. Holders(e) \in SUBSET Flusher
        BY DEF Holders
      <4> QED BY <3>3, <4>1, FlusherSets
    <3> QED BY <1>0, <3>2, <3>4 DEF HoldersAreCounted
  <2>2. CASE d # e \/ ~InTable(e)
    <3>1. rows'[e] = rows[e]
      BY <1>4, <2>2 DEF MarkFailed, TypeOK
    <3>2. Holders(e)' \subseteq Holders(e)
      BY <1>4 DEF MarkFailed, Advance, Holders, TypeOK
    <3> QED BY <1>0, <3>1, <3>2, HoldersShrink
  <2> QED BY <2>1, <2>2
<1> QED BY <1>0, <1>1, <1>2, <1>3, <1>4, HoldersShrink DEF Flush

\* Without a read replica retry_count never exceeds MaxRetries - 1 by more than
\* the number of flushers, although flush_pending increments the row and decides
\* on its own old copy.
THEOREM RetryOvershootBounded == Spec => []RetryOvershootIsBounded
<1> DEFINE IInv == TypeOK /\ HoldersAreCounted
<1>1. Init => IInv
  <2> SUFFICES ASSUME Init PROVE IInv
    OBVIOUS
  <2>1. TypeOK
    BY FreshRowType, RetryAssumption DEF Init, TypeOK
  <2>2. ASSUME NEW e \in Event PROVE rows[e].retry = 0 /\ Cardinality(Holders(e)) = 0
    <3>1. Holders(e) = {}
      BY <2>2 DEF Init, Holders
    <3> QED BY <2>2, <3>1, FS_EmptySet DEF Init, NoRow
  <2>3. Cardinality(Flusher) \in Nat
    BY FlusherSets
  <2> QED BY <2>1, <2>2, <2>3, RetryAssumption DEF HoldersAreCounted
<1>2. IInv /\ [Next]_vars => IInv'
  <2> SUFFICES ASSUME TypeOK, HoldersAreCounted, [Next]_vars PROVE TypeOK' /\ HoldersAreCounted'
    OBVIOUS
  <2>1. TypeOK'
    BY FlushKeepsTypes, OtherStepsKeepTypes DEF Next, TypeOK, vars
  <2>2. ASSUME ~UseReplica, NEW e \in Event
        PROVE  rows'[e].retry + Cardinality(Holders(e)') <= MaxRetries - 1 + Cardinality(Flusher)
    <3>1. rows'[e].retry \in Nat /\ rows[e].retry \in Nat
      BY <2>1, <2>2 DEF TypeOK, Row
    <3>2. CASE \E f \in Flusher : Flush(f)
      BY <2>1, <2>2, <3>2, FlushKeepsHolders
    <3>3. CASE AdminStep \/ Surroundings
      <4>1. rows'[e].retry <= rows[e].retry /\ batch' = batch
        BY <2>2, <3>3, OtherStepsOnRows
      <4> QED BY <2>2, <3>1, <4>1, HoldersShrink DEF Holders
    <3>4. CASE UNCHANGED vars
      BY <2>2, <3>1, <3>4, HoldersShrink DEF Holders, vars
    <3> QED BY <3>2, <3>3, <3>4 DEF Next
  <2> QED BY <2>1, <2>2 DEF HoldersAreCounted
<1>3. IInv => RetryOvershootIsBounded
  <2> SUFFICES ASSUME TypeOK, HoldersAreCounted, ~UseReplica, NEW e \in Event
               PROVE  rows[e].retry <= MaxRetries - 1 + Cardinality(Flusher)
    BY DEF RetryOvershootIsBounded
  <2>1. Cardinality(Holders(e)) \in Nat /\ Cardinality(Flusher) \in Nat
    BY FlusherSets DEF Holders
  <2> QED BY <2>1, RetryAssumption DEF HoldersAreCounted, TypeOK, Row
<1> QED BY <1>1, <1>2, <1>3, PTL DEF Spec

-----------------------------------------------------------------------------
(* One flusher on the primary keeps the outbox promise.                    *)

\* What the helpers of the specification mean for the promise.
LEMMA PhaseOfRows ==
  ASSUME NEW row \in Row
  PROVE  /\ PhaseOf(FreshRow) = "owed" /\ PhaseOf(NoRow) = "absent"
         /\ PhaseOf(PublishedRow(row)) = "settled" /\ PhaseOf(PurgedRow(row)) = "discarded"
         /\ \A seen \in Int : PhaseOf(AfterFailure(row, seen)) \in {"owed", "parked"}
         /\ \/ PhaseOf(Repaired(row)) = PhaseOf(row)
            \/ PhaseOf(Repaired(row)) = "parked" /\ PhaseOf(row) = "owed"
         /\ \A next \in NextRetry : PhaseOf([row EXCEPT !.next = next]) = PhaseOf(row)
<1>1. PhaseOf(FreshRow) = "owed" /\ PhaseOf(NoRow) = "absent"
  BY DEF PhaseOf, FreshRow, NoRow
<1>2. PhaseOf(PublishedRow(row)) = "settled" /\ PhaseOf(PurgedRow(row)) = "discarded"
  BY DEF PhaseOf, PublishedRow, PurgedRow, Row
<1>3. ASSUME NEW seen \in Int PROVE PhaseOf(AfterFailure(row, seen)) \in {"owed", "parked"}
  BY DEF PhaseOf, AfterFailure
<1>4. \/ PhaseOf(Repaired(row)) = PhaseOf(row)
      \/ PhaseOf(Repaired(row)) = "parked" /\ PhaseOf(row) = "owed"
  <2>1. CASE row.status # "failed"
    BY <2>1 DEF Repaired
  <2>2. CASE row.status = "failed"
    BY <2>2 DEF Repaired, PhaseOf, Row
  <2> QED BY <2>1, <2>2
<1>5. ASSUME NEW next \in NextRetry PROVE PhaseOf([row EXCEPT !.next = next]) = PhaseOf(row)
  BY DEF PhaseOf, Row
<1> QED BY <1>1, <1>2, <1>3, <1>4, <1>5

\* What the promise's preconditions mean for a row.
LEMMA PhaseOfStatus ==
  ASSUME NEW row \in Row
  PROVE  /\ PhaseOf(row) = "absent" <=> row.status = "absent"
         /\ PhaseOf(row) = "parked" <=> row.status = "dead_letter"
         /\ PhaseOf(row) = "settled" <=> row.status = "published"
         /\ PhaseOf(row) = "discarded" <=> row.status = "purged"
         /\ PhaseOf(row) = "owed" <=> row.status \in {"pending", "failed"}
  BY DEF PhaseOf, Row, Status

\* Only one event is ever loaded that is owed, and what is loaded is owed.
LEMMA LoadedIsOwed ==
  ASSUME OneFlusherOnPrimary, PromiseIInv, NEW f \in Flusher, LoadCandidates(f)
  PROVE  HeldIsOwed'
<1> SUFFICES ASSUME NEW g \in Flusher, NEW e \in Event, batch'[g][e] # NotHeld
             PROVE  rows[e].status \in {"pending", "failed"}
  BY DEF HeldIsOwed, Held, LoadCandidates
<1>1. g = f /\ ~UseReplica
  BY DEF OneFlusherOnPrimary
<1>2. batch' = LoadedRows(f, rows, Oldest(Candidates(rows)))
  BY <1>1 DEF LoadCandidates, LoadFrom
<1>3. e \in Oldest(Candidates(rows))
  BY <1>1, <1>2 DEF LoadedRows, PromiseIInv, TypeOK
<1> QED BY <1>3 DEF Oldest, Candidates

\* flush_pending keeps the invariant: with one flusher nobody else holds the
\* row that it marks.
LEMMA FlushKeepsPromise ==
  ASSUME OneFlusherOnPrimary, PromiseIInv, NEW f \in Flusher, Flush(f)
  PROVE  HeldIsOwed' /\ LingeringIsRecorded'
<1>0. TypeOK /\ \A g \in Flusher : g = f
  BY DEF PromiseIInv, OneFlusherOnPrimary
<1>1. CASE LoadCandidates(f)
  BY <1>1, LoadedIsOwed DEF LoadCandidates, PromiseIInv, LingeringIsRecorded
<1>2. CASE Abandon(f)
  <2>1. Held(f)' = {}
    BY <1>0, <1>2 DEF Abandon, Held, TypeOK
  <2> QED BY <1>0, <1>2, <2>1 DEF Abandon, PromiseIInv, LingeringIsRecorded, HeldIsOwed
<1>3. ASSUME NEW e \in Event, PublishAcked(f, e) PROVE HeldIsOwed' /\ LingeringIsRecorded'
  BY <1>3 DEF PublishAcked, PromiseIInv, HeldIsOwed, LingeringIsRecorded, Held
<1>4. ASSUME NEW e \in Event, PublishFailed(f, e) PROVE HeldIsOwed' /\ LingeringIsRecorded'
  <2>1. rows[e].status # "absent"
    BY <1>4 DEF PublishFailed, Current, PromiseIInv, HeldIsOwed
  <2> QED BY <1>4, <2>1 DEF PublishFailed, PromiseIInv, HeldIsOwed, LingeringIsRecorded, Held
<1>5. ASSUME NEW e \in Event, MarkPublished(f, e) \/ MarkFailed(f, e)
      PROVE  HeldIsOwed' /\ LingeringIsRecorded'
  <2>1. /\ \A d \in Event : d # e => rows'[d] = rows[d]
        /\ rows'[e].status = "absent" => rows[e].status = "absent"
        /\ lingering' = lingering
    <3>1. CASE MarkPublished(f, e)
      <4>1. PublishedRow(rows[e]).status = "published"
        BY <1>0 DEF PublishedRow, TypeOK, Row
      <4> QED BY <1>0, <3>1, <4>1 DEF MarkPublished, TypeOK
    <3>2. CASE MarkFailed(f, e)
      <4>1. AfterFailure(rows[e], batch[f][e]).status # "absent"
        BY DEF AfterFailure
      <4> QED BY <1>0, <3>2, <4>1 DEF MarkFailed, TypeOK
    <3> QED BY <1>5, <3>1, <3>2
  <2>2. Held(f)' = Held(f) \ {e}
    BY <1>0, <1>5 DEF MarkPublished, MarkFailed, Advance, Held, TypeOK
  <2> QED BY <1>0, <2>1, <2>2 DEF PromiseIInv, HeldIsOwed, LingeringIsRecorded, Held, TypeOK
<1> QED BY <1>1, <1>2, <1>3, <1>4, <1>5 DEF Flush

\* No other step makes a row absent or published.
LEMMA OtherStepsKeepPromise ==
  ASSUME PromiseIInv, AdminStep \/ Surroundings
  PROVE  HeldIsOwed' /\ LingeringIsRecorded'
<1>0. TypeOK /\ \A e \in Event : rows[e] \in Row
  BY DEF PromiseIInv, TypeOK
<1>1. ASSUME NEW e \in Event, rows'[e].status \in {"absent", "published"}
      PROVE  rows[e].status = rows'[e].status
  <2>1. CASE RepairState
    <3>1. Repaired(rows[e]).status \in {"absent", "published"} =>
            Repaired(rows[e]).status = rows[e].status
      BY <1>0 DEF Repaired, Row
    <3> QED BY <1>1, <2>1, <3>1 DEF RepairState
  <2>2. ASSUME NEW S \in SUBSET Event, Requeue(S) \/ Purge(S)
        PROVE  rows[e].status = rows'[e].status
    <3>1. FreshRow.status = "pending" /\ PurgedRow(rows[e]).status = "purged"
      BY <1>0 DEF FreshRow, PurgedRow, Row
    <3> QED BY <1>1, <2>2, <3>1 DEF Requeue, Purge
  <2>3. CASE ReplicaCatchesUp
    BY <2>3 DEF ReplicaCatchesUp
  <2>4. ASSUME NEW d \in Event, Record(d) \/ LateDelivery(d) \/ BackoffElapses(d) \/ ReplicaBackoffElapses(d)
        PROVE  rows[e].status = rows'[e].status
    <3>1. CASE Record(d)
      BY <1>0, <1>1, <3>1 DEF Record, FreshRow, TypeOK
    <3>2. CASE BackoffElapses(d)
      BY <1>0, <3>2 DEF BackoffElapses, Row, TypeOK
    <3>3. CASE LateDelivery(d) \/ ReplicaBackoffElapses(d)
      BY <3>3 DEF LateDelivery, ReplicaBackoffElapses
    <3> QED BY <2>4, <3>1, <3>2, <3>3
  <2> QED BY <2>1, <2>2, <2>3, <2>4 DEF AdminStep, Surroundings
<1>2. batch' = batch /\ lingering' \subseteq lingering
  BY DEF AdminStep, RepairState, Requeue, Purge, Surroundings, ReplicaCatchesUp, Record,
         LateDelivery, BackoffElapses, ReplicaBackoffElapses
<1> QED BY <1>0, <1>1, <1>2 DEF PromiseIInv, HeldIsOwed, LingeringIsRecorded, Held, TypeOK

\* A step of flush_pending delivers, settles or parks an event, or is none of the
\* promise's business.
LEMMA FlushIsPromised ==
  ASSUME PromiseIInv, NEW f \in Flusher, Flush(f)
  PROVE  Abstract!Next \/ UNCHANGED Abstract!vars
<1>0. TypeOK /\ \A e \in Event : rows[e] \in Row
  BY DEF PromiseIInv, TypeOK
<1>1. CASE LoadCandidates(f) \/ Abandon(f)
  BY <1>1 DEF LoadCandidates, Abandon, Abstract!vars, Phase
<1>2. ASSUME NEW e \in Event, PublishAcked(f, e) \/ PublishFailed(f, e)
      PROVE  Abstract!Deliver(e) \/ UNCHANGED Abstract!vars
  <2>1. Phase[e] # "absent"
    BY <1>0, <1>2, PhaseOfStatus
       DEF PublishAcked, PublishFailed, Current, PromiseIInv, HeldIsOwed, Phase
  <2>2. rows' = rows /\ delivered' \in {delivered, delivered \union {e}}
    BY <1>2 DEF PublishAcked, PublishFailed
  <2> QED BY <2>1, <2>2 DEF Abstract!Deliver, Abstract!vars, Phase
<1>3. ASSUME NEW e \in Event, MarkPublished(f, e)
      PROVE  Abstract!Settle(e) \/ UNCHANGED Abstract!vars
  <2>1. CASE ~InTable(e)
    BY <1>3, <2>1 DEF MarkPublished, Abstract!vars, Phase
  <2>2. CASE InTable(e)
    <3>1. Phase[e] \in {"owed", "parked"} /\ e \in delivered
      <4>1. rows[e].status \notin {"absent", "published", "purged"}
        BY <1>3, <2>2 DEF MarkPublished, Current, PromiseIInv, HeldIsOwed, InTable
      <4>2. e \in delivered
        BY <1>3 DEF MarkPublished, PromiseIInv, AckedWasDelivered
      <4> QED BY <1>0, <4>1, <4>2 DEF Phase, PhaseOf, Row, Status
    <3>2. Phase' = [Phase EXCEPT ![e] = "settled"]
      <4>1. rows' = [rows EXCEPT ![e] = PublishedRow(rows[e])]
        BY <1>3, <2>2 DEF MarkPublished
      <4>2. PhaseOf(PublishedRow(rows[e])) = "settled"
        BY <1>0, PhaseOfRows
      <4> QED BY <1>0, <4>1, <4>2 DEF Phase, TypeOK
    <3> QED BY <1>3, <3>1, <3>2 DEF Abstract!Settle, MarkPublished
  <2> QED BY <2>1, <2>2
<1>4. ASSUME NEW e \in Event, MarkFailed(f, e)
      PROVE  Abstract!Next \/ UNCHANGED Abstract!vars
  <2>1. CASE ~InTable(e)
    BY <1>4, <2>1 DEF MarkFailed, Abstract!vars, Phase
  <2>2. CASE InTable(e)
    <3> DEFINE p == PhaseOf(AfterFailure(rows[e], batch[f][e]))
    <3>1. p \in {"owed", "parked"}
      BY <1>0, PhaseOfRows DEF TypeOK, NotHeld
    <3>2. Phase[e] \in {"owed", "parked"}
      <4>1. rows[e].status \notin {"absent", "published", "purged"}
        BY <1>4, <2>2 DEF MarkFailed, Current, PromiseIInv, HeldIsOwed, InTable
      <4> QED BY <1>0, <4>1 DEF Phase, PhaseOf, Row, Status
    <3>3. Phase' = [Phase EXCEPT ![e] = p] /\ delivered' = delivered
      BY <1>0, <1>4, <2>2 DEF MarkFailed, Phase, TypeOK
    <3>4. CASE p = Phase[e]
      BY <3>3, <3>4 DEF Abstract!vars, Phase
    <3>5. CASE p = "parked" /\ Phase[e] = "owed"
      <4>1. Abstract!ParkMany({e})
        BY <3>3, <3>5 DEF Abstract!ParkMany, Phase
      <4> QED BY <4>1 DEF Abstract!Next
    <3>6. CASE p = "owed" /\ Phase[e] = "parked"
      <4>1. Abstract!Reopen({e})
        BY <3>3, <3>6 DEF Abstract!Reopen, Phase
      <4> QED BY <4>1 DEF Abstract!Next
    <3> HIDE DEF p
    <3> QED BY <3>1, <3>2, <3>4, <3>5, <3>6
  <2> QED BY <2>1, <2>2
<1> QED BY <1>1, <1>2, <1>3, <1>4 DEF Flush, Abstract!Next

\* So is every other step: operators park, reopen and discard what they may.
LEMMA OtherStepsArePromised ==
  ASSUME TypeOK, LingeringIsRecorded, AdminStep \/ Surroundings
  PROVE  Abstract!Next \/ UNCHANGED Abstract!vars
<1>0. TypeOK /\ rows \in [Event -> Row] /\ \A e \in Event : rows[e] \in Row
  BY DEF TypeOK
<1>1. CASE RepairState
  <2> DEFINE S == {e \in Event : PhaseOf(Repaired(rows[e])) # PhaseOf(rows[e])}
  <2>1. \A e \in S : Phase[e] = "owed" /\ PhaseOf(Repaired(rows[e])) = "parked"
    BY <1>0, PhaseOfRows DEF Phase
  <2>2. Phase' = [e \in Event |-> IF e \in S THEN "parked" ELSE Phase[e]]
    BY <1>1, <2>1 DEF RepairState, Phase
  <2>3. Abstract!ParkMany(S)
    BY <1>1, <2>1, <2>2 DEF RepairState, Abstract!ParkMany
  <2> QED BY <2>3 DEF Abstract!Next
<1>2. ASSUME NEW R \in SUBSET Event, Requeue(R)
      PROVE  Abstract!Next
  <2> DEFINE S == {e \in R : rows[e].status = "dead_letter"}
  <2>1. \A e \in S : Phase[e] = "parked"
    BY <1>0, PhaseOfStatus DEF Phase
  <2>2. Phase' = [e \in Event |-> IF e \in S THEN "owed" ELSE Phase[e]]
    BY <1>0, <1>2, PhaseOfRows, PhaseOfStatus DEF Requeue, Phase
  <2>3. Abstract!Reopen(S)
    BY <1>2, <2>1, <2>2 DEF Requeue, Abstract!Reopen
  <2> QED BY <2>3 DEF Abstract!Next
<1>3. ASSUME NEW R \in SUBSET Event, Purge(R)
      PROVE  Abstract!Next
  <2> DEFINE S == {e \in R : rows[e].status = "dead_letter"}
  <2>1. \A e \in S : Phase[e] = "parked"
    BY <1>0, PhaseOfStatus DEF Phase
  <2>2. Phase' = [e \in Event |-> IF e \in S THEN "discarded" ELSE Phase[e]]
    BY <1>0, <1>3, PhaseOfRows DEF Purge, Phase
  <2>3. Abstract!Discard(S)
    BY <1>3, <2>1, <2>2 DEF Purge, Abstract!Discard
  <2> QED BY <2>3 DEF Abstract!Next
<1>4. CASE ReplicaCatchesUp
  BY <1>4 DEF ReplicaCatchesUp, Abstract!vars, Phase
<1>5. ASSUME NEW e \in Event, Record(e) PROVE Abstract!Record(e)
  <2>1. Phase[e] = "absent"
    BY <1>0, <1>5, PhaseOfStatus DEF Record, Phase
  <2>2. Phase' = [Phase EXCEPT ![e] = "owed"]
    BY <1>0, <1>5, FreshRowType, PhaseOfRows DEF Record, Phase
  <2> QED BY <1>5, <2>1, <2>2 DEF Abstract!Record, Record
<1>6. ASSUME NEW e \in Event, LateDelivery(e)
      PROVE  Abstract!Deliver(e) \/ UNCHANGED Abstract!vars
  <2>1. Phase[e] # "absent"
    BY <1>0, <1>6, PhaseOfStatus DEF LateDelivery, LingeringIsRecorded, Phase
  <2> QED BY <1>6, <2>1 DEF LateDelivery, Abstract!Deliver, Abstract!vars, Phase
<1>7. ASSUME NEW e \in Event, BackoffElapses(e) \/ ReplicaBackoffElapses(e)
      PROVE  UNCHANGED Abstract!vars
  <2>1. \A d \in Event : PhaseOf(rows'[d]) = PhaseOf(rows[d])
    <3>1. CASE ReplicaBackoffElapses(e)
      BY <3>1 DEF ReplicaBackoffElapses
    <3>2. CASE BackoffElapses(e)
      <4>1. rows' = [rows EXCEPT ![e] = [rows[e] EXCEPT !.next = "due"]]
        BY <3>2 DEF BackoffElapses
      <4>2. "due" \in NextRetry
        BY DEF NextRetry
      <4>3. PhaseOf([rows[e] EXCEPT !.next = "due"]) = PhaseOf(rows[e])
        BY <1>0, <4>2, PhaseOfRows
      <4> QED BY <1>0, <4>1, <4>3
    <3> QED BY <1>7, <3>1, <3>2
  <2>2. Phase' = Phase
    BY <2>1 DEF Phase
  <2> QED BY <1>7, <2>2 DEF BackoffElapses, ReplicaBackoffElapses, Abstract!vars
<1> QED BY <1>1, <1>2, <1>3, <1>4, <1>5, <1>6, <1>7 DEF AdminStep, Surroundings, Abstract!Next

\* The relay implements the outbox promise, for any set of events and any bounds,
\* if one flusher works at a time and its lists come from the primary.
THEOREM OutboxPromiseKept == OneFlusherOnPrimary => (Spec => ImplementsEventDelivery)
<1> SUFFICES ASSUME OneFlusherOnPrimary PROVE Spec => ImplementsEventDelivery
  OBVIOUS
<1>1. Init => PromiseIInv
  BY FreshRowType, RetryAssumption
     DEF Init, PromiseIInv, PublishedWasDelivered, AckedWasDelivered, HeldIsOwed,
         LingeringIsRecorded, TypeOK, NoRow, Held
<1>2. PromiseIInv /\ [Next]_vars => PromiseIInv'
  <2> SUFFICES ASSUME PromiseIInv, [Next]_vars PROVE PromiseIInv'
    OBVIOUS
  <2>1. PublishedIInv'
    BY PublishedIInvKept DEF PromiseIInv, PublishedIInv
  <2>2. HeldIsOwed' /\ LingeringIsRecorded'
    <3>1. CASE UNCHANGED vars
      BY <3>1 DEF PromiseIInv, HeldIsOwed, LingeringIsRecorded, Held, vars
    <3> QED BY <3>1, FlushKeepsPromise, OtherStepsKeepPromise DEF Next
  <2> QED BY <2>1, <2>2 DEF PromiseIInv, PublishedIInv
<1>3. Init => Abstract!Init
  BY FreshRowType, PhaseOfRows DEF Init, Abstract!Init, Phase
<1>4. PromiseIInv /\ [Next]_vars => [Abstract!Next]_(Abstract!vars)
  <2>1. UNCHANGED vars => UNCHANGED Abstract!vars
    BY DEF vars, Abstract!vars, Phase
  <2> QED BY <2>1, FlushIsPromised, OtherStepsArePromised DEF Next, PromiseIInv
<1> QED BY <1>1, <1>2, <1>3, <1>4, PTL DEF Spec, ImplementsEventDelivery, Abstract!Spec

-----------------------------------------------------------------------------
(* Any number of flushers, on the primary or the replica.                  *)

\* No step makes a recorded row absent again.
LEMMA RowsStayRecorded ==
  ASSUME TypeOK, [Next]_vars, NEW e \in Event, rows[e].status # "absent"
  PROVE  rows'[e].status # "absent"
<1>0. rows \in [Event -> Row] /\ rows[e] \in Row
  BY DEF TypeOK
<1>1. /\ FreshRow.status = "pending" /\ PurgedRow(rows[e]).status = "purged"
      /\ PublishedRow(rows[e]).status = "published"
      /\ Repaired(rows[e]).status \in {rows[e].status, "dead_letter"}
  BY <1>0 DEF FreshRow, PurgedRow, PublishedRow, Repaired, Row
<1>2. ASSUME NEW seen \in Int PROVE AfterFailure(rows[e], seen).status # "absent"
  BY DEF AfterFailure
<1>3. CASE AdminStep
  <2>1. CASE RepairState
    BY <1>1, <2>1 DEF RepairState
  <2>2. ASSUME NEW S \in SUBSET Event, Requeue(S) \/ Purge(S) PROVE rows'[e].status # "absent"
    BY <1>1, <2>2 DEF Requeue, Purge
  <2> QED BY <1>3, <2>1, <2>2 DEF AdminStep
<1>4. CASE Surroundings
  <2>1. ASSUME NEW d \in Event, Record(d) PROVE rows'[e].status # "absent"
    BY <1>0, <1>1, <2>1 DEF Record
  <2>2. ASSUME NEW d \in Event, BackoffElapses(d) PROVE rows'[e].status # "absent"
    BY <1>0, <2>2 DEF BackoffElapses, Row
  <2>3. ASSUME NEW d \in Event, ReplicaCatchesUp \/ LateDelivery(d) \/ ReplicaBackoffElapses(d)
        PROVE  rows' = rows
    BY <2>3 DEF ReplicaCatchesUp, LateDelivery, ReplicaBackoffElapses
  <2> QED BY <1>4, <2>1, <2>2, <2>3 DEF Surroundings
<1>5. ASSUME NEW f \in Flusher, Flush(f) PROVE rows'[e].status # "absent"
  <2>1. CASE \E d \in Event : MarkPublished(f, d)
    BY <1>0, <1>1, <2>1 DEF MarkPublished
  <2>2. CASE \E d \in Event : MarkFailed(f, d)
    <3>1. batch[f][e] \in Int
      BY DEF TypeOK, NotHeld
    <3> QED BY <1>0, <1>2, <2>2, <3>1 DEF MarkFailed
  <2>3. CASE \/ LoadCandidates(f) \/ Abandon(f)
             \/ \E d \in Event : PublishAcked(f, d) \/ PublishFailed(f, d)
    BY <2>3 DEF LoadCandidates, Abandon, PublishAcked, PublishFailed
  <2> QED BY <1>5, <2>1, <2>2, <2>3 DEF Flush
<1> QED BY <1>3, <1>4, <1>5 DEF Next, vars

\* Nothing enters a list, the replica or a producer buffer that was not recorded.
LEMMA SharedIInvKept ==
  ASSUME SharedIInv, [Next]_vars
  PROVE  SharedIInv'
<1>0. TypeOK
  BY DEF SharedIInv
<1>1. TypeOK' /\ PublishedWasDelivered' /\ AckedWasDelivered'
  BY PublishedIInvKept DEF SharedIInv, PublishedIInv
<1>2. ReplicaIsRecorded'
  <2> SUFFICES ASSUME NEW e \in Event, replica'[e].status # "absent"
               PROVE  rows'[e].status # "absent"
    BY DEF ReplicaIsRecorded
  <2>1. replica'[e] = rows[e] \/ replica'[e].status = replica[e].status
    <3>1. ASSUME NEW d \in Event, ReplicaBackoffElapses(d)
          PROVE  replica'[e].status = replica[e].status
      BY <1>0, <3>1 DEF ReplicaBackoffElapses, TypeOK, Row
    <3>2. CASE ReplicaCatchesUp
      BY <3>2 DEF ReplicaCatchesUp
    <3>3. CASE replica' = replica
      BY <3>3
    <3> QED BY <3>1, <3>2, <3>3 DEF Next, AdminStep, RepairState, Requeue, Purge, Surroundings,
               Record, LateDelivery, BackoffElapses, Flush, LoadCandidates, Abandon, PublishAcked,
               PublishFailed, MarkPublished, MarkFailed, vars
  <2>2. rows[e].status # "absent"
    BY <2>1 DEF SharedIInv, ReplicaIsRecorded
  <2> QED BY <1>0, <2>2, RowsStayRecorded
<1>3. HeldIsRecorded'
  <2> SUFFICES ASSUME NEW g \in Flusher, NEW e \in Event, batch'[g][e] # NotHeld
               PROVE  rows[e].status # "absent"
    BY <1>0, RowsStayRecorded DEF HeldIsRecorded, Held
  <2>1. CASE batch[g][e] # NotHeld
    BY <2>1 DEF SharedIInv, HeldIsRecorded, Held
  <2>2. CASE batch[g][e] = NotHeld
    <3>1. PICK f \in Flusher : LoadCandidates(f)
      <4>1. ASSUME NEW f \in Flusher, \/ Abandon(f)
                                      \/ \E d \in Event : Advance(f, d)
            PROVE  batch'[g][e] = NotHeld
        BY <1>0, <2>2, <4>1 DEF Abandon, Advance, TypeOK
      <4> QED BY <2>2, <4>1 DEF Next, AdminStep, RepairState, Requeue, Purge, Surroundings,
                 ReplicaCatchesUp, Record, LateDelivery, BackoffElapses, ReplicaBackoffElapses,
                 Flush, PublishAcked, PublishFailed, MarkPublished, MarkFailed, vars
    <3> DEFINE view == IF UseReplica THEN replica ELSE rows
    <3>2. e \in Oldest(Candidates(view))
      <4>1. batch' = LoadedRows(f, view, Oldest(Candidates(view)))
        BY <3>1 DEF LoadCandidates, LoadFrom
      <4> HIDE DEF view
      <4> QED BY <1>0, <2>2, <4>1 DEF LoadedRows, TypeOK
    <3>3. view[e].status # "absent"
      BY <3>2 DEF Oldest, Candidates
    <3> QED BY <3>3 DEF SharedIInv, ReplicaIsRecorded
  <2> QED BY <2>1, <2>2
<1>4. LingeringIsRecorded'
  <2> SUFFICES ASSUME NEW e \in Event, e \in lingering' PROVE rows[e].status # "absent"
    BY <1>0, <1>1, RowsStayRecorded DEF LingeringIsRecorded, TypeOK
  <2>1. CASE e \in lingering
    BY <2>1 DEF SharedIInv, LingeringIsRecorded
  <2>2. CASE e \notin lingering
    <3>1. PICK f \in Flusher : PublishFailed(f, e)
      BY <2>2 DEF Next, AdminStep, RepairState, Requeue, Purge, Surroundings, ReplicaCatchesUp,
         Record, LateDelivery, BackoffElapses, ReplicaBackoffElapses, Flush, LoadCandidates,
         Abandon, PublishAcked, PublishFailed, MarkPublished, MarkFailed, vars
    <3> QED BY <3>1 DEF PublishFailed, Current, SharedIInv, HeldIsRecorded
  <2> QED BY <2>1, <2>2
<1> QED BY <1>1, <1>2, <1>3, <1>4 DEF SharedIInv

\* Among several flushers a failure UPDATE may come after another one's success.
LEMMA FlushIsShared ==
  ASSUME SharedIInv, NEW f \in Flusher, Flush(f)
  PROVE  Abstract!SharedNext \/ UNCHANGED Abstract!vars
<1>0. TypeOK /\ \A e \in Event : rows[e] \in Row
  BY DEF SharedIInv, TypeOK
<1>1. CASE LoadCandidates(f) \/ Abandon(f)
  BY <1>1 DEF LoadCandidates, Abandon, Abstract!vars, Phase
<1>2. ASSUME NEW e \in Event, PublishAcked(f, e) \/ PublishFailed(f, e)
      PROVE  Abstract!Deliver(e) \/ UNCHANGED Abstract!vars
  <2>1. Phase[e] # "absent"
    BY <1>0, <1>2, PhaseOfStatus
       DEF PublishAcked, PublishFailed, Current, SharedIInv, HeldIsRecorded, Phase
  <2>2. rows' = rows /\ delivered' \in {delivered, delivered \union {e}}
    BY <1>2 DEF PublishAcked, PublishFailed
  <2> QED BY <2>1, <2>2 DEF Abstract!Deliver, Abstract!vars, Phase
<1>3. ASSUME NEW e \in Event, ~InTable(e), MarkPublished(f, e) \/ MarkFailed(f, e)
      PROVE  UNCHANGED Abstract!vars
  BY <1>3 DEF MarkPublished, MarkFailed, Abstract!vars, Phase
<1>4. ASSUME NEW e \in Event, InTable(e)
      PROVE  Phase[e] \in {"owed", "parked", "settled"}
  BY <1>0, <1>4 DEF InTable, Phase, PhaseOf, Row, Status
<1>5. ASSUME NEW e \in Event, InTable(e), MarkPublished(f, e)
      PROVE  Abstract!Settle(e) \/ UNCHANGED Abstract!vars
  <2>1. e \in delivered /\ delivered' = delivered
    BY <1>5 DEF MarkPublished, SharedIInv, AckedWasDelivered
  <2>2. Phase' = [Phase EXCEPT ![e] = "settled"]
    <3>1. rows' = [rows EXCEPT ![e] = PublishedRow(rows[e])]
      BY <1>5 DEF MarkPublished
    <3>2. PhaseOf(PublishedRow(rows[e])) = "settled"
      BY <1>0, PhaseOfRows
    <3> QED BY <1>0, <3>1, <3>2 DEF Phase, TypeOK
  <2>3. CASE Phase[e] = "settled"
    BY <2>1, <2>2, <2>3 DEF Abstract!vars, Phase
  <2>4. CASE Phase[e] # "settled"
    BY <1>4, <1>5, <2>1, <2>2, <2>4 DEF Abstract!Settle
  <2> QED BY <2>3, <2>4
<1>6. ASSUME NEW e \in Event, InTable(e), MarkFailed(f, e)
      PROVE  Abstract!Overwrite(e)
  <2> DEFINE p == PhaseOf(AfterFailure(rows[e], batch[f][e]))
  <2>1. p \in {"owed", "parked"}
    BY <1>0, PhaseOfRows DEF TypeOK, NotHeld
  <2>2. Phase' = [Phase EXCEPT ![e] = p] /\ delivered' = delivered
    BY <1>0, <1>6 DEF MarkFailed, Phase, TypeOK
  <2> HIDE DEF p
  <2> QED BY <1>4, <1>6, <2>1, <2>2 DEF Abstract!Overwrite
<1> QED BY <1>1, <1>2, <1>3, <1>5, <1>6 DEF Flush, Abstract!Next, Abstract!SharedNext

\* Without the proviso of OutboxPromiseKept: whatever runs at once and however old
\* the lists are, the relay keeps the weaker promise.
THEOREM SharedPromiseKept == Spec => KeepsSharedPromise
<1>1. Init => SharedIInv /\ Abstract!Init
  <2> SUFFICES ASSUME Init PROVE SharedIInv /\ Abstract!Init
    OBVIOUS
  <2>1. SharedIInv
    BY FreshRowType, RetryAssumption
       DEF Init, SharedIInv, PublishedWasDelivered, AckedWasDelivered, HeldIsRecorded,
           ReplicaIsRecorded, LingeringIsRecorded, TypeOK, NoRow, Held
  <2>2. Abstract!Init
    BY FreshRowType, PhaseOfRows DEF Init, Abstract!Init, Phase
  <2> QED BY <2>1, <2>2
<1>2. SharedIInv /\ [Next]_vars => SharedIInv'
  BY SharedIInvKept
<1>3. SharedIInv /\ [Next]_vars => [Abstract!SharedNext]_(Abstract!vars)
  <2>1. UNCHANGED vars => UNCHANGED Abstract!vars
    BY DEF vars, Abstract!vars, Phase
  <2> QED BY <2>1, FlushIsShared, OtherStepsArePromised DEF Next, SharedIInv, Abstract!SharedNext
<1> QED BY <1>1, <1>2, <1>3, PTL DEF Spec, KeepsSharedPromise, Abstract!SharedSpec

-----------------------------------------------------------------------------
(* With one flusher on the primary no row waits for nothing.               *)

\* Steps outside flush_pending leave an undecided row with the retries it had, or
\* make it a fresh one.
LEMMA OtherStepsKeepRetries ==
  ASSUME TypeOK, AdminStep \/ Surroundings, NEW e \in Event,
         rows'[e].status \in {"pending", "failed"}
  PROVE  \/ rows'[e].retry = 0
         \/ rows[e].status \in {"pending", "failed"} /\ rows'[e].retry = rows[e].retry
<1>0. /\ rows \in [Event -> Row] /\ rows[e] \in Row
      /\ FreshRow.retry = 0 /\ PurgedRow(rows[e]).status = "purged"
  BY DEF TypeOK, FreshRow, PurgedRow, Row
<1>1. CASE RepairState
  <2>1. /\ Repaired(rows[e]).status \in {"pending", "failed"} =>
             rows[e].status \in {"pending", "failed"}
        /\ Repaired(rows[e]).retry = rows[e].retry
    BY <1>0 DEF Repaired, Row
  <2> QED BY <1>1, <2>1 DEF RepairState
<1>2. ASSUME NEW S \in SUBSET Event, Requeue(S) \/ Purge(S)
      PROVE  \/ rows'[e].retry = 0
             \/ rows[e].status \in {"pending", "failed"} /\ rows'[e].retry = rows[e].retry
  BY <1>0, <1>2 DEF Requeue, Purge
<1>3. CASE ReplicaCatchesUp
  BY <1>3 DEF ReplicaCatchesUp
<1>4. ASSUME NEW d \in Event, Record(d) \/ LateDelivery(d)
      PROVE  \/ rows'[e].retry = 0
             \/ rows[e].status \in {"pending", "failed"} /\ rows'[e].retry = rows[e].retry
  BY <1>0, <1>4 DEF Record, LateDelivery
<1>5. ASSUME NEW d \in Event, BackoffElapses(d) \/ ReplicaBackoffElapses(d)
      PROVE  rows[e].status \in {"pending", "failed"} /\ rows'[e].retry = rows[e].retry
  BY <1>0, <1>5 DEF BackoffElapses, ReplicaBackoffElapses, Row
<1> QED BY <1>1, <1>2, <1>3, <1>4, <1>5 DEF AdminStep, Surroundings

\* flush_pending parks a row when its copy says the retries are used up, and the
\* copy is not behind the row.
LEMMA FlushStrandsNothing ==
  ASSUME StrandedIInv, OneFlusherOnPrimary, NEW f \in Flusher, Flush(f), NEW e \in Event
  PROVE  /\ rows'[e].status \in {"pending", "failed"} => rows'[e].retry < MaxRetries
         /\ batch'[f][e] # NotHeld => rows'[e].retry <= batch'[f][e]
<1> USE RetryAssumption
<1>0. /\ TypeOK /\ rows[e] \in Row /\ ~UseReplica
      /\ rows[e].status \in {"pending", "failed"} => rows[e].retry < MaxRetries
      /\ batch[f][e] # NotHeld => rows[e].retry <= batch[f][e]
      /\ batch[f][e] \in {NotHeld} \union 0..(MaxRetries - 1)
  BY DEF StrandedIInv, NoRowIsStranded, CopyIsNotBehind, OneFlusherOnPrimary, TypeOK, Held
<1>1. CASE LoadCandidates(f)
  <2>1. batch' = LoadedRows(f, rows, Oldest(Candidates(rows))) /\ rows' = rows
    BY <1>0, <1>1 DEF LoadCandidates, LoadFrom
  <2>2. batch'[f][e] = IF e \in Oldest(Candidates(rows)) THEN rows[e].retry ELSE NotHeld
    BY <1>0, <2>1 DEF LoadedRows, TypeOK
  <2>3. rows[e].retry <= rows[e].retry
    BY <1>0 DEF Row
  <2> QED BY <1>0, <2>1, <2>2, <2>3
<1>2. CASE Abandon(f)
  BY <1>0, <1>2 DEF Abandon, TypeOK
<1>3. ASSUME NEW d \in Event, PublishAcked(f, d) \/ PublishFailed(f, d)
      PROVE  rows' = rows /\ batch' = batch
  BY <1>3 DEF PublishAcked, PublishFailed
<1>4. ASSUME NEW d \in Event, Advance(f, d)
      PROVE  batch'[f][e] = IF d = e THEN NotHeld ELSE batch[f][e]
  BY <1>0, <1>4 DEF Advance, TypeOK
<1>5. ASSUME NEW d \in Event, MarkPublished(f, d)
      PROVE  /\ rows'[e].status \in {"pending", "failed"} => rows'[e].retry < MaxRetries
             /\ batch'[f][e] # NotHeld => rows'[e].retry <= batch'[f][e]
  <2>1. CASE d = e
    <3>1. batch'[f][e] = NotHeld
      BY <1>4, <1>5, <2>1 DEF MarkPublished
    <3>2. rows'[e] = rows[e] \/ rows'[e] = PublishedRow(rows[e])
      BY <1>0, <1>5, <2>1 DEF MarkPublished, TypeOK
    <3>3. PublishedRow(rows[e]).status = "published"
      BY <1>0 DEF PublishedRow, Row
    <3> QED BY <1>0, <3>1, <3>2, <3>3
  <2>2. CASE d # e
    <3>1. batch'[f][e] = batch[f][e]
      BY <1>4, <1>5, <2>2 DEF MarkPublished
    <3>2. rows'[e] = rows[e]
      BY <1>0, <1>5, <2>2 DEF MarkPublished, TypeOK
    <3> QED BY <1>0, <3>1, <3>2
  <2> QED BY <2>1, <2>2
<1>6. ASSUME NEW d \in Event, MarkFailed(f, d)
      PROVE  /\ rows'[e].status \in {"pending", "failed"} => rows'[e].retry < MaxRetries
             /\ batch'[f][e] # NotHeld => rows'[e].retry <= batch'[f][e]
  <2>1. CASE d = e
    <3>1. batch'[f][e] = NotHeld
      BY <1>4, <1>6, <2>1 DEF MarkFailed
    <3>2. rows'[e] = rows[e] \/ rows'[e] = AfterFailure(rows[e], batch[f][e])
      BY <1>0, <1>6, <2>1 DEF MarkFailed, TypeOK
    <3>3. batch[f][e] \in 0..(MaxRetries - 1) /\ rows[e].retry <= batch[f][e]
      BY <1>0, <1>6, <2>1 DEF MarkFailed, Current, Held
    <3>4. AfterFailure(rows[e], batch[f][e]).status # "dead_letter" =>
            AfterFailure(rows[e], batch[f][e]).retry < MaxRetries
      BY <1>0, <3>3 DEF AfterFailure, Row
    <3> QED BY <1>0, <3>1, <3>2, <3>4
  <2>2. CASE d # e
    <3>1. batch'[f][e] = batch[f][e]
      BY <1>4, <1>6, <2>2 DEF MarkFailed
    <3>2. rows'[e] = rows[e]
      BY <1>0, <1>6, <2>2 DEF MarkFailed, TypeOK
    <3> QED BY <1>0, <3>1, <3>2
  <2> QED BY <2>1, <2>2
<1> QED BY <1>0, <1>1, <1>2, <1>3, <1>5, <1>6 DEF Flush

\* A row that still has to be published has retries left, for any events and any
\* MaxRetries, as long as one flusher works at a time on the primary's rows.
THEOREM NoRowStranded == Spec => []NoRowIsStranded
<1>1. Init => StrandedIInv
  BY FreshRowType, RetryAssumption
     DEF Init, StrandedIInv, NoRowIsStranded, CopyIsNotBehind, TypeOK, NoRow, Held
<1>2. StrandedIInv /\ [Next]_vars => StrandedIInv'
  <2> SUFFICES ASSUME StrandedIInv, [Next]_vars PROVE StrandedIInv'
    OBVIOUS
  <2>0. TypeOK /\ TypeOK'
    <3>1. TypeOK /\ Next => TypeOK'
      BY FlushKeepsTypes, OtherStepsKeepTypes DEF Next
    <3> QED BY <3>1 DEF StrandedIInv, TypeOK, vars
  <2>1. ASSUME OneFlusherOnPrimary, NEW f \in Flusher, NEW e \in Event
        PROVE  /\ rows'[e].status \in {"pending", "failed"} => rows'[e].retry < MaxRetries
               /\ batch'[f][e] # NotHeld => rows'[e].retry <= batch'[f][e]
    <3>0. /\ rows[e] \in Row /\ rows'[e] \in Row /\ MaxRetries \in Nat /\ MaxRetries >= 3
          /\ batch[f][e] \in {NotHeld} \union 0..(MaxRetries - 1)
          /\ rows[e].status \in {"pending", "failed"} => rows[e].retry < MaxRetries
          /\ batch[f][e] # NotHeld => rows[e].retry <= batch[f][e]
      BY <2>0, <2>1, RetryAssumption
         DEF StrandedIInv, NoRowIsStranded, CopyIsNotBehind, TypeOK, Held
    <3>1. ASSUME NEW g \in Flusher, Flush(g)
          PROVE  /\ rows'[e].status \in {"pending", "failed"} => rows'[e].retry < MaxRetries
                 /\ batch'[f][e] # NotHeld => rows'[e].retry <= batch'[f][e]
      <4>1. f = g
        BY <2>1 DEF OneFlusherOnPrimary
      <4> QED BY <2>1, <3>1, <4>1, FlushStrandsNothing
    <3>2. CASE AdminStep \/ Surroundings
      <4>1. rows'[e].retry <= rows[e].retry /\ batch' = batch
        BY <2>0, <3>2, OtherStepsOnRows
      <4>2. rows'[e].status \in {"pending", "failed"} => rows'[e].retry < MaxRetries
        BY <2>0, <3>0, <3>2, OtherStepsKeepRetries
      <4>3. batch[f][e] # NotHeld => rows'[e].retry <= batch[f][e]
        BY <3>0, <4>1 DEF Row, NotHeld
      <4> QED BY <4>1, <4>2, <4>3
    <3>3. CASE UNCHANGED vars
      BY <3>0, <3>3 DEF vars
    <3> QED BY <3>1, <3>2, <3>3 DEF Next
  <2>2. NoRowIsStranded'
    <3> SUFFICES ASSUME OneFlusherOnPrimary, NEW e \in Event,
                        rows'[e].status \in {"pending", "failed"}
                 PROVE  rows'[e].retry < MaxRetries
      BY DEF NoRowIsStranded, OneFlusherOnPrimary
    <3>1. CASE Flusher # {}
      BY <2>1, <3>1
    <3>2. CASE Flusher = {}
      <4>1. AdminStep \/ Surroundings \/ UNCHANGED vars
        BY <3>2 DEF Next
      <4> QED BY <2>0, <4>1, RetryAssumption, OtherStepsKeepRetries
              DEF vars, StrandedIInv, NoRowIsStranded
    <3> QED BY <3>1, <3>2
  <2>3. CopyIsNotBehind'
    BY <2>1 DEF CopyIsNotBehind, OneFlusherOnPrimary, Held
  <2> QED BY <2>0, <2>2, <2>3 DEF StrandedIInv
<1>3. StrandedIInv => NoRowIsStranded
  BY DEF StrandedIInv
<1> QED BY <1>1, <1>2, <1>3, PTL DEF Spec
=============================================================================
