--------------------------- MODULE EventDelivery ---------------------------
(***************************************************************************)
(* What the outbox promises to the rest of the platform, without retries,  *)
(* lists, back-off or replicas: an event once recorded is owed until it is *)
(* settled (it reached Kafka) or parked (the relay gave up on it); only an *)
(* operator discards one, and only a parked one; settled is for good.      *)
(* Delivery is at least once.                                              *)
(***************************************************************************)
CONSTANTS Event

VARIABLES
  phase,      \* per event, what the outbox table says of it
  delivered   \* events that reached Kafka at least once

vars == <<phase, delivered>>

Phase == {"absent", "owed", "parked", "settled", "discarded"}

TypeOK == phase \in [Event -> Phase] /\ delivered \subseteq Event

Init ==
  /\ phase = [e \in Event |-> "absent"]
  /\ delivered = {}

Record(e) ==
  /\ phase[e] = "absent"
  /\ phase' = [phase EXCEPT ![e] = "owed"]
  /\ UNCHANGED delivered

\* Copies may arrive at any time after the event was recorded, even late.
Deliver(e) ==
  /\ phase[e] # "absent"
  /\ delivered' = delivered \union {e}
  /\ UNCHANGED phase

Settle(e) ==
  /\ phase[e] \in {"owed", "parked"} /\ e \in delivered
  /\ phase' = [phase EXCEPT ![e] = "settled"]
  /\ UNCHANGED delivered

ParkMany(S) ==
  /\ \A e \in S : phase[e] = "owed"
  /\ phase' = [e \in Event |-> IF e \in S THEN "parked" ELSE phase[e]]
  /\ UNCHANGED delivered

Reopen(S) ==
  /\ \A e \in S : phase[e] = "parked"
  /\ phase' = [e \in Event |-> IF e \in S THEN "owed" ELSE phase[e]]
  /\ UNCHANGED delivered

Discard(S) ==
  /\ \A e \in S : phase[e] = "parked"
  /\ phase' = [e \in Event |-> IF e \in S THEN "discarded" ELSE phase[e]]
  /\ UNCHANGED delivered

\* A slower flusher writes its own failure over what another one decided.
Overwrite(e) ==
  /\ phase[e] \in {"owed", "parked", "settled"}
  /\ \E p \in {"owed", "parked"} : phase' = [phase EXCEPT ![e] = p]
  /\ UNCHANGED delivered

Next ==
  \/ \E e \in Event : Record(e) \/ Deliver(e) \/ Settle(e)
  \/ \E S \in SUBSET Event : ParkMany(S) \/ Reopen(S) \/ Discard(S)

Spec == Init /\ [][Next]_vars

\* The weaker promise of several flushers: settled is not for good, all else is.
SharedNext == Next \/ \E e \in Event : Overwrite(e)

SharedSpec == Init /\ [][SharedNext]_vars
=============================================================================
