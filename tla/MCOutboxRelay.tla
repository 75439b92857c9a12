--------------------------- MODULE MCOutboxRelay ---------------------------
(* Instances of OutboxRelay for TLC. *)
EXTENDS OutboxRelay, TLC

CONSTANTS relay, second, admin

\* The flushers behave alike.
FlusherSymmetry == Permutations(Flusher)
=============================================================================
