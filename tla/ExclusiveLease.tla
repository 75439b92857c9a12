--------------------------- MODULE ExclusiveLease ---------------------------
(***************************************************************************)
(* What the scheduler's lease promises, without threads, loops, upserts or *)
(* clocks: jobs are begun only by the holder of the lease, the lease never *)
(* passes from one instance straight to another, and an instance that      *)
(* loses it (by a release, by expiry or by its death) has ceased by then.  *)
(***************************************************************************)
CONSTANTS Instance, Nobody

VARIABLES
  holder,   \* who has the lease, or Nobody
  working   \* the instances that begin jobs

vars == <<holder, working>>

Init == holder = Nobody /\ working = {}

Acquire(i) ==
  /\ holder = Nobody /\ working = {}
  /\ holder' = i
  /\ UNCHANGED working

Begin(i) ==
  /\ holder = i
  /\ working' = working \union {i}
  /\ UNCHANGED holder

Cease(i) ==
  /\ working' = working \ {i}
  /\ UNCHANGED holder

Forfeit(i) ==
  /\ holder = i
  /\ holder' = Nobody
  /\ working' = working \ {i}

Next == \E i \in Instance : Acquire(i) \/ Begin(i) \/ Cease(i) \/ Forfeit(i)

Spec == Init /\ [][Next]_vars
=============================================================================
