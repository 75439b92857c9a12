------------------------- MODULE SchedulerLeadership -------------------------
(***************************************************************************)
(* Which scheduler instance runs the background jobs                       *)
(* (apps/operations/scheduler-service/src/main.py: SchedulerLeadership,    *)
(* SchedulerRuntime and the job runners they start and stop).              *)
(*                                                                         *)
(* Instances compete for one row of scheduler_runtime_leases.  In each     *)
(* instance the leadership thread renews the lease and starts or stops the *)
(* job threads.  start() and stop() run in the event loop of the web       *)
(* server, next to these threads but never both at once.  All job runners  *)
(* are built alike; the model follows one of them.                         *)
(***************************************************************************)
EXTENDS Naturals, FiniteSets

CONSTANTS
  Instance,       \* scheduler processes
  Nobody,         \* owner_id when it is NULL, or that of a process that died
  SlowJoins,      \* TRUE: a database call may outlast stop()'s join of two seconds, and
                  \* stop_all's joins (two seconds for each busy runner) the lease
  UseReplica,     \* settings.is_read_db_enabled(): fetch_one reads a replica
  LeaseTerm       \* how many intervals a lease lasts.  An interval is the longest time from
                  \* one turn of a prompt loop to the next: the renewal interval (5 s) and
                  \* its database calls.  Of 20 seconds that makes three.

ASSUME NobodyAssumption == Nobody \notin Instance
ASSUME JoinAssumption   == SlowJoins \in BOOLEAN
ASSUME ReplicaAssumption == UseReplica \in BOOLEAN
ASSUME TermAssumption == LeaseTerm \in Nat \ {0}

VARIABLES
  lease,      \* the row: who owns it, and the intervals left until lease_until
  replicaOwner, \* the owner the read replica shows
  loop,       \* where the leadership thread of an instance stands
  verdict,    \* what _acquire_or_renew returned to it, until it decides
  stopEvent,  \* SchedulerLeadership._stop_event
  leader,     \* SchedulerLeadership._is_leader
  stopping,   \* where a call of stop() stands
  runner,     \* the job thread
  runnerStop, \* the job runner's _stop_event
  lateLoops,  \* the instances whose loop has not turned in this interval and
  lateStops   \* whose stop() has not stopped the runners in it: time waits for them

pace == <<lateLoops, lateStops>>

vars == <<lease, replicaOwner, loop, verdict, stopEvent, leader, stopping, runner, runnerStop, pace>>

Loop     == {"none", "wait", "call", "sent", "decide", "switch"}
Stopping == {"none", "join", "switch", "release"}
Runner   == {"none", "idle", "running"}

Init ==
  /\ lease      = [owner |-> Nobody, left |-> 0]
  /\ replicaOwner = Nobody
  /\ loop       = [i \in Instance |-> "none"]
  /\ verdict    = [i \in Instance |-> FALSE]
  /\ stopEvent  = [i \in Instance |-> FALSE]
  /\ leader     = [i \in Instance |-> FALSE]
  /\ stopping   = [i \in Instance |-> "none"]
  /\ runner     = [i \in Instance |-> "none"]
  /\ runnerStop = [i \in Instance |-> FALSE]
  /\ lateLoops  = {}
  /\ lateStops  = {}

-----------------------------------------------------------------------------
(* start() and _loop.                                                      *)

\* start: at the service's start, or POST /runtime/start.  A thread that is still
\* alive is left alone, with its stop event as it is.
Start(i) ==
  /\ loop[i] = "none" /\ stopping[i] = "none"
  /\ loop' = [loop EXCEPT ![i] = "wait"]
  /\ stopEvent' = [stopEvent EXCEPT ![i] = FALSE]
  /\ UNCHANGED <<lease, replicaOwner, verdict, leader, stopping, runner, runnerStop, pace>>

\* The head of the loop: leave, or call _acquire_or_renew.
LoopTurns(i) ==
  /\ loop[i] = "wait"
  /\ loop' = [loop EXCEPT ![i] = IF stopEvent[i] THEN "none" ELSE "call"]
  /\ lateLoops' = lateLoops \ {i}
  /\ UNCHANGED <<lease, replicaOwner, verdict, stopEvent, leader, stopping, runner, runnerStop, lateStops>>

Renewed(i) == [owner |-> i, left |-> LeaseTerm]

\* Defect: the upsert renews but never takes over.
AfterRenewal(row, i) == IF row.owner = i THEN Renewed(i) ELSE row

\* The INSERT ... ON DUPLICATE KEY UPDATE: MySQL assigns owner_id first, so the
\* later columns see the new owner.
AfterUpsert(row, i) == IF row.owner = i \/ row.left = 0 THEN Renewed(i) ELSE row

AcquireOrRenew(i) ==
  /\ loop[i] = "call"
  /\ lease' = AfterUpsert(lease, i)
  /\ loop' = [loop EXCEPT ![i] = "sent"]
  /\ UNCHANGED <<replicaOwner, verdict, stopEvent, leader, stopping, runner, runnerStop, pace>>

\* _fetch_lock_row: the owner counts, lease_until does not; fetch_one answers a
\* database error with no row.
ShownOwner == IF UseReplica THEN replicaOwner ELSE lease.owner

ReadOwner(i) ==
  /\ loop[i] = "sent"
  /\ verdict' \in {[verdict EXCEPT ![i] = ShownOwner = i], [verdict EXCEPT ![i] = FALSE]}
  /\ loop' = [loop EXCEPT ![i] = "decide"]
  /\ UNCHANGED <<lease, replicaOwner, stopEvent, leader, stopping, runner, runnerStop, pace>>

\* Defect: the except branch keeps the error and does not step down.
RaisesUnnoticed(i) ==
  /\ loop[i] = "call"
  /\ lease' \in {lease, AfterUpsert(lease, i)}
  /\ loop' = [loop EXCEPT ![i] = "wait"]
  /\ UNCHANGED <<replicaOwner, verdict, stopEvent, leader, stopping, runner, runnerStop, pace>>

\* The upsert raises, before or after it took effect, as often as it likes.  The
\* except branch steps down.
UpsertRaises(i) ==
  /\ loop[i] = "call"
  /\ lease' \in {lease, AfterUpsert(lease, i)}
  /\ verdict' = [verdict EXCEPT ![i] = FALSE]
  /\ loop' = [loop EXCEPT ![i] = "decide"]
  /\ UNCHANGED <<replicaOwner, stopEvent, leader, stopping, runner, runnerStop, pace>>

-----------------------------------------------------------------------------
(* _set_leader_state, called by the loop and by stop().  It holds _lock    *)
(* while start_all or stop_all works through the runners; stop_all waits   *)
(* up to two seconds for each of them.                                     *)

LockFree(i) == loop[i] # "switch" /\ stopping[i] # "switch"

Decide(i) ==
  /\ loop[i] = "decide" /\ LockFree(i)
  /\ loop' = [loop EXCEPT ![i] = IF leader[i] = verdict[i] THEN "wait" ELSE "switch"]
  /\ leader' = [leader EXCEPT ![i] = verdict[i]]
  /\ verdict' = [verdict EXCEPT ![i] = FALSE]
  /\ UNCHANGED <<lease, replicaOwner, stopEvent, stopping, runner, runnerStop, pace>>

\* The runners' start: a thread that is still alive is left alone, with its stop
\* event as it is.
StartRunner(i) ==
  IF runner[i] = "none"
    THEN /\ runner' = [runner EXCEPT ![i] = "idle"]
         /\ runnerStop' = [runnerStop EXCEPT ![i] = FALSE]
    ELSE UNCHANGED <<runner, runnerStop>>

\* The runners' stop: an idle thread wakes up and leaves, one that is busy with
\* its job outlives the join.
StopRunner(i) ==
  /\ runnerStop' = [runnerStop EXCEPT ![i] = TRUE]
  /\ runner' = [runner EXCEPT ![i] = IF @ = "running" THEN @ ELSE "none"]

Switch(i) ==
  /\ loop[i] = "switch"
  /\ IF leader[i] THEN StartRunner(i) ELSE StopRunner(i)
  /\ loop' = [loop EXCEPT ![i] = "wait"]
  /\ UNCHANGED <<lease, replicaOwner, verdict, stopEvent, leader, stopping, pace>>

-----------------------------------------------------------------------------
(* stop(): POST /runtime/stop, or the service's shutdown.                  *)

StopRequested(i) ==
  /\ stopping[i] = "none"
  /\ stopEvent' = [stopEvent EXCEPT ![i] = TRUE]
  /\ stopping' = [stopping EXCEPT ![i] = "join"]
  /\ UNCHANGED <<lease, replicaOwner, loop, verdict, leader, runner, runnerStop, pace>>

\* Defect: stop() does not wait for the leadership thread.
StopDemotesAtOnce(i) ==
  /\ stopping[i] = "join" /\ LockFree(i)
  /\ leader' = [leader EXCEPT ![i] = FALSE]
  /\ stopping' = [stopping EXCEPT ![i] = IF leader[i] THEN "switch" ELSE "release"]
  /\ lateStops' = IF leader[i] THEN lateStops ELSE lateStops \ {i}
  /\ UNCHANGED <<lease, replicaOwner, loop, verdict, stopEvent, runner, runnerStop, lateLoops>>

StopDemotes(i) ==
  /\ stopping[i] = "join" /\ LockFree(i)
  /\ loop[i] = "none" \/ SlowJoins
  /\ leader' = [leader EXCEPT ![i] = FALSE]
  /\ stopping' = [stopping EXCEPT ![i] = IF leader[i] THEN "switch" ELSE "release"]
  /\ lateStops' = IF leader[i] THEN lateStops ELSE lateStops \ {i}
  /\ UNCHANGED <<lease, replicaOwner, loop, verdict, stopEvent, runner, runnerStop, lateLoops>>

StopSwitches(i) ==
  /\ stopping[i] = "switch"
  /\ StopRunner(i)
  /\ stopping' = [stopping EXCEPT ![i] = "release"]
  /\ lateStops' = lateStops \ {i}
  /\ UNCHANGED <<lease, replicaOwner, loop, verdict, stopEvent, leader, lateLoops>>

\* Defect: a blank owner instead of NULL.
AfterReleaseToBlank(row, i) == IF row.owner = i THEN [owner |-> "", left |-> 0] ELSE row

AfterRelease(row, i) == IF row.owner = i THEN [owner |-> Nobody, left |-> 0] ELSE row

\* _release; an error is kept in _last_error and otherwise ignored.
Release(i) ==
  /\ stopping[i] = "release"
  /\ lease' \in {lease, AfterRelease(lease, i)}
  /\ stopping' = [stopping EXCEPT ![i] = "none"]
  /\ UNCHANGED <<replicaOwner, loop, verdict, stopEvent, leader, runner, runnerStop, pace>>

-----------------------------------------------------------------------------
(* The job thread.                                                         *)

JobBegins(i) ==
  /\ runner[i] = "idle" /\ ~runnerStop[i]
  /\ runner' = [runner EXCEPT ![i] = "running"]
  /\ UNCHANGED <<lease, replicaOwner, loop, verdict, stopEvent, leader, stopping, runnerStop, pace>>

JobEnds(i) ==
  /\ runner[i] = "running"
  /\ runner' = [runner EXCEPT ![i] = IF runnerStop[i] THEN "none" ELSE "idle"]
  /\ UNCHANGED <<lease, replicaOwner, loop, verdict, stopEvent, leader, stopping, runnerStop, pace>>

-----------------------------------------------------------------------------
(* Processes and time.                                                     *)

\* A process dies.  Its successor has a new owner id, so the old lease is nobody's.
Crash(i) ==
  /\ loop' = [loop EXCEPT ![i] = "none"]
  /\ verdict' = [verdict EXCEPT ![i] = FALSE]
  /\ stopEvent' = [stopEvent EXCEPT ![i] = FALSE]
  /\ leader' = [leader EXCEPT ![i] = FALSE]
  /\ stopping' = [stopping EXCEPT ![i] = "none"]
  /\ runner' = [runner EXCEPT ![i] = "none"]
  /\ runnerStop' = [runnerStop EXCEPT ![i] = FALSE]
  /\ lease' = [lease EXCEPT !.owner = IF @ = i THEN Nobody ELSE @]
  /\ replicaOwner' = IF replicaOwner = i THEN Nobody ELSE replicaOwner
  /\ lateLoops' = lateLoops \ {i}
  /\ lateStops' = lateStops \ {i}

\* An interval passes, and every lease is that much nearer to its end, whether its
\* owner's loop lives or not.  A prompt loop has turned in it, which renews the
\* lease if the upsert does not raise, and a prompt stop() has come past stop_all.
IntervalPasses ==
  /\ SlowJoins \/ (lateLoops = {} /\ lateStops = {})
  /\ lease' = [lease EXCEPT !.left = IF @ = 0 THEN 0 ELSE @ - 1]
  /\ lateLoops' = {i \in Instance : loop[i] # "none"}
  /\ lateStops' = {i \in Instance : stopping[i] \in {"join", "switch"}}
  /\ UNCHANGED <<replicaOwner, loop, verdict, stopEvent, leader, stopping, runner, runnerStop>>

\* The replica applies the primary's changes at any distance.
ReplicaCatchesUp ==
  /\ UseReplica
  /\ replicaOwner' = lease.owner
  /\ UNCHANGED <<lease, loop, verdict, stopEvent, leader, stopping, runner, runnerStop, pace>>

-----------------------------------------------------------------------------
LoopStep(i) ==
  LoopTurns(i) \/ AcquireOrRenew(i) \/ ReadOwner(i) \/ UpsertRaises(i) \/ Decide(i) \/ Switch(i)

StopStep(i) == StopDemotes(i) \/ StopSwitches(i) \/ Release(i)

JobStep(i) == JobBegins(i) \/ JobEnds(i)

Next ==
  \/ \E i \in Instance :
       LoopStep(i) \/ StopStep(i) \/ JobStep(i) \/ Start(i) \/ StopRequested(i) \/ Crash(i)
  \/ IntervalPasses \/ ReplicaCatchesUp

Spec == Init /\ [][Next]_vars

\* Threads keep running, time passes, the rows are read if they are asked for over
\* and over, and from some point on no upsert raises and no instance is stopped or
\* dies.
Fairness ==
  /\ <>[][\A i \in Instance : ~StopRequested(i) /\ ~Crash(i) /\ ~UpsertRaises(i)]_vars
  /\ WF_vars(IntervalPasses) /\ WF_vars(ReplicaCatchesUp)
  /\ \A i \in Instance :
       /\ WF_vars(LoopTurns(i) \/ AcquireOrRenew(i) \/ Decide(i) \/ Switch(i))
       /\ SF_vars(ReadOwner(i) /\ verdict'[i] = (ShownOwner = i))
       /\ WF_vars(StopStep(i))

LiveSpec == Spec /\ Fairness

-----------------------------------------------------------------------------
(* Properties.                                                             *)

\* Every variable keeps its type.
TypeOK ==
  /\ lease \in [owner : Instance \union {Nobody}, left : 0..LeaseTerm]
  /\ replicaOwner \in Instance \union {Nobody}
  /\ loop \in [Instance -> Loop]
  /\ verdict \in [Instance -> BOOLEAN]
  /\ stopEvent \in [Instance -> BOOLEAN]
  /\ leader \in [Instance -> BOOLEAN]
  /\ stopping \in [Instance -> Stopping]
  /\ runner \in [Instance -> Runner]
  /\ runnerStop \in [Instance -> BOOLEAN]
  /\ lateLoops \in SUBSET Instance
  /\ lateStops \in SUBSET Instance

\* The proviso: joins and calls are prompt, the lease is read where it is written,
\* and it outlasts two intervals: the one in which it was last renewed, and the one
\* in which the loop learns that it cannot renew it and steps down.
Prompt == ~SlowJoins /\ ~UseReplica /\ LeaseTerm >= 3

\* An instance that may begin a job.
MayBegin(i) == leader[i] \/ (runner[i] # "none" /\ ~runnerStop[i])

\* No two instances are leader or begin jobs at the same time, through renewals
\* that fail over and over, expiry, crashes and stops, under the proviso.
OneInstanceBegins ==
  Prompt => \A i, j \in Instance : MayBegin(i) /\ MayBegin(j) => i = j

\* Under the same proviso nobody begins jobs on the strength of a lease that
\* another instance may take over: a loop whose upserts keep raising has stopped
\* its job threads before its lease runs out.
LeaderHoldsTheLease ==
  Prompt => \A i \in Instance : MayBegin(i) => lease.owner = i /\ lease.left > 0

\* POST /runtime/stop answers that the lease is released and the instance's
\* threads are stopped: if the joins are short, an instance that was stopped and
\* not started again does not begin jobs, wherever its threads stood.
StoppedMeansStopped ==
  ~SlowJoins =>
    \A i \in Instance : loop[i] = "none" /\ stopping[i] = "none" => ~MayBegin(i)

\* The inductive strengthening of the first two.  Age is the most intervals that
\* may have passed since the instance's lease was renewed: one for the interval
\* under way, one for a round that cannot renew it or for a loop that has ended.
Unrenewed(i) ==
  \/ loop[i] \in {"none", "call"}
  \/ loop[i] = "decide" /\ ~verdict[i]
  \/ loop[i] = "switch" /\ ~leader[i]

IsLate(i) == i \in lateLoops \/ (loop[i] = "none" /\ i \in lateStops)

Age(i) == (IF Unrenewed(i) THEN 1 ELSE 0) + (IF IsLate(i) THEN 1 ELSE 0)

Holds(i) == lease.owner = i /\ lease.left + Age(i) >= LeaseTerm

VerdictIsTrue(i) ==
  /\ loop[i] = "sent" /\ lease.owner = i => Holds(i)
  /\ loop[i] = "decide" /\ verdict[i] => Holds(i)

StopIsOrderly(i) ==
  /\ stopping[i] \in {"switch", "release"} => loop[i] = "none" /\ ~leader[i]
  /\ stopping[i] = "release" => ~MayBegin(i)
  /\ stopEvent[i] /\ stopping[i] = "none" => loop[i] = "none"

RolesAreSwitched(i) ==
  /\ MayBegin(i) => loop[i] # "none" \/ stopping[i] # "none"
  /\ MayBegin(i) /\ ~leader[i] => loop[i] = "switch" \/ stopping[i] = "switch"

LeaseIInv ==
  /\ TypeOK
  /\ Prompt => \A i \in Instance :
       /\ MayBegin(i) => Holds(i)
       /\ VerdictIsTrue(i)
       /\ StopIsOrderly(i)
       /\ RolesAreSwitched(i)

\* The strengthening of StoppedMeansStopped; the lease has no part in it.
StopIInv ==
  ~SlowJoins => \A i \in Instance : StopIsOrderly(i) /\ RolesAreSwitched(i)

\* The lease and the roles in the terms of ExclusiveLease.
Holder  == IF lease.left > 0 THEN lease.owner ELSE Nobody
Working == {i \in Instance : MayBegin(i)}

Promise == INSTANCE ExclusiveLease WITH holder <- Holder, working <- Working

\* Under the proviso the instances keep the promise of the lease: only its holder
\* begins jobs, and no renewal, failed renewal, release, expiry or crash, in any
\* order, hands it from one instance to another while the first still begins jobs.
ImplementsExclusiveLease == Promise!Spec

\* While some instance's loop is left running, the jobs do not stay without a
\* leader: a lease left behind by a crash or a failed release runs out and is
\* taken over.
SomebodyLeads ==
  \A i \in Instance : []<>(loop[i] = "none" \/ stopEvent[i] \/ \E j \in Instance : leader[j])

\* POST /runtime/start answers that the instance starts its threads once it has
\* the lease: a leader that is not changing roles has a job thread that goes on.
\* Not an invariant: start() (main.py:641-646) leaves a runner alone that was
\* told to stop and is still busy with a job, and it ends after that job.
LeaderHasRunner ==
  \A i \in Instance : leader[i] /\ loop[i] = "wait" => runner[i] # "none" /\ ~runnerStop[i]
=============================================================================
