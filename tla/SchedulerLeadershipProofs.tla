---------------------- MODULE SchedulerLeadershipProofs ----------------------
(***************************************************************************)
(* Theorems about SchedulerLeadership, for every set of instances: with    *)
(* prompt calls and no replica at most one instance is leader or begins    *)
(* jobs, and it holds the lease, although renewals may fail for as long as *)
(* they like and every lease runs out that is not renewed.                 *)
(***************************************************************************)
EXTENDS SchedulerLeadership, TLAPS

\* A row of the lease table.
Row == [owner : Instance \union {Nobody}, left : 0..LeaseTerm]

\* The upsert writes a row, and leaves a lease that runs to its owner.
LEMMA UpsertRespectsOwner ==
  ASSUME NEW row \in Row, NEW i \in Instance
  PROVE  /\ AfterUpsert(row, i) \in Row
         /\ row.left > 0 /\ row.owner # i => AfterUpsert(row, i) = row
         /\ AfterUpsert(row, i) = row \/ AfterUpsert(row, i) = Renewed(i)
         /\ row.owner = i => AfterUpsert(row, i) = Renewed(i)
<1>1. Renewed(i) \in Row
  BY TermAssumption DEF Row, Renewed
<1>2. row.left \in Nat
  BY TermAssumption DEF Row
<1> QED BY <1>1, <1>2 DEF AfterUpsert

\* The release frees the lease of its own instance and leaves any other alone.
LEMMA ReleaseRespectsOwner ==
  ASSUME NEW row \in Row, NEW i \in Instance
  PROVE  /\ AfterRelease(row, i) \in Row
         /\ row.owner # i => AfterRelease(row, i) = row
         /\ AfterRelease(row, i).owner # i
<1>1. [owner |-> Nobody, left |-> 0] \in Row
  BY TermAssumption DEF Row
<1> QED BY <1>1, NobodyAssumption DEF AfterRelease

\* An interval brings a lease nearer to its end and leaves its owner.
LEMMA IntervalAgesLease ==
  ASSUME lease \in Row, IntervalPasses
  PROVE  /\ lease' \in Row
         /\ lease'.owner = lease.owner
         /\ lease'.left = IF lease.left = 0 THEN 0 ELSE lease.left - 1
BY TermAssumption DEF Row, IntervalPasses

\* Every action keeps the types.
LEMMA StepKeepsTypes == ASSUME TypeOK, [Next]_vars PROVE TypeOK'
<1> USE DEF TypeOK, Loop, Stopping, Runner
<1>0. lease \in Row
  BY DEF Row
<1>1. ASSUME NEW i \in Instance, LoopStep(i) PROVE TypeOK'
  <2>1. CASE LoopTurns(i)
    BY <2>1 DEF LoopTurns
  <2>2. CASE AcquireOrRenew(i) \/ UpsertRaises(i)
    <3>1. lease' \in Row
      BY <1>0, <2>2, UpsertRespectsOwner DEF AcquireOrRenew, UpsertRaises
    <3>2. loop' \in [Instance -> Loop] /\ verdict' \in [Instance -> BOOLEAN]
      BY <2>2 DEF AcquireOrRenew, UpsertRaises
    <3>3. UNCHANGED <<replicaOwner, stopEvent, leader, stopping, runner, runnerStop, pace>>
      BY <2>2 DEF AcquireOrRenew, UpsertRaises
    <3> QED BY <3>1, <3>2, <3>3 DEF pace, Row
  <2>3. CASE ReadOwner(i)
    <3>1. (ShownOwner = i) \in BOOLEAN
      OBVIOUS
    <3>2. verdict' \in [Instance -> BOOLEAN]
      BY <2>3, <3>1 DEF ReadOwner
    <3> QED BY <2>3, <3>2 DEF ReadOwner, pace
  <2>4. CASE Decide(i)
    BY <2>4 DEF Decide, pace
  <2>5. CASE Switch(i)
    BY <2>5 DEF Switch, StartRunner, StopRunner, pace
  <2> QED BY <1>1, <2>1, <2>2, <2>3, <2>4, <2>5 DEF LoopStep
<1>2. ASSUME NEW i \in Instance, StopStep(i) PROVE TypeOK'
  <2>1. CASE StopDemotes(i)
    BY <2>1 DEF StopDemotes
  <2>2. CASE StopSwitches(i)
    BY <2>2 DEF StopSwitches, StopRunner
  <2>3. CASE Release(i)
    <3>1. lease' \in Row
      BY <1>0, <2>3, ReleaseRespectsOwner DEF Release
    <3>2. stopping' \in [Instance -> Stopping]
      BY <2>3 DEF Release
    <3> QED BY <2>3, <3>1, <3>2 DEF Release, pace, Row
  <2> QED BY <1>2, <2>1, <2>2, <2>3 DEF StopStep
<1>3. ASSUME NEW i \in Instance, JobStep(i) \/ Start(i) \/ StopRequested(i) PROVE TypeOK'
  BY <1>3 DEF JobStep, JobBegins, JobEnds, Start, StopRequested, pace
<1>4. ASSUME NEW i \in Instance, Crash(i) PROVE TypeOK'
  BY <1>4 DEF Crash
<1>5. CASE IntervalPasses
  <2>1. lease' \in Row
    BY <1>0, <1>5, IntervalAgesLease
  <2> QED BY <1>5, <2>1 DEF IntervalPasses, Row
<1>6. CASE ReplicaCatchesUp
  BY <1>6 DEF ReplicaCatchesUp, pace
<1>7. CASE UNCHANGED vars
  BY <1>7 DEF vars, pace
<1> QED BY <1>1, <1>2, <1>3, <1>4, <1>5, <1>6, <1>7 DEF Next

\* The part of LeaseIInv that speaks of one instance.
Orderly(i) == /\ MayBegin(i) => Holds(i)
              /\ VerdictIsTrue(i) /\ StopIsOrderly(i) /\ RolesAreSwitched(i)

\* Age counts two intervals at most, so that a lease that is held has not run out.
LEMMA HeldLeaseRuns ==
  ASSUME TypeOK, Prompt, NEW i \in Instance
  PROVE  Age(i) \in 0..2 /\ (Holds(i) => lease.left > 0)
<1>1. Age(i) \in 0..2
  BY DEF Age
<1>2. LeaseTerm \in Nat /\ LeaseTerm >= 3 /\ lease.left \in Nat
  BY TermAssumption DEF Prompt, TypeOK
<1> QED BY <1>1, <1>2 DEF Holds

\* A step of another instance leaves an orderly instance orderly, because it can
\* take the lease only from an instance that does not hold it.
LEMMA OthersStayOrderly ==
  ASSUME TypeOK, Prompt, NEW i \in Instance, NEW j \in Instance, i # j, Orderly(i),
         LoopStep(j) \/ StopStep(j) \/ JobStep(j) \/ Start(j) \/ StopRequested(j) \/ Crash(j)
  PROVE  Orderly(i)'
<1>1. /\ loop'[i] = loop[i] /\ verdict'[i] = verdict[i] /\ stopEvent'[i] = stopEvent[i]
      /\ leader'[i] = leader[i] /\ stopping'[i] = stopping[i]
      /\ runner'[i] = runner[i] /\ runnerStop'[i] = runnerStop[i]
      /\ (i \in lateLoops') = (i \in lateLoops) /\ (i \in lateStops') = (i \in lateStops)
  <2> USE DEF TypeOK, pace
  <2>1. CASE LoopStep(j)
    BY <2>1 DEF LoopStep, LoopTurns, AcquireOrRenew, ReadOwner, UpsertRaises, Decide, Switch,
                StartRunner, StopRunner
  <2>2. CASE StopStep(j)
    BY <2>2 DEF StopStep, StopDemotes, StopSwitches, StopRunner, Release
  <2>3. CASE JobStep(j) \/ Start(j) \/ StopRequested(j) \/ Crash(j)
    BY <2>3 DEF JobStep, JobBegins, JobEnds, Start, StopRequested, Crash
  <2> QED BY <2>1, <2>2, <2>3
<1>2. /\ Holds(i) => lease' = lease
      /\ lease'.owner = i => lease' = lease
  <2>0. lease \in Row /\ (Holds(i) => lease.owner = i /\ lease.left > 0)
    BY HeldLeaseRuns DEF TypeOK, Row, Holds
  <2>1. CASE LoopStep(j)
    <3>1. lease' \in {lease, AfterUpsert(lease, j)}
      BY <2>1 DEF LoopStep, LoopTurns, AcquireOrRenew, ReadOwner, UpsertRaises, Decide, Switch
    <3>2. Holds(i) => AfterUpsert(lease, j) = lease
      BY <2>0, UpsertRespectsOwner
    <3>3. AfterUpsert(lease, j).owner = i => AfterUpsert(lease, j) = lease
      BY <2>0, UpsertRespectsOwner DEF Renewed
    <3> QED BY <3>1, <3>2, <3>3
  <2>2. CASE StopStep(j)
    <3>1. lease' \in {lease, AfterRelease(lease, j)}
      BY <2>2 DEF StopStep, StopDemotes, StopSwitches, Release
    <3>2. lease.owner # j => AfterRelease(lease, j) = lease
      BY <2>0, ReleaseRespectsOwner
    <3>3. lease.owner = j => AfterRelease(lease, j).owner = Nobody
      BY DEF AfterRelease
    <3> QED BY <2>0, <3>1, <3>2, <3>3, NobodyAssumption
  <2>3. CASE JobStep(j) \/ Start(j) \/ StopRequested(j)
    BY <2>3 DEF JobStep, JobBegins, JobEnds, Start, StopRequested
  <2>4. CASE Crash(j)
    BY <2>0, <2>4, NobodyAssumption DEF Crash, Row
  <2> QED BY <2>1, <2>2, <2>3, <2>4
<1>3. Age(i)' = Age(i)
  BY <1>1 DEF Age, Unrenewed, IsLate
<1>4. (Holds(i) => Holds(i)') /\ (lease'.owner = i => lease.owner = i)
  BY <1>2, <1>3 DEF Holds
<1>5. MayBegin(i)' = MayBegin(i)
  BY <1>1 DEF MayBegin
<1>6. (MayBegin(i) => Holds(i))' /\ VerdictIsTrue(i)'
  BY <1>1, <1>4, <1>5 DEF Orderly, VerdictIsTrue
<1>7. StopIsOrderly(i)' /\ RolesAreSwitched(i)'
  BY <1>1, <1>5 DEF Orderly, StopIsOrderly, RolesAreSwitched
<1> QED BY <1>6, <1>7 DEF Orderly

\* The steps of an instance's own loop keep it orderly.
LEMMA LoopStaysOrderly ==
  ASSUME TypeOK, Prompt, NEW i \in Instance, Orderly(i), LoopStep(i)
  PROVE  Orderly(i)'
<1> USE DEF TypeOK, Orderly, MayBegin, Holds, VerdictIsTrue, StopIsOrderly, RolesAreSwitched,
            Age, Unrenewed, IsLate, pace
<1>0. LeaseTerm \in Nat /\ lease.left \in Nat /\ lease \in Row
  BY TermAssumption DEF Row
<1>1. CASE LoopTurns(i)
  BY <1>0, <1>1 DEF LoopTurns
<1>2. CASE AcquireOrRenew(i)
  <2>1. lease' = AfterUpsert(lease, i)
    BY <1>2 DEF AcquireOrRenew
  <2>2. /\ lease.owner = i => lease'.owner = i /\ lease'.left = LeaseTerm
        /\ lease'.owner = i => lease'.left = LeaseTerm
    BY <1>0, <2>1, UpsertRespectsOwner DEF Renewed
  <2>3. (lease.owner = i => Holds(i)') /\ (lease'.owner = i => Holds(i)')
    BY <1>0, <1>2, <2>2 DEF AcquireOrRenew
  <2> QED BY <1>2, <2>3 DEF AcquireOrRenew
<1>3. CASE ReadOwner(i)
  BY <1>0, <1>3 DEF ReadOwner, ShownOwner, Prompt
<1>4. CASE UpsertRaises(i)
  <2>1. lease.owner = i => lease'.owner = i /\ lease'.left >= lease.left
    BY <1>0, <1>4, UpsertRespectsOwner DEF UpsertRaises, Renewed
  <2>2. lease'.left \in Nat
    BY <1>0, <1>4, UpsertRespectsOwner DEF UpsertRaises, Row
  <2> QED BY <1>0, <1>4, <2>1, <2>2 DEF UpsertRaises
<1>5. CASE Decide(i)
  BY <1>0, <1>5 DEF Decide, LockFree
<1>6. CASE Switch(i)
  BY <1>0, <1>6 DEF Switch, StartRunner, StopRunner
<1> QED BY <1>1, <1>2, <1>3, <1>4, <1>5, <1>6 DEF LoopStep

\* So do the steps of stop(), of the job thread, and a restart.
LEMMA OwnStepsStayOrderly ==
  ASSUME TypeOK, Prompt, NEW i \in Instance, Orderly(i),
         StopStep(i) \/ JobStep(i) \/ Start(i) \/ StopRequested(i) \/ Crash(i)
  PROVE  Orderly(i)'
<1> USE DEF TypeOK, Orderly, MayBegin, Holds, VerdictIsTrue, StopIsOrderly, RolesAreSwitched,
            Age, Unrenewed, IsLate, pace
<1>0. LeaseTerm \in Nat /\ lease.left \in Nat /\ lease \in Row
  BY TermAssumption DEF Row
<1>1. CASE StopDemotes(i)
  BY <1>0, <1>1 DEF StopDemotes, Prompt
<1>2. CASE StopSwitches(i)
  BY <1>0, <1>2 DEF StopSwitches, StopRunner
<1>3. CASE Release(i)
  BY <1>0, <1>3, ReleaseRespectsOwner DEF Release
<1>4. CASE JobStep(i)
  BY <1>0, <1>4 DEF JobStep, JobBegins, JobEnds
<1>5. CASE Start(i) \/ StopRequested(i)
  BY <1>0, <1>5 DEF Start, StopRequested
<1>6. CASE Crash(i)
  BY <1>0, <1>6 DEF Crash
<1> QED BY <1>1, <1>2, <1>3, <1>4, <1>5, <1>6 DEF StopStep

\* An interval ages every lease by one and every loop and stop() at work by one: time
\* waits for those that are late already.
LEMMA IntervalKeepsOrder ==
  ASSUME TypeOK, Prompt, NEW i \in Instance, Orderly(i), IntervalPasses
  PROVE  Orderly(i)'
<1>1. /\ UNCHANGED <<loop, verdict, stopEvent, leader, stopping, runner, runnerStop>>
      /\ lateLoops = {} /\ lateStops = {}
      /\ lateLoops' = {j \in Instance : loop[j] # "none"}
      /\ lateStops' = {j \in Instance : stopping[j] \in {"join", "switch"}}
  BY DEF IntervalPasses, Prompt
<1>2. LeaseTerm \in Nat /\ lease.left \in Nat /\ lease \in Row
  BY TermAssumption DEF TypeOK, Row
<1>3. StopIsOrderly(i)' /\ RolesAreSwitched(i)' /\ (MayBegin(i)' = MayBegin(i))
  BY <1>1 DEF Orderly, StopIsOrderly, RolesAreSwitched, MayBegin
<1>4. ASSUME Holds(i), loop[i] # "none" \/ stopping[i] \in {"join", "switch"}
      PROVE  Holds(i)'
  <2>1. Age(i) \in 0..1 /\ Age(i)' = Age(i) + 1
    BY <1>1, <1>4 DEF Age, Unrenewed, IsLate
  <2>2. lease.owner = i /\ lease.left > 0 /\ lease.left + Age(i) >= LeaseTerm
    BY <1>4, HeldLeaseRuns DEF Holds
  <2>3. lease'.owner = i /\ lease'.left = lease.left - 1
    BY <1>2, <2>2, IntervalAgesLease
  <2> QED BY <1>2, <2>1, <2>2, <2>3 DEF Holds
<1>5. MayBegin(i) => Holds(i) /\ (loop[i] # "none" \/ stopping[i] \in {"join", "switch"})
  <2>1. stopping[i] \in {"none", "join", "switch", "release"}
    BY DEF TypeOK, Stopping
  <2> QED BY <2>1 DEF Orderly, StopIsOrderly, RolesAreSwitched
<1>6. VerdictIsTrue(i)'
  <2>1. lease'.owner = lease.owner
    BY <1>2, IntervalAgesLease
  <2> QED BY <1>1, <1>4, <2>1 DEF Orderly, VerdictIsTrue
<1> QED BY <1>3, <1>4, <1>5, <1>6 DEF Orderly

\* LeaseIInv is an invariant.
LEMMA LeaseInvariant == Spec => []LeaseIInv
<1>1. Init => LeaseIInv
  BY TermAssumption DEF Init, LeaseIInv, TypeOK, Loop, Stopping, Runner, MayBegin, VerdictIsTrue,
                        StopIsOrderly, RolesAreSwitched
<1>2. LeaseIInv /\ [Next]_vars => LeaseIInv'
  <2> SUFFICES ASSUME LeaseIInv, [Next]_vars PROVE LeaseIInv'
    OBVIOUS
  <2>1. TypeOK /\ TypeOK'
    BY StepKeepsTypes DEF LeaseIInv
  <2>2. ASSUME Prompt, NEW i \in Instance PROVE Orderly(i)'
    <3>1. Orderly(i)
      BY <2>2 DEF LeaseIInv, Orderly
    <3>2. CASE UNCHANGED vars \/ ReplicaCatchesUp
      BY <3>1, <3>2 DEF vars, pace, ReplicaCatchesUp, Orderly, MayBegin, Holds, VerdictIsTrue,
                        StopIsOrderly, RolesAreSwitched, Age, Unrenewed, IsLate
    <3>3. CASE IntervalPasses
      BY <2>1, <2>2, <3>1, <3>3, IntervalKeepsOrder
    <3>4. ASSUME NEW j \in Instance,
                 \/ LoopStep(j) \/ StopStep(j) \/ JobStep(j)
                 \/ Start(j) \/ StopRequested(j) \/ Crash(j)
          PROVE  Orderly(i)'
      <4>1. CASE i = j
        BY <2>1, <2>2, <3>1, <3>4, <4>1, LoopStaysOrderly, OwnStepsStayOrderly
      <4>2. CASE i # j
        BY <2>1, <2>2, <3>1, <3>4, <4>2, OthersStayOrderly
      <4> QED BY <4>1, <4>2
    <3> QED BY <3>2, <3>3, <3>4 DEF Next
  <2> QED BY <2>1, <2>2 DEF LeaseIInv, Orderly
<1> QED BY <1>1, <1>2, PTL DEF Spec

\* Type correctness.
THEOREM LeadershipTypes == Spec => []TypeOK
<1>1. LeaseIInv => TypeOK
  BY DEF LeaseIInv
<1> QED BY <1>1, LeaseInvariant, PTL

\* Under the proviso, whoever is leader or may begin jobs holds a lease that has not
\* run out, whatever its renewals come to.
THEOREM LeaderHoldsLease == Spec => []LeaderHoldsTheLease
<1>1. LeaseIInv => LeaderHoldsTheLease
  BY HeldLeaseRuns DEF LeaseIInv, LeaderHoldsTheLease, Holds
<1> QED BY <1>1, LeaseInvariant, PTL

\* Under the proviso, never do two instances lead or begin jobs.
THEOREM OneInstance == Spec => []OneInstanceBegins
<1>1. LeaseIInv => OneInstanceBegins
  BY DEF LeaseIInv, OneInstanceBegins, Holds
<1> QED BY <1>1, LeaseInvariant, PTL

\* No step disturbs the order of a stop, whoever holds the lease.
LEMMA StepKeepsStops ==
  ASSUME TypeOK, ~SlowJoins, [Next]_vars, NEW i \in Instance,
         StopIsOrderly(i) /\ RolesAreSwitched(i)
  PROVE  (StopIsOrderly(i) /\ RolesAreSwitched(i))'
<1> USE DEF TypeOK, MayBegin, StopIsOrderly, RolesAreSwitched
<1>1. ASSUME NEW j \in Instance, LoopTurns(j) \/ AcquireOrRenew(j) \/ ReadOwner(j) \/ UpsertRaises(j)
      PROVE  (StopIsOrderly(i) /\ RolesAreSwitched(i))'
  BY <1>1 DEF LoopTurns, AcquireOrRenew, ReadOwner, UpsertRaises
<1>2. ASSUME NEW j \in Instance, Decide(j) PROVE (StopIsOrderly(i) /\ RolesAreSwitched(i))'
  BY <1>2 DEF Decide, LockFree
<1>3. ASSUME NEW j \in Instance, Switch(j) PROVE (StopIsOrderly(i) /\ RolesAreSwitched(i))'
  BY <1>3 DEF Switch, StartRunner, StopRunner
<1>4. ASSUME NEW j \in Instance, StopStep(j) PROVE (StopIsOrderly(i) /\ RolesAreSwitched(i))'
  <2>1. CASE StopDemotes(j)
    BY <2>1 DEF StopDemotes
  <2>2. CASE StopSwitches(j)
    BY <2>2 DEF StopSwitches, StopRunner
  <2>3. CASE Release(j)
    BY <2>3 DEF Release
  <2> QED BY <1>4, <2>1, <2>2, <2>3 DEF StopStep
<1>5. ASSUME NEW j \in Instance, JobStep(j) \/ Start(j) \/ StopRequested(j)
      PROVE  (StopIsOrderly(i) /\ RolesAreSwitched(i))'
  BY <1>5 DEF JobStep, JobBegins, JobEnds, Start, StopRequested
<1>6. ASSUME NEW j \in Instance, Crash(j) PROVE (StopIsOrderly(i) /\ RolesAreSwitched(i))'
  BY <1>6 DEF Crash
<1>7. CASE IntervalPasses \/ ReplicaCatchesUp \/ UNCHANGED vars
  BY <1>7 DEF IntervalPasses, ReplicaCatchesUp, vars
<1> QED BY <1>1, <1>2, <1>3, <1>4, <1>5, <1>6, <1>7 DEF Next, LoopStep

\* With short joins a stopped instance begins no jobs, whatever the lease and the
\* replica say.
THEOREM StoppedStaysStopped == Spec => []StoppedMeansStopped
<1>1. Init => StopIInv
  BY DEF Init, StopIInv, MayBegin, StopIsOrderly, RolesAreSwitched
<1>2. TypeOK /\ StopIInv /\ [Next]_vars => StopIInv'
  BY StepKeepsStops DEF StopIInv
<1>3. StopIInv => StoppedMeansStopped
  BY DEF StopIInv, StoppedMeansStopped, RolesAreSwitched
<1> QED BY <1>1, <1>2, <1>3, LeadershipTypes, PTL DEF Spec
-----------------------------------------------------------------------------
(* The promise of the lease.                                               *)

\* Only an upsert gives the lease to another instance, only if no lease is valid,
\* and it changes nobody's role.
LEMMA LeaseIsTakenOver ==
  ASSUME TypeOK, [Next]_vars, Holder' \notin {Holder, Nobody}
  PROVE  Holder = Nobody /\ Holder' \in Instance /\ Working' = Working
<1>1. \E i \in Instance : AcquireOrRenew(i) \/ UpsertRaises(i)
  <2>1. lease' # lease
    BY DEF Holder
  <2>2. \A i \in Instance : ~Release(i) /\ ~Crash(i)
    <3> SUFFICES ASSUME NEW i \in Instance, Release(i) \/ Crash(i)
                 PROVE  Holder' \in {Holder, Nobody}
      OBVIOUS
    <3> QED
      BY DEF TypeOK, Release, Crash, AfterRelease, Holder
  <2>3. ~IntervalPasses
    <3>1. IntervalPasses => lease'.owner = lease.owner /\ (lease.left = 0 => lease'.left = 0)
      BY IntervalAgesLease DEF TypeOK, Row
    <3> QED BY <3>1, TermAssumption DEF TypeOK, Holder
  <2> QED
    BY <2>1, <2>2, <2>3
    DEF Next, vars, LoopStep, StopStep, JobStep, LoopTurns, ReadOwner, Decide, Switch, StopDemotes,
        StopSwitches, JobBegins, JobEnds, Start, StopRequested, ReplicaCatchesUp
<1>2. PICK i \in Instance : AcquireOrRenew(i) \/ UpsertRaises(i)
  BY <1>1
<1>3. lease' = AfterUpsert(lease, i) /\ lease' # lease
  BY <1>2 DEF AcquireOrRenew, UpsertRaises, Holder
<1>4. lease' = Renewed(i) /\ Holder = Nobody
  BY <1>3 DEF AfterUpsert, Renewed, Holder, TypeOK
<1>5. Working' = Working
  BY <1>2 DEF AcquireOrRenew, UpsertRaises, Working, MayBegin
<1> QED
  BY <1>4, <1>5, TermAssumption DEF Holder, Renewed

\* Whoever begins jobs is the holder.
LEMMA WorkersHold ==
  ASSUME LeaseIInv, Prompt
  PROVE  Working \subseteq {Holder} \intersect Instance
BY HeldLeaseRuns DEF LeaseIInv, Working, Holder, Holds

\* The leadership refines ExclusiveLease, for any set of instances, if joins are
\* short and the lease is read where it is written.
THEOREM LeasePromiseKept == Prompt => (Spec => ImplementsExclusiveLease)
<1> SUFFICES ASSUME Prompt PROVE Spec => ImplementsExclusiveLease
  OBVIOUS
<1>1. Init => Promise!Init
  BY DEF Init, Promise!Init, Holder, Working, MayBegin
<1>2. LeaseIInv /\ LeaseIInv' /\ [Next]_vars => [Promise!Next]_(Promise!vars)
  <2> SUFFICES ASSUME LeaseIInv, LeaseIInv', [Next]_vars
               PROVE  Promise!Next \/ UNCHANGED Promise!vars
    OBVIOUS
  <2> USE NobodyAssumption
  <2>1. Working \subseteq {Holder} \intersect Instance
    BY WorkersHold
  <2>2. Working' \subseteq {Holder'} \intersect Instance
    <3>1. ASSUME NEW i \in Instance, MayBegin(i)' PROVE Holder' = i
      <4>1. lease'.owner = i /\ lease'.left + Age(i)' >= LeaseTerm
        BY <3>1 DEF LeaseIInv, Holds
      <4>2. Age(i)' \in 0..2 /\ lease'.left \in Nat /\ LeaseTerm \in Nat /\ LeaseTerm >= 3
        BY TermAssumption DEF Age, Prompt, LeaseIInv, TypeOK
      <4> QED BY <4>1, <4>2 DEF Holder
    <3> QED BY <3>1 DEF Working
  <2>3. Holder \in Instance \union {Nobody}
    BY DEF LeaseIInv, TypeOK, Holder
  <2>4. CASE Holder' = Holder
    <3>1. CASE Working' = Working
      BY <2>4, <3>1 DEF Promise!vars
    <3>2. CASE Working' = {Holder} /\ Working = {}
      BY <2>2, <2>4, <3>2 DEF Promise!Next, Promise!Begin
    <3>3. CASE Working' = {} /\ Working = {Holder}
      BY <2>1, <2>4, <3>3 DEF Promise!Next, Promise!Cease
    <3> QED
      BY <2>1, <2>2, <2>4, <3>1, <3>2, <3>3
  <2>5. CASE Holder' # Holder /\ Holder' = Nobody
    <3>1. Holder \in Instance /\ Working' = {} /\ Working \ {Holder} = {}
      BY <2>1, <2>2, <2>3, <2>5
    <3> QED
      BY <2>5, <3>1 DEF Promise!Next, Promise!Forfeit
  <2>6. CASE Holder' \notin {Holder, Nobody}
    <3>1. Holder = Nobody /\ Holder' \in Instance /\ Working' = Working
      BY <2>6, LeaseIsTakenOver DEF LeaseIInv
    <3>2. Working = {}
      BY <2>1, <3>1
    <3> QED
      BY <3>1, <3>2 DEF Promise!Next, Promise!Acquire
  <2> QED
    BY <2>4, <2>5, <2>6
<1> QED
  BY <1>1, <1>2, LeaseInvariant, PTL DEF Spec, ImplementsExclusiveLease, Promise!Spec
=============================================================================
