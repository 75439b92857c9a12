------------------------------- MODULE AgentRun -------------------------------
(***************************************************************************)
(* The watchlist review of the analysis service: a request looks for a     *)
(* recent run with its idempotency key, creates a run row in agent_runs    *)
(* and starts a daemon thread that claims the row, asks the Agno side-car, *)
(* may buy, and writes the outcome.  A person may override the status of   *)
(* any run at any time; a start of the service cancels stranded runs.      *)
(* _call_agent_run_service tries every write twice, on the class and on an *)
(* instance of it, and swallows what both of them raise; a write whose     *)
(* answer is lost has happened all the same.                               *)
(***************************************************************************)
EXTENDS Naturals, FiniteSets

CONSTANTS
    Requests,    \* calls of the review endpoint with the same scene, user, trigger and targets
    Outsized,    \* those whose payload is cut at 4000 characters: their row shows no key
    StaleAfter,  \* idempotency windows after which a run counts as stranded
    MaxWindow,   \* bound: number of idempotency windows in which requests arrive
    MaxOverrides, \* bound: number of overrides
    MaxFaults    \* bound: number of attempts at a database call that fail or lose their answer

ASSUME OutsizedAssumption == Outsized \subseteq Requests
ASSUME StaleAssumption == StaleAfter \in Nat \ {0}
ASSUME BoundsAssumption == MaxWindow \in Nat /\ MaxOverrides \in Nat /\ MaxFaults \in Nat

Copies == Requests \X {1, 2}      \* the rows a request's two INSERT attempts may leave
Active == {"queued", "running"}
Final == {"succeeded", "failed", "cancelled"}
Status == {"absent"} \cup Active \cup Final
Working == {"claim", "fallback", "review", "finish"}

VARIABLES
    \* the database
    status,     \* status[c]: agent_runs.status, "absent" before the INSERT
    age,        \* age[c]: windows begun since updated_at while undecided, up to StaleAfter
    \* the service
    up,         \* the process runs
    window,     \* number of the current idempotency window
    pc,         \* pc[r]: where the handler and then the thread of r stand
    key,        \* key[r]: the window in r's idempotency key
    mine,       \* mine[r]: the copy whose id the service knows, 0 for db_run_id None
    outcome,    \* outcome[r]: _watchlist_db_status of the review, "none" before it
    \* history: two counts for the bounds, the rest read by properties only
    overrides,  \* number of overrides so far
    faults,     \* number of failed or unanswered attempts so far
    bought,     \* requests whose thread called the broker path
    prior,      \* prior[r]: those with r's key in bought when r looked for an earlier run and got an answer
    overruled,  \* copies that a person set to failed or cancelled
    dismissed,  \* copies that a person cancelled while they were queued
    broken,     \* requests whose claim raised twice
    cutoff      \* requests whose thread died, lost the answer to its claim or failed to write its outcome

database == <<status, age>>
service == <<up, window, pc, key, mine, outcome>>
history == <<overrides, faults, bought, prior, overruled, dismissed, broken, cutoff>>
vars == <<database, service, history>>

Mine(r) == <<r, mine[r]>>

Init ==
    /\ status = [c \in Copies |-> "absent"]
    /\ age = [c \in Copies |-> 0]
    /\ up = TRUE
    /\ window = 0
    /\ pc = [r \in Requests |-> "new"]
    /\ key = [r \in Requests |-> 0]
    /\ mine = [r \in Requests |-> 0]
    /\ outcome = [r \in Requests |-> "none"]
    /\ overrides = 0
    /\ bought = {}
    /\ faults = 0
    /\ prior = [r \in Requests |-> {}]
    /\ overruled = {}
    /\ dismissed = {}
    /\ broken = {}
    /\ cutoff = {}

\* An UPDATE of one row sets updated_at as well.
Write(c, s) ==
    /\ status' = [status EXCEPT ![c] = s]
    /\ age' = [age EXCEPT ![c] = 0]

Goto(r, step) == pc' = [pc EXCEPT ![r] = step]

\* n attempts at a database call go wrong.
Fault(n) == faults + n <= MaxFaults /\ faults' = faults + n

\* Defect: a run that is over does not block.
BlocksWhileActive(c, k) ==
    /\ c[1] \notin Outsized
    /\ status[c] \in Active
    /\ key[c[1]] = k

\* A row that the look-up takes for an earlier run with this key.
Blocks(c, k) ==
    /\ c[1] \notin Outsized
    /\ status[c] \in Active \cup {"succeeded"}
    /\ key[c[1]] = k

-----------------------------------------------------------------------------
(* The request. *)

\* _find_recent_watchlist_run_by_idempotency_key: an error reads as no rows.
LookUp(r) ==
    /\ up
    /\ pc[r] = "new"
    /\ window < MaxWindow
    /\ key' = [key EXCEPT ![r] = window]
    /\ \/ /\ Fault(1)
          /\ Goto(r, "create")
          /\ UNCHANGED prior
       \/ /\ prior' = [prior EXCEPT ![r] = {s \in bought : key[s] = window}]
          /\ Goto(r, IF \E c \in Copies : Blocks(c, window) THEN "deduped" ELSE "create")
          /\ UNCHANGED faults
    /\ UNCHANGED <<database, up, window, mine, outcome, overrides, bought, overruled, dismissed, broken, cutoff>>

\* Defect: the service assumes an id when no attempt answered.
InsertOutcomesAssumed ==
    {[rows |-> {1}, id |-> 1, wrong |-> 0], [rows |-> {}, id |-> 1, wrong |-> 2]}

\* What the two INSERT attempts of _create_watchlist_run can leave: the rows,
\* the id the service learns, and the attempts that went wrong.
InsertOutcomes ==
    {[rows |-> {1}, id |-> 1, wrong |-> 0], [rows |-> {1, 2}, id |-> 2, wrong |-> 1],
     [rows |-> {1, 2}, id |-> 0, wrong |-> 2], [rows |-> {1}, id |-> 0, wrong |-> 2],
     [rows |-> {}, id |-> 0, wrong |-> 2]}

\* _create_watchlist_run and _start_watchlist_review_worker.  The thread is
\* started whether or not the service has a run id.
Create(r) ==
    /\ up
    /\ pc[r] = "create"
    /\ \E o \in InsertOutcomes :
          /\ status' = [c \in Copies |-> IF c[1] = r /\ c[2] \in o.rows THEN "queued" ELSE status[c]]
          /\ mine' = [mine EXCEPT ![r] = o.id]
          /\ Fault(o.wrong)
    /\ Goto(r, "claim")
    /\ UNCHANGED <<age, up, window, key, outcome, overrides, bought, prior, overruled, dismissed, broken, cutoff>>

-----------------------------------------------------------------------------
(* The worker thread. *)

\* Defect: the claim does not look at the status.
ClaimAnyStatus(r) ==
    /\ up
    /\ pc[r] = "claim"
    /\ mine[r] # 0
    /\ Write(Mine(r), "running")
    /\ Goto(r, "review")
    /\ UNCHANGED <<up, window, key, mine, outcome, history>>

\* claim_run: the conditional UPDATE tells whether the row was queued.  When
\* the first attempt's answer is lost, the second finds the row running.
Claim(r) ==
    /\ up
    /\ pc[r] = "claim"
    /\ mine[r] # 0
    /\ \/ /\ status[Mine(r)] = "queued"
          /\ Write(Mine(r), "running")
          /\ \/ Goto(r, "review") /\ UNCHANGED <<faults, cutoff>>
             \/ Goto(r, "ended") /\ Fault(1) /\ cutoff' = cutoff \cup {r}
       \/ /\ status[Mine(r)] # "queued"
          /\ Goto(r, "ended")
          /\ UNCHANGED <<database, faults, cutoff>>
    /\ UNCHANGED <<up, window, key, mine, outcome, overrides, bought, prior, overruled, dismissed, broken>>

\* Both attempts of claim_run raise; one of them may have claimed the row.
ClaimRaises(r) ==
    /\ up
    /\ pc[r] = "claim"
    /\ mine[r] # 0
    /\ Fault(2)
    /\ \/ /\ status[Mine(r)] = "queued"
          /\ Write(Mine(r), "running")
       \/ UNCHANGED database
    /\ broken' = broken \cup {r}
    /\ Goto(r, "fallback")
    /\ UNCHANGED <<up, window, key, mine, outcome, overrides, bought, prior, overruled, dismissed, cutoff>>

\* mark_run_running, whatever the row says now; its failure is ignored.
Fallback(r) ==
    /\ up
    /\ pc[r] = "fallback"
    /\ \/ Write(Mine(r), "running") /\ UNCHANGED faults
       \/ Fault(2) /\ UNCHANGED database
    /\ Goto(r, "review")
    /\ UNCHANGED <<up, window, key, mine, outcome, overrides, bought, prior, overruled, dismissed, broken, cutoff>>

\* Without a run id there is nothing to claim and the review goes ahead.
ReviewUnrecorded(r) ==
    /\ up
    /\ pc[r] = "claim"
    /\ mine[r] = 0
    /\ Goto(r, "review")
    /\ UNCHANGED <<database, up, window, key, mine, outcome, history>>

\* The side-car answers with a status, and _maybe_execute_watchlist_auto_buy
\* acts on its signals whatever that status is (that nothing was worth buying,
\* or what the purchase raises, ends up in the result only); or the service
\* degrades the review, or catches an exception, without a signal.  A side-car
\* that still runs the review makes the database status "running".
Review(r) ==
    /\ up
    /\ pc[r] = "review"
    /\ \E s \in Final \cup {"running"} : outcome' = [outcome EXCEPT ![r] = s]
    /\ bought' = bought \cup {r} \/ UNCHANGED bought
    /\ Goto(r, "finish")
    /\ UNCHANGED <<database, up, window, key, mine, overrides, faults, prior, overruled, dismissed, broken, cutoff>>

\* Defect: the writer knows two final statuses only.
RecordedUnlessCancelled(c, s) ==
    IF s \in {"succeeded", "failed"} THEN Write(c, s) ELSE UNCHANGED database

\* The status that complete_run or fail_run writes; fail_run refuses one that
\* is not final, and the refusal is swallowed.
Recorded(c, s) == IF s \in Final THEN Write(c, s) ELSE UNCHANGED database

\* _finish_watchlist_run: the UPDATE does not look at the status of the row.
Finish(r) ==
    /\ up
    /\ pc[r] = "finish"
    /\ \/ mine[r] # 0 /\ Recorded(Mine(r), outcome[r]) /\ UNCHANGED <<faults, cutoff>>
       \/ mine[r] # 0 /\ Fault(2) /\ cutoff' = cutoff \cup {r} /\ UNCHANGED database
       \/ mine[r] = 0 /\ UNCHANGED <<database, faults, cutoff>>
    /\ Goto(r, "ended")
    /\ UNCHANGED <<up, window, key, mine, outcome, overrides, bought, prior, overruled, dismissed, broken>>

-----------------------------------------------------------------------------
(* The reviewer, the process and time. *)

\* override_agent_run: the override is inserted, then the run is updated; an
\* UPDATE that fails twice is answered with an error.
Override(c, s) ==
    /\ up
    /\ overrides < MaxOverrides
    /\ overrides' = overrides + 1
    /\ status[c] # "absent"
    /\ s \in Final
    /\ Write(c, s)
    /\ overruled' = IF s = "succeeded" THEN overruled ELSE overruled \cup {c}
    /\ dismissed' = IF s = "cancelled" /\ status[c] = "queued"
                    THEN dismissed \cup {c} ELSE dismissed
    /\ UNCHANGED <<service, faults, bought, prior, broken, cutoff>>

\* The process dies, and its daemon threads with it.
Crash ==
    /\ up
    /\ up' = FALSE
    /\ pc' = [r \in Requests |-> IF pc[r] \in Working \cup {"create"} THEN "ended" ELSE pc[r]]
    /\ cutoff' = cutoff \cup {r \in Requests : pc[r] \in Working}
    /\ UNCHANGED <<database, window, key, mine, outcome,
                   overrides, faults, bought, prior, overruled, dismissed, broken>>

\* Defect: the clean-up takes any old row.
StrandedWhateverStatus(c) == status[c] # "absent"

\* cancel_stale_runs.
Stranded(c) == status[c] \in Active /\ age[c] = StaleAfter

Sweep ==
    /\ status' = [c \in Copies |-> IF Stranded(c) THEN "cancelled" ELSE status[c]]
    /\ age' = [c \in Copies |-> IF Stranded(c) THEN 0 ELSE age[c]]

\* The start-up event handler runs before the first request is served.
Start ==
    /\ ~up
    /\ up' = TRUE
    /\ Sweep
    /\ UNCHANGED <<window, pc, key, mine, outcome, history>>

\* A start while the database does not answer cleans nothing up.
StartUnswept ==
    /\ ~up
    /\ up' = TRUE
    /\ UNCHANGED <<database, window, pc, key, mine, outcome, history>>

\* The next idempotency window begins; they are counted up to MaxWindow, in
\* which no request arrives any more.
Tick ==
    /\ window' = IF window < MaxWindow THEN window + 1 ELSE window
    /\ age' = [c \in Copies |-> IF status[c] \in Active /\ age[c] < StaleAfter
                                THEN age[c] + 1 ELSE age[c]]
    /\ UNCHANGED <<status, up, pc, key, mine, outcome, history>>

Step(r) ==
    \/ LookUp(r) \/ Create(r)
    \/ Claim(r) \/ ClaimRaises(r) \/ Fallback(r) \/ ReviewUnrecorded(r)
    \/ Review(r) \/ Finish(r)

Next ==
    \/ \E r \in Requests : Step(r)
    \/ \E c \in Copies : \E s \in Final : Override(c, s)
    \/ Crash \/ Start \/ StartUnswept \/ Tick

Spec == Init /\ [][Next]_vars

-----------------------------------------------------------------------------
(* Properties. *)

\* The variables keep their types; only requests that have left the look-up
\* have rows, and a known id is the id of a row that exists.
TypeOK ==
    /\ status \in [Copies -> Status]
    /\ age \in [Copies -> 0..StaleAfter]
    /\ up \in BOOLEAN
    /\ window \in 0..MaxWindow
    /\ pc \in [Requests -> {"new", "create", "deduped", "ended"} \cup Working]
    /\ key \in [Requests -> 0..MaxWindow]
    /\ mine \in [Requests -> {0, 1, 2}]
    /\ outcome \in [Requests -> {"none", "running"} \cup Final]
    /\ overrides \in 0..MaxOverrides
    /\ faults \in 0..MaxFaults
    /\ bought \subseteq Requests
    /\ prior \in [Requests -> SUBSET Requests]
    /\ overruled \subseteq Copies
    /\ dismissed \subseteq Copies
    /\ broken \subseteq Requests
    /\ cutoff \subseteq Requests
    /\ \A r \in Requests : pc[r] \in {"new", "create", "deduped"} => \A n \in {1, 2} : status[<<r, n>>] = "absent"
    /\ \A r \in Requests : mine[r] # 0 => status[Mine(r)] # "absent"

\* Whether the outcome of s, as the review or a person decided it, makes its
\* run one that the look-up passes over.
Refused(s) ==
    \/ outcome[s] \in {"failed", "cancelled"}
    \/ \E n \in {1, 2} : <<s, n>> \in overruled

\* A review that bought is repeated in the same window, and buys again after
\* the look-up was answered, only for a reason: the first run left no row or
\* one without its key, or it was failed or cancelled.  Neither a crash nor
\* the clean-up is such a reason, since a run counts as stranded only when
\* its window is over.
\* (main.py:1282-1305 and 1617: the purchase comes before the outcome.)
SecondPurchaseHasACause ==
    \A r, s \in Requests :
        r \in bought /\ s \in prior[r]
        => s \in Outsized \/ mine[s] = 0 \/ Refused(s)

\* A run that a person cancelled while it was queued buys nothing, however
\* the override and the claim interleave, unless both attempts at the claim
\* raise and mark_run_running takes the row back (main.py:1441-1463).
DismissedRunDoesNotBuy ==
    \A r \in bought : mine[r] # 0 /\ Mine(r) \in dismissed => r \in broken

\* A row whose thread has ended and that is final changes only by a person's
\* override: neither the clean-up nor a late write touches it
\* (AgentRunService.cancel_stale_runs, complete_run, fail_run).
Owned(c) == mine[c[1]] = c[2] /\ pc[c[1]] \in Working

DecidedRunIsLeftToPeople ==
    [][\A c \in Copies :
          status[c] \in Final /\ ~Owned(c) /\ status'[c] # status[c]
          => \E s \in Final : Override(c, s)]_vars

\* A row moves forward only, from queued over running to an end, whichever of its
\* thread, a person and the clean-up writes it; what is over is running again, or a
\* run queued again, only when mark_run_running repairs a claim that raised twice.
Rank(s) == CASE s = "absent" -> 0 [] s = "queued" -> 1 [] s = "running" -> 2 [] OTHER -> 3

RunsMoveForward ==
    [][\A c \in Copies : Rank(status'[c]) < Rank(status[c])
          => c[1] \in broken /\ status'[c] = "running"]_vars

\* A run whose thread has ended is undecided only for one of four reasons: the
\* process died, the answer to the claim was lost (the second attempt then
\* finds the row running and the review is abandoned), both attempts to write
\* the outcome went wrong, or the side-car said that it is still running.
\* Until a clean-up such a row answers the requests of its window as if its
\* review were at work.
StuckRunHasACause ==
    \A r \in Requests :
        mine[r] # 0 /\ pc[r] = "ended" /\ status[Mine(r)] \in Active
        => r \in cutoff \/ outcome[r] = "running"

\* The inductive strengthening of the four.  A thread knows a run before it
\* works on it, and takes a row that is queued; ...
ThreadIsOrderly(r) ==
    /\ pc[r] \in {"new", "create", "deduped"} => mine[r] = 0
    /\ pc[r] \in {"new", "create", "deduped", "claim", "fallback"} => r \notin bought
    /\ pc[r] \in {"new", "create", "deduped", "claim", "fallback", "review"} => outcome[r] = "none"
    /\ pc[r] = "finish" => outcome[r] # "none"
    /\ pc[r] = "fallback" => mine[r] # 0 /\ r \in broken
    /\ pc[r] = "claim" /\ mine[r] # 0 => status[Mine(r)] # "running"

\* ... a row that was dismissed is never queued again, nor is one at work; ...
DismissalHolds(r) ==
    /\ \A n \in {1, 2} : <<r, n>> \in dismissed => status[<<r, n>>] \notin {"absent", "queued"}
    /\ mine[r] # 0 /\ (r \in bought \/ pc[r] \in {"review", "finish"})
       => r \in broken \/ (status[Mine(r)] # "queued" /\ Mine(r) \notin dismissed)

\* ... in the window of its key a row is not yet old enough for the clean-up, so
\* it was failed or cancelled by its review or a person; ...
RefusalIsKnown(r, n) ==
    /\ status[<<r, n>>] = "absent" => age[<<r, n>>] = 0
    /\ window < MaxWindow => key[r] + age[<<r, n>>] <= window
    /\ status[<<r, n>>] \in {"failed", "cancelled"} /\ key[r] = window /\ window < MaxWindow
       => outcome[r] \in {"failed", "cancelled"} \/ <<r, n>> \in overruled

\* ... and what a request found when it looked stays the reason.
PriorHasACause(r) ==
    /\ prior[r] \subseteq bought
    /\ pc[r] # "deduped" => \A s \in prior[r] : s \in Outsized \/ mine[s] = 0 \/ Refused(s)

RunIInv ==
    /\ TypeOK
    /\ StuckRunHasACause
    /\ \A r \in Requests :
          /\ ThreadIsOrderly(r)
          /\ DismissalHolds(r)
          /\ key[r] <= window /\ \A n \in {1, 2} : RefusalIsKnown(r, n)
          /\ PriorHasACause(r)

=============================================================================
