------------------------------- MODULE TrendScan -------------------------------
(***************************************************************************)
(* The daily trend scan of all symbols (DailySymbolTrendScanScheduler and  *)
(* DailySymbolTrendScanService.run_batch): every evening the polling       *)
(* thread works through the universe in batches.  The cursor, the date it  *)
(* belongs to and the date that is complete are kept as the settings of    *)
(* the task's row in system_task_policies, which the task centre writes    *)
(* too; a row in scheduled_jobs says whether a run is under way.           *)
(* SystemTaskService reads through fetch_one, which answers a database     *)
(* error with no row, and then takes the built-in defaults.                *)
(***************************************************************************)
EXTENDS Naturals, Sequences

CONSTANTS
    Symbol,       \* what can be listed in the universe
    Listed,       \* the universe at first: a sequence of symbols
    BatchSize,    \* batchSize of the task
    LastDay,      \* bound: the last day of the model
    MaxEvents     \* bound: changes of the universe, runs that a person starts, writes of
                  \* the task centre, failed reads and runs that are skipped or cut short

ASSUME ListedAssumption == Listed \in Seq(Symbol)
ASSUME BatchAssumption == BatchSize \in Nat \ {0}
ASSUME BoundsAssumption ==
    LastDay \in Nat \ {0} /\ MaxEvents \in Nat

Actor == {"loop", "manual"}   \* the polling thread, and POST /scheduler/tasks/{key}/run

VARIABLES
    \* the clock: a run of day d scans for the day before, which stands for d here
    day,          \* 1 .. LastDay
    \* the database
    universe,     \* the active symbols in the order of _collect_universe_symbols
    saved,        \* <<symbol, day>>: the results that are stored
    policy,       \* the policy row: enabled and settings_json
    status,       \* scheduled_jobs.status
    \* the runs
    pc,           \* pc[a]: where the run of a stands
    target,       \* target[a]: target_date
    settings,     \* settings[a]: the settings read when the run began
    page,         \* page[a]: the symbols of the batch
    enabledRead,  \* enabledRead[a]: the flag that update_policy has read and will write
    \* the task centre
    form,         \* the policy that update_policy has read, with the new flag, or <<>>
    \* history: a count for the bound, and what the properties are told
    events,
    since,        \* since[s]: the day s was last listed, 0 if from the start
    removedOn,    \* the last day on which a symbol was delisted, 0 if none was
    blind,        \* days for which a page of the universe could not be read
    interrupted   \* a run ended between its running mark and its last write

run == <<pc, target, settings, page, enabledRead>>
told == <<since, removedOn, blind, interrupted>>
vars == <<day, universe, saved, policy, status, run, form, events, told>>

\* settings_json without a value for anything: what the task starts with, and
\* what a failed read is taken for.
Blank == [day |-> 0, cursor |-> 0, completed |-> 0]

Init ==
    /\ day = 1
    /\ universe = Listed
    /\ saved = {}
    /\ policy = [enabled |-> TRUE, settings |-> Blank]
    /\ status = "idle"
    /\ pc = [a \in Actor |-> "idle"]
    /\ target = [a \in Actor |-> 0]
    /\ settings = [a \in Actor |-> Blank]
    /\ page = [a \in Actor |-> <<>>]
    /\ enabledRead = [a \in Actor |-> TRUE]
    /\ form = <<>>
    /\ events = 0
    /\ since = [s \in Symbol |-> 0]
    /\ removedOn = 0
    /\ blind = {}
    /\ interrupted = FALSE

\* What nobody schedules takes one of the events.
Event == events < MaxEvents /\ events' = events + 1

\* The local variables of the runs of as go with them.
Leave(as) ==
    /\ pc' = [a \in Actor |-> IF a \in as THEN "idle" ELSE pc[a]]
    /\ target' = [a \in Actor |-> IF a \in as THEN 0 ELSE target[a]]
    /\ settings' = [a \in Actor |-> IF a \in as THEN Blank ELSE settings[a]]
    /\ page' = [a \in Actor |-> IF a \in as THEN <<>> ELSE page[a]]
    /\ enabledRead' = [a \in Actor |-> IF a \in as THEN TRUE ELSE enabledRead[a]]

-----------------------------------------------------------------------------
(* A run. *)

\* _loop, is_enabled and _should_run.  That the hour has come and the interval
\* since last_run_at has passed may be true at any time of the day, or not
\* before the next.
Poll ==
    /\ pc["loop"] = "idle"
    /\ policy.enabled
    /\ policy.settings.completed # day
    /\ status # "running"
    /\ pc' = [pc EXCEPT !["loop"] = "begin"]
    /\ UNCHANGED <<day, universe, saved, policy, status, target, settings, page, enabledRead, form,
                   events, told>>

\* One of the three reads fails, and shows the task as switched on, as not
\* completed, or as not running.
PollBlind ==
    /\ pc["loop"] = "idle"
    /\ Event
    /\ \/ policy.enabled /\ policy.settings.completed # day
       \/ policy.enabled /\ status # "running"
       \/ policy.settings.completed # day /\ status # "running"
    /\ pc' = [pc EXCEPT !["loop"] = "begin"]
    /\ UNCHANGED <<day, universe, saved, policy, status, target, settings, page, enabledRead, form, told>>

\* run_once, on request: at any hour, whatever the policy and the mark say.
RunNow ==
    /\ pc["manual"] = "idle"
    /\ Event
    /\ pc' = [pc EXCEPT !["manual"] = "begin"]
    /\ UNCHANGED <<day, universe, saved, policy, status, target, settings, page, enabledRead, form, told>>

\* The head of _run_job: the policy is read, and a cursor of another date is void.
Begin(a) ==
    /\ pc[a] = "begin"
    /\ target' = [target EXCEPT ![a] = day]
    /\ \/ settings' = [settings EXCEPT ![a] = policy.settings] /\ UNCHANGED events
       \/ settings' = [settings EXCEPT ![a] = Blank] /\ Event
    /\ pc' = [pc EXCEPT ![a] = "mark"]
    /\ UNCHANGED <<day, universe, saved, policy, status, page, enabledRead, form, told>>

\* Defect: the run that is skipped does not take its mark back.
MarkKeptWhenSkipped(a) ==
    /\ pc[a] = "mark"
    /\ status' = "running"
    /\ \/ /\ pc' = [pc EXCEPT ![a] = "read"]
          /\ UNCHANGED <<target, settings, page, enabledRead, events>>
       \/ Event /\ Leave({a})
    /\ UNCHANGED <<day, universe, saved, policy, form, told>>

\* _update_job('running'), then the execution user is looked up: without one
\* the run is skipped.
Mark(a) ==
    /\ pc[a] = "mark"
    /\ \/ /\ status' = "running"
          /\ pc' = [pc EXCEPT ![a] = "read"]
          /\ UNCHANGED <<target, settings, page, enabledRead, events>>
       \/ /\ Event
          /\ status' = "skipped"
          /\ Leave({a})
    /\ UNCHANGED <<day, universe, saved, policy, form, told>>

\* Defect: a cursor of an earlier day is continued.
CursorOfAnyDay(a) == settings[a].cursor

Cursor(a) == IF settings[a].day = target[a] THEN settings[a].cursor ELSE 0

\* LIMIT and OFFSET of the ordered universe.
Page(list, offset) ==
    SubSeq(list, offset + 1, IF offset + BatchSize < Len(list) THEN offset + BatchSize ELSE Len(list))

\* run_batch: an error of the database is an empty page.
ReadPage(a) ==
    /\ pc[a] = "read"
    /\ \/ /\ page' = [page EXCEPT ![a] = Page(universe, Cursor(a))]
          /\ UNCHANGED <<events, blind>>
       \/ /\ Event
          /\ page' = [page EXCEPT ![a] = <<>>]
          /\ blind' = blind \cup {target[a]}
    /\ pc' = [pc EXCEPT ![a] = "save"]
    /\ UNCHANGED <<day, universe, saved, policy, status, target, settings, enabledRead,
                   form, since, removedOn, interrupted>>

\* The analyses are saved one after the other.
Save(a) ==
    /\ pc[a] = "save"
    /\ saved' = saved \cup {<<page[a][i], target[a]>> : i \in DOMAIN page[a]}
    /\ pc' = [pc EXCEPT ![a] = "merge"]
    /\ UNCHANGED <<day, universe, policy, status, target, settings, page, enabledRead, form,
                   events, told>>

\* A page that is not full is the last one.
Completed(a) == Len(page[a]) < BatchSize

\* Defect: the day that is complete is the day of the run, not the day before.
NextSettingsOfToday(a) ==
    [day |-> target[a],
     cursor |-> IF Completed(a) THEN 0 ELSE Cursor(a) + Len(page[a]),
     completed |-> IF Completed(a) THEN target[a] + 1 ELSE settings[a].completed]

\* Defect: the settings that were read win over the new cursor.
NextSettingsStandStill(a) ==
    [day |-> target[a],
     cursor |-> Cursor(a),
     completed |-> IF Completed(a) THEN target[a] ELSE settings[a].completed]

NextSettings(a) ==
    [day |-> target[a],
     cursor |-> IF Completed(a) THEN 0 ELSE Cursor(a) + Len(page[a]),
     completed |-> IF Completed(a) THEN target[a] ELSE settings[a].completed]

\* update_policy reads the row once more ...
Merge(a) ==
    /\ pc[a] = "merge"
    /\ \/ enabledRead' = [enabledRead EXCEPT ![a] = policy.enabled] /\ UNCHANGED events
       \/ enabledRead' = [enabledRead EXCEPT ![a] = TRUE] /\ Event
    /\ pc' = [pc EXCEPT ![a] = "write"]
    /\ UNCHANGED <<day, universe, saved, policy, status, target, settings, page,
                   form, told>>

\* ... and writes all of it, the settings as the run has them.
WriteCursor(a) ==
    /\ pc[a] = "write"
    /\ policy' = [enabled |-> enabledRead[a], settings |-> NextSettings(a)]
    /\ pc' = [pc EXCEPT ![a] = "done"]
    /\ UNCHANGED <<day, universe, saved, status, target, settings, page, enabledRead, form,
                   events, told>>

\* _update_job('success').
Done(a) ==
    /\ pc[a] = "done"
    /\ status' = "success"
    /\ Leave({a})
    /\ UNCHANGED <<day, universe, saved, policy, form, events, told>>

\* The points of a run at which its mark is set.
Marked == {"read", "save", "merge", "write", "done"}

\* What a run that saves its results stops at may have stored: the first n.
Stored(a, n) == {<<page[a][i], target[a]>> : i \in 1..n}

\* A statement raises and _run_job is left: nothing takes the mark back.
Raises(a) ==
    /\ pc[a] # "idle"
    /\ Event
    /\ \E n \in (IF pc[a] = "save" THEN 0..Len(page[a]) ELSE {0}) : saved' = saved \cup Stored(a, n)
    /\ interrupted' = (interrupted \/ pc[a] \in Marked)
    /\ Leave({a})
    /\ UNCHANGED <<day, universe, policy, status, form, since, removedOn, blind>>

\* The process dies and is started again; the thread polls as before.
Crash ==
    /\ Event
    /\ \E a \in Actor : pc[a] # "idle"
    /\ Leave(Actor)
    /\ interrupted' = (interrupted \/ \E a \in Actor : pc[a] \in Marked)
    /\ UNCHANGED <<day, universe, saved, policy, status, form, since, removedOn, blind>>

-----------------------------------------------------------------------------
(* The task centre, the universe and the clock. *)

\* update_policy with the other enabled flag: the read (or its failure), ...
OpenForm ==
    /\ form = <<>>
    /\ Event
    /\ \E read \in {policy.settings, Blank} :
          form' = <<[enabled |-> ~policy.enabled, settings |-> read]>>
    /\ UNCHANGED <<day, universe, saved, policy, status, run, told>>

\* ... and the write, which takes the settings along.
SubmitForm ==
    /\ form # <<>>
    /\ policy' = form[1]
    /\ form' = <<>>
    /\ UNCHANGED <<day, universe, saved, status, run, events, told>>

InsertAt(list, p, s) ==
    [i \in 1..(Len(list) + 1) |-> IF i < p THEN list[i] ELSE IF i = p THEN s ELSE list[i - 1]]

RemoveAt(list, p) ==
    [i \in 1..(Len(list) - 1) |-> IF i < p THEN list[i] ELSE list[i + 1]]

Elements(list) == {list[i] : i \in DOMAIN list}

\* The universe sync lists a symbol; its market and name decide the place.
List(s) ==
    /\ Event
    /\ s \notin Elements(universe)
    /\ \E p \in 1..(Len(universe) + 1) : universe' = InsertAt(universe, p, s)
    /\ since' = [since EXCEPT ![s] = day]
    /\ UNCHANGED <<day, saved, policy, status, run, form, removedOn, blind, interrupted>>

Delist ==
    /\ Event
    /\ \E p \in DOMAIN universe : universe' = RemoveAt(universe, p)
    /\ removedOn' = day
    /\ UNCHANGED <<day, saved, policy, status, run, form, since, blind, interrupted>>

Midnight ==
    /\ day < LastDay
    /\ day' = day + 1
    /\ UNCHANGED <<universe, saved, policy, status, run, form, events, told>>

Work(a) ==
    \/ Begin(a) \/ Mark(a) \/ ReadPage(a) \/ Save(a)
    \/ Merge(a) \/ WriteCursor(a) \/ Done(a)

Next ==
    \/ Poll \/ PollBlind \/ RunNow
    \/ \E a \in Actor : Work(a) \/ Raises(a)
    \/ Crash
    \/ OpenForm \/ SubmitForm
    \/ \E s \in Symbol : List(s)
    \/ Delist
    \/ Midnight

Spec == Init /\ [][Next]_vars

\* The clock runs and so do the polling thread and the requests under way;
\* nobody has to press a button.
FairSpec ==
    /\ Spec
    /\ WF_vars(Poll)
    /\ \A a \in Actor : WF_vars(Work(a))
    /\ WF_vars(SubmitForm)
    /\ WF_vars(Midnight)

-----------------------------------------------------------------------------
(* Properties. *)

Settings == [day : 0..LastDay, cursor : Nat, completed : 0..LastDay]

\* The variables keep their types: the settings of the policy row, of the runs
\* and of the task centre's form stay settings of a day of the model.
TypeOK ==
    /\ day \in 1..LastDay
    /\ universe \in Seq(Symbol)
    /\ saved \subseteq Symbol \X Nat
    /\ policy \in [enabled : BOOLEAN, settings : Settings]
    /\ status \in {"idle", "running", "skipped", "success"}
    /\ pc \in [Actor -> {"idle", "begin", "mark", "read", "save", "merge", "write", "done"}]
    /\ target \in [Actor -> 0..LastDay]
    /\ settings \in [Actor -> Settings]
    /\ page \in [Actor -> Seq(Symbol)]
    /\ enabledRead \in [Actor -> BOOLEAN]
    /\ form # <<>> => form[1] \in [enabled : BOOLEAN, settings : Settings]
    /\ since \in [Symbol -> Nat]
    /\ removedOn \in Nat
    /\ blind \subseteq Nat
    /\ interrupted \in BOOLEAN

\* A day that the scheduler calls complete has been scanned: every symbol that
\* was listed before that day, and still is, has its result of that day,
\* whatever is added to the universe during the scan, however often a run is
\* repeated, started by hand beside the loop or cut short, and whatever
\* settings the task centre writes back; unless a symbol was delisted on that
\* day or later (the OFFSET then skips one) or a page of the universe could not
\* be read (the empty page then counts as the last).
CompletedDayIsScanned ==
    LET d == policy.settings.completed
    IN  d > removedOn /\ d \notin blind
        => \A i \in DOMAIN universe : since[universe[i]] < d => <<universe[i], d>> \in saved

\* The cursor in the table skips nothing: whoever continues from it, in this
\* process or the next, finds everything before it scanned on the cursor's day,
\* whatever was listed since, unless a symbol was delisted on that day or later.
CursorIsHonest ==
    LET st == policy.settings
    IN  st.day > removedOn
        => \A i \in DOMAIN universe :
              i <= st.cursor /\ since[universe[i]] < st.day => <<universe[i], st.day>> \in saved

\* The inductive strengthening of CompletedDayIsScanned: whatever settings lie
\* in the table, in a run or in the form of the task centre, they claim no more
\* than was scanned; E is what a run has in hand and is about to save.
Has(i, d, E) == since[universe[i]] < d => <<universe[i], d>> \in saved \/ universe[i] \in E

ScannedUpTo(d, c, E) == d > removedOn => \A i \in DOMAIN universe : i <= c => Has(i, d, E)

ScannedAll(d, E) == d > removedOn /\ d \notin blind => \A i \in DOMAIN universe : Has(i, d, E)

SettingsAreTrue(st) ==
    /\ st.day <= day /\ st.completed <= day
    /\ ScannedUpTo(st.day, st.cursor, {})
    /\ ScannedAll(st.completed, {})

InHand(a) == IF pc[a] = "save" THEN Elements(page[a]) ELSE {}

RunIsTrue(a) ==
    /\ SettingsAreTrue(settings[a])
    /\ target[a] <= day
    /\ pc[a] \in {"save", "merge", "write"} =>
          /\ ScannedUpTo(target[a], Cursor(a) + Len(page[a]), InHand(a))
          /\ Completed(a) => ScannedAll(target[a], InHand(a))

ScanIInv ==
    /\ TypeOK
    /\ SettingsAreTrue(policy.settings)
    /\ form # <<>> => SettingsAreTrue(form[1].settings)
    /\ \A a \in Actor : RunIsTrue(a)

\* The running mark, which keeps the polling thread from starting a run, is
\* left behind only by a run that was cut short: as long as none was, somebody
\* is at work behind it and will take it back.
MarkHasARun ==
    status = "running" /\ ~interrupted => \E a \in Actor : pc[a] \in Marked

\* As long as no run is cut short after its mark and the task stays switched
\* on in the end, the scan of the last day completes for good: stale settings,
\* runs by hand, failed reads and skipped runs only put it off.
ScanCompletes ==
    ([]~interrupted /\ <>[](policy.enabled)) => <>[](policy.settings.completed = LastDay)

=============================================================================
