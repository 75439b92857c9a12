---------------------------- MODULE TrendScanProofs ----------------------------
(***************************************************************************)
(* Theorems about TrendScan, for any universe, batch size and number of    *)
(* days: the types, the running mark, and that a completed day has been    *)
(* scanned.                                                                *)
(***************************************************************************)
EXTENDS TrendScan, TLAPS

PolicyRow == [enabled : BOOLEAN, settings : Settings]

-----------------------------------------------------------------------------
(* The operators. *)

\* What Leave leaves of the local variables keeps its type, and only runs of as
\* are touched.
LEMMA LeaveKeepsTypes ==
    ASSUME TypeOK, NEW as \in SUBSET Actor, Leave(as)
    PROVE  /\ pc' \in [Actor -> {"idle", "begin", "mark", "read", "save", "merge", "write", "done"}]
           /\ target' \in [Actor -> 0..LastDay]
           /\ settings' \in [Actor -> Settings]
           /\ page' \in [Actor -> Seq(Symbol)]
           /\ enabledRead' \in [Actor -> BOOLEAN]
<1>1. Blank \in Settings
    BY BoundsAssumption DEF Blank, Settings
<1>2. <<>> \in Seq(Symbol)
    OBVIOUS
<1>3. 0 \in 0..LastDay
    BY BoundsAssumption
<1> QED BY <1>1, <1>2, <1>3 DEF Leave, TypeOK

\* A page is a part of the universe.
LEMMA PageType ==
    ASSUME NEW list \in Seq(Symbol), NEW offset \in Nat
    PROVE  /\ Page(list, offset) \in Seq(Symbol)
           /\ Len(Page(list, offset)) \in Nat
           /\ offset <= Len(list) =>
                Len(Page(list, offset)) = IF offset + BatchSize < Len(list) THEN BatchSize ELSE Len(list) - offset
           /\ offset > Len(list) => Len(Page(list, offset)) = 0
           /\ \A i \in 1..Len(Page(list, offset)) : Page(list, offset)[i] = list[offset + i]
<1> DEFINE last == IF offset + BatchSize < Len(list) THEN offset + BatchSize ELSE Len(list)
<1>1. last \in Nat /\ last <= Len(list) /\ last <= offset + BatchSize
    BY BatchAssumption
<1>2. Page(list, offset) = SubSeq(list, offset + 1, last)
    BY DEF Page
<1>3. \A i \in (offset + 1)..last : list[i] \in Symbol
    BY <1>1
<1>4. Page(list, offset) \in Seq(Symbol)
    BY <1>1, <1>2, <1>3
<1>5. Len(Page(list, offset)) = IF offset + 1 <= last THEN last - offset ELSE 0
    BY <1>1, <1>2
<1> QED BY <1>1, <1>2, <1>4, <1>5, BatchAssumption

\* The cursor of a run, and the settings it writes.
LEMMA NextSettingsType ==
    ASSUME TypeOK, NEW a \in Actor
    PROVE  Cursor(a) \in Nat /\ Len(page[a]) \in Nat /\ NextSettings(a) \in Settings
<1>1. Cursor(a) \in Nat /\ Len(page[a]) \in Nat
    BY DEF TypeOK, Cursor, Settings
<1> QED BY <1>1, BoundsAssumption DEF TypeOK, NextSettings, Settings

\* Listing and delisting leave a sequence of symbols.
LEMMA UniverseType ==
    ASSUME NEW list \in Seq(Symbol)
    PROVE  /\ \A s \in Symbol, p \in 1..(Len(list) + 1) :
                /\ InsertAt(list, p, s) \in Seq(Symbol)
                /\ Len(InsertAt(list, p, s)) = Len(list) + 1
           /\ \A p \in DOMAIN list : RemoveAt(list, p) \in Seq(Symbol)
<1>1. ASSUME NEW s \in Symbol, NEW p \in 1..(Len(list) + 1)
      PROVE  /\ InsertAt(list, p, s) \in Seq(Symbol)
             /\ Len(InsertAt(list, p, s)) = Len(list) + 1
  <2>1. \A i \in 1..(Len(list) + 1) :
           (IF i < p THEN list[i] ELSE IF i = p THEN s ELSE list[i - 1]) \in Symbol
    OBVIOUS
  <2> QED BY <2>1 DEF InsertAt
<1>2. ASSUME NEW p \in DOMAIN list PROVE RemoveAt(list, p) \in Seq(Symbol)
  <2>1. Len(list) - 1 \in Nat
    BY <1>2
  <2>2. \A i \in 1..(Len(list) - 1) : (IF i < p THEN list[i] ELSE list[i + 1]) \in Symbol
    BY <1>2
  <2> QED BY <2>1, <2>2 DEF RemoveAt
<1> QED BY <1>1, <1>2

-----------------------------------------------------------------------------
(* Types. *)

\* A step of a run keeps the types.
LEMMA WorkKeepsTypes ==
    ASSUME TypeOK, NEW a \in Actor, Work(a) \/ Raises(a)
    PROVE  TypeOK'
<1> USE DEF TypeOK
<1>1. CASE Begin(a)
  <2>1. Blank \in Settings
    BY BoundsAssumption DEF Blank, Settings
  <2>2. settings' \in [Actor -> Settings]
    BY <1>1, <2>1 DEF Begin
  <2>3. target' \in [Actor -> 0..LastDay]
    BY <1>1 DEF Begin
  <2>4. pc' \in [Actor -> {"idle", "begin", "mark", "read", "save", "merge", "write", "done"}]
    BY <1>1 DEF Begin
  <2> QED BY <1>1, <2>2, <2>3, <2>4 DEF Begin, told
<1>2. CASE Mark(a)
  <2>0. UNCHANGED <<day, universe, saved, policy, form, since, removedOn, blind, interrupted>>
    BY <1>2 DEF Mark, told
  <2>1. CASE /\ pc' = [pc EXCEPT ![a] = "read"] /\ UNCHANGED <<target, settings, page, enabledRead>>
             /\ status' = "running"
    BY <2>0, <2>1
  <2>2. CASE Leave({a}) /\ status' = "skipped"
    BY <2>0, <2>2, LeaveKeepsTypes
  <2> QED BY <1>2, <2>1, <2>2 DEF Mark
<1>3. CASE ReadPage(a)
  <2>0. Cursor(a) \in Nat
    BY NextSettingsType
  <2>1. Page(universe, Cursor(a)) \in Seq(Symbol) /\ <<>> \in Seq(Symbol)
    BY <2>0, PageType
  <2>2. page' \in [Actor -> Seq(Symbol)]
    <3>1. CASE page' = [page EXCEPT ![a] = Page(universe, Cursor(a))]
      BY <2>1, <3>1
    <3>2. CASE page' = [page EXCEPT ![a] = <<>>]
      BY <2>1, <3>2
    <3> QED BY <1>3, <3>1, <3>2 DEF ReadPage
  <2>3. blind' \subseteq Nat
    <3>1. target[a] \in Nat
      BY BoundsAssumption
    <3>2. blind' = blind \/ blind' = blind \cup {target[a]}
      BY <1>3 DEF ReadPage
    <3> QED BY <3>1, <3>2
  <2> QED BY <1>3, <2>2, <2>3 DEF ReadPage
<1>4. CASE Save(a)
  <2>1. saved' \subseteq Symbol \X Nat
    BY <1>4 DEF Save
  <2> QED BY <1>4, <2>1 DEF Save, told
<1>5. CASE Merge(a)
  BY <1>5 DEF Merge, told
<1>6. CASE WriteCursor(a)
  BY <1>6, NextSettingsType DEF WriteCursor, told
<1>7. CASE Done(a)
  BY <1>7, LeaveKeepsTypes DEF Done, told
<1>8. CASE Raises(a)
  <2>1. saved' \subseteq Symbol \X Nat
    <3>0. /\ target[a] \in Nat /\ Len(page[a]) \in Nat
          /\ \A i \in 1..Len(page[a]) : page[a][i] \in Symbol
      BY BoundsAssumption
    <3>1. \A n \in Nat : n <= Len(page[a]) => Stored(a, n) \subseteq Symbol \X Nat
      BY <3>0 DEF Stored
    <3>2. PICK n \in (IF pc[a] = "save" THEN 0..Len(page[a]) ELSE {0}) : saved' = saved \cup Stored(a, n)
      BY <1>8 DEF Raises
    <3>3. n \in Nat /\ n <= Len(page[a])
      BY <3>0, <3>2
    <3> QED BY <3>1, <3>2, <3>3
  <2> QED BY <1>8, <2>1, LeaveKeepsTypes DEF Raises
<1> QED BY <1>1, <1>2, <1>3, <1>4, <1>5, <1>6, <1>7, <1>8 DEF Work

\* The variables keep their types.
THEOREM TypeCorrect == Spec => []TypeOK
<1>1. Init => TypeOK
  <2> SUFFICES ASSUME Init PROVE TypeOK
    OBVIOUS
  <2>1. Blank \in Settings
    BY BoundsAssumption DEF Blank, Settings
  <2>2. /\ day \in 1..LastDay /\ universe \in Seq(Symbol) /\ form = <<>>
        /\ target \in [Actor -> 0..LastDay] /\ page \in [Actor -> Seq(Symbol)]
    BY ListedAssumption, BoundsAssumption DEF Init
  <2> QED BY <2>1, <2>2 DEF Init, TypeOK
<1>2. TypeOK /\ [Next]_vars => TypeOK'
  <2> SUFFICES ASSUME TypeOK, [Next]_vars PROVE TypeOK'
    OBVIOUS
  <2>1. CASE Poll \/ PollBlind \/ RunNow
    BY <2>1 DEF Poll, PollBlind, RunNow, told, TypeOK, Actor
  <2>2. ASSUME NEW a \in Actor, Work(a) \/ Raises(a) PROVE TypeOK'
    BY <2>2, WorkKeepsTypes
  <2>3. CASE Crash
    BY <2>3, LeaveKeepsTypes DEF Crash, TypeOK
  <2>4. CASE OpenForm
    <3>1. PICK read \in {policy.settings, Blank} :
             form' = <<[enabled |-> ~policy.enabled, settings |-> read]>>
      BY <2>4 DEF OpenForm
    <3>2. read \in Settings
      BY <3>1, BoundsAssumption DEF TypeOK, Blank, Settings
    <3>3. [enabled |-> ~policy.enabled, settings |-> read] \in [enabled : BOOLEAN, settings : Settings]
      BY <3>2
    <3> QED BY <2>4, <3>1, <3>3 DEF OpenForm, TypeOK, run, told
  <2>5. CASE SubmitForm
    BY <2>5 DEF SubmitForm, TypeOK, run, told
  <2>6. ASSUME NEW s \in Symbol, List(s) PROVE TypeOK'
    <3>1. universe' \in Seq(Symbol)
      BY <2>6, UniverseType DEF List, TypeOK
    <3>2. since' \in [Symbol -> Nat]
      BY <2>6 DEF List, TypeOK
    <3> QED BY <2>6, <3>1, <3>2 DEF List, TypeOK, run
  <2>7. CASE Delist
    <3>1. universe' \in Seq(Symbol)
      BY <2>7, UniverseType DEF Delist, TypeOK
    <3> QED BY <2>7, <3>1 DEF Delist, TypeOK, run
  <2>8. CASE Midnight
    BY <2>8, BoundsAssumption DEF Midnight, TypeOK, run, told
  <2>9. CASE UNCHANGED vars
    BY <2>9 DEF vars, TypeOK, run, told
  <2> QED BY <2>1, <2>2, <2>3, <2>4, <2>5, <2>6, <2>7, <2>8, <2>9 DEF Next
<1> QED BY <1>1, <1>2, PTL DEF Spec

-----------------------------------------------------------------------------
(* The running mark. *)

\* The running mark is left behind only by a run that was cut short.
THEOREM MarkIsTakenBack == Spec => []MarkHasARun
<1>1. Init => MarkHasARun
  BY DEF Init, MarkHasARun
<1>2. TypeOK /\ MarkHasARun /\ [Next]_vars => MarkHasARun'
  <2> SUFFICES ASSUME TypeOK, MarkHasARun, [Next]_vars PROVE MarkHasARun'
    OBVIOUS
  <2> USE DEF MarkHasARun, TypeOK
  <2>1. CASE Poll \/ PollBlind \/ RunNow
    <3>1. UNCHANGED <<status, interrupted>>
      BY <2>1 DEF Poll, PollBlind, RunNow, told
    <3>2. \A a \in Actor : pc[a] \in Marked => pc'[a] = pc[a]
      BY <2>1 DEF Poll, PollBlind, RunNow, Marked
    <3> QED BY <3>1, <3>2
  <2>2. ASSUME NEW a \in Actor, Work(a) PROVE MarkHasARun'
    <3>1. CASE Begin(a)
      <4>1. UNCHANGED <<status, interrupted>> /\ \A b \in Actor : pc[b] \in Marked => pc'[b] = pc[b]
        BY <3>1 DEF Begin, told, Marked
      <4> QED BY <4>1
    <3>2. CASE Mark(a)
      BY <3>2 DEF Mark, Marked
    <3>3. CASE ReadPage(a) \/ Save(a) \/ Merge(a) \/ WriteCursor(a)
      <4>1. pc'[a] \in Marked
        BY <3>3 DEF ReadPage, Save, Merge, WriteCursor, Marked
      <4> QED BY <4>1
    <3>4. CASE Done(a)
      BY <3>4 DEF Done
    <3> QED BY <2>2, <3>1, <3>2, <3>3, <3>4 DEF Work
  <2>3. ASSUME NEW a \in Actor, Raises(a) PROVE MarkHasARun'
    <3>1. \A b \in Actor : b # a => pc'[b] = pc[b]
      BY <2>3 DEF Raises, Leave
    <3>2. status' = status /\ interrupted' = (interrupted \/ pc[a] \in Marked)
      BY <2>3 DEF Raises
    <3> QED BY <3>1, <3>2
  <2>4. CASE Crash
    BY <2>4 DEF Crash
  <2>5. CASE OpenForm \/ SubmitForm \/ (\E s \in Symbol : List(s)) \/ Delist \/ Midnight \/ UNCHANGED vars
    <3>1. UNCHANGED <<status, interrupted, pc>>
      BY <2>5 DEF OpenForm, SubmitForm, List, Delist, Midnight, vars, run, told
    <3> QED BY <3>1
  <2> QED BY <2>1, <2>2, <2>3, <2>4, <2>5 DEF Next
<1> QED BY <1>1, <1>2, TypeCorrect, PTL DEF Spec

-----------------------------------------------------------------------------
(* Completed days. *)

\* What the claims say after a step, of values that the step does not change.
HasAfter(i, d, E) == since'[universe'[i]] < d => <<universe'[i], d>> \in saved' \/ universe'[i] \in E

UpToAfter(d, c, E) == d > removedOn' => \A i \in DOMAIN universe' : i <= c => HasAfter(i, d, E)

AllAfter(d, E) == d > removedOn' /\ d \notin blind' => \A i \in DOMAIN universe' : HasAfter(i, d, E)

TrueAfter(st) ==
    /\ st.day <= day' /\ st.completed <= day'
    /\ UpToAfter(st.day, st.cursor, {})
    /\ AllAfter(st.completed, {})

\* No step takes a result back, and the clock does not run backwards.
LEMMA StepsOnlyAdd ==
    ASSUME TypeOK, [Next]_vars
    PROVE  saved \subseteq saved' /\ blind \subseteq blind' /\ day <= day' /\ day' \in Nat
<1> USE DEF TypeOK
<1>1. CASE Poll \/ PollBlind \/ RunNow \/ Crash \/ OpenForm \/ SubmitForm \/ Delist \/ Midnight \/ UNCHANGED vars
  BY <1>1 DEF Poll, PollBlind, RunNow, Crash, OpenForm, SubmitForm, Delist, Midnight, vars, run, told
<1>2. ASSUME NEW a \in Actor, Work(a) \/ Raises(a) PROVE saved \subseteq saved' /\ blind \subseteq blind' /\ day' = day
  BY <1>2 DEF Work, Raises, Begin, Mark, ReadPage, Save, Merge, WriteCursor, Done, told
<1>3. ASSUME NEW s \in Symbol, List(s) PROVE UNCHANGED <<saved, blind, day>>
  BY <1>3 DEF List
<1> QED BY <1>1, <1>2, <1>3 DEF Next

\* Only List and Delist change the universe.
LEMMA UniverseSteps ==
    ASSUME [Next]_vars
    PROVE  UNCHANGED <<universe, since, removedOn>> \/ (\E s \in Symbol : List(s)) \/ Delist
<1>1. CASE Poll \/ PollBlind \/ RunNow \/ Crash \/ OpenForm \/ SubmitForm \/ Midnight \/ UNCHANGED vars
  BY <1>1 DEF Poll, PollBlind, RunNow, Crash, OpenForm, SubmitForm, Midnight, vars, run, told
<1>2. ASSUME NEW a \in Actor, Work(a) \/ Raises(a) PROVE UNCHANGED <<universe, since, removedOn>>
  BY <1>2 DEF Work, Raises, Begin, Mark, ReadPage, Save, Merge, WriteCursor, Done, told
<1> QED BY <1>1, <1>2 DEF Next

\* A claim about a day that has begun survives every step: a new symbol is not
\* yet asked for, the others keep their results and only move backwards, and a
\* symbol that is delisted voids the claim.
LEMMA ClaimsSurvive ==
    ASSUME TypeOK, [Next]_vars, NEW d \in Nat, d <= day, NEW c \in Nat, NEW E
    PROVE  /\ ScannedUpTo(d, c, E) => UpToAfter(d, c, E)
           /\ ScannedAll(d, E) => AllAfter(d, E)
<1>0. saved \subseteq saved' /\ blind \subseteq blind' /\ day \in Nat /\ universe \in Seq(Symbol)
  BY StepsOnlyAdd, BoundsAssumption DEF TypeOK
<1> USE DEF ScannedUpTo, ScannedAll, UpToAfter, AllAfter, Has, HasAfter
<1>1. CASE UNCHANGED <<universe, since, removedOn>>
  BY <1>0, <1>1
<1>2. ASSUME NEW s \in Symbol, List(s)
      PROVE  /\ ScannedUpTo(d, c, E) => UpToAfter(d, c, E)
             /\ ScannedAll(d, E) => AllAfter(d, E)
  <2>1. PICK p \in 1..(Len(universe) + 1) : universe' = InsertAt(universe, p, s)
    BY <1>2 DEF List
  <2>2. removedOn' = removedOn /\ since' = [since EXCEPT ![s] = day] /\ since'[s] = day
    BY <1>2 DEF List, TypeOK
  <2>3. \A i \in DOMAIN universe : universe[i] # s /\ since'[universe[i]] = since[universe[i]]
    BY <1>0, <1>2, <2>2 DEF List, Elements, TypeOK
  <2>4. \A i \in DOMAIN universe' :
           universe'[i] = s \/ \E j \in DOMAIN universe : j <= i /\ universe'[i] = universe[j]
    <3>1. /\ DOMAIN universe' = 1..(Len(universe) + 1)
          /\ \A i \in 1..(Len(universe) + 1) :
               universe'[i] = IF i < p THEN universe[i] ELSE IF i = p THEN s ELSE universe[i - 1]
      BY <2>1 DEF InsertAt
    <3>2. DOMAIN universe = 1..Len(universe) /\ Len(universe) \in Nat
      BY <1>0
    <3> SUFFICES ASSUME NEW i \in 1..(Len(universe) + 1)
                 PROVE  universe'[i] = s \/ \E j \in 1..Len(universe) : j <= i /\ universe'[i] = universe[j]
      BY <3>1, <3>2
    <3>3. CASE i < p
      <4>1. i \in 1..Len(universe) /\ i <= i /\ universe'[i] = universe[i]
        BY <3>1, <3>2, <3>3
      <4> QED BY <4>1
    <3>4. CASE i > p
      <4>1. i - 1 \in 1..Len(universe) /\ i - 1 <= i /\ universe'[i] = universe[i - 1]
        BY <3>1, <3>2, <3>4
      <4> QED BY <4>1
    <3>5. CASE i = p
      BY <3>1, <3>5
    <3> QED BY <3>3, <3>4, <3>5
  <2>5. DOMAIN universe \subseteq Nat /\ DOMAIN universe' \subseteq Nat
    BY <1>0, <2>1 DEF InsertAt
  <2>6. ~(day < d)
    BY <1>0
  <2>7. ASSUME NEW i \in DOMAIN universe'
        PROVE  \/ HasAfter(i, d, E)
               \/ \E j \in DOMAIN universe : j <= i /\ (Has(j, d, E) => HasAfter(i, d, E))
    <3>1. CASE universe'[i] = s
      BY <2>2, <2>6, <3>1
    <3>2. ASSUME NEW j \in DOMAIN universe, j <= i, universe'[i] = universe[j]
          PROVE  Has(j, d, E) => HasAfter(i, d, E)
      BY <1>0, <2>3, <3>2
    <3> QED BY <2>4, <3>1, <3>2
  <2> HIDE DEF Has, HasAfter
  <2>8. ScannedUpTo(d, c, E) => UpToAfter(d, c, E)
    <3> SUFFICES ASSUME ScannedUpTo(d, c, E), d > removedOn', NEW i \in DOMAIN universe', i <= c
                 PROVE  HasAfter(i, d, E)
      OBVIOUS
    <3>1. \A j \in DOMAIN universe : j <= i => Has(j, d, E)
      BY <2>2, <2>5
    <3> QED BY <2>7, <3>1
  <2>9. ScannedAll(d, E) => AllAfter(d, E)
    BY <1>0, <2>2, <2>7
  <2> QED BY <2>8, <2>9
<1>3. CASE Delist
  <2>1. removedOn' = day
    BY <1>3 DEF Delist
  <2> QED BY <1>0, <2>1
<1> QED BY <1>1, <1>2, <1>3, UniverseSteps

\* Settings that claim no more than was scanned still do after any step.
LEMMA SettingsStayTrue ==
    ASSUME TypeOK, [Next]_vars, NEW st \in Settings, SettingsAreTrue(st)
    PROVE  TrueAfter(st)
<1>1. st.day \in Nat /\ st.cursor \in Nat /\ st.completed \in Nat /\ day \in Nat
    BY BoundsAssumption DEF Settings, TypeOK
<1>2. day <= day' /\ day' \in Nat
    BY StepsOnlyAdd
<1>3. UpToAfter(st.day, st.cursor, {}) /\ AllAfter(st.completed, {})
    BY <1>1, ClaimsSurvive DEF SettingsAreTrue
<1> QED BY <1>1, <1>2, <1>3 DEF SettingsAreTrue, TrueAfter

\* The settings a failed read is taken for claim nothing.
LEMMA BlankIsTrue == TypeOK => Blank \in Settings /\ SettingsAreTrue(Blank)
    BY BoundsAssumption DEF TypeOK, Blank, Settings, SettingsAreTrue, ScannedUpTo, ScannedAll

\* The settings a run is about to write claim no more than was scanned.
LEMMA WrittenSettingsAreTrue ==
    ASSUME ScanIInv, NEW a \in Actor, pc[a] = "write"
    PROVE  NextSettings(a) \in Settings /\ SettingsAreTrue(NextSettings(a))
<1>1. TypeOK /\ RunIsTrue(a) /\ InHand(a) = {}
    BY DEF ScanIInv, InHand
<1>2. NextSettings(a) \in Settings /\ Cursor(a) \in Nat /\ Len(page[a]) \in Nat
    BY <1>1, NextSettingsType
<1>3. /\ ScannedUpTo(target[a], Cursor(a) + Len(page[a]), {})
      /\ Completed(a) => ScannedAll(target[a], {})
      /\ target[a] <= day /\ settings[a].completed <= day /\ ScannedAll(settings[a].completed, {})
    BY <1>1 DEF RunIsTrue, SettingsAreTrue
<1>4. ScannedUpTo(target[a], 0, {})
    BY <1>1 DEF ScannedUpTo, TypeOK
<1>5. /\ NextSettings(a).day = target[a]
      /\ NextSettings(a).cursor = IF Completed(a) THEN 0 ELSE Cursor(a) + Len(page[a])
      /\ NextSettings(a).completed = IF Completed(a) THEN target[a] ELSE settings[a].completed
    BY DEF NextSettings
<1>6. ScannedUpTo(NextSettings(a).day, NextSettings(a).cursor, {})
    BY <1>3, <1>4, <1>5
<1>7. ScannedAll(NextSettings(a).completed, {}) /\ NextSettings(a).completed <= day
    BY <1>3, <1>5
<1> QED BY <1>2, <1>3, <1>5, <1>6, <1>7 DEF SettingsAreTrue

\* The table and the form hold settings that were there, nothing, or what a run
\* has worked out.
LEMMA TableStaysTrue ==
    ASSUME ScanIInv, [Next]_vars
    PROVE  TrueAfter(policy'.settings) /\ (form' # <<>> => TrueAfter(form'[1].settings))
<1>1. TypeOK
    BY DEF ScanIInv
<1>2. \A st \in Settings : SettingsAreTrue(st) => TrueAfter(st)
    BY <1>1, SettingsStayTrue
<1>3. TrueAfter(policy.settings) /\ TrueAfter(Blank)
    BY <1>1, <1>2, BlankIsTrue DEF ScanIInv, TypeOK
<1>4. form # <<>> => TrueAfter(form[1].settings)
    BY <1>1, <1>2 DEF ScanIInv, TypeOK
<1>5. CASE Poll \/ PollBlind \/ RunNow \/ Crash \/ (\E s \in Symbol : List(s)) \/ Delist \/ Midnight \/ UNCHANGED vars
  <2>1. policy' = policy /\ form' = form
    BY <1>5 DEF Poll, PollBlind, RunNow, Crash, List, Delist, Midnight, vars
  <2> QED BY <1>3, <1>4, <2>1
<1>6. ASSUME NEW a \in Actor, Work(a) \/ Raises(a)
      PROVE  TrueAfter(policy'.settings) /\ (form' # <<>> => TrueAfter(form'[1].settings))
  <2>1. form' = form
    BY <1>6 DEF Work, Raises, Begin, Mark, ReadPage, Save, Merge, WriteCursor, Done
  <2>2. policy' = policy \/ (pc[a] = "write" /\ policy'.settings = NextSettings(a))
    BY <1>6 DEF Work, Raises, Begin, Mark, ReadPage, Save, Merge, WriteCursor, Done
  <2>3. pc[a] = "write" => TrueAfter(NextSettings(a))
    BY <1>2, WrittenSettingsAreTrue
  <2> QED BY <1>3, <1>4, <2>1, <2>2, <2>3
<1>7. CASE OpenForm
  <2>1. policy' = policy /\ form'[1].settings \in {policy.settings, Blank}
    BY <1>7 DEF OpenForm
  <2> QED BY <1>3, <2>1
<1>8. CASE SubmitForm
  BY <1>4, <1>8 DEF SubmitForm
<1> QED BY <1>5, <1>6, <1>7, <1>8 DEF Next

\* What a step does to one run: nothing, a step that ends with nothing in hand, or
\* one of the three steps on the way from the page to the results.
LEMMA RunSteps ==
    ASSUME TypeOK, [Next]_vars, NEW b \in Actor
    PROVE  \/ /\ pc'[b] = pc[b] \/ pc'[b] \notin {"save", "merge"}
              /\ pc'[b] = "write" => pc[b] \in {"merge", "write"}
              /\ target'[b] = target[b] /\ settings'[b] = settings[b] /\ page'[b] = page[b]
           \/ /\ pc'[b] \notin {"save", "merge", "write"}
              /\ target'[b] \in {0, day, target[b]}
              /\ settings'[b] \in {Blank, policy.settings, settings[b]}
           \/ ReadPage(b) \/ Save(b)
<1> USE DEF TypeOK
<1>1. CASE Poll \/ PollBlind \/ RunNow
  BY <1>1 DEF Poll, PollBlind, RunNow
<1>2. ASSUME NEW a \in Actor, Work(a), a # b
      PROVE  pc'[b] = pc[b] /\ target'[b] = target[b] /\ settings'[b] = settings[b] /\ page'[b] = page[b]
  BY <1>2 DEF Work, Begin, Mark, ReadPage, Save, Merge, WriteCursor, Done, Leave
<1>3. CASE Begin(b)
  BY <1>3 DEF Begin
<1>4. CASE Mark(b)
  BY <1>4 DEF Mark, Leave
<1>5. CASE Merge(b) \/ WriteCursor(b)
  BY <1>5 DEF Merge, WriteCursor
<1>6. CASE Done(b)
  BY <1>6 DEF Done, Leave
<1>7. ASSUME NEW a \in Actor, Raises(a)
      PROVE  \/ pc'[b] = pc[b] /\ target'[b] = target[b] /\ settings'[b] = settings[b] /\ page'[b] = page[b]
             \/ pc'[b] = "idle" /\ target'[b] = 0 /\ settings'[b] = Blank
  BY <1>7 DEF Raises, Leave
<1>8. CASE Crash
  BY <1>8 DEF Crash, Leave
<1>9. CASE OpenForm \/ SubmitForm \/ (\E s \in Symbol : List(s)) \/ Delist \/ Midnight \/ UNCHANGED vars
  BY <1>9 DEF OpenForm, SubmitForm, List, Delist, Midnight, vars, run
<1> QED BY <1>1, <1>2, <1>3, <1>4, <1>5, <1>6, <1>7, <1>8, <1>9 DEF Next, Work

\* What RunIsTrue says after a step, in the terms of the claims.
LEMMA RunTrueAfter ==
    ASSUME NEW b \in Actor, TrueAfter(settings'[b]), target'[b] <= day',
           pc'[b] \in {"save", "merge", "write"} =>
             LET c == IF settings'[b].day = target'[b] THEN settings'[b].cursor ELSE 0
                 E == IF pc'[b] = "save" THEN Elements(page'[b]) ELSE {}
             IN  /\ UpToAfter(target'[b], c + Len(page'[b]), E)
                 /\ Len(page'[b]) < BatchSize => AllAfter(target'[b], E)
    PROVE  RunIsTrue(b)'
  BY DEF RunIsTrue, SettingsAreTrue, TrueAfter, ScannedUpTo, UpToAfter, ScannedAll, AllAfter,
         Has, HasAfter, Cursor, Completed, InHand, Elements

\* With the page that was read in hand, the scan has come as far as the page, and
\* to the end if the page is not full.
LEMMA PageIsTrue ==
    ASSUME ScanIInv, NEW b \in Actor, ReadPage(b)
    PROVE  /\ UpToAfter(target[b], Cursor(b) + Len(page'[b]), Elements(page'[b]))
           /\ Len(page'[b]) < BatchSize => AllAfter(target[b], Elements(page'[b]))
<1>1. /\ TypeOK /\ Cursor(b) \in Nat /\ target[b] \in Nat /\ universe \in Seq(Symbol)
      /\ page'[b] = <<>> \/ page'[b] = Page(universe, Cursor(b))
      /\ page'[b] = <<>> => target[b] \in blind' \/ page'[b] = Page(universe, Cursor(b))
      /\ UNCHANGED <<universe, since, removedOn, saved>> /\ blind \subseteq blind'
  BY NextSettingsType, BoundsAssumption DEF ScanIInv, TypeOK, ReadPage
<1>2. ScannedUpTo(target[b], Cursor(b), {})
  <2>1. SettingsAreTrue(settings[b])
    BY DEF ScanIInv, RunIsTrue
  <2>2. CASE settings[b].day = target[b]
    BY <2>1, <2>2 DEF SettingsAreTrue, Cursor
  <2>3. CASE settings[b].day # target[b]
    BY <1>1, <2>3 DEF Cursor, ScannedUpTo
  <2> QED BY <2>2, <2>3
<1>3. CASE page'[b] = Page(universe, Cursor(b))
  <2> DEFINE c == Cursor(b)
             P == Page(universe, c)
  <2>1. /\ Len(P) \in Nat
        /\ c <= Len(universe) => Len(P) = IF c + BatchSize < Len(universe) THEN BatchSize ELSE Len(universe) - c
        /\ c > Len(universe) => Len(P) = 0
        /\ \A i \in 1..Len(P) : P[i] = universe[c + i]
    BY <1>1, PageType
  <2>2. DOMAIN P = 1..Len(P)
    BY <1>1, PageType
  <2>3. \A i \in DOMAIN universe : i > c /\ i <= c + Len(P) => universe[i] \in Elements(P)
    <3> SUFFICES ASSUME NEW i \in DOMAIN universe, i > c, i <= c + Len(P) PROVE universe[i] \in Elements(P)
      OBVIOUS
    <3>1. i - c \in 1..Len(P) /\ c + (i - c) = i
      BY <1>1, <2>1
    <3> QED BY <2>1, <2>2, <3>1 DEF Elements
  <2>4. UpToAfter(target[b], c + Len(P), Elements(P))
    <3> SUFFICES ASSUME target[b] > removedOn, NEW i \in DOMAIN universe, i <= c + Len(P)
                 PROVE  HasAfter(i, target[b], Elements(P))
      BY <1>1 DEF UpToAfter
    <3>1. CASE i <= c
      BY <1>1, <1>2, <3>1 DEF ScannedUpTo, Has, HasAfter
    <3>2. CASE i > c
      BY <1>1, <2>3, <3>2 DEF HasAfter
    <3> QED BY <1>1, <3>1, <3>2
  <2>5. Len(P) < BatchSize => \A i \in DOMAIN universe : i <= c + Len(P)
    BY <1>1, <2>1, BatchAssumption
  <2>6. Len(P) < BatchSize => AllAfter(target[b], Elements(P))
    BY <1>1, <2>4, <2>5 DEF UpToAfter, AllAfter
  <2> QED BY <1>3, <2>4, <2>6
<1>4. CASE page'[b] = <<>> /\ target[b] \in blind'
  <2>1. Len(page'[b]) = 0 /\ Elements(page'[b]) = {}
    BY <1>4 DEF Elements
  <2>2. UpToAfter(target[b], Cursor(b), {})
    BY <1>1, <1>2 DEF ScannedUpTo, UpToAfter, Has, HasAfter
  <2>3. AllAfter(target[b], {})
    BY <1>4 DEF AllAfter
  <2> QED BY <1>1, <2>1, <2>2, <2>3
<1> QED BY <1>1, <1>3, <1>4

\* Once its page is saved a run has nothing in hand.
LEMMA SaveIsTrue ==
    ASSUME ScanIInv, NEW b \in Actor, Save(b)
    PROVE  /\ UpToAfter(target[b], Cursor(b) + Len(page[b]), {})
           /\ Completed(b) => AllAfter(target[b], {})
<1>1. /\ ScannedUpTo(target[b], Cursor(b) + Len(page[b]), Elements(page[b]))
      /\ Completed(b) => ScannedAll(target[b], Elements(page[b]))
  BY DEF ScanIInv, RunIsTrue, InHand, Save
<1>2. UNCHANGED <<universe, since, removedOn, blind>>
  BY DEF Save, told
<1>3. \A s \in Elements(page[b]) : <<s, target[b]>> \in saved'
  BY DEF Save, Elements
<1>4. saved \subseteq saved'
  BY DEF Save
<1> QED BY <1>1, <1>2, <1>3, <1>4 DEF ScannedUpTo, UpToAfter, ScannedAll, AllAfter, Has, HasAfter

\* Every run stays true.
LEMMA RunStaysTrue == ASSUME ScanIInv, [Next]_vars, NEW b \in Actor PROVE RunIsTrue(b)'
<1>1. /\ TypeOK /\ RunIsTrue(b) /\ Cursor(b) \in Nat /\ Len(page[b]) \in Nat
      /\ day \in Nat /\ target[b] \in Nat /\ target[b] <= day
  BY NextSettingsType, BoundsAssumption DEF ScanIInv, RunIsTrue, TypeOK
<1>2. day <= day' /\ day' \in Nat
  BY <1>1, StepsOnlyAdd
<1>3. TrueAfter(settings[b]) /\ TrueAfter(policy.settings) /\ TrueAfter(Blank)
  <2>1. \A st \in Settings : SettingsAreTrue(st) => TrueAfter(st)
    BY <1>1, SettingsStayTrue
  <2> QED BY <1>1, <2>1, BlankIsTrue DEF ScanIInv, RunIsTrue, TypeOK
<1>4. CASE /\ pc'[b] = pc[b] \/ pc'[b] \notin {"save", "merge"}
           /\ pc'[b] = "write" => pc[b] \in {"merge", "write"}
           /\ target'[b] = target[b] /\ settings'[b] = settings[b] /\ page'[b] = page[b]
  <2> DEFINE c == Cursor(b) + Len(page[b])
  <2>1. c \in Nat
    BY <1>1
  <2>2. ASSUME pc'[b] \in {"save", "merge", "write"}
        PROVE  /\ pc[b] \in {"save", "merge", "write"}
               /\ InHand(b) = IF pc'[b] = "save" THEN Elements(page'[b]) ELSE {}
    BY <1>4, <2>2 DEF InHand
  <2>3. ASSUME pc'[b] \in {"save", "merge", "write"}
        PROVE  /\ UpToAfter(target[b], c, InHand(b))
               /\ Len(page[b]) < BatchSize => AllAfter(target[b], InHand(b))
    BY <1>1, <2>1, <2>2, <2>3, ClaimsSurvive DEF RunIsTrue, Completed
  <2>4. Cursor(b) = IF settings'[b].day = target'[b] THEN settings'[b].cursor ELSE 0
    BY <1>4 DEF Cursor
  <2>5. ASSUME pc'[b] \in {"save", "merge", "write"}
        PROVE  LET d == IF settings'[b].day = target'[b] THEN settings'[b].cursor ELSE 0
                   E == IF pc'[b] = "save" THEN Elements(page'[b]) ELSE {}
               IN  /\ UpToAfter(target'[b], d + Len(page'[b]), E)
                   /\ Len(page'[b]) < BatchSize => AllAfter(target'[b], E)
    <3> HIDE DEF c
    <3>1. InHand(b) = IF pc'[b] = "save" THEN Elements(page'[b]) ELSE {}
      BY <2>2, <2>5
    <3>2. c = (IF settings'[b].day = target'[b] THEN settings'[b].cursor ELSE 0) + Len(page'[b])
      BY <1>4, <2>4 DEF c
    <3> QED BY <1>4, <2>3, <2>5, <3>1, <3>2
  <2>6. TrueAfter(settings'[b]) /\ target'[b] <= day'
    BY <1>1, <1>2, <1>3, <1>4
  <2> QED BY <2>5, <2>6, RunTrueAfter
<1>5. CASE /\ pc'[b] \notin {"save", "merge", "write"}
           /\ target'[b] \in {0, day, target[b]}
           /\ settings'[b] \in {Blank, policy.settings, settings[b]}
  <2>1. TrueAfter(settings'[b]) /\ target'[b] <= day'
    BY <1>1, <1>2, <1>3, <1>5
  <2> QED BY <1>5, <2>1, RunTrueAfter
<1>6. CASE ReadPage(b)
  <2>1. pc'[b] = "save" /\ target'[b] = target[b] /\ settings'[b] = settings[b]
    BY <1>1, <1>6 DEF ReadPage, TypeOK
  <2>2. Cursor(b) = IF settings'[b].day = target'[b] THEN settings'[b].cursor ELSE 0
    BY <2>1 DEF Cursor
  <2> QED BY <1>1, <1>2, <1>3, <1>6, <2>1, <2>2, PageIsTrue, RunTrueAfter
<1>7. CASE Save(b)
  <2>1. pc'[b] = "merge" /\ target'[b] = target[b] /\ settings'[b] = settings[b] /\ page'[b] = page[b]
    BY <1>1, <1>7 DEF Save, TypeOK
  <2>2. Cursor(b) = IF settings'[b].day = target'[b] THEN settings'[b].cursor ELSE 0
    BY <2>1 DEF Cursor
  <2> QED BY <1>1, <1>2, <1>3, <1>7, <2>1, <2>2, SaveIsTrue, RunTrueAfter DEF Completed
<1> QED BY <1>1, <1>4, <1>5, <1>6, <1>7, RunSteps

\* No copy of the settings claims more than was scanned.
THEOREM ScanInvariant == Spec => []ScanIInv
<1>1. Init /\ TypeOK => ScanIInv
  <2> SUFFICES ASSUME Init, TypeOK PROVE ScanIInv
    OBVIOUS
  <2>1. SettingsAreTrue(Blank)
    BY BlankIsTrue
  <2>2. policy.settings = Blank /\ form = <<>>
    BY DEF Init
  <2>3. ASSUME NEW a \in Actor PROVE RunIsTrue(a)
    BY <2>1 DEF Init, RunIsTrue
  <2> QED BY <2>1, <2>2, <2>3 DEF ScanIInv
<1>2. ScanIInv /\ TypeOK' /\ [Next]_vars => ScanIInv'
  <2> SUFFICES ASSUME ScanIInv, TypeOK', [Next]_vars PROVE ScanIInv'
    OBVIOUS
  <2>1. SettingsAreTrue(policy.settings)' /\ (form # <<>> => SettingsAreTrue(form[1].settings))'
    BY TableStaysTrue DEF TrueAfter, SettingsAreTrue, UpToAfter, ScannedUpTo, AllAfter, ScannedAll, Has, HasAfter
  <2> QED BY <2>1, RunStaysTrue DEF ScanIInv
<1> QED BY <1>1, <1>2, TypeCorrect, PTL DEF Spec

\* A day that the scheduler calls complete has been scanned, for any universe and
\* any batch size, whatever is listed, repeated, cut short or written back.
THEOREM CompletedMeansScanned == Spec => []CompletedDayIsScanned
<1>1. ScanIInv => CompletedDayIsScanned
  BY DEF ScanIInv, SettingsAreTrue, CompletedDayIsScanned, ScannedAll, Has
<1> QED BY <1>1, ScanInvariant, PTL

\* Whoever continues from the cursor in the table skips nothing that was listed
\* before the cursor's day.
THEOREM CursorSkipsNothing == Spec => []CursorIsHonest
<1>1. ScanIInv => CursorIsHonest
  BY DEF ScanIInv, SettingsAreTrue, CursorIsHonest, ScannedUpTo, Has
<1> QED BY <1>1, ScanInvariant, PTL
=============================================================================
