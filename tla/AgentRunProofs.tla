----------------------------- MODULE AgentRunProofs -----------------------------
(***************************************************************************)
(* Theorems about AgentRun, for any set of requests and any bounds: types, *)
(* the reasons for a second purchase, for a purchase of a dismissed run    *)
(* and for a stuck run, and that decided runs are left to people.          *)
(*                                                                         *)
(* The inductive invariant is RunIInv.  Most of it speaks of one request   *)
(* only: OwnState(r).  A step of one request keeps OwnState of the others  *)
(* because it touches nothing of theirs (OthersUntouched).                 *)
(***************************************************************************)
EXTENDS AgentRun, TLAPS

\* The types of the variables.
VariableTypes ==
    /\ status \in [Copies -> Status]
    /\ age \in [Copies -> 0..StaleAfter]
    /\ up \in BOOLEAN
    /\ window \in 0..MaxWindow
    /\ pc \in [Requests -> {"new", "create", "deduped", "ended"} \cup Working]
    /\ key \in [Requests -> 0..MaxWindow]
    /\ mine \in [Requests -> {0, 1, 2}]
    /\ outcome \in [Requests -> {"none", "running"} \cup Final]
    /\ overrides \in 0..MaxOverrides
    /\ faults \in 0..MaxFaults
    /\ bought \subseteq Requests
    /\ prior \in [Requests -> SUBSET Requests]
    /\ overruled \subseteq Copies
    /\ dismissed \subseteq Copies
    /\ broken \subseteq Requests
    /\ cutoff \subseteq Requests

\* What RunIInv says of one request and its rows.
OwnState(r) ==
    /\ pc[r] \in {"new", "create", "deduped"} => \A n \in {1, 2} : status[<<r, n>>] = "absent"
    /\ mine[r] # 0 => status[<<r, mine[r]>>] # "absent"
    /\ mine[r] # 0 /\ pc[r] = "ended" /\ status[<<r, mine[r]>>] \in Active
       => r \in cutoff \/ outcome[r] = "running"
    /\ ThreadIsOrderly(r)
    /\ DismissalHolds(r)
    /\ key[r] <= window
    /\ \A n \in {1, 2} : RefusalIsKnown(r, n)

\* Why a purchase may be repeated.
Cause(s) == s \in Outsized \/ mine[s] = 0 \/ Refused(s)

-----------------------------------------------------------------------------
(* The parts of the invariant. *)

\* RunIInv, taken apart by request.
LEMMA Parts ==
    RunIInv <=> VariableTypes /\ \A r \in Requests : OwnState(r) /\ PriorHasACause(r)
BY DEF RunIInv, TypeOK, VariableTypes, OwnState, StuckRunHasACause, Mine

\* A copy is a request and a number.
LEMMA CopyParts ==
    /\ \A c \in Copies : c[1] \in Requests /\ c[2] \in {1, 2} /\ c = <<c[1], c[2]>>
    /\ \A r \in Requests, n \in {1, 2} : <<r, n>> \in Copies
BY DEF Copies

\* A write of one row leaves the others.
LEMMA RowWritten ==
    ASSUME VariableTypes, NEW c \in Copies, NEW s \in Status, Write(c, s)
    PROVE  /\ status' \in [Copies -> Status] /\ age' \in [Copies -> 0..StaleAfter]
           /\ status'[c] = s /\ age'[c] = 0
           /\ \A d \in Copies : d # c => status'[d] = status[d] /\ age'[d] = age[d]
<1>1. 0 \in 0..StaleAfter
    BY StaleAssumption
<1> QED BY <1>1 DEF VariableTypes, Write

\* A fault is counted up to the bound.
LEMMA FaultCounted ==
    ASSUME VariableTypes, NEW n \in Nat, Fault(n)
    PROVE  faults' \in 0..MaxFaults
BY BoundsAssumption DEF VariableTypes, Fault

\* The row whose id the service knows is a row of the request.
LEMMA MineIsACopy ==
    ASSUME VariableTypes, NEW r \in Requests, mine[r] # 0
    PROVE  Mine(r) \in Copies /\ Mine(r) = <<r, mine[r]>> /\ mine[r] \in {1, 2}
BY DEF VariableTypes, Mine, Copies

\* What the worker writes about its own row.
LEMMA FinishWrites ==
    ASSUME VariableTypes, NEW r \in Requests, mine[r] # 0, Recorded(Mine(r), outcome[r])
    PROVE  \/ outcome[r] \in Final /\ Write(Mine(r), outcome[r])
           \/ outcome[r] \notin Final /\ UNCHANGED database
BY DEF Recorded

-----------------------------------------------------------------------------
(* Frame. *)

\* A step of r touches nothing of the other requests.
LEMMA OthersUntouched ==
    ASSUME VariableTypes, NEW r \in Requests, OwnState(r), Step(r), NEW q \in Requests, q # r
    PROVE  /\ pc'[q] = pc[q] /\ key'[q] = key[q] /\ mine'[q] = mine[q]
           /\ outcome'[q] = outcome[q] /\ prior'[q] = prior[q]
           /\ \A n \in {1, 2} : status'[<<q, n>>] = status[<<q, n>>] /\ age'[<<q, n>>] = age[<<q, n>>]
           /\ q \in bought' <=> q \in bought
           /\ q \in broken' <=> q \in broken
           /\ q \in cutoff' <=> q \in cutoff
<1>0. \A n \in {1, 2} : <<q, n>> \in Copies /\ <<q, n>>[1] = q
    BY DEF Copies
<1>w. ASSUME mine[r] # 0, NEW s \in Status, Write(Mine(r), s)
      PROVE  \A n \in {1, 2} : status'[<<q, n>>] = status[<<q, n>>] /\ age'[<<q, n>>] = age[<<q, n>>]
  <2>1. Mine(r) \in Copies /\ \A n \in {1, 2} : <<q, n>> # Mine(r)
    BY <1>w, MineIsACopy DEF Mine
  <2> QED BY <1>0, <1>w, <2>1, RowWritten
<1>1. CASE LookUp(r)
    BY <1>1 DEF LookUp, VariableTypes, Goto, database
<1>2. CASE Create(r)
    BY <1>0, <1>2 DEF Create, VariableTypes, Goto
<1>3. CASE Claim(r)
  <2>1. \A n \in {1, 2} : status'[<<q, n>>] = status[<<q, n>>] /\ age'[<<q, n>>] = age[<<q, n>>]
    BY <1>3, <1>w DEF Claim, database, Status, Active
  <2> QED BY <1>3, <2>1 DEF Claim, VariableTypes, Goto
<1>4. CASE ClaimRaises(r)
  <2>1. \A n \in {1, 2} : status'[<<q, n>>] = status[<<q, n>>] /\ age'[<<q, n>>] = age[<<q, n>>]
    BY <1>4, <1>w DEF ClaimRaises, database, Status, Active
  <2> QED BY <1>4, <2>1 DEF ClaimRaises, VariableTypes, Goto
<1>5. CASE ReviewUnrecorded(r)
    BY <1>5 DEF ReviewUnrecorded, VariableTypes, Goto, database, history
<1>6. CASE Review(r)
    BY <1>6 DEF Review, VariableTypes, Goto, database
<1>7. CASE Finish(r)
  <2>1. \A n \in {1, 2} : status'[<<q, n>>] = status[<<q, n>>] /\ age'[<<q, n>>] = age[<<q, n>>]
    BY <1>7, <1>w, FinishWrites DEF Finish, database, Status, Final
  <2> QED BY <1>7, <2>1 DEF Finish, VariableTypes, Goto
<1>8. CASE Fallback(r)
  <2>0. mine[r] # 0
    BY <1>8 DEF Fallback, OwnState, ThreadIsOrderly
  <2>1. \A n \in {1, 2} : status'[<<q, n>>] = status[<<q, n>>] /\ age'[<<q, n>>] = age[<<q, n>>]
    BY <1>8, <2>0, <1>w DEF Fallback, database, Status, Active
  <2> QED BY <1>8, <2>1 DEF Fallback, VariableTypes, Goto
<1> QED BY <1>1, <1>2, <1>3, <1>4, <1>5, <1>6, <1>7, <1>8 DEF Step

\* The state of a request that a step leaves alone.
LEMMA OwnStateKept ==
    ASSUME VariableTypes, NEW q \in Requests, OwnState(q),
           pc'[q] = pc[q], key'[q] = key[q], mine'[q] = mine[q], outcome'[q] = outcome[q],
           \A n \in {1, 2} : status'[<<q, n>>] = status[<<q, n>>] /\ age'[<<q, n>>] = age[<<q, n>>],
           q \in bought' <=> q \in bought, q \in broken' <=> q \in broken,
           q \in cutoff' <=> q \in cutoff,
           window' = window, overruled' = overruled, dismissed' = dismissed
    PROVE  OwnState(q)'
<1>0. mine[q] \in {0, 1, 2}
    BY DEF VariableTypes
<1>1. ThreadIsOrderly(q)'
    BY <1>0 DEF OwnState, ThreadIsOrderly, Mine
<1>2. DismissalHolds(q)'
    BY <1>0 DEF OwnState, DismissalHolds, Mine
<1>3. \A n \in {1, 2} : RefusalIsKnown(q, n)'
    BY DEF OwnState, RefusalIsKnown
<1> QED BY <1>0, <1>1, <1>2, <1>3 DEF OwnState

\* The steps of a request touch neither the windows nor what people decided.
LEMMA StepFrame ==
    ASSUME NEW r \in Requests, Step(r)
    PROVE  /\ UNCHANGED <<up, window, overrides, overruled, dismissed>>
           /\ bought \subseteq bought'
           /\ r \notin bought /\ pc[r] # "review" => r \notin bought'
BY DEF Step, LookUp, Create, Claim, ClaimRaises, Fallback, ReviewUnrecorded, Review, Finish,
       history

-----------------------------------------------------------------------------
(* The steps of a request keep the state of its own run. *)

\* The look-up: there are no rows yet.
LEMMA LookUpKeepsOwn ==
    ASSUME VariableTypes, NEW r \in Requests, OwnState(r), LookUp(r)
    PROVE  OwnState(r)'
<1>1. /\ pc'[r] \in {"create", "deduped"} /\ pc[r] = "new" /\ key'[r] = window
      /\ UNCHANGED <<status, age, window, mine, outcome, bought, dismissed, overruled>>
    BY DEF LookUp, VariableTypes, Goto, database
<1>2. /\ mine[r] = 0 /\ r \notin bought /\ outcome[r] = "none"
      /\ \A n \in {1, 2} : status[<<r, n>>] = "absent" /\ age[<<r, n>>] = 0
    BY <1>1 DEF OwnState, ThreadIsOrderly, RefusalIsKnown
<1>3. window \in Nat
    BY BoundsAssumption DEF VariableTypes
<1>4. ThreadIsOrderly(r)'
    BY <1>1, <1>2 DEF ThreadIsOrderly
<1>5. DismissalHolds(r)'
    BY <1>1, <1>2 DEF DismissalHolds, OwnState
<1>6. \A n \in {1, 2} : RefusalIsKnown(r, n)'
    BY <1>1, <1>2, <1>3 DEF RefusalIsKnown
<1> QED BY <1>1, <1>2, <1>3, <1>4, <1>5, <1>6 DEF OwnState

\* The two attempts of the INSERT.
LEMMA CreateKeepsOwn ==
    ASSUME VariableTypes, NEW r \in Requests, OwnState(r), Create(r)
    PROVE  OwnState(r)'
<1>1. PICK o \in InsertOutcomes :
          /\ status' = [c \in Copies |-> IF c[1] = r /\ c[2] \in o.rows THEN "queued" ELSE status[c]]
          /\ mine' = [mine EXCEPT ![r] = o.id]
    BY DEF Create
<1>2. o.id = 0 \/ (o.id \in {1, 2} /\ o.id \in o.rows)
    BY <1>1 DEF InsertOutcomes
<1>3. /\ pc'[r] = "claim" /\ pc[r] = "create" /\ mine'[r] = o.id
      /\ UNCHANGED <<age, key, window, outcome, bought, dismissed, overruled, broken>>
    BY <1>1 DEF Create, Goto, VariableTypes
<1>4. /\ r \notin bought /\ outcome[r] = "none"
      /\ \A n \in {1, 2} : /\ status[<<r, n>>] = "absent" /\ age[<<r, n>>] = 0
                           /\ <<r, n>> \notin dismissed
    BY <1>3 DEF OwnState, ThreadIsOrderly, DismissalHolds, RefusalIsKnown
<1>5. \A n \in {1, 2} : status'[<<r, n>>] = IF n \in o.rows THEN "queued" ELSE "absent"
  <2>1. \A n \in {1, 2} : <<r, n>> \in Copies /\ <<r, n>>[1] = r /\ <<r, n>>[2] = n
    BY DEF Copies
  <2> QED BY <1>1, <1>4, <2>1
<1>6. key[r] \in Nat /\ key[r] <= window
    BY BoundsAssumption DEF OwnState, VariableTypes
<1>7. mine'[r] # 0 => status'[<<r, mine'[r]>>] = "queued"
    BY <1>2, <1>3, <1>5
<1>8. ThreadIsOrderly(r)'
    BY <1>3, <1>4, <1>7 DEF ThreadIsOrderly, Mine
<1>9. DismissalHolds(r)'
    BY <1>3, <1>4 DEF DismissalHolds
<1>10. \A n \in {1, 2} : RefusalIsKnown(r, n)'
    BY <1>3, <1>4, <1>5, <1>6 DEF RefusalIsKnown
<1> QED BY <1>3, <1>6, <1>7, <1>8, <1>9, <1>10 DEF OwnState

\* A thread that takes its row, whether it looked at the status or not, keeps
\* what is known of it.
LEMMA TakingKeepsRefusals ==
    ASSUME VariableTypes, NEW r \in Requests, OwnState(r), mine[r] # 0,
           NEW s \in Status \ {"absent"}, Write(Mine(r), s),
           s \in {"failed", "cancelled"} => outcome[r] = s,
           UNCHANGED <<key, window, outcome, overruled>>
    PROVE  \A n \in {1, 2} : RefusalIsKnown(r, n)'
<1>1. /\ status'[Mine(r)] = s /\ age'[Mine(r)] = 0
      /\ \A d \in Copies : d # Mine(r) => status'[d] = status[d] /\ age'[d] = age[d]
    BY RowWritten, MineIsACopy
<1>2. key[r] \in Nat /\ key[r] <= window /\ window \in Nat
    BY BoundsAssumption DEF OwnState, VariableTypes
<1> SUFFICES ASSUME NEW n \in {1, 2} PROVE RefusalIsKnown(r, n)'
    OBVIOUS
<1>3. CASE <<r, n>> = Mine(r)
    BY <1>1, <1>2, <1>3 DEF RefusalIsKnown
<1>4. CASE <<r, n>> # Mine(r)
  <2>1. status'[<<r, n>>] = status[<<r, n>>] /\ age'[<<r, n>>] = age[<<r, n>>]
    BY <1>1, <1>4, CopyParts
  <2> QED BY <2>1 DEF OwnState, RefusalIsKnown
<1> QED BY <1>3, <1>4

\* A row that is written and not queued: a dismissal holds.
LEMMA TakingKeepsDismissals ==
    ASSUME VariableTypes, NEW r \in Requests, OwnState(r), mine[r] # 0,
           NEW s \in Status \ {"absent", "queued"}, Write(Mine(r), s), UNCHANGED dismissed
    PROVE  \A n \in {1, 2} : <<r, n>> \in dismissed' => status'[<<r, n>>] \notin {"absent", "queued"}
<1>1. /\ status'[Mine(r)] = s
      /\ \A d \in Copies : d # Mine(r) => status'[d] = status[d]
    BY RowWritten, MineIsACopy
<1> SUFFICES ASSUME NEW n \in {1, 2}, <<r, n>> \in dismissed
             PROVE  status'[<<r, n>>] \notin {"absent", "queued"}
    OBVIOUS
<1>2. CASE <<r, n>> = Mine(r)
    BY <1>1, <1>2
<1>3. CASE <<r, n>> # Mine(r)
    BY <1>1, <1>3, CopyParts DEF OwnState, DismissalHolds
<1> QED BY <1>2, <1>3

\* The claim takes a row that nobody has dismissed.
LEMMA ClaimKeepsOwn ==
    ASSUME VariableTypes, NEW r \in Requests, OwnState(r), Claim(r)
    PROVE  OwnState(r)'
<1>0. /\ pc[r] = "claim" /\ mine[r] # 0 /\ mine[r] \in {1, 2} /\ mine' = mine
      /\ UNCHANGED <<key, window, outcome, bought, dismissed, overruled, broken>>
      /\ r \notin bought /\ outcome[r] = "none" /\ Mine(r) = <<r, mine[r]>>
    BY MineIsACopy DEF Claim, OwnState, ThreadIsOrderly
<1>1. CASE status[Mine(r)] = "queued" /\ Write(Mine(r), "running")
  <2>1. "running" \in Status \ {"absent", "queued"}
    BY DEF Status, Active
  <2>2. /\ \A n \in {1, 2} : RefusalIsKnown(r, n)'
        /\ \A n \in {1, 2} : <<r, n>> \in dismissed' => status'[<<r, n>>] \notin {"absent", "queued"}
    BY <1>0, <1>1, <2>1, TakingKeepsRefusals, TakingKeepsDismissals
  <2>3. status'[Mine(r)] = "running"
    BY <1>0, <1>1, <2>1, RowWritten, MineIsACopy
  <2>4. Mine(r) \notin dismissed
    BY <1>0, <1>1 DEF OwnState, DismissalHolds
  <2>5. \/ pc'[r] = "review"
        \/ pc'[r] = "ended" /\ r \in cutoff'
    BY <1>0, <1>1 DEF Claim, Goto, VariableTypes
  <2>6. ThreadIsOrderly(r)'
    BY <1>0, <2>5 DEF ThreadIsOrderly
  <2>7. DismissalHolds(r)'
    BY <1>0, <2>2, <2>3, <2>4 DEF DismissalHolds, Mine
  <2> QED BY <1>0, <2>2, <2>3, <2>5, <2>6, <2>7 DEF OwnState
<1>2. CASE status[Mine(r)] # "queued" /\ UNCHANGED database
  <2>1. pc'[r] = "ended" /\ UNCHANGED <<status, age>>
    BY <1>2 DEF Claim, Goto, VariableTypes, database
  <2>2. status[Mine(r)] \notin Active
    BY <1>0, <1>2 DEF OwnState, ThreadIsOrderly, Active
  <2>3. ThreadIsOrderly(r)'
    BY <1>0, <2>1 DEF ThreadIsOrderly
  <2>4. DismissalHolds(r)'
    BY <1>0, <2>1 DEF OwnState, DismissalHolds
  <2>5. \A n \in {1, 2} : RefusalIsKnown(r, n)'
    BY <1>0, <2>1 DEF OwnState, RefusalIsKnown
  <2> QED BY <1>0, <2>1, <2>2, <2>3, <2>4, <2>5 DEF OwnState
<1> QED BY <1>1, <1>2 DEF Claim

\* A claim that raises, and the fallback after it, are on record as broken.
LEMMA BrokenClaimKeepsOwn ==
    ASSUME VariableTypes, NEW r \in Requests, OwnState(r), ClaimRaises(r) \/ Fallback(r)
    PROVE  OwnState(r)'
<1>0. /\ mine[r] # 0 /\ mine[r] \in {1, 2} /\ mine' = mine /\ r \in broken'
      /\ UNCHANGED <<key, window, outcome, bought, dismissed, overruled>>
      /\ r \notin bought /\ outcome[r] = "none" /\ Mine(r) = <<r, mine[r]>>
      /\ pc'[r] \in {"fallback", "review"}
    BY MineIsACopy DEF ClaimRaises, Fallback, OwnState, ThreadIsOrderly, Goto, VariableTypes
<1>1. ThreadIsOrderly(r)'
    BY <1>0 DEF ThreadIsOrderly
<1>2. CASE Write(Mine(r), "running")
  <2>1. "running" \in Status \ {"absent", "queued"}
    BY DEF Status, Active
  <2>2. /\ \A n \in {1, 2} : RefusalIsKnown(r, n)'
        /\ \A n \in {1, 2} : <<r, n>> \in dismissed' => status'[<<r, n>>] \notin {"absent", "queued"}
    BY <1>0, <1>2, <2>1, TakingKeepsRefusals, TakingKeepsDismissals
  <2>3. status'[Mine(r)] = "running"
    BY <1>0, <1>2, <2>1, RowWritten, MineIsACopy
  <2>4. DismissalHolds(r)'
    BY <1>0, <2>2 DEF DismissalHolds
  <2> QED BY <1>0, <1>1, <2>2, <2>3, <2>4 DEF OwnState
<1>3. CASE UNCHANGED database
  <2>1. UNCHANGED <<status, age>>
    BY <1>3 DEF database
  <2>2. DismissalHolds(r)'
    BY <1>0, <2>1 DEF OwnState, DismissalHolds
  <2>3. \A n \in {1, 2} : RefusalIsKnown(r, n)'
    BY <1>0, <2>1 DEF OwnState, RefusalIsKnown
  <2> QED BY <1>0, <1>1, <2>1, <2>2, <2>3 DEF OwnState
<1> QED BY <1>2, <1>3 DEF ClaimRaises, Fallback

\* The review gives the run an outcome, and perhaps buys.
LEMMA ReviewKeepsOwn ==
    ASSUME VariableTypes, NEW r \in Requests, OwnState(r), ReviewUnrecorded(r) \/ Review(r)
    PROVE  OwnState(r)'
<1>0. /\ UNCHANGED <<status, age, key, window, mine, dismissed, overruled, broken>>
      /\ \/ pc[r] = "claim" /\ mine[r] = 0 /\ pc'[r] = "review" /\ UNCHANGED <<outcome, bought>>
         \/ pc[r] = "review" /\ pc'[r] = "finish" /\ outcome'[r] \in Final \cup {"running"}
    BY DEF ReviewUnrecorded, Review, VariableTypes, Goto, database, history
<1>1. ThreadIsOrderly(r)'
    BY <1>0 DEF OwnState, ThreadIsOrderly, Final
<1>2. DismissalHolds(r)'
    BY <1>0 DEF OwnState, DismissalHolds, Mine
<1>3. outcome[r] = "none"
    BY <1>0 DEF OwnState, ThreadIsOrderly
<1>4. \A n \in {1, 2} : RefusalIsKnown(r, n)'
    BY <1>0, <1>3 DEF OwnState, RefusalIsKnown
<1> QED BY <1>0, <1>1, <1>2, <1>4 DEF OwnState

\* The outcome reaches the row, or the side-car still runs, or the writes fail.
LEMMA FinishKeepsOwn ==
    ASSUME VariableTypes, NEW r \in Requests, OwnState(r), Finish(r)
    PROVE  OwnState(r)'
<1>0. /\ pc[r] = "finish" /\ pc'[r] = "ended" /\ outcome[r] # "none"
      /\ UNCHANGED <<key, window, mine, outcome, bought, dismissed, overruled, broken>>
    BY DEF Finish, OwnState, ThreadIsOrderly, Goto, VariableTypes
<1>1. ThreadIsOrderly(r)'
    BY <1>0 DEF OwnState, ThreadIsOrderly
<1>2. CASE mine[r] # 0 /\ outcome[r] \in Final /\ Write(Mine(r), outcome[r])
  <2>1. outcome[r] \in Status \ {"absent", "queued"} /\ outcome[r] \notin Active
    BY <1>2 DEF Status, Final, Active
  <2>2. /\ \A n \in {1, 2} : RefusalIsKnown(r, n)'
        /\ \A n \in {1, 2} : <<r, n>> \in dismissed' => status'[<<r, n>>] \notin {"absent", "queued"}
    BY <1>0, <1>2, <2>1, TakingKeepsRefusals, TakingKeepsDismissals
  <2>3. status'[Mine(r)] = outcome[r] /\ Mine(r) = <<r, mine[r]>>
    BY <1>0, <1>2, <2>1, RowWritten, MineIsACopy
  <2>4. DismissalHolds(r)'
    BY <1>0, <1>2, <2>1, <2>2, <2>3 DEF OwnState, DismissalHolds, Mine
  <2> QED BY <1>0, <1>1, <2>1, <2>2, <2>3, <2>4 DEF OwnState
<1>3. CASE UNCHANGED <<status, age>> /\ (mine[r] = 0 \/ outcome[r] = "running" \/ r \in cutoff')
  <2>1. DismissalHolds(r)'
    BY <1>0, <1>3 DEF OwnState, DismissalHolds, Mine
  <2>2. \A n \in {1, 2} : RefusalIsKnown(r, n)'
    BY <1>0, <1>3 DEF OwnState, RefusalIsKnown
  <2> QED BY <1>0, <1>1, <1>3, <2>1, <2>2 DEF OwnState
<1>4. outcome[r] \in Final \/ outcome[r] = "running"
    BY <1>0 DEF VariableTypes
<1> QED BY <1>2, <1>3, <1>4, FinishWrites DEF Finish, database

\* All of them.
LEMMA StepKeepsOwn ==
    ASSUME VariableTypes, NEW r \in Requests, OwnState(r), Step(r)
    PROVE  OwnState(r)'
BY LookUpKeepsOwn, CreateKeepsOwn, ClaimKeepsOwn, BrokenClaimKeepsOwn, ReviewKeepsOwn,
   FinishKeepsOwn DEF Step

-----------------------------------------------------------------------------
(* Types, and the causes of a second purchase. *)

\* A write of the own row keeps the types of the table.
LEMMA OwnWriteTypes ==
    ASSUME VariableTypes, NEW r \in Requests, mine[r] # 0, NEW s \in Status, Write(Mine(r), s)
    PROVE  status' \in [Copies -> Status] /\ age' \in [Copies -> 0..StaleAfter]
BY RowWritten, MineIsACopy

\* A step of a request keeps the types.
LEMMA StepKeepsTypes ==
    ASSUME VariableTypes, NEW r \in Requests, OwnState(r), Step(r)
    PROVE  VariableTypes'
<1> USE DEF VariableTypes, Goto, Working
<1>0. {"queued", "running"} \cup Final \subseteq Status
    BY DEF Status, Active
<1>1. CASE LookUp(r)
  <2>1. faults' \in 0..MaxFaults
    BY <1>1, FaultCounted DEF LookUp
  <2>2. prior' \in [Requests -> SUBSET Requests]
    BY <1>1 DEF LookUp
  <2>3. pc' \in [Requests -> {"new", "create", "deduped", "ended"} \cup Working]
    BY <1>1 DEF LookUp
  <2> QED BY <1>1, <2>1, <2>2, <2>3 DEF LookUp, database
<1>2. CASE Create(r)
  <2>1. PICK o \in InsertOutcomes :
          /\ status' = [c \in Copies |-> IF c[1] = r /\ c[2] \in o.rows THEN "queued" ELSE status[c]]
          /\ mine' = [mine EXCEPT ![r] = o.id]
          /\ Fault(o.wrong)
    BY <1>2 DEF Create
  <2>2. o.id \in {0, 1, 2} /\ o.wrong \in Nat
    BY <2>1 DEF InsertOutcomes
  <2>3. status' \in [Copies -> Status]
    BY <1>0, <2>1
  <2>4. faults' \in 0..MaxFaults
    BY <2>1, <2>2, FaultCounted
  <2> QED BY <1>2, <2>1, <2>2, <2>3, <2>4 DEF Create
<1>3. CASE Claim(r)
  <2>1. status' \in [Copies -> Status] /\ age' \in [Copies -> 0..StaleAfter]
    BY <1>0, <1>3, OwnWriteTypes DEF Claim, database
  <2>2. faults' \in 0..MaxFaults /\ cutoff' \subseteq Requests
    BY <1>3, FaultCounted DEF Claim
  <2>3. pc' \in [Requests -> {"new", "create", "deduped", "ended"} \cup Working]
    BY <1>3 DEF Claim
  <2> QED BY <1>3, <2>1, <2>2, <2>3 DEF Claim
<1>4. CASE ClaimRaises(r)
  <2>1. status' \in [Copies -> Status] /\ age' \in [Copies -> 0..StaleAfter]
    BY <1>0, <1>4, OwnWriteTypes DEF ClaimRaises, database
  <2>2. faults' \in 0..MaxFaults
    BY <1>4, FaultCounted DEF ClaimRaises
  <2> QED BY <1>4, <2>1, <2>2 DEF ClaimRaises
<1>5. CASE Fallback(r)
  <2>0. mine[r] # 0
    BY <1>5 DEF Fallback, OwnState, ThreadIsOrderly
  <2>1. status' \in [Copies -> Status] /\ age' \in [Copies -> 0..StaleAfter]
    BY <1>0, <1>5, <2>0, OwnWriteTypes DEF Fallback, database
  <2>2. faults' \in 0..MaxFaults
    BY <1>5, FaultCounted DEF Fallback
  <2> QED BY <1>5, <2>1, <2>2 DEF Fallback
<1>6. CASE ReviewUnrecorded(r)
    BY <1>6 DEF ReviewUnrecorded, database, history
<1>7. CASE Review(r)
    BY <1>7 DEF Review, database, Final
<1>8. CASE Finish(r)
  <2>1. status' \in [Copies -> Status] /\ age' \in [Copies -> 0..StaleAfter]
    BY <1>0, <1>8, OwnWriteTypes, FinishWrites DEF Finish, database
  <2>2. faults' \in 0..MaxFaults /\ cutoff' \subseteq Requests
    BY <1>8, FaultCounted DEF Finish
  <2>3. pc' \in [Requests -> {"new", "create", "deduped", "ended"} \cup Working]
    BY <1>8 DEF Finish
  <2> QED BY <1>8, <2>1, <2>2, <2>3 DEF Finish
<1> QED BY <1>1, <1>2, <1>3, <1>4, <1>5, <1>6, <1>7, <1>8 DEF Step

\* What was a cause once stays one: a request that has bought keeps its id, its
\* outcome and its overrides.
LEMMA CausesStay ==
    ASSUME VariableTypes, NEW r \in Requests, OwnState(r), Step(r),
           NEW s \in Requests, s \in bought, Cause(s)
    PROVE  Cause(s)'
<1>1. CASE s # r
    BY <1>1, OthersUntouched, StepFrame DEF Cause, Refused
<1>2. CASE s = r
  <2>1. pc[r] \notin {"new", "create", "deduped", "claim", "fallback"}
    BY <1>2 DEF OwnState, ThreadIsOrderly
  <2>2. mine' = mine
    BY <2>1 DEF Step, LookUp, Create, Claim, ClaimRaises, Fallback, ReviewUnrecorded, Review, Finish
  <2>3. outcome[r] # "none" => outcome'[r] = outcome[r]
    BY <2>1 DEF Step, LookUp, Create, Claim, ClaimRaises, Fallback, ReviewUnrecorded, Review, Finish,
                OwnState, ThreadIsOrderly
  <2> QED BY <1>2, <2>2, <2>3, StepFrame DEF Cause, Refused
<1> QED BY <1>1, <1>2

\* A look-up that was answered and found no run to wait for: every earlier
\* purchase with its key left no row with that key, or was refused.
LEMMA LookUpFindsCauses ==
    ASSUME VariableTypes, \A q \in Requests : OwnState(q), NEW r \in Requests, LookUp(r),
           pc'[r] # "deduped", NEW s \in prior'[r], prior' # prior
    PROVE  Cause(s)
<1>1. /\ s \in bought /\ key[s] = window /\ window < MaxWindow
      /\ ~\E c \in Copies : Blocks(c, window)
    BY DEF LookUp, VariableTypes, Goto
<1>2. s \in Requests /\ mine[s] \in {0, 1, 2}
    BY <1>1 DEF VariableTypes
<1>3. SUFFICES ASSUME s \notin Outsized, mine[s] # 0
               PROVE  Refused(s)
    BY DEF Cause
<1>4. Mine(s) \in Copies /\ Mine(s) = <<s, mine[s]>> /\ mine[s] \in {1, 2} /\ Mine(s)[1] = s
    BY <1>2, <1>3, MineIsACopy DEF Mine
<1>5. status[Mine(s)] \notin Active \cup {"succeeded"}
    BY <1>1, <1>3, <1>4 DEF Blocks
<1>6. status[Mine(s)] # "absent" /\ status[Mine(s)] \in Status
    BY <1>2, <1>3, <1>4 DEF OwnState, VariableTypes
<1>7. status[Mine(s)] \in {"failed", "cancelled"}
    BY <1>5, <1>6 DEF Status, Active, Final
<1>8. RefusalIsKnown(s, mine[s])
    BY <1>2, <1>4 DEF OwnState
<1> QED BY <1>1, <1>4, <1>7, <1>8 DEF RefusalIsKnown, Refused

\* What a request found when it looked stays the reason.
LEMMA StepKeepsPrior ==
    ASSUME VariableTypes, \A q \in Requests : OwnState(q) /\ PriorHasACause(q),
           NEW r \in Requests, Step(r), NEW q \in Requests
    PROVE  PriorHasACause(q)'
<1>0. \A s \in bought : s \in Requests
    BY DEF VariableTypes
<1>1. CASE prior'[q] = prior[q] /\ (pc'[q] = "deduped" <=> pc[q] = "deduped")
  <2>1. prior[q] \subseteq bought /\ bought \subseteq bought'
    BY StepFrame DEF PriorHasACause
  <2>2. \A s \in prior[q] : Cause(s) => Cause(s)'
    BY <1>0, <2>1, CausesStay
  <2> QED BY <1>1, <2>1, <2>2 DEF PriorHasACause, Cause
<1>2. CASE q = r /\ LookUp(r)
  <2>1. bought' = bought /\ mine' = mine /\ outcome' = outcome /\ overruled' = overruled
    BY <1>2 DEF LookUp
  <2>2. prior'[r] \subseteq bought
    BY <1>2 DEF LookUp, VariableTypes, PriorHasACause
  <2>3. pc'[r] # "deduped" => \A s \in prior'[r] : Cause(s)
    <3>1. CASE prior' = prior
      BY <1>2, <3>1 DEF LookUp, PriorHasACause, Cause
    <3>2. CASE prior' # prior
      BY <1>2, <3>2, LookUpFindsCauses
    <3> QED BY <3>1, <3>2
  <2> QED BY <1>2, <2>1, <2>2, <2>3 DEF PriorHasACause, Cause, Refused
<1>3. CASE q # r
    BY <1>1, <1>3, OthersUntouched
<1>4. CASE q = r /\ ~LookUp(r)
  <2>1. prior' = prior
    BY <1>4 DEF Step, Create, Claim, ClaimRaises, Fallback, ReviewUnrecorded, Review, Finish, history
  <2>2. pc'[q] # "deduped" /\ pc[q] # "deduped"
    BY <1>4 DEF Step, Create, Claim, ClaimRaises, Fallback, ReviewUnrecorded, Review, Finish, Goto,
                VariableTypes
  <2> QED BY <1>1, <2>1, <2>2
<1> QED BY <1>2, <1>3, <1>4

-----------------------------------------------------------------------------
(* People, the process and time. *)

\* The inductive invariant, request by request.
Invariant == VariableTypes /\ \A r \in Requests : OwnState(r) /\ PriorHasACause(r)

\* An override changes one row that exists, and puts it on record.
LEMMA OverrideKeepsInvariant ==
    ASSUME Invariant, NEW c \in Copies, NEW s \in Final, Override(c, s)
    PROVE  Invariant'
<1> USE DEF Invariant
<1>0. /\ s \in Status \ {"absent", "queued", "running"} /\ s \notin Active
      /\ status[c] # "absent"
      /\ UNCHANGED <<up, window, pc, key, mine, outcome, faults, bought, prior, broken, cutoff>>
    BY DEF Override, Status, Final, Active, service
<1>1. /\ status' \in [Copies -> Status] /\ age' \in [Copies -> 0..StaleAfter]
      /\ status'[c] = s /\ age'[c] = 0
      /\ \A d \in Copies : d # c => status'[d] = status[d] /\ age'[d] = age[d]
    BY <1>0, RowWritten DEF Override
<1>2. /\ overruled \subseteq overruled' /\ overruled' \subseteq Copies
      /\ s # "succeeded" => c \in overruled'
    BY DEF Override, VariableTypes
<1>3. /\ dismissed' \subseteq dismissed \cup {c}
      /\ c \in dismissed' \ dismissed => status[c] = "queued"
    BY DEF Override
<1>4. VariableTypes'
  <2>1. overrides' \in 0..MaxOverrides
    BY BoundsAssumption DEF Override, VariableTypes
  <2> QED BY <1>0, <1>1, <1>2, <1>3, <2>1 DEF VariableTypes
<1>5. ASSUME NEW r \in Requests PROVE OwnState(r)'
  <2>0. OwnState(r) /\ \A n \in {1, 2} : <<r, n>> \in Copies
    BY CopyParts
  <2>m. mine[r] \in {0, 1, 2} /\ Mine(r) = <<r, mine[r]>> /\ Mine(r)' = Mine(r)
    BY <1>0 DEF VariableTypes, Mine
  <2>1. \A n \in {1, 2} : /\ <<r, n>> # c => status'[<<r, n>>] = status[<<r, n>>] /\ age'[<<r, n>>] = age[<<r, n>>]
                          /\ <<r, n>> = c => status'[<<r, n>>] = s /\ age'[<<r, n>>] = 0
    BY <1>1, <2>0
  <2>2. ThreadIsOrderly(r)'
    BY <1>0, <2>0, <2>1, <2>m DEF OwnState, ThreadIsOrderly
  <2>3. \A n \in {1, 2} : <<r, n>> \in dismissed' => status'[<<r, n>>] \notin {"absent", "queued"}
    BY <1>0, <1>3, <2>0, <2>1 DEF OwnState, DismissalHolds
  <2>4. mine[r] # 0 /\ (r \in bought \/ pc[r] \in {"review", "finish"})
        => r \in broken \/ (status'[Mine(r)] # "queued" /\ Mine(r) \notin dismissed')
    BY <1>0, <1>3, <2>0, <2>1, <2>m DEF OwnState, DismissalHolds
  <2>5. DismissalHolds(r)'
    BY <1>0, <2>3, <2>4, <2>m DEF DismissalHolds
  <2>6. ASSUME NEW n \in {1, 2} PROVE RefusalIsKnown(r, n)'
    <3>1. CASE <<r, n>> # c
      BY <1>0, <1>2, <2>0, <2>1, <3>1 DEF OwnState, RefusalIsKnown
    <3>2. CASE <<r, n>> = c
      <4>1. key[r] <= window /\ key[r] \in Nat
        BY <2>0, BoundsAssumption DEF OwnState, VariableTypes
      <4> QED BY <1>0, <1>2, <2>1, <3>2, <4>1 DEF RefusalIsKnown
    <3> QED BY <3>1, <3>2
  <2>7. pc[r] \in {"new", "create", "deduped"} => \A n \in {1, 2} : status'[<<r, n>>] = "absent"
    BY <1>0, <2>0, <2>1 DEF OwnState
  <2>8. mine[r] # 0 => status'[<<r, mine[r]>>] # "absent"
    BY <1>0, <2>0, <2>1, <2>m DEF OwnState
  <2>9. mine[r] # 0 /\ pc[r] = "ended" /\ status'[<<r, mine[r]>>] \in Active
        => r \in cutoff \/ outcome[r] = "running"
    BY <1>0, <2>0, <2>1, <2>m DEF OwnState
  <2>10. key'[r] <= window'
    BY <1>0, <2>0 DEF OwnState
  <2> QED BY <1>0, <2>2, <2>5, <2>6, <2>7, <2>8, <2>9, <2>10 DEF OwnState
<1>6. ASSUME NEW r \in Requests PROVE PriorHasACause(r)'
    BY <1>0, <1>2 DEF PriorHasACause, Refused
<1> QED BY <1>4, <1>5, <1>6

\* A crash puts on record whose thread it ended.
LEMMA CrashKeepsInvariant ==
    ASSUME Invariant, Crash
    PROVE  Invariant'
<1> USE DEF Invariant
<1>0. UNCHANGED <<status, age, window, key, mine, outcome, overrides, faults, bought, prior,
                  overruled, dismissed, broken>>
    BY DEF Crash, database
<1>1. VariableTypes'
    BY <1>0 DEF VariableTypes, Crash
<1>2. ASSUME NEW r \in Requests PROVE OwnState(r)'
  <2>0. OwnState(r)
    OBVIOUS
  <2>1. \/ pc[r] \notin Working \cup {"create"} /\ pc'[r] = pc[r] /\ (r \in cutoff => r \in cutoff')
        \/ pc[r] = "create" /\ pc'[r] = "ended" /\ (r \in cutoff => r \in cutoff')
        \/ pc[r] \in Working /\ pc'[r] = "ended" /\ r \in cutoff'
    BY DEF Crash
  <2>2. ThreadIsOrderly(r)'
    BY <1>0, <2>0, <2>1 DEF OwnState, ThreadIsOrderly, Mine
  <2>3. DismissalHolds(r)'
    BY <1>0, <2>0, <2>1 DEF OwnState, DismissalHolds, Mine
  <2>4. \A n \in {1, 2} : RefusalIsKnown(r, n)'
    BY <1>0, <2>0 DEF OwnState, RefusalIsKnown
  <2>5. pc[r] = "create" => mine[r] = 0
    BY <2>0 DEF OwnState, ThreadIsOrderly
  <2> QED BY <1>0, <2>0, <2>1, <2>2, <2>3, <2>4, <2>5 DEF OwnState
<1>3. ASSUME NEW r \in Requests PROVE PriorHasACause(r)'
  <2>1. pc'[r] # "deduped" => pc[r] # "deduped"
    BY DEF Crash, Working
  <2> QED BY <1>0, <2>1 DEF PriorHasACause, Refused
<1> QED BY <1>1, <1>2, <1>3

\* The clean-up takes no row in the window of its key: its age is at least one.
LEMMA StartKeepsInvariant ==
    ASSUME Invariant, Start \/ StartUnswept
    PROVE  Invariant'
<1> USE DEF Invariant
<1>0. /\ UNCHANGED <<window, pc, key, mine, outcome, overrides, faults, bought, prior,
                     overruled, dismissed, broken, cutoff>>
      /\ up' = TRUE
    BY DEF Start, StartUnswept, history, database
<1>1. \A c \in Copies :
         \/ status'[c] = status[c] /\ age'[c] = age[c]
         \/ status[c] \in Active /\ age[c] = StaleAfter /\ status'[c] = "cancelled" /\ age'[c] = 0
    BY DEF Start, StartUnswept, Sweep, Stranded, database, VariableTypes
<1>2. status' \in [Copies -> Status] /\ age' \in [Copies -> 0..StaleAfter]
  <2>1. "cancelled" \in Status /\ 0 \in 0..StaleAfter
    BY StaleAssumption DEF Status, Final
  <2> QED BY <2>1 DEF Start, StartUnswept, Sweep, database, VariableTypes
<1>3. VariableTypes'
    BY <1>0, <1>2 DEF VariableTypes
<1>4. ASSUME NEW r \in Requests PROVE OwnState(r)'
  <2>0. OwnState(r) /\ \A n \in {1, 2} : <<r, n>> \in Copies
    BY CopyParts
  <2>m. mine[r] \in {0, 1, 2} /\ Mine(r) = <<r, mine[r]>> /\ Mine(r)' = Mine(r)
    BY <1>0 DEF VariableTypes, Mine
  <2>1. \A n \in {1, 2} :
         \/ status'[<<r, n>>] = status[<<r, n>>] /\ age'[<<r, n>>] = age[<<r, n>>]
         \/ /\ status[<<r, n>>] \in {"queued", "running"} /\ age[<<r, n>>] = StaleAfter
            /\ status'[<<r, n>>] = "cancelled" /\ age'[<<r, n>>] = 0
    BY <1>1, <2>0 DEF Active
  <2>2. ThreadIsOrderly(r)'
    BY <1>0, <2>0, <2>1, <2>m DEF OwnState, ThreadIsOrderly
  <2>3. DismissalHolds(r)'
    BY <1>0, <2>0, <2>1, <2>m DEF OwnState, DismissalHolds
  <2>4. ASSUME NEW n \in {1, 2} PROVE RefusalIsKnown(r, n)'
    <3>0. key[r] \in Nat /\ window \in Nat /\ key[r] <= window
      BY <2>0, BoundsAssumption DEF OwnState, VariableTypes
    <3>1. CASE status'[<<r, n>>] = status[<<r, n>>] /\ age'[<<r, n>>] = age[<<r, n>>]
      BY <1>0, <2>0, <3>1 DEF OwnState, RefusalIsKnown
    <3>2. CASE age[<<r, n>>] = StaleAfter /\ status'[<<r, n>>] = "cancelled" /\ age'[<<r, n>>] = 0
      <4>1. window < MaxWindow => key[r] # window
        BY <2>0, <3>0, <3>2, StaleAssumption DEF OwnState, RefusalIsKnown
      <4> QED BY <1>0, <3>0, <3>2, <4>1 DEF RefusalIsKnown
    <3> QED BY <2>1, <3>1, <3>2
  <2>5. pc[r] \in {"new", "create", "deduped"} => \A n \in {1, 2} : status'[<<r, n>>] = "absent"
    BY <2>0, <2>1 DEF OwnState
  <2>6. mine[r] # 0 => status'[<<r, mine[r]>>] # "absent"
    BY <2>0, <2>1, <2>m DEF OwnState
  <2>7. mine[r] # 0 /\ pc[r] = "ended" /\ status'[<<r, mine[r]>>] \in Active
        => r \in cutoff \/ outcome[r] = "running"
    BY <2>0, <2>1, <2>m DEF OwnState, Active
  <2> QED BY <1>0, <2>0, <2>2, <2>3, <2>4, <2>5, <2>6, <2>7 DEF OwnState
<1>5. ASSUME NEW r \in Requests PROVE PriorHasACause(r)'
    BY <1>0 DEF PriorHasACause, Refused
<1> QED BY <1>3, <1>4, <1>5

\* A row grows no faster than the window number.
LEMMA TickKeepsInvariant ==
    ASSUME Invariant, Tick
    PROVE  Invariant'
<1> USE DEF Invariant
<1>0. UNCHANGED <<status, up, pc, key, mine, outcome, overrides, faults, bought, prior,
                  overruled, dismissed, broken, cutoff>>
    BY DEF Tick, history
<1>1. /\ window \in Nat /\ window <= MaxWindow /\ window' \in Nat /\ window' <= MaxWindow
      /\ window' >= window
      /\ window' < MaxWindow => window' = window + 1
    BY BoundsAssumption DEF Tick, VariableTypes
<1>2. age' \in [Copies -> 0..StaleAfter]
    BY StaleAssumption DEF Tick, VariableTypes
<1>3. VariableTypes'
    BY <1>0, <1>1, <1>2, BoundsAssumption DEF VariableTypes
<1>4. ASSUME NEW r \in Requests PROVE OwnState(r)'
  <2>0. OwnState(r) /\ \A n \in {1, 2} : <<r, n>> \in Copies
    BY CopyParts
  <2>k. key[r] \in Nat /\ key[r] <= window
    BY <2>0, BoundsAssumption DEF OwnState, VariableTypes
  <2>1. \A n \in {1, 2} : /\ age[<<r, n>>] \in Nat /\ age'[<<r, n>>] \in Nat
                          /\ age'[<<r, n>>] <= age[<<r, n>>] + 1
                          /\ status[<<r, n>>] = "absent" => age'[<<r, n>>] = age[<<r, n>>]
    BY <2>0, StaleAssumption DEF Tick, VariableTypes, Active
  <2>2. ThreadIsOrderly(r)' /\ DismissalHolds(r)'
    BY <1>0, <2>0 DEF OwnState, ThreadIsOrderly, DismissalHolds, Mine
  <2>3. ASSUME NEW n \in {1, 2} PROVE RefusalIsKnown(r, n)'
    <3>1. window' < MaxWindow => key[r] + age'[<<r, n>>] <= window'
      BY <1>1, <2>0, <2>1, <2>k, BoundsAssumption DEF OwnState, RefusalIsKnown
    <3>2. window' < MaxWindow => key[r] # window'
      BY <1>1, <2>k, BoundsAssumption
    <3> QED BY <1>0, <2>0, <2>1, <3>1, <3>2 DEF OwnState, RefusalIsKnown
  <2>4. key'[r] <= window'
    BY <1>0, <1>1, <2>k
  <2> QED BY <1>0, <2>0, <2>2, <2>3, <2>4 DEF OwnState
<1>5. ASSUME NEW r \in Requests PROVE PriorHasACause(r)'
    BY <1>0 DEF PriorHasACause, Refused
<1> QED BY <1>3, <1>4, <1>5

-----------------------------------------------------------------------------
(* The inductive invariant. *)

\* The first state.
LEMMA InitInvariant == Init => Invariant
<1> SUFFICES ASSUME Init PROVE Invariant
    OBVIOUS
<1>0. 0 \in 0..StaleAfter /\ 0 \in 0..MaxWindow /\ 0 \in 0..MaxOverrides /\ 0 \in 0..MaxFaults
    BY StaleAssumption, BoundsAssumption
<1>1. VariableTypes
    BY <1>0 DEF Init, VariableTypes, Status
<1>2. ASSUME NEW r \in Requests PROVE OwnState(r) /\ PriorHasACause(r)
  <2>0. /\ pc[r] = "new" /\ key[r] = 0 /\ mine[r] = 0 /\ outcome[r] = "none" /\ prior[r] = {}
        /\ bought = {} /\ window = 0 /\ dismissed = {}
    BY DEF Init
  <2>1. \A n \in {1, 2} : status[<<r, n>>] = "absent" /\ age[<<r, n>>] = 0
    BY CopyParts DEF Init
  <2>2. ThreadIsOrderly(r) /\ DismissalHolds(r) /\ PriorHasACause(r)
    BY <2>0, <2>1 DEF ThreadIsOrderly, DismissalHolds, PriorHasACause
  <2>3. \A n \in {1, 2} : RefusalIsKnown(r, n)
    BY <2>0, <2>1 DEF RefusalIsKnown
  <2> QED BY <2>0, <2>1, <2>2, <2>3 DEF OwnState
<1> QED BY <1>1, <1>2 DEF Invariant

\* Every step.
LEMMA NextInvariant == Invariant /\ [Next]_vars => Invariant'
<1> SUFFICES ASSUME Invariant, [Next]_vars PROVE Invariant'
    OBVIOUS
<1>1. ASSUME NEW r \in Requests, Step(r) PROVE Invariant'
  <2>1. VariableTypes'
    BY <1>1, StepKeepsTypes DEF Invariant
  <2>2. ASSUME NEW q \in Requests PROVE OwnState(q)'
    <3>1. CASE q = r
      BY <1>1, <3>1, StepKeepsOwn DEF Invariant
    <3>2. CASE q # r
      BY <1>1, <3>2, OthersUntouched, OwnStateKept, StepFrame DEF Invariant
    <3> QED BY <3>1, <3>2
  <2>3. ASSUME NEW q \in Requests PROVE PriorHasACause(q)'
    BY <1>1, StepKeepsPrior DEF Invariant
  <2> QED BY <2>1, <2>2, <2>3 DEF Invariant
<1>2. ASSUME NEW c \in Copies, NEW s \in Final, Override(c, s) PROVE Invariant'
    BY <1>2, OverrideKeepsInvariant
<1>3. CASE UNCHANGED vars
  <2>1. UNCHANGED <<status, age, up, window, pc, key, mine, outcome, overrides, faults, bought, prior,
                    overruled, dismissed, broken, cutoff>>
    BY <1>3 DEF vars, database, service, history
  <2>2. VariableTypes'
    BY <2>1 DEF Invariant, VariableTypes
  <2>3. ASSUME NEW q \in Requests PROVE OwnState(q)'
    BY <2>1, OwnStateKept DEF Invariant
  <2>4. ASSUME NEW q \in Requests PROVE PriorHasACause(q)'
    BY <2>1 DEF Invariant, PriorHasACause, Refused
  <2> QED BY <2>2, <2>3, <2>4 DEF Invariant
<1> QED BY <1>1, <1>2, <1>3, CrashKeepsInvariant, StartKeepsInvariant, TickKeepsInvariant DEF Next

\* RunIInv holds in every reachable state.
THEOREM RunInvariant == Spec => []RunIInv
<1>1. Init => RunIInv
    BY InitInvariant, Parts DEF Invariant
<1>2. RunIInv /\ [Next]_vars => RunIInv'
  <2>1. RunIInv <=> Invariant
    BY Parts DEF Invariant
  <2> QED BY <2>1, NextInvariant, PTL
<1> QED BY <1>1, <1>2, PTL DEF Spec

-----------------------------------------------------------------------------
(* The theorems. *)

\* The variables keep their types, and rows belong to requests that have left
\* the look-up.
THEOREM TypeCorrect == Spec => []TypeOK
BY RunInvariant, PTL DEF RunIInv

\* A review whose thread has ended without its outcome in the row: the reasons.
THEOREM StuckRunsHaveCauses == Spec => []StuckRunHasACause
BY RunInvariant, PTL DEF RunIInv

\* A second purchase in the same window: the reasons.
THEOREM SecondPurchasesHaveCauses == Spec => []SecondPurchaseHasACause
<1>1. RunIInv => SecondPurchaseHasACause
  <2> SUFFICES ASSUME RunIInv, NEW r \in Requests, NEW s \in Requests, r \in bought, s \in prior[r]
               PROVE  s \in Outsized \/ mine[s] = 0 \/ Refused(s)
    BY DEF SecondPurchaseHasACause
  <2>1. pc[r] # "deduped"
    BY DEF RunIInv, ThreadIsOrderly
  <2> QED BY <2>1 DEF RunIInv, PriorHasACause
<1> QED BY <1>1, RunInvariant, PTL

\* A run that was cancelled while it was queued does not buy, unless its claim
\* raised twice.
THEOREM DismissedRunsDoNotBuy == Spec => []DismissedRunDoesNotBuy
<1>1. RunIInv => DismissedRunDoesNotBuy
    BY DEF RunIInv, DismissedRunDoesNotBuy, DismissalHolds, TypeOK
<1> QED BY <1>1, RunInvariant, PTL

\* A step of r changes no row that is final and not its own.
LEMMA StepLeavesDecided ==
    ASSUME VariableTypes, NEW r \in Requests, OwnState(r), Step(r),
           NEW c \in Copies, status[c] \in Final, ~Owned(c)
    PROVE  status'[c] = status[c]
<1>0. c[1] \in Requests /\ c[2] \in {1, 2} /\ c = <<c[1], c[2]>>
    BY CopyParts
<1>1. CASE c[1] # r
  <2>1. PICK q \in Requests, n \in {1, 2} : c = <<q, n>> /\ q = c[1]
    BY <1>0
  <2>2. status'[<<q, n>>] = status[<<q, n>>]
    BY <1>1, <2>1, OthersUntouched
  <2> QED BY <2>1, <2>2
<1>2. CASE c[1] = r
  <2>w. ASSUME mine[r] # 0, pc[r] \in Working, NEW s \in Status, Write(Mine(r), s)
        PROVE  status'[c] = status[c]
    <3>1. Mine(r) \in Copies /\ Mine(r) = <<r, mine[r]>>
      BY <2>w, MineIsACopy
    <3>2. c # Mine(r)
      BY <1>0, <1>2, <2>w, <3>1 DEF Owned
    <3> QED BY <2>w, <3>1, <3>2, RowWritten
  <2>0. {"queued", "running"} \cup Final \subseteq Status
    BY DEF Status, Active
  <2>1. CASE LookUp(r) \/ ReviewUnrecorded(r) \/ Review(r)
    <3>1. UNCHANGED database
      BY <2>1 DEF LookUp, ReviewUnrecorded, Review
    <3> QED BY <3>1 DEF database
  <2>2. CASE Create(r)
    <3>1. status[c] = "absent"
      BY <1>0, <1>2, <2>2 DEF Create, OwnState
    <3> QED BY <3>1 DEF Final
  <2>3. CASE Claim(r)
    BY <2>0, <2>3, <2>w DEF Claim, Working, database
  <2>4. CASE ClaimRaises(r)
    BY <2>0, <2>4, <2>w DEF ClaimRaises, Working, database
  <2>5. CASE Fallback(r)
    <3>1. mine[r] # 0
      BY <2>5 DEF Fallback, OwnState, ThreadIsOrderly
    <3> QED BY <2>0, <2>5, <2>w, <3>1 DEF Fallback, Working, database
  <2>6. CASE Finish(r)
    BY <2>0, <2>6, <2>w, FinishWrites DEF Finish, Working, database
  <2> QED BY <2>1, <2>2, <2>3, <2>4, <2>5, <2>6 DEF Step
<1> QED BY <1>1, <1>2

\* A decided row without a thread changes by an override only.
THEOREM DecidedRunsAreLeftToPeople == Spec => DecidedRunIsLeftToPeople
<1> DEFINE Touched ==
        \A c \in Copies :
            status[c] \in Final /\ ~Owned(c) /\ status'[c] # status[c]
            => \E s \in Final : Override(c, s)
<1>1. RunIInv /\ [Next]_vars => [Touched]_vars
  <2> SUFFICES ASSUME RunIInv, Next, NEW c \in Copies,
                      status[c] \in Final, ~Owned(c), status'[c] # status[c]
               PROVE  \E s \in Final : Override(c, s)
    OBVIOUS
  <2>0. Invariant /\ VariableTypes /\ \A r \in Requests : OwnState(r)
    BY Parts DEF Invariant
  <2>1. ASSUME NEW r \in Requests, Step(r) PROVE FALSE
    BY <2>0, <2>1, StepLeavesDecided
  <2>2. ASSUME NEW d \in Copies, NEW s \in Final, Override(d, s)
        PROVE  \E t \in Final : Override(c, t)
    <3>1. s \in Status
      BY DEF Status
    <3>2. d = c
      BY <2>0, <2>2, <3>1, RowWritten DEF Override
    <3> QED BY <2>2, <3>2
  <2>3. CASE Start
    BY <2>0, <2>3 DEF Start, Sweep, Stranded, Active, Final, VariableTypes
  <2>4. CASE Crash \/ StartUnswept \/ Tick
    BY <2>4 DEF Crash, StartUnswept, Tick, database
  <2> QED BY <2>1, <2>2, <2>3, <2>4 DEF Next
<1> QED BY <1>1, RunInvariant, PTL DEF Spec, DecidedRunIsLeftToPeople

\* How far a row can be.
LEMMA Ranks ==
    /\ Rank("absent") = 0 /\ Rank("queued") = 1 /\ Rank("running") = 2
    /\ \A s \in Final : Rank(s) = 3
    /\ \A s \in Status : Rank(s) \in 0..3
BY DEF Rank, Status, Active, Final

\* A step of r takes a row back only in the fallback after a broken claim.
LEMMA StepMovesForward ==
    ASSUME VariableTypes, NEW r \in Requests, OwnState(r), Step(r), NEW c \in Copies,
           Rank(status'[c]) < Rank(status[c])
    PROVE  c[1] \in broken /\ status'[c] = "running"
<1>0. /\ c[1] \in Requests /\ c[2] \in {1, 2} /\ c = <<c[1], c[2]>>
      /\ status[c] \in Status /\ Rank(status[c]) \in 0..3
    BY CopyParts, Ranks DEF VariableTypes
<1>1. status'[c] # status[c]
    BY <1>0
<1>2. c[1] = r
  <2> SUFFICES ASSUME c[1] # r PROVE FALSE
    OBVIOUS
  <2>1. PICK q \in Requests, n \in {1, 2} : c = <<q, n>> /\ q = c[1]
    BY <1>0
  <2>2. status'[<<q, n>>] = status[<<q, n>>]
    BY <2>1, OthersUntouched
  <2> QED BY <1>1, <2>1, <2>2
<1>w. ASSUME mine[r] # 0, NEW s \in Status, Write(Mine(r), s)
      PROVE  c = Mine(r) /\ status'[c] = s
  <2>1. Mine(r) \in Copies
    BY <1>w, MineIsACopy
  <2> QED BY <1>1, <1>w, <2>1, RowWritten
<1>s. {"queued", "running"} \cup Final \subseteq Status
    BY DEF Status, Active
<1>3. ~LookUp(r) /\ ~ReviewUnrecorded(r) /\ ~Review(r)
    BY <1>1 DEF LookUp, ReviewUnrecorded, Review, database
<1>4. ~Create(r)
  <2> SUFFICES ASSUME Create(r) PROVE FALSE
    OBVIOUS
  <2>1. status[c] = "absent"
    BY <1>0, <1>2 DEF Create, OwnState
  <2>2. status'[c] = "queued"
    BY <1>1, <2>1 DEF Create
  <2> QED BY <2>1, <2>2, Ranks
<1>5. ~Claim(r) /\ ~ClaimRaises(r)
  <2> SUFFICES ASSUME Claim(r) \/ ClaimRaises(r) PROVE FALSE
    OBVIOUS
  <2>1. mine[r] # 0 /\ status[Mine(r)] = "queued" /\ Write(Mine(r), "running")
    BY <1>1 DEF Claim, ClaimRaises, database
  <2>2. status[c] = "queued" /\ status'[c] = "running"
    BY <1>w, <1>s, <2>1
  <2> QED BY <2>2, Ranks
<1>6. ~Finish(r)
  <2> SUFFICES ASSUME Finish(r) PROVE FALSE
    OBVIOUS
  <2>1. mine[r] # 0 /\ outcome[r] \in Final /\ Write(Mine(r), outcome[r])
    BY <1>1, FinishWrites DEF Finish, database
  <2>2. status'[c] \in Final
    BY <1>w, <1>s, <2>1
  <2>3. Rank(status'[c]) = 3
    BY <2>2, Ranks
  <2> QED BY <1>0, <2>3
<1>7. CASE Fallback(r)
  <2>1. mine[r] # 0 /\ r \in broken
    BY <1>7 DEF Fallback, OwnState, ThreadIsOrderly
  <2>2. Write(Mine(r), "running")
    BY <1>1, <1>7 DEF Fallback, database
  <2> QED BY <1>2, <1>w, <1>s, <2>1, <2>2
<1> QED BY <1>3, <1>4, <1>5, <1>6, <1>7 DEF Step

\* A row moves forward, whoever writes it, unless both attempts to claim it raised.
THEOREM RowsMoveForward == Spec => RunsMoveForward
<1> DEFINE Forward ==
        \A c \in Copies : Rank(status'[c]) < Rank(status[c])
            => c[1] \in broken /\ status'[c] = "running"
<1>1. RunIInv /\ [Next]_vars => [Forward]_vars
  <2> SUFFICES ASSUME RunIInv, Next, NEW c \in Copies, Rank(status'[c]) < Rank(status[c])
               PROVE  c[1] \in broken /\ status'[c] = "running"
    OBVIOUS
  <2>0. VariableTypes /\ (\A r \in Requests : OwnState(r)) /\ status[c] \in Status
        /\ Rank(status[c]) \in 0..3
    BY Parts, Ranks DEF VariableTypes
  <2>1. ASSUME NEW r \in Requests, Step(r)
        PROVE  c[1] \in broken /\ status'[c] = "running"
    BY <2>0, <2>1, StepMovesForward
  <2>2. ASSUME status'[c] \in Final \/ status'[c] = status[c] PROVE FALSE
    <3>1. status'[c] \in Final => Rank(status'[c]) = 3
      BY Ranks
    <3> QED BY <2>0, <2>2, <3>1
  <2>3. ASSUME NEW d \in Copies, NEW s \in Final, Override(d, s) PROVE FALSE
    <3>1. s \in Status
      BY DEF Status
    <3>2. status'[c] = s \/ status'[c] = status[c]
      BY <2>0, <2>3, <3>1, RowWritten DEF Override
    <3> QED BY <2>2, <3>2
  <2>4. CASE Start
    <3>1. status'[c] = "cancelled" \/ status'[c] = status[c]
      BY <2>4 DEF Start, Sweep
    <3> QED BY <2>2, <3>1 DEF Final
  <2>5. CASE Crash \/ StartUnswept \/ Tick
    <3>1. status' = status
      BY <2>5 DEF Crash, StartUnswept, Tick, database
    <3> QED BY <2>2, <3>1
  <2> QED BY <2>1, <2>3, <2>4, <2>5 DEF Next
<1> QED BY <1>1, RunInvariant, PTL DEF Spec, RunsMoveForward

=============================================================================
