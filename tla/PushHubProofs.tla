---------------------------- MODULE PushHubProofs ----------------------------
(***************************************************************************)
(* Proofs about the push session, for any sets of sockets, symbols,        *)
(* threads and broadcasts: the session knows the one thread of each kind   *)
(* that is at work, and whatever is wanted has one unless the last request *)
(* for it met a thread that was ending.                                    *)
(***************************************************************************)
EXTENDS PushHub, TLAPS

-----------------------------------------------------------------------------
(* Threads. *)

\* A step moves one thread.
LEMMA OneMoves ==
    ASSUME TypeOK, NEW k \in Kind, NEW n \in Thread, NEW to \in Place,
           place' = [place EXCEPT ![k][n] = to]
    PROVE  /\ place' \in [Kind -> [Thread -> Place]]
           /\ \A j \in Kind : \A m \in Thread :
                 place'[j][m] = IF j = k /\ m = n THEN to ELSE place[j][m]
  <1>1. place' = [place EXCEPT ![k] = [place[k] EXCEPT ![n] = to]]
    OBVIOUS
  <1>2. place[k] \in [Thread -> Place]
    BY DEF TypeOK
  <1>3. [place[k] EXCEPT ![n] = to] \in [Thread -> Place]
    BY <1>2
  <1>4. place' \in [Kind -> [Thread -> Place]]
    BY <1>1, <1>3 DEF TypeOK
  <1>5. ASSUME NEW j \in Kind, NEW m \in Thread
        PROVE  place'[j][m] = IF j = k /\ m = n THEN to ELSE place[j][m]
    BY <1>1, <1>2 DEF TypeOK
  <1> QED BY <1>4, <1>5

\* What the four conjuncts say of one kind of thread.
ThreadsHold(k) ==
    /\ known[k] # None => place[k][known[k]] \in Looping \cup {"left"}
    /\ \A n \in Thread : place[k][n] \in Looping \cup {"left"} => known[k] = n

ThreadTypes ==
    /\ known \in [Kind -> Thread \cup {None}]
    /\ stop \in [Kind -> BOOLEAN]
    /\ place \in [Kind -> [Thread -> Place]]
    /\ missed \in [Kind -> BOOLEAN]

\* After a request there is a thread at work, or it was missed; the other kind
\* is not touched.
LEMMA EnsureServes ==
    ASSUME HubIInv, NEW k \in Kind, Ensure(k)
    PROVE  /\ ThreadTypes'
           /\ \A j \in Kind : ThreadsHold(j)'
           /\ ~missed'[k] => AtWork(k)'
           /\ \A j \in Kind \ {k} : missed'[j] = missed[j] /\ (AtWork(j) => AtWork(j)')
  <1>t. TypeOK /\ ThreadsAreKnown
    BY DEF HubIInv
  <1>h. \A j \in Kind : ThreadsHold(j)
    BY <1>t DEF TypeOK, ThreadsAreKnown, ThreadsHold
  <1>1. CASE Alive(k)
    <2>1. LeaveToOld(k)
      BY <1>1 DEF Ensure
    <2>2. missed' = [missed EXCEPT ![k] = @ \/ stop[k] \/ place[k][known[k]] \notin Looping]
          /\ known' = known /\ stop' = stop /\ place' = place
      BY <2>1 DEF LeaveToOld
    <2>3. missed' \in [Kind -> BOOLEAN]
      <3>1. (missed[k] \/ stop[k] \/ place[k][known[k]] \notin Looping) \in BOOLEAN
        OBVIOUS
      <3> QED BY <2>2, <3>1, <1>t DEF TypeOK
    <2>4. ThreadTypes'
      BY <2>2, <2>3, <1>t DEF ThreadTypes, TypeOK
    <2>5. \A j \in Kind : ThreadsHold(j)'
      BY <2>2, <1>h DEF ThreadsHold
    <2>6. ~missed'[k] => AtWork(k)'
      <3>1. missed'[k] = (missed[k] \/ stop[k] \/ place[k][known[k]] \notin Looping)
        BY <2>2, <1>t DEF TypeOK
      <3>2. known[k] # None
        BY <1>1 DEF Alive
      <3> QED BY <3>1, <3>2, <2>2 DEF AtWork
    <2>7. \A j \in Kind \ {k} : missed'[j] = missed[j] /\ (AtWork(j) => AtWork(j)')
      BY <2>2, <1>t DEF TypeOK, AtWork
    <2> QED BY <2>4, <2>5, <2>6, <2>7
  <1>2. CASE ~Alive(k)
    <2>1. PICK n \in Thread :
             /\ place[k][n] = "ended"
             /\ known' = [known EXCEPT ![k] = n]
             /\ place' = [place EXCEPT ![k][n] = "loop"]
             /\ stop' = [stop EXCEPT ![k] = FALSE]
             /\ missed' = [missed EXCEPT ![k] = FALSE]
      BY <1>2 DEF Ensure, Launch
    <2>2. "loop" \in Place /\ "loop" \in Looping
      BY DEF Place, Looping
    <2>3. /\ place' \in [Kind -> [Thread -> Place]]
          /\ \A j \in Kind : \A m \in Thread :
                place'[j][m] = IF j = k /\ m = n THEN "loop" ELSE place[j][m]
      BY <2>1, <2>2, <1>t, OneMoves
    <2>4. known' \in [Kind -> Thread \cup {None}] /\ stop' \in [Kind -> BOOLEAN]
          /\ missed' \in [Kind -> BOOLEAN]
      BY <2>1, <1>t DEF TypeOK
    <2>5. ThreadTypes'
      BY <2>3, <2>4 DEF ThreadTypes
    <2>6. known'[k] = n /\ ~stop'[k] /\ ~missed'[k] /\ n # None
      BY <2>1, <1>t, NoneAssumption DEF TypeOK
    <2>7. \A j \in Kind \ {k} : known'[j] = known[j] /\ stop'[j] = stop[j] /\ missed'[j] = missed[j]
      BY <2>1, <1>t DEF TypeOK
    <2>8. known[k] = None
      <3>1. known[k] # None => place[k][known[k]] # "ended"
        BY <1>h DEF ThreadsHold, Looping
      <3> QED BY <3>1, <1>2 DEF Alive
    <2>9. ThreadsHold(k)'
      <3>1. place'[k][n] \in Looping
        BY <2>2, <2>3
      <3>2. ASSUME NEW m \in Thread, place'[k][m] \in Looping \cup {"left"}, m # n PROVE FALSE
        <4>1. place[k][m] \in Looping \cup {"left"}
          BY <3>2, <2>3
        <4> QED BY <4>1, <1>h, <2>8, NoneAssumption DEF ThreadsHold
      <3> QED BY <3>1, <3>2, <2>6 DEF ThreadsHold
    <2>10. ASSUME NEW j \in Kind \ {k} PROVE ThreadsHold(j)' /\ (AtWork(j) => AtWork(j)')
      <3>1. \A m \in Thread : place'[j][m] = place[j][m]
        BY <2>3
      <3>2. known[j] \in Thread \cup {None}
        BY <1>t DEF TypeOK
      <3> QED BY <3>1, <3>2, <2>7, <1>h DEF ThreadsHold, AtWork
    <2>11. AtWork(k)'
      BY <2>2, <2>3, <2>6 DEF AtWork
    <2> QED BY <2>5, <2>6, <2>7, <2>9, <2>10, <2>11
  <1> QED BY <1>1, <1>2

\* A stop touches the stop event of its kind only.
LEMMA StopIsLocal ==
    ASSUME HubIInv, NEW k \in Kind, Stop(k)
    PROVE  /\ ThreadTypes'
           /\ \A j \in Kind : ThreadsHold(j)'
           /\ missed' = missed
           /\ \A j \in Kind \ {k} : AtWork(j) => AtWork(j)'
  <1>t. TypeOK /\ ThreadsAreKnown
    BY DEF HubIInv
  <1>1. stop' = [stop EXCEPT ![k] = @ \/ k = "heartbeat" \/ known[k] # None]
        /\ known' = known /\ place' = place /\ missed' = missed
    BY DEF Stop
  <1>2. stop' \in [Kind -> BOOLEAN]
    <2>1. (stop[k] \/ k = "heartbeat" \/ known[k] # None) \in BOOLEAN
      OBVIOUS
    <2> QED BY <1>1, <2>1, <1>t DEF TypeOK
  <1>3. ThreadTypes'
    BY <1>1, <1>2, <1>t DEF ThreadTypes, TypeOK
  <1>4. \A j \in Kind : ThreadsHold(j)'
    BY <1>1, <1>t DEF TypeOK, ThreadsAreKnown, ThreadsHold
  <1>5. \A j \in Kind \ {k} : AtWork(j) => AtWork(j)'
    BY <1>1, <1>t DEF TypeOK, AtWork
  <1> QED BY <1>1, <1>3, <1>4, <1>5

\* A step that leaves the threads alone.
LEMMA ThreadsStay ==
    ASSUME HubIInv, UNCHANGED threads
    PROVE  /\ ThreadTypes'
           /\ \A j \in Kind : ThreadsHold(j)'
           /\ missed' = missed
           /\ \A j \in Kind : AtWork(j) => AtWork(j)'
  BY DEF HubIInv, threads, TypeOK, ThreadsAreKnown, ThreadTypes, ThreadsHold, AtWork

\* The step of a thread takes no service away that is in demand.
LEMMA RunHolds ==
    ASSUME HubIInv, NEW k \in Kind, NEW n \in Thread, Run(k, n)
    PROVE  /\ ThreadTypes'
           /\ \A j \in Kind : ThreadsHold(j)'
           /\ missed' = missed
           /\ \A j \in Kind : Demand(j) # {} /\ AtWork(j) => AtWork(j)'
  <1>t. TypeOK /\ ThreadsAreKnown
    BY DEF HubIInv
  <1>h. \A j \in Kind : ThreadsHold(j)
    BY <1>t DEF TypeOK, ThreadsAreKnown, ThreadsHold
  <1>n. n # None
    BY NoneAssumption
  <1>p. "loop" \in Place /\ "left" \in Place /\ "checked" \in Place /\ "forgotten" \in Place
        /\ "ended" \in Place /\ "loop" \in Looping /\ "checked" \in Looping
        /\ "left" \notin Looping
    BY DEF Place, Looping
  <1>1. ASSUME TestStop(k, n) \/ Look(k, n)
        PROVE  /\ ThreadTypes' /\ \A j \in Kind : ThreadsHold(j)' /\ missed' = missed
               /\ \A j \in Kind : Demand(j) # {} /\ AtWork(j) => AtWork(j)'
    <2>1. PICK to \in Looping \cup {"left"} :
             /\ place' = [place EXCEPT ![k][n] = to]
             /\ place[k][n] \in Looping
             /\ to = "left" => stop[k] \/ Demand(k) = {}
      <3>1. CASE TestStop(k, n)
        BY <3>1, <1>p DEF TestStop, Move
      <3>2. CASE Look(k, n)
        BY <3>2, <1>p DEF Look, Move
      <3> QED BY <1>1, <3>1, <3>2
    <2>2. known' = known /\ stop' = stop /\ missed' = missed
      BY <1>1 DEF TestStop, Look
    <2>3. to \in Place
      BY DEF Place
    <2>4. /\ place' \in [Kind -> [Thread -> Place]]
          /\ \A j \in Kind : \A m \in Thread :
                place'[j][m] = IF j = k /\ m = n THEN to ELSE place[j][m]
      BY <2>1, <2>3, <1>t, OneMoves
    <2>5. ThreadTypes'
      BY <2>2, <2>4, <1>t DEF ThreadTypes, TypeOK
    <2>6. known[k] = n
      BY <2>1, <1>h DEF ThreadsHold
    <2>7. ASSUME NEW j \in Kind PROVE ThreadsHold(j)'
      <3>1. known[j] \in Thread \cup {None}
        BY <1>t DEF TypeOK
      <3>2. known[j] # None => place'[j][known[j]] \in Looping \cup {"left"}
        BY <2>4, <3>1, <1>h DEF ThreadsHold
      <3>3. \A m \in Thread : place'[j][m] \in Looping \cup {"left"} => known[j] = m
        BY <2>4, <2>6, <1>h DEF ThreadsHold
      <3> QED BY <3>2, <3>3, <2>2 DEF ThreadsHold
    <2>8. ASSUME NEW j \in Kind, Demand(j) # {}, AtWork(j) PROVE AtWork(j)'
      <3>1. AtWork(j)
        BY <2>8
      <3>2. known[j] \in Thread /\ place[j][known[j]] \in Looping /\ ~stop[j]
        BY <3>1, <1>t DEF AtWork, TypeOK
      <3>3. place'[j][known[j]] \in Looping
        <4>1. CASE j = k
          <5>1. to # "left"
            BY <4>1, <2>1, <2>8, <3>2
          <5> QED BY <5>1, <4>1, <2>1, <2>4, <2>6
        <4>2. CASE j # k
          BY <4>2, <2>4, <3>2
        <4> QED BY <4>1, <4>2
      <3> QED BY <3>1, <3>2, <3>3, <2>2 DEF AtWork
    <2> QED BY <2>2, <2>5, <2>7, <2>8
  <1>2. CASE Forget(k, n)
    <2>1. /\ place[k][n] = "left"
          /\ place' = [place EXCEPT ![k][n] = "forgotten"]
          /\ known' = [known EXCEPT ![k] = None]
          /\ stop' = stop /\ missed' = missed
      BY <1>2 DEF Forget, Move
    <2>2. /\ place' \in [Kind -> [Thread -> Place]]
          /\ \A j \in Kind : \A m \in Thread :
                place'[j][m] = IF j = k /\ m = n THEN "forgotten" ELSE place[j][m]
      BY <2>1, <1>p, <1>t, OneMoves
    <2>3. known' \in [Kind -> Thread \cup {None}]
      BY <2>1, <1>t DEF TypeOK
    <2>4. ThreadTypes'
      BY <2>1, <2>2, <2>3, <1>t DEF ThreadTypes, TypeOK
    <2>5. known[k] = n /\ known'[k] = None /\ \A j \in Kind \ {k} : known'[j] = known[j]
      BY <2>1, <1>h, <1>t DEF ThreadsHold, TypeOK
    <2>6. ASSUME NEW j \in Kind PROVE ThreadsHold(j)'
      <3>1. CASE j = k
        <4>1. ASSUME NEW m \in Thread, place'[k][m] \in Looping \cup {"left"} PROVE FALSE
          <5>1. m # n
            BY <4>1, <2>2 DEF Looping
          <5>2. place[k][m] \in Looping \cup {"left"}
            BY <4>1, <5>1, <2>2
          <5> QED BY <5>1, <5>2, <2>5, <1>h DEF ThreadsHold
        <4> QED BY <4>1, <3>1, <2>5 DEF ThreadsHold
      <3>2. CASE j # k
        <4>1. \A m \in Thread : place'[j][m] = place[j][m]
          BY <3>2, <2>2
        <4>2. known[j] \in Thread \cup {None}
          BY <1>t DEF TypeOK
        <4> QED BY <4>1, <4>2, <3>2, <2>5, <1>h DEF ThreadsHold
      <3> QED BY <3>1, <3>2
    <2>7. ASSUME NEW j \in Kind, Demand(j) # {}, AtWork(j) PROVE AtWork(j)'
      <3>1. AtWork(j)
        BY <2>7
      <3>2. known[j] \in Thread /\ place[j][known[j]] \in Looping /\ ~stop[j]
        BY <3>1, <1>t DEF AtWork, TypeOK
      <3>3. j # k
        BY <3>2, <2>1, <2>5, <1>p
      <3> QED BY <3>1, <3>2, <3>3, <2>1, <2>2, <2>5 DEF AtWork
    <2> QED BY <2>1, <2>4, <2>6, <2>7
  <1>3. CASE Clear(k, n)
    <2>1. /\ place[k][n] = "forgotten"
          /\ place' = [place EXCEPT ![k][n] = "ended"]
          /\ stop' = [stop EXCEPT ![k] = FALSE]
          /\ known' = known /\ missed' = missed
      BY <1>3 DEF Clear, Move
    <2>2. /\ place' \in [Kind -> [Thread -> Place]]
          /\ \A j \in Kind : \A m \in Thread :
                place'[j][m] = IF j = k /\ m = n THEN "ended" ELSE place[j][m]
      BY <2>1, <1>p, <1>t, OneMoves
    <2>3. stop' \in [Kind -> BOOLEAN] /\ \A j \in Kind : stop'[j] => stop[j]
      BY <2>1, <1>t DEF TypeOK
    <2>4. ThreadTypes'
      BY <2>1, <2>2, <2>3, <1>t DEF ThreadTypes, TypeOK
    <2>5. known[k] # n
      <3>1. known[k] = n => place[k][n] \in Looping \cup {"left"}
        BY <1>h, <1>n DEF ThreadsHold
      <3> QED BY <3>1, <2>1 DEF Looping
    <2>6. \A j \in Kind : known[j] # None => place'[j][known[j]] = place[j][known[j]]
      BY <2>2, <2>5, <1>t DEF TypeOK
    <2>7. ASSUME NEW j \in Kind PROVE ThreadsHold(j)'
      <3>1. known[j] # None => place'[j][known[j]] \in Looping \cup {"left"}
        BY <2>6, <1>h DEF ThreadsHold
      <3>2. ASSUME NEW m \in Thread, place'[j][m] \in Looping \cup {"left"} PROVE known[j] = m
        <4>1. place'[j][m] # "ended"
          BY <3>2 DEF Looping
        <4>2. place[j][m] = place'[j][m]
          BY <4>1, <2>2
        <4> QED BY <4>2, <3>2, <1>h DEF ThreadsHold
      <3> QED BY <3>1, <3>2, <2>1 DEF ThreadsHold
    <2>8. ASSUME NEW j \in Kind, Demand(j) # {}, AtWork(j) PROVE AtWork(j)'
      <3>1. AtWork(j)
        BY <2>8
      <3> QED BY <3>1, <2>1, <2>3, <2>6 DEF AtWork
    <2> QED BY <2>1, <2>4, <2>7, <2>8
  <1> QED BY <1>1, <1>2, <1>3 DEF Run

-----------------------------------------------------------------------------
(* The session. *)

SessionTypes ==
    /\ socket \in [Socket -> {"gone", "open", "closed"}]
    /\ connections \subseteq Socket
    /\ subscriptions \subseteq Symbol
    /\ casts \in [Broadcast -> [todo : SUBSET Socket, stale : SUBSET Socket]]
    /\ failures \in 0..MaxFailures
    /\ dropped \subseteq Socket

\* The invariant in the parts that the steps are about.
LEMMA Parts ==
    HubIInv <=> /\ SessionTypes /\ ThreadTypes
                /\ \A k \in Kind : ThreadsHold(k)
                /\ DemandIsMet /\ OpenIsRegistered
  BY DEF HubIInv, TypeOK, SessionTypes, ThreadTypes, ThreadsAreKnown, ThreadsHold

LEMMA PartsNext ==
    /\ SessionTypes' /\ ThreadTypes'
    /\ \A k \in Kind : ThreadsHold(k)'
    /\ DemandIsMet' /\ OpenIsRegistered'
    => HubIInv'
  BY DEF HubIInv, TypeOK, SessionTypes, ThreadTypes, ThreadsAreKnown, ThreadsHold

LEMMA FailureCounts == ASSUME HubIInv, Failure PROVE failures' \in 0..MaxFailures
  BY BoundAssumption DEF HubIInv, TypeOK, Failure

LEMMA InitHolds == Init => HubIInv
<1> SUFFICES ASSUME Init PROVE HubIInv
  OBVIOUS
<1>1. SessionTypes
  BY BoundAssumption DEF Init, SessionTypes, Idle
<1>2. ThreadTypes
  BY DEF Init, ThreadTypes, Place
<1>3. \A k \in Kind : ThreadsHold(k)
  BY DEF Init, ThreadsHold, Looping
<1>4. DemandIsMet /\ OpenIsRegistered
  BY DEF Init, DemandIsMet, Demand, OpenIsRegistered, Idle
<1> QED BY <1>1, <1>2, <1>3, <1>4, Parts

LEMMA ConnectHolds == ASSUME HubIInv, NEW w \in Socket, Connect(w) PROVE HubIInv'
<1>p. SessionTypes /\ DemandIsMet /\ OpenIsRegistered
  BY Parts
<1>k. "heartbeat" \in Kind /\ \A k \in Kind \ {"heartbeat"} : k # "heartbeat"
  BY DEF Kind
<1>1. /\ Fresh(w)
      /\ socket' = [socket EXCEPT ![w] = "open"]
      /\ connections' = connections \cup {w}
      /\ dropped' = dropped \ {w}
      /\ Ensure("heartbeat")
      /\ subscriptions' = subscriptions /\ casts' = casts /\ failures' = failures
  BY DEF Connect
<1>2. /\ ThreadTypes'
      /\ \A j \in Kind : ThreadsHold(j)'
      /\ ~missed'["heartbeat"] => AtWork("heartbeat")'
      /\ \A j \in Kind \ {"heartbeat"} : missed'[j] = missed[j] /\ (AtWork(j) => AtWork(j)')
  BY <1>1, <1>k, EnsureServes
<1>3. SessionTypes'
  BY <1>1, <1>p DEF SessionTypes
<1>4. DemandIsMet'
  <2>1. \A j \in Kind \ {"heartbeat"} : Demand(j)' = Demand(j)
    BY <1>1 DEF Demand
  <2> QED BY <2>1, <1>2, <1>p DEF DemandIsMet
<1>5. OpenIsRegistered'
  <2>1. \A b \in Broadcast : w \notin casts[b].stale
    BY <1>1 DEF Fresh
  <2> QED BY <2>1, <1>1, <1>p DEF OpenIsRegistered, SessionTypes
<1> QED BY <1>2, <1>3, <1>4, <1>5, PartsNext

LEMMA PageClosesHolds == ASSUME HubIInv, NEW w \in Socket, PageCloses(w) PROVE HubIInv'
<1>p. SessionTypes /\ DemandIsMet /\ OpenIsRegistered
  BY Parts
<1>1. /\ socket' = [socket EXCEPT ![w] = "closed"]
      /\ connections' = connections /\ subscriptions' = subscriptions /\ casts' = casts
      /\ failures' = failures /\ dropped' = dropped /\ UNCHANGED threads
  BY DEF PageCloses, session
<1>2. ThreadTypes' /\ (\A j \in Kind : ThreadsHold(j)') /\ missed' = missed
      /\ \A j \in Kind : AtWork(j) => AtWork(j)'
  BY <1>1, ThreadsStay
<1>3. SessionTypes'
  BY <1>1, <1>p DEF SessionTypes
<1>4. DemandIsMet'
  BY <1>1, <1>2, <1>p DEF DemandIsMet, Demand
<1>5. OpenIsRegistered'
  BY <1>1, <1>p DEF OpenIsRegistered, SessionTypes
<1> QED BY <1>2, <1>3, <1>4, <1>5, PartsNext

\* A step that takes nothing from the demand, or all of it with a stop, keeps
\* the demand met.
LEMMA StopsOnlyTheIdle ==
    ASSUME HubIInv, NEW k \in Kind, NEW emptied \in BOOLEAN,
           IF emptied THEN Stop(k) ELSE UNCHANGED threads,
           \A j \in Kind : Demand(j)' \subseteq Demand(j),
           emptied => Demand(k)' = {}
    PROVE  ThreadTypes' /\ (\A j \in Kind : ThreadsHold(j)') /\ DemandIsMet'
  <1>m. DemandIsMet
    BY Parts
  <1>1. CASE emptied
    <2>1. Stop(k)
      BY <1>1
    <2>2. /\ ThreadTypes' /\ \A j \in Kind : ThreadsHold(j)'
          /\ missed' = missed
          /\ \A j \in Kind \ {k} : AtWork(j) => AtWork(j)'
      BY <2>1, StopIsLocal
    <2>3. ASSUME NEW j \in Kind, Demand(j)' # {}, ~missed'[j] PROVE AtWork(j)'
      BY <2>2, <2>3, <1>1, <1>m DEF DemandIsMet
    <2> QED BY <2>2, <2>3 DEF DemandIsMet
  <1>2. CASE ~emptied
    <2>1. /\ ThreadTypes' /\ \A j \in Kind : ThreadsHold(j)'
          /\ missed' = missed
          /\ \A j \in Kind : AtWork(j) => AtWork(j)'
      BY <1>2, ThreadsStay
    <2>2. ASSUME NEW j \in Kind, Demand(j)' # {}, ~missed'[j] PROVE AtWork(j)'
      BY <2>1, <2>2, <1>m DEF DemandIsMet
    <2> QED BY <2>1, <2>2 DEF DemandIsMet
  <1> QED BY <1>1, <1>2

LEMMA DisconnectHolds == ASSUME HubIInv, NEW w \in Socket, Disconnect(w) PROVE HubIInv'
<1>p. SessionTypes /\ OpenIsRegistered
  BY Parts
<1>k. "heartbeat" \in Kind
  BY DEF Kind
<1>1. /\ socket' = [socket EXCEPT ![w] = "gone"]
      /\ connections' = connections \ {w}
      /\ IF connections' = {} THEN Stop("heartbeat") ELSE UNCHANGED threads
      /\ subscriptions' = subscriptions /\ casts' = casts /\ dropped' = dropped
  BY DEF Disconnect
<1>2. failures' \in 0..MaxFailures
  BY FailureCounts, <1>p DEF Disconnect, SessionTypes
<1>3. SessionTypes'
  BY <1>1, <1>2, <1>p DEF SessionTypes
<1>4. (\A j \in Kind : Demand(j)' \subseteq Demand(j)) /\ Demand("heartbeat")' = connections'
  BY <1>1 DEF Demand
<1>5. ThreadTypes' /\ (\A j \in Kind : ThreadsHold(j)') /\ DemandIsMet'
  <2> DEFINE emptied == connections' = {}
  <2>1. emptied \in BOOLEAN
    OBVIOUS
  <2>2. IF emptied THEN Stop("heartbeat") ELSE UNCHANGED threads
    BY <1>1
  <2>3. emptied => Demand("heartbeat")' = {}
    BY <1>4
  <2> HIDE DEF emptied
  <2> QED BY <2>1, <2>2, <2>3, <1>4, <1>k, StopsOnlyTheIdle
<1>6. OpenIsRegistered'
  BY <1>1, <1>p DEF OpenIsRegistered, SessionTypes
<1> QED BY <1>3, <1>5, <1>6, PartsNext

LEMMA BeginBroadcastHolds == ASSUME HubIInv, NEW b \in Broadcast, BeginBroadcast(b) PROVE HubIInv'
<1>p. SessionTypes /\ DemandIsMet /\ OpenIsRegistered
  BY Parts
<1>1. /\ casts' = [casts EXCEPT ![b] = [todo |-> connections, stale |-> {}]]
      /\ socket' = socket /\ connections' = connections /\ subscriptions' = subscriptions
      /\ failures' = failures /\ dropped' = dropped /\ UNCHANGED threads
  BY DEF BeginBroadcast
<1>2. ThreadTypes' /\ (\A j \in Kind : ThreadsHold(j)') /\ missed' = missed
      /\ \A j \in Kind : AtWork(j) => AtWork(j)'
  BY <1>1, ThreadsStay
<1>3. SessionTypes'
  BY <1>1, <1>p DEF SessionTypes
<1>4. DemandIsMet'
  BY <1>1, <1>2, <1>p DEF DemandIsMet, Demand
<1>5. OpenIsRegistered'
  <2>1. \A c \in Broadcast : casts'[c].stale = IF c = b THEN {} ELSE casts[c].stale
    BY <1>1, <1>p DEF SessionTypes
  <2> QED BY <2>1, <1>1, <1>p DEF OpenIsRegistered
<1> QED BY <1>2, <1>3, <1>4, <1>5, PartsNext

LEMMA SendHolds == ASSUME HubIInv, NEW b \in Broadcast, NEW w \in Socket, Send(b, w) PROVE HubIInv'
<1>p. SessionTypes /\ DemandIsMet /\ OpenIsRegistered
  BY Parts
<1>1. PICK failed \in {{}, {w}} :
         /\ casts' = [casts EXCEPT ![b] = [todo |-> casts[b].todo \ {w}, stale |-> casts[b].stale \cup failed]]
         /\ \/ failed = {} /\ socket[w] # "gone" /\ UNCHANGED <<failures, dropped>>
            \/ failed = {w} /\ socket[w] # "open" /\ UNCHANGED <<failures, dropped>>
            \/ failed = {w} /\ socket[w] = "open" /\ Failure /\ dropped' = dropped \cup {w}
  BY <1>p DEF Send, SessionTypes
<1>2. socket' = socket /\ connections' = connections /\ subscriptions' = subscriptions
      /\ UNCHANGED threads
  BY DEF Send
<1>3. ThreadTypes' /\ (\A j \in Kind : ThreadsHold(j)') /\ missed' = missed
      /\ \A j \in Kind : AtWork(j) => AtWork(j)'
  BY <1>2, ThreadsStay
<1>4. SessionTypes'
  <2>1. casts[b].todo \subseteq Socket /\ casts[b].stale \subseteq Socket
    BY <1>p DEF SessionTypes
  <2>2. casts' \in [Broadcast -> [todo : SUBSET Socket, stale : SUBSET Socket]]
    BY <2>1, <1>1, <1>p DEF SessionTypes
  <2>3. failures' \in 0..MaxFailures /\ dropped' \subseteq Socket
    BY <1>1, <1>p, FailureCounts DEF SessionTypes
  <2> QED BY <2>2, <2>3, <1>2, <1>p DEF SessionTypes
<1>5. DemandIsMet'
  BY <1>2, <1>3, <1>p DEF DemandIsMet, Demand
<1>6. OpenIsRegistered'
  <2>1. dropped \subseteq dropped'
    BY <1>1
  <2>2. \A c \in Broadcast : casts'[c].stale = IF c = b THEN casts[b].stale \cup failed ELSE casts[c].stale
    BY <1>1, <1>p DEF SessionTypes
  <2>3. w \in failed => socket[w] # "open" \/ w \in dropped'
    BY <1>1
  <2>4. \A c \in Broadcast : \A v \in casts'[c].stale : socket[v] # "open" \/ v \in dropped'
    BY <2>1, <2>2, <2>3, <1>p DEF OpenIsRegistered
  <2> QED BY <2>1, <2>4, <1>2, <1>p DEF OpenIsRegistered
<1> QED BY <1>3, <1>4, <1>5, <1>6, PartsNext

LEMMA EndBroadcastHolds == ASSUME HubIInv, NEW b \in Broadcast, EndBroadcast(b) PROVE HubIInv'
<1>p. SessionTypes /\ OpenIsRegistered
  BY Parts
<1>k. "heartbeat" \in Kind
  BY DEF Kind
<1>1. /\ connections' = connections \ casts[b].stale
      /\ casts' = [casts EXCEPT ![b] = Idle]
      /\ IF LastOneGone(b) THEN Stop("heartbeat") ELSE UNCHANGED threads
      /\ socket' = socket /\ subscriptions' = subscriptions /\ failures' = failures
      /\ dropped' = dropped
  BY DEF EndBroadcast
<1>2. SessionTypes'
  BY <1>1, <1>p DEF SessionTypes, Idle
<1>3. (\A j \in Kind : Demand(j)' \subseteq Demand(j)) /\ Demand("heartbeat")' = connections'
  BY <1>1 DEF Demand
<1>4. ThreadTypes' /\ (\A j \in Kind : ThreadsHold(j)') /\ DemandIsMet'
  <2> DEFINE emptied == LastOneGone(b)
  <2>1. emptied \in BOOLEAN
    BY DEF LastOneGone
  <2>2. IF emptied THEN Stop("heartbeat") ELSE UNCHANGED threads
    BY <1>1
  <2>3. emptied => Demand("heartbeat")' = {}
    BY <1>1, <1>3 DEF LastOneGone
  <2> HIDE DEF emptied
  <2> QED BY <2>1, <2>2, <2>3, <1>3, <1>k, StopsOnlyTheIdle
<1>5. OpenIsRegistered'
  <2>1. \A c \in Broadcast : casts'[c].stale \subseteq casts[c].stale
    BY <1>1, <1>p DEF SessionTypes, Idle
  <2> QED BY <2>1, <1>1, <1>p DEF OpenIsRegistered
<1> QED BY <1>2, <1>4, <1>5, PartsNext

LEMMA SubscribeHolds == ASSUME HubIInv, NEW s \in Symbol, Subscribe(s) PROVE HubIInv'
<1>p. SessionTypes /\ DemandIsMet /\ OpenIsRegistered
  BY Parts
<1>k. "poller" \in Kind
  BY DEF Kind
<1>1. /\ subscriptions' = subscriptions \cup {s}
      /\ Ensure("poller")
      /\ socket' = socket /\ connections' = connections /\ casts' = casts
      /\ failures' = failures /\ dropped' = dropped
  BY DEF Subscribe
<1>2. /\ ThreadTypes'
      /\ \A j \in Kind : ThreadsHold(j)'
      /\ ~missed'["poller"] => AtWork("poller")'
      /\ \A j \in Kind \ {"poller"} : missed'[j] = missed[j] /\ (AtWork(j) => AtWork(j)')
  BY <1>1, <1>k, EnsureServes
<1>3. SessionTypes'
  BY <1>1, <1>p DEF SessionTypes
<1>4. DemandIsMet'
  <2>1. \A j \in Kind \ {"poller"} : Demand(j)' = Demand(j)
    BY <1>1 DEF Demand, Kind
  <2> QED BY <2>1, <1>2, <1>p DEF DemandIsMet
<1>5. OpenIsRegistered'
  BY <1>1, <1>p DEF OpenIsRegistered
<1> QED BY <1>2, <1>3, <1>4, <1>5, PartsNext

LEMMA UnsubscribeHolds == ASSUME HubIInv, NEW s \in Symbol, Unsubscribe(s) PROVE HubIInv'
<1>p. SessionTypes /\ OpenIsRegistered
  BY Parts
<1>k. "poller" \in Kind
  BY DEF Kind
<1>1. /\ subscriptions' = subscriptions \ {s}
      /\ IF subscriptions' = {} THEN Stop("poller") ELSE UNCHANGED threads
      /\ socket' = socket /\ connections' = connections /\ casts' = casts
      /\ failures' = failures /\ dropped' = dropped
  BY DEF Unsubscribe
<1>2. SessionTypes'
  BY <1>1, <1>p DEF SessionTypes
<1>3. (\A j \in Kind : Demand(j)' \subseteq Demand(j)) /\ Demand("poller")' = subscriptions'
  BY <1>1 DEF Demand
<1>4. ThreadTypes' /\ (\A j \in Kind : ThreadsHold(j)') /\ DemandIsMet'
  <2> DEFINE emptied == subscriptions' = {}
  <2>1. emptied \in BOOLEAN
    OBVIOUS
  <2>2. IF emptied THEN Stop("poller") ELSE UNCHANGED threads
    BY <1>1
  <2>3. emptied => Demand("poller")' = {}
    BY <1>3
  <2> HIDE DEF emptied
  <2> QED BY <2>1, <2>2, <2>3, <1>3, <1>k, StopsOnlyTheIdle
<1>5. OpenIsRegistered'
  BY <1>1, <1>p DEF OpenIsRegistered
<1> QED BY <1>2, <1>4, <1>5, PartsNext

LEMMA RunKeepsTheRest == ASSUME HubIInv, NEW k \in Kind, NEW n \in Thread, Run(k, n) PROVE HubIInv'
<1>p. SessionTypes /\ DemandIsMet /\ OpenIsRegistered
  BY Parts
<1>1. socket' = socket /\ connections' = connections /\ subscriptions' = subscriptions
      /\ casts' = casts /\ failures' = failures /\ dropped' = dropped
  BY DEF Run, TestStop, Look, Forget, Clear, session
<1>2. /\ ThreadTypes' /\ \A j \in Kind : ThreadsHold(j)'
      /\ missed' = missed
      /\ \A j \in Kind : Demand(j) # {} /\ AtWork(j) => AtWork(j)'
  BY RunHolds
<1>3. SessionTypes' /\ OpenIsRegistered'
  BY <1>1, <1>p DEF SessionTypes, OpenIsRegistered
<1>4. DemandIsMet'
  BY <1>1, <1>2, <1>p DEF DemandIsMet, Demand
<1> QED BY <1>2, <1>3, <1>4, PartsNext

LEMMA NextHolds == HubIInv /\ [Next]_vars => HubIInv'
<1> SUFFICES ASSUME HubIInv, [Next]_vars PROVE HubIInv'
  OBVIOUS
<1>1. CASE UNCHANGED vars
  BY <1>1 DEF vars, session, threads, HubIInv, TypeOK, ThreadsAreKnown, DemandIsMet, Demand, AtWork,
              OpenIsRegistered
<1>2. CASE Next
  BY <1>2, ConnectHolds, PageClosesHolds, DisconnectHolds, BeginBroadcastHolds, SendHolds,
     EndBroadcastHolds, SubscribeHolds, UnsubscribeHolds, RunKeepsTheRest DEF Next
<1> QED BY <1>1, <1>2

-----------------------------------------------------------------------------
(* The theorems. *)

\* The inductive invariant of the push session.
THEOREM HubInvariant == Spec => []HubIInv
  BY InitHolds, NextHolds, PTL DEF Spec

\* The variables of the session keep their types (register_connection to
\* _run_cli_poller).
THEOREM TypeCorrect == Spec => []TypeOK
<1>1. HubIInv => TypeOK
  BY DEF HubIInv
<1> QED BY <1>1, HubInvariant, PTL

\* No two threads of a kind are at work at the same time (_ensure_heartbeat,
\* _ensure_cli_poller against the end of _run_heartbeat and _run_cli_poller).
THEOREM ThreadsAreAlone == Spec => []OneThreadAtWork
<1>1. HubIInv => OneThreadAtWork
  <2> SUFFICES ASSUME HubIInv, NEW k \in Kind, NEW m \in Thread, NEW n \in Thread,
                      place[k][m] \in Looping, place[k][n] \in Looping
               PROVE  m = n
    BY DEF OneThreadAtWork
  <2>1. known[k] = m /\ known[k] = n
    BY DEF HubIInv, ThreadsAreKnown
  <2> QED BY <2>1
<1> QED BY <1>1, HubInvariant, PTL

\* What is wanted is served, unless the request met a thread that was ending.
THEOREM DemandsAreServed == Spec => []DemandIsServed
<1>1. HubIInv => DemandIsServed
  <2> SUFFICES ASSUME HubIInv PROVE DemandIsServed
    OBVIOUS
  <2>1. "heartbeat" \in Kind /\ Demand("heartbeat") = connections
        /\ "poller" \in Kind /\ Demand("poller") = subscriptions
    BY DEF Kind, Demand
  <2>2. (\E w \in Socket \ dropped : socket[w] = "open") => connections # {}
    BY DEF HubIInv, OpenIsRegistered
  <2> QED BY <2>1, <2>2 DEF HubIInv, DemandIsMet, DemandIsServed
<1> QED BY <1>1, HubInvariant, PTL

-----------------------------------------------------------------------------
(* A service in demand is not interrupted. *)

\* A request leaves a thread that is at work at work.
LEMMA EnsureKeepsService ==
    ASSUME HubIInv, NEW k \in Kind, Ensure(k), NEW j \in Kind, AtWork(j)
    PROVE  AtWork(j)'
  <1>1. CASE j = k
    <2>1. Alive(k)
      BY <1>1 DEF AtWork, Alive, Looping
    <2>2. UNCHANGED <<known, stop, place>>
      BY <2>1 DEF Ensure, LeaveToOld
    <2> QED BY <2>2 DEF AtWork
  <1>2. CASE j # k
    BY <1>2, EnsureServes
  <1> QED BY <1>1, <1>2

\* A stop that is called when the demand has gone interrupts nothing.
LEMMA StopKeepsService ==
    ASSUME HubIInv, NEW k \in Kind, NEW emptied \in BOOLEAN,
           IF emptied THEN Stop(k) ELSE UNCHANGED threads,
           emptied => Demand(k)' = {},
           NEW j \in Kind, AtWork(j), Demand(j)' # {}
    PROVE  AtWork(j)'
  <1>1. CASE emptied
    <2>1. Stop(k) /\ j # k
      BY <1>1
    <2> QED BY <2>1, StopIsLocal
  <1>2. CASE ~emptied
    BY <1>2, ThreadsStay
  <1> QED BY <1>1, <1>2

\* No step takes away a thread that somebody still needs (register_connection to
\* _run_cli_poller), also when an earlier request for it was missed.
THEOREM ServiceStays == Spec => ServiceIsKept
<1> DEFINE Kept == \A k \in Kind : AtWork(k) /\ Demand(k)' # {} => AtWork(k)'
<1>k. "heartbeat" \in Kind /\ "poller" \in Kind
  BY DEF Kind
<1>1. HubIInv /\ [Next]_vars => [Kept]_vars
  <2> SUFFICES ASSUME HubIInv, Next, NEW j \in Kind, AtWork(j), Demand(j)' # {}
               PROVE  AtWork(j)'
    OBVIOUS
  <2>1. ASSUME NEW w \in Socket, Connect(w) PROVE AtWork(j)'
    BY <1>k, <2>1, EnsureKeepsService DEF Connect
  <2>2. ASSUME NEW s \in Symbol, Subscribe(s) PROVE AtWork(j)'
    BY <1>k, <2>2, EnsureKeepsService DEF Subscribe
  <2>3. ASSUME NEW w \in Socket, Disconnect(w) PROVE AtWork(j)'
    <3> DEFINE emptied == connections' = {}
    <3>1. /\ emptied \in BOOLEAN
          /\ IF emptied THEN Stop("heartbeat") ELSE UNCHANGED threads
          /\ emptied => Demand("heartbeat")' = {}
      BY <2>3 DEF Disconnect, Demand
    <3> HIDE DEF emptied
    <3> QED BY <1>k, <3>1, StopKeepsService
  <2>4. ASSUME NEW s \in Symbol, Unsubscribe(s) PROVE AtWork(j)'
    <3> DEFINE emptied == subscriptions' = {}
    <3>1. /\ emptied \in BOOLEAN
          /\ IF emptied THEN Stop("poller") ELSE UNCHANGED threads
          /\ emptied => Demand("poller")' = {}
      BY <2>4 DEF Unsubscribe, Demand
    <3> HIDE DEF emptied
    <3> QED BY <1>k, <3>1, StopKeepsService
  <2>5. ASSUME NEW b \in Broadcast, EndBroadcast(b) PROVE AtWork(j)'
    <3> DEFINE emptied == LastOneGone(b)
    <3>1. /\ emptied \in BOOLEAN
          /\ IF emptied THEN Stop("heartbeat") ELSE UNCHANGED threads
          /\ emptied => Demand("heartbeat")' = {}
      BY <2>5 DEF EndBroadcast, Demand, LastOneGone
    <3> HIDE DEF emptied
    <3> QED BY <1>k, <3>1, StopKeepsService
  <2>6. ASSUME UNCHANGED threads PROVE AtWork(j)'
    BY <2>6, ThreadsStay
  <2>7. ASSUME NEW w \in Socket, PageCloses(w) PROVE UNCHANGED threads
    BY <2>7 DEF PageCloses
  <2>8. ASSUME NEW b \in Broadcast, BeginBroadcast(b) \/ \E w \in Socket : Send(b, w)
        PROVE  UNCHANGED threads
    BY <2>8 DEF BeginBroadcast, Send
  <2>9. ASSUME NEW k \in Kind, NEW n \in Thread, Run(k, n) PROVE AtWork(j)'
    <3>1. Demand(j)' = Demand(j)
      BY <2>9 DEF Run, TestStop, Look, Forget, Clear, Demand, session
    <3> QED BY <2>9, <3>1, RunHolds
  <2> QED BY <2>1, <2>2, <2>3, <2>4, <2>5, <2>6, <2>7, <2>8, <2>9 DEF Next
<1> QED BY <1>1, HubInvariant, PTL DEF Spec, ServiceIsKept

=============================================================================
