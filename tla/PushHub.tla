------------------------------- MODULE PushHub -------------------------------
(***************************************************************************)
(* The push session of one user in the market service                      *)
(* (LongbridgePushSession).  Everything that a page asks for, over its     *)
(* WebSocket or over HTTP, runs on the event loop and is interrupted only  *)
(* at an await.  Beside it run two kinds of threads that are started when  *)
(* they are needed and told to stop when they are not: the heartbeat, as   *)
(* long as a socket is registered, and the poller of the Longbridge CLI    *)
(* (with LONGBRIDGE_CLI_PUSH_POLLING_ENABLED), as long as a symbol is      *)
(* subscribed.  Nobody joins a thread: it tells of its own end by clearing *)
(* the session's reference to it and then the stop event, and these two    *)
(* statements and the tests of its loop interleave with the event loop.    *)
(***************************************************************************)
EXTENDS Naturals, FiniteSets

CONSTANTS
    Socket,      \* WebSockets of the pages; one that is gone stands for a new one
    Symbol,      \* what can be subscribed
    Thread,      \* threads of one kind; one that has ended stands for a new one
    Broadcast,   \* coroutines that send an event to the sockets
    None,        \* no thread
    MaxFailures  \* bound: sends to an open socket, and handlers, that fail

ASSUME NoneAssumption == None \notin Thread
ASSUME BoundAssumption == MaxFailures \in Nat

Kind == {"heartbeat", "poller"}

VARIABLES
    socket,         \* socket[w]: "gone", "open", or "closed" by the page and not yet left by the handler
    connections,    \* _connections
    subscriptions,  \* _quote_subscriptions
    casts,          \* casts[b]: the sockets a broadcast has yet to serve, and those that failed
    known,          \* known[k]: _heartbeat_thread, _cli_poller_thread
    stop,           \* stop[k]: _heartbeat_stop, _cli_poller_stop
    place,          \* place[k][n]: where thread n stands
    \* history: a count for the bound, and what the properties are told
    failures,
    dropped,        \* open sockets to which a send failed
    missed          \* missed[k]: the last request for a thread was left to one that was ending

session == <<connections, subscriptions, casts>>
threads == <<known, stop, place, missed>>
vars == <<socket, session, threads, failures, dropped>>

Idle == [todo |-> {}, stale |-> {}]
Looping == {"loop", "checked"}

Init ==
    /\ socket = [w \in Socket |-> "gone"]
    /\ connections = {}
    /\ subscriptions = {}
    /\ casts = [b \in Broadcast |-> Idle]
    /\ known = [k \in Kind |-> None]
    /\ stop = [k \in Kind |-> FALSE]
    /\ place = [k \in Kind |-> [n \in Thread |-> "ended"]]
    /\ failures = 0
    /\ dropped = {}
    /\ missed = [k \in Kind |-> FALSE]

Failure == failures < MaxFailures /\ failures' = failures + 1

\* What a thread of kind k is there for.
Demand(k) == IF k = "heartbeat" THEN connections ELSE subscriptions

-----------------------------------------------------------------------------
(* Starting and stopping a thread, from the event loop. *)

Alive(k) == known[k] # None /\ place[k][known[k]] # "ended"

Launch(k) ==
    \E n \in Thread :
        /\ place[k][n] = "ended"
        /\ known' = [known EXCEPT ![k] = n]
        /\ place' = [place EXCEPT ![k][n] = "loop"]
        /\ stop' = [stop EXCEPT ![k] = FALSE]
        /\ missed' = [missed EXCEPT ![k] = FALSE]

\* A thread that was told to stop, or has left its loop, is alive all the same.
LeaveToOld(k) ==
    /\ missed' = [missed EXCEPT ![k] = @ \/ stop[k] \/ place[k][known[k]] \notin Looping]
    /\ UNCHANGED <<known, stop, place>>

\* Defect: a thread that was told to stop is not counted on.
EnsureUnlessStopping(k) == IF Alive(k) /\ ~stop[k] THEN LeaveToOld(k) ELSE Launch(k)

\* _ensure_heartbeat, _ensure_cli_poller.
Ensure(k) == IF Alive(k) THEN LeaveToOld(k) ELSE Launch(k)

\* _stop_heartbeat, and _stop_cli_poller, which leaves the event alone if
\* there is no thread.
Stop(k) ==
    /\ stop' = [stop EXCEPT ![k] = @ \/ k = "heartbeat" \/ known[k] # None]
    /\ UNCHANGED <<known, place, missed>>

-----------------------------------------------------------------------------
(* The event loop. *)

\* A socket that no broadcast remembers.
Fresh(w) == socket[w] = "gone" /\ \A b \in Broadcast : w \notin casts[b].todo \cup casts[b].stale

\* register_connection.
Connect(w) ==
    /\ Fresh(w)
    /\ socket' = [socket EXCEPT ![w] = "open"]
    /\ connections' = connections \cup {w}
    /\ dropped' = dropped \ {w}
    /\ Ensure("heartbeat")
    /\ UNCHANGED <<subscriptions, casts, failures>>

PageCloses(w) ==
    /\ socket[w] = "open"
    /\ socket' = [socket EXCEPT ![w] = "closed"]
    /\ UNCHANGED <<session, threads, failures, dropped>>

\* The handler ends, because the page has gone or because the first message or
\* an answer could not be sent: unregister_connection.
Disconnect(w) ==
    /\ \/ socket[w] = "closed" /\ UNCHANGED failures
       \/ socket[w] = "open" /\ Failure
    /\ socket' = [socket EXCEPT ![w] = "gone"]
    /\ connections' = connections \ {w}
    /\ IF connections' = {} THEN Stop("heartbeat") ELSE UNCHANGED threads
    /\ UNCHANGED <<subscriptions, casts, dropped>>

\* _broadcast, from its list of the connections ...
BeginBroadcast(b) ==
    /\ casts[b] = Idle
    /\ connections # {}
    /\ casts' = [casts EXCEPT ![b] = [todo |-> connections, stale |-> {}]]
    /\ UNCHANGED <<socket, connections, subscriptions, threads, failures, dropped>>

\* ... over the sends, each of which may wait; that a page has gone shows in
\* the state of its socket or when the send raises, or not at all ...
Send(b, w) ==
    /\ w \in casts[b].todo
    /\ \E failed \in {{}, {w}} :
          /\ casts' = [casts EXCEPT ![b] = [todo |-> @.todo \ {w}, stale |-> @.stale \cup failed]]
          /\ \/ failed = {} /\ socket[w] # "gone" /\ UNCHANGED <<failures, dropped>>
             \/ failed = {w} /\ socket[w] # "open" /\ UNCHANGED <<failures, dropped>>
             \/ failed = {w} /\ socket[w] = "open" /\ Failure /\ dropped' = dropped \cup {w}
    /\ UNCHANGED <<socket, connections, subscriptions, threads>>

\* Defect: the heartbeat is stopped as soon as a socket was stale.
LastOneGoneAssumed(b) == casts[b].stale # {}

\* ... to its end, where the stale sockets are unregistered.
LastOneGone(b) == casts[b].stale # {} /\ connections \ casts[b].stale = {}

EndBroadcast(b) ==
    /\ casts[b] # Idle
    /\ casts[b].todo = {}
    /\ connections' = connections \ casts[b].stale
    /\ casts' = [casts EXCEPT ![b] = Idle]
    /\ IF LastOneGone(b) THEN Stop("heartbeat") ELSE UNCHANGED threads
    /\ UNCHANGED <<socket, subscriptions, failures, dropped>>

Subscribe(s) ==
    /\ subscriptions' = subscriptions \cup {s}
    /\ Ensure("poller")
    /\ UNCHANGED <<socket, connections, casts, failures, dropped>>

Unsubscribe(s) ==
    /\ subscriptions' = subscriptions \ {s}
    /\ IF subscriptions' = {} THEN Stop("poller") ELSE UNCHANGED threads
    /\ UNCHANGED <<socket, connections, casts, failures, dropped>>

-----------------------------------------------------------------------------
(* A thread. *)

Move(k, n, from, to) ==
    /\ place[k][n] = from
    /\ place' = [place EXCEPT ![k][n] = to]

\* The test at the head of the loop; the heartbeat waits in it, the poller
\* comes to it from its requests and its own wait.
TestStop(k, n) ==
    /\ Move(k, n, "loop", IF stop[k] THEN "left" ELSE "checked")
    /\ UNCHANGED <<socket, session, known, stop, missed, failures, dropped>>

\* Defect: the thread ends when it is told to and not otherwise.
LookNowhere(k, n) ==
    /\ Move(k, n, "checked", "loop")
    /\ UNCHANGED <<socket, session, known, stop, missed, failures, dropped>>

\* Without a demand the loop is left; otherwise the heartbeat schedules its
\* message, and the poller polls what is subscribed.
Look(k, n) ==
    /\ Move(k, n, "checked", IF Demand(k) = {} THEN "left" ELSE "loop")
    /\ UNCHANGED <<socket, session, known, stop, missed, failures, dropped>>

\* Defect: the reference is kept.
ForgetNothing(k, n) ==
    /\ Move(k, n, "left", "forgotten")
    /\ UNCHANGED <<socket, session, known, stop, missed, failures, dropped>>

\* self._heartbeat_thread = None
Forget(k, n) ==
    /\ Move(k, n, "left", "forgotten")
    /\ known' = [known EXCEPT ![k] = None]
    /\ UNCHANGED <<socket, session, stop, missed, failures, dropped>>

\* self._heartbeat_stop.clear(), whoever set it and for whom
Clear(k, n) ==
    /\ Move(k, n, "forgotten", "ended")
    /\ stop' = [stop EXCEPT ![k] = FALSE]
    /\ UNCHANGED <<socket, session, known, missed, failures, dropped>>

Run(k, n) == TestStop(k, n) \/ Look(k, n) \/ Forget(k, n) \/ Clear(k, n)

Next ==
    \/ \E w \in Socket : Connect(w) \/ PageCloses(w) \/ Disconnect(w)
    \/ \E b \in Broadcast : BeginBroadcast(b) \/ EndBroadcast(b) \/ \E w \in Socket : Send(b, w)
    \/ \E s \in Symbol : Subscribe(s) \/ Unsubscribe(s)
    \/ \E k \in Kind, n \in Thread : Run(k, n)

Spec == Init /\ [][Next]_vars

\* The threads run, as daemon threads do; the pages need not do anything.
FairSpec == Spec /\ \A k \in Kind, n \in Thread : WF_vars(Run(k, n))

-----------------------------------------------------------------------------
(* Properties. *)

Place == Looping \cup {"left", "forgotten", "ended"}

\* The variables keep their types, and the session's reference is to a thread
\* that has not yet told of its end.
TypeOK ==
    /\ socket \in [Socket -> {"gone", "open", "closed"}]
    /\ connections \subseteq Socket
    /\ subscriptions \subseteq Symbol
    /\ casts \in [Broadcast -> [todo : SUBSET Socket, stale : SUBSET Socket]]
    /\ known \in [Kind -> Thread \cup {None}]
    /\ stop \in [Kind -> BOOLEAN]
    /\ place \in [Kind -> [Thread -> Place]]
    /\ failures \in 0..MaxFailures
    /\ dropped \subseteq Socket
    /\ missed \in [Kind -> BOOLEAN]
    /\ \A k \in Kind : known[k] # None => place[k][known[k]] \in Looping \cup {"left"}

\* However starts, stops and the threads' last statements interleave, no two
\* threads of a kind send heartbeats, or poll, at the same time.
OneThreadAtWork ==
    \A k \in Kind : \A m, n \in Thread :
        place[k][m] \in Looping /\ place[k][n] \in Looping => m = n

\* The thread that the session knows is in its loop and will stay there.
AtWork(k) ==
    /\ known[k] # None
    /\ place[k][known[k]] \in Looping
    /\ ~stop[k]

\* A page that is open, and to which no send has failed, has a heartbeat, and a
\* symbol that is subscribed has a poller: neither the stop of an earlier
\* thread, nor its belated clearing of the event, nor the pruning of other
\* sockets takes it away.  The one exception is that the last request for a
\* thread met one that was about to end.
DemandIsServed ==
    /\ ~missed["heartbeat"] /\ (\E w \in Socket \ dropped : socket[w] = "open") => AtWork("heartbeat")
    /\ ~missed["poller"] /\ subscriptions # {} => AtWork("poller")

\* A service that is at work is kept as long as it is in demand, whether or not an
\* earlier request was missed: the departure of one page, the pruning of stale
\* sockets and the last statements of an earlier thread end it only when nobody is
\* left who needs it.
ServiceIsKept == [][\A k \in Kind : AtWork(k) /\ Demand(k)' # {} => AtWork(k)']_vars

\* When the pages leave for good, or nothing is subscribed any more, the last
\* thread ends, although a thread that ended before it may have erased the stop.
IdleThreadsEnd ==
    \A k \in Kind : <>[](Demand(k) = {}) => <>[](\A n \in Thread : place[k][n] = "ended")

\* The inductive strengthening of the two invariants: the session knows the
\* thread that has not come to the end, ...
ThreadsAreKnown ==
    \A k \in Kind : \A n \in Thread : place[k][n] \in Looping \cup {"left"} => known[k] = n

\* ... which works on unless there is nothing to do or the request was missed, ...
DemandIsMet == \A k \in Kind : Demand(k) # {} /\ ~missed[k] => AtWork(k)

\* ... and only sockets that closed or failed are unregistered.
OpenIsRegistered ==
    /\ \A w \in Socket \ dropped : socket[w] = "open" => w \in connections
    /\ \A b \in Broadcast : \A w \in casts[b].stale : socket[w] # "open" \/ w \in dropped

HubIInv == TypeOK /\ ThreadsAreKnown /\ DemandIsMet /\ OpenIsRegistered

=============================================================================
