----------------------------- MODULE Connector -----------------------------
(***************************************************************************)
(* lib/components/connector.js with the sockets of lib/connectors: the     *)
(* life of client connections in a frontend server.                        *)
(*                                                                         *)
(* A connection is accepted, passes the host filter (whose black list may  *)
(* be fetched asynchronously), is counted against max-connections and gets *)
(* a session; it ends when the client closes it, on an error, on a         *)
(* heartbeat timeout or by a kick.  Handlers bind and unbind users at any  *)
(* moment.  SessionService and ConnectionService are composed with it:     *)
(* their operations are called by the listeners the connector installs.    *)
(*                                                                         *)
(* Calls run to their end, so a step is a whole callback.  The queue of    *)
(* process.nextTick is emptied before the event loop takes the next I/O    *)
(* event or timer (Macrotask); application code, which runs inside         *)
(* callbacks of every kind, may act between two entries of the queue.      *)
(***************************************************************************)
EXTENDS Integers, FiniteSets

CONSTANTS Sids,            \* one id for each socket ever accepted (curId++)
          Uids, FalsyUids, NoUid, SingleSession,
          MaxConnections,  \* curServer['max-connections']; 0: not configured
          HostFilter,      \* useHostFilter, with an asynchronous blacklistFun
          SyncSids         \* sockets whose disconnect() emits 'disconnect' before
                           \* it returns (hybridsocket, udpsocket); that of the
                           \* others comes later (mqttsocket)

ASSUME ConnectorAssumption == /\ FalsyUids \subseteq Uids
                              /\ NoUid \notin Uids
                              /\ SingleSession \in BOOLEAN
                              /\ MaxConnections \in Nat
                              /\ HostFilter \in BOOLEAN
                              /\ SyncSids \subseteq Sids

VARIABLES sessions, state, uid, uidMap, ticks,      \* SessionService
          connCount, loginedCount, logined,         \* ConnectionService
          sock,            \* sock[s]: "new", "open" or "closed" (socket.state)
          wire,            \* sockets whose transport has not closed yet
          filtering,       \* sockets that wait for blacklistFun's answer
          listening,       \* sockets with the listeners of bindEvents
          released         \* those whose `closed` flag is set: counted out

SS == INSTANCE SessionService
CS == INSTANCE ConnectionService

sessionVars == <<sessions, state, uid, uidMap, ticks>>
statVars == <<connCount, loginedCount, logined>>
socketVars == <<sock, wire, filtering, listening, released>>
vars == <<sessions, state, uid, uidMap, ticks,
          connCount, loginedCount, logined,
          sock, wire, filtering, listening, released>>

TypeOK == /\ SS!TypeOK
          /\ CS!TypeOK
          /\ sock \in [Sids -> {"new", "open", "closed"}]
          /\ wire \subseteq Sids
          /\ filtering \subseteq Sids
          /\ listening \subseteq Sids
          /\ released \subseteq listening

Init == /\ SS!Init
        /\ CS!Init
        /\ sock = [s \in Sids |-> "new"]
        /\ wire = {}
        /\ filtering = {}
        /\ listening = {}
        /\ released = {}

\* The event loop only takes an I/O event or a timer with no tick queued.
Macrotask == ticks = {}

-----------------------------------------------------------------------------
(* What the callbacks are made of *)

CountOutTwice(s) == IF s \notin listening
                    THEN UNCHANGED <<statVars, released>>
                    ELSE /\ CS!DecreaseConnectionCount(uid[s])
                         /\ released' = released \cup {s}

\* The last listener of 'disconnect' and 'error', with its flag `closed`:
\* a connection is counted out once.  Before bindEvents nobody listens.
CountOut(s) == IF s \notin listening \ released
               THEN UNCHANGED <<statVars, released>>
               ELSE /\ CS!DecreaseConnectionCount(uid[s])
                    /\ released' = released \cup {s}

SocketEventKeepsSession(s) == CountOut(s) /\ UNCHANGED sessionVars
SocketEventSkipsKicked(s) == IF state[s] = "inited"
                             THEN SS!Closed(s) /\ CountOut(s)
                             ELSE UNCHANGED <<sessionVars, statVars, released>>

\* A 'disconnect' or 'error' event of socket s reaches session.closed first.
SocketEvent(s) ==
    /\ IF state[s] = "inited" THEN SS!Closed(s) ELSE UNCHANGED sessionVars
    /\ CountOut(s)

\* socket.disconnect(): nothing on a closed socket; otherwise the socket is
\* closed and, if that is synchronous and the transport has not closed
\* before, it emits 'disconnect' on the way.
Disconnect(s) ==
    /\ sock' = [sock EXCEPT ![s] = "closed"]
    /\ IF sock[s] = "open" /\ s \in SyncSids /\ s \in wire
       THEN wire' = wire \ {s} /\ CountOut(s)
       ELSE UNCHANGED <<wire, statVars, released>>

CountIn == IF MaxConnections # 0
           THEN CS!IncreaseConnectionCount
           ELSE UNCHANGED statVars

\* statisticInfo.totalConnCount > maxConnections, after counting in.
OverLimit == MaxConnections # 0 /\ connCount + 1 > MaxConnections

\* bindEvents, with `up` the transports alive by then: over the limit the
\* socket is dropped with no session and no listener; else it gets both.
BindEvents(s, up) ==
    /\ CountIn
    /\ IF OverLimit
       THEN /\ sock' = [sock EXCEPT ![s] = "closed"]
            /\ wire' = IF s \in SyncSids THEN up \ {s} ELSE up
            /\ UNCHANGED <<sessionVars, listening>>
       ELSE /\ sock' = [sock EXCEPT ![s] = IF @ = "new" THEN "open" ELSE @]
            /\ wire' = up
            /\ SS!Create(s)
            /\ listening' = listening \cup {s}
    /\ UNCHANGED released

-----------------------------------------------------------------------------
(* Connections arrive *)

\* The connector's 'connection' event reaches bindEvents at once, or waits for
\* the black list.
Accept(s) == /\ sock[s] = "new"
             /\ Macrotask
             /\ BindEvents(s, wire \cup {s})
             /\ UNCHANGED filtering

AcceptAndFilter(s) == /\ sock[s] = "new"
                      /\ Macrotask
                      /\ HostFilter
                      /\ sock' = [sock EXCEPT ![s] = "open"]
                      /\ wire' = wire \cup {s}
                      /\ filtering' = filtering \cup {s}
                      /\ UNCHANGED <<sessionVars, statVars, listening, released>>

\* blacklistFun answers (or fails): bindEvents runs, whatever has become of
\* the socket in the meantime.
FilterPass(s) == /\ s \in filtering
                 /\ filtering' = filtering \ {s}
                 /\ BindEvents(s, wire)

\* The address is on one of the lists.
FilterBlock(s) == /\ s \in filtering
                  /\ filtering' = filtering \ {s}
                  /\ Disconnect(s)
                  /\ UNCHANGED <<sessionVars, listening>>

-----------------------------------------------------------------------------
(* Connections end *)

\* The client closes the connection; the socket object is not told to close.
PeerClose(s) == /\ s \in wire /\ sock[s] = "open"
                /\ Macrotask
                /\ wire' = wire \ {s}
                /\ SocketEvent(s)
                /\ UNCHANGED <<sock, filtering, listening>>

\* The transport of a socket that disconnect() destroyed reports its close.
TransportClosed(s) == /\ s \in wire /\ sock[s] = "closed"
                      /\ Macrotask
                      /\ wire' = wire \ {s}
                      /\ SocketEvent(s)
                      /\ UNCHANGED <<sock, filtering, listening>>

\* An 'error' event, or the 'disconnect' packet of MQTT: the transport is
\* still there afterwards.  With no listener of bindEvents it would throw.
SocketError(s) == /\ s \in wire /\ s \in listening
                  /\ Macrotask
                  /\ SocketEvent(s)
                  /\ UNCHANGED <<sock, wire, filtering, listening>>

\* A heartbeat timeout or a package of no known type: socket.disconnect() from
\* a macrotask, so its 'disconnect' event may find the session still open.
ServerDisconnect(s) == /\ s \in wire /\ sock[s] = "open" /\ s \in SyncSids
                       /\ Macrotask
                       /\ sock' = [sock EXCEPT ![s] = "closed"]
                       /\ wire' = wire \ {s}
                       /\ SocketEvent(s)
                       /\ UNCHANGED <<filtering, listening>>

\* The disconnect() that session.closed left to the next tick.
Tick(s) == /\ SS!DisconnectTick(s)
           /\ Disconnect(s)
           /\ UNCHANGED <<filtering, listening>>

-----------------------------------------------------------------------------
(* Calls of the application, from handlers, remotes and event listeners *)

\* session.bind emits 'bind': the user is logged in.
Bind(s, u) == SS!Bind(s, u) /\ CS!AddLoginedUser(u) /\ UNCHANGED socketVars

\* session.unbind emits 'unbind'.
Unbind(s, u) == SS!Unbind(s, u) /\ CS!RemoveLoginedUser(u) /\ UNCHANGED socketVars

Kick(u) == SS!Kick(u) /\ UNCHANGED <<statVars, socketVars>>

KickBySessionId(s) == SS!KickBySessionId(s) /\ UNCHANGED <<statVars, socketVars>>

Next == \/ \E s \in Sids : \/ Accept(s)
                           \/ AcceptAndFilter(s)
                           \/ FilterPass(s)
                           \/ FilterBlock(s)
                           \/ PeerClose(s)
                           \/ TransportClosed(s)
                           \/ SocketError(s)
                           \/ ServerDisconnect(s)
                           \/ Tick(s)
                           \/ KickBySessionId(s)
        \/ \E s \in Sids, u \in Uids : Bind(s, u) \/ Unbind(s, u)
        \/ \E u \in Uids : Kick(u)

Spec == Init /\ [][Next]_vars

\* Node empties the tick queue, and a destroyed transport reports its close.
\* Nothing is assumed of clients, of the application or of blacklistFun.
Fairness == \A s \in Sids : WF_vars(Tick(s)) /\ WF_vars(TransportClosed(s))

FairSpec == Spec /\ Fairness

-----------------------------------------------------------------------------
(* Properties *)

\* The connections that have listeners and have not been counted out.
Counted == listening \ released

\* A connection is counted in before its session exists and counted out once,
\* so the statistics never show fewer connections than there are, and
\* bindEvents admits no more than max-connections at a time, whatever mixture
\* of closes, errors, kicks and timeouts ends them.
CountCoversConnections == MaxConnections # 0 =>
    /\ Cardinality(Counted) <= connCount
    /\ Cardinality(Counted) <= MaxConnections

\* A registered session always belongs to a counted connection: no event order
\* counts a connection out and leaves its session behind.
SessionsAreCounted == sessions \subseteq Counted

\* Every user on the list of logged in users has a connection that has not
\* been counted out and is still his: no ghost stays on the list.
NoGhostLogin == \A u \in logined \ FalsyUids : \E s \in Counted : uid[s] = u

\* loginedCount is the length of the list it is reported with.
LoginedCountExact == loginedCount = Cardinality(logined)

\* A connection whose session is closed, by whatever party, before its transport
\* is, is counted out in the end, so that its place is free again.
ClosedIsCountedOut ==
    \A s \in Sids : (state[s] = "closed" /\ s \in wire) ~> s \in released

\* "Session maintains the relationship between client connection and user
\* information. There is a session associated with each client connection"
\* (sessionService.js l. 423): a registered session's connection exists.
SessionHasConnection == \A s \in sessions : s \in wire
=============================================================================
