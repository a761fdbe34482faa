-------------------------- MODULE Connector_proofs --------------------------
(***************************************************************************)
(* Proofs about Connector, for any number of sockets, any max-connections, *)
(* either kind of socket, with and without the host filter.                *)
(***************************************************************************)
EXTENDS Connector, FiniteSetTheorems, TLAPS

SSP == INSTANCE SessionService_proofs

-----------------------------------------------------------------------------
(* Every step is a step of the session service *)

LEMMA StepSessions == [Next]_vars => [SS!Next]_sessionVars
<1> SUFFICES ASSUME [Next]_vars PROVE [SS!Next]_sessionVars
  OBVIOUS
<1>1. ASSUME NEW s \in Sids, NEW up, BindEvents(s, up) PROVE [SS!Next]_sessionVars
  BY <1>1 DEF BindEvents, SS!Next
<1>2. ASSUME NEW s \in Sids, SocketEvent(s) PROVE [SS!Next]_sessionVars
  BY <1>2 DEF SocketEvent, SS!Next
<1>3. ASSUME NEW s \in Sids, Accept(s) \/ FilterPass(s) PROVE [SS!Next]_sessionVars
  BY <1>3, <1>1 DEF Accept, FilterPass
<1>4. ASSUME NEW s \in Sids, AcceptAndFilter(s) \/ FilterBlock(s)
      PROVE  [SS!Next]_sessionVars
  BY <1>4 DEF AcceptAndFilter, FilterBlock
<1>5. ASSUME NEW s \in Sids,
             PeerClose(s) \/ TransportClosed(s) \/ SocketError(s) \/ ServerDisconnect(s)
      PROVE  [SS!Next]_sessionVars
  BY <1>5, <1>2 DEF PeerClose, TransportClosed, SocketError, ServerDisconnect
<1>6. ASSUME NEW s \in Sids, Tick(s) \/ KickBySessionId(s) PROVE [SS!Next]_sessionVars
  BY <1>6 DEF Tick, KickBySessionId, SS!Next
<1>7. ASSUME NEW s \in Sids, NEW u \in Uids, Bind(s, u) \/ Unbind(s, u)
      PROVE  [SS!Next]_sessionVars
  BY <1>7 DEF Bind, Unbind, SS!Next
<1>8. ASSUME NEW u \in Uids, Kick(u) PROVE [SS!Next]_sessionVars
  BY <1>8 DEF Kick, SS!Next
<1>9. CASE UNCHANGED vars
  BY <1>9 DEF vars, sessionVars
<1> QED
  BY <1>3, <1>4, <1>5, <1>6, <1>7, <1>8, <1>9 DEF Next

\* The session service's own invariant holds inside the connector.
LEMMA SessionsInv == Spec => []SSP!IInv
<1>1. Init => SSP!IInv
  BY ConnectorAssumption, SSP!InitIInv DEF Init, SS!Init, SSP!Init
<1>2. SSP!IInv /\ [Next]_vars => SSP!IInv'
  <2>1. [Next]_vars => [SSP!Next]_(SSP!sessionVars)
    BY StepSessions
       DEF sessionVars, SSP!sessionVars, SS!Next, SSP!Next, SS!Create, SSP!Create,
           SS!Closed, SSP!Closed, SS!KickBySessionId, SSP!KickBySessionId,
           SS!DisconnectTick, SSP!DisconnectTick, SS!Bind, SSP!Bind, SS!Attach,
           SSP!Attach, SS!Bound, SSP!Bound, SS!Unbind, SSP!Unbind, SS!Kick, SSP!Kick,
           SS!KickClosed, SSP!KickClosed, SS!Close, SSP!Close
  <2> QED BY <2>1, ConnectorAssumption, SSP!StepIInv
<1> QED BY <1>1, <1>2, PTL DEF Spec

-----------------------------------------------------------------------------
(* Sockets.  One that is new or waits for the black list has no session.   *)

SocketInv == /\ sock \in [Sids -> {"new", "open", "closed"}]
             /\ wire \subseteq Sids
             /\ filtering \subseteq Sids
             /\ \A s \in Sids : sock[s] = "new" \/ s \in filtering => state[s] = "none"
             /\ \A s \in filtering : sock[s] # "new"

LEMMA StepSockets == SSP!IInv /\ SocketInv /\ [Next]_vars => SocketInv'
<1> SUFFICES ASSUME SSP!IInv, SocketInv, [Next]_vars PROVE SocketInv'
  OBVIOUS
<1> USE DEF SocketInv, SSP!IInv, SSP!TypeOK, SSP!RegisteredIffOpen
<1> USE DEF sessionVars, statVars, socketVars
<1>1. ASSUME NEW s \in Sids, Accept(s) PROVE SocketInv'
  BY <1>1 DEF Accept, BindEvents, SS!Create
<1>2. ASSUME NEW s \in Sids, FilterPass(s) PROVE SocketInv'
  BY <1>2 DEF FilterPass, BindEvents, SS!Create
<1>3. ASSUME NEW s \in Sids, AcceptAndFilter(s) PROVE SocketInv'
  BY <1>3 DEF AcceptAndFilter
<1>4. ASSUME NEW s \in Sids, Disconnect(s) PROVE /\ sock' = [sock EXCEPT ![s] = "closed"]
                                                /\ wire' \subseteq wire
  BY <1>4 DEF Disconnect
<1>5. ASSUME NEW s \in Sids, FilterBlock(s) PROVE SocketInv'
  BY <1>4, <1>5 DEF FilterBlock
<1>6. ASSUME NEW s \in Sids, Tick(s) PROVE SocketInv'
  BY <1>4, <1>6 DEF Tick, SS!DisconnectTick
<1>7. ASSUME NEW S \in SUBSET sessions, SS!Close(S)
      PROVE  \A t \in Sids : state[t] = "none" => state'[t] = "none"
  BY <1>7 DEF SS!Close
<1>8. ASSUME NEW s \in Sids, SocketEvent(s)
      PROVE  \A t \in Sids : state[t] = "none" => state'[t] = "none"
  BY <1>7, <1>8 DEF SocketEvent, SS!Closed
<1>9. ASSUME NEW s \in Sids, PeerClose(s) \/ TransportClosed(s) \/ SocketError(s)
      PROVE  SocketInv'
  BY <1>8, <1>9 DEF PeerClose, TransportClosed, SocketError
<1>10. ASSUME NEW s \in Sids, ServerDisconnect(s) PROVE SocketInv'
  BY <1>8, <1>10 DEF ServerDisconnect
<1>11. ASSUME NEW s \in Sids, NEW u \in Uids, Bind(s, u) \/ Unbind(s, u) PROVE SocketInv'
  BY <1>11 DEF Bind, Unbind, SS!Bind, SS!Attach, SS!Unbind
<1>12. ASSUME NEW s \in Sids, KickBySessionId(s) PROVE SocketInv'
  BY <1>7, <1>12 DEF KickBySessionId, SS!KickBySessionId
<1>13. ASSUME NEW u \in Uids, Kick(u) PROVE SocketInv'
  BY <1>7, <1>13 DEF Kick, SS!Kick, SS!KickClosed
<1>14. CASE UNCHANGED vars
  BY <1>14 DEF vars
<1> QED
  BY <1>1, <1>2, <1>3, <1>5, <1>6, <1>9, <1>10, <1>11, <1>12, <1>13, <1>14 DEF Next

-----------------------------------------------------------------------------
(* Counting connections.  A socket's listeners and its session appear      *)
(* together, and an open session's connection has not been counted out:    *)
(* the first two conjuncts carry the count through every way to end.       *)

CountInv == /\ \A s \in Sids : s \in listening <=> state[s] # "none"
            /\ SessionsAreCounted
            /\ listening \subseteq Sids /\ IsFiniteSet(listening)
            /\ released \subseteq listening
            /\ connCount \in Nat
            /\ CountCoversConnections

\* No session appears.
NoneAppears == /\ sessions' \subseteq sessions
               /\ \A s \in Sids : state'[s] = "none" <=> state[s] = "none"

\* As far as counts go a step ends a connection, admits or rejects one, or is
\* a call that leaves listeners and counts alone.
Ended(s) == CountOut(s) /\ NoneAppears /\ s \notin sessions' /\ UNCHANGED listening

Admitted(s) == /\ CountIn /\ ~OverLimit
               /\ SS!Create(s)
               /\ listening' = listening \cup {s}
               /\ UNCHANGED released

Rejected == CountIn /\ NoneAppears /\ UNCHANGED <<listening, released>>

Called == NoneAppears /\ UNCHANGED <<connCount, listening, released>>

LEMMA StepKinds ==
  ASSUME SSP!IInv, SocketInv, [Next]_vars
  PROVE  \/ \E s \in Sids : Ended(s) \/ Admitted(s)
         \/ Rejected
         \/ Called
<1> USE DEF SSP!IInv, SSP!TypeOK, SSP!RegisteredIffOpen
<1> USE DEF sessionVars, statVars, socketVars, NoneAppears
<1>1. ASSUME NEW s \in Sids, Accept(s) \/ FilterPass(s) PROVE Admitted(s) \/ Rejected
  BY <1>1 DEF Accept, FilterPass, BindEvents, Admitted, Rejected
<1>2. ASSUME NEW s \in Sids, AcceptAndFilter(s) PROVE Called
  BY <1>2 DEF AcceptAndFilter, Called
<1>3. ASSUME NEW S \in SUBSET sessions, SS!Close(S) PROVE NoneAppears
  BY <1>3 DEF SS!Close
<1>4. ASSUME NEW s \in Sids, SocketEvent(s), UNCHANGED listening PROVE Ended(s)
  <2>1. CASE state[s] = "inited"
    <3>1. SS!Close({s}) /\ CountOut(s) /\ {s} \in SUBSET sessions
      BY <1>4, <2>1 DEF SocketEvent, SS!Closed
    <3> QED BY <1>3, <1>4, <3>1 DEF Ended, SS!Close
  <2>2. CASE state[s] # "inited"
    BY <1>4, <2>2 DEF SocketEvent, Ended
  <2> QED BY <2>1, <2>2
<1>5. ASSUME NEW s \in Sids,
             PeerClose(s) \/ TransportClosed(s) \/ SocketError(s) \/ ServerDisconnect(s)
      PROVE  Ended(s)
  BY <1>4, <1>5 DEF PeerClose, TransportClosed, SocketError, ServerDisconnect
<1>6. ASSUME NEW s \in Sids, Disconnect(s), UNCHANGED <<sessions, state, listening>>,
             s \notin sessions
      PROVE  Ended(s) \/ Called
  BY <1>6 DEF Disconnect, Ended, Called
<1>7. ASSUME NEW s \in Sids, Tick(s) PROVE Ended(s) \/ Called
  BY <1>6, <1>7 DEF Tick, SS!DisconnectTick
<1>8. ASSUME NEW s \in Sids, NEW u \in Uids, Bind(s, u) \/ Unbind(s, u) PROVE Called
  BY <1>8 DEF Bind, Unbind, Called, SS!Bind, SS!Attach, SS!Unbind,
              CS!AddLoginedUser, CS!RemoveLoginedUser
<1>9. ASSUME NEW s \in Sids, KickBySessionId(s) PROVE Called
  BY <1>3, <1>9 DEF KickBySessionId, Called, SS!KickBySessionId
<1>10. ASSUME NEW u \in Uids, Kick(u) PROVE Called
  BY <1>3, <1>10 DEF Kick, Called, SS!Kick, SS!KickClosed
<1>11. CASE UNCHANGED vars
  BY <1>11 DEF vars, Called
<1>12. ASSUME NEW s \in Sids, FilterBlock(s) PROVE Ended(s) \/ Called
  BY <1>6, <1>12 DEF FilterBlock, SocketInv
<1> QED
  BY <1>1, <1>2, <1>5, <1>7, <1>8, <1>9, <1>10, <1>11, <1>12 DEF Next

LEMMA StepCounts ==
  ASSUME SSP!IInv, SocketInv, CountInv, [Next]_vars
  PROVE  CountInv'
<1> USE ConnectorAssumption DEF CountInv, SessionsAreCounted, Counted
<1>1. IsFiniteSet(Counted) /\ Cardinality(Counted) \in Nat
  <2>1. Counted \in SUBSET listening
    OBVIOUS
  <2> QED BY <2>1, FS_Subset, FS_CardinalityType
<1>2. CASE Called
  BY <1>2 DEF Called, NoneAppears, CountCoversConnections
<1>3. CASE Rejected
  BY <1>1, <1>3 DEF Rejected, NoneAppears, CountCoversConnections, CountIn, statVars,
                    CS!IncreaseConnectionCount
<1>4. ASSUME NEW s \in Sids, Admitted(s) PROVE CountInv'
  <2>1. s \notin listening /\ Counted' = Counted \cup {s}
    BY <1>4 DEF Admitted, SS!Create
  <2>2. /\ IsFiniteSet(listening')
        /\ Cardinality(Counted') = Cardinality(Counted) + 1
    <3>1. /\ IsFiniteSet(listening) /\ listening' = listening \cup {s}
          /\ s \notin Counted
      BY <1>4, <2>1 DEF Admitted
    <3> HIDE DEF CountInv, SessionsAreCounted, Counted
    <3>2. IsFiniteSet(listening')
      BY <3>1, FS_AddElement
    <3>3. Cardinality(Counted') = Cardinality(Counted) + 1
      BY <1>1, <2>1, <3>1, FS_AddElement
    <3> QED BY <3>2, <3>3
  <2>3. connCount' = IF MaxConnections # 0 THEN connCount + 1 ELSE connCount
    BY <1>4 DEF Admitted, CountIn, statVars, CS!IncreaseConnectionCount
  <2>4. CountCoversConnections'
    BY <1>1, <1>4, <2>2, <2>3 DEF Admitted, OverLimit, CountCoversConnections
  <2>5. /\ SessionsAreCounted'
        /\ \A t \in Sids : t \in listening' <=> state'[t] # "none"
    BY <1>4, <2>1 DEF Admitted, SS!Create, SSP!IInv, SSP!TypeOK
  <2> QED BY <1>4, <2>2, <2>3, <2>4, <2>5 DEF Admitted
<1>5. ASSUME NEW s \in Sids, Ended(s) PROVE CountInv'
  <2>1. CASE s \notin listening \ released
    BY <1>5, <2>1 DEF Ended, NoneAppears, CountOut, statVars, CountCoversConnections
  <2>2. CASE s \in listening \ released
    <3>1. /\ released' = released \cup {s}
          /\ connCount' = IF connCount = 0 THEN 0 ELSE connCount - 1
      BY <1>5, <2>2 DEF Ended, CountOut, CS!DecreaseConnectionCount
    <3>2. Counted' = Counted \ {s}
      BY <1>5, <3>1 DEF Ended
    <3>3. Cardinality(Counted') = Cardinality(Counted) - 1
      <4>1. s \in Counted
        BY <2>2
      <4> HIDE DEF CountInv, SessionsAreCounted, Counted
      <4> QED BY <1>1, <3>2, <4>1, FS_RemoveElement
    <3>4. Cardinality(Counted') \in Nat
      BY <1>1, <3>2, FS_RemoveElement, FS_CardinalityType
    <3>5. CountCoversConnections'
      BY <1>1, <3>1, <3>3, <3>4 DEF CountCoversConnections
    <3> QED BY <1>5, <2>2, <3>1, <3>5 DEF Ended, NoneAppears
  <2> QED BY <2>1, <2>2
<1> QED BY <1>2, <1>3, <1>4, <1>5, StepKinds

\* Sessions, sockets and counts together.
LEMMA CountsHold == Spec => [](SSP!IInv /\ SocketInv /\ CountInv)
<1>1. Init => SocketInv
  BY DEF Init, SS!Init, SocketInv
<1>2. Init => CountInv
  BY ConnectorAssumption, FS_EmptySet
     DEF Init, SS!Init, CS!Init, CountInv, SessionsAreCounted, CountCoversConnections, Counted
<1>3. SSP!IInv /\ SocketInv /\ CountInv /\ [Next]_vars => CountInv'
  BY StepCounts
<1> QED BY <1>1, <1>2, <1>3, StepSockets, SessionsInv, PTL DEF Spec

\* No mixture of closes, errors, timeouts and kicks lets the statistics fall
\* below the connections there are, or the server admit more than
\* max-connections at a time.
THEOREM CountCorrect == Spec => []CountCoversConnections
<1>1. CountInv => CountCoversConnections
  BY DEF CountInv
<1> QED BY <1>1, CountsHold, PTL

\* A registered session's connection has listeners and is still counted.
THEOREM SessionsCounted == Spec => []SessionsAreCounted
<1>1. CountInv => SessionsAreCounted
  BY DEF CountInv
<1> QED BY <1>1, CountsHold, PTL

-----------------------------------------------------------------------------
(* The list of logged in users *)

\* loginedCount counts the list.
ListInv == logined \subseteq Uids /\ IsFiniteSet(logined) /\ LoginedCountExact

LEMMA StepList == ASSUME SocketInv, ListInv, [Next]_vars PROVE ListInv'
<1> USE DEF ListInv, LoginedCountExact, statVars, socketVars
<1>1. ASSUME UNCHANGED <<logined, loginedCount>> PROVE ListInv'
  BY <1>1
<1>2. ASSUME NEW u \in Uids, logined' = logined \cup {u},
             loginedCount' = IF u \in logined THEN loginedCount ELSE loginedCount + 1
      PROVE  ListInv'
  BY <1>2, FS_AddElement
<1>3. ASSUME NEW u, logined' = logined \ {u}, loginedCount' = CS!CountWithout(u)
      PROVE  ListInv'
  BY <1>3, FS_RemoveElement DEF CS!CountWithout
<1>4. ASSUME NEW s \in Sids, CountOut(s) PROVE ListInv'
  BY <1>1, <1>3, <1>4 DEF CountOut, CS!DecreaseConnectionCount
<1>5. ASSUME NEW s \in Sids, Accept(s) \/ FilterPass(s) \/ AcceptAndFilter(s) PROVE ListInv'
  BY <1>1, <1>5 DEF Accept, FilterPass, AcceptAndFilter, BindEvents, CountIn,
                    CS!IncreaseConnectionCount
<1>6. ASSUME NEW s \in Sids, FilterBlock(s) \/ Tick(s) PROVE ListInv'
  BY <1>1, <1>4, <1>6 DEF FilterBlock, Tick, Disconnect
<1>7. ASSUME NEW s \in Sids,
             PeerClose(s) \/ TransportClosed(s) \/ SocketError(s) \/ ServerDisconnect(s)
      PROVE  ListInv'
  BY <1>4, <1>7 DEF PeerClose, TransportClosed, SocketError, ServerDisconnect, SocketEvent
<1>8. ASSUME NEW s \in Sids, NEW u \in Uids, Bind(s, u) PROVE ListInv'
  BY <1>2, <1>8 DEF Bind, CS!AddLoginedUser
<1>9. ASSUME NEW s \in Sids, NEW u \in Uids, Unbind(s, u) PROVE ListInv'
  BY <1>3, <1>9 DEF Unbind, CS!RemoveLoginedUser
<1>10. CASE \/ \E s \in Sids : KickBySessionId(s)
            \/ \E u \in Uids : Kick(u)
            \/ UNCHANGED vars
  BY <1>1, <1>10 DEF KickBySessionId, Kick, vars
<1> QED
  BY <1>5, <1>6, <1>7, <1>8, <1>9, <1>10 DEF Next

LEMMA ListHolds == Spec => []ListInv
<1>1. Init => ListInv
  BY FS_EmptySet DEF Init, CS!Init, ListInv, LoginedCountExact
<1>2. SocketInv /\ ListInv /\ [Next]_vars => ListInv'
  BY StepList
<1> QED BY <1>1, <1>2, CountsHold, PTL DEF Spec

\* The number of logged in users reported is the length of the list.
THEOREM LoginedCountCorrect == Spec => []LoginedCountExact
<1>1. ListInv => LoginedCountExact
  BY DEF ListInv
<1> QED BY <1>1, ListHolds, PTL

\* Only bind logs a user in, and bind, unbind and the end of the connection
\* are the only steps that change what a counted connection's user is.
LEMMA StepLogins ==
  ASSUME SSP!IInv, SocketInv, CountInv, ListInv, NoGhostLogin, [Next]_vars
  PROVE  NoGhostLogin'
<1> USE ConnectorAssumption
    DEF SSP!IInv, SSP!TypeOK, SSP!RegisteredIffOpen, CountInv, SessionsAreCounted,
        Counted, NoGhostLogin, sessionVars, statVars, socketVars
<1>1. ASSUME UNCHANGED <<uid, logined, released>>, listening \subseteq listening'
      PROVE  NoGhostLogin'
  BY <1>1
<1>2. ASSUME NEW s \in Sids, CountOut(s), UNCHANGED <<uid, listening>> PROVE NoGhostLogin'
  <2>1. CASE s \notin Counted
    BY <1>1, <1>2, <2>1 DEF CountOut
  <2>2. CASE s \in Counted
    <3>1. released' = released \cup {s} /\ logined' \subseteq logined
      BY <1>2, <2>2 DEF CountOut, CS!DecreaseConnectionCount
    <3>2. uid[s] \notin logined' \ FalsyUids
      BY <1>2, <2>2, <3>1 DEF CountOut, CS!DecreaseConnectionCount, ListInv
    <3> SUFFICES ASSUME NEW v \in logined' \ FalsyUids
                 PROVE  \E t \in Counted' : uid'[t] = v
      OBVIOUS
    <3>3. PICK t \in Counted : uid[t] = v
      BY <3>1
    <3>4. t # s
      BY <3>2, <3>3
    <3> QED BY <1>2, <3>1, <3>3, <3>4
  <2> QED BY <2>1, <2>2
<1>3. ASSUME NEW s \in Sids, NEW up, BindEvents(s, up) PROVE NoGhostLogin'
  BY <1>1, <1>3 DEF BindEvents, CountIn, CS!IncreaseConnectionCount, SS!Create
<1>4. ASSUME NEW s \in Sids, Accept(s) \/ FilterPass(s) PROVE NoGhostLogin'
  BY <1>3, <1>4 DEF Accept, FilterPass
<1>5. ASSUME NEW s \in Sids, AcceptAndFilter(s) PROVE NoGhostLogin'
  BY <1>1, <1>5 DEF AcceptAndFilter
<1>6. ASSUME NEW s \in Sids, Disconnect(s), UNCHANGED <<uid, listening>> PROVE NoGhostLogin'
  BY <1>1, <1>2, <1>6 DEF Disconnect
<1>7. ASSUME NEW s \in Sids, FilterBlock(s) \/ Tick(s) PROVE NoGhostLogin'
  BY <1>6, <1>7 DEF FilterBlock, Tick, SS!DisconnectTick
<1>8. ASSUME NEW s \in Sids, SocketEvent(s), UNCHANGED listening PROVE NoGhostLogin'
  BY <1>2, <1>8 DEF SocketEvent, SS!Closed, SS!Close
<1>9. ASSUME NEW s \in Sids,
             PeerClose(s) \/ TransportClosed(s) \/ SocketError(s) \/ ServerDisconnect(s)
      PROVE  NoGhostLogin'
  BY <1>8, <1>9 DEF PeerClose, TransportClosed, SocketError, ServerDisconnect
<1>10. ASSUME NEW s \in Sids, KickBySessionId(s) PROVE NoGhostLogin'
  BY <1>1, <1>10 DEF KickBySessionId, SS!KickBySessionId, SS!Close
<1>11. ASSUME NEW u \in Uids, Kick(u) PROVE NoGhostLogin'
  BY <1>1, <1>11 DEF Kick, SS!Kick, SS!Close
<1>12. ASSUME NEW s \in Sids, NEW u \in Uids, Bind(s, u) PROVE NoGhostLogin'
  <2>1. /\ s \in Counted /\ uid' = [uid EXCEPT ![s] = u]
        /\ uid[s] \in FalsyUids \cup {NoUid}
        /\ logined' = logined \cup {u} /\ Counted' = Counted
    BY <1>12 DEF Bind, SS!Bind, SS!Bound, SS!Attach, CS!AddLoginedUser
  <2> SUFFICES ASSUME NEW v \in logined' \ FalsyUids
               PROVE  \E t \in Counted' : uid'[t] = v
    OBVIOUS
  <2>2. CASE v = u
    BY <2>1, <2>2
  <2>3. CASE v # u
    <3>1. PICK t \in Counted : uid[t] = v
      BY <2>1, <2>3
    <3>2. v # NoUid
      BY <2>1, <2>3 DEF ListInv
    <3> QED BY <2>1, <3>1, <3>2
  <2> QED BY <2>2, <2>3
<1>13. ASSUME NEW s \in Sids, NEW u \in Uids, Unbind(s, u) PROVE NoGhostLogin'
  BY <1>13 DEF Unbind, SS!Unbind, CS!RemoveLoginedUser
<1>14. CASE UNCHANGED vars
  BY <1>1, <1>14 DEF vars
<1> QED
  BY <1>4, <1>5, <1>7, <1>9, <1>10, <1>11, <1>12, <1>13, <1>14 DEF Next

\* A user on the list of logged in users has a counted connection of his own:
\* nobody stays on the list after the last of his connections is counted out.
THEOREM NoGhosts == Spec => []NoGhostLogin
<1>1. Init => NoGhostLogin
  BY DEF Init, CS!Init, NoGhostLogin
<1>2. (SSP!IInv /\ SocketInv /\ CountInv) /\ ListInv /\ NoGhostLogin /\ [Next]_vars => NoGhostLogin'
  BY StepLogins
<1> QED BY <1>1, <1>2, CountsHold, ListHolds, PTL DEF Spec

\* The connector's state always has its type.
THEOREM TypeCorrect == Spec => []TypeOK
<1>1. (SSP!IInv /\ SocketInv /\ CountInv) /\ ListInv => TypeOK
  <2>1. ListInv => loginedCount \in Nat
    BY FS_CardinalityType DEF ListInv, LoginedCountExact
  <2> QED
    BY <2>1 DEF SSP!IInv, SSP!TypeOK, SS!TypeOK, CS!TypeOK, SocketInv, CountInv, ListInv, TypeOK
<1> QED BY <1>1, CountsHold, ListHolds, PTL
=============================================================================
