----------------------- MODULE SessionService_proofs -----------------------
(***************************************************************************)
(* Proofs about SessionService, for every set of session ids and user ids. *)
(***************************************************************************)
EXTENDS SessionService, TLAPS

\* A session object that does not exist yet is bound to nobody.
FreshIsUnbound == \A s \in Sids : state[s] = "none" => uid[s] = NoUid

\* The index is only right because sessions enter `sessions` unbound and
\* leave it and the index in the same call: the inductive invariant says both.
IInv == TypeOK /\ RegisteredIffOpen /\ IndexConsistent /\ FreshIsUnbound

LEMMA InitIInv == Init => IInv
BY SessionAssumption
   DEF Init, IInv, TypeOK, RegisteredIffOpen, IndexConsistent, FreshIsUnbound

\* Closing any set of registered sessions keeps the invariant.
LEMMA CloseKeepsIInv ==
  ASSUME IInv, NEW S \in SUBSET sessions, Close(S)
  PROVE  IInv'
<1> USE SessionAssumption DEF IInv
<1>1. TypeOK'
  BY DEF TypeOK, Close
<1>2. RegisteredIffOpen'
  BY DEF TypeOK, RegisteredIffOpen, Close
<1>3. IndexConsistent'
  BY DEF TypeOK, IndexConsistent, Close
<1>4. FreshIsUnbound'
  BY DEF TypeOK, FreshIsUnbound, Close
<1> QED BY <1>1, <1>2, <1>3, <1>4

LEMMA StepIInv == IInv /\ [Next]_sessionVars => IInv'
<1> SUFFICES ASSUME IInv, [Next]_sessionVars PROVE IInv'
  OBVIOUS
<1> USE SessionAssumption
<1>1. ASSUME NEW s \in Sids, Create(s) PROVE IInv'
  <2> USE <1>1 DEF IInv, Create, TypeOK
  <2>1. TypeOK'
    OBVIOUS
  <2>2. RegisteredIffOpen'
    BY DEF RegisteredIffOpen
  <2>3. IndexConsistent'
    BY DEF IndexConsistent, FreshIsUnbound
  <2>4. FreshIsUnbound'
    BY DEF FreshIsUnbound
  <2> QED BY <2>1, <2>2, <2>3, <2>4
<1>2. ASSUME NEW s \in Sids, Closed(s) PROVE IInv'
  BY <1>2, CloseKeepsIInv DEF Closed, IInv, RegisteredIffOpen
<1>3. ASSUME NEW s \in Sids, KickBySessionId(s) PROVE IInv'
  BY <1>3, CloseKeepsIInv DEF KickBySessionId
<1>4. ASSUME NEW s \in Sids, DisconnectTick(s) PROVE IInv'
  BY <1>4 DEF DisconnectTick, IInv, TypeOK, RegisteredIffOpen, IndexConsistent, FreshIsUnbound
<1>5. ASSUME NEW s \in Sids, NEW u \in Uids, Bind(s, u) PROVE IInv'
  <2> USE <1>5 DEF IInv, Bind, Attach, TypeOK
  <2>1. TypeOK'
    OBVIOUS
  <2>2. RegisteredIffOpen'
    BY DEF RegisteredIffOpen
  <2>3. IndexConsistent'
    BY DEF IndexConsistent, Bound
  <2>4. FreshIsUnbound'
    BY DEF FreshIsUnbound, RegisteredIffOpen
  <2> QED BY <2>1, <2>2, <2>3, <2>4
<1>6. ASSUME NEW s \in Sids, NEW u \in Uids, Unbind(s, u) PROVE IInv'
  <2> USE <1>6 DEF IInv, Unbind, TypeOK
  <2>1. TypeOK'
    OBVIOUS
  <2>2. RegisteredIffOpen'
    BY DEF RegisteredIffOpen
  <2>3. IndexConsistent'
    BY DEF IndexConsistent
  <2>4. FreshIsUnbound'
    BY DEF FreshIsUnbound
  <2> QED BY <2>1, <2>2, <2>3, <2>4
<1>7. ASSUME NEW u \in Uids, Kick(u) PROVE IInv'
  <2>1. PICK S \in KickClosed(u) : Close(S)
    BY <1>7 DEF Kick
  <2>2. S \subseteq sessions
    BY DEF KickClosed
  <2> QED BY <2>1, <2>2, CloseKeepsIInv
<1>8. CASE UNCHANGED sessionVars
  BY <1>8 DEF sessionVars, IInv, TypeOK, RegisteredIffOpen, IndexConsistent, FreshIsUnbound
<1> QED
  BY <1>1, <1>2, <1>3, <1>4, <1>5, <1>6, <1>7, <1>8 DEF Next

\* The state of the session service always has its type.
THEOREM TypeCorrect == Spec => []TypeOK
<1>1. IInv => TypeOK
  BY DEF IInv
<1> QED BY InitIInv, StepIInv, <1>1, PTL DEF Spec

\* A session can be reached through the service until it is closed, and never
\* after; only closed sessions have a disconnect queued.
THEOREM RegisteredCorrect == Spec => []RegisteredIffOpen
<1>1. IInv => RegisteredIffOpen
  BY DEF IInv
<1> QED BY InitIInv, StepIInv, <1>1, PTL DEF Spec

\* getByUid lists exactly the registered sessions of the user, in every
\* reachable state of a service of any size.
THEOREM IndexCorrect == Spec => []IndexConsistent
<1>1. IInv => IndexConsistent
  BY DEF IInv
<1> QED BY InitIInv, StepIInv, <1>1, PTL DEF Spec
-----------------------------------------------------------------------------
(* singleSession *)

LEMMA StepOneSession == IInv /\ OneSessionPerUser /\ [Next]_sessionVars => OneSessionPerUser'
<1> SUFFICES ASSUME IInv, OneSessionPerUser, [Next]_sessionVars
             PROVE  OneSessionPerUser'
  OBVIOUS
<1> USE SessionAssumption DEF IInv, TypeOK, OneSessionPerUser, Bound
<1>1. ASSUME NEW s \in Sids, Create(s) PROVE OneSessionPerUser'
  BY <1>1 DEF Create, FreshIsUnbound
<1>2. ASSUME NEW S \in SUBSET sessions, Close(S) PROVE OneSessionPerUser'
  BY <1>2 DEF Close
<1>3. ASSUME NEW s \in Sids, DisconnectTick(s) PROVE OneSessionPerUser'
  BY <1>3 DEF DisconnectTick
<1>4. ASSUME NEW s \in Sids, NEW u \in Uids, Bind(s, u) PROVE OneSessionPerUser'
  BY <1>4 DEF Bind, Attach, IndexConsistent
<1>5. ASSUME NEW s \in Sids, NEW u \in Uids, Unbind(s, u) PROVE OneSessionPerUser'
  BY <1>5 DEF Unbind
<1>6. CASE UNCHANGED sessionVars
  BY <1>6 DEF sessionVars
<1>7. ASSUME NEW u \in Uids, Kick(u) PROVE OneSessionPerUser'
  BY <1>7, <1>2 DEF Kick, KickClosed
<1>8. ASSUME NEW s \in Sids, Closed(s) \/ KickBySessionId(s) PROVE OneSessionPerUser'
  BY <1>8, <1>2 DEF Closed, KickBySessionId, RegisteredIffOpen
<1> QED
  BY <1>1, <1>3, <1>4, <1>5, <1>6, <1>7, <1>8 DEF Next

\* With singleSession no user is ever bound to two registered sessions.
THEOREM OneSessionCorrect == Spec => []OneSessionPerUser
<1>1. Init => OneSessionPerUser
  BY DEF Init, OneSessionPerUser
<1> QED BY <1>1, InitIInv, StepIInv, StepOneSession, PTL DEF Spec

-----------------------------------------------------------------------------
(* The service implements the registry when every uid is one JavaScript    *)
(* takes for a bound one.                                                  *)

\* Closing the sessions of S is leaving the registry together.
LEMMA CloseIsLeave ==
  ASSUME IInv, NEW S \in SUBSET sessions, Close(S)
  PROVE  Registry!Leave(S)
<1> USE DEF IInv, TypeOK, Close, RegisteredIffOpen
<1>1. sessions' = sessions \ S
  OBVIOUS
<1>2. {s \in Sids : state[s] = "closed"}' = {s \in Sids : state[s] = "closed"} \cup S
  OBVIOUS
<1>3. SessionOwner' = [s \in Sids |-> IF s \in S THEN NoUid ELSE SessionOwner[s]]
  BY DEF SessionOwner
<1> QED BY <1>1, <1>2, <1>3 DEF Registry!Leave

\* A user's sessions in the registry are those the index lists.
LEMMA ListedAreOwned ==
  ASSUME FalsyUids = {}, IInv, NEW u \in Uids
  PROVE  Registry!SessionsOf(u) = uidMap[u]
<1>1. uidMap[u] = {s \in sessions : uid[s] = u}
  BY DEF IInv, IndexConsistent
<1>2. sessions \subseteq Sids
  BY DEF IInv, TypeOK
<1>3. \A s \in sessions : SessionOwner[s] = uid[s]
  BY <1>2 DEF SessionOwner
<1>4. Registry!SessionsOf(u) = {s \in sessions : SessionOwner[s] = u}
  BY DEF Registry!SessionsOf
<1> QED BY <1>1, <1>3, <1>4

LEMMA InitRegistry == Init => Registry!Init
BY DEF Init, SessionOwner, Registry!Init

LEMMA StepRegistry ==
  ASSUME FalsyUids = {}, IInv, [Next]_sessionVars
  PROVE  [Registry!Next]_(Registry!vars)
<1> USE SessionAssumption DEF IInv, TypeOK
<1>1. ASSUME NEW s \in Sids, Create(s) PROVE Registry!Open(s)
  <2>1. s \notin sessions /\ state[s] # "closed"
    BY <1>1 DEF Create, RegisteredIffOpen
  <2>2. {t \in Sids : state[t] = "closed"}' = {t \in Sids : state[t] = "closed"}
    BY <1>1 DEF Create
  <2>3. SessionOwner' = SessionOwner
    BY <1>1 DEF Create, SessionOwner, FreshIsUnbound
  <2> QED BY <1>1, <2>1, <2>2, <2>3 DEF Create, Registry!Open
<1>2. ASSUME NEW s \in Sids, Closed(s) \/ KickBySessionId(s) PROVE Registry!Drop(s)
  BY <1>2, CloseIsLeave DEF Closed, KickBySessionId, RegisteredIffOpen, Registry!Drop
<1>3. ASSUME NEW s \in Sids, DisconnectTick(s) PROVE UNCHANGED Registry!vars
  BY <1>3 DEF DisconnectTick, SessionOwner, Registry!vars
<1>4. ASSUME NEW s \in Sids, NEW u \in Uids, Bind(s, u) PROVE Registry!Login(s, u)
  <2>1. s \in sessions /\ SessionOwner[s] = NoUid
    BY <1>4 DEF Bind, Bound, SessionOwner
  <2>2. SingleSession => Registry!SessionsOf(u) = {}
    BY <1>4, ListedAreOwned DEF Bind
  <2>3. SessionOwner' = [SessionOwner EXCEPT ![s] = u]
    BY <1>4 DEF Bind, Attach, SessionOwner
  <2> QED BY <1>4, <2>1, <2>2, <2>3 DEF Bind, Attach, Registry!Login
<1>5. ASSUME NEW s \in Sids, NEW u \in Uids, Unbind(s, u) PROVE Registry!Logout(s, u)
  <2>1. s \in Registry!SessionsOf(u)
    BY <1>5 DEF Unbind, SessionOwner, Registry!SessionsOf
  <2>2. SessionOwner' = [SessionOwner EXCEPT ![s] = NoUid]
    BY <1>5 DEF Unbind, SessionOwner
  <2> QED BY <1>5, <2>1, <2>2 DEF Unbind, Registry!Logout
<1>6. ASSUME NEW u \in Uids, Kick(u) PROVE Registry!KickUser(u)
  <2>1. uidMap[u] \subseteq sessions
    BY DEF IndexConsistent
  <2>2. PICK S \in SUBSET sessions : S = uidMap[u] /\ Close(S)
    BY <1>6, <2>1 DEF Kick, KickClosed
  <2>3. Registry!Leave(S)
    BY <2>2, CloseIsLeave
  <2>4. Registry!SessionsOf(u) = S /\ S # {}
    BY <1>6, <2>2, ListedAreOwned DEF Kick
  <2> QED BY <2>3, <2>4 DEF Registry!KickUser, Registry!Leave
<1>7. CASE UNCHANGED sessionVars
  BY <1>7 DEF sessionVars, SessionOwner, Registry!vars
<1> QED
  BY <1>1, <1>2, <1>3, <1>4, <1>5, <1>6, <1>7 DEF Next, Registry!Next

\* The session service implements the registry of users: its index answers
\* bind and kick as the owners of the registered sessions would.
THEOREM RegistryImplemented ==
  ASSUME FalsyUids = {}
  PROVE  Spec => ImplementsRegistry
<1>1. IInv /\ [Next]_sessionVars => [Registry!Next]_(Registry!vars)
  BY StepRegistry
<1> QED
  BY <1>1, InitIInv, StepIInv, InitRegistry, PTL DEF Spec, ImplementsRegistry, Registry!Spec
=============================================================================
