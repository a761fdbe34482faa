--------------------------- MODULE SessionService ---------------------------
(***************************************************************************)
(* lib/common/service/sessionService.js: the sessions of one frontend     *)
(* server, and the index from user ids to sessions.                       *)
(*                                                                         *)
(* A session object is created for a client connection, registered under   *)
(* its id, bound to and unbound from a user id by handlers (directly or by *)
(* RPC), and closed once: by the client's disconnect or error event or by  *)
(* a kick.  JavaScript runs each call to its end, so each call is one      *)
(* action; what a call leaves to process.nextTick is an action of its own. *)
(* Calls that only report an error to their callback change nothing and    *)
(* are not written.                                                        *)
(***************************************************************************)
CONSTANTS Sids,            \* session ids (the ids of the sockets)
          Uids,            \* user ids
          FalsyUids,       \* those that JavaScript converts to false: 0, ""
          NoUid,           \* null: the session is bound to nobody
          SingleSession    \* opts.singleSession

ASSUME SessionAssumption == /\ FalsyUids \subseteq Uids
                            /\ NoUid \notin Uids
                            /\ SingleSession \in BOOLEAN

VARIABLES sessions,        \* the keys of this.sessions
          state,           \* state[s]: __state__ of the session object
          uid,             \* uid[s]: uid of the session object
          uidMap,          \* uidMap[u]: the sessions listed under u; {} = no key
          ticks            \* sockets whose disconnect() is queued by nextTick

sessionVars == <<sessions, state, uid, uidMap, ticks>>

TypeOK == /\ sessions \subseteq Sids
          /\ state \in [Sids -> {"none", "inited", "closed"}]
          /\ uid \in [Sids -> Uids \cup {NoUid}]
          /\ uidMap \in [Uids -> SUBSET Sids]
          /\ ticks \subseteq Sids

Init == /\ sessions = {}
        /\ state = [s \in Sids |-> "none"]
        /\ uid = [s \in Sids |-> NoUid]
        /\ uidMap = [u \in Uids |-> {}]
        /\ ticks = {}

\* if(session.uid): the session is bound as far as the code can tell.
Bound(s) == uid[s] \notin FalsyUids \cup {NoUid}

-----------------------------------------------------------------------------
(* Operations *)

Create(s) == /\ state[s] = "none"
             /\ state' = [state EXCEPT ![s] = "inited"]
             /\ sessions' = sessions \cup {s}
             /\ UNCHANGED <<uid, uidMap, ticks>>

\* The part of bind after its checks.
Attach(s, u) == /\ uidMap' = [uidMap EXCEPT ![u] = @ \cup {s}]
                /\ uid' = [uid EXCEPT ![s] = u]
                /\ UNCHANGED <<sessions, state, ticks>>

\* Slips of bind that the properties catch.
BindOverOtherUser(s, u) ==
    s \in sessions /\ (SingleSession => uidMap[u] = {}) /\ Attach(s, u)
BindSecondSession(s, u) == s \in sessions /\ ~Bound(s) /\ Attach(s, u)

Bind(s, u) == /\ s \in sessions
              /\ ~Bound(s)
              /\ SingleSession => uidMap[u] = {}
              /\ s \notin uidMap[u]
              /\ Attach(s, u)

Unbind(s, u) == /\ s \in sessions
                /\ Bound(s)
                /\ uid[s] = u
                /\ uidMap' = [uidMap EXCEPT ![u] = @ \ {s}]
                /\ uid' = [uid EXCEPT ![s] = NoUid]
                /\ UNCHANGED <<sessions, state, ticks>>

\* Slips of Session.closed and remove.
CloseKeepsIndex(S) ==
    /\ state' = [s \in Sids |-> IF s \in S THEN "closed" ELSE state[s]]
    /\ sessions' = sessions \ S
    /\ ticks' = ticks \cup S
    /\ UNCHANGED <<uid, uidMap>>

\* Session.closed of every session of S, none of them closed yet: the state,
\* the registration and the index at once, the disconnect in the next tick.
\* The session object keeps its uid: its socket's listeners still read it.
Close(S) ==
    /\ state' = [s \in Sids |-> IF s \in S THEN "closed" ELSE state[s]]
    /\ sessions' = sessions \ S
    /\ uidMap' = [u \in Uids |-> uidMap[u] \ {s \in S : uid[s] = u}]
    /\ ticks' = ticks \cup S
    /\ UNCHANGED uid

\* closed() as the socket's 'disconnect' or 'error' listener.
Closed(s) == state[s] = "inited" /\ Close({s})

KickBySessionId(s) == s \in sessions /\ Close({s})

\* kick calls self.sessions[sid].closed for every sid listed under u.  A
\* listed sid that is not registered throws: the ones before it are closed.
KickClosed(u) == IF uidMap[u] \subseteq sessions
                 THEN {uidMap[u]}
                 ELSE SUBSET (uidMap[u] \cap sessions)

Kick(u) == uidMap[u] # {} /\ \E S \in KickClosed(u) : Close(S)

\* The queued socket.disconnect(); what it does to the socket is not here.
DisconnectTick(s) == /\ s \in ticks
                     /\ ticks' = ticks \ {s}
                     /\ UNCHANGED <<sessions, state, uid, uidMap>>

Next == \/ \E s \in Sids : \/ Create(s)
                           \/ Closed(s)
                           \/ KickBySessionId(s)
                           \/ DisconnectTick(s)
        \/ \E s \in Sids, u \in Uids : Bind(s, u) \/ Unbind(s, u)
        \/ \E u \in Uids : Kick(u)

Spec == Init /\ [][Next]_sessionVars

-----------------------------------------------------------------------------
(* Properties *)

\* A session is registered from its creation until closed() runs, and its
\* disconnect is only queued once it is closed: bind, push and kick can never
\* reach a session that has been closed.
RegisteredIffOpen == /\ \A s \in Sids : s \in sessions <=> state[s] = "inited"
                     /\ \A s \in ticks : state[s] = "closed"

\* getByUid(u) lists exactly the registered sessions bound to u, whatever
\* sequence of bind, unbind, close and kick came before, so pushes by uid
\* reach all of the user's sessions and kick dereferences no missing one.
\* It is stated for the uids the code can recognise as bound.
IndexConsistent == \A u \in Uids \ FalsyUids :
                      uidMap[u] = {s \in sessions : uid[s] = u}

\* With singleSession, bind lets no second session of a user in.
OneSessionPerUser == SingleSession =>
    \A s, t \in sessions : (Bound(s) /\ uid[s] = uid[t]) => s = t

\* What the rest of the framework sees: the owner of a registered session.
SessionOwner == [s \in Sids |-> IF s \in sessions THEN uid[s] ELSE NoUid]

Registry == INSTANCE UserRegistry
    WITH online <- sessions,
         gone   <- {s \in Sids : state[s] = "closed"},
         owner  <- SessionOwner

\* The service implements UserRegistry: its index answers every bind and kick
\* as the owners of the registered sessions would.
ImplementsRegistry == Registry!Spec
=============================================================================
