---------------------------- MODULE UserRegistry ----------------------------
(***************************************************************************)
(* What the session service of a frontend server promises to the rest of  *)
(* the framework: every client session is on line at most once, belongs   *)
(* to no user or to one user, and "the sessions of user u" (getByUid,     *)
(* kick) means exactly the sessions that belong to u.  There is no index  *)
(* here; SessionService keeps one and is shown to implement this module.  *)
(***************************************************************************)
CONSTANTS Sids,            \* session ids
          Uids,            \* user ids
          NoUid,           \* the owner of an anonymous session
          SingleSession    \* TRUE: a user may have one session at a time

VARIABLES online,          \* the sessions that can be used
          gone,            \* those that are over for good
          owner            \* owner[s]: the user session s belongs to

vars == <<online, gone, owner>>

SessionsOf(u) == {s \in online : owner[s] = u}

Init == online = {} /\ gone = {} /\ owner = [s \in Sids |-> NoUid]

Open(s) == /\ s \notin online \cup gone
           /\ online' = online \cup {s}
           /\ UNCHANGED <<gone, owner>>

Login(s, u) == /\ s \in online
               /\ owner[s] = NoUid
               /\ SingleSession => SessionsOf(u) = {}
               /\ owner' = [owner EXCEPT ![s] = u]
               /\ UNCHANGED <<online, gone>>

Logout(s, u) == /\ s \in SessionsOf(u)
                /\ owner' = [owner EXCEPT ![s] = NoUid]
                /\ UNCHANGED <<online, gone>>

\* The sessions of S leave together and are nobody's from then on.
Leave(S) == /\ online' = online \ S
            /\ gone' = gone \cup S
            /\ owner' = [s \in Sids |-> IF s \in S THEN NoUid ELSE owner[s]]

Drop(s) == s \in online /\ Leave({s})

KickUser(u) == SessionsOf(u) # {} /\ Leave(SessionsOf(u))

Next == \/ \E s \in Sids : Open(s) \/ Drop(s)
        \/ \E s \in Sids, u \in Uids : Login(s, u) \/ Logout(s, u)
        \/ \E u \in Uids : KickUser(u)

Spec == Init /\ [][Next]_vars
=============================================================================
