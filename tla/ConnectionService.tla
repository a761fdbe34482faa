------------------------- MODULE ConnectionService -------------------------
(***************************************************************************)
(* lib/common/service/connectionService.js: the statistics of a frontend   *)
(* server.  They are reported to the master, and connCount is what the     *)
(* connector compares with the server's max-connections.  The service has  *)
(* no behaviour of its own: Connector composes these operations with the   *)
(* life of sockets and sessions.                                           *)
(***************************************************************************)
EXTENDS Integers

CONSTANTS Uids, FalsyUids, NoUid

VARIABLES connCount,       \* connections counted in and not yet counted out
          loginedCount,    \* how many users are logged in
          logined          \* which ones: the keys of this.logined

statVars == <<connCount, loginedCount, logined>>

TypeOK == /\ connCount \in Nat
          /\ loginedCount \in Nat
          /\ logined \subseteq Uids

Init == connCount = 0 /\ loginedCount = 0 /\ logined = {}


AddLoginedUser(u) ==
    /\ logined' = logined \cup {u}
    /\ loginedCount' = IF u \in logined THEN loginedCount ELSE loginedCount + 1
    /\ UNCHANGED connCount

IncreaseConnectionCount == connCount' = connCount + 1 /\ UNCHANGED <<loginedCount, logined>>

\* The count of logged in users after u is taken off the list.
CountWithout(u) == IF u \in logined THEN loginedCount - 1 ELSE loginedCount

RemoveLoginedUser(u) == /\ loginedCount' = CountWithout(u)
                        /\ logined' = logined \ {u}
                        /\ UNCHANGED connCount

DecreaseKeepsUser(u) == /\ connCount' = IF connCount = 0 THEN 0 ELSE connCount - 1
                        /\ UNCHANGED <<loginedCount, logined>>

\* u is the uid of the session that ends, possibly null.
DecreaseConnectionCount(u) ==
    /\ connCount' = IF connCount = 0 THEN 0 ELSE connCount - 1
    /\ IF u \in FalsyUids \cup {NoUid}
       THEN UNCHANGED <<loginedCount, logined>>
       ELSE loginedCount' = CountWithout(u) /\ logined' = logined \ {u}
=============================================================================
