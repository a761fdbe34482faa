---------------------------- MODULE ChannelPush ----------------------------
(***************************************************************************)
(* lib/common/service/channelService.js with                               *)
(* lib/common/remote/frontend/channelRemote.js: how a message gets from a  *)
(* server's channel service to the frontend servers, one RPC for each, and *)
(* what the caller is told.  Clients come and go at the frontends while    *)
(* messages are under way; an RPC may fail before or after it is served,   *)
(* and a frontend may refuse the message.                                  *)
(*                                                                         *)
(* A push goes to groups of users by server, a broadcast to all clients of *)
(* the servers of a type.  The server may be one of the frontends itself:  *)
(* that one is called directly, and only its callback comes later.  A      *)
(* CountDownLatch for each message waits for the servers' answers.         *)
(***************************************************************************)
EXTENDS ChannelNames, Integers, FiniteSets

CONSTANTS Messages,
          Here             \* app.serverId

ASSUME ChannelPushAssumption == IsFiniteSet(Servers)

VARIABLES online,          \* online[f]: the users with a session at f
          phase,           \* phase[m]: "none", "sent" or "refused"
          broadcasts,      \* the messages that are broadcast
          groups,          \* groups[m][f]: whom f is asked to send m to
          inbox,           \* inbox[m]: servers that were asked and did not serve yet
          replies,         \* replies[m]: callbacks on their way to rpcCB
          again,           \* again[m]: a second callback of Here, behind the first
          success,         \* successFlag
          fails,           \* failIds
          asked,           \* history: asked[m], the servers m was sent to
          broken,          \* history: broken[m], those of them whose RPC failed
          twice,           \* history: messages Here calls back twice for
          got,             \* got[m]: the pairs of server and user m was scheduled for
          answers,         \* answers[m]: what cb was called with
          made, count, timer, calls, late           \* the latches

latchVars == <<made, count, timer, calls, late>>
callVars == <<phase, broadcasts, groups, asked, twice, again>>
callerVars == <<success, fails, answers>>
vars == <<online, phase, broadcasts, groups, inbox, replies, again, success, fails, asked, broken,
          twice, got, answers, made, count, timer, calls, late>>

Latch == INSTANCE CountDownLatch WITH Latches <- Messages

Reply == [from : Servers, err : BOOLEAN, fails : SUBSET Users]

TypeOK == /\ online \in [Servers -> SUBSET Users]
          /\ phase \in [Messages -> {"none", "sent", "refused"}]
          /\ broadcasts \subseteq Messages
          /\ groups \in [Messages -> [Servers -> SUBSET Users]]
          /\ inbox \in [Messages -> SUBSET Servers]
          /\ replies \in [Messages -> SUBSET Reply]
          /\ success \in [Messages -> BOOLEAN]
          /\ fails \in [Messages -> SUBSET Users]
          /\ again \in [Messages -> SUBSET Reply]
          /\ asked \in [Messages -> SUBSET Servers]
          /\ broken \in [Messages -> SUBSET Servers]
          /\ twice \subseteq Messages
          /\ got \in [Messages -> SUBSET (Servers \X Users)]
          /\ answers \in [Messages -> SUBSET [err : BOOLEAN, fails : SUBSET Users]]
          /\ Latch!TypeOK

Init == /\ online = [f \in Servers |-> {}]
        /\ phase = [m \in Messages |-> "none"]
        /\ broadcasts = {}
        /\ groups = [m \in Messages |-> [f \in Servers |-> {}]]
        /\ inbox = [m \in Messages |-> {}]
        /\ replies = [m \in Messages |-> {}]
        /\ success = [m \in Messages |-> FALSE]
        /\ fails = [m \in Messages |-> {}]
        /\ again = [m \in Messages |-> {}]
        /\ asked = [m \in Messages |-> {}]
        /\ broken = [m \in Messages |-> {}]
        /\ twice = {}
        /\ got = [m \in Messages |-> {}]
        /\ answers = [m \in Messages |-> {}]
        /\ Latch!Init

-----------------------------------------------------------------------------
(* At the frontends *)

Login(f, u) == /\ u \notin online[f]
               /\ online' = [online EXCEPT ![f] = @ \cup {u}]
               /\ UNCHANGED <<callVars, inbox, replies, broken, got, callerVars, latchVars>>

Logout(f, u) == /\ u \in online[f]
                /\ online' = [online EXCEPT ![f] = @ \ {u}]
                /\ UNCHANGED <<callVars, inbox, replies, broken, got, callerVars, latchVars>>

\* The users f is asked for by name and has no session of.
FailsAt(f, us) == us \ online[f]

RpcError(f) == [from |-> f, err |-> TRUE, fails |-> {}]
RpcOk(f, us) == [from |-> f, err |-> FALSE, fails |-> FailsAt(f, us)]

\* channelRemote.pushMessage or broadcast at f, for the users us, of which
\* `named` are named.  f schedules the message, or calls back with an error:
\* there is no message, an asynchronous encoder fails, or an encoder returns
\* nothing, as the framework's coder does without a route or a message.  In the
\* last case connector.doSend calls its callback again when the scheduler is
\* done; only the first answer to an RPC counts, but Here takes both.  (For an
\* empty message Here calls back before the next server is asked, which the
\* latch does not see unless Here is the last: it is a later step here.)
Serve(f, us, named) ==
    LET Does(pairs, first, second) == [got |-> pairs, first |-> first, second |-> second]
    IN  {Does({f} \X (us \cap online[f]), RpcOk(f, named), {}), Does({}, RpcError(f), {})}
        \cup IF f = Here THEN {Does({}, RpcError(f), {RpcOk(f, named)})} ELSE {}

\* The server of an answer that is an error.
FailedBy(r) == IF r.err THEN {r.from} ELSE {}

Named(m, f) == IF m \in broadcasts THEN {} ELSE groups[m][f]

\* A frontend serves its request.
Handle(m, f) == /\ f \in inbox[m]
                /\ inbox' = [inbox EXCEPT ![m] = @ \ {f}]
                /\ \E s \in Serve(f, groups[m][f], Named(m, f)) :
                      /\ got' = [got EXCEPT ![m] = @ \cup s.got]
                      /\ replies' = [replies EXCEPT ![m] = @ \cup {s.first}]
                      /\ broken' = [broken EXCEPT ![m] = @ \cup FailedBy(s.first)]
                /\ UNCHANGED <<online, callVars, callerVars, latchVars>>

\* The RPC client gives up on f before f serves the request.
RequestLost(m, f) == /\ f \in inbox[m]
                     /\ inbox' = [inbox EXCEPT ![m] = @ \ {f}]
                     /\ replies' = [replies EXCEPT ![m] = @ \cup {RpcError(f)}]
                     /\ broken' = [broken EXCEPT ![m] = @ \cup {f}]
                     /\ UNCHANGED <<online, callVars, got, callerVars, latchVars>>

\* f served the request, and its answer is lost or too late.
ReplyLost(m) == \E r \in replies[m] :
    /\ ~r.err /\ r.from # Here
    /\ replies' = [replies EXCEPT ![m] = (@ \ {r}) \cup {RpcError(r.from)}]
    /\ broken' = [broken EXCEPT ![m] = @ \cup {r.from}]
    /\ UNCHANGED <<online, callVars, inbox, got, callerVars, latchVars>>

-----------------------------------------------------------------------------
(* At the caller *)

\* The servers F are asked to send m to the users of G, those of N by name; the
\* latch waits for all of them.  Here is served at once, the others by RPC.
Dispatch(m, F, G, N) ==
    /\ phase[m] = "none" /\ F # {}
    /\ phase' = [phase EXCEPT ![m] = "sent"]
    /\ groups' = [groups EXCEPT ![m] = G]
    /\ asked' = [asked EXCEPT ![m] = F]
    /\ Latch!Create(m, Cardinality(F), FALSE)
    /\ inbox' = [inbox EXCEPT ![m] = F \ {Here}]
    /\ IF Here \in F
       THEN \E s \in Serve(Here, G[Here], N[Here]) :
               /\ got' = [got EXCEPT ![m] = s.got]
               /\ replies' = [replies EXCEPT ![m] = {s.first}]
               /\ again' = [again EXCEPT ![m] = s.second]
               /\ broken' = [broken EXCEPT ![m] = FailedBy(s.first)]
               /\ twice' = IF s.second = {} THEN twice ELSE twice \cup {m}
       ELSE UNCHANGED <<got, replies, again, broken, twice>>
    /\ UNCHANGED <<online, callerVars>>

\* pushMessage of a channel with these groups, and pushMessageByUids.
PushMessage(m) == /\ UNCHANGED broadcasts
                  /\ \E G \in [Servers -> SUBSET Users] :
                        Dispatch(m, {f \in Servers : G[f] # {}}, G, G)

\* broadcast to the servers F of a type.
Broadcast(m, F) == /\ broadcasts' = broadcasts \cup {m}
                   /\ Dispatch(m, F, [f \in Servers |-> Users], [f \in Servers |-> {}])

\* Nothing to send to: cb is called at once, with an error if pushMessageByUids
\* was given no uids.
PushToNobody(m) == /\ phase[m] = "none"
                   /\ phase' = [phase EXCEPT ![m] = "sent"]
                   /\ \E e \in BOOLEAN :
                         answers' = [answers EXCEPT ![m] = {[err |-> e, fails |-> {}]}]
                   /\ UNCHANGED <<online, broadcasts, groups, asked, twice, again, inbox, replies,
                                  broken, got, success, fails, latchVars>>

\* pushMessage of a destroyed channel: the error is passed where cb should be.
PushToDestroyed(m) == /\ phase[m] = "none"
                      /\ phase' = [phase EXCEPT ![m] = "refused"]
                      /\ UNCHANGED <<online, broadcasts, groups, asked, twice, again, inbox,
                                     replies, broken, got, callerVars, latchVars>>

\* The latch's callback: an error unless some server answered without one.
Told(m) == IF success'[m] THEN [err |-> FALSE, fails |-> fails'[m]]
                          ELSE [err |-> TRUE, fails |-> {}]

\* The latch is counted down; on one that is down, done throws.
CountDown(m) == /\ IF count[m] > 0 THEN Latch!Done(m) ELSE UNCHANGED latchVars
                /\ answers' = IF calls'[m] # calls[m]
                              THEN [answers EXCEPT ![m] = @ \cup {Told(m)}] ELSE answers

RpcCBForgetsSuccess(m, r) ==
    /\ replies' = [replies EXCEPT ![m] = @ \ {r}]
    /\ again' = [again EXCEPT ![m] = @ \ {r}]
    /\ success' = [success EXCEPT ![m] = ~r.err]
    /\ fails' = [fails EXCEPT ![m] = @ \cup r.fails]
    /\ CountDown(m)
    /\ UNCHANGED <<online, phase, broadcasts, groups, asked, twice, inbox, broken, got>>
RpcCBForgetsError(m, r) ==
    /\ replies' = [replies EXCEPT ![m] = @ \ {r}]
    /\ again' = [again EXCEPT ![m] = @ \ {r}]
    /\ IF r.err THEN UNCHANGED <<callerVars, latchVars>>
       ELSE /\ success' = [success EXCEPT ![m] = TRUE]
            /\ fails' = [fails EXCEPT ![m] = @ \cup r.fails]
            /\ CountDown(m)
    /\ UNCHANGED <<online, phase, broadcasts, groups, asked, twice, inbox, broken, got>>

\* rpcCB and genCB.
RpcCB(m, r) ==
    /\ replies' = [replies EXCEPT ![m] = @ \ {r}]
    /\ again' = [again EXCEPT ![m] = @ \ {r}]
    /\ IF r.err
       THEN UNCHANGED <<success, fails>>
       ELSE /\ success' = [success EXCEPT ![m] = TRUE]
            /\ fails' = [fails EXCEPT ![m] = @ \cup r.fails]
    /\ CountDown(m)
    /\ UNCHANGED <<online, phase, broadcasts, groups, asked, twice, inbox, broken, got>>

\* The callbacks that may come now: doSend calls back before the scheduler.
Due(m) == replies[m] \cup {r \in again[m] : \A q \in replies[m] : q.from # Here}

Answer(m) == \E r \in Due(m) : RpcCB(m, r)

Next == \/ \E f \in Servers, u \in Users : Login(f, u) \/ Logout(f, u)
        \/ \E m \in Messages : \/ PushMessage(m)
                               \/ PushToNobody(m)
                               \/ PushToDestroyed(m)
                               \/ ReplyLost(m)
                               \/ Answer(m)
        \/ \E m \in Messages, F \in SUBSET Servers : Broadcast(m, F)
        \/ \E m \in Messages, f \in Servers : Handle(m, f) \/ RequestLost(m, f)

Spec == Init /\ [][Next]_vars

\* Every RPC ends: it is served and answered, or fails; callbacks run.
Fairness == \A m \in Messages :
               /\ WF_vars(Answer(m))
               /\ \A f \in Servers : WF_vars(Handle(m, f) \/ RequestLost(m, f))

FairSpec == Spec /\ Fairness

-----------------------------------------------------------------------------
(* Properties *)

\* The servers that have not answered m.
Awaited(m) == inbox[m] \cup {r.from : r \in replies[m]}

\* The callbacks that are still to come for m.
Remaining(m) == Cardinality(Awaited(m)) + Cardinality(again[m])

\* "invoke the callback after the done method was invoked the specified times"
\* (test/util/countDownLatch.js l. 24): cb is called once for a message, and
\* only after every server it went to has answered or failed.  One callback is
\* missing then if Here called back twice.
AnsweredAfterAll ==
    \A m \in Messages : /\ calls[m] <= 1
                        /\ calls[m] > 0 => Remaining(m) <= IF m \in twice THEN 1 ELSE 0

\* The number the latch still waits for is the number of callbacks to come, or
\* one less if Here calls back twice: only then is done called on a latch that
\* is down, and never is a latch left waiting for nobody.
LatchCountsServers ==
    \A m \in Messages : count[m] = IF m \in twice /\ Remaining(m) > 0
                                   THEN Remaining(m) - 1 ELSE Remaining(m)

\* What cb is told is true.  An error: the RPC of every server failed (one whose
\* answer was lost may have scheduled the message all the same).  No error,
\* unless Here called back twice: some RPC did not fail, and of a push every
\* user of a server whose RPC did not fail had it scheduled, or is among the
\* fails.
AnswerIsTrue ==
    \A m \in Messages : \A a \in answers[m] :
        IF a.err THEN asked[m] \subseteq broken[m]
        ELSE m \in twice \/
             /\ asked[m] = {} \/ ~(asked[m] \subseteq broken[m])
             /\ \A f \in asked[m] \ broken[m] :
                   m \in broadcasts \/ {f} \X (groups[m][f] \ a.fails) \subseteq got[m]

\* Every push and every broadcast is answered in the end, whichever RPCs fail.
EveryPushAnswered == \A m \in Messages : phase[m] = "sent" ~> answers[m] # {}
=============================================================================
