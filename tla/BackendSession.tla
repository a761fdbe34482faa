--------------------------- MODULE BackendSession ---------------------------
(***************************************************************************)
(* The copies of a session that handlers work with, on top of the session  *)
(* service of the frontend server that owns the session:                   *)
(* lib/common/service/backendSessionService.js in the other servers, the   *)
(* FrontendSession of lib/common/service/sessionService.js in the frontend *)
(* itself, and lib/common/remote/frontend/sessionRemote.js between them.   *)
(*                                                                         *)
(* A copy is made from a snapshot of the session and changed locally; what *)
(* it binds, unbinds or pushes is a call to the frontend.  A call of a     *)
(* backend server travels in `wire` and its answer in `back`, each in      *)
(* order; either may be lost, and the callback then gets an error.         *)
(***************************************************************************)
EXTENDS SessionService, Naturals, Sequences

CONSTANTS Handles,         \* session objects of handlers, each on a server of its own
          Local,           \* those of handlers in the frontend server
          Keys,            \* keys of the settings
          MaxWrites,       \* bound: values written to copies
          MaxCalls,        \* bound: calls of a copy under way
          MaxRestarts      \* bound: crashes of the frontend

ASSUME CopyAssumption == /\ Local \subseteq Handles /\ "none" \notin Sids
                         /\ MaxWrites \in Nat /\ MaxCalls \in Nat /\ MaxRestarts \in Nat

VARIABLES settings,        \* settings[s]: those of the session object
          copy,            \* copy[h]: the object of h
          wire, back,      \* calls to the frontend and its answers
          writes,          \* values written so far: each write has its own
          life             \* crashes of the frontend so far; ids begin again after each
\* History: somebody else changed the session, or a call of h failed; the keys
\* written since their last push.
VARIABLES behind, unpushed

copyVars == <<copy, wire, back, behind, unpushed>>
vars == <<sessionVars, settings, copyVars, writes, life>>

Values == 0..MaxWrites     \* 0: undefined
Unset  == [k \in Keys |-> 0]
None   == [sid |-> "none", got |-> FALSE, uid |-> NoUid, settings |-> Unset]
NoArgs == [k \in {} |-> 0]

CopyInit == /\ settings = [s \in Sids |-> Unset]
            /\ copy = [h \in Handles |-> None]
            /\ wire = [h \in Handles |-> <<>>]
            /\ back = [h \in Handles |-> <<>>]
            /\ writes = 0 /\ life = 0
            /\ behind = [h \in Handles |-> FALSE]
            /\ unpushed = [h \in Handles |-> {}]

Idle(h)     == wire[h] = <<>> /\ back[h] = <<>>
UnderWay(h) == Len(wire[h]) + Len(back[h])

\* Everybody else who has a copy of s is behind from now on.
Changed(h, s) == behind' = [g \in Handles |->
                              behind[g] \/ (g # h /\ copy[g].sid = s)]

\* import calls back before it returns; every other answer is for later.
Answer(h, c, ok) ==
    back' = IF h \in Local /\ c.op = "push" THEN back
            ELSE [back EXCEPT ![h] = Append(@, [op |-> c.op, ok |-> ok, uid |-> c.uid])]

-----------------------------------------------------------------------------
(* What the frontend does with a call: sessionRemote and the session service *)

\* The three ends of bind: refused, bound to that user before, bound now.
BindRefused(s, u)  == \/ s \notin sessions
                      \/ Bound(s) /\ uid[s] # u
                      \/ ~Bound(s) /\ SingleSession /\ uidMap[u] # {}
BindRepeated(s, u) == /\ s \in sessions
                      /\ \/ Bound(s) /\ uid[s] = u
                         \/ ~Bound(s) /\ ~SingleSession /\ s \in uidMap[u]

ServeBind(h, c) ==
    /\ \/ /\ Bind(c.sid, c.uid)
          /\ Changed(h, c.sid) /\ Answer(h, c, TRUE)
       \/ /\ BindRepeated(c.sid, c.uid)
          /\ Answer(h, c, TRUE) /\ UNCHANGED <<sessionVars, behind>>
       \/ /\ BindRefused(c.sid, c.uid)
          /\ Answer(h, c, FALSE) /\ UNCHANGED <<sessionVars, behind>>
    /\ UNCHANGED settings

ServeUnbind(h, c) ==
    /\ \/ /\ Unbind(c.sid, c.uid)
          /\ Changed(h, c.sid) /\ Answer(h, c, TRUE)
       \/ /\ c.sid \notin sessions \/ ~Bound(c.sid) \/ uid[c.sid] # c.uid
          /\ Answer(h, c, FALSE) /\ UNCHANGED <<sessionVars, behind>>
    /\ UNCHANGED settings

\* The keys of a over those of the session.
Imported(s, a) == [k \in Keys |-> IF k \in DOMAIN a THEN a[k] ELSE settings[s][k]]

\* A slip: the session object is looked up before the call and not by its id,
\* so that a closed one is still written.
ImportClosed(h, c) ==
    /\ settings' = [settings EXCEPT ![c.sid] = Imported(c.sid, c.args)]
    /\ Changed(h, c.sid) /\ Answer(h, c, TRUE)
    /\ UNCHANGED sessionVars

\* import and importAll: push of one key, pushAll of all of them.
Import(h, c) ==
    /\ IF c.sid \in sessions
       THEN /\ settings' = [settings EXCEPT ![c.sid] = Imported(c.sid, c.args)]
            /\ Changed(h, c.sid) /\ Answer(h, c, TRUE)
       ELSE Answer(h, c, FALSE) /\ UNCHANGED <<settings, behind>>
    /\ UNCHANGED sessionVars

\* kickBySid and kickByUid answer whether or not there was anything to kick.
ServeKick(h, c) ==
    /\ \/ KickBySessionId(c.sid)
       \/ c.uid # NoUid /\ Kick(c.uid)
       \/ c.sid \notin sessions /\ UNCHANGED sessionVars
    /\ Answer(h, c, TRUE)
    /\ UNCHANGED <<settings, behind>>

Serve(h, c) == CASE c.op = "bind"   -> ServeBind(h, c)
                 [] c.op = "unbind" -> ServeUnbind(h, c)
                 [] c.op = "push"   -> Import(h, c)
                 [] c.op = "kick"   -> ServeKick(h, c)

-----------------------------------------------------------------------------
(* The server that has the copy *)

\* A call: carried out at once in the frontend itself, sent by the others.
Invoke(h, op, u, args) ==
    LET c == [op |-> op, sid |-> copy[h].sid, uid |-> u, args |-> args]
    IN  /\ copy[h].got /\ UnderWay(h) < MaxCalls
        /\ IF h \in Local THEN Serve(h, c) /\ UNCHANGED wire
                          ELSE /\ wire' = [wire EXCEPT ![h] = Append(@, c)]
                               /\ UNCHANGED <<sessionVars, settings, back, behind>>
        /\ UNCHANGED <<copy, writes, life>>

\* A request for session s reaches h: forwarded with the exported session, or
\* h has asked for it with get or getByUid.  toFrontendSession copies the
\* settings; what is on its way to h is what the session was at this moment.
Export(h, s) ==
    /\ s \in sessions /\ copy[h] = None /\ Idle(h)
    /\ copy' = [copy EXCEPT ![h] = [sid |-> s, got |-> h \in Local, uid |-> uid[s],
                                    settings |-> settings[s]]]
    /\ UNCHANGED <<sessionVars, settings, wire, back, behind, unpushed, writes, life>>

\* BackendSessionService.create: the snapshot arrives.
Arrive(h) ==
    /\ copy[h].sid # "none" /\ ~copy[h].got
    /\ copy' = [copy EXCEPT ![h].got = TRUE]
    /\ UNCHANGED <<sessionVars, settings, wire, back, behind, unpushed, writes, life>>

\* A slip: the copy shares the settings object of the session (no dclone).
SetShared(h, k) ==
    /\ copy[h].got /\ writes < MaxWrites
    /\ writes' = writes + 1
    /\ copy' = [copy EXCEPT ![h].settings[k] = writes + 1]
    /\ settings' = IF h \in Local THEN [settings EXCEPT ![copy[h].sid][k] = writes + 1]
                                  ELSE settings
    /\ unpushed' = [unpushed EXCEPT ![h] = @ \cup {k}]
    /\ UNCHANGED <<sessionVars, wire, back, behind, life>>

Set(h, k) ==
    /\ copy[h].got /\ writes < MaxWrites
    /\ writes' = writes + 1
    /\ copy' = [copy EXCEPT ![h].settings[k] = writes + 1]
    /\ unpushed' = [unpushed EXCEPT ![h] = @ \cup {k}]
    /\ UNCHANGED <<sessionVars, settings, wire, back, behind, life>>

Push(h, k) == /\ Invoke(h, "push", NoUid, [j \in {k} |-> copy[h].settings[k]])
              /\ unpushed' = [unpushed EXCEPT ![h] = @ \ {k}]

PushAll(h) == /\ LET defined == {k \in Keys : copy[h].settings[k] # 0} IN
                 Invoke(h, "push", NoUid, [k \in defined |-> copy[h].settings[k]])
              /\ unpushed' = [unpushed EXCEPT ![h] = {}]

CallBind(h, u)   == Invoke(h, "bind", u, NoArgs) /\ UNCHANGED unpushed
CallUnbind(h, u) == Invoke(h, "unbind", u, NoArgs) /\ UNCHANGED unpushed
CallKick(h)      == Invoke(h, "kick", copy[h].uid, NoArgs) /\ UNCHANGED unpushed

\* The frontend takes the next call of h from its connection.
Receive(h) ==
    /\ wire[h] # <<>>
    /\ Serve(h, Head(wire[h]))
    /\ wire' = [wire EXCEPT ![h] = Tail(@)]
    /\ UNCHANGED <<copy, unpushed, writes, life>>

\* A slip: an unbind of the copy is not undone by its answer.
AnsweredKeepsUid(h) ==
    /\ back[h] # <<>>
    /\ LET a == Head(back[h]) IN
       copy' = IF a.ok /\ a.op = "bind" THEN [copy EXCEPT ![h].uid = a.uid] ELSE copy
    /\ back' = [back EXCEPT ![h] = Tail(@)]
    /\ UNCHANGED <<sessionVars, settings, wire, behind, unpushed, writes, life>>

\* The callback of bind and unbind: the copy follows what it was told.
Answered(h) ==
    /\ back[h] # <<>>
    /\ LET a == Head(back[h]) IN
       copy' = CASE a.ok /\ a.op = "bind"   -> [copy EXCEPT ![h].uid = a.uid]
                 [] a.ok /\ a.op = "unbind" -> [copy EXCEPT ![h].uid = NoUid]
                 [] OTHER                   -> copy
    /\ back' = [back EXCEPT ![h] = Tail(@)]
    /\ UNCHANGED <<sessionVars, settings, wire, behind, unpushed, writes, life>>

\* The RPC fails before or after the frontend has carried it out: an error.
Lost(h) ==
    /\ h \notin Local
    /\ \/ wire[h] # <<>> /\ wire' = [wire EXCEPT ![h] = Tail(@)] /\ UNCHANGED back
       \/ back[h] # <<>> /\ back' = [back EXCEPT ![h] = Tail(@)] /\ UNCHANGED wire
    /\ behind' = [behind EXCEPT ![h] = TRUE]
    /\ UNCHANGED <<sessionVars, settings, copy, unpushed, writes, life>>

\* The request is over and with it the copy.
Discard(h) ==
    /\ copy[h].got /\ Idle(h)
    /\ copy' = [copy EXCEPT ![h] = None]
    /\ behind' = [behind EXCEPT ![h] = FALSE]
    /\ unpushed' = [unpushed EXCEPT ![h] = {}]
    /\ UNCHANGED <<sessionVars, settings, wire, back, writes, life>>

\* A client connects; its session begins with no settings.
Connect(s) == /\ Create(s)
              /\ settings' = [settings EXCEPT ![s] = Unset]
              /\ UNCHANGED <<copyVars, writes, life>>

\* The socket's 'disconnect'.  What closed() leaves to the next tick concerns
\* the socket only and is not in this module.
Disconnect(s) == /\ Closed(s)
                 /\ UNCHANGED <<settings, copyVars, writes, life>>

\* The frontend process dies and starts again: its sessions and copies are
\* gone, calls fail, and socket ids are given out from the first again.
Restart ==
    /\ life < MaxRestarts /\ life' = life + 1
    /\ sessions' = {} /\ ticks' = {}
    /\ state' = [s \in Sids |-> "none"]
    /\ uid' = [s \in Sids |-> NoUid]
    /\ uidMap' = [u \in Uids |-> {}]
    /\ settings' = [s \in Sids |-> Unset]
    /\ copy' = [h \in Handles |-> IF h \in Local THEN None ELSE copy[h]]
    /\ wire' = [h \in Handles |-> <<>>]
    /\ back' = [h \in Handles |-> <<>>]
    /\ behind' = [h \in Handles |-> copy'[h] # None]
    /\ unpushed' = [h \in Handles |-> IF h \in Local THEN {} ELSE unpushed[h]]
    /\ UNCHANGED writes

\* What the variables hold.
CopiesTypeOK ==
    LET Call(args) == [op : {"bind", "unbind", "push", "kick"}, sid : Sids,
                       uid : Uids \cup {NoUid}, args : args]
        Args == UNION {[K -> Values] : K \in SUBSET Keys}
    IN  /\ TypeOK
        /\ settings \in [Sids -> [Keys -> Values]]
        /\ copy \in [Handles -> [sid : Sids \cup {"none"}, got : BOOLEAN,
                                 uid : Uids \cup {NoUid}, settings : [Keys -> Values]]]
        /\ \A h \in Handles : /\ \A i \in 1..Len(wire[h]) : wire[h][i] \in Call(Args)
                              /\ \A i \in 1..Len(back[h]) :
                                    back[h][i] \in [op : {"bind", "unbind", "push", "kick"},
                                                    ok : BOOLEAN, uid : Uids \cup {NoUid}]
                              /\ UnderWay(h) <= MaxCalls
        /\ writes \in Values /\ life \in 0..MaxRestarts
        /\ behind \in [Handles -> BOOLEAN] /\ unpushed \in [Handles -> SUBSET Keys]

CopiesInit == Init /\ CopyInit

CopiesNext ==
    \/ \E s \in Sids : Connect(s) \/ Disconnect(s)
    \/ \E h \in Handles, s \in Sids : Export(h, s)
    \/ \E h \in Handles, k \in Keys : Set(h, k) \/ Push(h, k)
    \/ \E h \in Handles, u \in Uids : CallBind(h, u) \/ CallUnbind(h, u)
    \/ \E h \in Handles : \/ Arrive(h) \/ PushAll(h) \/ CallKick(h) \/ Receive(h)
                          \/ Answered(h) \/ Lost(h) \/ Discard(h)
    \/ Restart

CopiesSpec == CopiesInit /\ [][CopiesNext]_vars

-----------------------------------------------------------------------------
(* Properties *)

\* A copy whose calls are answered and whose session nobody else has changed
\* is right: it has the user of its session and, for every key it has not
\* written since it pushed it, the session's value.  Handlers decide by them
\* who is logged in.
CopyAgrees == \A h \in Handles :
    (copy[h].got /\ Idle(h) /\ ~behind[h] /\ copy[h].sid \in sessions) =>
        /\ copy[h].uid = uid[copy[h].sid]
        /\ \A k \in Keys \ unpushed[h] : copy[h].settings[k] = settings[copy[h].sid][k]

\* "any changes happen in backend session is local" (backendSessionService.js
\* l. 204): a value that h has written and not pushed is in the settings of no
\* session, in no other copy and in no call.
UnpushedIsLocal == \A h \in Handles : \A k \in unpushed[h] :
    LET v == copy[h].settings[k] IN
    /\ \A s \in Sids, j \in Keys : settings[s][j] # v
    /\ \A g \in Handles \ {h}, j \in Keys : copy[g].settings[j] # v
    /\ \A g \in Handles : \A i \in 1..Len(wire[g]) :
          \A j \in DOMAIN wire[g][i].args : wire[g][i].args[j] # v

\* A session that is closed is not written any more: calls that were under way
\* when it closed change neither its user nor its settings, on which the
\* listeners of its 'closed' event still work.
ClosedIsFinal == [][\A s \in Sids : (state[s] = "closed" /\ state'[s] = "closed") =>
                       uid'[s] = uid[s] /\ settings'[s] = settings[s]]_vars
=============================================================================
