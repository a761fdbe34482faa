----------------------- MODULE BackendSession_proofs -----------------------
(***************************************************************************)
(* Proofs about BackendSession, for any sessions, copies and calls under   *)
(* way: a copy whose calls are answered agrees with its session, what has  *)
(* not been pushed stays with the copy, and a closed session is not        *)
(* written.                                                                *)
(***************************************************************************)
EXTENDS BackendSession, SessionService_proofs

Calls4   == {"bind", "unbind", "push", "kick"}
Defined  == UNION {[K -> Values] : K \in SUBSET Keys}
Object   == [sid : Sids \cup {"none"}, got : BOOLEAN, uid : Uids \cup {NoUid},
             settings : [Keys -> Values]]
Call     == [op : Calls4, sid : Sids, uid : Uids \cup {NoUid}, args : Defined]
Reply    == [op : Calls4, ok : BOOLEAN, uid : Uids \cup {NoUid}]

CopyTypes == /\ settings \in [Sids -> [Keys -> Values]]
             /\ copy \in [Handles -> Object]
             /\ wire \in [Handles -> Seq(Call)] /\ back \in [Handles -> Seq(Reply)]
             /\ writes \in Values
             /\ behind \in [Handles -> BOOLEAN] /\ unpushed \in [Handles -> SUBSET Keys]

\* The answers of q that tell a copy who its session's user is, and the user it
\* takes from one.
Tells(a)   == a.ok = TRUE /\ a.op \in {"bind", "unbind"}
Telling(q) == {i \in 1..Len(q) : Tells(q[i])}
Told(a)    == IF a.op = "bind" THEN a.uid ELSE NoUid

\* A copy with user u has the user v once it has taken the answers q.
Follows(q, u, v) ==
    /\ Telling(q) = {} => v = u
    /\ \A i \in Telling(q) : (\A j \in Telling(q) : j <= i) => v = Told(q[i])

\* The calls of q that push the key k.
Pushes(c, k)  == c.op = "push" /\ k \in DOMAIN c.args
Pushing(q, k) == {i \in 1..Len(q) : Pushes(q[i], k)}

\* Where the value of k is val, it is cur once the calls q are carried out.
Saves(q, k, cur, val) ==
    /\ Pushing(q, k) = {} => val = cur
    /\ \A i \in Pushing(q, k) : (\A j \in Pushing(q, k) : j <= i) => q[i].args[k] = cur

\* What is under way between a copy and its session makes them agree, when no
\* user id is taken for no user.
Agrees(h) == LET s == copy[h].sid IN
    (FalsyUids = {} /\ ~behind[h] /\ s \in sessions) =>
        /\ Follows(back[h], copy[h].uid, uid[s])
        /\ \A k \in Keys \ unpushed[h] : Saves(wire[h], k, copy[h].settings[k], settings[s][k])

\* A copy that is not there has nothing under way; calls are about its session.
Orderly(h) ==
    /\ copy[h].sid = "none" => ~copy[h].got /\ Idle(h) /\ unpushed[h] = {}
    /\ \A i \in 1..Len(wire[h]) : /\ wire[h][i].sid = copy[h].sid
                                  /\ wire[h][i].op \in {"bind", "unbind"} => wire[h][i].uid \in Uids
    /\ h \in Local => wire[h] = <<>>
    /\ (copy[h].sid # "none" /\ ~behind[h]) => state[copy[h].sid] # "none"
    /\ \A k \in unpushed[h] : copy[h].settings[k] # 0

BInv == CopyTypes /\ \A h \in Handles : Orderly(h) /\ Agrees(h)

\* Nothing has a value that has not been written yet.
Written == /\ \A s \in Sids, k \in Keys : settings[s][k] <= writes
           /\ \A h \in Handles, k \in Keys : copy[h].settings[k] <= writes
           /\ \A h \in Handles : \A i \in 1..Len(wire[h]) :
                 \A j \in DOMAIN wire[h][i].args : wire[h][i].args[j] <= writes
\* Each write has a value of its own.
Distinct == \A h \in Handles : \A k \in unpushed[h] : \A j \in Keys \ {k} :
                copy[h].settings[j] # copy[h].settings[k]

PInv == Written /\ Distinct /\ UnpushedIsLocal

-----------------------------------------------------------------------------
(* Queues of answers and of calls *)

LEMMA AppendedSeq ==
    ASSUME NEW S, NEW q \in Seq(S), NEW x \in S
    PROVE  /\ Append(q, x) \in Seq(S) /\ Len(Append(q, x)) = Len(q) + 1 /\ Len(q) \in Nat
           /\ Append(q, x)[Len(q) + 1] = x
           /\ \A i \in 1..Len(q) : Append(q, x)[i] = q[i]
OBVIOUS

LEMMA TailSeq ==
    ASSUME NEW S, NEW q \in Seq(S), q # <<>>
    PROVE  /\ Tail(q) \in Seq(S) /\ Len(Tail(q)) = Len(q) - 1 /\ Len(q) \in Nat \ {0}
           /\ Head(q) = q[1] /\ Head(q) \in S
           /\ \A i \in 1..Len(Tail(q)) : Tail(q)[i] = q[i + 1]
OBVIOUS

LEMMA FollowsAppend ==
    ASSUME NEW S, NEW q \in Seq(S), NEW x \in S, NEW u, NEW v, Follows(q, u, v)
    PROVE  Follows(Append(q, x), u, IF Tells(x) THEN Told(x) ELSE v)
<1>1. PICK r : r = Append(q, x)
  OBVIOUS
<1>2. PICK n \in Nat : n = Len(q)
  BY AppendedSeq
<1>3. Len(r) = n + 1 /\ r[n + 1] = x /\ \A i \in 1..n : r[i] = q[i]
  BY <1>1, <1>2, AppendedSeq
<1>4. CASE Tells(x)
  <2>1. n + 1 \in Telling(r) /\ \A i \in Telling(r) : i <= n + 1 /\ i \in Nat
    BY <1>2, <1>3, <1>4 DEF Telling
  <2>2. ASSUME NEW i \in Telling(r), \A j \in Telling(r) : j <= i PROVE Told(x) = Told(r[i])
    <3>1. i = n + 1
      BY <1>2, <2>1, <2>2
    <3> QED
      BY <1>3, <3>1
  <2> QED
    BY <1>1, <1>4, <2>1, <2>2 DEF Follows
<1>5. CASE ~Tells(x)
  <2>1. Telling(r) = Telling(q)
    BY <1>2, <1>3, <1>5 DEF Telling
  <2>2. \A i \in Telling(r) : r[i] = q[i]
    BY <1>2, <1>3, <2>1 DEF Telling
  <2> QED
    BY <1>1, <1>5, <2>1, <2>2 DEF Follows
<1> QED
  BY <1>4, <1>5

LEMMA FollowsTail ==
    ASSUME NEW S, NEW q \in Seq(S), q # <<>>, NEW u, NEW v, Follows(q, u, v)
    PROVE  Follows(Tail(q), IF Tells(Head(q)) THEN Told(Head(q)) ELSE u, v)
<1>1. PICK r : r = Tail(q)
  OBVIOUS
<1>2. PICK n \in Nat : n = Len(r) /\ Len(q) = n + 1
  BY <1>1, TailSeq
<1>3. Head(q) = q[1] /\ \A i \in 1..n : r[i] = q[i + 1]
  BY <1>1, <1>2, TailSeq
<1>4. \A i \in 1..n : i \in Telling(r) <=> i + 1 \in Telling(q)
  BY <1>2, <1>3 DEF Telling
<1>5. \A i \in Telling(q) : i = 1 \/ (i - 1 \in 1..n /\ i - 1 \in Telling(r))
  BY <1>2, <1>3 DEF Telling
<1>6. 1 \in Telling(q) <=> Tells(Head(q))
  BY <1>2, <1>3 DEF Telling
<1>7. Telling(r) \subseteq 1..n
  BY <1>2 DEF Telling
<1>8. ASSUME Telling(r) = {}
      PROVE  v = IF Tells(Head(q)) THEN Told(Head(q)) ELSE u
  <2>1. CASE Tells(Head(q))
    BY <1>3, <1>5, <1>6, <1>8, <2>1 DEF Follows
  <2>2. CASE ~Tells(Head(q))
    BY <1>5, <1>6, <1>8, <2>2 DEF Follows
  <2> QED
    BY <2>1, <2>2
<1>9. ASSUME NEW i \in Telling(r), \A j \in Telling(r) : j <= i
      PROVE  v = Told(r[i])
  <2>1. i \in 1..n /\ i + 1 \in Telling(q)
    BY <1>4, <1>7
  <2>2. \A j \in Telling(q) : j <= i + 1
    <3> SUFFICES ASSUME NEW j \in Telling(q) PROVE j <= i + 1
      OBVIOUS
    <3>1. CASE j = 1
      BY <2>1, <3>1
    <3>2. CASE j # 1
      BY <1>5, <1>9, <2>1, <3>2 DEF Telling
    <3> QED
      BY <3>1, <3>2
  <2>3. v = Told(q[i + 1])
    BY <2>1, <2>2 DEF Follows
  <2> QED
    BY <1>3, <2>1, <2>3
<1> QED
  BY <1>1, <1>8, <1>9 DEF Follows

LEMMA FollowsEmpty == ASSUME NEW u, NEW v PROVE Follows(<<>>, u, v) <=> v = u
BY DEF Follows, Telling

\* A push of k with the value the copy has, or another call.
LEMMA SavesPushed ==
    ASSUME NEW S, NEW q \in Seq(S), NEW c \in S, NEW k, NEW val, Pushes(c, k)
    PROVE  Saves(Append(q, c), k, c.args[k], val)
<1>1. PICK r : r = Append(q, c)
  OBVIOUS
<1>2. PICK n \in Nat : n = Len(q)
  BY AppendedSeq
<1>3. Len(r) = n + 1 /\ r[n + 1] = c
  BY <1>1, <1>2, AppendedSeq
<1>4. n + 1 \in Pushing(r, k) /\ \A i \in Pushing(r, k) : i <= n + 1 /\ i \in Nat
  BY <1>2, <1>3 DEF Pushing
<1>5. ASSUME NEW i \in Pushing(r, k), \A j \in Pushing(r, k) : j <= i PROVE r[i].args[k] = c.args[k]
  <2>1. i = n + 1
    BY <1>2, <1>4, <1>5
  <2> QED
    BY <1>3, <2>1
<1> QED
  BY <1>1, <1>4, <1>5 DEF Saves

LEMMA SavesOther ==
    ASSUME NEW S, NEW q \in Seq(S), NEW c \in S, NEW k, NEW cur, NEW val, Saves(q, k, cur, val),
           ~Pushes(c, k)
    PROVE  Saves(Append(q, c), k, cur, val)
<1>1. PICK r : r = Append(q, c)
  OBVIOUS
<1>2. PICK n \in Nat : n = Len(q)
  BY AppendedSeq
<1>3. Len(r) = n + 1 /\ r[n + 1] = c /\ \A i \in 1..n : r[i] = q[i]
  BY <1>1, <1>2, AppendedSeq
<1>4. Pushing(r, k) = Pushing(q, k)
  BY <1>2, <1>3 DEF Pushing
<1>5. \A i \in Pushing(r, k) : r[i] = q[i]
  BY <1>2, <1>3, <1>4 DEF Pushing
<1> QED
  BY <1>1, <1>4, <1>5 DEF Saves

LEMMA SavesTail ==
    ASSUME NEW S, NEW q \in Seq(S), q # <<>>, NEW k, NEW cur, NEW val, Saves(q, k, cur, val)
    PROVE  Saves(Tail(q), k, cur, IF Pushes(Head(q), k) THEN Head(q).args[k] ELSE val)
<1>1. PICK r : r = Tail(q)
  OBVIOUS
<1>2. PICK n \in Nat : n = Len(r) /\ Len(q) = n + 1
  BY <1>1, TailSeq
<1>3. Head(q) = q[1] /\ \A i \in 1..n : r[i] = q[i + 1]
  BY <1>1, <1>2, TailSeq
<1>4. \A i \in 1..n : i \in Pushing(r, k) <=> i + 1 \in Pushing(q, k)
  BY <1>2, <1>3 DEF Pushing
<1>5. \A i \in Pushing(q, k) : i = 1 \/ (i - 1 \in 1..n /\ i - 1 \in Pushing(r, k))
  BY <1>2, <1>3 DEF Pushing
<1>6. 1 \in Pushing(q, k) <=> Pushes(Head(q), k)
  BY <1>2, <1>3 DEF Pushing
<1>7. Pushing(r, k) \subseteq 1..n
  BY <1>2 DEF Pushing
<1>8. ASSUME Pushing(r, k) = {}
      PROVE  cur = IF Pushes(Head(q), k) THEN Head(q).args[k] ELSE val
  <2>1. CASE Pushes(Head(q), k)
    BY <1>3, <1>5, <1>6, <1>8, <2>1 DEF Saves
  <2>2. CASE ~Pushes(Head(q), k)
    BY <1>5, <1>6, <1>8, <2>2 DEF Saves
  <2> QED
    BY <2>1, <2>2
<1>9. ASSUME NEW i \in Pushing(r, k), \A j \in Pushing(r, k) : j <= i
      PROVE  r[i].args[k] = cur
  <2>1. i \in 1..n /\ i + 1 \in Pushing(q, k)
    BY <1>4, <1>7
  <2>2. \A j \in Pushing(q, k) : j <= i + 1
    <3> SUFFICES ASSUME NEW j \in Pushing(q, k) PROVE j <= i + 1
      OBVIOUS
    <3>1. CASE j = 1
      BY <2>1, <3>1
    <3>2. CASE j # 1
      BY <1>5, <1>9, <2>1, <3>2 DEF Pushing
    <3> QED
      BY <3>1, <3>2
  <2>3. q[i + 1].args[k] = cur
    BY <2>1, <2>2 DEF Saves
  <2> QED
    BY <1>3, <2>1, <2>3
<1> QED
  BY <1>1, <1>8, <1>9 DEF Saves

LEMMA SavesEmpty == ASSUME NEW k, NEW cur, NEW val PROVE Saves(<<>>, k, cur, val) <=> val = cur
BY DEF Saves, Pushing

-----------------------------------------------------------------------------
(* What a call does in the frontend *)

Uid4(c) == c.op \in {"bind", "unbind"} => c.uid \in Uids

LEMMA ServeSessions ==
    ASSUME NEW h, NEW c \in Call, Uid4(c), Serve(h, c)
    PROVE  [Next]_sessionVars
<1>1. c.op \in Calls4 /\ c.sid \in Sids /\ c.uid \in Uids \cup {NoUid}
  BY DEF Call
<1>2. CASE c.op = "bind"
  <2>1. ServeBind(h, c) /\ c.uid \in Uids
    BY <1>2 DEF Serve, Uid4
  <2> QED
    BY <1>1, <2>1 DEF ServeBind, Next
<1>3. CASE c.op = "unbind"
  <2>1. ServeUnbind(h, c) /\ c.uid \in Uids
    BY <1>3 DEF Serve, Uid4
  <2> QED
    BY <1>1, <2>1 DEF ServeUnbind, Next
<1>4. CASE c.op = "push"
  <2>1. Import(h, c)
    BY <1>4 DEF Serve
  <2> QED
    BY <2>1 DEF Import
<1>5. CASE c.op = "kick"
  <2>1. ServeKick(h, c)
    BY <1>5 DEF Serve
  <2>2. CASE KickBySessionId(c.sid)
    BY <1>1, <2>2 DEF Next
  <2>3. CASE c.uid # NoUid /\ Kick(c.uid)
    BY <1>1, <2>3 DEF Next
  <2> QED
    BY <2>1, <2>2, <2>3 DEF ServeKick
<1> QED
  BY <1>1, <1>2, <1>3, <1>4, <1>5 DEF Calls4

LEMMA AnswerEffect ==
    ASSUME CopyTypes, NEW h \in Handles, NEW c \in Call, NEW ok \in BOOLEAN, Answer(h, c, ok)
    PROVE  /\ back' \in [Handles -> Seq(Reply)]
           /\ \A g \in Handles \ {h} : back'[g] = back[g]
           /\ \E a \in Reply :
                 /\ a.op = c.op /\ a.ok = ok /\ a.uid = c.uid
                 /\ back'[h] = Append(back[h], a) \/ (c.op = "push" /\ back'[h] = back[h])
<1>1. PICK a : a = [op |-> c.op, ok |-> ok, uid |-> c.uid]
  OBVIOUS
<1>2. a \in Reply /\ a.op = c.op /\ a.ok = ok /\ a.uid = c.uid
  BY <1>1 DEF Call, Reply
<1>3. back' = [back EXCEPT ![h] = Append(@, a)] \/ (c.op = "push" /\ back' = back)
  BY <1>1 DEF Answer
<1>4. back \in [Handles -> Seq(Reply)]
  BY DEF CopyTypes
<1>5. CASE back' = back
  BY <1>2, <1>3, <1>4, <1>5
<1>6. CASE back' = [back EXCEPT ![h] = Append(@, a)]
  <2>1. PICK q \in Seq(Reply) : q = back[h]
    BY <1>4
  <2>2. PICK r \in Seq(Reply) : r = Append(q, a)
    BY <1>2, AppendedSeq
  <2>3. back' = [back EXCEPT ![h] = r]
    BY <1>6, <2>1, <2>2
  <2>4. back'[h] = r /\ back' \in [Handles -> Seq(Reply)] /\ \A g \in Handles \ {h} : back'[g] = back[g]
    BY <1>4, <2>3
  <2> QED
    BY <1>2, <2>1, <2>2, <2>4
<1> QED
  BY <1>3, <1>5, <1>6

\* Sessions never change behind the back of a copy, but by its own calls.
Others(h, c) ==
    /\ sessions' \subseteq sessions
    /\ \A s \in Sids : state[s] # "none" => state'[s] # "none"
    /\ \A s \in sessions' : s # c.sid => uid'[s] = uid[s] /\ settings'[s] = settings[s]
    /\ behind' \in [Handles -> BOOLEAN] /\ behind'[h] = behind[h]
    /\ \A g \in Handles : behind[g] => behind'[g]
    /\ \A g \in Handles \ {h} :
          \/ behind'[g] \/ copy[g].sid # c.sid \/ c.sid \notin sessions'
          \/ uid'[c.sid] = uid[c.sid] /\ settings'[c.sid] = settings[c.sid]

\* The answer tells the copy what the call has made of the user.
Reports(h, c) == FalsyUids = {} =>
    \E a \in Reply :
       /\ back'[h] = Append(back[h], a) \/ (~Tells(a) /\ back'[h] = back[h])
       /\ c.sid \in sessions' => uid'[c.sid] = IF Tells(a) THEN Told(a) ELSE uid[c.sid]

Stores(c) == c.sid \in sessions' =>
    \A k \in Keys : settings'[c.sid][k] = IF Pushes(c, k) THEN c.args[k] ELSE settings[c.sid][k]

Served(h, c) == /\ Others(h, c) /\ Reports(h, c) /\ Stores(c)
                /\ settings' \in [Sids -> [Keys -> Values]]
                /\ back' \in [Handles -> Seq(Reply)]
                /\ \A g \in Handles \ {h} : back'[g] = back[g]

LEMMA ChangedOthers ==
    ASSUME CopyTypes, NEW h \in Handles, NEW c, Changed(h, c.sid)
    PROVE  /\ behind' \in [Handles -> BOOLEAN] /\ behind'[h] = behind[h]
           /\ \A g \in Handles : behind[g] => behind'[g]
           /\ \A g \in Handles \ {h} : behind'[g] \/ copy[g].sid # c.sid
BY DEF CopyTypes, Changed

LEMMA ServeBindEffect ==
    ASSUME IInv, CopyTypes, NEW h \in Handles, NEW c \in Call, c.op = "bind", Uid4(c),
           ServeBind(h, c)
    PROVE  Served(h, c)
<1>1. c.sid \in Sids /\ c.uid \in Uids /\ UNCHANGED settings
  BY DEF Call, Uid4, ServeBind
<1>2. Stores(c) /\ settings' \in [Sids -> [Keys -> Values]]
  BY <1>1 DEF Stores, Pushes, CopyTypes
<1>3. CASE Bind(c.sid, c.uid) /\ Changed(h, c.sid) /\ Answer(h, c, TRUE)
  <2>1. /\ UNCHANGED <<sessions, state>> /\ uid'[c.sid] = c.uid
        /\ \A s \in Sids \ {c.sid} : uid'[s] = uid[s]
    BY <1>1, <1>3 DEF Bind, Attach, IInv, TypeOK
  <2>2. Others(h, c)
    BY <1>1, <1>3, <2>1, ChangedOthers DEF Others, IInv, TypeOK
  <2>3. PICK a \in Reply :
           /\ a.op = c.op /\ a.ok = TRUE /\ a.uid = c.uid
           /\ back'[h] = Append(back[h], a) \/ (c.op = "push" /\ back'[h] = back[h])
    BY <1>3, AnswerEffect
  <2>4. Reports(h, c)
    BY <2>1, <2>3 DEF Reports, Tells, Told
  <2> QED
    BY <1>2, <1>3, <2>2, <2>4, AnswerEffect DEF Served
<1>4. ASSUME NEW ok \in BOOLEAN, Answer(h, c, ok), UNCHANGED <<sessionVars, behind>>,
             (ok = TRUE /\ FalsyUids = {}) => uid[c.sid] = c.uid
      PROVE  Served(h, c)
  <2>1. UNCHANGED <<sessions, state, uid, behind>>
    BY <1>4 DEF sessionVars
  <2>2. Others(h, c)
    BY <1>1, <2>1 DEF Others, CopyTypes
  <2>3. PICK a \in Reply :
           /\ a.op = c.op /\ a.ok = ok /\ a.uid = c.uid
           /\ back'[h] = Append(back[h], a) \/ (c.op = "push" /\ back'[h] = back[h])
    BY <1>4, AnswerEffect
  <2>4. Reports(h, c)
    BY <1>4, <2>1, <2>3 DEF Reports, Tells, Told
  <2> QED
    BY <1>2, <1>4, <2>2, <2>4, AnswerEffect DEF Served
<1>5. CASE BindRepeated(c.sid, c.uid) /\ Answer(h, c, TRUE) /\ UNCHANGED <<sessionVars, behind>>
  <2>1. FalsyUids = {} => uid[c.sid] = c.uid
    BY <1>1, <1>5, SessionAssumption DEF BindRepeated, IInv, IndexConsistent
  <2> QED
    BY <1>4, <1>5, <2>1
<1>6. CASE Answer(h, c, FALSE) /\ UNCHANGED <<sessionVars, behind>>
  BY <1>4, <1>6
<1> QED
  BY <1>3, <1>5, <1>6 DEF ServeBind

LEMMA ServeUnbindEffect ==
    ASSUME IInv, CopyTypes, NEW h \in Handles, NEW c \in Call, c.op = "unbind", Uid4(c),
           ServeUnbind(h, c)
    PROVE  Served(h, c)
<1>1. c.sid \in Sids /\ c.uid \in Uids /\ UNCHANGED settings
  BY DEF Call, Uid4, ServeUnbind
<1>2. Stores(c) /\ settings' \in [Sids -> [Keys -> Values]]
  BY <1>1 DEF Stores, Pushes, CopyTypes
<1>3. CASE Unbind(c.sid, c.uid) /\ Changed(h, c.sid) /\ Answer(h, c, TRUE)
  <2>1. /\ UNCHANGED <<sessions, state>> /\ uid'[c.sid] = NoUid
        /\ \A s \in Sids \ {c.sid} : uid'[s] = uid[s]
    BY <1>1, <1>3 DEF Unbind, IInv, TypeOK
  <2>2. Others(h, c)
    BY <1>1, <1>3, <2>1, ChangedOthers DEF Others, IInv, TypeOK
  <2>3. PICK a \in Reply :
           /\ a.op = c.op /\ a.ok = TRUE /\ a.uid = c.uid
           /\ back'[h] = Append(back[h], a) \/ (c.op = "push" /\ back'[h] = back[h])
    BY <1>3, AnswerEffect
  <2>4. Reports(h, c)
    BY <2>1, <2>3 DEF Reports, Tells, Told
  <2> QED
    BY <1>2, <1>3, <2>2, <2>4, AnswerEffect DEF Served
<1>4. CASE Answer(h, c, FALSE) /\ UNCHANGED <<sessionVars, behind>>
  <2>1. UNCHANGED <<sessions, state, uid, behind>>
    BY <1>4 DEF sessionVars
  <2>2. Others(h, c)
    BY <1>1, <2>1 DEF Others, CopyTypes
  <2>3. PICK a \in Reply :
           /\ a.op = c.op /\ a.ok = FALSE /\ a.uid = c.uid
           /\ back'[h] = Append(back[h], a) \/ (c.op = "push" /\ back'[h] = back[h])
    BY <1>4, AnswerEffect
  <2>4. Reports(h, c)
    BY <2>1, <2>3 DEF Reports, Tells
  <2> QED
    BY <1>2, <1>4, <2>2, <2>4, AnswerEffect DEF Served
<1> QED
  BY <1>3, <1>4 DEF ServeUnbind

LEMMA ArgValues ==
    ASSUME NEW c \in Call
    PROVE  DOMAIN c.args \subseteq Keys /\ \A j \in DOMAIN c.args : c.args[j] \in Values
<1>1. c.args \in Defined
  BY DEF Call
<1>2. PICK K \in SUBSET Keys : c.args \in [K -> Values]
  BY <1>1 DEF Defined
<1> QED
  BY <1>2

LEMMA ImportEffect ==
    ASSUME IInv, CopyTypes, NEW h \in Handles, NEW c \in Call, c.op = "push", Import(h, c)
    PROVE  Served(h, c)
<1>1. c.sid \in Sids /\ UNCHANGED sessionVars
  BY DEF Call, Import
<1>2. UNCHANGED <<sessions, state, uid>>
  BY <1>1 DEF sessionVars
<1>3. ASSUME NEW ok \in BOOLEAN, Answer(h, c, ok) PROVE Reports(h, c)
  <2>1. PICK a \in Reply : /\ a.op = c.op
                           /\ back'[h] = Append(back[h], a) \/ (c.op = "push" /\ back'[h] = back[h])
    BY <1>3, AnswerEffect
  <2>2. ~Tells(a)
    BY <2>1 DEF Tells
  <2> QED
    BY <1>2, <2>1, <2>2 DEF Reports
<1>4. CASE c.sid \in sessions
  <2>1. settings' = [settings EXCEPT ![c.sid] = Imported(c.sid, c.args)]
        /\ Changed(h, c.sid) /\ Answer(h, c, TRUE)
    BY <1>4 DEF Import
  <2>2. PICK f : f = Imported(c.sid, c.args)
    OBVIOUS
  <2>3. /\ f \in [Keys -> Values]
        /\ \A k \in Keys : f[k] = IF k \in DOMAIN c.args THEN c.args[k] ELSE settings[c.sid][k]
    BY <1>1, <2>2, ArgValues DEF Imported, CopyTypes
  <2>4. /\ settings' \in [Sids -> [Keys -> Values]] /\ settings'[c.sid] = f
        /\ \A s \in Sids \ {c.sid} : settings'[s] = settings[s]
    BY <1>1, <2>1, <2>2, <2>3 DEF CopyTypes
  <2>5. Stores(c)
    BY <2>3, <2>4 DEF Stores, Pushes
  <2>6. Others(h, c)
    BY <1>2, <2>1, <2>4, ChangedOthers DEF Others, IInv, TypeOK
  <2> QED
    BY <1>3, <2>1, <2>4, <2>5, <2>6, AnswerEffect DEF Served
<1>5. CASE c.sid \notin sessions
  <2>1. Answer(h, c, FALSE) /\ UNCHANGED <<settings, behind>>
    BY <1>5 DEF Import
  <2>2. Others(h, c) /\ Stores(c)
    BY <1>2, <1>5, <2>1 DEF Others, Stores, CopyTypes
  <2> QED
    BY <1>3, <2>1, <2>2, AnswerEffect DEF Served, CopyTypes
<1> QED
  BY <1>4, <1>5

\* Closing sessions changes none that stays.
LEMMA CloseSessions ==
    ASSUME NEW S, Close(S), TypeOK
    PROVE  /\ sessions' \subseteq sessions /\ UNCHANGED uid
           /\ \A s \in Sids : state[s] # "none" => state'[s] # "none"
BY DEF Close, TypeOK

LEMMA KickEffect ==
    ASSUME IInv, CopyTypes, NEW h \in Handles, NEW c \in Call, c.op = "kick", ServeKick(h, c)
    PROVE  Served(h, c)
<1>1. c.sid \in Sids /\ Answer(h, c, TRUE) /\ UNCHANGED <<settings, behind>>
  BY DEF Call, ServeKick
<1>2. /\ sessions' \subseteq sessions /\ UNCHANGED uid
      /\ \A s \in Sids : state[s] # "none" => state'[s] # "none"
  <2>1. CASE KickBySessionId(c.sid)
    BY <2>1, CloseSessions DEF KickBySessionId, IInv
  <2>2. CASE Kick(c.uid)
    BY <2>2, CloseSessions DEF Kick, IInv
  <2>3. CASE UNCHANGED sessionVars
    BY <2>3 DEF sessionVars
  <2> QED
    BY <2>1, <2>2, <2>3 DEF ServeKick
<1>3. Others(h, c)
  BY <1>1, <1>2 DEF Others, CopyTypes
<1>4. Stores(c)
  BY <1>1 DEF Stores, Pushes
<1>5. PICK a \in Reply :
         /\ a.op = c.op /\ a.ok = TRUE /\ a.uid = c.uid
         /\ back'[h] = Append(back[h], a) \/ (c.op = "push" /\ back'[h] = back[h])
  BY <1>1, AnswerEffect
<1>6. Reports(h, c)
  BY <1>2, <1>5 DEF Reports, Tells
<1> QED
  BY <1>1, <1>3, <1>4, <1>6, AnswerEffect DEF Served, CopyTypes

LEMMA ServeEffect ==
    ASSUME IInv, CopyTypes, NEW h \in Handles, NEW c \in Call, Uid4(c), Serve(h, c)
    PROVE  Served(h, c)
<1>1. c.op \in Calls4
  BY DEF Call
<1> QED
  BY <1>1, ServeBindEffect, ServeUnbindEffect, ImportEffect, KickEffect DEF Serve, Calls4

-----------------------------------------------------------------------------
(* Copies that a call is not about, and the one it is about *)

LEMMA OthersKeep ==
    ASSUME CopyTypes, NEW h \in Handles, NEW c \in Call, Others(h, c),
           NEW g \in Handles \ {h}, copy'[g] = copy[g], wire'[g] = wire[g], back'[g] = back[g],
           unpushed'[g] = unpushed[g], Orderly(g), Agrees(g)
    PROVE  Orderly(g)' /\ Agrees(g)'
<1>1. copy[g].sid \in Sids \cup {"none"} /\ (~behind'[g] => ~behind[g])
  BY DEF CopyTypes, Object, Others
<1>2. Orderly(g)'
  BY <1>1 DEF Orderly, Idle, Others
<1>3. Agrees(g)'
  <2>1. PICK s : s = copy[g].sid
    OBVIOUS
  <2> SUFFICES ASSUME FalsyUids = {}, ~behind'[g], s \in sessions'
               PROVE  /\ Follows(back[g], copy[g].uid, uid'[s])
                      /\ \A k \in Keys \ unpushed[g] : Saves(wire[g], k, copy[g].settings[k], settings'[s][k])
    BY <2>1 DEF Agrees
  <2>2. s \in sessions /\ uid'[s] = uid[s] /\ settings'[s] = settings[s]
    BY <2>1 DEF Others
  <2> QED
    BY <1>1, <2>1, <2>2 DEF Agrees
<1> QED
  BY <1>2, <1>3

LEMMA ReportsFollow ==
    ASSUME FalsyUids = {}, CopyTypes, NEW h \in Handles, NEW c \in Call, Reports(h, c),
           c.sid \in sessions',
           Follows(back[h], copy[h].uid, uid[c.sid])
    PROVE  Follows(back'[h], copy[h].uid, uid'[c.sid])
<1>1. PICK a \in Reply :
         /\ back'[h] = Append(back[h], a) \/ (~Tells(a) /\ back'[h] = back[h])
         /\ uid'[c.sid] = IF Tells(a) THEN Told(a) ELSE uid[c.sid]
  BY DEF Reports
<1>2. PICK q \in Seq(Reply) : q = back[h]
  BY DEF CopyTypes
<1>3. CASE back'[h] = Append(q, a)
  <2>1. PICK u : u = copy[h].uid
    OBVIOUS
  <2>2. PICK v : v = uid[c.sid]
    OBVIOUS
  <2>3. Follows(q, u, v)
    BY <1>2, <2>1, <2>2
  <2>4. Follows(Append(q, a), u, IF Tells(a) THEN Told(a) ELSE v)
    BY <2>3, FollowsAppend
  <2> QED
    BY <1>1, <1>3, <2>1, <2>2, <2>4
<1>4. CASE ~Tells(a) /\ back'[h] = back[h]
  BY <1>1, <1>4
<1> QED
  BY <1>1, <1>2, <1>3, <1>4

\* The next call of h arrives.
LEMMA ReceivedKeeps ==
    ASSUME CopyTypes, NEW h \in Handles, Orderly(h), Agrees(h), wire[h] # <<>>,
           NEW c \in Call, c = Head(wire[h]), Served(h, c),
           copy'[h] = copy[h], wire'[h] = Tail(wire[h]), unpushed'[h] = unpushed[h]
    PROVE  Orderly(h)' /\ Agrees(h)'
<1>1. PICK q \in Seq(Call) : q = wire[h]
  BY DEF CopyTypes
<1>2. /\ Len(Tail(q)) = Len(q) - 1 /\ Len(q) \in Nat \ {0} /\ Head(q) = q[1]
      /\ \A i \in 1..Len(Tail(q)) : Tail(q)[i] = q[i + 1]
  BY <1>1, TailSeq
<1>3. c.sid = copy[h].sid
  BY <1>1, <1>2 DEF Orderly
<1>4. copy[h].sid # "none" /\ h \notin Local
  BY DEF Orderly, Idle
<1>5. copy[h].sid \in Sids
  BY <1>4 DEF CopyTypes, Object
<1>6. Orderly(h)'
  <2>1. \A i \in 1..Len(Tail(q)) : i + 1 \in 1..Len(q)
    BY <1>2
  <2>2. \A i \in 1..Len(wire'[h]) :
           /\ wire'[h][i].sid = copy[h].sid
           /\ wire'[h][i].op \in {"bind", "unbind"} => wire'[h][i].uid \in Uids
    BY <1>1, <1>2, <2>1 DEF Orderly
  <2>3. ~behind'[h] => state'[copy[h].sid] # "none"
    BY <1>4, <1>5 DEF Served, Others, Orderly
  <2>4. \A k \in unpushed'[h] : copy[h].settings[k] # 0
    BY DEF Orderly
  <2> QED
    BY <1>4, <2>2, <2>3, <2>4 DEF Orderly
<1>7. Agrees(h)'
  <2> SUFFICES ASSUME FalsyUids = {}, ~behind'[h], c.sid \in sessions'
               PROVE  /\ Follows(back'[h], copy[h].uid, uid'[c.sid])
                      /\ \A k \in Keys \ unpushed[h] :
                            Saves(wire'[h], k, copy[h].settings[k], settings'[c.sid][k])
    BY <1>3 DEF Agrees
  <2>1. ~behind[h] /\ c.sid \in sessions
    BY DEF Served, Others
  <2>2. /\ Follows(back[h], copy[h].uid, uid[c.sid])
        /\ \A k \in Keys \ unpushed[h] : Saves(q, k, copy[h].settings[k], settings[c.sid][k])
    BY <1>1, <1>3, <2>1 DEF Agrees
  <2>3. Follows(back'[h], copy[h].uid, uid'[c.sid])
    BY <2>2, ReportsFollow DEF Served
  <2>4. ASSUME NEW k \in Keys \ unpushed[h]
        PROVE  Saves(wire'[h], k, copy[h].settings[k], settings'[c.sid][k])
    <3>1. PICK cur : cur = copy[h].settings[k]
      OBVIOUS
    <3>2. PICK val : val = settings[c.sid][k]
      OBVIOUS
    <3>3. Saves(q, k, cur, val) /\ q # <<>>
      BY <1>1, <2>2, <3>1, <3>2
    <3>4. Saves(Tail(q), k, cur, IF Pushes(Head(q), k) THEN Head(q).args[k] ELSE val)
      BY <3>3, SavesTail
    <3>5. settings'[c.sid][k] = IF Pushes(c, k) THEN c.args[k] ELSE val
      BY <3>2 DEF Served, Stores
    <3> QED
      BY <1>1, <3>1, <3>4, <3>5
  <2> QED
    BY <2>3, <2>4
<1> QED
  BY <1>6, <1>7

\* The keys that c leaves unpushed were not pushed before it or are pushed by it.
Leaves(h, c) == /\ unpushed'[h] \subseteq unpushed[h]
                /\ \A k \in Keys \ unpushed'[h] :
                      IF Pushes(c, k) THEN c.args[k] = copy[h].settings[k] ELSE k \notin unpushed[h]

\* A call that is carried out at once.
LEMMA LocalKeeps ==
    ASSUME CopyTypes, NEW h \in Local, Orderly(h), Agrees(h), NEW c \in Call, c.sid = copy[h].sid,
           Served(h, c), Leaves(h, c), copy'[h] = copy[h], wire'[h] = wire[h], copy[h].got
    PROVE  Orderly(h)' /\ Agrees(h)'
<1>1. h \in Handles /\ wire[h] = <<>> /\ copy[h].sid # "none"
  BY CopyAssumption DEF CopyAssumption, Orderly
<1>2. copy[h].sid \in Sids
  BY <1>1 DEF CopyTypes, Object
<1>3. Orderly(h)'
  <2>1. ~behind'[h] => state'[copy[h].sid] # "none"
    BY <1>1, <1>2 DEF Served, Others, Orderly
  <2>2. \A k \in unpushed'[h] : copy[h].settings[k] # 0
    BY DEF Orderly, Leaves
  <2> QED
    BY <1>1, <2>1, <2>2 DEF Orderly
<1>4. Agrees(h)'
  <2> SUFFICES ASSUME FalsyUids = {}, ~behind'[h], c.sid \in sessions'
               PROVE  /\ Follows(back'[h], copy[h].uid, uid'[c.sid])
                      /\ \A k \in Keys \ unpushed'[h] :
                            Saves(<<>>, k, copy[h].settings[k], settings'[c.sid][k])
    BY <1>1 DEF Agrees
  <2>1. ~behind[h] /\ c.sid \in sessions
    BY <1>1 DEF Served, Others
  <2>2. /\ Follows(back[h], copy[h].uid, uid[c.sid])
        /\ \A k \in Keys \ unpushed[h] : copy[h].settings[k] = settings[c.sid][k]
    BY <1>1, <2>1, SavesEmpty DEF Agrees
  <2>3. Follows(back'[h], copy[h].uid, uid'[c.sid])
    BY <1>1, <2>2, ReportsFollow DEF Served
  <2>4. \A k \in Keys \ unpushed'[h] : copy[h].settings[k] = settings'[c.sid][k]
    BY <2>2 DEF Served, Stores, Leaves
  <2> QED
    BY <2>3, <2>4, SavesEmpty
<1> QED
  BY <1>3, <1>4

\* A call that is sent.
LEMMA SentKeeps ==
    ASSUME CopyTypes, NEW h \in Handles \ Local, Orderly(h), Agrees(h), NEW c \in Call, Uid4(c),
           c.sid = copy[h].sid, Leaves(h, c), copy[h].got, copy'[h] = copy[h], back'[h] = back[h],
           wire'[h] = Append(wire[h], c), UNCHANGED <<sessionVars, settings, behind>>
    PROVE  Orderly(h)' /\ Agrees(h)'
<1>1. PICK q \in Seq(Call) : q = wire[h]
  BY DEF CopyTypes
<1>2. /\ Len(Append(q, c)) = Len(q) + 1 /\ Append(q, c)[Len(q) + 1] = c /\ Len(q) \in Nat
      /\ \A i \in 1..Len(q) : Append(q, c)[i] = q[i]
  BY AppendedSeq
<1>3. UNCHANGED <<sessions, state, uid>> /\ wire'[h] = Append(q, c)
  BY <1>1 DEF sessionVars
<1>4. Orderly(h)'
  <2>1. \A i \in 1..Len(Append(q, c)) : i \in 1..Len(q) \/ Append(q, c)[i] = c
    BY <1>2
  <2>2. \A i \in 1..Len(wire'[h]) :
           /\ wire'[h][i].sid = copy[h].sid
           /\ wire'[h][i].op \in {"bind", "unbind"} => wire'[h][i].uid \in Uids
    BY <1>1, <1>2, <1>3, <2>1 DEF Orderly, Uid4
  <2>3. copy[h].sid # "none"
    BY DEF Orderly
  <2>4. \A k \in unpushed'[h] : copy[h].settings[k] # 0
    BY DEF Orderly, Leaves
  <2> QED
    BY <1>3, <2>2, <2>3, <2>4 DEF Orderly
<1>5. Agrees(h)'
  <2> SUFFICES ASSUME FalsyUids = {}, ~behind[h], c.sid \in sessions
               PROVE  /\ Follows(back[h], copy[h].uid, uid[c.sid])
                      /\ \A k \in Keys \ unpushed'[h] :
                            Saves(Append(q, c), k, copy[h].settings[k], settings[c.sid][k])
    BY <1>3 DEF Agrees
  <2>1. /\ Follows(back[h], copy[h].uid, uid[c.sid])
        /\ \A k \in Keys \ unpushed[h] : Saves(q, k, copy[h].settings[k], settings[c.sid][k])
    BY <1>1 DEF Agrees
  <2>2. ASSUME NEW k \in Keys \ unpushed'[h]
        PROVE  Saves(Append(q, c), k, copy[h].settings[k], settings[c.sid][k])
    <3>1. PICK cur : cur = copy[h].settings[k]
      OBVIOUS
    <3>2. PICK val : val = settings[c.sid][k]
      OBVIOUS
    <3>3. CASE Pushes(c, k)
      <4>1. c.args[k] = cur
        BY <3>1, <3>3 DEF Leaves
      <4>2. Saves(Append(q, c), k, c.args[k], val)
        BY <3>3, SavesPushed
      <4> QED
        BY <3>1, <3>2, <4>1, <4>2
    <3>4. CASE ~Pushes(c, k)
      <4>1. Saves(q, k, cur, val)
        BY <2>1, <3>1, <3>2, <3>4 DEF Leaves
      <4>2. Saves(Append(q, c), k, cur, val)
        BY <3>4, <4>1, SavesOther
      <4> QED
        BY <3>1, <3>2, <4>2
    <3> QED
      BY <3>3, <3>4
  <2> QED
    BY <2>1, <2>2
<1> QED
  BY <1>4, <1>5

-----------------------------------------------------------------------------
(* The calls of handlers *)

\* h makes the call c, which takes the values of the copy; what it pushes is
\* not unpushed any more.
Calling(h, c) ==
    /\ Uid4(c) /\ c.sid = copy[h].sid /\ copy[h].got /\ Leaves(h, c)
    /\ \A j \in DOMAIN c.args : c.args[j] = copy[h].settings[j] /\ j \notin unpushed'[h]
    /\ UNCHANGED <<copy, writes>>
    /\ unpushed' \in [Handles -> SUBSET Keys]
    /\ \A g \in Handles \ {h} : unpushed'[g] = unpushed[g]
    /\ IF h \in Local THEN Serve(h, c) /\ UNCHANGED wire
                      ELSE /\ wire' = [wire EXCEPT ![h] = Append(@, c)]
                           /\ UNCHANGED <<sessionVars, settings, back, behind>>

LEMMA InvokedCall ==
    ASSUME CopyTypes, NEW h \in Handles, Orderly(h), NEW op \in Calls4, NEW u \in Uids \cup {NoUid},
           NEW args \in Defined, Invoke(h, op, u, args)
    PROVE  \E c \in Call :
              /\ c.op = op /\ c.sid = copy[h].sid /\ c.uid = u /\ c.args = args /\ copy[h].got
              /\ UNCHANGED <<copy, writes>>
              /\ IF h \in Local THEN Serve(h, c) /\ UNCHANGED wire
                                ELSE /\ wire' = [wire EXCEPT ![h] = Append(@, c)]
                                     /\ UNCHANGED <<sessionVars, settings, back, behind>>
<1>1. PICK c : c = [op |-> op, sid |-> copy[h].sid, uid |-> u, args |-> args]
  OBVIOUS
<1>2. copy[h].got /\ copy[h].sid \in Sids
  BY DEF Invoke, Orderly, CopyTypes, Object
<1>3. c \in Call /\ c.op = op /\ c.sid = copy[h].sid /\ c.uid = u /\ c.args = args
  BY <1>1, <1>2 DEF Call
<1> QED
  BY <1>1, <1>2, <1>3 DEF Invoke

LEMMA PushCalls ==
    ASSUME CopyTypes, NEW h \in Handles, Orderly(h), NEW k \in Keys, Push(h, k)
    PROVE  \E c \in Call : Calling(h, c)
<1>1. PICK args : args = [j \in {k} |-> copy[h].settings[k]]
  OBVIOUS
<1>2. copy[h].settings[k] \in Values
  BY DEF CopyTypes, Object
<1>3. args \in [{k} -> Values] /\ args \in Defined
  BY <1>1, <1>2 DEF Defined
<1>4. DOMAIN args = {k} /\ args[k] = copy[h].settings[k]
  BY <1>1
<1>5. Invoke(h, "push", NoUid, args)
  BY <1>1 DEF Push
<1>6. PICK c \in Call :
         /\ c.op = "push" /\ c.sid = copy[h].sid /\ c.uid = NoUid /\ c.args = args /\ copy[h].got
         /\ UNCHANGED <<copy, writes>>
         /\ IF h \in Local THEN Serve(h, c) /\ UNCHANGED wire
                           ELSE /\ wire' = [wire EXCEPT ![h] = Append(@, c)]
                                /\ UNCHANGED <<sessionVars, settings, back, behind>>
  BY <1>3, <1>5, InvokedCall DEF Calls4
<1>7. /\ unpushed' \in [Handles -> SUBSET Keys] /\ unpushed'[h] = unpushed[h] \ {k}
      /\ \A g \in Handles \ {h} : unpushed'[g] = unpushed[g]
  BY DEF Push, CopyTypes
<1>8. Leaves(h, c) /\ \A j \in DOMAIN c.args : c.args[j] = copy[h].settings[j] /\ j \notin unpushed'[h]
  BY <1>4, <1>6, <1>7 DEF Leaves, Pushes
<1> QED
  BY <1>6, <1>7, <1>8 DEF Calling, Uid4

LEMMA PushAllCalls ==
    ASSUME CopyTypes, NEW h \in Handles, Orderly(h), PushAll(h)
    PROVE  \E c \in Call : Calling(h, c)
<1>1. PICK K : K = {k \in Keys : copy[h].settings[k] # 0}
  OBVIOUS
<1>2. PICK args : args = [k \in K |-> copy[h].settings[k]]
  OBVIOUS
<1>3. \A k \in Keys : copy[h].settings[k] \in Values
  BY DEF CopyTypes, Object
<1>4. K \in SUBSET Keys /\ args \in [K -> Values]
  BY <1>1, <1>2, <1>3
<1>5. args \in Defined
  BY <1>4 DEF Defined
<1>6. Invoke(h, "push", NoUid, args)
  BY <1>1, <1>2 DEF PushAll
<1>7. PICK c \in Call :
         /\ c.op = "push" /\ c.sid = copy[h].sid /\ c.uid = NoUid /\ c.args = args /\ copy[h].got
         /\ UNCHANGED <<copy, writes>>
         /\ IF h \in Local THEN Serve(h, c) /\ UNCHANGED wire
                           ELSE /\ wire' = [wire EXCEPT ![h] = Append(@, c)]
                                /\ UNCHANGED <<sessionVars, settings, back, behind>>
  BY <1>5, <1>6, InvokedCall DEF Calls4
<1>8. /\ unpushed' \in [Handles -> SUBSET Keys] /\ unpushed'[h] = {}
      /\ \A g \in Handles \ {h} : unpushed'[g] = unpushed[g]
  BY DEF PushAll, CopyTypes
<1>9. DOMAIN c.args = K /\ \A k \in K : c.args[k] = copy[h].settings[k]
  BY <1>2, <1>7
<1>10. \A k \in Keys \ K : k \notin unpushed[h]
  BY <1>1 DEF Orderly
<1>11. Leaves(h, c) /\ \A j \in DOMAIN c.args : c.args[j] = copy[h].settings[j] /\ j \notin unpushed'[h]
  BY <1>7, <1>8, <1>9, <1>10 DEF Leaves, Pushes
<1> QED
  BY <1>7, <1>8, <1>11 DEF Calling, Uid4

LEMMA OtherCalls ==
    ASSUME CopyTypes, NEW h \in Handles, Orderly(h), NEW op \in Calls4 \ {"push"},
           NEW u \in Uids \cup {NoUid}, op \in {"bind", "unbind"} => u \in Uids,
           Invoke(h, op, u, NoArgs), UNCHANGED unpushed
    PROVE  \E c \in Call : Calling(h, c)
<1>1. NoArgs \in [{} -> Values] /\ NoArgs \in Defined
  BY DEF NoArgs, Defined
<1>2. PICK c \in Call :
         /\ c.op = op /\ c.sid = copy[h].sid /\ c.uid = u /\ c.args = NoArgs /\ copy[h].got
         /\ UNCHANGED <<copy, writes>>
         /\ IF h \in Local THEN Serve(h, c) /\ UNCHANGED wire
                           ELSE /\ wire' = [wire EXCEPT ![h] = Append(@, c)]
                                /\ UNCHANGED <<sessionVars, settings, back, behind>>
  BY <1>1, InvokedCall
<1>3. DOMAIN c.args = {}
  BY <1>2 DEF NoArgs
<1>4. Leaves(h, c)
  BY <1>2 DEF Leaves, Pushes
<1> QED
  BY <1>2, <1>3, <1>4 DEF Calling, Uid4, CopyTypes

\* What a handler may call.
Calls(h) == \/ \E k \in Keys : Push(h, k)
            \/ \E u \in Uids : CallBind(h, u) \/ CallUnbind(h, u)
            \/ PushAll(h) \/ CallKick(h)

LEMMA CallsCall ==
    ASSUME CopyTypes, NEW h \in Handles, Orderly(h), Calls(h)
    PROVE  \E c \in Call : Calling(h, c)
<1>1. ASSUME NEW u \in Uids, CallBind(h, u) \/ CallUnbind(h, u) PROVE \E c \in Call : Calling(h, c)
  BY <1>1, OtherCalls DEF CallBind, CallUnbind, Calls4
<1>2. CASE CallKick(h)
  <2>1. copy[h].uid \in Uids \cup {NoUid}
    BY DEF CopyTypes, Object
  <2> QED
    BY <1>2, <2>1, OtherCalls DEF CallKick, Calls4
<1> QED
  BY <1>1, <1>2, PushCalls, PushAllCalls DEF Calls

LEMMA CallingSessions ==
    ASSUME NEW h, NEW c \in Call, Calling(h, c)
    PROVE  [Next]_sessionVars
BY ServeSessions DEF Calling

\* A call that arrives is one of those that can be sent.
LEMMA NextCall ==
    ASSUME CopyTypes, NEW h \in Handles, Orderly(h), Receive(h)
    PROVE  \E c \in Call :
              /\ c = Head(wire[h]) /\ Uid4(c) /\ c.sid = copy[h].sid /\ Serve(h, c)
              /\ wire[h] # <<>> /\ wire' = [wire EXCEPT ![h] = Tail(wire[h])]
              /\ UNCHANGED <<copy, unpushed, writes>>
<1>1. PICK q \in Seq(Call) : q = wire[h]
  BY DEF CopyTypes
<1>2. PICK c : c = Head(q)
  OBVIOUS
<1>3. q # <<>>
  BY <1>1 DEF Receive
<1>4. c \in Call /\ Len(q) \in Nat \ {0} /\ c = q[1]
  BY <1>2, <1>3, TailSeq
<1>5. Uid4(c) /\ c.sid = copy[h].sid
  BY <1>1, <1>4 DEF Orderly, Uid4
<1> QED
  BY <1>1, <1>2, <1>3, <1>4, <1>5 DEF Receive

-----------------------------------------------------------------------------
(* The sessions *)

LEMMA RestartIInv == ASSUME Restart PROVE IInv'
BY SessionAssumption
   DEF Restart, IInv, TypeOK, RegisteredIffOpen, IndexConsistent, FreshIsUnbound

LEMMA StepSessions ==
    ASSUME CopyTypes, \A h \in Handles : Orderly(h), CopiesNext
    PROVE  [Next]_sessionVars \/ Restart
<1>1. ASSUME NEW s \in Sids, Connect(s) \/ Disconnect(s) PROVE [Next]_sessionVars
  BY <1>1 DEF Connect, Disconnect, Next
<1>2. ASSUME NEW h \in Handles, Calls(h) PROVE [Next]_sessionVars
  BY <1>2, CallsCall, CallingSessions
<1>3. ASSUME NEW h \in Handles, Receive(h) PROVE [Next]_sessionVars
  BY <1>3, NextCall, ServeSessions
<1>4. ASSUME NEW h \in Handles, NEW s \in Sids, Export(h, s) PROVE [Next]_sessionVars
  BY <1>4 DEF Export
<1>5. ASSUME NEW h \in Handles, NEW k \in Keys, Set(h, k) PROVE [Next]_sessionVars
  BY <1>5 DEF Set
<1>6. ASSUME NEW h \in Handles, Arrive(h) \/ Answered(h) \/ Lost(h) \/ Discard(h)
      PROVE  [Next]_sessionVars
  BY <1>6 DEF Arrive, Answered, Lost, Discard
<1> QED
  BY <1>1, <1>2, <1>3, <1>4, <1>5, <1>6 DEF CopiesNext, Calls

LEMMA StepIInvCopies ==
    ASSUME IInv, CopyTypes, \A h \in Handles : Orderly(h), CopiesNext
    PROVE  IInv'
BY StepSessions, StepIInv, RestartIInv

-----------------------------------------------------------------------------
(* Every step leaves copies that will agree *)

LEMMA FrameKeeps ==
    ASSUME NEW g \in Handles, UNCHANGED <<sessionVars, settings>>, copy'[g] = copy[g],
           wire'[g] = wire[g], back'[g] = back[g], behind'[g] = behind[g],
           unpushed'[g] = unpushed[g], Orderly(g), Agrees(g)
    PROVE  Orderly(g)' /\ Agrees(g)'
<1>1. UNCHANGED <<sessions, state, uid>>
  BY DEF sessionVars
<1>2. Orderly(g)'
  BY <1>1 DEF Orderly, Idle
<1>3. Agrees(g)'
  BY <1>1 DEF Agrees
<1> QED
  BY <1>2, <1>3

LEMMA CallingKeeps ==
    ASSUME IInv, BInv, NEW h \in Handles, NEW c \in Call, Calling(h, c)
    PROVE  BInv'
<1> USE DEF BInv
<1>1. CASE h \in Local
  <2>1. Serve(h, c) /\ UNCHANGED <<copy, wire, writes>>
    BY <1>1 DEF Calling
  <2>2. Served(h, c)
    BY <2>1, ServeEffect DEF Calling
  <2>3. CopyTypes'
    BY <2>1, <2>2 DEF CopyTypes, Served, Others, Calling
  <2>4. Orderly(h)' /\ Agrees(h)'
    BY <1>1, <2>1, <2>2, LocalKeeps DEF Calling
  <2>5. ASSUME NEW g \in Handles \ {h} PROVE Orderly(g)' /\ Agrees(g)'
    <3>1. /\ copy'[g] = copy[g] /\ wire'[g] = wire[g] /\ back'[g] = back[g]
          /\ unpushed'[g] = unpushed[g] /\ Others(h, c)
      BY <2>1, <2>2 DEF Calling, Served
    <3> QED
      BY <3>1, OthersKeep
  <2> QED
    BY <2>3, <2>4, <2>5
<1>2. CASE h \notin Local
  <2>1. /\ wire' = [wire EXCEPT ![h] = Append(@, c)]
        /\ UNCHANGED <<sessionVars, settings, back, behind, copy, writes>>
    BY <1>2 DEF Calling
  <2>2. PICK q \in Seq(Call) : q = wire[h]
    BY DEF CopyTypes
  <2>3. PICK r \in Seq(Call) : r = Append(q, c)
    BY AppendedSeq
  <2>4. wire' = [wire EXCEPT ![h] = r]
    BY <2>1, <2>2, <2>3
  <2>5. /\ wire' \in [Handles -> Seq(Call)] /\ wire'[h] = r
        /\ \A g \in Handles \ {h} : wire'[g] = wire[g]
    BY <2>4 DEF CopyTypes
  <2>6. CopyTypes'
    BY <2>1, <2>5 DEF CopyTypes, Calling
  <2>7. Orderly(h)' /\ Agrees(h)'
    <3>1. /\ Uid4(c) /\ c.sid = copy[h].sid /\ Leaves(h, c) /\ copy[h].got
          /\ copy'[h] = copy[h] /\ back'[h] = back[h] /\ wire'[h] = Append(wire[h], c)
          /\ UNCHANGED <<sessionVars, settings, behind>>
      BY <2>1, <2>2, <2>3, <2>5 DEF Calling
    <3> QED
      BY <1>2, <3>1, SentKeeps
  <2>8. ASSUME NEW g \in Handles \ {h} PROVE Orderly(g)' /\ Agrees(g)'
    <3>1. /\ copy'[g] = copy[g] /\ wire'[g] = wire[g] /\ back'[g] = back[g]
          /\ unpushed'[g] = unpushed[g] /\ behind'[g] = behind[g]
      BY <2>1, <2>5 DEF Calling
    <3> QED
      BY <2>1, <3>1, FrameKeeps
  <2> QED
    BY <2>6, <2>7, <2>8
<1> QED
  BY <1>1, <1>2

LEMMA ReceiveKeeps ==
    ASSUME IInv, BInv, NEW h \in Handles, Receive(h)
    PROVE  BInv'
<1> USE DEF BInv
<1>1. PICK c \in Call :
         /\ c = Head(wire[h]) /\ Uid4(c) /\ c.sid = copy[h].sid /\ Serve(h, c)
         /\ wire[h] # <<>> /\ wire' = [wire EXCEPT ![h] = Tail(wire[h])]
         /\ UNCHANGED <<copy, unpushed, writes>>
  BY NextCall
<1>2. Served(h, c)
  BY <1>1, ServeEffect
<1>3. PICK q \in Seq(Call) : q = wire[h]
  BY DEF CopyTypes
<1>4. PICK r \in Seq(Call) : r = Tail(q)
  BY <1>1, <1>3, TailSeq
<1>5. /\ wire' \in [Handles -> Seq(Call)] /\ wire'[h] = Tail(wire[h])
      /\ \A g \in Handles \ {h} : wire'[g] = wire[g]
  BY <1>1, <1>3, <1>4 DEF CopyTypes
<1>6. CopyTypes'
  BY <1>1, <1>2, <1>5 DEF CopyTypes, Served, Others
<1>7. Orderly(h)' /\ Agrees(h)'
  BY <1>1, <1>2, <1>5, ReceivedKeeps
<1>8. ASSUME NEW g \in Handles \ {h} PROVE Orderly(g)' /\ Agrees(g)'
  <2>1. /\ copy'[g] = copy[g] /\ wire'[g] = wire[g] /\ back'[g] = back[g]
        /\ unpushed'[g] = unpushed[g] /\ Others(h, c)
    BY <1>1, <1>2, <1>5 DEF Served
  <2> QED
    BY <2>1, OthersKeep
<1> QED
  BY <1>6, <1>7, <1>8

\* A step of the copy h itself that leaves the sessions alone.
LEMMA OwnStep ==
    ASSUME BInv, NEW h \in Handles, UNCHANGED <<sessionVars, settings>>, CopyTypes',
           \A g \in Handles \ {h} : /\ copy'[g] = copy[g] /\ wire'[g] = wire[g]
                                    /\ back'[g] = back[g] /\ behind'[g] = behind[g]
                                    /\ unpushed'[g] = unpushed[g],
           Orderly(h)' /\ Agrees(h)'
    PROVE  BInv'
<1>1. ASSUME NEW g \in Handles \ {h} PROVE Orderly(g)' /\ Agrees(g)'
  BY FrameKeeps DEF BInv
<1> QED
  BY <1>1 DEF BInv

LEMMA NoneObject == None \in Object /\ None.sid = "none" /\ ~None.got
BY CopyAssumption DEF CopyAssumption, None, Object, Unset, Values

LEMMA ExportKeeps ==
    ASSUME IInv, BInv, NEW h \in Handles, NEW s \in Sids, Export(h, s)
    PROVE  BInv'
<1> USE DEF BInv
<1>1. PICK o : o = [sid |-> s, got |-> h \in Local, uid |-> uid[s], settings |-> settings[s]]
  OBVIOUS
<1>2. o \in Object /\ o.sid = s /\ o.uid = uid[s] /\ o.settings = settings[s]
  BY <1>1 DEF Object, CopyTypes, IInv, TypeOK
<1>3. copy' = [copy EXCEPT ![h] = o]
  BY <1>1 DEF Export
<1>4. /\ copy' \in [Handles -> Object] /\ copy'[h] = o
      /\ \A g \in Handles \ {h} : copy'[g] = copy[g]
  BY <1>2, <1>3 DEF CopyTypes
<1>5. /\ UNCHANGED <<sessions, state, uid, settings, wire, back, behind, unpushed, writes>>
      /\ UNCHANGED <<sessionVars, settings>>
  BY DEF Export, sessionVars
<1>6. CopyTypes'
  BY <1>4, <1>5 DEF CopyTypes
<1>7. wire[h] = <<>> /\ back[h] = <<>> /\ unpushed[h] = {} /\ s # "none" /\ state[s] # "none"
  BY NoneObject, CopyAssumption DEF CopyAssumption, Export, Orderly, Idle, IInv, RegisteredIffOpen
<1>8. Orderly(h)'
  BY <1>2, <1>4, <1>5, <1>7 DEF Orderly
<1>9. Agrees(h)'
  BY <1>2, <1>4, <1>5, <1>7, FollowsEmpty, SavesEmpty DEF Agrees
<1> QED
  BY <1>4, <1>5, <1>6, <1>8, <1>9, OwnStep

LEMMA ArriveKeeps ==
    ASSUME BInv, NEW h \in Handles, Arrive(h)
    PROVE  BInv'
<1> USE DEF BInv
<1>1. PICK c \in Object : c = copy[h]
  BY DEF CopyTypes
<1>2. PICK o : o = [c EXCEPT !.got = TRUE]
  OBVIOUS
<1>3. o \in Object /\ o.sid = c.sid /\ o.uid = c.uid /\ o.settings = c.settings
  BY <1>2 DEF Object
<1>4. copy' = [copy EXCEPT ![h] = o]
  BY <1>1, <1>2 DEF Arrive
<1>5. /\ copy' \in [Handles -> Object] /\ copy'[h] = o
      /\ \A g \in Handles \ {h} : copy'[g] = copy[g]
  BY <1>3, <1>4 DEF CopyTypes
<1>6. /\ UNCHANGED <<sessions, state, uid, settings, wire, back, behind, unpushed, writes>>
      /\ UNCHANGED <<sessionVars, settings>> /\ c.sid # "none"
  BY <1>1 DEF Arrive, sessionVars
<1>7. CopyTypes'
  BY <1>5, <1>6 DEF CopyTypes
<1>8. Orderly(h)'
  BY <1>1, <1>3, <1>5, <1>6 DEF Orderly
<1>9. Agrees(h)'
  BY <1>1, <1>3, <1>5, <1>6 DEF Agrees
<1> QED
  BY <1>5, <1>6, <1>7, <1>8, <1>9, OwnStep

LEMMA SetEffect ==
    ASSUME CopyTypes, NEW h \in Handles, NEW k \in Keys, Set(h, k)
    PROVE  /\ writes' = writes + 1 /\ writes' \in Values /\ writes \in Nat
           /\ copy' \in [Handles -> Object]
           /\ \A g \in Handles \ {h} : copy'[g] = copy[g]
           /\ copy'[h].sid = copy[h].sid /\ copy'[h].uid = copy[h].uid /\ copy'[h].got
           /\ copy'[h].settings[k] = writes'
           /\ \A j \in Keys \ {k} : copy'[h].settings[j] = copy[h].settings[j]
           /\ unpushed' \in [Handles -> SUBSET Keys] /\ unpushed'[h] = unpushed[h] \cup {k}
           /\ \A g \in Handles \ {h} : unpushed'[g] = unpushed[g]
<1>1. PICK c \in Object : c = copy[h]
  BY DEF CopyTypes
<1>2. writes' = writes + 1 /\ writes' \in Values /\ writes \in Nat
  BY CopyAssumption DEF CopyAssumption, Set, CopyTypes, Values
<1>3. PICK f : f = [c.settings EXCEPT ![k] = writes']
  OBVIOUS
<1>4. c.settings \in [Keys -> Values]
  BY DEF Object
<1>5. f \in [Keys -> Values] /\ f[k] = writes' /\ \A j \in Keys \ {k} : f[j] = c.settings[j]
  BY <1>2, <1>3, <1>4
<1>6. PICK o : o = [c EXCEPT !.settings = f]
  OBVIOUS
<1>7. o \in Object /\ o.sid = c.sid /\ o.uid = c.uid /\ o.got = c.got /\ o.settings = f
  BY <1>5, <1>6 DEF Object
<1>8. copy' = [copy EXCEPT ![h] = o]
  BY <1>1, <1>2, <1>3, <1>6 DEF Set
<1>9. /\ copy' \in [Handles -> Object] /\ copy'[h] = o
      /\ \A g \in Handles \ {h} : copy'[g] = copy[g]
  BY <1>7, <1>8 DEF CopyTypes
<1>10. /\ unpushed' \in [Handles -> SUBSET Keys] /\ unpushed'[h] = unpushed[h] \cup {k}
       /\ \A g \in Handles \ {h} : unpushed'[g] = unpushed[g] /\ copy[h].got
  BY DEF Set, CopyTypes
<1>11. copy[h].got
  BY DEF Set
<1> QED
  BY <1>1, <1>2, <1>5, <1>7, <1>9, <1>10, <1>11

LEMMA SetKeeps ==
    ASSUME BInv, NEW h \in Handles, NEW k \in Keys, Set(h, k)
    PROVE  BInv'
<1> USE DEF BInv
<1>1. /\ UNCHANGED <<sessions, state, uid, settings, wire, back, behind>>
      /\ UNCHANGED <<sessionVars, settings>> /\ copy[h].got
  BY DEF Set, sessionVars
<1>2. CopyTypes'
  BY <1>1, SetEffect DEF CopyTypes
<1>3. Orderly(h)'
  <2>1. \A j \in unpushed'[h] : copy'[h].settings[j] # 0
    BY SetEffect DEF Orderly
  <2>2. copy[h].sid # "none" /\ copy'[h].sid = copy[h].sid
    BY <1>1, SetEffect DEF Orderly
  <2> QED
    BY <1>1, <2>1, <2>2 DEF Orderly
<1>4. Agrees(h)'
  <2>1. copy'[h].sid = copy[h].sid /\ copy'[h].uid = copy[h].uid
    BY SetEffect
  <2>2. \A j \in Keys \ unpushed'[h] :
           j \in Keys \ unpushed[h] /\ copy'[h].settings[j] = copy[h].settings[j]
    BY SetEffect
  <2> QED
    BY <1>1, <2>1, <2>2 DEF Agrees
<1>5. \A g \in Handles \ {h} : /\ copy'[g] = copy[g] /\ wire'[g] = wire[g]
                               /\ back'[g] = back[g] /\ behind'[g] = behind[g]
                               /\ unpushed'[g] = unpushed[g]
  BY <1>1, SetEffect
<1> QED
  BY <1>1, <1>2, <1>3, <1>4, <1>5, OwnStep

LEMMA AnsweredKeeps ==
    ASSUME BInv, NEW h \in Handles, Answered(h)
    PROVE  BInv'
<1> USE DEF BInv
<1>1. PICK q \in Seq(Reply) : q = back[h]
  BY DEF CopyTypes
<1>2. q # <<>>
  BY <1>1 DEF Answered
<1>3. PICK a \in Reply : a = Head(q)
  BY <1>2, TailSeq
<1>4. PICK r \in Seq(Reply) : r = Tail(q)
  BY <1>2, TailSeq
<1>5. back' = [back EXCEPT ![h] = r]
  BY <1>1, <1>4 DEF Answered
<1>6. /\ back' \in [Handles -> Seq(Reply)] /\ back'[h] = r
      /\ \A g \in Handles \ {h} : back'[g] = back[g]
  BY <1>5 DEF CopyTypes
<1>7. /\ UNCHANGED <<sessions, state, uid, settings, wire, behind, unpushed, writes>>
      /\ UNCHANGED <<sessionVars, settings>>
  BY DEF Answered, sessionVars
<1>8. PICK c \in Object : c = copy[h]
  BY DEF CopyTypes
<1>9. PICK u : u = IF Tells(a) THEN Told(a) ELSE c.uid
  OBVIOUS
<1>10. u \in Uids \cup {NoUid}
  BY <1>9 DEF Told, Reply, Object
<1>11. /\ copy' \in [Handles -> Object] /\ copy'[h].uid = u
       /\ copy'[h].sid = c.sid /\ copy'[h].got = c.got /\ copy'[h].settings = c.settings
       /\ \A g \in Handles \ {h} : copy'[g] = copy[g]
  <2>1. copy' = CASE a.ok /\ a.op = "bind"   -> [copy EXCEPT ![h].uid = a.uid]
                  [] a.ok /\ a.op = "unbind" -> [copy EXCEPT ![h].uid = NoUid]
                  [] OTHER                   -> copy
    BY <1>1, <1>3 DEF Answered
  <2>2. a.ok \in BOOLEAN /\ a.op \in Calls4
    BY DEF Reply
  <2>3. CASE Tells(a)
    <3>1. PICK o : o = [c EXCEPT !.uid = u]
      OBVIOUS
    <3>2. o \in Object /\ o.uid = u /\ o.sid = c.sid /\ o.got = c.got /\ o.settings = c.settings
      BY <1>10, <3>1 DEF Object
    <3>3. CASE a.op = "bind"
      <4>1. u = a.uid /\ a.ok
        BY <1>9, <2>3, <3>3 DEF Tells, Told
      <4>2. copy' = [copy EXCEPT ![h] = o]
        BY <1>8, <2>1, <3>1, <3>3, <4>1
      <4> QED
        BY <3>2, <4>2 DEF CopyTypes
    <3>4. CASE a.op = "unbind"
      <4>1. u = NoUid /\ a.ok /\ ~(a.op = "bind")
        BY <1>9, <2>3, <3>4 DEF Tells, Told
      <4>2. copy' = [copy EXCEPT ![h] = o]
        BY <1>8, <2>1, <3>1, <3>4, <4>1
      <4> QED
        BY <3>2, <4>2 DEF CopyTypes
    <3> QED
      BY <2>3, <3>3, <3>4 DEF Tells
  <2>4. CASE ~Tells(a)
    <3>1. copy' = copy
      BY <2>1, <2>2, <2>4 DEF Tells
    <3> QED
      BY <1>8, <1>9, <2>4, <3>1 DEF CopyTypes
  <2> QED
    BY <2>3, <2>4
<1>12. CopyTypes'
  BY <1>6, <1>7, <1>11 DEF CopyTypes
<1>13. Orderly(h)'
  <2>1. copy[h].sid # "none"
    BY <1>1, <1>2 DEF Orderly, Idle
  <2> QED
    BY <1>7, <1>8, <1>11, <2>1 DEF Orderly
<1>14. Agrees(h)'
  <2>1. PICK s : s = c.sid
    OBVIOUS
  <2> SUFFICES ASSUME FalsyUids = {}, ~behind[h], s \in sessions
               PROVE  /\ Follows(r, u, uid[s])
                      /\ \A k \in Keys \ unpushed[h] : Saves(wire[h], k, c.settings[k], settings[s][k])
    BY <1>6, <1>7, <1>11, <2>1 DEF Agrees
  <2>2. /\ Follows(q, c.uid, uid[s])
        /\ \A k \in Keys \ unpushed[h] : Saves(wire[h], k, c.settings[k], settings[s][k])
    BY <1>1, <1>8, <2>1 DEF Agrees
  <2>3. PICK v : v = uid[s]
    OBVIOUS
  <2>4. PICK w : w = c.uid
    OBVIOUS
  <2>5. Follows(q, w, v)
    BY <2>2, <2>3, <2>4
  <2>6. Follows(Tail(q), IF Tells(Head(q)) THEN Told(Head(q)) ELSE w, v)
    BY <1>2, <2>5, FollowsTail
  <2> QED
    BY <1>3, <1>4, <1>9, <2>2, <2>3, <2>4, <2>6
<1>15. \A g \in Handles \ {h} : /\ copy'[g] = copy[g] /\ wire'[g] = wire[g]
                                /\ back'[g] = back[g] /\ behind'[g] = behind[g]
                                /\ unpushed'[g] = unpushed[g]
  BY <1>6, <1>7, <1>11
<1> QED
  BY <1>7, <1>12, <1>13, <1>14, <1>15, OwnStep

\* The calls left after the first are calls of the same copy.
LEMMA TailOrderly ==
    ASSUME CopyTypes, NEW h \in Handles, Orderly(h), wire[h] # <<>>,
           NEW q \in Seq(Call), q = Tail(wire[h]), NEW i \in 1..Len(q)
    PROVE  q[i].sid = copy[h].sid /\ (q[i].op \in {"bind", "unbind"} => q[i].uid \in Uids)
<1>1. PICK w \in Seq(Call) : w = wire[h]
  BY DEF CopyTypes
<1>2. q[i] = w[i + 1] /\ i + 1 \in 1..Len(w)
  BY <1>1, TailSeq
<1> QED
  BY <1>1, <1>2 DEF Orderly

LEMMA LostEffect ==
    ASSUME CopyTypes, NEW h \in Handles, Orderly(h), Lost(h)
    PROVE  /\ wire' \in [Handles -> Seq(Call)] /\ back' \in [Handles -> Seq(Reply)]
           /\ \A g \in Handles \ {h} : wire'[g] = wire[g] /\ back'[g] = back[g]
           /\ \A i \in 1..Len(wire'[h]) :
                 /\ wire'[h][i].sid = copy[h].sid
                 /\ wire'[h][i].op \in {"bind", "unbind"} => wire'[h][i].uid \in Uids
           /\ copy[h].sid # "none"
<1>1. copy[h].sid # "none"
  BY DEF Lost, Orderly, Idle
<1>2. CASE wire[h] # <<>> /\ wire' = [wire EXCEPT ![h] = Tail(@)] /\ UNCHANGED back
  <2>1. PICK w \in Seq(Call) : w = wire[h]
    BY DEF CopyTypes
  <2>2. PICK q \in Seq(Call) : q = Tail(w)
    BY <1>2, <2>1, TailSeq
  <2>3. wire' = [wire EXCEPT ![h] = q]
    BY <1>2, <2>1, <2>2
  <2>4. /\ wire' \in [Handles -> Seq(Call)] /\ wire'[h] = q
        /\ \A g \in Handles \ {h} : wire'[g] = wire[g]
    BY <2>3 DEF CopyTypes
  <2>5. \A i \in 1..Len(q) : /\ q[i].sid = copy[h].sid
                             /\ q[i].op \in {"bind", "unbind"} => q[i].uid \in Uids
    BY <1>2, <2>1, <2>2, TailOrderly
  <2> QED
    BY <1>1, <1>2, <2>4, <2>5 DEF CopyTypes
<1>3. CASE back[h] # <<>> /\ back' = [back EXCEPT ![h] = Tail(@)] /\ UNCHANGED wire
  <2>1. PICK w \in Seq(Reply) : w = back[h]
    BY DEF CopyTypes
  <2>2. PICK q \in Seq(Reply) : q = Tail(w)
    BY <1>3, <2>1, TailSeq
  <2>3. back' = [back EXCEPT ![h] = q]
    BY <1>3, <2>1, <2>2
  <2>4. back' \in [Handles -> Seq(Reply)] /\ \A g \in Handles \ {h} : back'[g] = back[g]
    BY <2>3 DEF CopyTypes
  <2> QED
    BY <1>1, <1>3, <2>4 DEF CopyTypes, Orderly
<1> QED
  BY <1>2, <1>3 DEF Lost

LEMMA LostKeeps ==
    ASSUME BInv, NEW h \in Handles, Lost(h)
    PROVE  BInv'
<1> USE DEF BInv
<1>1. /\ UNCHANGED <<sessions, state, uid, settings, copy, unpushed, writes>>
      /\ UNCHANGED <<sessionVars, settings>>
  BY DEF Lost, sessionVars
<1>2. /\ behind' \in [Handles -> BOOLEAN] /\ behind'[h]
      /\ \A g \in Handles \ {h} : behind'[g] = behind[g]
  BY DEF Lost, CopyTypes
<1>3. CopyTypes'
  BY <1>1, <1>2, LostEffect DEF CopyTypes
<1>4. Orderly(h)' /\ Agrees(h)'
  <2>1. h \in Local => wire[h] = <<>> /\ h \notin Local
    BY DEF Lost, Orderly
  <2>2. Orderly(h)'
    BY <1>1, <1>2, <2>1, LostEffect DEF Orderly
  <2> QED
    BY <1>2, <2>2 DEF Agrees
<1>5. \A g \in Handles \ {h} : /\ copy'[g] = copy[g] /\ wire'[g] = wire[g]
                               /\ back'[g] = back[g] /\ behind'[g] = behind[g]
                               /\ unpushed'[g] = unpushed[g]
  BY <1>1, <1>2, LostEffect
<1> QED
  BY <1>1, <1>3, <1>4, <1>5, OwnStep

LEMMA DiscardKeeps ==
    ASSUME IInv, BInv, NEW h \in Handles, Discard(h)
    PROVE  BInv'
<1> USE DEF BInv
<1>1. /\ UNCHANGED <<sessions, state, uid, settings, wire, back, writes>>
      /\ UNCHANGED <<sessionVars, settings>> /\ Idle(h)
  BY DEF Discard, sessionVars
<1>2. PICK o \in Object : o = None /\ o.sid = "none" /\ ~o.got
  BY NoneObject
<1>3. /\ copy' \in [Handles -> Object] /\ copy'[h] = o
      /\ behind' \in [Handles -> BOOLEAN]
      /\ unpushed' \in [Handles -> SUBSET Keys] /\ unpushed'[h] = {}
      /\ \A g \in Handles \ {h} : /\ copy'[g] = copy[g] /\ behind'[g] = behind[g]
                                  /\ unpushed'[g] = unpushed[g]
  BY <1>2 DEF Discard, CopyTypes
<1>4. CopyTypes'
  BY <1>1, <1>3 DEF CopyTypes
<1>5. Orderly(h)'
  BY <1>1, <1>2, <1>3 DEF Orderly, Idle
<1>6. Agrees(h)'
  <2>1. "none" \notin sessions
    BY CopyAssumption DEF CopyAssumption, IInv, TypeOK
  <2> QED
    BY <1>1, <1>2, <1>3, <2>1 DEF Agrees
<1> QED
  BY <1>1, <1>3, <1>4, <1>5, <1>6, OwnStep

LEMMA ConnectKeeps ==
    ASSUME IInv, BInv, NEW s \in Sids, Connect(s)
    PROVE  BInv'
<1> USE DEF BInv
<1>1. /\ state[s] = "none" /\ state'[s] = "inited" /\ sessions' = sessions \cup {s}
      /\ \A t \in Sids \ {s} : state'[t] = state[t]
      /\ UNCHANGED <<uid, copy, wire, back, behind, unpushed, writes>>
  BY DEF Connect, Create, copyVars, IInv, TypeOK
<1>2. Unset \in [Keys -> Values]
  BY CopyAssumption DEF CopyAssumption, Unset, Values
<1>3. /\ settings' \in [Sids -> [Keys -> Values]]
      /\ \A t \in Sids \ {s} : settings'[t] = settings[t]
  BY <1>2 DEF Connect, CopyTypes
<1>4. CopyTypes'
  BY <1>1, <1>3 DEF CopyTypes
<1>5. ASSUME NEW h \in Handles PROVE Orderly(h)' /\ Agrees(h)'
  <2>1. copy[h].sid \in Sids \cup {"none"}
    BY DEF CopyTypes, Object
  <2>2. Orderly(h)'
    BY <1>1, <2>1 DEF Orderly, Idle
  <2>3. (~behind[h] /\ copy[h].sid \in sessions') => copy[h].sid # s /\ copy[h].sid \in sessions
    BY <1>1, CopyAssumption DEF CopyAssumption, Orderly
  <2>4. Agrees(h)'
    BY <1>1, <1>3, <2>1, <2>3, CopyAssumption DEF Agrees, CopyAssumption, IInv, TypeOK
  <2> QED
    BY <2>2, <2>4
<1> QED
  BY <1>4, <1>5

LEMMA DisconnectKeeps ==
    ASSUME IInv, BInv, NEW s \in Sids, Disconnect(s)
    PROVE  BInv'
<1> USE DEF BInv
<1>1. UNCHANGED <<settings, copy, wire, back, behind, unpushed, writes>>
  BY DEF Disconnect, copyVars
<1>2. /\ sessions' \subseteq sessions /\ UNCHANGED uid
      /\ \A t \in Sids : state[t] # "none" => state'[t] # "none"
  BY CloseSessions DEF Disconnect, Closed, IInv
<1>3. CopyTypes'
  BY <1>1 DEF CopyTypes
<1>4. ASSUME NEW h \in Handles PROVE Orderly(h)' /\ Agrees(h)'
  <2>1. copy[h].sid \in Sids \cup {"none"}
    BY DEF CopyTypes, Object
  <2>2. Orderly(h)'
    BY <1>1, <1>2, <2>1 DEF Orderly, Idle
  <2>3. Agrees(h)'
    BY <1>1, <1>2 DEF Agrees
  <2> QED
    BY <2>2, <2>3
<1> QED
  BY <1>3, <1>4

LEMMA RestartKeeps ==
    ASSUME BInv, Restart
    PROVE  BInv'
<1> USE DEF BInv
<1>1. Unset \in [Keys -> Values] /\ None \in Object
  BY NoneObject, CopyAssumption DEF CopyAssumption, Unset, Values
<1>2. CopyTypes'
  BY <1>1 DEF CopyTypes, Restart
<1>3. ASSUME NEW h \in Handles PROVE Orderly(h)' /\ Agrees(h)'
  <2>1. wire'[h] = <<>> /\ back'[h] = <<>> /\ sessions' = {}
    BY DEF Restart
  <2>2. copy'[h] = (IF h \in Local THEN None ELSE copy[h]) /\ behind'[h] = (copy'[h] # None)
        /\ unpushed'[h] = IF h \in Local THEN {} ELSE unpushed[h]
    BY DEF Restart
  <2>3. Orderly(h)'
    <3>1. CASE h \in Local
      BY <2>1, <2>2, <3>1, NoneObject DEF Orderly, Idle
    <3>2. CASE h \notin Local
      <4>1. /\ copy[h].sid = "none" => ~copy[h].got /\ unpushed[h] = {}
            /\ \A k \in unpushed[h] : copy[h].settings[k] # 0
        BY DEF Orderly
      <4>2. copy'[h].sid # "none" => behind'[h]
        BY <2>2, NoneObject
      <4> QED
        BY <2>1, <2>2, <3>2, <4>1, <4>2 DEF Orderly, Idle
    <3> QED
      BY <3>1, <3>2
  <2> QED
    BY <2>1, <2>3 DEF Agrees
<1> QED
  BY <1>2, <1>3

LEMMA StepBInv ==
    ASSUME IInv, BInv, [CopiesNext]_vars
    PROVE  BInv'
<1>1. ASSUME NEW h \in Handles, Calls(h) PROVE BInv'
  BY <1>1, CallsCall, CallingKeeps DEF BInv
<1>2. CASE UNCHANGED vars
  BY <1>2 DEF vars, copyVars, sessionVars, BInv, CopyTypes, Orderly, Idle, Agrees
<1> QED
  BY <1>1, <1>2, ConnectKeeps, DisconnectKeeps, ExportKeeps, SetKeeps, ArriveKeeps, ReceiveKeeps,
     AnsweredKeeps, LostKeeps, DiscardKeeps, RestartKeeps DEF CopiesNext, Calls

LEMMA InitBInv == CopiesInit => IInv /\ BInv
<1> SUFFICES ASSUME CopiesInit PROVE BInv
  BY InitIInv DEF CopiesInit
<1>1. Unset \in [Keys -> Values] /\ None \in Object
  BY NoneObject, CopyAssumption DEF CopyAssumption, Unset, Values
<1>2. CopyTypes
  BY <1>1, CopyAssumption DEF CopyAssumption, CopiesInit, CopyInit, CopyTypes, Values
<1>3. \A h \in Handles : copy[h] = None /\ wire[h] = <<>> /\ back[h] = <<>> /\ unpushed[h] = {}
  BY DEF CopiesInit, CopyInit
<1>4. sessions = {}
  BY DEF CopiesInit, Init
<1>5. \A h \in Handles : Orderly(h)
  BY <1>3, NoneObject DEF Orderly, Idle
<1> QED
  BY <1>2, <1>4, <1>5 DEF BInv, Agrees

LEMMA StepCopies == IInv /\ BInv /\ [CopiesNext]_vars => IInv' /\ BInv'
<1> SUFFICES ASSUME IInv, BInv, [CopiesNext]_vars PROVE IInv'
  BY StepBInv
<1>1. CASE UNCHANGED vars
  BY <1>1, StepIInv DEF vars
<1> QED
  BY <1>1, StepIInvCopies DEF BInv

\* A copy whose calls are answered and whose session nobody else has changed has
\* the user and the settings of its session, however many calls, answers and
\* losses there were: the handlers of backendSessionService and FrontendSession
\* decide by it.  With a user id that is taken for none it may not.
THEOREM CopyAgreesCorrect ==
    ASSUME FalsyUids = {}
    PROVE  CopiesSpec => []CopyAgrees
<1>1. BInv => CopyAgrees
  BY FollowsEmpty, SavesEmpty DEF BInv, Agrees, Idle, CopyAgrees
<1> QED
  BY <1>1, InitBInv, StepCopies, PTL DEF CopiesSpec

-----------------------------------------------------------------------------
(* What is not pushed stays with the copy *)

\* Values that somebody else may have: those of sessions and of calls, and no value.
Public(v) == \/ v = 0
             \/ \E s \in Sids, k \in Keys : v = settings[s][k]
             \/ \E g \in Handles : \E i \in 1..Len(wire[g]) :
                   \E j \in DOMAIN wire[g][i].args : v = wire[g][i].args[j]
\* These, and those that a copy has pushed.
Free(v) == Public(v) \/ \E h \in Handles : \E j \in Keys \ unpushed'[h] : v = copy[h].settings[j]

\* A step that hands on free values only, to sessions, calls and copies.
SpreadsFree ==
    /\ \A g \in Handles : unpushed'[g] \subseteq unpushed[g]
    /\ \A s \in Sids, k \in Keys : Free(settings'[s][k])
    /\ \A g \in Handles : \A i \in 1..Len(wire'[g]) :
          \A j \in DOMAIN wire'[g][i].args : Free(wire'[g][i].args[j])
    /\ \A g \in Handles, k \in Keys :
          \/ copy'[g].settings[k] = copy[g].settings[k]
          \/ Public(copy'[g].settings[k]) /\ k \notin unpushed'[g]

LEMMA SettingsFree ==
    ASSUME \A s \in Sids : settings'[s] = settings[s]
    PROVE  \A s \in Sids, k \in Keys : Free(settings'[s][k])
BY DEF Free, Public

LEMMA CallsFree ==
    ASSUME NEW g \in Handles, wire'[g] = wire[g]
    PROVE  \A i \in 1..Len(wire'[g]) : \A j \in DOMAIN wire'[g][i].args : Free(wire'[g][i].args[j])
BY DEF Free, Public

LEMMA FreeKeeps ==
    ASSUME BInv, PInv, SpreadsFree, writes' = writes
    PROVE  PInv'
<1>1. writes \in Nat
  BY CopyAssumption DEF CopyAssumption, BInv, CopyTypes, Values
<1>2. ASSUME NEW v, Public(v) PROVE v <= writes
  BY <1>1, <1>2 DEF Public, PInv, Written
<1>3. ASSUME NEW v, Free(v) PROVE v <= writes
  BY <1>2, <1>3 DEF Free, PInv, Written
<1>4. Written'
  BY <1>2, <1>3 DEF SpreadsFree, PInv, Written
<1>5. ASSUME NEW h \in Handles, NEW k \in unpushed'[h]
      PROVE  /\ k \in unpushed[h] /\ k \in Keys /\ copy'[h].settings[k] = copy[h].settings[k]
             /\ ~Public(copy[h].settings[k]) /\ ~Free(copy[h].settings[k])
  <2>1. k \in unpushed[h] /\ k \in Keys
    BY DEF SpreadsFree, BInv, CopyTypes
  <2>2. copy'[h].settings[k] = copy[h].settings[k]
    BY <2>1 DEF SpreadsFree
  <2>3. PICK v : v = copy[h].settings[k]
    OBVIOUS
  <2>4. v # 0
    BY <2>1, <2>3 DEF BInv, Orderly
  <2>5. /\ \A s \in Sids, j \in Keys : settings[s][j] # v
        /\ \A g \in Handles \ {h}, j \in Keys : copy[g].settings[j] # v
        /\ \A g \in Handles : \A i \in 1..Len(wire[g]) :
              \A j \in DOMAIN wire[g][i].args : wire[g][i].args[j] # v
    BY <2>1, <2>3 DEF PInv, UnpushedIsLocal
  <2>6. ~Public(v)
    BY <2>4, <2>5 DEF Public
  <2>7. \A j \in Keys \ unpushed'[h] : copy[h].settings[j] # v
    BY <2>1, <2>3 DEF PInv, Distinct
  <2>8. ~Free(v)
    BY <2>5, <2>6, <2>7 DEF Free
  <2> QED
    BY <2>1, <2>2, <2>3, <2>6, <2>8
<1>6. ASSUME NEW h \in Handles, NEW k \in unpushed'[h], NEW j \in Keys \ {k}
      PROVE  copy'[h].settings[j] # copy'[h].settings[k]
  <2>1. CASE copy'[h].settings[j] = copy[h].settings[j]
    BY <1>5, <2>1 DEF PInv, Distinct
  <2>2. CASE Public(copy'[h].settings[j])
    BY <1>5, <2>2
  <2> QED
    BY <2>1, <2>2 DEF SpreadsFree
<1>7. Distinct'
  BY <1>6 DEF Distinct
<1>8. ASSUME NEW h \in Handles, NEW k \in unpushed'[h]
      PROVE  /\ \A s \in Sids, j \in Keys : settings'[s][j] # copy'[h].settings[k]
             /\ \A g \in Handles \ {h}, j \in Keys : copy'[g].settings[j] # copy'[h].settings[k]
             /\ \A g \in Handles : \A i \in 1..Len(wire'[g]) :
                   \A j \in DOMAIN wire'[g][i].args : wire'[g][i].args[j] # copy'[h].settings[k]
  <2>1. PICK v : v = copy'[h].settings[k]
    OBVIOUS
  <2>2. ~Public(v) /\ ~Free(v) /\ k \in unpushed[h] /\ v = copy[h].settings[k]
    BY <1>5, <2>1
  <2>3. \A s \in Sids, j \in Keys : settings'[s][j] # v
    BY <2>2 DEF SpreadsFree
  <2>4. ASSUME NEW g \in Handles \ {h}, NEW j \in Keys PROVE copy'[g].settings[j] # v
    <3>1. CASE copy'[g].settings[j] = copy[g].settings[j]
      BY <2>2, <3>1 DEF PInv, UnpushedIsLocal
    <3>2. CASE Public(copy'[g].settings[j])
      BY <2>2, <3>2
    <3> QED
      BY <3>1, <3>2 DEF SpreadsFree
  <2>5. \A g \in Handles : \A i \in 1..Len(wire'[g]) :
           \A j \in DOMAIN wire'[g][i].args : wire'[g][i].args[j] # v
    BY <2>2 DEF SpreadsFree
  <2> QED
    BY <2>1, <2>3, <2>4, <2>5
<1>9. UnpushedIsLocal'
  BY <1>8 DEF UnpushedIsLocal
<1> QED
  BY <1>4, <1>7, <1>9 DEF PInv

\* Only the settings of a registered session are written, with the values of the call.
LEMMA ServeSettings ==
    ASSUME CopyTypes, NEW h, NEW c \in Call, Serve(h, c), NEW s \in Sids
    PROVE  /\ s \in sessions \/ settings'[s] = settings[s]
           /\ \A k \in Keys : \/ settings'[s][k] = settings[s][k]
                              \/ k \in DOMAIN c.args /\ settings'[s][k] = c.args[k]
<1>1. c.op \in Calls4 /\ c.sid \in Sids
  BY DEF Call
<1>2. CASE UNCHANGED settings
  BY <1>2
<1>3. CASE c.op = "push" /\ c.sid \in sessions
  <2>1. settings' = [settings EXCEPT ![c.sid] = Imported(c.sid, c.args)]
    BY <1>3 DEF Serve, Import
  <2>2. PICK f : f = Imported(c.sid, c.args)
    OBVIOUS
  <2>3. \A k \in Keys : f[k] = IF k \in DOMAIN c.args THEN c.args[k] ELSE settings[c.sid][k]
    BY <2>2 DEF Imported
  <2>4. settings'[c.sid] = f /\ (s # c.sid => settings'[s] = settings[s])
    BY <1>1, <2>1, <2>2 DEF CopyTypes
  <2> QED
    BY <1>3, <2>3, <2>4
<1>4. UNCHANGED settings \/ (c.op = "push" /\ c.sid \in sessions)
  BY <1>1 DEF Calls4, Serve, ServeBind, ServeUnbind, ServeKick, Import
<1> QED
  BY <1>2, <1>3, <1>4

LEMMA CallingSpreads ==
    ASSUME BInv, NEW h \in Handles, NEW c \in Call, Calling(h, c)
    PROVE  SpreadsFree
<1>1. /\ \A g \in Handles : unpushed'[g] \subseteq unpushed[g]
      /\ UNCHANGED copy
  BY DEF Calling, Leaves
<1>2. \A j \in DOMAIN c.args : j \in Keys
  BY ArgValues
<1>3. ASSUME NEW j \in DOMAIN c.args PROVE Free(c.args[j])
  <2>1. j \in Keys \ unpushed'[h] /\ c.args[j] = copy[h].settings[j]
    BY <1>2 DEF Calling
  <2> QED
    BY <2>1 DEF Free
<1>4. CASE h \in Local
  <2>1. Serve(h, c) /\ UNCHANGED wire
    BY <1>4 DEF Calling
  <2>2. \A s \in Sids, k \in Keys : \/ settings'[s][k] = settings[s][k]
                                    \/ k \in DOMAIN c.args /\ settings'[s][k] = c.args[k]
    BY <2>1, ServeSettings DEF BInv
  <2>3. \A s \in Sids, k \in Keys : Free(settings[s][k])
    BY DEF Free, Public
  <2>4. \A s \in Sids, k \in Keys : Free(settings'[s][k])
    BY <1>3, <2>2, <2>3
  <2> QED
    BY <1>1, <2>1, <2>4, CallsFree DEF SpreadsFree
<1>5. CASE h \notin Local
  <2>1. wire' = [wire EXCEPT ![h] = Append(@, c)] /\ UNCHANGED settings
    BY <1>5 DEF Calling
  <2>2. PICK q \in Seq(Call) : q = wire[h]
    BY DEF BInv, CopyTypes
  <2>3. PICK r \in Seq(Call) : r = Append(q, c)
    BY AppendedSeq
  <2>4. wire'[h] = r /\ \A g \in Handles \ {h} : wire'[g] = wire[g]
    BY <2>1, <2>2, <2>3 DEF BInv, CopyTypes
  <2>5. ASSUME NEW i \in 1..Len(r), NEW j \in DOMAIN r[i].args PROVE Free(r[i].args[j])
    <3>1. r[i] = c \/ (i \in 1..Len(q) /\ r[i] = wire[h][i] /\ i \in 1..Len(wire[h]))
      BY <2>2, <2>3, AppendedSeq
    <3>2. CASE r[i] = c
      BY <1>3, <2>5, <3>2
    <3>3. CASE i \in 1..Len(wire[h]) /\ r[i] = wire[h][i]
      BY <2>5, <3>3 DEF Free, Public
    <3> QED
      BY <3>1, <3>2, <3>3
  <2>6. ASSUME NEW g \in Handles
        PROVE  \A i \in 1..Len(wire'[g]) :
                  \A j \in DOMAIN wire'[g][i].args : Free(wire'[g][i].args[j])
    BY <2>4, <2>5, CallsFree
  <2>7. \A s \in Sids, k \in Keys : Free(settings'[s][k])
    BY <2>1, SettingsFree
  <2> QED
    BY <1>1, <2>6, <2>7 DEF SpreadsFree
<1> QED
  BY <1>4, <1>5

\* Calls that arrive or get lost are handed to nobody.
LEMMA TailFree ==
    ASSUME CopyTypes, NEW h \in Handles, wire[h] # <<>>, wire' = [wire EXCEPT ![h] = Tail(wire[h])],
           NEW g \in Handles
    PROVE  \A i \in 1..Len(wire'[g]) : \A j \in DOMAIN wire'[g][i].args : Free(wire'[g][i].args[j])
<1>1. PICK q \in Seq(Call) : q = wire[h]
  BY DEF CopyTypes
<1>2. PICK r \in Seq(Call) : r = Tail(q)
  BY <1>1, TailSeq
<1>3. wire'[h] = r /\ \A f \in Handles \ {h} : wire'[f] = wire[f]
  BY <1>1, <1>2 DEF CopyTypes
<1>4. ASSUME NEW i \in 1..Len(r), NEW j \in DOMAIN r[i].args PROVE Free(r[i].args[j])
  <2>1. i + 1 \in 1..Len(wire[h]) /\ r[i] = wire[h][i + 1]
    BY <1>1, <1>2, TailSeq
  <2> QED
    BY <1>4, <2>1 DEF Free, Public
<1>5. CASE g = h
  BY <1>3, <1>4, <1>5
<1>6. CASE g # h
  BY <1>3, <1>6, CallsFree
<1> QED
  BY <1>5, <1>6

LEMMA ReceiveSpreads ==
    ASSUME BInv, NEW h \in Handles, Receive(h)
    PROVE  SpreadsFree
<1>1. PICK c \in Call :
         /\ c = Head(wire[h]) /\ Uid4(c) /\ c.sid = copy[h].sid /\ Serve(h, c)
         /\ wire[h] # <<>> /\ wire' = [wire EXCEPT ![h] = Tail(wire[h])]
         /\ UNCHANGED <<copy, unpushed, writes>>
  BY NextCall DEF BInv
<1>2. PICK q \in Seq(Call) : q = wire[h]
  BY DEF BInv, CopyTypes
<1>3. 1 \in 1..Len(wire[h]) /\ c = wire[h][1]
  BY <1>1, <1>2, TailSeq
<1>4. \A j \in DOMAIN c.args : Free(c.args[j])
  BY <1>3 DEF Free, Public
<1>5. \A s \in Sids, k \in Keys : \/ settings'[s][k] = settings[s][k]
                                  \/ k \in DOMAIN c.args /\ settings'[s][k] = c.args[k]
  BY <1>1, ServeSettings DEF BInv
<1>6. \A s \in Sids, k \in Keys : Free(settings[s][k])
  BY DEF Free, Public
<1>7. \A s \in Sids, k \in Keys : Free(settings'[s][k])
  BY <1>4, <1>5, <1>6
<1>8. \A g \in Handles : \A i \in 1..Len(wire'[g]) :
         \A j \in DOMAIN wire'[g][i].args : Free(wire'[g][i].args[j])
  BY <1>1, TailFree DEF BInv
<1> QED
  BY <1>1, <1>7, <1>8 DEF SpreadsFree

LEMMA LostSpreads ==
    ASSUME BInv, NEW h \in Handles, Lost(h)
    PROVE  SpreadsFree
<1>1. UNCHANGED <<settings, copy, unpushed>>
  BY DEF Lost
<1>2. \A s \in Sids, k \in Keys : Free(settings'[s][k])
  BY <1>1, SettingsFree
<1>3. \A g \in Handles : \A i \in 1..Len(wire'[g]) :
         \A j \in DOMAIN wire'[g][i].args : Free(wire'[g][i].args[j])
  <2>1. CASE wire[h] # <<>> /\ wire' = [wire EXCEPT ![h] = Tail(@)]
    BY <2>1, TailFree DEF BInv
  <2>2. CASE UNCHANGED wire
    BY <2>2, CallsFree
  <2> QED
    BY <2>1, <2>2 DEF Lost
<1> QED
  BY <1>1, <1>2, <1>3 DEF SpreadsFree

\* Steps that make or end a copy, or change nothing that has a value.
LEMMA CopySpreads ==
    ASSUME BInv,
           \/ \E h \in Handles : Arrive(h) \/ Answered(h) \/ Discard(h)
           \/ \E h \in Handles, s \in Sids : Export(h, s)
    PROVE  SpreadsFree
<1>1. UNCHANGED <<settings, wire>>
  BY DEF Arrive, Answered, Discard, Export
<1>2. /\ \A s \in Sids, k \in Keys : Free(settings'[s][k])
      /\ \A g \in Handles : \A i \in 1..Len(wire'[g]) :
            \A j \in DOMAIN wire'[g][i].args : Free(wire'[g][i].args[j])
  BY <1>1, SettingsFree, CallsFree
<1>3. ASSUME NEW h \in Handles, Arrive(h) \/ Answered(h) PROVE SpreadsFree
  <2>1. UNCHANGED unpushed
    BY <1>3 DEF Arrive, Answered
  <2>2. copy \in [Handles -> Object]
    BY DEF BInv, CopyTypes
  <2>3. ASSUME NEW g \in Handles PROVE copy'[g].settings = copy[g].settings
    <3>1. PICK c \in Object : c = copy[g]
      BY <2>2
    <3>2. CASE copy' = copy
      BY <3>2
    <3>3. ASSUME NEW b, copy' = [copy EXCEPT ![h].got = b] PROVE copy'[g].settings = copy[g].settings
      <4>1. CASE g = h
        <5>1. copy'[g] = [c EXCEPT !.got = b]
          BY <2>2, <3>1, <3>3, <4>1
        <5> QED
          BY <3>1, <5>1 DEF Object
      <4>2. CASE g # h
        BY <2>2, <3>3, <4>2
      <4> QED
        BY <4>1, <4>2
    <3>4. ASSUME NEW u, copy' = [copy EXCEPT ![h].uid = u] PROVE copy'[g].settings = copy[g].settings
      <4>1. CASE g = h
        <5>1. copy'[g] = [c EXCEPT !.uid = u]
          BY <2>2, <3>1, <3>4, <4>1
        <5> QED
          BY <3>1, <5>1 DEF Object
      <4>2. CASE g # h
        BY <2>2, <3>4, <4>2
      <4> QED
        BY <4>1, <4>2
    <3>5. \/ copy' = copy \/ copy' = [copy EXCEPT ![h].got = TRUE]
          \/ \E u : copy' = [copy EXCEPT ![h].uid = u]
      <4>1. CASE Arrive(h)
        BY <4>1 DEF Arrive
      <4>2. CASE Answered(h)
        <5>1. PICK a : a = Head(back[h])
          OBVIOUS
        <5>2. copy' = CASE a.ok /\ a.op = "bind"   -> [copy EXCEPT ![h].uid = a.uid]
                        [] a.ok /\ a.op = "unbind" -> [copy EXCEPT ![h].uid = NoUid]
                        [] OTHER                   -> copy
          BY <4>2, <5>1 DEF Answered
        <5>3. CASE a.ok /\ a.op = "bind"
          BY <5>2, <5>3
        <5>4. CASE a.ok /\ a.op = "unbind"
          BY <5>2, <5>4
        <5>5. CASE ~(a.ok /\ a.op = "bind") /\ ~(a.ok /\ a.op = "unbind")
          BY <5>2, <5>5
        <5> QED
          BY <5>3, <5>4, <5>5
      <4> QED
        BY <1>3, <4>1, <4>2
    <3> QED
      BY <3>2, <3>3, <3>4, <3>5
  <2> QED
    BY <1>2, <2>1, <2>3 DEF SpreadsFree
<1>4. ASSUME NEW h \in Handles, Discard(h) PROVE SpreadsFree
  <2>1. copy' = [copy EXCEPT ![h] = None] /\ unpushed' = [unpushed EXCEPT ![h] = {}]
    BY <1>4 DEF Discard
  <2>2. copy'[h] = None /\ \A g \in Handles \ {h} : copy'[g] = copy[g]
    BY <2>1 DEF BInv, CopyTypes
  <2>3. unpushed'[h] = {} /\ \A g \in Handles \ {h} : unpushed'[g] = unpushed[g]
    BY <2>1 DEF BInv, CopyTypes
  <2>4. \A k \in Keys : Public(None.settings[k])
    BY DEF None, Unset, Public
  <2> QED
    BY <1>2, <2>2, <2>3, <2>4 DEF SpreadsFree
<1>5. ASSUME NEW h \in Handles, NEW s \in Sids, Export(h, s) PROVE SpreadsFree
  <2>1. UNCHANGED unpushed /\ unpushed[h] = {}
    BY <1>5, NoneObject DEF Export, BInv, Orderly
  <2>2. PICK o : o = [sid |-> s, got |-> h \in Local, uid |-> uid[s], settings |-> settings[s]]
    OBVIOUS
  <2>3. copy' = [copy EXCEPT ![h] = o] /\ o.settings = settings[s]
    BY <1>5, <2>2 DEF Export
  <2>4. copy'[h] = o /\ \A g \in Handles \ {h} : copy'[g] = copy[g]
    BY <2>3 DEF BInv, CopyTypes
  <2>5. \A k \in Keys : Public(o.settings[k])
    BY <2>3 DEF Public
  <2> QED
    BY <1>2, <2>1, <2>4, <2>5 DEF SpreadsFree
<1> QED
  BY <1>3, <1>4, <1>5

LEMMA SessionSpreads ==
    ASSUME BInv, Restart \/ \E s \in Sids : Connect(s) \/ Disconnect(s)
    PROVE  SpreadsFree
<1>1. \A v \in {0} : Free(v)
  BY DEF Free, Public
<1>2. ASSUME NEW s \in Sids, Connect(s) \/ Disconnect(s) PROVE SpreadsFree
  <2>1. UNCHANGED <<copy, wire, unpushed>>
    BY <1>2 DEF Connect, Disconnect, copyVars
  <2>2. \A t \in Sids : settings'[t] = settings[t] \/ settings'[t] = Unset
    BY <1>2 DEF Connect, Disconnect, BInv, CopyTypes
  <2>3. \A t \in Sids, k \in Keys : Free(settings[t][k]) /\ Free(Unset[k])
    BY <1>1 DEF Free, Public, Unset
  <2>4. \A t \in Sids, k \in Keys : Free(settings'[t][k])
    BY <2>2, <2>3
  <2> QED
    BY <2>1, <2>4, CallsFree DEF SpreadsFree
<1>3. CASE Restart
  <2>1. \A s \in Sids : settings'[s] = Unset
    BY <1>3 DEF Restart
  <2>2. \A s \in Sids, k \in Keys : Free(settings'[s][k])
    BY <1>1, <2>1 DEF Unset
  <2>3. \A g \in Handles : wire'[g] = <<>>
    BY <1>3 DEF Restart
  <2>4. \A g \in Handles : /\ copy'[g] = IF g \in Local THEN None ELSE copy[g]
                           /\ unpushed'[g] = IF g \in Local THEN {} ELSE unpushed[g]
    BY <1>3 DEF Restart
  <2>5. \A k \in Keys : Public(None.settings[k])
    BY DEF None, Unset, Public
  <2> QED
    BY <2>2, <2>3, <2>4, <2>5 DEF SpreadsFree
<1> QED
  BY <1>2, <1>3

LEMMA SetPInv ==
    ASSUME BInv, PInv, NEW h \in Handles, NEW k \in Keys, Set(h, k)
    PROVE  PInv'
<1>1. CopyTypes /\ UNCHANGED <<settings, wire>>
  BY DEF BInv, Set
<1>2. PICK v \in Nat : v = writes + 1 /\ writes' = v /\ writes \in Nat
  BY <1>1, SetEffect
<1>3. /\ \A s \in Sids, j \in Keys : settings[s][j] \in Nat
      /\ \A g \in Handles, j \in Keys : copy[g].settings[j] \in Nat
  BY <1>1 DEF CopyTypes, Object, Values
<1>4. ASSUME NEW g \in Handles, NEW i \in 1..Len(wire[g]), NEW j \in DOMAIN wire[g][i].args
      PROVE  wire[g][i].args[j] \in Nat
  <2>1. PICK c \in Call : c = wire[g][i]
    BY <1>1 DEF CopyTypes
  <2> QED
    BY <1>4, <2>1, ArgValues DEF Values
<1>5. /\ copy'[h].settings[k] = v
      /\ \A j \in Keys \ {k} : copy'[h].settings[j] = copy[h].settings[j]
      /\ \A g \in Handles \ {h} : copy'[g] = copy[g]
      /\ unpushed'[h] = unpushed[h] \cup {k}
      /\ \A g \in Handles \ {h} : unpushed'[g] = unpushed[g]
  BY <1>1, <1>2, SetEffect
<1>6. /\ \A s \in Sids, j \in Keys : settings[s][j] # v /\ settings[s][j] <= v
      /\ \A g \in Handles, j \in Keys : copy[g].settings[j] # v /\ copy[g].settings[j] <= v
  BY <1>2, <1>3 DEF PInv, Written
<1>7. \A g \in Handles : \A i \in 1..Len(wire[g]) : \A j \in DOMAIN wire[g][i].args :
         wire[g][i].args[j] # v /\ wire[g][i].args[j] <= v
  BY <1>2, <1>4 DEF PInv, Written
<1>8. Written'
  <2>1. \A g \in Handles, j \in Keys : copy'[g].settings[j] <= v
    BY <1>2, <1>5, <1>6
  <2> QED
    BY <1>1, <1>2, <1>6, <1>7, <2>1 DEF Written
<1>9. \A g \in Handles : unpushed[g] \subseteq Keys
  BY <1>1 DEF CopyTypes
<1>10. ASSUME NEW g \in Handles, NEW l \in unpushed'[g], NEW j \in Keys \ {l}
       PROVE  copy'[g].settings[j] # copy'[g].settings[l]
  <2>1. CASE g # h
    BY <1>5, <2>1 DEF PInv, Distinct
  <2>2. CASE g = h /\ l = k
    BY <1>5, <1>6, <2>2
  <2>3. CASE g = h /\ l # k /\ j = k
    BY <1>5, <1>6, <1>9, <2>3
  <2>4. CASE g = h /\ l # k /\ j # k
    BY <1>5, <1>9, <2>4 DEF PInv, Distinct
  <2> QED
    BY <2>1, <2>2, <2>3, <2>4
<1>11. Distinct'
  BY <1>10 DEF Distinct
<1>12. ASSUME NEW g \in Handles, NEW l \in unpushed'[g]
       PROVE  /\ \A s \in Sids, j \in Keys : settings[s][j] # copy'[g].settings[l]
              /\ \A f \in Handles \ {g}, j \in Keys : copy'[f].settings[j] # copy'[g].settings[l]
              /\ \A f \in Handles : \A i \in 1..Len(wire[f]) :
                    \A j \in DOMAIN wire[f][i].args : wire[f][i].args[j] # copy'[g].settings[l]
  <2>1. CASE g = h /\ l = k
    BY <1>5, <1>6, <1>7, <2>1
  <2>2. CASE ~(g = h /\ l = k)
    <3>1. l \in unpushed[g] /\ l \in Keys /\ copy'[g].settings[l] = copy[g].settings[l]
      BY <1>5, <1>9, <2>2
    <3>2. PICK w : w = copy[g].settings[l]
      OBVIOUS
    <3>3. /\ \A s \in Sids, j \in Keys : settings[s][j] # w
          /\ \A f \in Handles \ {g}, j \in Keys : copy[f].settings[j] # w
          /\ \A f \in Handles : \A i \in 1..Len(wire[f]) :
                \A j \in DOMAIN wire[f][i].args : wire[f][i].args[j] # w
      BY <3>1, <3>2 DEF PInv, UnpushedIsLocal
    <3>4. w # v
      BY <1>6, <3>1, <3>2
    <3>5. \A f \in Handles \ {g}, j \in Keys : copy'[f].settings[j] # w
      BY <1>5, <3>3, <3>4
    <3> QED
      BY <3>1, <3>2, <3>3, <3>5
  <2> QED
    BY <2>1, <2>2
<1>13. UnpushedIsLocal'
  BY <1>1, <1>12 DEF UnpushedIsLocal
<1> QED
  BY <1>8, <1>11, <1>13 DEF PInv

LEMMA StepPInv == IInv /\ BInv /\ PInv /\ [CopiesNext]_vars => PInv'
<1> SUFFICES ASSUME IInv, BInv, PInv, [CopiesNext]_vars PROVE PInv'
  OBVIOUS
<1>1. ASSUME NEW h \in Handles, Calls(h) PROVE PInv'
  <2>1. PICK c \in Call : Calling(h, c)
    BY <1>1, CallsCall DEF BInv
  <2> QED
    BY <2>1, CallingSpreads, FreeKeeps DEF Calling
<1>2. ASSUME NEW h \in Handles, Receive(h) PROVE PInv'
  BY <1>2, ReceiveSpreads, FreeKeeps DEF Receive
<1>3. ASSUME NEW h \in Handles, Lost(h) PROVE PInv'
  BY <1>3, LostSpreads, FreeKeeps DEF Lost
<1>4. ASSUME NEW h \in Handles, Arrive(h) \/ Answered(h) \/ Discard(h) PROVE PInv'
  BY <1>4, CopySpreads, FreeKeeps DEF Arrive, Answered, Discard
<1>5. ASSUME NEW h \in Handles, NEW s \in Sids, Export(h, s) PROVE PInv'
  BY <1>5, CopySpreads, FreeKeeps DEF Export
<1>6. ASSUME NEW s \in Sids, Connect(s) \/ Disconnect(s) PROVE PInv'
  BY <1>6, SessionSpreads, FreeKeeps DEF Connect, Disconnect
<1>7. CASE Restart
  BY <1>7, SessionSpreads, FreeKeeps DEF Restart
<1>8. CASE UNCHANGED vars
  BY <1>8 DEF vars, copyVars, PInv, Written, Distinct, UnpushedIsLocal
<1> QED
  BY <1>1, <1>2, <1>3, <1>4, <1>5, <1>6, <1>7, <1>8, SetPInv DEF CopiesNext, Calls

LEMMA InitPInv == CopiesInit => PInv
<1> SUFFICES ASSUME CopiesInit PROVE PInv
  OBVIOUS
<1>1. /\ \A s \in Sids, k \in Keys : settings[s][k] = 0
      /\ \A h \in Handles, k \in Keys : copy[h].settings[k] = 0
      /\ \A h \in Handles : wire[h] = <<>> /\ unpushed[h] = {}
      /\ writes = 0
  BY DEF CopiesInit, CopyInit, None, Unset
<1> QED
  BY <1>1 DEF PInv, Written, Distinct, UnpushedIsLocal

\* A value that a handler has set and not pushed is in no session, in no other
\* copy and in no call, whatever the others push, export or lose.
THEOREM UnpushedIsLocalCorrect == CopiesSpec => []UnpushedIsLocal
<1>1. PInv => UnpushedIsLocal
  BY DEF PInv
<1> QED
  BY <1>1, InitBInv, StepCopies, InitPInv, StepPInv, PTL DEF CopiesSpec

-----------------------------------------------------------------------------
(* Closed sessions *)

LEMMA ClosedUid ==
    ASSUME IInv, [Next]_sessionVars, NEW s \in Sids, state[s] = "closed"
    PROVE  uid'[s] = uid[s]
<1>1. s \notin sessions
  BY DEF IInv, RegisteredIffOpen
<1>2. UNCHANGED uid \/ \E t \in sessions, u \in Uids \cup {NoUid} : uid' = [uid EXCEPT ![t] = u]
  <2>1. ASSUME NEW t \in Sids, Create(t) \/ Closed(t) \/ KickBySessionId(t) \/ DisconnectTick(t)
        PROVE  UNCHANGED uid
    BY <2>1 DEF Create, Closed, KickBySessionId, DisconnectTick, Close
  <2>2. ASSUME NEW t \in Sids, NEW u \in Uids, Bind(t, u) \/ Unbind(t, u)
        PROVE  t \in sessions /\ (uid' = [uid EXCEPT ![t] = u] \/ uid' = [uid EXCEPT ![t] = NoUid])
    BY <2>2 DEF Bind, Attach, Unbind
  <2>3. ASSUME NEW u \in Uids, Kick(u) PROVE UNCHANGED uid
    BY <2>3 DEF Kick, Close
  <2> QED
    BY <2>1, <2>2, <2>3 DEF Next, sessionVars
<1> QED
  BY <1>1, <1>2 DEF IInv, TypeOK

LEMMA ClosedSettings ==
    ASSUME IInv, BInv, CopiesNext, NEW s \in Sids, state[s] = "closed", state'[s] = "closed"
    PROVE  settings'[s] = settings[s]
<1>1. s \notin sessions /\ CopyTypes
  BY DEF IInv, RegisteredIffOpen, BInv
<1>2. ASSUME NEW h \in Handles, Calls(h) PROVE settings'[s] = settings[s]
  <2>1. PICK c \in Call : Calling(h, c)
    BY <1>2, CallsCall DEF BInv
  <2>2. Serve(h, c) \/ UNCHANGED settings
    BY <2>1 DEF Calling
  <2> QED
    BY <1>1, <2>2, ServeSettings
<1>3. ASSUME NEW h \in Handles, Receive(h) PROVE settings'[s] = settings[s]
  <2>1. PICK c \in Call : Serve(h, c)
    BY <1>3, NextCall DEF BInv
  <2> QED
    BY <1>1, <2>1, ServeSettings
<1>4. ASSUME NEW t \in Sids, Connect(t) PROVE settings'[s] = settings[s]
  <2>1. t # s
    BY <1>4 DEF Connect, Create
  <2> QED
    BY <1>1, <1>4, <2>1 DEF Connect, CopyTypes
<1>5. ~Restart
  BY DEF Restart
<1>6. ASSUME NEW t \in Sids, Disconnect(t) PROVE settings'[s] = settings[s]
  BY <1>6 DEF Disconnect
<1>7. ASSUME NEW h \in Handles, Arrive(h) \/ Answered(h) \/ Lost(h) \/ Discard(h)
      PROVE  settings'[s] = settings[s]
  BY <1>7 DEF Arrive, Answered, Lost, Discard
<1>8. ASSUME NEW h \in Handles, NEW t \in Sids, Export(h, t) PROVE settings'[s] = settings[s]
  BY <1>8 DEF Export
<1>9. ASSUME NEW h \in Handles, NEW k \in Keys, Set(h, k) PROVE settings'[s] = settings[s]
  BY <1>9 DEF Set
<1> QED
  BY <1>2, <1>3, <1>4, <1>5, <1>6, <1>7, <1>8, <1>9 DEF CopiesNext, Calls

\* A call that reaches the frontend after its session has closed changes neither
\* the session's user nor its settings.
THEOREM ClosedIsFinalCorrect == CopiesSpec => ClosedIsFinal
<1>1. ASSUME IInv, BInv, [CopiesNext]_vars
      PROVE  [\A s \in Sids : (state[s] = "closed" /\ state'[s] = "closed") =>
                 uid'[s] = uid[s] /\ settings'[s] = settings[s]]_vars
  <2> SUFFICES ASSUME CopiesNext, NEW s \in Sids, state[s] = "closed", state'[s] = "closed"
               PROVE  uid'[s] = uid[s] /\ settings'[s] = settings[s]
    BY <1>1
  <2>1. ~Restart
    BY DEF Restart
  <2>2. [Next]_sessionVars
    BY <1>1, <2>1, StepSessions DEF BInv
  <2> QED
    BY <1>1, <2>2, ClosedUid, ClosedSettings
<1> QED
  BY <1>1, InitBInv, StepCopies, PTL DEF CopiesSpec, ClosedIsFinal
=============================================================================
