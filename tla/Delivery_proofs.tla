-------------------------- MODULE Delivery_proofs --------------------------
(***************************************************************************)
(* Proofs about the way of a message to the clients, in three parts.       *)
(*                                                                         *)
(* ChannelPush, for every set of messages and users and every finite set   *)
(* of servers, whether the server is one of them, and whichever frontends  *)
(* refuse a message or RPCs fail.                                          *)
(*                                                                         *)
(* Channel, the members of a channel, for every set of objects, users and  *)
(* servers.                                                                *)
(*                                                                         *)
(* PushScheduler, for every set of users and finite set of sessions.       *)
(***************************************************************************)
EXTENDS ChannelPush, Channel, PushScheduler, FiniteSetTheorems, SequenceTheorems, TLAPS

-----------------------------------------------------------------------------
(* The inductive invariant, for each message *)

\* Nothing is under way for a message whose latch is not made.
Unmade(m) == m \notin made =>
    /\ count[m] = 0 /\ calls[m] = 0 /\ inbox[m] = {} /\ replies[m] = {} /\ again[m] = {}
    /\ asked[m] = {} /\ broken[m] = {} /\ ~success[m] /\ m \notin twice /\ m \notin broadcasts

SentOnce(m) == /\ m \in made => phase[m] = "sent"
               /\ phase[m] = "none" => answers[m] = {}

\* Of a server there is either a request or one answer; a second callback is
\* one of Here, and comes behind an error.
OneReply(m) == /\ \A r, q \in replies[m] : r.from = q.from => r = q
               /\ \A r \in replies[m] : r.from \notin inbox[m]
               /\ Here \notin inbox[m]
               /\ \A r, q \in again[m] : r = q
               /\ \A r \in again[m] : ~r.err /\ r.from = Here
               /\ again[m] # {} => \A q \in replies[m] : q.from = Here => q.err

\* Who is awaited was asked, and the answers tell which RPCs failed.
AskedOf(m) == /\ Awaited(m) \subseteq asked[m] /\ broken[m] \subseteq asked[m]
              /\ inbox[m] \cap broken[m] = {}
              /\ \A r \in replies[m] : r.err <=> r.from \in broken[m]

\* A second callback that is no longer to come was not an error.
SecondOf(m) == IF m \in twice THEN again[m] # {} \/ success[m] ELSE again[m] = {}

LatchOf(m) == /\ count[m] = IF m \in twice /\ Remaining(m) > 0
                            THEN Remaining(m) - 1 ELSE Remaining(m)
              /\ calls[m] = IF m \in made /\ count[m] = 0 THEN 1 ELSE 0

\* What is said of the users that f was asked for, with these fails.
Scheduled(m, f, us) == m \in broadcasts \/ {f} \X (groups[m][f] \ us) \subseteq got[m]

\* The servers whose answer was taken.
Taken(m) == asked[m] \ Awaited(m)

Honest(m) == /\ ~success[m] => Taken(m) \subseteq broken[m]
             /\ success[m] /\ m \notin twice => ~(Taken(m) \subseteq broken[m])
             /\ \A f \in Taken(m) \ broken[m] : Scheduled(m, f, fails[m])
             /\ \A r \in replies[m] : ~r.err => Scheduled(m, r.from, r.fails)

Told1(m) == \A a \in answers[m] :
    /\ count[m] = 0
    /\ a.err => asked[m] \subseteq broken[m]
    /\ ~a.err /\ m \notin twice =>
          /\ asked[m] = {} \/ ~(asked[m] \subseteq broken[m])
          /\ \A f \in asked[m] \ broken[m] : Scheduled(m, f, a.fails)

MsgInv(m) == /\ Unmade(m) /\ SentOnce(m) /\ OneReply(m) /\ AskedOf(m) /\ SecondOf(m)
             /\ LatchOf(m) /\ Honest(m) /\ Told1(m)

IInv == TypeOK /\ \A m \in Messages : MsgInv(m)

LEMMA InitIInv == Init => IInv
<1> SUFFICES ASSUME Init PROVE IInv
  OBVIOUS
<1>1. TypeOK
  BY DEF Init, TypeOK, Latch!Init, Latch!TypeOK
<1>2. ASSUME NEW m \in Messages PROVE MsgInv(m)
  <2>1. Awaited(m) = {} /\ again[m] = {}
    BY DEF Init, Awaited
  <2>2. Remaining(m) = 0
    BY <2>1, FS_EmptySet DEF Remaining
  <2> QED
    BY <2>1, <2>2 DEF Init, Latch!Init, MsgInv, Unmade, SentOnce, OneReply, AskedOf, SecondOf, LatchOf,
                Honest, Taken, Told1
<1> QED BY <1>1, <1>2 DEF IInv

-----------------------------------------------------------------------------
(* What the steps do *)

\* A server that is asked either schedules the message for the users it has,
\* and names the others, or answers with an error; Here may call back again.
LEMMA ServeOnce ==
    ASSUME NEW f \in Servers, NEW us, NEW named \in SUBSET Users, NEW s \in Serve(f, us, named)
    PROVE  /\ s.first \in Reply /\ s.first.from = f
           /\ s.got \subseteq {f} \X us
           /\ ~s.first.err /\ named = us => {f} \X (us \ s.first.fails) \subseteq s.got
           /\ s.second = {} \/ \E q \in Reply : /\ s.second = {q} /\ ~q.err /\ q.from = Here
                                               /\ f = Here /\ s.first.err
<1>1. RpcOk(f, named) \in Reply /\ RpcError(f) \in Reply
  BY DEF RpcOk, RpcError, FailsAt, Reply
<1>2. RpcOk(f, named).fails = named \ online[f] /\ RpcOk(f, named).from = f /\ ~RpcOk(f, named).err
  BY DEF RpcOk, FailsAt
<1>3. RpcError(f).from = f /\ RpcError(f).err
  BY DEF RpcError
<1>4. CASE s.got = {f} \X (us \cap online[f]) /\ s.first = RpcOk(f, named) /\ s.second = {}
  BY <1>1, <1>2, <1>4
<1>5. CASE s.got = {} /\ s.first = RpcError(f) /\ s.second = {}
  BY <1>1, <1>3, <1>5
<1>6. CASE f = Here /\ s.got = {} /\ s.first = RpcError(f) /\ s.second = {RpcOk(f, named)}
  BY <1>1, <1>2, <1>3, <1>6
<1> QED BY <1>4, <1>5, <1>6 DEF Serve

\* A message that a step is not about.
LEMMA OtherMessage ==
    ASSUME NEW m, MsgInv(m),
           phase'[m] = phase[m], m \in broadcasts' <=> m \in broadcasts,
           groups'[m] = groups[m], inbox'[m] = inbox[m], replies'[m] = replies[m],
           again'[m] = again[m], asked'[m] = asked[m], broken'[m] = broken[m],
           m \in twice' <=> m \in twice,
           success'[m] = success[m], fails'[m] = fails[m],
           got'[m] = got[m], answers'[m] = answers[m], m \in made' <=> m \in made,
           count'[m] = count[m], calls'[m] = calls[m]
    PROVE  MsgInv(m)'
<1>1. Awaited(m)' = Awaited(m) /\ Remaining(m)' = Remaining(m) /\ Taken(m)' = Taken(m)
  BY DEF Awaited, Remaining, Taken
<1>2. \A f, us : Scheduled(m, f, us)' <=> Scheduled(m, f, us)
  BY DEF Scheduled
<1>3. Unmade(m)' /\ SentOnce(m)' /\ OneReply(m)' /\ SecondOf(m)'
  BY DEF MsgInv, Unmade, SentOnce, OneReply, SecondOf
<1>4. AskedOf(m)' /\ LatchOf(m)'
  BY <1>1 DEF MsgInv, AskedOf, LatchOf
<1>5. Honest(m)' /\ Told1(m)'
  BY <1>1, <1>2 DEF MsgInv, Honest, Told1
<1> QED BY <1>3, <1>4, <1>5 DEF MsgInv

LEMMA ReplyTypes ==
    ASSUME TypeOK, NEW m \in Messages, NEW r \in replies[m] \cup again[m]
    PROVE  r \in Reply /\ r.from \in Servers /\ r.err \in BOOLEAN /\ r.fails \in SUBSET Users
<1>1. r \in Reply
  BY DEF TypeOK
<1> QED BY <1>1 DEF Reply

\* Servers that are awaited are counted, and so is a second callback.
LEMMA AwaitedFinite ==
    ASSUME TypeOK, NEW m \in Messages
    PROVE  /\ Awaited(m) \subseteq Servers /\ IsFiniteSet(Awaited(m))
           /\ Cardinality(Awaited(m)) \in Nat
           /\ Cardinality(Awaited(m)) = 0 <=> Awaited(m) = {}
<1>1. Awaited(m) \subseteq Servers
  BY ReplyTypes DEF TypeOK, Awaited
<1>2. IsFiniteSet(Awaited(m))
  BY <1>1, FS_Subset, ChannelPushAssumption
<1> QED BY <1>1, <1>2, FS_CardinalityType, FS_EmptySet

LEMMA OneOrNone ==
    ASSUME NEW S, \A r, q \in S : r = q
    PROVE  Cardinality(S) = IF S = {} THEN 0 ELSE 1
<1>1. CASE S = {}
  BY <1>1, FS_EmptySet
<1>2. CASE S # {}
  <2>1. PICK r \in S : S = {r}
    BY <1>2
  <2> QED BY <1>2, <2>1, FS_Singleton
<1> QED BY <1>1, <1>2

\* The callbacks to come are those of the awaited servers and the second one.
LEMMA RemainingCount ==
    ASSUME TypeOK, NEW m \in Messages, OneReply(m)
    PROVE  /\ Remaining(m) \in Nat
           /\ Remaining(m) = Cardinality(Awaited(m)) + (IF again[m] = {} THEN 0 ELSE 1)
           /\ Remaining(m) = 0 <=> Awaited(m) = {} /\ again[m] = {}
           /\ Remaining(m) = 1 /\ again[m] # {} => Awaited(m) = {}
<1>1. Cardinality(again[m]) = IF again[m] = {} THEN 0 ELSE 1
  BY OneOrNone DEF OneReply
<1> QED BY <1>1, AwaitedFinite DEF Remaining

-----------------------------------------------------------------------------
(* Clients come and go: nothing of a message changes. *)

LEMMA StepClients ==
    ASSUME IInv, NEW f \in Servers, NEW u \in Users, Login(f, u) \/ Logout(f, u)
    PROVE  IInv'
<1>1. TypeOK'
  <2>1. CASE Login(f, u)
    BY <2>1 DEF IInv, TypeOK, Login, callVars, callerVars, latchVars, Latch!TypeOK
  <2>2. CASE Logout(f, u)
    BY <2>2 DEF IInv, TypeOK, Logout, callVars, callerVars, latchVars, Latch!TypeOK
  <2> QED BY <2>1, <2>2
<1>2. \A m \in Messages : MsgInv(m)'
  BY OtherMessage DEF IInv, Login, Logout, callVars, callerVars, latchVars
<1> QED BY <1>1, <1>2 DEF IInv

\* A message is sent to the servers F.
LEMMA StepDispatch ==
    ASSUME IInv, NEW m \in Messages, NEW F \in SUBSET Servers,
           NEW G \in [Servers -> SUBSET Users], NEW N \in [Servers -> SUBSET Users],
           Dispatch(m, F, G, N),
           \/ UNCHANGED broadcasts /\ N = G
           \/ broadcasts' = broadcasts \cup {m}
    PROVE  IInv'
<1>1. /\ TypeOK /\ MsgInv(m) /\ phase[m] = "none" /\ m \notin made
      /\ inbox[m] = {} /\ replies[m] = {} /\ again[m] = {} /\ broken[m] = {} /\ m \notin twice
      /\ answers[m] = {} /\ ~success[m] /\ calls[m] = 0
  BY DEF IInv, MsgInv, Unmade, SentOnce, Dispatch
<1>2. IsFiniteSet(F) /\ Cardinality(F) \in Nat /\ Cardinality(F) > 0 /\ F # {}
  BY FS_Subset, FS_CardinalityType, FS_EmptySet, ChannelPushAssumption DEF Dispatch, Latch!Create
<1>3. /\ made' = made \cup {m} /\ count' = [count EXCEPT ![m] = Cardinality(F)]
      /\ timer' = [timer EXCEPT ![m] = "none"] /\ calls' = calls /\ late' = late
      /\ phase' = [phase EXCEPT ![m] = "sent"] /\ groups' = [groups EXCEPT ![m] = G]
      /\ asked' = [asked EXCEPT ![m] = F]
      /\ inbox' = [inbox EXCEPT ![m] = F \ {Here}]
      /\ UNCHANGED online /\ UNCHANGED success /\ UNCHANGED fails /\ UNCHANGED answers
  BY DEF Dispatch, Latch!Create, callerVars
\* The answer of Here, and its second one.
<1>4. ASSUME Here \in F
      PROVE  \E x \in Reply, gets \in SUBSET (Servers \X Users), second \in SUBSET Reply :
                /\ x.from = Here
                /\ ~x.err /\ N = G => {Here} \X (G[Here] \ x.fails) \subseteq gets
                /\ second = {} \/ \E q : second = {q} /\ ~q.err /\ q.from = Here /\ x.err
                /\ got' = [got EXCEPT ![m] = gets]
                /\ replies' = [replies EXCEPT ![m] = {x}]
                /\ again' = [again EXCEPT ![m] = second]
                /\ broken' = [broken EXCEPT ![m] = IF x.err THEN {Here} ELSE {}]
                /\ twice' = IF second = {} THEN twice ELSE twice \cup {m}
  <2>1. Here \in Servers /\ G[Here] \in SUBSET Users /\ N[Here] \in SUBSET Users
    BY <1>4
  <2>2. PICK s \in Serve(Here, G[Here], N[Here]) :
               /\ got' = [got EXCEPT ![m] = s.got]
               /\ replies' = [replies EXCEPT ![m] = {s.first}]
               /\ again' = [again EXCEPT ![m] = s.second]
               /\ broken' = [broken EXCEPT ![m] = FailedBy(s.first)]
               /\ twice' = IF s.second = {} THEN twice ELSE twice \cup {m}
    BY <1>4 DEF Dispatch
  <2>3. /\ s.first \in Reply /\ s.first.from = Here /\ s.got \subseteq {Here} \X G[Here]
        /\ ~s.first.err /\ N = G => {Here} \X (G[Here] \ s.first.fails) \subseteq s.got
        /\ s.second = {} \/ \E q \in Reply : s.second = {q} /\ ~q.err /\ q.from = Here /\ s.first.err
    <3>1. N = G => N[Here] = G[Here]
      OBVIOUS
    <3> QED BY <2>1, <3>1, ServeOnce
  <2>4. s.got \in SUBSET (Servers \X Users) /\ s.second \in SUBSET Reply
    BY <2>1, <2>3
  <2>5. FailedBy(s.first) = IF s.first.err THEN {Here} ELSE {}
    BY <2>3 DEF FailedBy
  <2> QED BY <2>2, <2>3, <2>4, <2>5
<1>5. \E x \in [got : SUBSET (Servers \X Users), replies : SUBSET Reply, again : SUBSET Reply,
                broken : SUBSET Servers] :
         /\ \/ Here \notin F /\ x.replies = {} /\ x.again = {} /\ x.broken = {}
            \/ /\ Here \in F
               /\ \E r \in Reply :
                     /\ x.replies = {r} /\ r.from = Here
                     /\ ~r.err /\ N = G => {Here} \X (G[Here] \ r.fails) \subseteq x.got
                     /\ x.broken = IF r.err THEN {Here} ELSE {}
                     /\ x.again = {} \/ \E q : x.again = {q} /\ ~q.err /\ q.from = Here /\ r.err
         /\ got' = [got EXCEPT ![m] = x.got] /\ replies' = [replies EXCEPT ![m] = x.replies]
         /\ again' = [again EXCEPT ![m] = x.again] /\ broken' = [broken EXCEPT ![m] = x.broken]
         /\ twice' = IF x.again = {} THEN twice ELSE twice \cup {m}
  <2>1. CASE Here \notin F
    <3> DEFINE x == [got |-> got[m], replies |-> {}, again |-> {}, broken |-> {}]
    <3>1. /\ got' = got /\ replies' = replies /\ again' = again /\ broken' = broken
          /\ twice' = twice
      BY <2>1 DEF Dispatch
    <3>2. got[m] \in SUBSET (Servers \X Users)
      BY <1>1 DEF TypeOK
    <3>3. /\ got' = [got EXCEPT ![m] = got[m]] /\ replies' = [replies EXCEPT ![m] = {}]
          /\ again' = [again EXCEPT ![m] = {}] /\ broken' = [broken EXCEPT ![m] = {}]
      BY <1>1, <3>1 DEF TypeOK
    <3> DEFINE Pairs == SUBSET (Servers \X Users)
    <3> HIDE DEF Pairs
    <3>4. x \in [got : Pairs, replies : SUBSET Reply, again : SUBSET Reply,
                 broken : SUBSET Servers]
      BY <3>2 DEF Pairs
    <3>5. x.got = got[m] /\ x.replies = {} /\ x.again = {} /\ x.broken = {}
      OBVIOUS
    <3> HIDE DEF x
    <3> QED BY <2>1, <3>1, <3>3, <3>4, <3>5 DEF Pairs
  <2>2. CASE Here \in F
    <3>1. PICK r \in Reply, gets \in SUBSET (Servers \X Users), second \in SUBSET Reply :
                /\ r.from = Here
                /\ ~r.err /\ N = G => {Here} \X (G[Here] \ r.fails) \subseteq gets
                /\ second = {} \/ \E q : second = {q} /\ ~q.err /\ q.from = Here /\ r.err
                /\ got' = [got EXCEPT ![m] = gets]
                /\ replies' = [replies EXCEPT ![m] = {r}]
                /\ again' = [again EXCEPT ![m] = second]
                /\ broken' = [broken EXCEPT ![m] = IF r.err THEN {Here} ELSE {}]
                /\ twice' = IF second = {} THEN twice ELSE twice \cup {m}
      BY <1>4, <2>2
    <3> DEFINE x == [got |-> gets, replies |-> {r}, again |-> second,
                     broken |-> IF r.err THEN {Here} ELSE {}]
    <3>2. (IF r.err THEN {Here} ELSE {}) \in SUBSET Servers
      BY <2>2
    <3> WITNESS x \in [got : SUBSET (Servers \X Users), replies : SUBSET Reply,
                       again : SUBSET Reply, broken : SUBSET Servers]
    <3> QED BY <2>2, <3>1
  <2> QED BY <2>1, <2>2
<1>6. PICK x \in [got : SUBSET (Servers \X Users), replies : SUBSET Reply, again : SUBSET Reply,
                  broken : SUBSET Servers] :
         /\ \/ Here \notin F /\ x.replies = {} /\ x.again = {} /\ x.broken = {}
            \/ /\ Here \in F
               /\ \E r \in Reply :
                     /\ x.replies = {r} /\ r.from = Here
                     /\ ~r.err /\ N = G => {Here} \X (G[Here] \ r.fails) \subseteq x.got
                     /\ x.broken = IF r.err THEN {Here} ELSE {}
                     /\ x.again = {} \/ \E q : x.again = {q} /\ ~q.err /\ q.from = Here /\ r.err
         /\ got' = [got EXCEPT ![m] = x.got] /\ replies' = [replies EXCEPT ![m] = x.replies]
         /\ again' = [again EXCEPT ![m] = x.again] /\ broken' = [broken EXCEPT ![m] = x.broken]
         /\ twice' = IF x.again = {} THEN twice ELSE twice \cup {m}
  BY <1>5
<1>7. TypeOK'
  <2>1. Latch!TypeOK'
    BY <1>1, <1>2, <1>3 DEF TypeOK, Latch!TypeOK
  <2>2. /\ replies' \in [Messages -> SUBSET Reply] /\ again' \in [Messages -> SUBSET Reply]
        /\ broken' \in [Messages -> SUBSET Servers]
    BY <1>1, <1>6 DEF TypeOK
  <2>3. got' \in [Messages -> SUBSET (Servers \X Users)]
    <3> DEFINE Pairs == Servers \X Users
    <3>1. got \in [Messages -> SUBSET Pairs] /\ x.got \in SUBSET Pairs
      BY <1>1 DEF TypeOK
    <3> HIDE DEF Pairs
    <3>2. got' \in [Messages -> SUBSET Pairs]
      BY <1>6, <3>1
    <3> QED BY <3>2 DEF Pairs
  <2>4. broadcasts' \subseteq Messages /\ twice' \subseteq Messages
    BY <1>1, <1>6 DEF TypeOK
  <2>5. /\ phase' \in [Messages -> {"none", "sent", "refused"}]
        /\ groups' \in [Messages -> [Servers -> SUBSET Users]]
        /\ asked' \in [Messages -> SUBSET Servers] /\ inbox' \in [Messages -> SUBSET Servers]
    BY <1>1, <1>3 DEF TypeOK
  <2> QED BY <1>1, <1>3, <2>1, <2>2, <2>3, <2>4, <2>5 DEF TypeOK
<1>8. MsgInv(m)'
  <2>1. /\ inbox'[m] = F \ {Here} /\ phase'[m] = "sent" /\ m \in made'
        /\ count'[m] = Cardinality(F) /\ calls'[m] = 0 /\ asked'[m] = F /\ answers'[m] = {}
        /\ ~success'[m] /\ groups'[m] = G
    BY <1>1, <1>3 DEF TypeOK, Latch!TypeOK
  <2>2. /\ replies'[m] = x.replies /\ again'[m] = x.again /\ broken'[m] = x.broken
        /\ got'[m] = x.got /\ (m \in twice' <=> x.again # {})
    BY <1>1, <1>6 DEF TypeOK
  <2>3. Awaited(m)' = F
    BY <1>6, <2>1, <2>2 DEF Awaited
  <2>4. OneReply(m)'
    BY <1>6, <2>1, <2>2 DEF OneReply
  <2>5. AskedOf(m)' /\ SecondOf(m)'
    BY <1>6, <2>1, <2>2, <2>3 DEF AskedOf, SecondOf
  <2>6. LatchOf(m)'
    <3>1. Cardinality(again[m])' = IF x.again = {} THEN 0 ELSE 1
      BY <2>2, <2>4, OneOrNone DEF OneReply
    <3>2. Remaining(m)' = Cardinality(F) + (IF x.again = {} THEN 0 ELSE 1)
      BY <2>3, <3>1 DEF Remaining
    <3> QED BY <1>2, <2>1, <2>2, <3>2 DEF LatchOf
  <2>7. Honest(m)'
    <3>1. Taken(m)' = {}
      BY <2>1, <2>3 DEF Taken
    <3>2. ASSUME NEW r \in replies'[m], ~r.err PROVE Scheduled(m, r.from, r.fails)'
      <4>1. r.from = Here /\ (N = G => {Here} \X (G[Here] \ r.fails) \subseteq x.got)
        BY <1>6, <2>2, <3>2
      <4>2. CASE m \in broadcasts'
        BY <4>2 DEF Scheduled
      <4>3. CASE N = G
        BY <2>1, <2>2, <4>1, <4>3 DEF Scheduled
      <4> QED BY <4>2, <4>3
    <3> QED BY <2>1, <3>1, <3>2 DEF Honest
  <2> QED
    BY <2>1, <2>4, <2>5, <2>6, <2>7 DEF MsgInv, Unmade, SentOnce, Told1
<1>9. ASSUME NEW q \in Messages, q # m PROVE MsgInv(q)'
  <2>1. /\ replies'[q] = replies[q] /\ got'[q] = got[q] /\ again'[q] = again[q]
        /\ broken'[q] = broken[q] /\ (q \in twice' <=> q \in twice)
    BY <1>1, <1>6, <1>9 DEF TypeOK
  <2>2. /\ phase'[q] = phase[q] /\ groups'[q] = groups[q] /\ asked'[q] = asked[q]
        /\ inbox'[q] = inbox[q] /\ count'[q] = count[q] /\ calls'[q] = calls[q]
        /\ (q \in made' <=> q \in made) /\ (q \in broadcasts' <=> q \in broadcasts)
    BY <1>1, <1>3, <1>9 DEF TypeOK, Latch!TypeOK
  <2> QED BY <1>3, <2>1, <2>2, OtherMessage DEF IInv
<1> QED BY <1>7, <1>8, <1>9 DEF IInv

\* Nobody to send to, or a channel that is destroyed.
LEMMA StepNobody ==
    ASSUME IInv, NEW m \in Messages, PushToNobody(m) \/ PushToDestroyed(m)
    PROVE  IInv'
<1>1. /\ TypeOK /\ MsgInv(m) /\ phase[m] = "none" /\ m \notin made
      /\ asked[m] = {} /\ count[m] = 0
  BY DEF IInv, MsgInv, Unmade, SentOnce, PushToNobody, PushToDestroyed
<1>2. /\ UNCHANGED online /\ UNCHANGED broadcasts /\ UNCHANGED groups /\ UNCHANGED inbox
      /\ UNCHANGED replies /\ UNCHANGED again /\ UNCHANGED asked /\ UNCHANGED broken
      /\ UNCHANGED twice /\ UNCHANGED success /\ UNCHANGED fails
      /\ UNCHANGED got /\ UNCHANGED latchVars
      /\ \E x \in {"sent", "refused"} : phase' = [phase EXCEPT ![m] = x]
      /\ \/ UNCHANGED answers
         \/ \E e \in BOOLEAN : answers' = [answers EXCEPT ![m] = {[err |-> e, fails |-> {}]}]
  BY DEF PushToNobody, PushToDestroyed, callerVars
<1>3. TypeOK'
  <2>1. phase' \in [Messages -> {"none", "sent", "refused"}]
    BY <1>1, <1>2 DEF TypeOK
  <2>2. answers' \in [Messages -> SUBSET [err : BOOLEAN, fails : SUBSET Users]]
    <3>1. answers \in [Messages -> SUBSET [err : BOOLEAN, fails : SUBSET Users]]
      BY <1>1 DEF TypeOK
    <3>2. CASE UNCHANGED answers
      BY <3>1, <3>2
    <3>3. ASSUME NEW e \in BOOLEAN, answers' = [answers EXCEPT ![m] = {[err |-> e, fails |-> {}]}]
          PROVE  answers' \in [Messages -> SUBSET [err : BOOLEAN, fails : SUBSET Users]]
      BY <3>1, <3>3
    <3> QED BY <1>2, <3>2, <3>3
  <2>3. Latch!TypeOK'
    BY <1>1, <1>2 DEF TypeOK, Latch!TypeOK, latchVars
  <2> QED BY <1>1, <1>2, <2>1, <2>2, <2>3 DEF TypeOK
<1>4. Awaited(m)' = Awaited(m) /\ Remaining(m)' = Remaining(m) /\ Taken(m)' = Taken(m)
  BY <1>2 DEF Awaited, Remaining, Taken
<1>5. MsgInv(m)'
  <2>1. Unmade(m)' /\ OneReply(m)' /\ SecondOf(m)'
    BY <1>1, <1>2 DEF MsgInv, Unmade, OneReply, SecondOf, latchVars
  <2>2. SentOnce(m)'
    BY <1>1, <1>2 DEF TypeOK, SentOnce, latchVars
  <2>3. AskedOf(m)' /\ LatchOf(m)'
    BY <1>1, <1>2, <1>4 DEF MsgInv, AskedOf, LatchOf, latchVars
  <2>4. Honest(m)'
    BY <1>1, <1>2, <1>4 DEF MsgInv, Honest, Scheduled
  <2>5. asked'[m] = {} /\ count'[m] = 0
    BY <1>1, <1>2 DEF latchVars
  <2>6. Told1(m)'
    BY <2>5 DEF Told1
  <2> QED BY <2>1, <2>2, <2>3, <2>4, <2>6 DEF MsgInv
<1>6. ASSUME NEW q \in Messages, q # m PROVE MsgInv(q)'
  BY <1>1, <1>2, <1>6, OtherMessage DEF IInv, TypeOK, latchVars
<1> QED BY <1>3, <1>5, <1>6 DEF IInv

\* Whatever there was of f, its request or an answer, becomes the answer x.
LEMMA StepReply ==
    ASSUME IInv, NEW m \in Messages, NEW f \in Awaited(m), NEW x \in Reply,
           x.from = f, f # Here, ~x.err => f \notin broken[m],
           NEW gets \in SUBSET (Servers \X Users),
           inbox' = [inbox EXCEPT ![m] = @ \ {f}],
           replies' = [replies EXCEPT ![m] = {r \in @ : r.from # f} \cup {x}],
           broken' = [broken EXCEPT ![m] = @ \cup FailedBy(x)],
           got' = [got EXCEPT ![m] = @ \cup gets],
           x.err \/ m \in broadcasts \/ {f} \X (groups[m][f] \ x.fails) \subseteq gets,
           UNCHANGED <<online, callVars, callerVars, latchVars>>
    PROVE  IInv'
<1>1. /\ TypeOK /\ MsgInv(m)
      /\ UNCHANGED online /\ UNCHANGED phase /\ UNCHANGED broadcasts /\ UNCHANGED groups
      /\ UNCHANGED asked /\ UNCHANGED twice /\ UNCHANGED again
      /\ UNCHANGED success /\ UNCHANGED fails /\ UNCHANGED answers
      /\ UNCHANGED made /\ UNCHANGED count /\ UNCHANGED timer /\ UNCHANGED calls /\ UNCHANGED late
  BY DEF IInv, callVars, callerVars, latchVars
<1>2. \A q \in Messages : q # m => /\ inbox'[q] = inbox[q] /\ replies'[q] = replies[q]
                                   /\ got'[q] = got[q] /\ broken'[q] = broken[q]
  BY <1>1 DEF TypeOK
<1>3. /\ inbox'[m] = inbox[m] \ {f}
      /\ replies'[m] = {r \in replies[m] : r.from # f} \cup {x}
      /\ broken'[m] = broken[m] \cup (IF x.err THEN {f} ELSE {})
      /\ got'[m] = got[m] \cup gets
  BY <1>1 DEF TypeOK, FailedBy
<1>4. TypeOK'
  <2>1. inbox' \in [Messages -> SUBSET Servers]
    BY <1>1 DEF TypeOK
  <2>2. replies' \in [Messages -> SUBSET Reply]
    <3>1. {r \in replies[m] : r.from # f} \cup {x} \in SUBSET Reply
      BY <1>1 DEF TypeOK
    <3> QED BY <1>1, <3>1 DEF TypeOK
  <2>3. got' \in [Messages -> SUBSET (Servers \X Users)]
    <3> DEFINE Pairs == Servers \X Users
    <3>1. got \in [Messages -> SUBSET Pairs] /\ gets \in SUBSET Pairs
      BY <1>1 DEF TypeOK
    <3> HIDE DEF Pairs
    <3>2. got' \in [Messages -> SUBSET Pairs]
      BY <3>1
    <3> QED BY <3>2 DEF Pairs
  <2>4. Latch!TypeOK'
    BY <1>1 DEF TypeOK, Latch!TypeOK
  <2>5. broken' \in [Messages -> SUBSET Servers]
    <3>1. broken \in [Messages -> SUBSET Servers] /\ FailedBy(x) \in SUBSET Servers
      BY <1>1 DEF TypeOK, FailedBy, Reply
    <3> QED BY <3>1
  <2> QED BY <1>1, <2>1, <2>2, <2>3, <2>4, <2>5 DEF TypeOK
<1>5. Awaited(m)' = Awaited(m)
  BY <1>3 DEF Awaited
<1>6. Remaining(m)' = Remaining(m) /\ Taken(m)' = Taken(m) /\ f \notin Taken(m)
  BY <1>1, <1>5 DEF Remaining, Taken
<1>7. OneReply(m)'
  <2>1. /\ Here \notin inbox'[m] /\ \A r \in replies'[m] : r.from \notin inbox'[m]
        /\ \A r, q \in replies'[m] : r.from = q.from => r = q
    BY <1>1, <1>3 DEF MsgInv, OneReply
  <2>2. \A q \in replies'[m] : q.from = Here => q \in replies[m]
    BY <1>3
  <2> QED BY <1>1, <2>1, <2>2 DEF MsgInv, OneReply
<1>8. AskedOf(m)'
  <2>1. f \in asked[m]
    BY <1>1 DEF MsgInv, AskedOf
  <2>2. \A r \in replies'[m] : r.err <=> r.from \in broken'[m]
    BY <1>1, <1>3 DEF MsgInv, AskedOf, Reply
  <2> QED BY <1>1, <1>3, <1>5, <2>1, <2>2 DEF MsgInv, AskedOf
<1>9. SecondOf(m)' /\ LatchOf(m)' /\ SentOnce(m)'
  BY <1>1, <1>6 DEF MsgInv, SecondOf, LatchOf, SentOnce
<1>10. \A g, us : Scheduled(m, g, us) => Scheduled(m, g, us)'
  BY <1>1, <1>3 DEF Scheduled
<1>11. Honest(m)'
  <2>1. \A g \in Taken(m) : g \in broken'[m] <=> g \in broken[m]
    BY <1>3, <1>6
  <2>2. x.err \/ Scheduled(m, f, x.fails)'
    BY <1>1, <1>3 DEF Scheduled
  <2>3. \A r \in replies'[m] : r = x \/ r \in replies[m]
    BY <1>3
  <2> QED BY <1>1, <1>6, <1>10, <2>1, <2>2, <2>3 DEF MsgInv, Honest
<1>12. Told1(m)'
  <2> SUFFICES ASSUME NEW a \in answers[m], count[m] = 0
               PROVE  (a.err => asked[m] \subseteq broken'[m]) /\ (~a.err => m \in twice)
    BY <1>1 DEF MsgInv, Told1
  <2>1. Remaining(m) > 0 /\ Remaining(m) \in Nat
    BY <1>1, RemainingCount DEF MsgInv
  <2>2. m \in twice
    BY <1>1, <2>1 DEF MsgInv, LatchOf
  <2> QED BY <1>1, <1>3, <2>2 DEF MsgInv, Told1
<1>13. Unmade(m)'
  <2>1. m \in made
    BY <1>1 DEF MsgInv, Unmade, Awaited
  <2> QED BY <1>1, <2>1 DEF Unmade
<1>14. MsgInv(m)'
  BY <1>7, <1>8, <1>9, <1>11, <1>12, <1>13 DEF MsgInv
<1>15. ASSUME NEW q \in Messages, q # m PROVE MsgInv(q)'
  BY <1>1, <1>2, <1>15, OtherMessage DEF IInv
<1> QED BY <1>4, <1>14, <1>15 DEF IInv

\* The caller takes a callback, the first of a server or the second of Here.
LEMMA StepAnswer ==
    ASSUME IInv, NEW m \in Messages, NEW r \in Due(m), RpcCB(m, r)
    PROVE  IInv'
<1>1. /\ TypeOK /\ MsgInv(m) /\ m \in made /\ phase[m] = "sent"
      /\ r \in replies[m] \/ (r \in again[m] /\ \A q \in replies[m] : q.from # Here)
      /\ UNCHANGED online /\ UNCHANGED phase /\ UNCHANGED broadcasts /\ UNCHANGED groups
      /\ UNCHANGED asked /\ UNCHANGED twice /\ UNCHANGED broken
      /\ UNCHANGED inbox /\ UNCHANGED got /\ UNCHANGED made /\ UNCHANGED late
  <2>1. r \in replies[m] \/ (r \in again[m] /\ \A q \in replies[m] : q.from # Here)
    BY DEF Due
  <2>2. m \in made
    BY <2>1 DEF IInv, MsgInv, Unmade
  <2> QED BY <2>1, <2>2 DEF IInv, MsgInv, SentOnce, RpcCB, CountDown, Latch!Done, latchVars
<1>2. r \in Reply /\ r.from \in Servers /\ r.err \in BOOLEAN /\ r.fails \in SUBSET Users
  BY <1>1, ReplyTypes
<1>3. /\ replies' = [replies EXCEPT ![m] = @ \ {r}] /\ again' = [again EXCEPT ![m] = @ \ {r}]
      /\ \/ r.err /\ success' = success /\ fails' = fails
         \/ /\ ~r.err
            /\ success' = [success EXCEPT ![m] = TRUE]
            /\ fails' = [fails EXCEPT ![m] = @ \cup r.fails]
      /\ answers' = IF calls'[m] # calls[m] THEN [answers EXCEPT ![m] = @ \cup {Told(m)}]
                                            ELSE answers
  BY DEF RpcCB, CountDown
<1>4. count[m] \in Nat /\ calls[m] \in Nat
  BY <1>1 DEF TypeOK, Latch!TypeOK
<1>5. /\ count' = IF count[m] > 0 THEN [count EXCEPT ![m] = @ - 1] ELSE count
      /\ calls' = IF count[m] = 1 THEN [calls EXCEPT ![m] = @ + 1] ELSE calls
      /\ timer' = timer \/ (\E t \in {"none", "set", "over"} : timer' = [timer EXCEPT ![m] = t])
  BY <1>1, <1>4 DEF RpcCB, CountDown, Latch!Done, latchVars, TypeOK, Latch!TypeOK
<1>6. /\ success' \in [Messages -> BOOLEAN] /\ fails' \in [Messages -> SUBSET Users]
      /\ replies' \in [Messages -> SUBSET Reply] /\ again' \in [Messages -> SUBSET Reply]
  <2>1. replies' \in [Messages -> SUBSET Reply] /\ again' \in [Messages -> SUBSET Reply]
    BY <1>1, <1>3 DEF TypeOK
  <2>2. success' \in [Messages -> BOOLEAN]
    BY <1>1, <1>3 DEF TypeOK
  <2>3. fails' \in [Messages -> SUBSET Users]
    <3>1. fails \in [Messages -> SUBSET Users] /\ fails[m] \cup r.fails \in SUBSET Users
      BY <1>1, <1>2 DEF TypeOK
    <3>2. fails' = fails \/ fails' = [fails EXCEPT ![m] = fails[m] \cup r.fails]
      BY <1>3
    <3> QED BY <3>1, <3>2
  <2> QED BY <2>1, <2>2, <2>3
<1>7. Latch!TypeOK'
  <2>1. count' \in [Messages -> Nat]
    BY <1>1, <1>4, <1>5 DEF TypeOK, Latch!TypeOK
  <2>2. calls' \in [Messages -> Nat]
    BY <1>1, <1>4, <1>5 DEF TypeOK, Latch!TypeOK
  <2>3. timer' \in [Messages -> {"none", "set", "over"}]
    BY <1>1, <1>5 DEF TypeOK, Latch!TypeOK
  <2> QED BY <1>1, <2>1, <2>2, <2>3 DEF TypeOK, Latch!TypeOK
<1>8. PICK told \in [err : BOOLEAN, fails : SUBSET Users] : told = Told(m)
  <2>1. fails'[m] \in SUBSET Users /\ {} \in SUBSET Users
    BY <1>6
  <2>2. CASE success'[m]
    BY <2>1, <2>2 DEF Told
  <2>3. CASE ~success'[m]
    BY <2>1, <2>3 DEF Told
  <2> QED BY <2>2, <2>3
<1>9. TypeOK'
  <2>1. answers' \in [Messages -> SUBSET [err : BOOLEAN, fails : SUBSET Users]]
    BY <1>1, <1>3, <1>8 DEF TypeOK
  <2> QED BY <1>1, <1>6, <1>7, <2>1 DEF TypeOK
<1>10. /\ replies'[m] = replies[m] \ {r} /\ again'[m] = again[m] \ {r}
       /\ count'[m] = IF count[m] > 0 THEN count[m] - 1 ELSE count[m]
       /\ calls'[m] = IF count[m] = 1 THEN calls[m] + 1 ELSE calls[m]
       /\ success'[m] = (IF r.err THEN success[m] ELSE TRUE)
       /\ fails'[m] = (IF r.err THEN fails[m] ELSE fails[m] \cup r.fails)
  <2>1. replies'[m] = replies[m] \ {r} /\ again'[m] = again[m] \ {r}
    BY <1>1, <1>3 DEF TypeOK
  <2>2. count'[m] = IF count[m] > 0 THEN count[m] - 1 ELSE count[m]
    BY <1>1, <1>5 DEF TypeOK, Latch!TypeOK
  <2>3. calls'[m] = IF count[m] = 1 THEN calls[m] + 1 ELSE calls[m]
    BY <1>1, <1>5 DEF TypeOK, Latch!TypeOK
  <2>4. /\ success'[m] = (IF r.err THEN success[m] ELSE TRUE)
        /\ fails'[m] = (IF r.err THEN fails[m] ELSE fails[m] \cup r.fails)
    BY <1>1, <1>3 DEF TypeOK
  <2> QED BY <2>1, <2>2, <2>3, <2>4
<1>11. answers'[m] = IF calls'[m] # calls[m] THEN answers[m] \cup {told} ELSE answers[m]
  <2>1. DOMAIN answers = Messages
    BY <1>1 DEF TypeOK
  <2>2. answers' = IF calls'[m] # calls[m] THEN [answers EXCEPT ![m] = @ \cup {told}] ELSE answers
    BY <1>3, <1>8
  <2>3. CASE calls'[m] # calls[m]
    BY <2>1, <2>2, <2>3
  <2>4. CASE calls'[m] = calls[m]
    BY <2>1, <2>2, <2>4
  <2> QED BY <2>3, <2>4
\* One callback less to come.
<1>12. OneReply(m) /\ OneReply(m)'
  BY <1>1, <1>10 DEF MsgInv, OneReply
<1>13. /\ r \in replies[m] => /\ r.from \in Awaited(m) /\ Awaited(m)' = Awaited(m) \ {r.from}
                              /\ again'[m] = again[m]
       /\ r \notin replies[m] => /\ Awaited(m)' = Awaited(m) /\ again'[m] = {} /\ again[m] # {}
                                 /\ ~r.err /\ m \in twice
  <2>1. CASE r \in replies[m]
    <3>1. r.from \in Awaited(m) /\ Awaited(m)' = Awaited(m) \ {r.from}
      BY <1>1, <1>10, <1>12, <2>1 DEF OneReply, Awaited
    <3>2. r \notin again[m]
      BY <1>12, <2>1 DEF OneReply
    <3> QED BY <1>10, <2>1, <3>1, <3>2
  <2>2. CASE r \notin replies[m]
    <3>1. again'[m] = {} /\ ~r.err /\ again[m] # {}
      BY <1>1, <1>10, <1>12, <2>2 DEF OneReply
    <3>2. Awaited(m)' = Awaited(m)
      BY <1>1, <1>10, <2>2 DEF Awaited
    <3>3. m \in twice
      BY <1>1, <3>1 DEF MsgInv, SecondOf
    <3> QED BY <2>2, <3>1, <3>2, <3>3
  <2> QED BY <2>1, <2>2
<1>14. /\ Remaining(m) \in Nat /\ Remaining(m)' \in Nat
       /\ Remaining(m)' = Remaining(m) - 1
  <2>1. /\ Remaining(m) = Cardinality(Awaited(m)) + (IF again[m] = {} THEN 0 ELSE 1)
        /\ Cardinality(Awaited(m)) \in Nat /\ IsFiniteSet(Awaited(m))
    BY <1>1, <1>12, RemainingCount, AwaitedFinite
  <2>2. Remaining(m)' = Cardinality(Awaited(m)') + Cardinality(again'[m])
    BY DEF Remaining
  <2>3. Cardinality(again'[m]) = IF again'[m] = {} THEN 0 ELSE 1
    BY <1>12, OneOrNone DEF OneReply
  <2>4. CASE r \in replies[m]
    <3>1. Cardinality(Awaited(m) \ {r.from}) = Cardinality(Awaited(m)) - 1
      BY <1>13, <2>1, <2>4, FS_RemoveElement
    <3>2. Cardinality(Awaited(m)) > 0
      BY <1>1, <1>13, <2>1, <2>4, AwaitedFinite
    <3>3. /\ Cardinality(Awaited(m)') = Cardinality(Awaited(m)) - 1
          /\ Cardinality(again'[m]) = IF again[m] = {} THEN 0 ELSE 1
      BY <1>13, <2>3, <2>4, <3>1
    <3> HIDE DEF Remaining, Awaited
    <3> QED BY <2>1, <2>2, <3>2, <3>3
  <2>5. CASE r \notin replies[m]
    BY <1>13, <2>1, <2>2, <2>3, <2>5
  <2> QED BY <2>4, <2>5
<1>15. LatchOf(m)'
  BY <1>1, <1>4, <1>10, <1>14 DEF MsgInv, LatchOf
<1>16. SecondOf(m)'
  BY <1>1, <1>10, <1>13 DEF MsgInv, SecondOf
<1>17. AskedOf(m)'
  <2>1. Awaited(m)' \subseteq Awaited(m)
    BY <1>13
  <2> QED BY <1>1, <1>10, <2>1 DEF MsgInv, AskedOf
<1>18. Honest(m)'
  <2>1. \A g, us, vs : Scheduled(m, g, us) /\ us \subseteq vs => Scheduled(m, g, vs)'
    BY <1>1 DEF Scheduled
  <2>2. fails[m] \subseteq fails'[m]
    BY <1>10
  <2>3. \A q \in replies'[m] : ~q.err => Scheduled(m, q.from, q.fails)'
    BY <1>1, <1>10, <2>1 DEF MsgInv, Honest
  <2>4. CASE r \notin replies[m]
    <3>1. Taken(m)' = Taken(m) /\ success'[m] = TRUE /\ m \in twice'
      BY <1>1, <1>10, <1>13, <2>4 DEF Taken
    <3> QED BY <1>1, <2>1, <2>2, <2>3, <3>1 DEF MsgInv, Honest
  <2>5. CASE r \in replies[m]
    <3>1. /\ Taken(m)' = Taken(m) \cup {r.from} /\ r.from \notin Taken(m)
          /\ r.err <=> r.from \in broken[m]
      BY <1>1, <1>13, <2>5 DEF MsgInv, AskedOf, Taken
    <3>2. ~r.err => Scheduled(m, r.from, fails[m] \cup r.fails)'
      BY <1>1, <2>1, <2>5 DEF MsgInv, Honest
    <3>3. CASE r.err
      BY <1>1, <1>10, <2>1, <2>2, <2>3, <3>1, <3>3 DEF MsgInv, Honest
    <3>4. CASE ~r.err
      BY <1>1, <1>10, <2>1, <2>2, <2>3, <3>1, <3>2, <3>4 DEF MsgInv, Honest
    <3> QED BY <3>3, <3>4
  <2> QED BY <2>4, <2>5
<1>19. Told1(m)'
  <2>1. CASE calls'[m] = calls[m]
    <3>1. answers'[m] = answers[m]
      BY <1>11, <2>1
    <3>2. count[m] = 0 => count'[m] = 0
      BY <1>10
    <3>3. \A f, us : Scheduled(m, f, us)' <=> Scheduled(m, f, us)
      BY <1>1 DEF Scheduled
    <3> QED BY <1>1, <3>1, <3>2, <3>3 DEF MsgInv, Told1
  <2>2. CASE calls'[m] # calls[m]
    <3>1. count[m] = 1 /\ count'[m] = 0
      BY <1>4, <1>10, <2>2
    <3>2. answers'[m] = {told}
      BY <1>1, <1>11, <2>2, <3>1 DEF MsgInv, Told1
    <3>3. told.err = ~success'[m] /\ (success'[m] => told.fails = fails'[m])
      BY <1>8 DEF Told
    <3>4. (~success'[m] \/ m \notin twice) => Awaited(m)' = {}
      <4>1. /\ Cardinality(Awaited(m)') \in Nat
            /\ Cardinality(Awaited(m)') = 0 <=> Awaited(m)' = {}
        BY <1>1, <1>13, AwaitedFinite, FS_RemoveElement, FS_EmptySet, FS_CardinalityType
      <4>2. Cardinality(again'[m]) = IF again'[m] = {} THEN 0 ELSE 1
        BY <1>12, OneOrNone DEF OneReply
      <4>3. Remaining(m)' = Cardinality(Awaited(m)') + (IF again'[m] = {} THEN 0 ELSE 1)
        BY <4>2 DEF Remaining
      <4>4. m \notin twice => Remaining(m)' = 0
        BY <1>1, <1>14, <1>15, <3>1 DEF LatchOf
      <4>5. m \in twice => Remaining(m)' <= 1
        BY <1>1, <1>14, <1>15, <3>1 DEF LatchOf
      <4>6. m \in twice /\ ~success'[m] => again'[m] # {}
        BY <1>1, <1>16 DEF SecondOf
      <4> QED BY <4>1, <4>3, <4>4, <4>5, <4>6
    <3>5. Awaited(m)' = {} => Taken(m)' = asked'[m]
      BY DEF Taken
    <3>6. told.err => asked'[m] \subseteq broken'[m]
      BY <1>18, <3>3, <3>4, <3>5 DEF Honest
    <3>7. ~told.err /\ m \notin twice' =>
             /\ ~(asked'[m] \subseteq broken'[m])
             /\ \A f \in asked'[m] \ broken'[m] : Scheduled(m, f, told.fails)'
      BY <1>1, <1>18, <3>3, <3>4, <3>5 DEF Honest
    <3> QED BY <3>1, <3>2, <3>6, <3>7 DEF Told1
  <2> QED BY <2>1, <2>2
<1>20. MsgInv(m)'
  BY <1>1, <1>12, <1>15, <1>16, <1>17, <1>18, <1>19 DEF MsgInv, Unmade, SentOnce
<1>21. ASSUME NEW q \in Messages, q # m PROVE MsgInv(q)'
  <2>1. /\ replies'[q] = replies[q] /\ success'[q] = success[q] /\ fails'[q] = fails[q]
        /\ again'[q] = again[q] /\ answers'[q] = answers[q] /\ count'[q] = count[q]
        /\ calls'[q] = calls[q]
    BY <1>1, <1>3, <1>5, <1>21 DEF TypeOK, Latch!TypeOK
  <2> QED BY <1>1, <1>21, <2>1, OtherMessage DEF IInv
<1> QED BY <1>9, <1>20, <1>21 DEF IInv

LEMMA StepIInv == ASSUME IInv, [Next]_vars PROVE IInv'
<1>1. ASSUME NEW f \in Servers, NEW u \in Users, Login(f, u) \/ Logout(f, u) PROVE IInv'
  BY <1>1, StepClients
<1>2. ASSUME NEW m \in Messages, PushMessage(m) PROVE IInv'
  <2>1. PICK G \in [Servers -> SUBSET Users] : Dispatch(m, {f \in Servers : G[f] # {}}, G, G)
    BY <1>2 DEF PushMessage
  <2>2. UNCHANGED broadcasts /\ {f \in Servers : G[f] # {}} \in SUBSET Servers
    BY <1>2 DEF PushMessage
  <2> QED BY <2>1, <2>2, StepDispatch
<1>3. ASSUME NEW m \in Messages, NEW F \in SUBSET Servers, Broadcast(m, F) PROVE IInv'
  <2>1. /\ [f \in Servers |-> Users] \in [Servers -> SUBSET Users]
        /\ [f \in Servers |-> {}] \in [Servers -> SUBSET Users]
    OBVIOUS
  <2> QED BY <1>3, <2>1, StepDispatch DEF Broadcast
<1>4. ASSUME NEW m \in Messages, PushToNobody(m) \/ PushToDestroyed(m) PROVE IInv'
  BY <1>4, StepNobody
<1>5. ASSUME NEW m \in Messages, NEW f \in Servers, f \in inbox[m]
      PROVE  /\ f \in Awaited(m) /\ {r \in replies[m] : r.from # f} = replies[m]
             /\ f # Here /\ f \notin broken[m]
  BY <1>5 DEF IInv, MsgInv, OneReply, AskedOf, Awaited
<1>6. ASSUME NEW m \in Messages, NEW f \in Servers, Handle(m, f) PROVE IInv'
  <2>1. /\ f \in inbox[m] /\ inbox' = [inbox EXCEPT ![m] = @ \ {f}]
        /\ UNCHANGED <<online, callVars, callerVars, latchVars>>
    BY <1>6 DEF Handle
  <2>2. PICK s \in Serve(f, groups[m][f], Named(m, f)) :
            /\ got' = [got EXCEPT ![m] = @ \cup s.got]
            /\ replies' = [replies EXCEPT ![m] = @ \cup {s.first}]
            /\ broken' = [broken EXCEPT ![m] = @ \cup FailedBy(s.first)]
    BY <1>6 DEF Handle
  <2>3. groups[m][f] \in SUBSET Users /\ Named(m, f) \in SUBSET Users
    BY DEF IInv, TypeOK, Named
  <2>4. /\ s.first \in Reply /\ s.first.from = f /\ s.got \subseteq {f} \X groups[m][f]
        /\ ~s.first.err /\ Named(m, f) = groups[m][f] =>
              {f} \X (groups[m][f] \ s.first.fails) \subseteq s.got
    BY <2>3, ServeOnce
  <2>5. PICK x \in Reply : x = s.first
    BY <2>4
  <2>6. PICK gets \in SUBSET (Servers \X Users) : gets = s.got
    BY <2>3, <2>4
  <2>7. replies' = [replies EXCEPT ![m] = {r \in @ : r.from # f} \cup {x}]
    BY <1>5, <2>1, <2>2, <2>5
  <2>8. x.err \/ m \in broadcasts \/ {f} \X (groups[m][f] \ x.fails) \subseteq gets
    BY <2>4, <2>5, <2>6 DEF Named, Reply
  <2>9. /\ got' = [got EXCEPT ![m] = @ \cup gets] /\ x.from = f
        /\ broken' = [broken EXCEPT ![m] = @ \cup FailedBy(x)]
    BY <2>2, <2>4, <2>5, <2>6
  <2>10. f \in Awaited(m) /\ f # Here /\ f \notin broken[m]
    BY <1>5, <2>1
  <2> QED BY <2>1, <2>7, <2>8, <2>9, <2>10, StepReply
<1>7. ASSUME NEW m \in Messages, NEW f \in Awaited(m), f # Here,
             inbox' = [inbox EXCEPT ![m] = @ \ {f}],
             replies' = [replies EXCEPT ![m] = {r \in @ : r.from # f} \cup {RpcError(f)}],
             broken' = [broken EXCEPT ![m] = @ \cup {f}],
             UNCHANGED <<online, callVars, got, callerVars, latchVars>>
      PROVE  IInv'
  <2>1. f \in Servers
    BY AwaitedFinite DEF IInv
  <2>2. /\ RpcError(f) \in Reply /\ RpcError(f).from = f /\ RpcError(f).err
        /\ FailedBy(RpcError(f)) = {f}
    BY <2>1 DEF RpcError, Reply, FailedBy
  <2>3. PICK x \in Reply : x = RpcError(f)
    BY <2>2
  <2>4. /\ replies' = [replies EXCEPT ![m] = {r \in @ : r.from # f} \cup {x}]
        /\ broken' = [broken EXCEPT ![m] = @ \cup FailedBy(x)]
    BY <1>7, <2>2, <2>3
  <2>5. got' = [got EXCEPT ![m] = @ \cup {}] /\ {} \in SUBSET (Servers \X Users)
    BY <1>7 DEF IInv, TypeOK
  <2> QED BY <1>7, <2>2, <2>3, <2>4, <2>5, StepReply
<1>8. ASSUME NEW m \in Messages, NEW f \in Servers, RequestLost(m, f) PROVE IInv'
  <2>1. replies' = [replies EXCEPT ![m] = {r \in @ : r.from # f} \cup {RpcError(f)}]
    BY <1>5, <1>8 DEF RequestLost
  <2> QED BY <1>5, <1>7, <1>8, <2>1 DEF RequestLost
<1>9. ASSUME NEW m \in Messages, ReplyLost(m) PROVE IInv'
  <2>1. PICK r \in replies[m] :
            /\ r.from # Here
            /\ replies' = [replies EXCEPT ![m] = (@ \ {r}) \cup {RpcError(r.from)}]
            /\ broken' = [broken EXCEPT ![m] = @ \cup {r.from}]
            /\ UNCHANGED <<online, callVars, inbox, got, callerVars, latchVars>>
    BY <1>9 DEF ReplyLost
  <2>2. r.from \in Awaited(m)
    BY DEF Awaited
  <2>3. /\ inbox[m] \ {r.from} = inbox[m]
        /\ {q \in replies[m] : q.from # r.from} = replies[m] \ {r}
    BY DEF IInv, MsgInv, OneReply
  <2>4. /\ inbox' = [inbox EXCEPT ![m] = @ \ {r.from}]
        /\ replies' = [replies EXCEPT ![m] = {q \in @ : q.from # r.from} \cup {RpcError(r.from)}]
    BY <2>1, <2>3 DEF IInv, TypeOK
  <2> QED BY <1>7, <2>1, <2>2, <2>4
<1>10. ASSUME NEW m \in Messages, Answer(m) PROVE IInv'
  BY <1>10, StepAnswer DEF Answer
<1>11. CASE UNCHANGED vars
  <2>1. TypeOK'
    BY <1>11 DEF IInv, TypeOK, Latch!TypeOK, vars
  <2> QED BY <1>11, <2>1, OtherMessage DEF IInv, vars
<1> QED BY <1>1, <1>2, <1>3, <1>4, <1>6, <1>8, <1>9, <1>10, <1>11 DEF Next

-----------------------------------------------------------------------------
(* The theorems *)

LEMMA PushInvariant == Spec => []IInv
<1>1. Init => IInv
  BY InitIInv
<1>2. IInv /\ [Next]_vars => IInv'
  BY StepIInv
<1> QED BY <1>1, <1>2, PTL DEF Spec

\* The variables of a push have their types: its latch never counts below zero.
THEOREM PushTypesCorrect == Spec => []TypeOK
<1>1. IInv => TypeOK
  BY DEF IInv
<1> QED BY <1>1, PushInvariant, PTL

\* The latch of a message counts the callbacks to come, and one less if Here
\* calls back twice: no latch waits for nobody, and only such a second callback
\* can find the latch down.
THEOREM LatchCountsServersCorrect == Spec => []LatchCountsServers
<1>1. IInv => LatchCountsServers
  BY DEF IInv, MsgInv, LatchOf, LatchCountsServers
<1> QED BY <1>1, PushInvariant, PTL

\* Whatever fails and whoever refuses, cb is called at most once for a message,
\* after every server it went to has answered or failed; one callback may be
\* missing if Here calls back twice.
THEOREM AnsweredAfterAllCorrect == Spec => []AnsweredAfterAll
<1>1. IInv => AnsweredAfterAll
  <2> SUFFICES ASSUME IInv, NEW m \in Messages
               PROVE  /\ calls[m] <= 1
                      /\ calls[m] > 0 => Remaining(m) <= IF m \in twice THEN 1 ELSE 0
    BY DEF AnsweredAfterAll
  <2>1. Remaining(m) \in Nat
    BY RemainingCount DEF IInv, MsgInv
  <2> QED BY <2>1 DEF IInv, MsgInv, LatchOf
<1> QED BY <1>1, PushInvariant, PTL

\* What cb is told is true: an error means that the RPC of every server failed,
\* no error (unless Here called back twice) that some did not, and that a user
\* of a server whose RPC did not fail had a push scheduled or is among the fails.
THEOREM AnswerIsTrueCorrect == Spec => []AnswerIsTrue
<1>1. IInv => AnswerIsTrue
  BY DEF IInv, MsgInv, Told1, Scheduled, AnswerIsTrue
<1> QED BY <1>1, PushInvariant, PTL

-----------------------------------------------------------------------------
(* The members of a channel, which share nothing with the pushes but the     *)
(* users and the servers                                                     *)

MemberTypes == /\ current \in Objects \cup {NoObject}
               /\ state \in [Objects -> {"none", "inited", "destroyed", "lost"}]
               /\ listed \in BOOLEAN
               /\ entries \in [Objects -> [Servers -> [Users -> Nat]]]
               /\ keys \in [Objects -> SUBSET Servers]
               /\ records \in [Objects -> [Users -> Servers \cup {NoServer}]]
               /\ stored \subseteq (Servers \cup {NoServer}) \X Users
               /\ unrestored \subseteq (Servers \cup {NoServer}) \X Users

\* An object has the groups of its entries, and its records are of members.
Grouped(o) ==
    /\ \A f \in Servers : f \in keys[o] <=> \E u \in Users : entries[o][f][u] > 0
    /\ \A u \in Users : records[o][u] # NoServer => entries[o][records[o][u]][u] > 0

\* An object that is not made yet has no members.
Untouched(o) == state[o] = "none" =>
    \A u \in Users : records[o][u] = NoServer /\ \A f \in Servers : entries[o][f][u] = 0

\* Nobody was added twice: a user has the entry his record speaks of and no other.
Single(o) == \A f \in Servers, u \in Users :
                entries[o][f][u] = IF records[o][u] = f THEN 1 ELSE 0

Kept == WithServer(stored)
Owed == WithServer(unrestored)

\* What a careful application finds in the store.
StoreInv == careful =>
    /\ listed = (current # NoObject)
    /\ current = NoObject => Kept = {} /\ Owed = {}
    /\ current # NoObject => Single(current) /\ Kept = Members(current) \cup Owed

MInv == MemberTypes /\ (\A o \in Objects : Grouped(o) /\ Untouched(o)) /\ StoreInv

LEMMA InMembers ==
    ASSUME NEW o, NEW f, NEW u
    PROVE  <<f, u>> \in Members(o) <=> f \in Servers /\ u \in Users /\ entries[o][f][u] > 0
BY DEF Members

\* One entry more or less changes no other.
Elsewhere(o, f, u) == \A p \in Objects, g \in Servers, v \in Users :
    (p # o \/ g # f \/ v # u) => entries'[p][g][v] = entries[p][g][v]
\* And only the record of its user.
Recorded(o, u, r) == /\ records'[o][u] = r
                     /\ \A p \in Objects, v \in Users :
                           (p # o \/ v # u) => records'[p][v] = records[p][v]

LEMMA EntryEffect ==
    ASSUME MemberTypes, NEW o \in Objects, NEW f \in Servers, NEW u \in Users, NEW n \in Nat,
           entries' = [entries EXCEPT ![o][f][u] = n]
    PROVE  /\ entries' \in [Objects -> [Servers -> [Users -> Nat]]]
           /\ entries'[o][f][u] = n /\ Elsewhere(o, f, u)
BY DEF MemberTypes, Elsewhere

LEMMA RecordEffect ==
    ASSUME MemberTypes, NEW o \in Objects, NEW u \in Users, NEW r \in Servers \cup {NoServer},
           records' = [records EXCEPT ![o][u] = r]
    PROVE  /\ records' \in [Objects -> [Users -> Servers \cup {NoServer}]]
           /\ Recorded(o, u, r)
BY DEF MemberTypes, Recorded

LEMMA EnterEffect ==
    ASSUME MemberTypes, NEW o \in Objects, NEW f \in Servers, NEW u \in Users, Enter(o, u, f)
    PROVE  /\ entries' \in [Objects -> [Servers -> [Users -> Nat]]]
           /\ entries[o][f][u] \in Nat /\ entries'[o][f][u] = entries[o][f][u] + 1
           /\ Elsewhere(o, f, u)
           /\ records' \in [Objects -> [Users -> Servers \cup {NoServer}]] /\ Recorded(o, u, f)
           /\ keys' \in [Objects -> SUBSET Servers] /\ keys'[o] = keys[o] \cup {f}
           /\ \A p \in Objects \ {o} : keys'[p] = keys[p]
<1>1. PICK n \in Nat : n = entries[o][f][u]
  BY DEF MemberTypes
<1>2. entries' = [entries EXCEPT ![o][f][u] = n + 1] /\ n + 1 \in Nat
  BY <1>1 DEF Enter
<1>3. /\ entries' \in [Objects -> [Servers -> [Users -> Nat]]]
      /\ entries'[o][f][u] = n + 1 /\ Elsewhere(o, f, u)
  BY <1>2, EntryEffect
<1>4. records' = [records EXCEPT ![o][u] = f]
  BY DEF Enter
<1>5. records' \in [Objects -> [Users -> Servers \cup {NoServer}]] /\ Recorded(o, u, f)
  BY <1>4, RecordEffect
<1>6. /\ keys' \in [Objects -> SUBSET Servers] /\ keys'[o] = keys[o] \cup {f}
      /\ \A p \in Objects \ {o} : keys'[p] = keys[p]
  BY DEF Enter, MemberTypes
<1> QED
  BY <1>1, <1>3, <1>5, <1>6

LEMMA ExitEffect ==
    ASSUME MemberTypes, NEW o \in Objects, NEW f \in Servers, NEW u \in Users, Exit(o, u, f),
           entries[o][f][u] > 0
    PROVE  /\ entries' \in [Objects -> [Servers -> [Users -> Nat]]]
           /\ entries[o][f][u] \in Nat /\ entries'[o][f][u] = entries[o][f][u] - 1
           /\ Elsewhere(o, f, u)
           /\ records' \in [Objects -> [Users -> Servers \cup {NoServer}]]
           /\ Recorded(o, u, NoServer)
           /\ keys' \in [Objects -> SUBSET Servers]
           /\ keys'[o] = IF \E v \in Users : entries'[o][f][v] > 0 THEN keys[o] ELSE keys[o] \ {f}
           /\ \A p \in Objects \ {o} : keys'[p] = keys[p]
<1>1. PICK n \in Nat : n = entries[o][f][u]
  BY DEF MemberTypes
<1>2. entries' = [entries EXCEPT ![o][f][u] = n - 1] /\ n - 1 \in Nat
  BY <1>1 DEF Exit
<1>3. /\ entries' \in [Objects -> [Servers -> [Users -> Nat]]]
      /\ entries'[o][f][u] = n - 1 /\ Elsewhere(o, f, u)
  BY <1>2, EntryEffect
<1>4. records' = [records EXCEPT ![o][u] = NoServer]
  BY DEF Exit
<1>5. records' \in [Objects -> [Users -> Servers \cup {NoServer}]] /\ Recorded(o, u, NoServer)
  BY <1>4, RecordEffect
<1>6. PICK some \in BOOLEAN : some = \E v \in Users : entries'[o][f][v] > 0
  OBVIOUS
<1>7. keys' = [keys EXCEPT ![o] = IF some THEN keys[o] ELSE keys[o] \ {f}]
  BY <1>6 DEF Exit
<1>8. /\ keys' \in [Objects -> SUBSET Servers]
      /\ keys'[o] = IF some THEN keys[o] ELSE keys[o] \ {f}
      /\ \A p \in Objects \ {o} : keys'[p] = keys[p]
  BY <1>7 DEF MemberTypes
<1> QED
  BY <1>1, <1>3, <1>5, <1>6, <1>8

LEMMA EnterGrouped ==
    ASSUME MemberTypes, NEW o \in Objects, NEW f \in Servers, NEW u \in Users,
           Enter(o, u, f), \A p \in Objects : Grouped(p), NEW p \in Objects
    PROVE  Grouped(p)'
<1>1. /\ entries[o][f][u] \in Nat /\ entries'[o][f][u] = entries[o][f][u] + 1
      /\ Elsewhere(o, f, u) /\ Recorded(o, u, f)
      /\ keys'[o] = keys[o] \cup {f} /\ \A q \in Objects \ {o} : keys'[q] = keys[q]
  BY EnterEffect
<1>2. entries'[o][f][u] > 0
  BY <1>1
<1>3. \A g \in Servers, v \in Users : entries[p][g][v] > 0 => entries'[p][g][v] > 0
  BY <1>1, <1>2 DEF Elsewhere
<1>4. \A g \in Servers : g \in keys'[p] <=> \E v \in Users : entries'[p][g][v] > 0
  <2> SUFFICES ASSUME NEW g \in Servers
               PROVE  g \in keys'[p] <=> \E v \in Users : entries'[p][g][v] > 0
    OBVIOUS
  <2>1. CASE p = o /\ g = f
    BY <1>1, <1>2, <2>1
  <2>2. CASE ~(p = o /\ g = f)
    BY <1>1, <2>2 DEF Elsewhere, Grouped
  <2> QED
    BY <2>1, <2>2
<1>5. \A v \in Users : records'[p][v] # NoServer => entries'[p][records'[p][v]][v] > 0
  <2> SUFFICES ASSUME NEW v \in Users, records'[p][v] # NoServer
               PROVE  entries'[p][records'[p][v]][v] > 0
    OBVIOUS
  <2>1. CASE p = o /\ v = u
    BY <1>1, <1>2, <2>1 DEF Recorded
  <2>2. CASE ~(p = o /\ v = u)
    <3>1. records'[p][v] = records[p][v] /\ records[p][v] \in Servers
      BY <1>1, <2>2 DEF Recorded, MemberTypes
    <3> QED
      BY <1>3, <3>1 DEF Grouped
  <2> QED
    BY <2>1, <2>2
<1> QED
  BY <1>4, <1>5 DEF Grouped

LEMMA ExitGrouped ==
    ASSUME MemberTypes, NEW o \in Objects, NEW f \in Servers, NEW u \in Users,
           Exit(o, u, f), entries[o][f][u] > 0, \A p \in Objects : Grouped(p), NEW p \in Objects
    PROVE  Grouped(p)'
<1>1. /\ Elsewhere(o, f, u) /\ Recorded(o, u, NoServer)
      /\ keys'[o] = IF \E v \in Users : entries'[o][f][v] > 0 THEN keys[o] ELSE keys[o] \ {f}
      /\ \A q \in Objects \ {o} : keys'[q] = keys[q]
  BY ExitEffect
<1>2. \A g \in Servers : g \in keys'[p] <=> \E v \in Users : entries'[p][g][v] > 0
  <2> SUFFICES ASSUME NEW g \in Servers
               PROVE  g \in keys'[p] <=> \E v \in Users : entries'[p][g][v] > 0
    OBVIOUS
  <2>1. CASE p = o /\ g = f
    <3>1. f \in keys[o]
      BY DEF Grouped
    <3> QED
      BY <1>1, <2>1, <3>1
  <2>2. CASE ~(p = o /\ g = f)
    BY <1>1, <2>2 DEF Elsewhere, Grouped
  <2> QED
    BY <2>1, <2>2
<1>3. \A v \in Users : records'[p][v] # NoServer => entries'[p][records'[p][v]][v] > 0
  <2> SUFFICES ASSUME NEW v \in Users, records'[p][v] # NoServer
               PROVE  entries'[p][records'[p][v]][v] > 0
    OBVIOUS
  <2>1. ~(p = o /\ v = u)
    BY <1>1 DEF Recorded
  <2>2. records'[p][v] = records[p][v] /\ records[p][v] \in Servers
    BY <1>1, <2>1 DEF Recorded, MemberTypes
  <2>3. entries'[p][records[p][v]][v] = entries[p][records[p][v]][v]
    BY <1>1, <2>1, <2>2 DEF Elsewhere
  <2> QED
    BY <2>2, <2>3 DEF Grouped
<1> QED
  BY <1>2, <1>3 DEF Grouped

\* One more entry and its record keep the members of a careful application single.
LEMMA EnterSingle ==
    ASSUME MemberTypes, NEW o \in Objects, NEW f \in Servers, NEW u \in Users,
           Enter(o, u, f), Single(o), records[o][u] = NoServer
    PROVE  /\ Single(o)'
           /\ \A m \in Servers \X Users : m \in Members(o)' <=> m \in Members(o) \/ m = <<f, u>>
<1>1. /\ entries[o][f][u] \in Nat /\ entries'[o][f][u] = entries[o][f][u] + 1
      /\ Elsewhere(o, f, u) /\ Recorded(o, u, f)
  BY EnterEffect
<1>2. NoServer \notin Servers
  BY ChannelAssumption
<1>3. \A g \in Servers : entries[o][g][u] = 0
  BY <1>2 DEF Single
<1>4. \A g \in Servers, v \in Users :
         entries'[o][g][v] = IF records'[o][v] = g THEN 1 ELSE 0
  <2> SUFFICES ASSUME NEW g \in Servers, NEW v \in Users
               PROVE  entries'[o][g][v] = IF records'[o][v] = g THEN 1 ELSE 0
    OBVIOUS
  <2>1. CASE v = u /\ g = f
    BY <1>1, <1>3, <2>1 DEF Recorded
  <2>2. CASE v = u /\ g # f
    BY <1>1, <1>3, <2>2 DEF Recorded, Elsewhere
  <2>3. CASE v # u
    BY <1>1, <2>3 DEF Recorded, Elsewhere, Single
  <2> QED
    BY <2>1, <2>2, <2>3
<1>5. ASSUME NEW g \in Servers, NEW v \in Users
      PROVE  entries'[o][g][v] > 0 <=> entries[o][g][v] > 0 \/ <<g, v>> = <<f, u>>
  <2>1. CASE v = u /\ g = f
    BY <1>1, <2>1
  <2>2. CASE ~(v = u /\ g = f)
    BY <1>1, <2>2 DEF Elsewhere
  <2> QED
    BY <2>1, <2>2
<1> QED
  BY <1>4, <1>5 DEF Single, Members

LEMMA ExitSingle ==
    ASSUME MemberTypes, NEW o \in Objects, NEW f \in Servers, NEW u \in Users,
           Exit(o, u, f), entries[o][f][u] > 0, Single(o)
    PROVE  /\ Single(o)'
           /\ \A m \in Servers \X Users : m \in Members(o)' <=> m \in Members(o) /\ m # <<f, u>>
<1>1. /\ entries'[o][f][u] = entries[o][f][u] - 1
      /\ Elsewhere(o, f, u) /\ Recorded(o, u, NoServer)
  BY ExitEffect
<1>2. NoServer \notin Servers
  BY ChannelAssumption
<1>3. records[o][u] = f /\ entries[o][f][u] = 1 /\ \A g \in Servers \ {f} : entries[o][g][u] = 0
  BY DEF Single
<1>4. \A g \in Servers, v \in Users :
         entries'[o][g][v] = IF records'[o][v] = g THEN 1 ELSE 0
  <2> SUFFICES ASSUME NEW g \in Servers, NEW v \in Users
               PROVE  entries'[o][g][v] = IF records'[o][v] = g THEN 1 ELSE 0
    OBVIOUS
  <2>1. CASE v = u /\ g = f
    BY <1>1, <1>2, <1>3, <2>1 DEF Recorded
  <2>2. CASE v = u /\ g # f
    BY <1>1, <1>2, <1>3, <2>2 DEF Recorded, Elsewhere
  <2>3. CASE v # u
    BY <1>1, <2>3 DEF Recorded, Elsewhere, Single
  <2> QED
    BY <2>1, <2>2, <2>3
<1>5. ASSUME NEW g \in Servers, NEW v \in Users
      PROVE  entries'[o][g][v] > 0 <=> entries[o][g][v] > 0 /\ <<g, v>> # <<f, u>>
  <2>1. CASE v = u /\ g = f
    BY <1>1, <1>3, <2>1
  <2>2. CASE ~(v = u /\ g = f)
    BY <1>1, <2>2 DEF Elsewhere
  <2> QED
    BY <2>1, <2>2
<1> QED
  BY <1>4, <1>5 DEF Single, Members

LEMMA AddKeeps ==
    ASSUME MInv, NEW o \in Objects, NEW f \in Servers, NEW u \in Users,
           Add(o, u, f)
    PROVE  MInv'
<1> USE DEF MInv
<1>1. /\ Enter(o, u, f) /\ stored' = stored \cup {<<f, u>>} /\ state[o] = "inited"
      /\ UNCHANGED <<current, state, listed, unrestored>>
      /\ careful' => careful /\ current = o /\ records[o][u] = NoServer
  BY DEF Add, Care
<1>2. MemberTypes'
  BY <1>1, EnterEffect DEF MemberTypes
<1>3. \A p \in Objects : Grouped(p)'
  BY <1>1, EnterGrouped
<1>4. \A p \in Objects : Untouched(p)'
  <2>1. Elsewhere(o, f, u) /\ Recorded(o, u, f)
    BY <1>1, EnterEffect
  <2> QED
    BY <1>1, <2>1 DEF Untouched, Elsewhere, Recorded
<1>5. StoreInv'
  <2> SUFFICES ASSUME careful'
               PROVE  /\ listed = (current # NoObject) /\ current = o /\ o # NoObject
                      /\ Single(o)' /\ Kept' = Members(o)' \cup Owed'
    BY <1>1 DEF StoreInv, Single, Members
  <2>1. current = o /\ o # NoObject /\ records[o][u] = NoServer /\ careful /\ NoServer \notin Servers
    BY <1>1, ChannelAssumption
  <2>2. listed = (current # NoObject) /\ Single(o) /\ Kept = Members(o) \cup Owed
    BY <2>1 DEF StoreInv
  <2>3. /\ Single(o)'
        /\ \A m \in Servers \X Users : m \in Members(o)' <=> m \in Members(o) \/ m = <<f, u>>
    BY <1>1, <2>1, <2>2, EnterSingle
  <2>4. Kept' = Kept \cup {<<f, u>>} /\ Owed' = Owed
    BY <1>1, <2>1 DEF Kept, Owed, WithServer
  <2>5. Members(o) \subseteq Servers \X Users /\ Members(o)' \subseteq Servers \X Users
    BY DEF Members
  <2>6. Members(o)' = Members(o) \cup {<<f, u>>}
    BY <2>3, <2>5
  <2> QED
    BY <2>1, <2>2, <2>3, <2>4, <2>6
<1> QED
  BY <1>2, <1>3, <1>4, <1>5

LEMMA LeaveKeeps ==
    ASSUME MInv, NEW o \in Objects, NEW f \in Servers, NEW u \in Users,
           Leave(o, u, f)
    PROVE  MInv'
<1> USE DEF MInv
<1>1. /\ stored' = stored \ {<<f, u>>} /\ state[o] # "none"
      /\ unrestored' = unrestored \ {<<f, u>>}
      /\ UNCHANGED <<current, state, listed>>
      /\ careful' => careful /\ current = o
  BY DEF Leave, Care, Usable
<1>2. Kept' = Kept \ {<<f, u>>} /\ Owed' = Owed \ {<<f, u>>}
  BY <1>1 DEF Kept, Owed, WithServer
<1>3. careful' =>
         /\ current = o /\ o # NoObject /\ listed = (current # NoObject) /\ Single(o)
         /\ Kept = Members(o) \cup Owed
  BY <1>1, ChannelAssumption DEF StoreInv
<1>4. CASE entries[o][f][u] > 0
  <2>1. Exit(o, u, f)
    BY <1>4 DEF Leave
  <2>2. MemberTypes'
    BY <1>1, <1>4, <2>1, ExitEffect DEF MemberTypes
  <2>3. \A p \in Objects : Grouped(p)'
    BY <1>4, <2>1, ExitGrouped
  <2>4. \A p \in Objects : Untouched(p)'
    <3>1. Elsewhere(o, f, u) /\ Recorded(o, u, NoServer)
      BY <1>4, <2>1, ExitEffect
    <3> QED
      BY <1>1, <3>1 DEF Untouched, Elsewhere, Recorded
  <2>5. StoreInv'
    <3> SUFFICES ASSUME careful'
                 PROVE  /\ listed = (current # NoObject) /\ current = o /\ o # NoObject
                        /\ Single(o)' /\ Kept' = Members(o)' \cup Owed'
      BY <1>1 DEF StoreInv, Single, Members
    <3>1. /\ Single(o)'
          /\ \A m \in Servers \X Users : m \in Members(o)' <=> m \in Members(o) /\ m # <<f, u>>
      BY <1>3, <1>4, <2>1, ExitSingle
    <3>2. Members(o) \subseteq Servers \X Users /\ Members(o)' \subseteq Servers \X Users
      BY DEF Members
    <3>3. Members(o)' = Members(o) \ {<<f, u>>}
      BY <3>1, <3>2
    <3> QED
      BY <1>2, <1>3, <3>1, <3>3
  <2> QED
    BY <2>2, <2>3, <2>4, <2>5
<1>5. CASE ~(entries[o][f][u] > 0)
  <2>1. UNCHANGED <<entries, keys, records>>
    BY <1>5 DEF Leave, objectVars
  <2>2. MemberTypes' /\ \A p \in Objects : Grouped(p)' /\ Untouched(p)'
    BY <1>1, <2>1 DEF MemberTypes, Grouped, Untouched
  <2>3. Members(o)' = Members(o) /\ (Single(o) => Single(o)')
    BY <2>1 DEF Members, Single
  <2>4. <<f, u>> \notin Members(o)
    BY <1>5, InMembers
  <2>5. StoreInv'
    <3> SUFFICES ASSUME careful'
                 PROVE  /\ listed = (current # NoObject) /\ current = o /\ o # NoObject
                        /\ Single(o)' /\ Kept' = Members(o)' \cup Owed'
      BY <1>1 DEF StoreInv, Single, Members
    <3> QED
      BY <1>2, <1>3, <2>3, <2>4
  <2> QED
    BY <2>2, <2>5
<1> QED
  BY <1>4, <1>5

\* A channel without members.
LEMMA EmptyChannel ==
    ASSUME NEW o,
           \A u \in Users : records[o][u] = NoServer /\ \A f \in Servers : entries[o][f][u] = 0
    PROVE  Single(o) /\ Members(o) = {}
BY ChannelAssumption DEF Single, Members

LEMMA ServiceKeeps ==
    ASSUME MInv, NEW o \in Objects,
           \/ CreateChannel(o) \/ Destroy(o) \/ DestroyChannel \/ Loaded
           \/ \E u \in Users : AddNowhere(o, u)
    PROVE  MInv'
<1> USE DEF MInv
<1>1. UNCHANGED <<entries, keys, records>>
  BY DEF CreateChannel, Destroy, DestroyChannel, Loaded, AddNowhere, objectVars
<1>2. \A p \in Objects : /\ Members(p)' = Members(p) /\ (Single(p) => Single(p)')
                         /\ Grouped(p)'
  BY <1>1 DEF Members, Single, Grouped
<1>3. CASE CreateChannel(o)
  <2>1. /\ current = NoObject /\ state[o] = "none" /\ current' = o /\ listed'
        /\ UNCHANGED <<stored, unrestored, careful>>
        /\ state' = [state EXCEPT ![o] = "inited"]
    BY <1>3 DEF CreateChannel
  <2>2. MemberTypes'
    BY <1>1, <2>1 DEF MemberTypes
  <2>3. \A p \in Objects : Untouched(p)'
    BY <1>1, <2>1 DEF Untouched
  <2>4. Single(o)' /\ Members(o)' = {} /\ o # NoObject
    BY <1>2, <2>1, EmptyChannel, ChannelAssumption DEF Untouched
  <2>5. careful => Kept' = {} /\ Owed' = {}
    BY <2>1 DEF StoreInv, Kept, Owed
  <2>6. StoreInv'
    <3> SUFFICES ASSUME careful
                 PROVE  Single(o)' /\ Kept' = Members(o)' \cup Owed'
      BY <2>1, <2>4 DEF StoreInv, Single, Members
    <3> QED
      BY <2>4, <2>5
  <2> QED
    BY <1>2, <2>2, <2>3, <2>6
<1>4. CASE Destroy(o) \/ DestroyChannel
  <2>1. current' = NoObject /\ listed' = FALSE /\ stored' = {} /\ unrestored' = {}
    BY <1>4 DEF Destroy, DestroyChannel, Forget
  <2>2. state' = state \/ state' = [state EXCEPT ![o] = "destroyed"]
    BY <1>4 DEF Destroy, DestroyChannel
  <2>3. MemberTypes'
    BY <1>1, <2>1, <2>2 DEF MemberTypes
  <2>4. \A p \in Objects : state'[p] = "none" => state[p] = "none"
    BY <2>2 DEF MemberTypes
  <2>5. \A p \in Objects : Untouched(p)'
    BY <1>1, <2>4 DEF Untouched
  <2>6. Kept' = {} /\ Owed' = {}
    BY <2>1 DEF Kept, Owed, WithServer
  <2>7. StoreInv'
    BY <2>1, <2>6 DEF StoreInv
  <2> QED
    BY <1>2, <2>3, <2>5, <2>7
<1>5. CASE Loaded
  <2>1. UNCHANGED <<current, state, listed, stored, unrestored, careful>>
    BY <1>5 DEF Loaded, storeVars
  <2>2. MemberTypes' /\ \A p \in Objects : Untouched(p)'
    BY <1>1, <2>1 DEF MemberTypes, Untouched
  <2>3. Members(current)' = Members(current) /\ (Single(current) => Single(current)')
    BY <1>1, <2>1 DEF Members, Single
  <2>4. StoreInv'
    BY <2>1, <2>3 DEF StoreInv, Kept, Owed
  <2> QED
    BY <1>2, <2>2, <2>4
<1>6. ASSUME NEW u \in Users, AddNowhere(o, u) PROVE MInv'
  <2>1. /\ stored' = stored \cup {<<NoServer, u>>} /\ (careful' => careful)
        /\ UNCHANGED <<current, state, listed, unrestored>>
    BY <1>6 DEF AddNowhere, Care
  <2>2. MemberTypes' /\ \A p \in Objects : Untouched(p)'
    BY <1>1, <2>1 DEF MemberTypes, Untouched
  <2>3. Kept' = Kept /\ Owed' = Owed
    BY <2>1 DEF Kept, Owed, WithServer
  <2>4. Members(current)' = Members(current) /\ (Single(current) => Single(current)')
    BY <1>1, <2>1 DEF Members, Single
  <2>5. StoreInv'
    BY <2>1, <2>3, <2>4 DEF StoreInv
  <2> QED
    BY <1>2, <2>2, <2>5
<1> QED
  BY <1>3, <1>4, <1>5, <1>6

LEMMA ChannelRestartKeeps ==
    ASSUME MInv, NEW o \in Objects, Restart(o)
    PROVE  MInv'
<1> USE DEF MInv
<1>1. /\ entries' = NoEntries /\ records' = NoRecords /\ keys' = [p \in Objects |-> {}]
      /\ current' = (IF listed THEN o ELSE NoObject) 
      /\ unrestored' = (IF listed THEN stored ELSE {})
      /\ UNCHANGED <<listed, stored, careful>>
  BY DEF Restart, storeVars
<1>2. \A p \in Objects, u \in Users : /\ records'[p][u] = NoServer
                                      /\ \A f \in Servers : entries'[p][f][u] = 0
  BY <1>1 DEF NoEntries, NoRecords
<1>3. MemberTypes'
  <2>1. state' \in [Objects -> {"none", "inited", "destroyed", "lost"}]
    BY DEF Restart, MemberTypes
  <2>2. entries' \in [Objects -> [Servers -> [Users -> Nat]]]
    BY <1>1 DEF NoEntries
  <2>3. records' \in [Objects -> [Users -> Servers \cup {NoServer}]]
    BY <1>1 DEF NoRecords
  <2> QED
    BY <1>1, <2>1, <2>2, <2>3 DEF MemberTypes
<1>4. \A p \in Objects : Grouped(p)' /\ Untouched(p)' /\ Single(p)' /\ Members(p)' = {}
  <2> SUFFICES ASSUME NEW p \in Objects
               PROVE  Grouped(p)' /\ Untouched(p)' /\ Single(p)' /\ Members(p)' = {}
    OBVIOUS
  <2>1. \A f \in Servers, u \in Users : ~(entries'[p][f][u] > 0)
    BY <1>2
  <2>2. Grouped(p)'
    BY <1>1, <1>2, <2>1 DEF Grouped
  <2>3. Untouched(p)'
    BY <1>2 DEF Untouched
  <2> QED
    BY <1>2, <2>2, <2>3, EmptyChannel, ChannelAssumption DEF Single, Members
<1>5. StoreInv'
  <2>1. CASE listed
    <3>1. current' = o /\ o # NoObject /\ Kept' = Owed'
      BY <1>1, <2>1, ChannelAssumption DEF Kept, Owed
    <3>2. Single(o)' /\ Members(o)' = {}
      BY <1>4
    <3>3. Single(current)' /\ Members(current)' = {}
      BY <3>1, <3>2 DEF Single, Members
    <3> QED
      BY <1>1, <2>1, <3>1, <3>3 DEF StoreInv
  <2>2. CASE ~listed
    <3>1. current' = NoObject /\ Kept' = Kept /\ Owed' = {}
      BY <1>1, <2>2 DEF Kept, Owed, WithServer
    <3> QED
      BY <1>1, <2>2, <3>1 DEF StoreInv
  <2> QED
    BY <1>1, <2>1, <2>2 DEF MemberTypes
<1> QED
  BY <1>3, <1>4, <1>5

LEMMA ChannelInvariant ==
    ChannelSpec => []MInv
<1>1. ChannelInit => MInv
  <2> SUFFICES ASSUME ChannelInit PROVE MInv
    OBVIOUS
  <2>1. /\ entries = NoEntries /\ records = NoRecords /\ keys = [p \in Objects |-> {}]
        /\ current = NoObject /\ stored = {} /\ listed = FALSE /\ unrestored = {}
        /\ state = [p \in Objects |-> "none"]
    BY DEF ChannelInit
  <2>2. MemberTypes
    BY <2>1 DEF MemberTypes, NoEntries, NoRecords
  <2>3. \A p \in Objects, u \in Users : /\ records[p][u] = NoServer
                                        /\ \A f \in Servers : entries[p][f][u] = 0
    BY <2>1 DEF NoEntries, NoRecords
  <2>4. \A p \in Objects : Grouped(p) /\ Untouched(p)
    BY <2>1, <2>3 DEF Grouped, Untouched
  <2> QED
    BY <2>1, <2>2, <2>4 DEF MInv, StoreInv, Kept, Owed, WithServer
<1>2. MInv /\ [ChannelNext]_channelVars => MInv'
  <2> SUFFICES ASSUME MInv, [ChannelNext]_channelVars PROVE MInv'
    OBVIOUS
  <2>1. CASE UNCHANGED channelVars
    BY <2>1 DEF channelVars, MInv, MemberTypes, Grouped, Untouched, StoreInv, Single, Kept, Owed, Members
  <2>2. CASE DestroyChannel \/ Loaded
    <3>1. CASE Objects = {}
      BY <2>2, <3>1 DEF DestroyChannel, Loaded, Forget, storeVars, objectVars,
         MInv, MemberTypes, StoreInv, Kept, Owed, WithServer
    <3> QED
      BY <2>2, <3>1, ServiceKeeps
  <2> QED
    BY <2>1, <2>2, AddKeeps, LeaveKeeps, ServiceKeeps, ChannelRestartKeeps DEF ChannelNext
<1> QED BY <1>1, <1>2, PTL DEF ChannelSpec

\* For an application that adds nobody twice and uses a channel as long as the
\* name leads to it, and whatever restarts there are: the store holds the
\* channel's members, those the last restart did not put back, and nothing else.
THEOREM StoreFollowsCorrect == ChannelSpec => []StoreFollowsMembers
<1>1. MInv => StoreFollowsMembers
  BY DEF MInv, StoreInv, StoreFollowsMembers, Kept, Owed
<1> QED BY <1>1, ChannelInvariant, PTL

-----------------------------------------------------------------------------
(* The amount of a channel *)

\* The entries of groups with g[f][u] entries of u at f.
Spread(g) == UNION {{m} \X (1..g[m[1]][m[2]]) : m \in Servers \X Users}

LEMMA InSpread ==
    ASSUME NEW g, NEW e
    PROVE  e \in Spread(g) <=> \E f \in Servers, u \in Users :
                                  \E i \in 1..g[f][u] : e = <<<<f, u>>, i>>
<1>1. ASSUME e \in Spread(g)
      PROVE  \E f \in Servers, u \in Users : \E i \in 1..g[f][u] : e = <<<<f, u>>, i>>
  <2>1. PICK m \in Servers \X Users : e \in {m} \X (1..g[m[1]][m[2]])
    BY <1>1 DEF Spread
  <2>2. PICK f \in Servers, u \in Users : m = <<f, u>>
    BY <2>1
  <2>3. \E i \in 1..g[f][u] : e = <<<<f, u>>, i>>
    BY <2>1, <2>2
  <2> QED BY <2>2, <2>3
<1>2. ASSUME NEW f \in Servers, NEW u \in Users, NEW i \in 1..g[f][u], e = <<<<f, u>>, i>>
      PROVE  e \in Spread(g)
  <2> DEFINE m == <<f, u>>
  <2>1. m \in Servers \X Users /\ m[1] = f /\ m[2] = u
    OBVIOUS
  <2>2. e \in {m} \X (1..g[m[1]][m[2]])
    BY <1>2, <2>1
  <2> QED BY <2>1, <2>2 DEF Spread
<1> QED BY <1>1, <1>2

\* h is g with one more entry of u at f.
LEMMA SpreadMore ==
    ASSUME NEW g, NEW h, NEW f \in Servers, NEW u \in Users, NEW n \in Nat,
           g[f][u] = n, h[f][u] = n + 1,
           \A k \in Servers, v \in Users : (k # f \/ v # u) => h[k][v] = g[k][v]
    PROVE  /\ Spread(h) = Spread(g) \cup {<<<<f, u>>, n + 1>>}
           /\ <<<<f, u>>, n + 1>> \notin Spread(g)
<1> DEFINE one == <<<<f, u>>, n + 1>>
<1>1. one \notin Spread(g)
  BY InSpread
<1>2. one \in Spread(h)
  BY InSpread
<1>3. ASSUME NEW e \in Spread(g) PROVE e \in Spread(h)
  <2>1. PICK k \in Servers, v \in Users : \E i \in 1..g[k][v] : e = <<<<k, v>>, i>>
    BY InSpread
  <2>2. \A i \in 1..g[k][v] : i \in 1..h[k][v]
    OBVIOUS
  <2> QED BY <2>1, <2>2, InSpread
<1>4. ASSUME NEW e \in Spread(h), e # one PROVE e \in Spread(g)
  <2>1. PICK k \in Servers, v \in Users : \E i \in 1..h[k][v] : e = <<<<k, v>>, i>>
    BY InSpread
  <2>2. PICK i \in 1..h[k][v] : e = <<<<k, v>>, i>>
    BY <2>1
  <2>3. i \in 1..g[k][v]
    BY <1>4, <2>2
  <2> QED BY <2>2, <2>3, InSpread
<1> QED BY <1>1, <1>2, <1>3, <1>4

CountInv == /\ amount \in [Objects -> Nat]
            /\ \A o \in Objects : IsFiniteSet(EntriesOf(o)) /\ AmountExact(o)

LEMMA EntriesAreSpread == ASSUME NEW o PROVE EntriesOf(o) = Spread(entries[o])
BY DEF EntriesOf, Spread

LEMMA AmountSteps ==
    ASSUME MInv, MInv', CountInv, ChannelNext
    PROVE  CountInv'
<1>1. ASSUME UNCHANGED <<entries, amount>> PROVE CountInv'
  BY <1>1 DEF CountInv, AmountExact, EntriesOf
\* One entry of o comes or goes.
<1>2. ASSUME NEW o \in Objects, NEW f \in Servers, NEW u \in Users,
             NEW new, IsFiniteSet(new),
             new = EntriesOf(o)', Elsewhere(o, f, u),
             amount' = [amount EXCEPT ![o] = Cardinality(new)]
      PROVE  CountInv'
  <2>1. Cardinality(new) \in Nat
    BY <1>2, FS_CardinalityType
  <2>2. amount' \in [Objects -> Nat] /\ amount'[o] = Cardinality(new)
    BY <1>2, <2>1 DEF CountInv
  <2>3. ASSUME NEW p \in Objects, p # o PROVE Spread(entries'[p]) = Spread(entries[p])
    <3>1. \A k \in Servers, v \in Users : entries'[p][k][v] = entries[p][k][v]
      BY <1>2, <2>3 DEF Elsewhere
    <3>2. \A e : e \in Spread(entries'[p]) <=> e \in Spread(entries[p])
      BY <3>1, InSpread
    <3> QED BY <3>2
  <2>4. ASSUME NEW p \in Objects PROVE IsFiniteSet(EntriesOf(p)') /\ AmountExact(p)'
    <3>1. CASE p = o
      BY <1>2, <2>2, <3>1 DEF AmountExact
    <3>2. CASE p # o
      <4>1. EntriesOf(p)' = EntriesOf(p)
        BY <2>3, <3>2 DEF EntriesOf, Spread
      <4>2. amount'[p] = amount[p]
        BY <1>2, <3>2 DEF CountInv
      <4> QED BY <4>1, <4>2 DEF CountInv, AmountExact
    <3> QED BY <3>1, <3>2
  <2> QED BY <2>2, <2>4 DEF CountInv
<1>3. ASSUME NEW o \in Objects, NEW f \in Servers, NEW u \in Users, Enter(o, u, f)
      PROVE  CountInv'
  <2>1. PICK n \in Nat : n = entries[o][f][u]
    BY DEF MInv, MemberTypes
  <2>2. Elsewhere(o, f, u) /\ entries'[o][f][u] = n + 1
    BY <1>3, <2>1, EnterEffect DEF MInv
  <2>3. \A k \in Servers, v \in Users : (k # f \/ v # u) => entries'[o][k][v] = entries[o][k][v]
    BY <2>2 DEF Elsewhere
  <2> DEFINE one == <<<<f, u>>, n + 1>>
  <2>4. Spread(entries'[o]) = Spread(entries[o]) \cup {one} /\ one \notin Spread(entries[o])
    BY <2>1, <2>2, <2>3, SpreadMore
  <2>5. EntriesOf(o)' = EntriesOf(o) \cup {one} /\ one \notin EntriesOf(o)
    BY <2>4 DEF EntriesOf, Spread
  <2>6. IsFiniteSet(EntriesOf(o)') /\ Cardinality(EntriesOf(o)') = amount[o] + 1
    <3> HIDE DEF one
    <3>1. IsFiniteSet(EntriesOf(o)) /\ amount[o] = Cardinality(EntriesOf(o))
      BY DEF CountInv, AmountExact
    <3> QED BY <2>5, <3>1, FS_AddElement
  <2>7. amount' = [amount EXCEPT ![o] = Cardinality(EntriesOf(o)')]
    BY <1>3, <2>6 DEF Enter
  <2> QED BY <1>2, <2>2, <2>6, <2>7
<1>4. ASSUME NEW o \in Objects, NEW f \in Servers, NEW u \in Users, Exit(o, u, f),
             entries[o][f][u] > 0
      PROVE  CountInv'
  <2>1. PICK n \in Nat : entries[o][f][u] = n + 1 /\ entries'[o][f][u] = n
    <3>1. entries[o][f][u] \in Nat /\ entries'[o][f][u] = entries[o][f][u] - 1
      BY <1>4, ExitEffect DEF MInv
    <3> QED BY <1>4, <3>1
  <2>2. Elsewhere(o, f, u)
    BY <1>4, ExitEffect DEF MInv
  <2>3. \A k \in Servers, v \in Users : (k # f \/ v # u) => entries'[o][k][v] = entries[o][k][v]
    BY <2>2 DEF Elsewhere
  <2> DEFINE one == <<<<f, u>>, n + 1>>
  <2>4. Spread(entries[o]) = Spread(entries'[o]) \cup {one} /\ one \notin Spread(entries'[o])
    BY <2>1, <2>3, SpreadMore
  <2>5. EntriesOf(o)' = EntriesOf(o) \ {one} /\ one \in EntriesOf(o)
    BY <2>4 DEF EntriesOf, Spread
  <2>6. IsFiniteSet(EntriesOf(o)') /\ Cardinality(EntriesOf(o)') = amount[o] - 1
    <3> HIDE DEF one
    <3>1. IsFiniteSet(EntriesOf(o)) /\ amount[o] = Cardinality(EntriesOf(o))
      BY DEF CountInv, AmountExact
    <3> QED BY <2>5, <3>1, FS_RemoveElement
  <2>7. amount' = [amount EXCEPT ![o] = Cardinality(EntriesOf(o)')]
    BY <1>4, <2>6 DEF Exit
  <2> QED BY <1>2, <2>2, <2>6, <2>7
<1>5. ASSUME NEW o \in Objects, Restart(o) PROVE CountInv'
  <2>1. entries' = NoEntries /\ amount' = [p \in Objects |-> 0]
    BY <1>5 DEF Restart
  <2>2. ASSUME NEW p \in Objects PROVE EntriesOf(p)' = {}
    <3>1. \A k \in Servers, v \in Users : entries'[p][k][v] = 0
      BY <2>1 DEF NoEntries
    <3>2. Spread(entries'[p]) = {}
      BY <3>1, InSpread
    <3> QED BY <3>2 DEF EntriesOf, Spread
  <2> QED BY <2>1, <2>2, FS_EmptySet DEF CountInv, AmountExact
<1>6. ASSUME NEW o \in Objects, NEW u \in Users, NEW f \in Servers, Add(o, u, f) \/ Leave(o, u, f)
      PROVE  CountInv'
  BY <1>1, <1>3, <1>4, <1>6 DEF Add, Leave, objectVars
<1>7. ASSUME NEW o \in Objects, CreateChannel(o) \/ Destroy(o) PROVE CountInv'
  BY <1>1, <1>7 DEF CreateChannel, Destroy, objectVars
<1>8. ASSUME NEW o \in Objects, NEW u \in Users, AddNowhere(o, u) PROVE CountInv'
  BY <1>1, <1>8 DEF AddNowhere, objectVars
<1>9. ASSUME DestroyChannel \/ Loaded PROVE CountInv'
  BY <1>1, <1>9 DEF DestroyChannel, Loaded, objectVars
<1> QED BY <1>5, <1>6, <1>7, <1>8, <1>9 DEF ChannelNext

LEMMA AmountInvariant == ChannelSpec => []CountInv
<1>1. ChannelInit => CountInv
  <2> SUFFICES ASSUME ChannelInit PROVE CountInv
    OBVIOUS
  <2>1. ASSUME NEW p \in Objects PROVE EntriesOf(p) = {}
    <3>1. \A k \in Servers, v \in Users : entries[p][k][v] = 0
      BY DEF ChannelInit, NoEntries
    <3>2. Spread(entries[p]) = {}
      BY <3>1, InSpread
    <3> QED BY <3>2 DEF EntriesOf, Spread
  <2> QED BY <2>1, FS_EmptySet DEF CountInv, AmountExact, ChannelInit
<1>2. MInv /\ MInv' /\ CountInv /\ [ChannelNext]_channelVars => CountInv'
  <2>1. CountInv /\ UNCHANGED channelVars => CountInv'
    BY DEF CountInv, AmountExact, EntriesOf, channelVars
  <2> QED BY <2>1, AmountSteps
<1> QED BY <1>1, <1>2, ChannelInvariant, PTL DEF ChannelSpec

\* For any application, however often it adds the same user: the amount of a
\* channel is the number of its entries, a record is of a member of the group
\* it names, and the groups are those of the servers with members; for one that
\* adds nobody twice every member has his record.
THEOREM GroupsAgreeCorrect == ChannelSpec => []GroupsAgree
<1>1. ASSUME MInv, NEW o \in Objects PROVE RecordsAreMembers(o) /\ KeysAreGroups(o)
  <2>1. RecordsAreMembers(o)
    BY <1>1, InMembers DEF MInv, MemberTypes, Grouped, RecordsAreMembers
  <2>2. keys[o] \subseteq Servers
    BY <1>1 DEF MInv, MemberTypes
  <2>3. ASSUME NEW f \in keys[o] PROVE f \in {m[1] : m \in Members(o)}
    <3>1. PICK u \in Users : entries[o][f][u] > 0
      BY <1>1, <2>2, <2>3 DEF MInv, Grouped
    <3>2. <<f, u>> \in Members(o) /\ <<f, u>>[1] = f
      BY <2>2, <2>3, <3>1, InMembers
    <3> QED BY <3>2
  <2>4. ASSUME NEW m \in Members(o) PROVE m[1] \in keys[o]
    BY <1>1, <2>4 DEF MInv, Grouped, Members
  <2>5. KeysAreGroups(o)
    BY <2>3, <2>4 DEF KeysAreGroups
  <2> QED BY <2>1, <2>5
<1>2. ASSUME MInv PROVE MembersHaveRecords
  BY <1>2 DEF MInv, StoreInv, Single, Members, MembersHaveRecords
<1>3. MInv /\ CountInv => GroupsAgree
  BY <1>1, <1>2 DEF CountInv, GroupsAgree
<1> QED BY <1>3, ChannelInvariant, AmountInvariant, PTL

\* The variables of a channel have their types; that the amount stays a number
\* needs that there are as many entries.
THEOREM ChannelTypesCorrect == ChannelSpec => []ChannelTypeOK
<1> DEFINE Flags == loading \in BOOLEAN /\ up \in BOOLEAN /\ careful \in BOOLEAN
<1>1. ChannelInit => Flags
  BY DEF ChannelInit
<1>2. MInv /\ Flags /\ [ChannelNext]_channelVars => Flags'
  <2> SUFFICES ASSUME MInv, Flags, [ChannelNext]_channelVars PROVE Flags'
    OBVIOUS
  <2>1. listed \in BOOLEAN
    BY DEF MInv, MemberTypes
  <2>2. CASE UNCHANGED channelVars
    BY <2>2 DEF channelVars
  <2>3. CASE \/ \E o \in Objects : CreateChannel(o) \/ Restart(o) \/ Destroy(o)
             \/ DestroyChannel
             \/ Loaded
    BY <2>1, <2>3 DEF CreateChannel, Restart, Destroy, DestroyChannel, Loaded, Care
  <2>4. CASE \/ \E o \in Objects, u \in Users, f \in Servers : Add(o, u, f) \/ Leave(o, u, f)
             \/ \E o \in Objects, u \in Users : AddNowhere(o, u)
    BY <2>4 DEF Add, Leave, AddNowhere, Care
  <2> QED BY <2>2, <2>3, <2>4 DEF ChannelNext
<1>3. MInv /\ CountInv /\ Flags => ChannelTypeOK
  BY DEF MInv, MemberTypes, CountInv, ChannelTypeOK
<1> QED BY <1>1, <1>2, <1>3, ChannelInvariant, AmountInvariant, PTL DEF ChannelSpec

-----------------------------------------------------------------------------
(* The push schedulers, which see of all this a message and its receivers    *)

\* x is written and w is queued for a session, whose messages are those of A; of
\* the first n messages the buffer took B.
Streams(x, w, B, n, A) ==
    /\ x \in Seq(Nat) /\ w \in Seq(Nat)
    /\ \A i \in 1..Len(x) : x[i] \in 1..n /\ (x[i] \in B => x[i] \in A)
    /\ \A j \in 1..Len(w) : w[j] \in 1..n /\ w[j] \in B /\ w[j] \in A
    /\ \A i, j \in 1..Len(x) : (i < j /\ x[i] \in B /\ x[j] \in B) => x[i] < x[j]
    /\ \A i, j \in 1..Len(w) : i < j => w[i] < w[j]
    /\ \A i \in 1..Len(x), j \in 1..Len(w) : x[i] \in B => x[i] < w[j]

\* The next message is none of those there are.
LEMMA StreamsNext ==
    ASSUME NEW x, NEW w, NEW B, NEW n \in Nat, NEW A, Streams(x, w, B, n, A),
           NEW C, \A m \in 1..n : m \in C <=> m \in B,
           NEW D, \A m \in 1..n : m \in A => m \in D
    PROVE  Streams(x, w, C, n + 1, D)
<1>1. \A m \in 1..n : m \in 1..n + 1
  OBVIOUS
<1> QED
  BY <1>1 DEF Streams

\* Direct messages are written.
LEMMA StreamsDirect ==
    ASSUME NEW x, NEW w, NEW B, NEW n \in Nat, NEW A, Streams(x, w, B, n, A),
           NEW y \in Seq(Nat), \A i \in 1..Len(y) : y[i] \in 1..n /\ y[i] \notin B
    PROVE  Streams(x \o y, w, B, n, A)
<1>1. /\ x \o y \in Seq(Nat) /\ Len(x \o y) = Len(x) + Len(y) /\ Len(x) \in Nat /\ Len(y) \in Nat
      /\ \A i \in 1..Len(x) + Len(y) : (x \o y)[i] = IF i <= Len(x) THEN x[i] ELSE y[i - Len(x)]
  BY ConcatProperties, LenProperties DEF Streams
<1>2. ASSUME NEW i \in 1..Len(x \o y)
      PROVE  \/ i \in 1..Len(x) /\ (x \o y)[i] = x[i]
             \/ (x \o y)[i] \in 1..n /\ (x \o y)[i] \notin B
  <2>1. CASE i <= Len(x)
    BY <1>1, <2>1
  <2>2. CASE ~(i <= Len(x))
    <3>1. i - Len(x) \in 1..Len(y) /\ (x \o y)[i] = y[i - Len(x)]
      BY <1>1, <2>2
    <3> QED
      BY <3>1
  <2> QED BY <2>1, <2>2
<1> QED
  BY <1>1, <1>2 DEF Streams

\* A message of the session is queued, after all others.
LEMMA StreamsQueued ==
    ASSUME NEW x, NEW w, NEW B, NEW n \in Nat, NEW A, Streams(x, w, B, n, A),
           n + 1 \in A
    PROVE  Streams(x, Append(w, n + 1), B \cup {n + 1}, n + 1, A)
<1>1. /\ Append(w, n + 1) \in Seq(Nat) /\ Len(Append(w, n + 1)) = Len(w) + 1 /\ Len(w) \in Nat
      /\ \A i \in 1..Len(w) : Append(w, n + 1)[i] = w[i]
      /\ Append(w, n + 1)[Len(w) + 1] = n + 1
  BY AppendProperties, LenProperties DEF Streams
<1>2. Streams(x, w, B \cup {n + 1}, n + 1, A)
  BY StreamsNext
<1>3. \A i \in 1..Len(x) : x[i] \in 1..n
  BY DEF Streams
<1>4. \A i \in 1..Len(w) : w[i] \in 1..n
  BY DEF Streams
<1> DEFINE v == Append(w, n + 1)
<1>5. \A j \in 1..Len(v) : \/ j \in 1..Len(w) /\ v[j] = w[j]
                           \/ j = Len(w) + 1 /\ v[j] = n + 1
  BY <1>1
<1>6. \A j \in 1..Len(v) : v[j] \in 1..n + 1 /\ v[j] \in B \cup {n + 1} /\ v[j] \in A
  BY <1>2, <1>5 DEF Streams
<1>7. \A i, j \in 1..Len(v) : i < j => v[i] < v[j]
  BY <1>1, <1>2, <1>4, <1>5 DEF Streams
<1>8. \A i \in 1..Len(x), j \in 1..Len(v) : x[i] \in B \cup {n + 1} => x[i] < v[j]
  BY <1>2, <1>3, <1>5 DEF Streams
<1>9. v \in Seq(Nat)
  BY <1>1
<1> HIDE DEF v
<1>10. Streams(x, v, B \cup {n + 1}, n + 1, A)
  BY <1>2, <1>6, <1>7, <1>8, <1>9 DEF Streams
<1> QED
  BY <1>10 DEF v

\* The queue is written, or dropped.
LEMMA StreamsFlushed ==
    ASSUME NEW x, NEW w, NEW B, NEW n \in Nat, NEW A, Streams(x, w, B, n, A)
    PROVE  Streams(x \o w, <<>>, B, n, A) /\ Streams(x, <<>>, B, n, A)
<1>1. /\ x \o w \in Seq(Nat) /\ Len(x \o w) = Len(x) + Len(w) /\ Len(x) \in Nat /\ Len(w) \in Nat
      /\ \A i \in 1..Len(x) + Len(w) : (x \o w)[i] = IF i <= Len(x) THEN x[i] ELSE w[i - Len(x)]
  BY ConcatProperties, LenProperties DEF Streams
<1>2. <<>> \in Seq(Nat) /\ Len(<<>>) = 0
  BY EmptySeq
<1> DEFINE v == x \o w
<1>3. ASSUME NEW i \in 1..Len(v)
      PROVE  \/ i \in 1..Len(x) /\ v[i] = x[i]
             \/ i > Len(x) /\ i - Len(x) \in 1..Len(w) /\ v[i] = w[i - Len(x)]
  BY <1>1
<1>4. Streams(x, <<>>, B, n, A)
  BY <1>2 DEF Streams
<1>5. v \in Seq(Nat)
  BY <1>1
<1> HIDE DEF v
<1>6. \A i \in 1..Len(v) : v[i] \in 1..n /\ (v[i] \in B => v[i] \in A)
  <2>1. \A i \in 1..Len(x) : x[i] \in 1..n /\ (x[i] \in B => x[i] \in A)
    BY DEF Streams
  <2>2. \A j \in 1..Len(w) : w[j] \in 1..n /\ w[j] \in A
    BY DEF Streams
  <2> QED BY <1>3, <2>1, <2>2
<1>7. ASSUME NEW i \in 1..Len(v), NEW j \in 1..Len(v), i < j, v[i] \in B, v[j] \in B
      PROVE  v[i] < v[j]
  <2>1. CASE j \in 1..Len(x) /\ v[j] = x[j]
    <3>1. i <= Len(x) /\ i \in Int /\ Len(x) \in Nat
      BY <1>1, <1>7, <2>1
    <3>2. i \in 1..Len(x) /\ v[i] = x[i]
      BY <1>3, <3>1
    <3> QED
      BY <1>7, <2>1, <3>2 DEF Streams
  <2>2. CASE j > Len(x) /\ j - Len(x) \in 1..Len(w) /\ v[j] = w[j - Len(x)]
    <3>1. CASE i \in 1..Len(x) /\ v[i] = x[i]
      BY <1>7, <2>2, <3>1 DEF Streams
    <3>2. CASE i > Len(x) /\ i - Len(x) \in 1..Len(w) /\ v[i] = w[i - Len(x)]
      <4>1. i - Len(x) < j - Len(x)
        BY <1>1, <1>7
      <4> QED
        BY <2>2, <3>2, <4>1 DEF Streams
    <3> QED BY <1>3, <3>1, <3>2
  <2> QED BY <1>3, <2>1, <2>2
<1>8. Streams(v, <<>>, B, n, A)
  BY <1>2, <1>5, <1>6, <1>7 DEF Streams
<1> QED
  BY <1>4, <1>8 DEF v

Meant(s) == {m \in 1..scheduled : s \in accepted[m]}

Counts == /\ scheduled \in 0..MaxMessages /\ buffered \subseteq 1..scheduled
          /\ accepted \in [1..MaxMessages -> SUBSET Sids]

StreamsInv == \A s \in Sids : Streams(sent[s], Waiting(s), buffered, scheduled, Meant(s))

PInv == /\ Counts
        /\ open \subseteq Sids
        /\ DOMAIN queue \subseteq open
        /\ sent \in [Sids -> Seq(Nat)]
        /\ StreamsInv

\* What a new message changes for a session.
LEMMA NewMessageKeeps ==
    ASSUME PInv, NEW F \in SUBSET Sids, NewMessage(F)
    PROVE  /\ scheduled \in Nat /\ scheduled' = scheduled + 1 /\ scheduled' \in 0..MaxMessages
           /\ accepted' \in [1..MaxMessages -> SUBSET Sids]
           /\ \A s \in Sids, m \in 1..scheduled : m \in Meant(s) => m \in Meant(s)'
           /\ \A s \in F : scheduled + 1 \in Meant(s)'
           /\ UNCHANGED <<open, working>>
<1>1. /\ scheduled \in 0..MaxMessages /\ MaxMessages \in Nat /\ scheduled < MaxMessages
      /\ scheduled' = scheduled + 1 /\ accepted' = [accepted EXCEPT ![scheduled + 1] = F]
      /\ accepted \in [1..MaxMessages -> SUBSET Sids]
      /\ UNCHANGED <<open, working>>
  BY SchedulerAssumption DEF NewMessage, sessionVars, PInv, Counts
<1>2. /\ scheduled + 1 \in 1..MaxMessages
      /\ \A m \in 1..scheduled : m \in 1..MaxMessages /\ m # scheduled + 1 /\ m \in 1..scheduled + 1
  BY <1>1
<1>3. accepted' \in [1..MaxMessages -> SUBSET Sids]
  BY <1>1
<1>4. accepted'[scheduled + 1] = F /\ \A m \in 1..scheduled : accepted'[m] = accepted[m]
  BY <1>1, <1>2
<1>5. scheduled + 1 \in 1..scheduled + 1
  BY <1>1
<1> QED
  BY <1>1, <1>2, <1>3, <1>4, <1>5 DEF Meant

LEMMA DirectKeeps ==
    ASSUME PInv, NEW F \in SUBSET Sids, NewMessage(F),
           NEW S \in SUBSET Sids, NEW k, \A s \in Sids : k[s] \in Nat,
           Direct(scheduled + 1, S, k)
    PROVE  PInv'
<1> DEFINE n == scheduled
           copies(s) == [i \in 1..k[s] |-> n + 1]
<1>1. /\ n \in Nat /\ scheduled' = n + 1 /\ scheduled' \in 0..MaxMessages
      /\ accepted' \in [1..MaxMessages -> SUBSET Sids]
      /\ \A s \in Sids, m \in 1..n : m \in Meant(s) => m \in Meant(s)'
      /\ UNCHANGED <<open, working>>
  BY NewMessageKeeps
<1>2. /\ UNCHANGED <<queue, buffered>>
      /\ \A s \in Sids : sent'[s] = sent[s] \/ sent'[s] = sent[s] \o copies(s)
      /\ \E f : sent' = [s \in Sids |-> f[s]]
  <2>1. /\ UNCHANGED <<queue, buffered>>
        /\ sent' = [s \in Sids |-> IF s \in S THEN Written(s, copies(s)) ELSE sent[s]]
    BY DEF Direct
  <2>2. \A s \in Sids : sent'[s] = sent[s] \/ sent'[s] = sent[s] \o copies(s)
    BY <2>1 DEF Written
  <2>3. sent' = [s \in Sids |-> sent'[s]]
    BY <2>1
  <2> HIDE DEF copies
  <2> QED
    BY <2>1, <2>2, <2>3
<1>3. \A s \in Sids : Waiting(s)' = Waiting(s)
  BY <1>2 DEF Waiting
<1>4. n + 1 \notin buffered /\ \A m \in buffered : m \in 1..n
  BY <1>1 DEF PInv, Counts
<1>5. ASSUME NEW s \in Sids
      PROVE  Streams(sent[s], Waiting(s), buffered, n + 1, Meant(s)')
  BY <1>1, <1>5, StreamsNext DEF PInv, StreamsInv
<1>6. ASSUME NEW s \in Sids
      PROVE  /\ copies(s) \in Seq(Nat)
             /\ \A i \in 1..Len(copies(s)) : copies(s)[i] = n + 1
  BY <1>1
<1>7. ASSUME NEW s \in Sids
      PROVE  Streams(sent[s] \o copies(s), Waiting(s), buffered, n + 1, Meant(s)')
  <2>1. \A i \in 1..Len(copies(s)) : copies(s)[i] \in 1..n + 1 /\ copies(s)[i] \notin buffered
    BY <1>1, <1>4, <1>6
  <2>2. n + 1 \in Nat
    BY <1>1
  <2> QED
    BY <1>5, <1>6, <2>1, <2>2, StreamsDirect
<1>8. StreamsInv'
  <2> SUFFICES ASSUME NEW s \in Sids
               PROVE  Streams(sent'[s], Waiting(s), buffered, n + 1, Meant(s)')
    BY <1>1, <1>2, <1>3 DEF StreamsInv
  <2> QED
    BY <1>2, <1>5, <1>7
<1>9. \A s \in Sids : sent'[s] \in Seq(Nat)
  BY <1>8 DEF StreamsInv, Streams
<1>10. sent' \in [Sids -> Seq(Nat)]
  BY <1>2, <1>9
<1>11. Counts'
  BY <1>1, <1>2, <1>4 DEF Counts
<1> QED
  BY <1>1, <1>2, <1>8, <1>10, <1>11 DEF PInv

LEMMA EnqueueKeeps ==
    ASSUME PInv, NEW F \in SUBSET open, NewMessage(F),
           Enqueue(scheduled + 1, F)
    PROVE  PInv'
<1> DEFINE n == scheduled
<1>1. /\ n \in Nat /\ scheduled' = n + 1 /\ scheduled' \in 0..MaxMessages
      /\ accepted' \in [1..MaxMessages -> SUBSET Sids]
      /\ \A s \in Sids, m \in 1..n : m \in Meant(s) => m \in Meant(s)'
      /\ \A s \in F : n + 1 \in Meant(s)'
      /\ UNCHANGED <<open, working>>
  BY NewMessageKeeps DEF PInv
<1>2. /\ queue' = [s \in DOMAIN queue \cup F |->
                     IF s \in F THEN Append(Waiting(s), n + 1) ELSE queue[s]]
      /\ buffered' = buffered \cup {n + 1} /\ UNCHANGED sent
  BY DEF Enqueue
<1>3. \A s \in F : Waiting(s)' = Append(Waiting(s), n + 1)
  BY <1>2 DEF Waiting
<1>4. \A s \in Sids \ F : Waiting(s)' = Waiting(s)
  BY <1>2 DEF Waiting
<1>5. ASSUME NEW s \in Sids, s \in F
      PROVE  Streams(sent[s], Append(Waiting(s), n + 1), buffered \cup {n + 1}, n + 1, Meant(s)')
  <2>1. Streams(sent[s], Waiting(s), buffered, n, Meant(s)')
    <3>1. Streams(sent[s], Waiting(s), buffered, n, Meant(s))
      BY DEF PInv, StreamsInv
    <3> QED
      BY <1>1, <3>1 DEF Streams
  <2> QED
    BY <1>1, <1>5, <2>1, StreamsQueued
<1>6. ASSUME NEW s \in Sids, s \notin F
      PROVE  Streams(sent[s], Waiting(s), buffered \cup {n + 1}, n + 1, Meant(s)')
  <2>1. \A m \in 1..n : m \in buffered \cup {n + 1} <=> m \in buffered
    BY <1>1
  <2>2. Streams(sent[s], Waiting(s), buffered, n, Meant(s))
    BY DEF PInv, StreamsInv
  <2> QED
    BY <1>1, <2>1, <2>2, StreamsNext
<1>7. StreamsInv'
  <2> SUFFICES ASSUME NEW s \in Sids
               PROVE  Streams(sent[s], Waiting(s)', buffered \cup {n + 1}, n + 1, Meant(s)')
    BY <1>1, <1>2 DEF StreamsInv
  <2> QED
    BY <1>3, <1>4, <1>5, <1>6
<1>8. Counts'
  BY <1>1, <1>2 DEF Counts, PInv
<1>9. DOMAIN queue' \subseteq open
  BY <1>2 DEF PInv
<1> QED
  BY <1>1, <1>2, <1>7, <1>8, <1>9 DEF PInv

\* Queues are written or dropped, and the life of sessions goes on.
LEMMA SessionStepKeeps ==
    ASSUME PInv, UNCHANGED <<scheduled, buffered, accepted>>,
           open' \subseteq Sids, DOMAIN queue' \subseteq open', \E f : sent' = [s \in Sids |-> f[s]],
           \A s \in Sids :
              \/ sent'[s] = sent[s] /\ (Waiting(s)' = Waiting(s) \/ Waiting(s)' = <<>>)
              \/ sent'[s] = sent[s] \o Waiting(s) /\ Waiting(s)' = <<>>
    PROVE  PInv'
<1>1. \A s \in Sids : Meant(s)' = Meant(s)
  BY DEF Meant
<1>2. StreamsInv'
  <2> SUFFICES ASSUME NEW s \in Sids
               PROVE  Streams(sent'[s], Waiting(s)', buffered, scheduled, Meant(s))
    BY <1>1 DEF StreamsInv
  <2>1. Streams(sent[s], Waiting(s), buffered, scheduled, Meant(s)) /\ scheduled \in Nat
    BY DEF PInv, StreamsInv, Counts
  <2>2. /\ Streams(sent[s] \o Waiting(s), <<>>, buffered, scheduled, Meant(s))
        /\ Streams(sent[s], <<>>, buffered, scheduled, Meant(s))
    BY <2>1, StreamsFlushed
  <2> QED
    BY <2>1, <2>2
<1>3. \A s \in Sids : sent'[s] \in Seq(Nat)
  BY <1>2 DEF StreamsInv, Streams
<1>4. sent' \in [Sids -> Seq(Nat)]
  BY <1>3
<1>5. Counts'
  BY DEF PInv, Counts
<1> QED
  BY <1>2, <1>4, <1>5 DEF PInv

LEMMA SchedulerStep ==
    ASSUME PInv, [SchedulerNext]_schedulerVars
    PROVE  PInv'
<1>1. \E f : sent = [s \in Sids |-> f[s]]
  <2>1. sent = [s \in Sids |-> sent[s]]
    BY DEF PInv
  <2> QED BY <2>1
<1>2. ASSUME UNCHANGED <<queue, sent, scheduled, buffered, accepted>>,
             open' \subseteq Sids, open \subseteq open'
      PROVE  PInv'
  <2>1. \A s \in Sids : Waiting(s)' = Waiting(s)
    BY <1>2 DEF Waiting
  <2>2. DOMAIN queue' \subseteq open' /\ \E f : sent' = [s \in Sids |-> f[s]]
    BY <1>1, <1>2 DEF PInv
  <2> QED
    BY <1>2, <2>1, <2>2, SessionStepKeeps
<1>3. open \subseteq Sids
  BY DEF PInv
<1>4. ASSUME NEW s \in Sids, Open(s) \/ HandshakeDone(s) PROVE PInv'
  BY <1>2, <1>3, <1>4 DEF Open, HandshakeDone
<1>5. ASSUME NEW s \in Sids, NEW u \in Uids, Bind(s, u) PROVE PInv'
  BY <1>2, <1>3, <1>5 DEF Bind
<1>6. ASSUME NEW s \in Sids, Close(s) PROVE PInv'
  <2>1. /\ open' = open \ {s} /\ queue' = [t \in DOMAIN queue \ {s} |-> queue[t]]
        /\ UNCHANGED <<scheduled, buffered, accepted, sent>>
    BY <1>6 DEF Close, DropQueue
  <2>2. \A t \in Sids : Waiting(t)' = Waiting(t) \/ Waiting(t)' = <<>>
    BY <2>1 DEF Waiting
  <2>3. open' \subseteq Sids /\ DOMAIN queue' \subseteq open'
    BY <1>3, <2>1 DEF PInv
  <2> QED
    BY <1>1, <2>1, <2>2, <2>3, SessionStepKeeps
<1>7. \A s \in Sids : Once[s] \in Nat
  BY DEF Once
<1>8. ASSUME NEW R \in SUBSET Sids, Push(R) PROVE PInv'
  <2>1. R \cap open \in SUBSET Sids /\ R \cap open \in SUBSET open
    OBVIOUS
  <2> QED
    BY <1>7, <1>8, <2>1, DirectKeeps, EnqueueKeeps DEF Push
<1>9. ASSUME NEW F \in SUBSET Sids, BroadcastAll(F) PROVE PInv'
  BY <1>7, <1>9, DirectKeeps, EnqueueKeeps DEF BroadcastAll
<1>10. ASSUME NEW F \in SUBSET Sids, BroadcastBinded(F) PROVE PInv'
  <2> DEFINE k == [s \in Sids |-> Cardinality({t \in F : uid[t] = uid[s]})]
  <2>1. ASSUME NEW s \in Sids PROVE k[s] \in Nat
    <3>1. IsFiniteSet(Sids) /\ {t \in F : uid[t] = uid[s]} \in SUBSET Sids
      BY SchedulerAssumption
    <3>2. IsFiniteSet({t \in F : uid[t] = uid[s]})
      BY <3>1, FS_Subset
    <3>3. Cardinality({t \in F : uid[t] = uid[s]}) \in Nat
      BY <3>2, FS_CardinalityType
    <3> QED
      BY <3>3
  <2>2. BoundSessions \in SUBSET Sids /\ F \in SUBSET open
    BY <1>3, <1>10 DEF BroadcastBinded, BoundSessions
  <2>3. \/ Direct(scheduled + 1, BoundSessions, k)
        \/ Enqueue(scheduled + 1, F)
    BY <1>10 DEF BroadcastBinded
  <2>4. NewMessage(F)
    BY <1>10 DEF BroadcastBinded
  <2> HIDE DEF k
  <2> QED
    BY <2>1, <2>2, <2>3, <2>4, DirectKeeps, EnqueueKeeps
<1>11. ASSUME Flush PROVE PInv'
  <2>1. /\ sent' = [s \in Sids |-> IF s \in open THEN Written(s, Waiting(s)) ELSE sent[s]]
        /\ queue' = [s \in DOMAIN queue |-> IF s \in open THEN <<>> ELSE queue[s]]
        /\ UNCHANGED <<open, scheduled, buffered, accepted>>
    BY <1>11 DEF Flush, sessionVars
  <2>2. DOMAIN queue' \subseteq open' /\ open' \subseteq Sids
    BY <1>3, <2>1 DEF PInv
  <2>3. \A s \in Sids : Waiting(s)' = <<>>
    BY <2>1 DEF PInv, Waiting
  <2>4. \A s \in Sids : sent'[s] = sent[s] \/ sent'[s] = sent[s] \o Waiting(s)
    BY <2>1 DEF Written
  <2>5. \E f : sent' = [s \in Sids |-> f[s]]
    BY <2>1
  <2> QED
    BY <2>1, <2>2, <2>3, <2>4, <2>5, SessionStepKeeps
<1>12. ASSUME Stop \/ UNCHANGED schedulerVars PROVE PInv'
  BY <1>2, <1>3, <1>12 DEF Stop, schedulerVars, sessionVars
<1> QED
  BY <1>4, <1>5, <1>6, <1>8, <1>9, <1>10, <1>11, <1>12 DEF SchedulerNext

LEMMA SchedulerInvariant == SchedulerSpec => []PInv
<1>1. SchedulerInit => PInv
  <2> SUFFICES ASSUME SchedulerInit PROVE PInv
    OBVIOUS
  <2>1. /\ open = {} /\ queue = <<>> /\ scheduled = 0 /\ buffered = {}
        /\ accepted = [m \in 1..MaxMessages |-> {}] /\ sent = [s \in Sids |-> <<>>]
    BY DEF SchedulerInit, Numbers
  <2>2. <<>> \in Seq(Nat) /\ Len(<<>>) = 0 /\ DOMAIN <<>> = {}
    BY EmptySeq
  <2>3. \A s \in Sids : Waiting(s) = <<>>
    BY <2>1, <2>2 DEF Waiting
  <2>4. Streams(<<>>, <<>>, {}, 0, {})
    BY <2>2 DEF Streams
  <2>5. \A s \in Sids : Meant(s) = {}
    BY <2>1 DEF Meant
  <2>6. StreamsInv
    BY <2>1, <2>3, <2>4, <2>5 DEF StreamsInv
  <2>7. Counts
    BY <2>1, SchedulerAssumption DEF Counts
  <2> QED
    BY <2>1, <2>2, <2>6, <2>7 DEF PInv
<1>2. PInv /\ [SchedulerNext]_schedulerVars => PInv'
  BY SchedulerStep
<1> QED BY <1>1, <1>2, PTL DEF SchedulerSpec

\* The variables of the schedulers have their types: what is written or queued
\* are messages that have been scheduled.
THEOREM SchedulerTypesCorrect == SchedulerSpec => []SchedulerTypeOK
<1> DEFINE Sessions == /\ over \subseteq Sids /\ working \subseteq open
                       /\ uid \in [Sids -> Uids \cup {NoUid}]
                       /\ running \in BOOLEAN
<1>1. SchedulerInit => Sessions
  BY DEF SchedulerInit
<1>2. Sessions /\ [SchedulerNext]_schedulerVars => Sessions'
  <2> SUFFICES ASSUME Sessions, [SchedulerNext]_schedulerVars PROVE Sessions'
    OBVIOUS
  <2>1. ASSUME UNCHANGED <<sessionVars, running>> PROVE Sessions'
    BY <2>1 DEF sessionVars
  <2>2. CASE \E s \in Sids : Open(s) \/ HandshakeDone(s) \/ Close(s)
    BY <2>2 DEF Open, HandshakeDone, Close
  <2>3. CASE \E s \in Sids, u \in Uids : Bind(s, u)
    BY <2>3 DEF Bind
  <2>4. CASE \E S \in SUBSET Sids : Push(S) \/ BroadcastAll(S) \/ BroadcastBinded(S)
    BY <2>1, <2>4 DEF Push, BroadcastAll, BroadcastBinded, NewMessage
  <2>5. CASE Flush \/ UNCHANGED schedulerVars
    BY <2>1, <2>5 DEF Flush, schedulerVars, sessionVars
  <2>6. CASE Stop
    BY <2>6 DEF Stop, sessionVars
  <2> QED BY <2>2, <2>3, <2>4, <2>5, <2>6 DEF SchedulerNext
<1>3. ASSUME PInv, Sessions PROVE SchedulerTypeOK
  <2>1. MaxMessages \in Nat /\ scheduled \in 0..MaxMessages
    BY <1>3, SchedulerAssumption DEF PInv, Counts
  <2>2. \A m \in 1..scheduled : m \in Numbers
    BY <2>1 DEF Numbers
  <2>3. ASSUME NEW s \in Sids PROVE sent[s] \in Seq(Numbers) /\ Waiting(s) \in Seq(Numbers)
    <3>1. Streams(sent[s], Waiting(s), buffered, scheduled, Meant(s))
      BY <1>3 DEF PInv, StreamsInv
    <3>2. ASSUME NEW x \in Seq(Nat), \A i \in 1..Len(x) : x[i] \in 1..scheduled
          PROVE  x \in Seq(Numbers)
      <4>1. \A i \in 1..Len(x) : x[i] \in Numbers
        BY <2>2, <3>2
      <4>2. Len(x) \in Nat /\ DOMAIN x = 1..Len(x)
        BY LenProperties
      <4> QED BY <4>1, <4>2, SeqDef
    <3> QED BY <3>1, <3>2 DEF Streams
  <2>4. \A s \in DOMAIN queue : queue[s] \in Seq(Numbers)
    BY <1>3, <2>3 DEF PInv, Waiting
  <2>5. sent \in [Sids -> Seq(Numbers)]
    BY <1>3, <2>3 DEF PInv
  <2> QED BY <1>3, <2>1, <2>4, <2>5 DEF PInv, Counts, SchedulerTypeOK, Numbers
<1> QED BY <1>1, <1>2, <1>3, SchedulerInvariant, PTL DEF SchedulerSpec

\* Whatever is pushed to whom, through either scheduler: what a client gets from
\* the buffer was meant for it and comes once and in order.
THEOREM InOrderCorrect ==
    SchedulerSpec => []InOrderAtMostOnce
<1>1. ASSUME PInv PROVE InOrderAtMostOnce
  <2> SUFFICES ASSUME NEW s \in Sids, NEW j \in 1..Len(sent[s]), sent[s][j] \in buffered
               PROVE  /\ s \in accepted[sent[s][j]]
                      /\ \A i \in 1..j - 1 : sent[s][i] \in buffered => sent[s][i] < sent[s][j]
    BY DEF InOrderAtMostOnce
  <2>1. Streams(sent[s], Waiting(s), buffered, scheduled, Meant(s))
    BY <1>1 DEF PInv, StreamsInv
  <2>2. Len(sent[s]) \in Nat
    BY <2>1, LenProperties DEF Streams
  <2>3. \A i \in 1..j - 1 : i \in 1..Len(sent[s]) /\ i < j
    BY <2>2
  <2> QED
    BY <2>1, <2>3 DEF Streams, Meant
<1> QED BY <1>1, SchedulerInvariant, PTL

\* The buffer keeps nothing for a session that is gone.
THEOREM QueuesOfOpenCorrect ==
    SchedulerSpec => []QueuesOfOpenSessions
<1>1. PInv => QueuesOfOpenSessions
  BY DEF PInv, QueuesOfOpenSessions
<1> QED BY <1>1, SchedulerInvariant, PTL

\* m has been written to s or is queued for it.
InStream(s, m) == \/ \E i \in 1..Len(sent[s]) : sent[s][i] = m
                  \/ \E j \in 1..Len(Waiting(s)) : Waiting(s)[j] = m

\* Of what s got or is to get nothing goes, and what comes is new.
Grows(s) == \A m : /\ InStream(s, m) => InStream(s, m)'
                   /\ InStream(s, m)' => InStream(s, m) \/ \A l : InStream(s, l) => l < m

\* What a step can do to the stream of a live client.
Extends(s) ==
    \/ sent'[s] = sent[s] /\ Waiting(s)' = Waiting(s)
    \/ sent'[s] = sent[s] \o Waiting(s) /\ Waiting(s)' = <<>>
    \/ sent'[s] = sent[s] /\ Waiting(s)' = Append(Waiting(s), scheduled + 1)
    \/ /\ Waiting(s)' = Waiting(s)
       /\ scheduled + 1 \notin buffered'
       /\ \E y \in Seq(Nat) : /\ sent'[s] = sent[s] \o y
                              /\ \A i \in 1..Len(y) : y[i] = scheduled + 1

LEMMA ConcatMembers ==
    ASSUME NEW x \in Seq(Nat), NEW y \in Seq(Nat), NEW m
    PROVE  (\E i \in 1..Len(x \o y) : (x \o y)[i] = m)
           <=> (\E i \in 1..Len(x) : x[i] = m) \/ (\E i \in 1..Len(y) : y[i] = m)
<1>1. /\ Len(x \o y) = Len(x) + Len(y) /\ Len(x) \in Nat /\ Len(y) \in Nat
      /\ \A i \in 1..Len(x) + Len(y) : (x \o y)[i] = IF i <= Len(x) THEN x[i] ELSE y[i - Len(x)]
  BY ConcatProperties, LenProperties
<1>2. ASSUME NEW i \in 1..Len(x), x[i] = m PROVE \E j \in 1..Len(x \o y) : (x \o y)[j] = m
  <2>1. i \in 1..Len(x \o y) /\ (x \o y)[i] = x[i]
    BY <1>1
  <2> QED BY <1>2, <2>1
<1>3. ASSUME NEW i \in 1..Len(y), y[i] = m PROVE \E j \in 1..Len(x \o y) : (x \o y)[j] = m
  <2>1. Len(x) + i \in 1..Len(x \o y) /\ (x \o y)[Len(x) + i] = y[i]
    BY <1>1
  <2> QED BY <1>3, <2>1
<1>4. ASSUME NEW i \in 1..Len(x \o y), (x \o y)[i] = m
      PROVE  (\E j \in 1..Len(x) : x[j] = m) \/ (\E j \in 1..Len(y) : y[j] = m)
  <2>1. CASE i <= Len(x)
    BY <1>1, <1>4, <2>1
  <2>2. CASE ~(i <= Len(x))
    <3>1. i - Len(x) \in 1..Len(y) /\ y[i - Len(x)] = m
      BY <1>1, <1>4, <2>2
    <3> QED BY <3>1
  <2> QED BY <2>1, <2>2
<1> QED BY <1>2, <1>3, <1>4

LEMMA ExtendsGrows ==
    ASSUME PInv, NEW s \in Sids, Extends(s)
    PROVE  Grows(s)
<1> DEFINE x == sent[s]
           w == Waiting(s)
<1>1. /\ x \in Seq(Nat) /\ w \in Seq(Nat) /\ scheduled \in Nat
      /\ \A i \in 1..Len(x) : x[i] \in 1..scheduled
      /\ \A j \in 1..Len(w) : w[j] \in 1..scheduled
  BY DEF PInv, StreamsInv, Streams, Counts
<1>2. \A l : InStream(s, l) => l < scheduled + 1
  BY <1>1 DEF InStream
<1>3. CASE sent'[s] = x /\ Waiting(s)' = w
  BY <1>3 DEF Grows, InStream
<1>4. CASE sent'[s] = x \o w /\ Waiting(s)' = <<>>
  <2>1. \A m : ~ \E j \in 1..Len(<<>>) : <<>>[j] = m
    BY EmptySeq
  <2>2. \A m : InStream(s, m)' <=> InStream(s, m)
    <3>1. \A m : (\E i \in 1..Len(x \o w) : (x \o w)[i] = m)
                 <=> (\E i \in 1..Len(x) : x[i] = m) \/ (\E j \in 1..Len(w) : w[j] = m)
      BY <1>1, ConcatMembers
    <3>2. \A m : InStream(s, m)' <=> \E i \in 1..Len(x \o w) : (x \o w)[i] = m
      BY <1>4, <2>1 DEF InStream
    <3> QED
      BY <3>1, <3>2 DEF InStream
  <2> QED
    BY <2>2 DEF Grows
<1>5. CASE sent'[s] = x /\ Waiting(s)' = Append(w, scheduled + 1)
  <2>1. /\ Append(w, scheduled + 1) = w \o <<scheduled + 1>>
        /\ <<scheduled + 1>> \in Seq(Nat) /\ Len(<<scheduled + 1>>) = 1
        /\ <<scheduled + 1>>[1] = scheduled + 1
    BY <1>1, AppendIsConcat
  <2>2. \A m : (\E i \in 1..Len(<<scheduled + 1>>) : <<scheduled + 1>>[i] = m) <=> m = scheduled + 1
    BY <2>1
  <2>3. \A m : InStream(s, m)' <=> InStream(s, m) \/ m = scheduled + 1
    BY <1>1, <1>5, <2>1, <2>2, ConcatMembers DEF InStream
  <2> QED
    BY <1>2, <2>3 DEF Grows
<1>6. CASE /\ Waiting(s)' = w
           /\ \E y \in Seq(Nat) : /\ sent'[s] = x \o y
                                  /\ \A i \in 1..Len(y) : y[i] = scheduled + 1
  <2>1. PICK y \in Seq(Nat) : sent'[s] = x \o y /\ \A i \in 1..Len(y) : y[i] = scheduled + 1
    BY <1>6
  <2>2. \A m : InStream(s, m)' <=> InStream(s, m) \/ \E i \in 1..Len(y) : y[i] = m
    <3>1. \A m : (\E i \in 1..Len(x \o y) : (x \o y)[i] = m)
                 <=> (\E i \in 1..Len(x) : x[i] = m) \/ (\E j \in 1..Len(y) : y[j] = m)
      BY <1>1, ConcatMembers
    <3>2. \A m : InStream(s, m)' <=> \/ \E i \in 1..Len(x \o y) : (x \o y)[i] = m
                                     \/ \E j \in 1..Len(w) : w[j] = m
      BY <1>6, <2>1 DEF InStream
    <3> QED
      BY <3>1, <3>2 DEF InStream
  <2>3. \A m : InStream(s, m)' => InStream(s, m) \/ m = scheduled + 1
    BY <2>1, <2>2
  <2> QED
    BY <1>2, <2>2, <2>3 DEF Grows
<1> QED
  BY <1>3, <1>4, <1>5, <1>6 DEF Extends

LEMMA DirectExtends ==
    ASSUME PInv, NEW s \in working, s \in Sids, NEW S, NEW k, k[s] \in Nat,
           Direct(scheduled + 1, S, k)
    PROVE  Extends(s)
<1> DEFINE copies == [i \in 1..k[s] |-> scheduled + 1]
<1>1. copies \in Seq(Nat) /\ \A i \in 1..Len(copies) : copies[i] = scheduled + 1
  BY DEF PInv, Counts
<1>2. sent'[s] = sent[s] \/ sent'[s] = sent[s] \o copies
  BY DEF Direct, Written
<1>3. Waiting(s)' = Waiting(s) /\ scheduled + 1 \notin buffered'
  BY DEF Direct, Waiting, PInv, Counts
<1> HIDE DEF copies
<1> QED
  BY <1>1, <1>2, <1>3 DEF Extends

LEMMA EnqueueExtends ==
    ASSUME NEW s, NEW F, Enqueue(scheduled + 1, F)
    PROVE  Extends(s)
<1>1. /\ queue' = [t \in DOMAIN queue \cup F |->
                     IF t \in F THEN Append(Waiting(t), scheduled + 1) ELSE queue[t]]
      /\ UNCHANGED sent
  BY DEF Enqueue
<1>2. CASE s \in F
  <2>1. Waiting(s)' = Append(Waiting(s), scheduled + 1)
    BY <1>1, <1>2 DEF Waiting
  <2> QED
    BY <1>1, <2>1 DEF Extends
<1>3. CASE s \notin F
  <2>1. Waiting(s)' = Waiting(s)
    BY <1>1, <1>3 DEF Waiting
  <2> QED
    BY <1>1, <2>1 DEF Extends
<1> QED BY <1>2, <1>3

LEMMA StepExtends ==
    ASSUME PInv, SchedulerNext, NEW s \in working \cap open', s \in Sids
    PROVE  Extends(s)
<1>1. s \in working /\ s \in open' /\ Once[s] \in Nat
  BY DEF Once
<1>2. ASSUME UNCHANGED <<queue, sent>> PROVE Extends(s)
  BY <1>2 DEF Extends, Waiting
<1>3. ASSUME NEW t \in Sids, NEW u \in Uids, Bind(t, u) PROVE Extends(s)
  BY <1>2, <1>3 DEF Bind
<1>4. ASSUME NEW t \in Sids, Close(t) PROVE Extends(s)
  <2>1. /\ s # t /\ queue' = [z \in DOMAIN queue \ {t} |-> queue[z]] /\ UNCHANGED sent
    BY <1>1, <1>4 DEF Close, DropQueue
  <2>2. Waiting(s)' = Waiting(s)
    BY <2>1 DEF Waiting
  <2> QED
    BY <2>1, <2>2 DEF Extends
<1>5. ASSUME NEW R \in SUBSET Sids, Push(R) \/ BroadcastAll(R) PROVE Extends(s)
  BY <1>1, <1>5, DirectExtends, EnqueueExtends DEF Push, BroadcastAll
<1>6. ASSUME NEW F \in SUBSET Sids, BroadcastBinded(F) PROVE Extends(s)
  <2> DEFINE k == [z \in Sids |-> Cardinality({t \in F : uid[t] = uid[z]})]
  <2>1. IsFiniteSet(Sids) /\ {t \in F : uid[t] = uid[s]} \in SUBSET Sids
    BY SchedulerAssumption
  <2>2. IsFiniteSet({t \in F : uid[t] = uid[s]})
    BY <2>1, FS_Subset
  <2>3. Cardinality({t \in F : uid[t] = uid[s]}) \in Nat
    BY <2>2, FS_CardinalityType
  <2>4. k[s] \in Nat
    BY <2>3
  <2>5. \/ Direct(scheduled + 1, BoundSessions, k)
        \/ Enqueue(scheduled + 1, F)
    BY <1>6 DEF BroadcastBinded
  <2> HIDE DEF k
  <2> QED
    BY <1>1, <2>4, <2>5, DirectExtends, EnqueueExtends
<1>7. ASSUME Flush PROVE Extends(s)
  <2>1. /\ sent' = [z \in Sids |-> IF z \in open THEN Written(z, Waiting(z)) ELSE sent[z]]
        /\ queue' = [z \in DOMAIN queue |-> IF z \in open THEN <<>> ELSE queue[z]]
        /\ UNCHANGED open
    BY <1>7 DEF Flush, sessionVars
  <2>2. Waiting(s)' = <<>>
    BY <1>1, <2>1 DEF Waiting
  <2>3. sent'[s] = sent[s] \o Waiting(s)
    BY <1>1, <2>1 DEF Written
  <2> QED
    BY <2>2, <2>3 DEF Extends
<1>8. ASSUME Stop PROVE Extends(s)
  BY <1>2, <1>8 DEF Stop
<1>9. ASSUME NEW t \in Sids, Open(t) \/ HandshakeDone(t) PROVE Extends(s)
  BY <1>2, <1>9 DEF Open, HandshakeDone
<1> QED
  BY <1>3, <1>4, <1>5, <1>6, <1>7, <1>8, <1>9 DEF SchedulerNext

\* No step loses what a live client got or is to get through a scheduler, and
\* what a step adds was scheduled after all of it.
THEOREM NothingLost ==
    SchedulerSpec => [][\A s \in working \cap open' : Grows(s)]_schedulerVars
<1>1. ASSUME PInv, SchedulerNext, NEW s \in working \cap open', s \in Sids PROVE Grows(s)
  BY <1>1, StepExtends, ExtendsGrows
<1>2. PInv /\ PInv' /\ [SchedulerNext]_schedulerVars
      => [\A s \in working \cap open' : Grows(s)]_schedulerVars
  <2> SUFFICES ASSUME PInv, PInv', SchedulerNext, NEW s \in working \cap open' PROVE Grows(s)
    OBVIOUS
  <2>1. s \in Sids
    BY DEF PInv
  <2> QED
    BY <1>1, <2>1
<1> QED BY <1>2, SchedulerInvariant, PTL DEF SchedulerSpec

LEMMA PrefixOfConcat ==
    ASSUME NEW x \in Seq(Nat), NEW y \in Seq(Nat)
    PROVE  Seqs!IsPrefix(x, x \o y)
<1>1. /\ x \o y \in Seq(Nat) /\ Len(x \o y) = Len(x) + Len(y) /\ Len(x) \in Nat /\ Len(y) \in Nat
      /\ \A i \in 1..Len(x) : (x \o y)[i] = x[i] /\ (x \o y)[i] \in Nat /\ x[i] \in Nat
  BY ConcatProperties, LenProperties, ElementOfSeq
<1>2. /\ SubSeq(x, 1, Len(x)) \in Seq(Nat) /\ SubSeq(x \o y, 1, Len(x)) \in Seq(Nat)
      /\ Len(SubSeq(x, 1, Len(x))) = Len(x) /\ Len(SubSeq(x \o y, 1, Len(x))) = Len(x)
      /\ \A i \in 1..Len(x) : SubSeq(x, 1, Len(x))[i] = SubSeq(x \o y, 1, Len(x))[i]
  BY <1>1
<1>3. SubSeq(x, 1, Len(x)) = SubSeq(x \o y, 1, Len(x))
  BY <1>1, <1>2, SeqEqual
<1> QED BY <1>1, <1>3 DEF Seqs!IsPrefix

LEMMA RestOfConcat ==
    ASSUME NEW x \in Seq(Nat), NEW y \in Seq(Nat)
    PROVE  SubSeq(x \o y, Len(x) + 1, Len(x \o y)) = y
<1> DEFINE z == SubSeq(x \o y, Len(x) + 1, Len(x \o y))
<1>1. /\ x \o y \in Seq(Nat) /\ Len(x \o y) = Len(x) + Len(y) /\ Len(x) \in Nat /\ Len(y) \in Nat
      /\ \A i \in 1..Len(y) : (x \o y)[Len(x) + i] = y[i]
      /\ \A i \in 1..Len(x) + Len(y) : (x \o y)[i] \in Nat
  BY ConcatProperties, LenProperties, ElementOfSeq
<1>2. z \in Seq(Nat) /\ Len(z) = Len(y) /\ \A i \in 1..Len(y) : z[i] = (x \o y)[Len(x) + i]
  BY <1>1
<1> QED BY <1>1, <1>2, SeqEqual

\* x was written and w queued, now it is x2 and w2, of which the buffer took B.
GoesOn(x, w, x2, w2, B) ==
    LET y == SubSeq(x2, Len(x) + 1, Len(x2)) IN
    /\ Seqs!IsPrefix(x, x2)
    /\ \/ (\A i \in 1..Len(y) : y[i] \notin B) /\ Seqs!IsPrefix(w, w2)
       \/ (\A i \in 1..Len(y) : y[i] \in B) /\ Seqs!IsPrefix(w, y \o w2)

LEMMA GoesOnDirect ==
    ASSUME NEW x \in Seq(Nat), NEW w \in Seq(Nat), NEW y \in Seq(Nat), NEW v \in Seq(Nat),
           NEW B, \A i \in 1..Len(y) : y[i] \notin B
    PROVE  GoesOn(x, w, x \o y, w \o v, B)
BY PrefixOfConcat, RestOfConcat DEF GoesOn

LEMMA GoesOnQueued ==
    ASSUME NEW x \in Seq(Nat), NEW w \in Seq(Nat), NEW v \in Seq(Nat), NEW B
    PROVE  GoesOn(x, w, x, w \o v, B)
<1> DEFINE y == <<>>
<1>1. y \in Seq(Nat) /\ x = x \o y /\ \A i \in 1..Len(y) : y[i] \notin B
  BY ConcatEmptySeq, EmptySeq
<1> HIDE DEF y
<1>2. GoesOn(x, w, x \o y, w \o v, B)
  BY <1>1, GoesOnDirect
<1> QED BY <1>1, <1>2

LEMMA GoesOnFlushed ==
    ASSUME NEW x \in Seq(Nat), NEW w \in Seq(Nat), NEW B, \A i \in 1..Len(w) : w[i] \in B
    PROVE  GoesOn(x, w, x \o w, <<>>, B)
BY PrefixOfConcat, RestOfConcat, EmptySeq DEF GoesOn

LEMMA ExtendsGoesOn ==
    ASSUME PInv, NEW s \in Sids, Extends(s), buffered \subseteq buffered'
    PROVE  GoesOn(sent[s], Waiting(s), sent'[s], Waiting(s)', buffered')
<1> DEFINE x == sent[s]
           w == Waiting(s)
<1>1. /\ x \in Seq(Nat) /\ w \in Seq(Nat) /\ scheduled \in Nat
      /\ \A j \in 1..Len(w) : w[j] \in buffered'
      /\ <<>> \in Seq(Nat) /\ Len(<<>>) = 0 /\ x = x \o <<>> /\ w = w \o <<>>
  BY ConcatEmptySeq, EmptySeq DEF PInv, StreamsInv, Streams, Counts
<1>2. CASE sent'[s] = x /\ Waiting(s)' = w
  <2>1. GoesOn(x, w, x, w \o <<>>, buffered')
    BY <1>1, GoesOnQueued
  <2> QED BY <1>1, <1>2, <2>1
<1>3. CASE sent'[s] = x \o w /\ Waiting(s)' = <<>>
  BY <1>1, <1>3, GoesOnFlushed
<1>4. CASE sent'[s] = x /\ Waiting(s)' = Append(w, scheduled + 1)
  <2>1. Append(w, scheduled + 1) = w \o <<scheduled + 1>> /\ <<scheduled + 1>> \in Seq(Nat)
    BY <1>1, AppendIsConcat
  <2>2. GoesOn(x, w, x, w \o <<scheduled + 1>>, buffered')
    BY <1>1, <2>1, GoesOnQueued
  <2> QED BY <1>1, <1>4, <2>1, <2>2
<1>5. ASSUME Waiting(s)' = w, scheduled + 1 \notin buffered', NEW y \in Seq(Nat),
             sent'[s] = x \o y, \A i \in 1..Len(y) : y[i] = scheduled + 1
      PROVE  GoesOn(x, w, sent'[s], Waiting(s)', buffered')
  <2>1. GoesOn(x, w, x \o y, w \o <<>>, buffered')
    BY <1>1, <1>5, GoesOnDirect
  <2> QED BY <1>1, <1>5, <2>1
<1> QED BY <1>2, <1>3, <1>4, <1>5 DEF Extends

LEMMA BufferedGrows ==
    ASSUME SchedulerNext
    PROVE  buffered \subseteq buffered'
BY DEF SchedulerNext, Open, HandshakeDone, Bind, Close, Push, BroadcastAll, BroadcastBinded,
       Direct, Enqueue, Flush, Stop

\* Whatever is pushed, flushed and closed: for a live client a step goes on with
\* the messages of the buffer where the one before ended.
THEOREM StreamCorrect == SchedulerSpec => StreamOnlyGrows
<1> DEFINE Step(s) == GoesOn(sent[s], Waiting(s), sent'[s], Waiting(s)', buffered')
<1>1. PInv /\ [SchedulerNext]_schedulerVars
      => [\A s \in working \cap open' : Step(s)]_schedulerVars
  <2> SUFFICES ASSUME PInv, SchedulerNext, NEW s \in working \cap open' PROVE Step(s)
    OBVIOUS
  <2>1. s \in Sids
    <3>1. open' \subseteq Sids
      BY SchedulerStep DEF PInv
    <3> QED BY <3>1
  <2> QED BY <2>1, StepExtends, BufferedGrows, ExtendsGoesOn
<1>2. [\A s \in working \cap open' : Step(s)]_schedulerVars
      => [\A s \in working \cap open' :
            /\ Seqs!IsPrefix(sent[s], sent[s]')
            /\ \/ /\ \A i \in 1..Len(Added(s)) : Added(s)[i] \notin buffered'
                  /\ Seqs!IsPrefix(Waiting(s), Waiting(s)')
               \/ /\ \A i \in 1..Len(Added(s)) : Added(s)[i] \in buffered'
                  /\ Seqs!IsPrefix(Waiting(s), Added(s) \o Waiting(s)')]_schedulerVars
  BY DEF GoesOn, Added
<1> QED BY <1>1, <1>2, SchedulerInvariant, PTL DEF SchedulerSpec, StreamOnlyGrows
=============================================================================
