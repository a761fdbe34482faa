--------------------------- MODULE Cluster_proofs ---------------------------
(***************************************************************************)
(* Proofs about Cluster, for every finite set of servers and every number  *)
(* of faults.                                                              *)
(***************************************************************************)
EXTENDS Cluster, FiniteSetTheorems, SequenceTheorems, TLAPS

-----------------------------------------------------------------------------
(* Messages under way *)

\* What a server with the list v will think of x when the messages of p have
\* arrived: WillHave, for any p and v.
Will(p, v, x) ==
    LET said == {i \in 1..Len(p) : Mentions(p[i], x)}
    IN  IF said = {} THEN x \in v
        ELSE \E i \in said : (\A j \in said : j <= i) /\ Keeps(p[i], x)

LEMMA WillHaveIsWill == \A s, x : WillHave(s, x) <=> Will(pending[s], view[s], x)
BY DEF WillHave, Will

LEMMA MessageTypes ==
    ASSUME NEW s \in Servers, NEW S \in SUBSET Servers
    PROVE  /\ Add(s) \in Message /\ Remove(s) \in Message /\ List(S) \in Message
           /\ Replace(S) \in Message /\ StartOver \in Message
BY DEF Add, Remove, List, Replace, StartOver, Message

LEMMA MessageKinds ==
    ASSUME NEW m \in Message
    PROVE  \/ m.type \in {"addServer", "removeServer"} /\ m.id \in Servers
           \/ m.type \in {"servers", "replaceServer"} /\ m.ids \in SUBSET Servers
           \/ m.type = "startOver"
BY DEF Message

\* What a message does to a list.
LEMMA AppliedProperties ==
    ASSUME NEW m \in Message, NEW S \in SUBSET Servers
    PROVE  /\ Applied(S, m) \in SUBSET Servers
           /\ \A x \in Servers :
                 x \in Applied(S, m) <=> IF Mentions(m, x) THEN Keeps(m, x) ELSE x \in S
<1>1. CASE m.type = "addServer" /\ m.id \in Servers
  BY <1>1 DEF Applied, Mentions, Keeps
<1>2. CASE m.type = "removeServer" /\ m.id \in Servers
  BY <1>2 DEF Applied, Mentions, Keeps
<1>3. CASE m.type = "servers" /\ m.ids \in SUBSET Servers
  BY <1>3 DEF Applied, Mentions, Keeps
<1>4. CASE m.type = "replaceServer" /\ m.ids \in SUBSET Servers
  BY <1>4 DEF Applied, Mentions, Keeps
<1>5. CASE m.type = "startOver"
  BY <1>5 DEF Applied, Mentions, Keeps
<1> QED BY <1>1, <1>2, <1>3, <1>4, <1>5, MessageKinds

LEMMA OneMore ==
    ASSUME NEW p \in Seq(Message), NEW m \in Message
    PROVE  /\ p \o <<m>> \in Seq(Message) /\ Len(p) \in Nat
           /\ Len(p \o <<m>>) = Len(p) + 1
           /\ \A i \in 1..Len(p) : (p \o <<m>>)[i] = p[i]
           /\ (p \o <<m>>)[Len(p) + 1] = m
<1>1. <<m>> \in Seq(Message) /\ Len(<<m>>) = 1 /\ <<m>>[1] = m
  OBVIOUS
<1> QED BY <1>1, ConcatProperties, LenProperties

\* A message more decides, if it mentions x.
LEMMA WillAppend ==
    ASSUME NEW p \in Seq(Message), NEW m \in Message, NEW v, NEW x
    PROVE  Will(p \o <<m>>, v, x) <=> IF Mentions(m, x) THEN Keeps(m, x) ELSE Will(p, v, x)
<1> DEFINE q == p \o <<m>>
           n == Len(p)
           said == {i \in 1..n : Mentions(p[i], x)}
           now == {i \in 1..Len(q) : Mentions(q[i], x)}
<1>1. /\ n \in Nat /\ Len(q) = n + 1 /\ q[n + 1] = m
      /\ \A i \in 1..n : q[i] = p[i]
  BY OneMore
<1> HIDE DEF q, n
<1>2. now = IF Mentions(m, x) THEN said \cup {n + 1} ELSE said
  BY <1>1
<1>3. CASE Mentions(m, x)
  <2>1. n + 1 \in now /\ \A j \in now : j <= n + 1
    BY <1>1, <1>2, <1>3
  <2>2. \A i \in now : (\A j \in now : j <= i) => i = n + 1
    BY <1>1, <2>1
  <2> HIDE DEF now
  <2>3. Will(q, v, x) <=> \E i \in now : (\A j \in now : j <= i) /\ Keeps(q[i], x)
    BY <2>1 DEF Will, now
  <2> QED BY <1>1, <1>3, <2>1, <2>2, <2>3 DEF q
<1>4. CASE ~Mentions(m, x)
  <2>1. now = said /\ \A i \in said : q[i] = p[i]
    BY <1>1, <1>2, <1>4
  <2> QED BY <1>4, <2>1 DEF Will, n, q
<1> QED BY <1>3, <1>4

\* A message that arrives takes its part with it.
LEMMA WillTail ==
    ASSUME NEW p \in Seq(Message), p # <<>>, NEW v \in SUBSET Servers, NEW x \in Servers
    PROVE  Will(Tail(p), Applied(v, Head(p)), x) <=> Will(p, v, x)
<1> DEFINE t == Tail(p)
           m == Head(p)
           n == Len(p)
           said == {i \in 1..n : Mentions(p[i], x)}
           rest == {i \in 1..Len(t) : Mentions(t[i], x)}
<1>1. /\ n \in Nat \ {0} /\ m = p[1] /\ m \in Message /\ Len(t) = n - 1
      /\ \A i \in 1..n - 1 : t[i] = p[i + 1]
  BY HeadTailProperties, EmptySeq
<1> HIDE DEF t, m, n
<1>2. x \in Applied(v, m) <=> IF Mentions(m, x) THEN Keeps(m, x) ELSE x \in v
  BY <1>1, AppliedProperties
<1>3. \A i \in 1..n : i # 1 => (i - 1 \in 1..n - 1 /\ t[i - 1] = p[i])
  <2> SUFFICES ASSUME NEW i \in 1..n, i # 1 PROVE i - 1 \in 1..n - 1 /\ t[i - 1] = p[i]
    OBVIOUS
  <2>1. i - 1 \in 1..n - 1 /\ (i - 1) + 1 = i
    BY <1>1
  <2> QED BY <1>1, <2>1
<1>4. /\ \A i \in rest : i + 1 \in said /\ t[i] = p[i + 1]
      /\ \A i \in said : i # 1 => i - 1 \in rest /\ t[i - 1] = p[i]
      /\ 1 \in said <=> Mentions(m, x)
  BY <1>1, <1>3
<1>5. rest \subseteq Nat \ {0} /\ said \subseteq Nat \ {0}
  BY <1>1
<1>6. /\ Will(t, Applied(v, m), x) <=>
            IF rest = {} THEN x \in Applied(v, m)
            ELSE \E i \in rest : (\A j \in rest : j <= i) /\ Keeps(t[i], x)
      /\ Will(p, v, x) <=>
            IF said = {} THEN x \in v
            ELSE \E i \in said : (\A j \in said : j <= i) /\ Keeps(p[i], x)
  BY DEF Will, n
<1> HIDE DEF said, rest
<1>7. CASE rest = {}
  <2>1. said \subseteq {1}
    BY <1>4, <1>7
  <2>2. CASE said = {}
    BY <1>2, <1>4, <1>6, <1>7, <2>2 DEF t, m
  <2>3. CASE said = {1}
    BY <1>1, <1>2, <1>4, <1>6, <1>7, <2>3 DEF t, m
  <2> QED BY <2>1, <2>2, <2>3
<1>8. CASE rest # {}
  <2>1. said # {}
    BY <1>4, <1>8
  <2>2. ASSUME NEW i \in rest, \A j \in rest : j <= i, Keeps(t[i], x)
        PROVE  \E k \in said : (\A j \in said : j <= k) /\ Keeps(p[k], x)
    <3>1. i + 1 \in said /\ Keeps(p[i + 1], x)
      BY <1>4, <2>2
    <3>2. \A j \in said : j <= i + 1
      BY <1>4, <1>5, <2>2
    <3> QED BY <3>1, <3>2
  <2>3. ASSUME NEW i \in said, \A j \in said : j <= i, Keeps(p[i], x)
        PROVE  \E k \in rest : (\A j \in rest : j <= k) /\ Keeps(t[k], x)
    <3>1. PICK k \in rest : TRUE
      BY <1>8
    <3>2. i # 1
      BY <1>4, <1>5, <2>3, <3>1
    <3>3. i - 1 \in rest /\ Keeps(t[i - 1], x)
      BY <1>4, <2>3, <3>2
    <3>4. \A j \in rest : j <= i - 1
      BY <1>4, <1>5, <2>3
    <3> QED BY <3>3, <3>4
  <2> QED BY <1>6, <1>8, <2>1, <2>2, <2>3 DEF t, m
<1> QED BY <1>7, <1>8

LEMMA WillEmpty == \A v, x : Will(<<>>, v, x) <=> x \in v
<1>1. Len(<<>>) = 0
  OBVIOUS
<1>2. \A x : {i \in 1..Len(<<>>) : Mentions(<<>>[i], x)} = {}
  BY <1>1
<1> QED BY <1>2 DEF Will

\* Where startOver and the list are among the messages.
Overs(p) == {i \in 1..Len(p) : p[i] = StartOver}
Lists(p) == {i \in 1..Len(p) : p[i].type = "servers"}

LEMMA PlacesAppend ==
    ASSUME NEW p \in Seq(Message), NEW m \in Message
    PROVE  /\ Overs(p \o <<m>>) = IF m = StartOver THEN Overs(p) \cup {Len(p) + 1} ELSE Overs(p)
           /\ Lists(p \o <<m>>) = IF m.type = "servers" THEN Lists(p) \cup {Len(p) + 1}
                                                        ELSE Lists(p)
<1> DEFINE q == p \o <<m>>
           n == Len(p)
<1>1. /\ n \in Nat /\ Len(q) = n + 1 /\ q[n + 1] = m
      /\ \A i \in 1..n : q[i] = p[i]
  BY OneMore
<1> HIDE DEF q, n
<1>2. /\ {i \in 1..n + 1 : q[i] = StartOver} =
            IF m = StartOver THEN {i \in 1..n : p[i] = StartOver} \cup {n + 1}
                             ELSE {i \in 1..n : p[i] = StartOver}
      /\ {i \in 1..n + 1 : q[i].type = "servers"} =
            IF m.type = "servers" THEN {i \in 1..n : p[i].type = "servers"} \cup {n + 1}
                                  ELSE {i \in 1..n : p[i].type = "servers"}
  BY <1>1
<1> QED BY <1>1, <1>2 DEF Overs, Lists, q, n

LEMMA PlacesTail ==
    ASSUME NEW p \in Seq(Message), p # <<>>
    PROVE  /\ \A i : i \in Overs(Tail(p)) <=> i \in Nat \ {0} /\ i + 1 \in Overs(p)
           /\ \A i : i \in Lists(Tail(p)) <=> i \in Nat \ {0} /\ i + 1 \in Lists(p)
           /\ 1 \in Overs(p) <=> Head(p) = StartOver
           /\ 1 \in Lists(p) <=> Head(p).type = "servers"
           /\ Overs(p) \subseteq Nat \ {0} /\ Lists(p) \subseteq Nat \ {0}
<1> DEFINE t == Tail(p)
           n == Len(p)
<1>1. /\ n \in Nat \ {0} /\ Head(p) = p[1] /\ Len(t) = n - 1
      /\ \A i \in 1..n - 1 : t[i] = p[i + 1]
  BY HeadTailProperties, EmptySeq
<1> HIDE DEF t, n
<1>2. \A i : i \in 1..n - 1 <=> i \in Nat \ {0} /\ i + 1 \in 1..n
  BY <1>1
<1> QED BY <1>1, <1>2 DEF Overs, Lists, t, n

LEMMA PlacesEmpty == Overs(<<>>) = {} /\ Lists(<<>>) = {}
<1>1. Len(<<>>) = 0
  OBVIOUS
<1> QED BY <1>1 DEF Overs, Lists

LEMMA PendingTypes ==
    ASSUME TypeOK, NEW s \in Servers
    PROVE  /\ pending[s] \in Seq(Message) /\ view[s] \in SUBSET Servers /\ heard[s] \in Nat
           /\ \A m \in Message : pending[s] \o <<m>> \in Seq(Message)
<1>1. pending[s] \in Seq(Message) /\ view[s] \in SUBSET Servers /\ heard[s] \in Nat
  BY DEF TypeOK
<1> QED BY <1>1, OneMore

\* A notification goes to those who listen over a standing connection.
LEMMA NotifyReaches ==
    ASSUME NEW m, Notify(m)
    PROVE  /\ DOMAIN pending' = Servers
           /\ pending' = [s \in Servers |-> pending'[s]]
           /\ \A s \in Servers :
                 pending'[s] = IF Listening(s) THEN pending[s] \o <<m>> ELSE pending[s]
BY DEF Notify, SentTo, Listening

-----------------------------------------------------------------------------
(* Types *)

LEMMA NotifyType ==
    ASSUME TypeOK, NEW m \in Message, Notify(m)
    PROVE  pending' \in [Servers -> Seq(Message)]
<1>1. \A s \in Servers : pending'[s] \in Seq(Message)
  BY NotifyReaches, PendingTypes
<1> QED BY <1>1, NotifyReaches

LEMMA StepType == TypeOK /\ [Next]_vars => TypeOK'
<1> SUFFICES ASSUME TypeOK, [Next]_vars PROVE TypeOK'
  OBVIOUS
<1> USE ClusterAssumption
<1>1. ASSUME NEW s \in Servers, Register(s) PROVE TypeOK'
  <2>1. CASE s = Master
    BY <1>1, <2>1 DEF TypeOK, Register
  <2>2. CASE s # Master
    <3>1. pending' \in [Servers -> Seq(Message)]
      BY <1>1, <2>2, NotifyType, MessageTypes DEF Register
    <3> QED BY <1>1, <2>2, <3>1 DEF TypeOK, Register
  <2> QED BY <2>1, <2>2
<1>2. ASSUME NEW s \in Servers, Subscribe(s) PROVE TypeOK'
  <2>1. List(servers) \in Message
    BY MessageTypes DEF TypeOK
  <2>2. pending[s] \o <<List(servers)>> \in Seq(Message)
    BY <2>1, PendingTypes
  <2> QED BY <1>2, <2>2 DEF TypeOK, Subscribe
<1>3. ASSUME NEW s \in Servers, Deliver(s) PROVE TypeOK'
  <2> DEFINE m == Head(pending[s])
  <2>1. pending[s] \in Seq(Message) /\ pending[s] # <<>>
    BY <1>3 DEF TypeOK, Deliver
  <2>2. m \in Message /\ Tail(pending[s]) \in Seq(Message)
    BY <2>1, HeadTailProperties
  <2>3. Applied(view[s], m) \in SUBSET Servers
    BY <2>2, PendingTypes, AppliedProperties
  <2>4. /\ view' = [view EXCEPT ![s] = Applied(@, m)]
        /\ phase' = [phase EXCEPT ![s] = IF m.type = "servers" THEN "starting" ELSE @]
        /\ heard' = [heard EXCEPT ![s] = IF m.type = "startOver" THEN @ + 1 ELSE @]
        /\ pending' = [pending EXCEPT ![s] = Tail(@)]
        /\ UNCHANGED <<masterVars, link, faults>>
    BY <1>3 DEF Deliver
  <2> HIDE DEF m
  <2>5. view' \in [Servers -> SUBSET Servers]
    BY <2>3, <2>4 DEF TypeOK
  <2>6. /\ pending' \in [Servers -> Seq(Message)] /\ heard' \in [Servers -> Nat]
        /\ phase' \in [Servers -> {"off", "registered", "subscribed", "starting", "started",
                                   "stuck"}]
    BY <2>2, <2>4 DEF TypeOK
  <2> QED BY <2>4, <2>5, <2>6 DEF TypeOK, masterVars
<1>4. ASSUME NEW s \in Servers, Started(s) PROVE TypeOK'
  <2>1. pending' \in [Servers -> Seq(Message)]
    <3>1. Notify(StartOver) \/ UNCHANGED pending
      BY <1>4 DEF Started, Record
    <3> QED BY <3>1, NotifyType, MessageTypes DEF TypeOK
  <2>2. count' \in Int /\ isStarted' \in BOOLEAN
    <3>1. CASE Record
      BY <3>1 DEF TypeOK, Record
    <3>2. CASE UNCHANGED <<count, isStarted, pending>>
      BY <3>2 DEF TypeOK
    <3> QED BY <1>4, <3>1, <3>2 DEF Started
  <2>3. phase' = [phase EXCEPT ![s] = "started"]
        /\ UNCHANGED <<servers, listeners, link, view, heard, faults>>
    BY <1>4 DEF Started
  <2> QED BY <2>1, <2>2, <2>3 DEF TypeOK
<1>5. ASSUME NEW s \in Servers, Break(s) \/ Crash(s) PROVE TypeOK'
  <2>1. <<>> \in Seq(Message)
    BY EmptySeq
  <2>2. faults' \in 0..MaxFaults /\ UNCHANGED masterVars
    BY <1>5 DEF TypeOK, Break, Crash
  <2>3. pending' = [pending EXCEPT ![s] = <<>>]
    BY <1>5 DEF Break, Crash
  <2>4. /\ link' \in [Servers -> {"none", "up", "broken"}]
        /\ phase' \in [Servers -> {"off", "registered", "subscribed", "starting", "started",
                                   "stuck"}]
    BY <1>5 DEF TypeOK, Break, Crash, Interrupted
  <2>5. view' \in [Servers -> SUBSET Servers] /\ heard' \in [Servers -> Nat]
    <3>1. CASE Break(s)
      BY <3>1 DEF TypeOK, Break
    <3>2. CASE Crash(s)
      BY <3>2 DEF TypeOK, Crash
    <3> QED BY <1>5, <3>1, <3>2
  <2> QED BY <2>1, <2>2, <2>3, <2>4, <2>5 DEF TypeOK, masterVars
<1>6. CASE MasterCrash
  <2>1. <<>> \in Seq(Message)
    BY EmptySeq
  <2>2. ConfigSize \in Int
    BY FS_CardinalityType DEF ConfigSize
  <2>3. phase' \in [Servers -> {"off", "registered", "subscribed", "starting", "started",
                                "stuck"}]
    BY <1>6 DEF TypeOK, MasterCrash, Interrupted
  <2>4. faults' \in 0..MaxFaults /\ view' \in [Servers -> SUBSET Servers]
        /\ heard' \in [Servers -> Nat]
    BY <1>6 DEF TypeOK, MasterCrash
  <2>5. /\ servers' = {} /\ listeners' = {} /\ count' = ConfigSize /\ isStarted' = FALSE
        /\ link' = [s \in Servers |-> "none"] /\ pending' = [s \in Servers |-> <<>>]
    BY <1>6 DEF MasterCrash
  <2> QED BY <2>1, <2>2, <2>3, <2>4, <2>5 DEF TypeOK
<1>7. ASSUME NEW s \in Servers, RemoveServer(s) PROVE TypeOK'
  <2>1. \A t \in Servers : pending[t] \o <<Remove(s)>> \in Seq(Message)
    BY MessageTypes, PendingTypes
  <2>2. pending' \in [Servers -> Seq(Message)]
    BY <1>7, <2>1 DEF TypeOK, RemoveServer, SentTo
  <2> QED BY <1>7, <2>2 DEF TypeOK, RemoveServer
<1>8. ASSUME NEW s \in Servers, ReconnectServer(s) PROVE TypeOK'
  <2>1. servers' \in SUBSET Servers
    BY <1>8 DEF TypeOK, ReconnectServer
  <2>2. PICK m \in Message : m = Replace(servers')
    BY <2>1, MessageTypes
  <2>3. \A t \in Servers : /\ pending[t] \o <<Add(s)>> \in Seq(Message)
                           /\ pending[t] \o <<m>> \in Seq(Message)
    BY MessageTypes, PendingTypes
  <2>4. pending' \in [Servers -> Seq(Message)]
    BY <1>8, <2>2, <2>3 DEF TypeOK, ReconnectServer, SentTo
  <2> QED BY <1>8, <2>1, <2>4 DEF TypeOK, ReconnectServer
<1>9. CASE UNCHANGED vars
  BY <1>9 DEF TypeOK, vars
<1> QED BY <1>1, <1>2, <1>3, <1>4, <1>5, <1>6, <1>7, <1>8, <1>9 DEF Next

-----------------------------------------------------------------------------
(* Connections and what is under way on them *)

\* Nothing is under way to who does not listen, or over a broken connection.  Who
\* waits for its list has heard of nobody, and only one list is under way.
LinkOf(s) ==
    /\ link[s] # "up" => pending[s] = <<>>
    /\ link[s] = "none" => s \notin listeners
    /\ s \notin listeners => pending[s] = <<>>
    /\ phase[s] = "off" => link[s] # "up" /\ view[s] = {}
    /\ phase[s] = "registered" => link[s] = "up" /\ s \notin listeners /\ view[s] = {}
    /\ \A i \in Lists(pending[s]) : phase[s] = "subscribed" /\ \A j \in Lists(pending[s]) : i = j

Links == \A s \in Servers : LinkOf(s)

LEMMA SameLink ==
    ASSUME NEW s, LinkOf(s), link'[s] = link[s], s \in listeners' <=> s \in listeners,
           phase'[s] = phase[s], view'[s] = view[s], pending'[s] = pending[s]
    PROVE  LinkOf(s)'
BY DEF LinkOf

\* Anything but a list may be sent to who listens.
LEMMA NoticeLink ==
    ASSUME TypeOK, NEW s \in Servers, LinkOf(s), NEW m \in Message, m.type # "servers",
           Listening(s), link'[s] = link[s], s \in listeners' <=> s \in listeners,
           phase'[s] = phase[s] \/ (phase[s] = "starting" /\ phase'[s] = "started"),
           view'[s] = view[s], pending'[s] = pending[s] \o <<m>>
    PROVE  LinkOf(s)'
<1>1. Lists(pending'[s]) = Lists(pending[s])
  BY PendingTypes, PlacesAppend
<1> QED BY <1>1 DEF LinkOf, Listening

LEMMA NoticeKinds ==
    ASSUME NEW s \in Servers, NEW S
    PROVE  Add(s).type # "servers" /\ Remove(s).type # "servers" /\ Replace(S).type # "servers"
           /\ StartOver.type # "servers" /\ List(S).type = "servers"
           /\ Add(s) # StartOver /\ Remove(s) # StartOver /\ Replace(S) # StartOver
           /\ List(S) # StartOver
BY DEF Add, Remove, Replace, List, StartOver

LEMMA StepLinks == TypeOK /\ Links /\ [Next]_vars => Links'
<1> SUFFICES ASSUME TypeOK, Links, [Next]_vars, NEW t \in Servers PROVE LinkOf(t)'
  BY DEF Links
<1>1. LinkOf(t)
  BY DEF Links
<1>2. ASSUME NEW s \in Servers, Register(s) PROVE LinkOf(t)'
  <2>1. /\ Notify(Add(s)) \/ UNCHANGED pending
        /\ link' = [link EXCEPT ![s] = "up"] /\ link[s] = "none"
        /\ phase' = [phase EXCEPT ![s] = "registered"] /\ phase[s] = "off"
        /\ UNCHANGED listeners /\ UNCHANGED view
    BY <1>2 DEF Register
  <2>2. CASE t = s
    <3>1. t \notin listeners /\ pending[t] = <<>> /\ view[t] = {}
      BY <1>1, <2>1, <2>2 DEF LinkOf
    <3>2. pending'[t] = <<>>
      BY <2>1, <3>1, NotifyReaches DEF Listening
    <3> QED BY <2>1, <2>2, <3>1, <3>2, PlacesEmpty DEF LinkOf, TypeOK
  <2>3. CASE t # s /\ Notify(Add(s)) /\ Listening(t)
    <3>1. PICK m \in Message : m = Add(s) /\ m.type # "servers"
      BY MessageTypes, NoticeKinds
    <3>2. pending'[t] = pending[t] \o <<m>>
      BY <2>3, <3>1, NotifyReaches
    <3> QED BY <1>1, <2>1, <2>3, <3>1, <3>2, NoticeLink DEF TypeOK
  <2>4. CASE t # s /\ ~(Notify(Add(s)) /\ Listening(t))
    BY <1>1, <2>1, <2>4, NotifyReaches, SameLink DEF TypeOK
  <2> QED BY <2>2, <2>3, <2>4
<1>3. ASSUME NEW s \in Servers, Subscribe(s) PROVE LinkOf(t)'
  <2>1. /\ phase[s] = "registered" /\ link[s] = "up" /\ listeners' = listeners \cup {s}
        /\ phase' = [phase EXCEPT ![s] = "subscribed"] /\ UNCHANGED link /\ UNCHANGED view
        /\ pending' = [pending EXCEPT ![s] = @ \o <<List(servers)>>]
    BY <1>3 DEF Subscribe
  <2>2. CASE t = s
    <3>1. pending[t] = <<>> /\ pending'[t] = pending[t] \o <<List(servers)>>
      BY <1>1, <2>1, <2>2 DEF LinkOf, TypeOK
    <3>2. PICK m \in Message : m = List(servers) /\ m.type = "servers"
      BY MessageTypes, NoticeKinds DEF TypeOK
    <3>3. Lists(pending'[t]) = Lists(pending[t]) \cup {Len(pending[t]) + 1}
      <4>1. pending[t] \in Seq(Message) /\ pending'[t] = pending[t] \o <<m>>
        BY <3>1, <3>2, PendingTypes
      <4>2. Lists(pending[t] \o <<m>>) = Lists(pending[t]) \cup {Len(pending[t]) + 1}
        BY <3>2, <4>1, PlacesAppend
      <4> QED BY <4>1, <4>2
    <3>4. Lists(pending'[t]) = {Len(pending[t]) + 1}
      BY <3>1, <3>3, PlacesEmpty
    <3> QED BY <2>1, <2>2, <3>4 DEF LinkOf, TypeOK
  <2>3. CASE t # s
    BY <1>1, <2>1, <2>3, SameLink DEF TypeOK
  <2> QED BY <2>2, <2>3
<1>4. ASSUME NEW s \in Servers, Deliver(s) PROVE LinkOf(t)'
  <2> DEFINE p == pending[s]
             m == Head(p)
  <2>1. /\ p # <<>> /\ UNCHANGED link /\ UNCHANGED listeners
        /\ phase' = [phase EXCEPT ![s] = IF m.type = "servers" THEN "starting" ELSE @]
        /\ pending' = [pending EXCEPT ![s] = Tail(@)]
        /\ \A u \in Servers : u # s => view'[u] = view[u]
    BY <1>4 DEF Deliver, masterVars, TypeOK
  <2>2. CASE t = s
    <3>1. p \in Seq(Message) /\ pending'[t] = Tail(p)
      BY <2>1, <2>2 DEF TypeOK
    <3>2. /\ \A i : i \in Lists(Tail(p)) <=> i \in Nat \ {0} /\ i + 1 \in Lists(p)
          /\ 1 \in Lists(p) <=> m.type = "servers"
      BY <2>1, <3>1, PlacesTail
    <3>3. t \in listeners /\ link[t] = "up" /\ phase[t] \notin {"off", "registered"}
      BY <1>1, <2>1, <2>2 DEF LinkOf
    <3> HIDE DEF m, p
    <3>4. phase'[t] = IF m.type = "servers" THEN "starting" ELSE phase[t]
      BY <2>1, <2>2 DEF TypeOK
    <3>5. ASSUME NEW i \in Lists(pending'[t])
          PROVE  phase'[t] = "subscribed" /\ \A j \in Lists(pending'[t]) : i = j
      <4>1. i \in Nat \ {0} /\ i + 1 \in Lists(p)
        BY <3>1, <3>2
      <4>2. \A k, l \in Lists(p) : k = l
        BY <1>1, <2>2 DEF LinkOf, p
      <4>3. m.type # "servers" /\ phase[t] = "subscribed"
        BY <1>1, <2>2, <3>2, <4>1, <4>2 DEF LinkOf, p
      <4>4. \A j \in Lists(pending'[t]) : i = j
        BY <3>1, <3>2, <4>1, <4>2
      <4> QED BY <3>4, <4>3, <4>4
    <3> QED BY <2>1, <3>3, <3>4, <3>5 DEF LinkOf
  <2>3. CASE t # s
    <3> HIDE DEF m, p
    <3> QED BY <1>1, <2>1, <2>3, SameLink DEF TypeOK
  <2> QED BY <2>2, <2>3
<1>5. ASSUME NEW s \in Servers, Started(s) PROVE LinkOf(t)'
  <2>1. /\ phase[s] = "starting" /\ phase' = [phase EXCEPT ![s] = "started"]
        /\ UNCHANGED listeners /\ UNCHANGED link /\ UNCHANGED view
        /\ Notify(StartOver) \/ UNCHANGED pending
    BY <1>5 DEF Started, Record
  <2>2. phase'[t] = phase[t] \/ (phase[t] = "starting" /\ phase'[t] = "started")
    BY <2>1 DEF TypeOK
  <2>3. CASE Notify(StartOver) /\ Listening(t)
    BY <1>1, <2>1, <2>2, <2>3, NotifyReaches, NoticeLink, NoticeKinds, MessageTypes
  <2>4. CASE pending'[t] = pending[t]
    BY <1>1, <2>1, <2>2, <2>4 DEF LinkOf
  <2> QED BY <2>1, <2>3, <2>4, NotifyReaches
<1>6. ASSUME NEW s \in Servers, Break(s) \/ Crash(s) PROVE LinkOf(t)'
  <2>1. /\ pending' = [pending EXCEPT ![s] = <<>>] /\ UNCHANGED listeners
        /\ \A u \in Servers : u # s => /\ link'[u] = link[u] /\ phase'[u] = phase[u]
                                       /\ view'[u] = view[u]
        /\ link'[s] # "up" /\ (link'[s] = "none" => link[s] = "none")
        /\ phase'[s] = "off" => (view'[s] = {} \/ (phase[s] = "off" /\ view'[s] = view[s]))
        /\ phase'[s] # "registered"
    BY <1>6 DEF Break, Crash, masterVars, TypeOK, Interrupted
  <2>2. CASE t = s
    <3>1. pending'[t] = <<>>
      BY <2>1, <2>2 DEF TypeOK
    <3> QED BY <1>1, <2>1, <2>2, <3>1, PlacesEmpty DEF LinkOf
  <2>3. CASE t # s
    BY <1>1, <2>1, <2>3, SameLink DEF TypeOK
  <2> QED BY <2>2, <2>3
<1>7. CASE MasterCrash
  <2>1. /\ pending'[t] = <<>> /\ link'[t] = "none" /\ listeners' = {} /\ phase'[t] # "registered"
        /\ phase'[t] = "off" => (view'[t] = {} \/ (phase[t] = "off" /\ view'[t] = view[t]))
    BY <1>7 DEF MasterCrash, TypeOK, Interrupted
  <2> QED BY <1>1, <2>1, PlacesEmpty DEF LinkOf
<1>8. ASSUME NEW s \in Servers, RemoveServer(s) PROVE LinkOf(t)'
  <2>1. /\ link[s] = "broken" /\ link' = [link EXCEPT ![s] = "none"]
        /\ listeners' = listeners \ {s} /\ UNCHANGED phase /\ UNCHANGED view
        /\ pending'[t] = IF t # s /\ Listening(t) THEN pending[t] \o <<Remove(s)>> ELSE pending[t]
    BY <1>8 DEF RemoveServer, SentTo, Listening
  <2>2. CASE t = s
    BY <1>1, <2>1, <2>2 DEF LinkOf, TypeOK
  <2>3. CASE t # s /\ Listening(t)
    BY <1>1, <2>1, <2>3, NoticeLink, NoticeKinds, MessageTypes DEF TypeOK
  <2>4. CASE t # s /\ ~Listening(t)
    BY <1>1, <2>1, <2>4, SameLink DEF TypeOK
  <2> QED BY <2>2, <2>3, <2>4
<1>9. ASSUME NEW s \in Servers, ReconnectServer(s) PROVE LinkOf(t)'
  <2>1. /\ link[s] = "none" /\ link' = [link EXCEPT ![s] = "up"] /\ phase[s] # "off"
        /\ listeners' = listeners \cup {s} /\ UNCHANGED phase /\ UNCHANGED view
        /\ servers' \in SUBSET Servers
    BY <1>9 DEF ReconnectServer, TypeOK
  <2>2. pending'[t] = IF t = s THEN pending[s] \o <<Replace(servers')>>
                      ELSE IF Listening(t) THEN pending[t] \o <<Add(s)>> ELSE pending[t]
    BY <1>9 DEF ReconnectServer, SentTo, Listening
  <2>3. CASE t = s
    <3>1. PICK m \in Message : m = Replace(servers') /\ m.type # "servers"
      BY <2>1, MessageTypes, NoticeKinds
    <3>2. pending[t] \in Seq(Message) /\ pending'[t] = pending[t] \o <<m>>
      BY <2>2, <2>3, <3>1, PendingTypes
    <3>3. Lists(pending'[t]) = Lists(pending[t])
      <4>1. Lists(pending[t] \o <<m>>) = Lists(pending[t])
        BY <3>1, <3>2, PlacesAppend
      <4> QED BY <3>2, <4>1
    <3>4. pending[t] = <<>>
      BY <1>1, <2>1, <2>3 DEF LinkOf
    <3> QED BY <1>1, <2>1, <2>3, <3>3, <3>4, PlacesEmpty DEF LinkOf, TypeOK
  <2>4. CASE t # s /\ Listening(t)
    BY <1>1, <2>1, <2>2, <2>4, NoticeLink, NoticeKinds, MessageTypes DEF TypeOK
  <2>5. CASE t # s /\ ~Listening(t)
    BY <1>1, <2>1, <2>2, <2>5, SameLink DEF TypeOK
  <2> QED BY <2>3, <2>4, <2>5
<1>10. CASE UNCHANGED vars
  BY <1>1, <1>10, SameLink DEF vars
<1> QED BY <1>2, <1>3, <1>4, <1>5, <1>6, <1>7, <1>8, <1>9, <1>10 DEF Next

-----------------------------------------------------------------------------
(* Nothing is missed *)

LEMMA SameWill ==
    ASSUME NEW s \in Servers, NEW x \in Servers, Listening(s)' => Listening(s), NothingMissed,
           pending'[s] = pending[s], view'[s] = view[s], x \in servers' <=> x \in servers
    PROVE  Listening(s)' => (WillHave(s, x)' <=> x \in servers')
BY DEF NothingMissed, WillHave

\* A listener that is sent m instead of hearing the change to the list.
LEMMA NoticeWill ==
    ASSUME TypeOK, NothingMissed, NEW s \in Servers, NEW x \in Servers, NEW m \in Message,
           Listening(s), pending'[s] = pending[s] \o <<m>>, view'[s] = view[s],
           x \in servers' <=> IF Mentions(m, x) THEN Keeps(m, x) ELSE x \in servers
    PROVE  WillHave(s, x)' <=> x \in servers'
<1>1. Will(pending'[s], view'[s], x) <=> IF Mentions(m, x) THEN Keeps(m, x)
                                         ELSE Will(pending[s], view[s], x)
  BY PendingTypes, WillAppend
<1>2. Will(pending[s], view[s], x) <=> x \in servers
  BY WillHaveIsWill DEF NothingMissed
<1>3. WillHave(s, x)' <=> Will(pending'[s], view'[s], x)
  BY DEF WillHave, Will
<1> QED BY <1>1, <1>2, <1>3

LEMMA StepMissed ==
    ASSUME TypeOK, Links, NothingMissed, [Next]_vars
    PROVE  NothingMissed'
<1> SUFFICES ASSUME NEW t \in Servers, Listening(t)', NEW x \in Servers
             PROVE  WillHave(t, x)' <=> x \in servers'
  BY DEF NothingMissed
<1>1. LinkOf(t)
  BY DEF Links
<1>2. ASSUME NEW s \in Servers, Register(s) PROVE WillHave(t, x)' <=> x \in servers'
  <2>1. /\ link' = [link EXCEPT ![s] = "up"] /\ link[s] = "none"
        /\ UNCHANGED listeners /\ UNCHANGED view
    BY <1>2 DEF Register
  <2>2. Listening(t)
    BY <1>1, <2>1 DEF Listening, LinkOf, TypeOK
  <2>3. CASE s = Master
    <3>1. UNCHANGED servers /\ UNCHANGED pending
      BY <1>2, <2>3 DEF Register
    <3> QED BY <2>1, <2>2, <3>1 DEF NothingMissed, WillHave
  <2>4. CASE s # Master
    <3>1. Notify(Add(s)) /\ servers' = servers \cup {s}
      BY <1>2, <2>4 DEF Register
    <3>2. PICK m \in Message : m = Add(s)
      BY MessageTypes
    <3>3. x \in servers' <=> IF Mentions(m, x) THEN Keeps(m, x) ELSE x \in servers
      BY <3>1, <3>2 DEF Add, Mentions, Keeps
    <3>4. pending'[t] = pending[t] \o <<m>> /\ view'[t] = view[t]
      BY <2>1, <2>2, <3>1, <3>2, NotifyReaches
    <3> QED BY <2>2, <3>3, <3>4, NoticeWill
  <2> QED BY <2>3, <2>4
<1>3. ASSUME NEW s \in Servers, Subscribe(s) PROVE WillHave(t, x)' <=> x \in servers'
  <2>1. /\ phase[s] = "registered" /\ listeners' = listeners \cup {s}
        /\ UNCHANGED servers /\ UNCHANGED view /\ UNCHANGED link
        /\ pending' = [pending EXCEPT ![s] = @ \o <<List(servers)>>]
    BY <1>3 DEF Subscribe
  <2>2. CASE t = s
    <3>1. pending[t] = <<>> /\ view[t] = {}
      BY <1>1, <2>1, <2>2 DEF LinkOf
    <3>2. PICK m \in Message : m = List(servers)
      BY MessageTypes DEF TypeOK
    <3>3. pending'[t] = pending[t] \o <<m>> /\ pending[t] \in Seq(Message) /\ view'[t] = view[t]
      BY <2>1, <2>2, <3>2 DEF TypeOK
    <3>4. Will(pending'[t], view'[t], x) <=> IF Mentions(m, x) THEN Keeps(m, x)
                                             ELSE Will(pending[t], view[t], x)
      BY <3>3, WillAppend
    <3>5. ~Will(pending[t], view[t], x)
      BY <3>1, WillEmpty
    <3>6. Mentions(m, x) <=> x \in servers
      BY <3>2 DEF List, Mentions
    <3>7. Mentions(m, x) => Keeps(m, x)
      BY <3>2, <3>6 DEF List, Keeps
    <3>8. WillHave(t, x)' <=> Will(pending'[t], view'[t], x)
      BY DEF WillHave, Will
    <3> QED BY <2>1, <3>4, <3>5, <3>6, <3>7, <3>8
  <2>3. CASE t # s
    BY <2>1, <2>3, SameWill DEF TypeOK, Listening
  <2> QED BY <2>2, <2>3
<1>4. ASSUME NEW s \in Servers, Deliver(s) PROVE WillHave(t, x)' <=> x \in servers'
  <2>1. /\ pending[s] # <<>> /\ UNCHANGED servers /\ UNCHANGED listeners /\ UNCHANGED link
        /\ pending' = [pending EXCEPT ![s] = Tail(@)]
        /\ view' = [view EXCEPT ![s] = Applied(@, Head(pending[s]))]
    BY <1>4 DEF Deliver, masterVars
  <2>2. Listening(t)
    BY <2>1 DEF Listening
  <2>3. CASE t = s
    <3>1. /\ pending'[t] = Tail(pending[t]) /\ view'[t] = Applied(view[t], Head(pending[t]))
          /\ pending[t] \in Seq(Message) /\ pending[t] # <<>> /\ view[t] \in SUBSET Servers
      BY <2>1, <2>3 DEF TypeOK
    <3>2. Will(pending'[t], view'[t], x) <=> Will(pending[t], view[t], x)
      BY <3>1, WillTail
    <3>3. Will(pending[t], view[t], x) <=> x \in servers
      BY <2>2, WillHaveIsWill DEF NothingMissed
    <3>4. WillHave(t, x)' <=> Will(pending'[t], view'[t], x)
      BY DEF WillHave, Will
    <3> QED BY <2>1, <3>2, <3>3, <3>4
  <2>4. CASE t # s
    BY <2>1, <2>2, <2>4, SameWill DEF TypeOK
  <2> QED BY <2>3, <2>4
<1>5. ASSUME NEW s \in Servers, Started(s) PROVE WillHave(t, x)' <=> x \in servers'
  <2>1. /\ UNCHANGED servers /\ UNCHANGED listeners /\ UNCHANGED link /\ UNCHANGED view
        /\ Notify(StartOver) \/ UNCHANGED pending
    BY <1>5 DEF Started, Record
  <2>2. Listening(t)
    BY <2>1 DEF Listening
  <2>3. PICK m \in Message : m = StartOver
    BY MessageTypes
  <2>4. ~Mentions(m, x)
    BY <2>3 DEF StartOver, Mentions
  <2>5. CASE Notify(StartOver)
    <3>1. pending'[t] = pending[t] \o <<m>> /\ view'[t] = view[t]
      BY <2>1, <2>2, <2>3, <2>5, NotifyReaches
    <3> QED BY <2>1, <2>2, <2>4, <3>1, NoticeWill
  <2>6. CASE UNCHANGED pending
    BY <2>1, <2>2, <2>6, SameWill
  <2> QED BY <2>1, <2>5, <2>6
<1>6. ASSUME NEW s \in Servers, Break(s) \/ Crash(s) PROVE WillHave(t, x)' <=> x \in servers'
  <2>1. /\ link'[s] # "up" /\ UNCHANGED listeners /\ UNCHANGED servers
        /\ pending' = [pending EXCEPT ![s] = <<>>]
        /\ \A u \in Servers : u # s => link'[u] = link[u] /\ view'[u] = view[u]
    BY <1>6 DEF Break, Crash, masterVars, TypeOK
  <2>2. t # s /\ Listening(t)
    BY <2>1 DEF Listening
  <2> QED BY <2>1, <2>2, SameWill DEF TypeOK
<1>7. CASE MasterCrash
  BY <1>7 DEF MasterCrash, Listening
<1>8. ASSUME NEW s \in Servers, RemoveServer(s) PROVE WillHave(t, x)' <=> x \in servers'
  <2>1. /\ link' = [link EXCEPT ![s] = "none"] /\ listeners' = listeners \ {s}
        /\ servers' = servers \ {s} /\ UNCHANGED view
        /\ pending'[t] = IF t # s /\ Listening(t) THEN pending[t] \o <<Remove(s)>> ELSE pending[t]
    BY <1>8 DEF RemoveServer, SentTo, Listening
  <2>2. t # s /\ Listening(t)
    BY <2>1 DEF Listening, TypeOK
  <2>3. PICK m \in Message : m = Remove(s)
    BY MessageTypes
  <2>4. x \in servers' <=> IF Mentions(m, x) THEN Keeps(m, x) ELSE x \in servers
    BY <2>1, <2>3 DEF Remove, Mentions, Keeps
  <2> QED BY <2>1, <2>2, <2>3, <2>4, NoticeWill
<1>9. ASSUME NEW s \in Servers, ReconnectServer(s) PROVE WillHave(t, x)' <=> x \in servers'
  <2>1. /\ link[s] = "none" /\ link' = [link EXCEPT ![s] = "up"]
        /\ listeners' = listeners \cup {s} /\ UNCHANGED view
        /\ servers' = servers \cup {s} /\ servers' \in SUBSET Servers
    BY <1>9 DEF ReconnectServer, TypeOK
  <2>2. pending'[t] = IF t = s THEN pending[s] \o <<Replace(servers')>>
                      ELSE IF Listening(t) THEN pending[t] \o <<Add(s)>> ELSE pending[t]
    BY <1>9 DEF ReconnectServer, SentTo, Listening
  <2>3. CASE t = s
    <3>1. PICK m \in Message : m = Replace(servers')
      BY <2>1, MessageTypes
    <3>2. pending'[t] = pending[t] \o <<m>> /\ pending[t] \in Seq(Message)
      BY <2>2, <2>3, <3>1, PendingTypes
    <3>3. Will(pending'[t], view'[t], x) <=> IF Mentions(m, x) THEN Keeps(m, x)
                                             ELSE Will(pending[t], view'[t], x)
      BY <3>2, WillAppend
    <3>4. Mentions(m, x) /\ (Keeps(m, x) <=> x \in servers')
      BY <3>1 DEF Replace, Mentions, Keeps
    <3>5. WillHave(t, x)' <=> Will(pending'[t], view'[t], x)
      BY DEF WillHave, Will
    <3> QED BY <3>3, <3>4, <3>5
  <2>4. CASE t # s
    <3>1. Listening(t)
      BY <2>1, <2>4 DEF Listening, TypeOK
    <3>2. PICK m \in Message : m = Add(s)
      BY MessageTypes
    <3>3. x \in servers' <=> IF Mentions(m, x) THEN Keeps(m, x) ELSE x \in servers
      BY <2>1, <3>2 DEF Add, Mentions, Keeps
    <3> QED BY <2>1, <2>2, <2>4, <3>1, <3>2, <3>3, NoticeWill
  <2> QED BY <2>3, <2>4
<1>10. CASE UNCHANGED vars
  BY <1>10, SameWill DEF vars, Listening
<1> QED BY <1>2, <1>3, <1>4, <1>5, <1>6, <1>7, <1>8, <1>9, <1>10 DEF Next

-----------------------------------------------------------------------------
(* When the cluster has started *)

\* Without faults a server is connected once it has registered, and listens
\* before its start goes on.
Alone(s) ==
    /\ link[s] \in {"none", "up"} /\ phase[s] # "stuck"
    /\ phase[s] = "off" <=> link[s] = "none"
    /\ phase[s] \in {"subscribed", "starting", "started"} => s \in listeners

\* Who has started, for count.
Up == {s \in Servers : phase[s] = "started"}

ToldOnce(s) == IF isStarted
               THEN \/ heard[s] = 1 /\ Overs(pending[s]) = {}
                    \/ heard[s] = 0 /\ \E i : Overs(pending[s]) = {i}
               ELSE heard[s] = 0 /\ Overs(pending[s]) = {}

Starts == faults = 0 =>
    /\ \A s \in Servers : Alone(s) /\ ToldOnce(s)
    /\ isStarted <=> \A s \in Servers : phase[s] = "started"
    /\ ~isStarted => count = ConfigSize - Cardinality(Up)

LEMMA StartOverKind == \A m \in Message : m.type = "startOver" <=> m = StartOver
BY DEF Message, StartOver

\* A step after which the same servers have started, and the master thinks so.
LEMMA SameStarts ==
    ASSUME Starts, faults = 0, UNCHANGED isStarted, UNCHANGED count,
           \A s \in Servers : Alone(s)' /\ ToldOnce(s)',
           \A s \in Servers : phase'[s] = "started" <=> phase[s] = "started"
    PROVE  Starts'
<1>1. Up' = Up
  BY DEF Up
<1> QED BY <1>1 DEF Starts, ConfigSize

LEMMA SameTold ==
    ASSUME NEW s, ToldOnce(s), isStarted' = isStarted, heard'[s] = heard[s],
           Overs(pending'[s]) = Overs(pending[s])
    PROVE  ToldOnce(s)'
BY DEF ToldOnce

\* The last server to start makes the master notify all of them.
LEMMA StartedStarts ==
    ASSUME TypeOK, Starts, faults = 0, NEW s \in Servers, Started(s)
    PROVE  Starts'
<1>1. /\ \A t \in Servers : Alone(t) /\ ToldOnce(t)
      /\ ~isStarted /\ count = ConfigSize - Cardinality(Up)
      /\ phase[s] = "starting"
  BY DEF Starts, Started
<1>2. /\ phase' = [phase EXCEPT ![s] = "started"]
      /\ UNCHANGED listeners /\ UNCHANGED link /\ UNCHANGED heard
  BY DEF Started
<1>3. link[s] = "up"
  BY <1>1 DEF Alone
<1>4. /\ count' = count - 1 /\ isStarted' = (count' < 0)
      /\ IF count' < 0 THEN Notify(StartOver) ELSE UNCHANGED pending
  BY <1>1, <1>3 DEF Started, Record
<1>5. Up' = Up \cup {s} /\ s \notin Up
  BY <1>1, <1>2 DEF Up, TypeOK
<1>6. /\ IsFiniteSet(Up) /\ Cardinality(Up) \in Nat /\ Cardinality(Servers) \in Nat
      /\ Cardinality(Up') = Cardinality(Up) + 1
  <2>1. IsFiniteSet(Servers)
    BY ClusterAssumption
  <2>2. IsFiniteSet(Up)
    BY <2>1, FS_Subset DEF Up
  <2>3. Cardinality(Up \cup {s}) = Cardinality(Up) + 1
    BY <1>5, <2>2, FS_AddElement
  <2> QED BY <1>5, <2>1, <2>2, <2>3, FS_CardinalityType
<1>7. count' < 0 <=> Up' = Servers
  <2>1. Up' \subseteq Servers
    BY DEF Up
  <2>2. /\ Cardinality(Up') <= Cardinality(Servers)
        /\ Cardinality(Up') = Cardinality(Servers) <=> Up' = Servers
    BY <2>1, ClusterAssumption, FS_Subset
  <2>3. count' = Cardinality(Servers) - 1 - Cardinality(Up')
    BY <1>1, <1>4, <1>6 DEF ConfigSize
  <2>4. Cardinality(Up') \in Nat
    BY <1>6
  <2> QED BY <1>6, <2>2, <2>3, <2>4
<1>8. \A t \in Servers : Alone(t)'
  BY <1>1, <1>2 DEF Alone, TypeOK
<1>9. isStarted' <=> \A t \in Servers : phase'[t] = "started"
  BY <1>4, <1>7 DEF Up
<1>10. \A t \in Servers : ToldOnce(t)'
  <2>1. CASE ~(count' < 0)
    BY <1>1, <1>2, <1>4, <2>1 DEF ToldOnce
  <2>2. CASE count' < 0
    <3> SUFFICES ASSUME NEW t \in Servers PROVE ToldOnce(t)'
      OBVIOUS
    <3>1. Notify(StartOver) /\ isStarted'
      BY <1>4, <2>2
    <3>2. Listening(t)
      <4>1. phase[t] = "started" \/ phase[t] = "starting"
        BY <1>1, <1>2, <1>7, <2>2 DEF Up, TypeOK
      <4> QED BY <1>1, <4>1 DEF Alone, Listening
    <3>3. PICK m \in Message : m = StartOver
      BY MessageTypes
    <3>4. pending'[t] = pending[t] \o <<m>> /\ pending[t] \in Seq(Message)
      BY <3>1, <3>2, <3>3, NotifyReaches, PendingTypes
    <3>5. Overs(pending'[t]) = Overs(pending[t]) \cup {Len(pending[t]) + 1}
      BY <3>3, <3>4, PlacesAppend
    <3>6. heard[t] = 0 /\ Overs(pending[t]) = {}
      BY <1>1 DEF ToldOnce
    <3> QED BY <1>2, <3>1, <3>5, <3>6 DEF ToldOnce
  <2> QED BY <2>1, <2>2
<1>11. ~isStarted' => count' = ConfigSize - Cardinality(Up')
  BY <1>1, <1>4, <1>6 DEF ConfigSize
<1>12. (ConfigSize - Cardinality(Up))' = ConfigSize - Cardinality(Up')
  BY DEF ConfigSize
<1> QED BY <1>8, <1>9, <1>10, <1>11, <1>12 DEF Starts

LEMMA StepStarts ==
    ASSUME TypeOK, Links, Starts, [Next]_vars
    PROVE  Starts'
<1> SUFFICES ASSUME faults' = 0 PROVE Starts'
  BY DEF Starts
<1>1. ASSUME NEW s \in Servers, Break(s) \/ Crash(s) PROVE Starts'
  BY <1>1 DEF Break, Crash, TypeOK
<1>2. CASE MasterCrash
  BY <1>2 DEF MasterCrash, TypeOK
<1>3. ASSUME faults = 0, NEW s \in Servers
      PROVE  Alone(s) /\ ToldOnce(s) /\ LinkOf(s)
  BY <1>3 DEF Starts, Links
<1>4. ASSUME NEW s \in Servers, Register(s) PROVE Starts'
  <2>1. /\ Notify(Add(s)) \/ UNCHANGED pending
        /\ link' = [link EXCEPT ![s] = "up"] /\ link[s] = "none"
        /\ phase' = [phase EXCEPT ![s] = "registered"] /\ phase[s] = "off"
        /\ UNCHANGED listeners /\ UNCHANGED heard /\ UNCHANGED isStarted /\ UNCHANGED count
        /\ faults = 0
    BY <1>4 DEF Register
  <2>2. ASSUME NEW t \in Servers PROVE Alone(t)'
    BY <1>3, <2>1 DEF Alone, TypeOK
  <2>3. ASSUME NEW t \in Servers PROVE ToldOnce(t)'
    <3>1. PICK m \in Message : m = Add(s) /\ m # StartOver
      BY MessageTypes, NoticeKinds
    <3>2. pending'[t] = pending[t] \/ pending'[t] = pending[t] \o <<m>>
      BY <2>1, <3>1, NotifyReaches
    <3>3. Overs(pending'[t]) = Overs(pending[t])
      BY <3>1, <3>2, PendingTypes, PlacesAppend
    <3> QED BY <1>3, <2>1, <3>3, SameTold
  <2>4. \A t \in Servers : phase'[t] = "started" <=> phase[t] = "started"
    BY <2>1 DEF TypeOK
  <2> QED BY <2>1, <2>2, <2>3, <2>4, SameStarts
<1>5. ASSUME NEW s \in Servers, Subscribe(s) PROVE Starts'
  <2>1. /\ phase[s] = "registered" /\ listeners' = listeners \cup {s} /\ link[s] = "up"
        /\ phase' = [phase EXCEPT ![s] = "subscribed"] /\ UNCHANGED link /\ UNCHANGED heard
        /\ pending' = [pending EXCEPT ![s] = @ \o <<List(servers)>>]
        /\ UNCHANGED isStarted /\ UNCHANGED count /\ faults = 0
    BY <1>5 DEF Subscribe
  <2>2. ASSUME NEW t \in Servers PROVE Alone(t)'
    BY <1>3, <2>1 DEF Alone, TypeOK
  <2>3. ASSUME NEW t \in Servers PROVE ToldOnce(t)'
    <3>1. PICK m \in Message : m = List(servers) /\ m # StartOver
      BY MessageTypes, NoticeKinds DEF TypeOK
    <3>2. pending'[t] = IF t = s THEN pending[t] \o <<m>> ELSE pending[t]
      BY <2>1, <3>1 DEF TypeOK
    <3>3. Overs(pending'[t]) = Overs(pending[t])
      BY <3>1, <3>2, PendingTypes, PlacesAppend
    <3> QED BY <1>3, <2>1, <3>3, SameTold
  <2>4. \A t \in Servers : phase'[t] = "started" <=> phase[t] = "started"
    BY <2>1 DEF TypeOK
  <2> QED BY <2>1, <2>2, <2>3, <2>4, SameStarts
<1>6. ASSUME NEW s \in Servers, Deliver(s) PROVE Starts'
  <2> DEFINE p == pending[s]
             m == Head(p)
  <2>1. /\ p # <<>> /\ UNCHANGED link /\ UNCHANGED listeners
        /\ phase' = [phase EXCEPT ![s] = IF m.type = "servers" THEN "starting" ELSE @]
        /\ heard' = [heard EXCEPT ![s] = IF m.type = "startOver" THEN @ + 1 ELSE @]
        /\ pending' = [pending EXCEPT ![s] = Tail(@)]
        /\ UNCHANGED isStarted /\ UNCHANGED count /\ faults = 0
    BY <1>6 DEF Deliver, masterVars
  <2>2. p \in Seq(Message) /\ m \in Message
    BY <2>1, HeadTailProperties DEF TypeOK
  <2>3. /\ \A i : i \in Overs(Tail(p)) <=> i \in Nat \ {0} /\ i + 1 \in Overs(p)
        /\ 1 \in Overs(p) <=> m = StartOver
        /\ 1 \in Lists(p) <=> m.type = "servers"
        /\ Overs(p) \subseteq Nat \ {0}
    BY <2>1, <2>2, PlacesTail
  <2>4. m.type = "startOver" <=> m = StartOver
    BY <2>2, StartOverKind
  <2>5. m.type = "servers" => phase[s] = "subscribed"
    BY <1>3, <2>1, <2>3 DEF LinkOf
  <2> HIDE DEF m
  <2>6. ASSUME NEW t \in Servers PROVE Alone(t)'
    BY <1>3, <2>1, <2>5 DEF Alone, TypeOK
  <2>7. ASSUME NEW t \in Servers PROVE ToldOnce(t)'
    <3>1. CASE t # s
      <4>1. pending'[t] = pending[t] /\ heard'[t] = heard[t]
        BY <2>1, <3>1 DEF TypeOK
      <4> QED BY <1>3, <2>1, <4>1, SameTold
    <3>2. CASE t = s
      <4>1. /\ pending'[t] = Tail(p) /\ heard[t] \in Nat
            /\ heard'[t] = IF m = StartOver THEN heard[t] + 1 ELSE heard[t]
        BY <2>1, <2>4, <3>2 DEF TypeOK
      <4>2. ToldOnce(t) /\ Overs(pending[t]) = Overs(p)
        BY <1>3, <2>1, <3>2
      <4> HIDE DEF p
      <4>3. CASE Overs(p) = {}
        <5>1. Overs(Tail(p)) = {} /\ m # StartOver
          BY <2>3, <4>3
        <5> QED BY <2>1, <4>1, <4>2, <4>3, <5>1 DEF ToldOnce
      <4>4. ASSUME NEW i, Overs(p) = {i} PROVE ToldOnce(t)'
        <5>1. isStarted /\ heard[t] = 0 /\ i \in Nat \ {0}
          BY <2>3, <4>2, <4>4 DEF ToldOnce
        <5>2. CASE i = 1
          <6>1. Overs(Tail(p)) = {} /\ m = StartOver
            BY <2>3, <4>4, <5>2
          <6>2. heard'[t] = 1
            BY <4>1, <5>1, <6>1
          <6>3. Overs(pending'[t]) = {} /\ isStarted'
            BY <2>1, <4>1, <5>1, <6>1
          <6> QED BY <6>2, <6>3 DEF ToldOnce
        <5>3. CASE i # 1
          <6>1. Overs(Tail(p)) = {i - 1} /\ m # StartOver
            BY <2>3, <4>4, <5>1, <5>3
          <6> QED BY <2>1, <4>1, <5>1, <6>1 DEF ToldOnce
        <5> QED BY <5>2, <5>3
      <4> QED BY <4>2, <4>3, <4>4 DEF ToldOnce
    <3> QED BY <3>1, <3>2
  <2>8. \A t \in Servers : phase'[t] = "started" <=> phase[t] = "started"
    BY <2>1, <2>5 DEF TypeOK
  <2> QED BY <2>1, <2>6, <2>7, <2>8, SameStarts
<1>7. ASSUME NEW s \in Servers, Started(s) PROVE Starts'
  BY <1>7, StartedStarts DEF Started
<1>8. ASSUME NEW s \in Servers, RemoveServer(s) \/ ReconnectServer(s) PROVE Starts'
  BY <1>3, <1>8 DEF RemoveServer, ReconnectServer, Alone
<1>9. CASE UNCHANGED vars
  <2>1. /\ UNCHANGED isStarted /\ UNCHANGED count /\ UNCHANGED phase /\ UNCHANGED link
        /\ UNCHANGED listeners /\ UNCHANGED heard /\ UNCHANGED pending /\ UNCHANGED faults
    BY <1>9 DEF vars
  <2>2. \A t \in Servers : Alone(t)' /\ ToldOnce(t)'
    BY <1>3, <2>1 DEF Alone, ToldOnce
  <2> QED BY <2>1, <2>2, SameStarts
<1> QED BY <1>1, <1>2, <1>4, <1>5, <1>6, <1>7, <1>8, <1>9 DEF Next

-----------------------------------------------------------------------------
(* The theorems *)

IInv == TypeOK /\ Links /\ NothingMissed /\ Starts

LEMMA InitIInv == Init => IInv
<1> SUFFICES ASSUME Init PROVE IInv
  OBVIOUS
<1> USE ClusterAssumption
<1>1. Cardinality(Servers) \in Nat
  BY FS_CardinalityType
<1>2. TypeOK
  <2>1. ConfigSize \in Int /\ <<>> \in Seq(Message)
    BY <1>1, EmptySeq DEF ConfigSize
  <2>2. link \in [Servers -> {"none", "up", "broken"}]
    BY DEF Init
  <2>3. phase \in [Servers -> {"off", "registered", "subscribed", "starting", "started", "stuck"}]
    BY DEF Init
  <2>4. /\ view \in [Servers -> SUBSET Servers] /\ heard \in [Servers -> Nat]
    BY DEF Init
  <2>5. pending \in [Servers -> Seq(Message)]
    <3>1. pending = [s \in Servers |-> <<>>]
      BY DEF Init
    <3> HIDE DEF Init
    <3> QED BY ONLY <2>1, <3>1
  <2>6. servers \subseteq Servers /\ listeners \subseteq Servers
    BY DEF Init
  <2>7. count \in Int /\ isStarted \in BOOLEAN /\ faults \in 0..MaxFaults
    <3>1. count = ConfigSize /\ isStarted = FALSE /\ faults = 0
      BY DEF Init
    <3>2. MaxFaults \in Nat
      BY DEF ClusterAssumption
    <3> HIDE DEF Init, ConfigSize
    <3>3. count \in Int
      BY ONLY <2>1, <3>1
    <3>4. isStarted \in BOOLEAN
      BY ONLY <3>1
    <3>5. faults \in 0..MaxFaults
      BY ONLY <3>1, <3>2
    <3> QED BY ONLY <3>3, <3>4, <3>5
  <2> QED BY <2>2, <2>3, <2>4, <2>5, <2>6, <2>7 DEF TypeOK
<1>3. Links /\ NothingMissed
  BY PlacesEmpty DEF Init, Links, LinkOf, NothingMissed, Listening
<1>4. Starts
  <2>1. Up = {} /\ Cardinality({}) = 0
    BY FS_EmptySet DEF Init, Up
  <2>2. \A s \in Servers : Alone(s) /\ ToldOnce(s)
    BY PlacesEmpty DEF Init, Alone, ToldOnce
  <2>3. count = ConfigSize - Cardinality(Up)
    BY <1>1, <2>1 DEF Init, ConfigSize
  <2>4. ~isStarted /\ phase[Master] # "started"
    BY DEF Init
  <2> QED BY <2>2, <2>3, <2>4 DEF Starts
<1> QED BY <1>2, <1>3, <1>4 DEF IInv

LEMMA ClusterInvariant == Spec => []IInv
<1>1. Init => IInv
  BY InitIInv
<1>2. IInv /\ [Next]_vars => IInv'
  BY StepType, StepLinks, StepMissed, StepStarts DEF IInv
<1> QED BY <1>1, <1>2, PTL DEF Spec

\* The variables of the master and its servers have their types.
THEOREM TypeCorrect == Spec => []TypeOK
<1>1. IInv => TypeOK
  BY DEF IInv
<1> QED BY <1>1, ClusterInvariant, PTL

\* What a listener knows and what is under way to it amount to the master's
\* list, however servers, connections and masters come and go.
THEOREM NothingMissedCorrect == Spec => []NothingMissed
<1>1. IInv => NothingMissed
  BY DEF IInv
<1> QED BY <1>1, ClusterInvariant, PTL

\* Without faults, the master takes the cluster for started exactly when all
\* servers are, and tells each of them once.
THEOREM StartOverCorrect == Spec => []StartOverWhenAllStarted
<1>1. IInv => StartOverWhenAllStarted
  <2> SUFFICES ASSUME TypeOK, Starts, faults = 0, NEW s \in Servers
               PROVE  heard[s] + Cardinality(Overs(pending[s])) = IF isStarted THEN 1 ELSE 0
    BY DEF IInv, Starts, StartOverWhenAllStarted, Overs
  <2>1. ToldOnce(s)
    BY DEF Starts
  <2>2. CASE Overs(pending[s]) = {}
    BY <2>1, <2>2, FS_EmptySet DEF ToldOnce
  <2>3. ASSUME NEW i, Overs(pending[s]) = {i}
        PROVE  heard[s] + Cardinality(Overs(pending[s])) = IF isStarted THEN 1 ELSE 0
    BY <2>1, <2>3, FS_Singleton DEF ToldOnce
  <2> QED BY <2>1, <2>2, <2>3 DEF ToldOnce
<1> QED BY <1>1, ClusterInvariant, PTL
=============================================================================
