------------------------------ MODULE Cluster ------------------------------
(***************************************************************************)
(* lib/master/watchdog.js with lib/modules/masterwatcher.js and            *)
(* monitorwatcher.js, and the server maps of lib/application.js: how every *)
(* server process learns which others are there, and when the master says  *)
(* that all of them have started.                                          *)
(*                                                                         *)
(* The master process runs a monitor like every other server.  A           *)
(* connection of the admin console (external) delivers what the master     *)
(* sends in order until it breaks; what is under way is lost then.  The    *)
(* master hears of the end of a connection some time later, but before a   *)
(* new one of the same server.  A request of a monitor is taken at the     *)
(* moment it reaches the master.                                           *)
(***************************************************************************)
EXTENDS Integers, Sequences, FiniteSets

CONSTANTS Servers,         \* all server processes, the master's own among them
          Master,
          MaxFaults        \* bound: crashes and broken connections

ASSUME ClusterAssumption == /\ IsFiniteSet(Servers)
                            /\ Master \in Servers
                            /\ MaxFaults \in Nat

VARIABLES servers,         \* watchdog.servers
          listeners,       \* watchdog.listeners
          count,           \* watchdog.count
          isStarted,       \* watchdog.isStarted
          link,            \* link[s]: "none", "up", or "broken" unknown to the master
          pending,         \* pending[s]: what the master has sent to s
          phase,           \* phase[s]: "off", "registered", "subscribed", "starting",
                           \* "started", or "stuck" waiting for a lost answer
          view,            \* view[s]: app.servers at s
          heard,           \* heard[s]: how often s, since it runs, was told startOver
          faults           \* how many faults there were

masterVars == <<servers, listeners, count, isStarted>>
vars == <<servers, listeners, count, isStarted, link, pending, phase, view, heard, faults>>

Message == [type : {"addServer", "removeServer"}, id : Servers]
           \cup [type : {"servers", "replaceServer"}, ids : SUBSET Servers]
           \cup [type : {"startOver"}]

TypeOK == /\ servers \subseteq Servers
          /\ listeners \subseteq Servers
          /\ count \in Int
          /\ isStarted \in BOOLEAN
          /\ link \in [Servers -> {"none", "up", "broken"}]
          /\ pending \in [Servers -> Seq(Message)]
          /\ phase \in [Servers -> {"off", "registered", "subscribed", "starting", "started", "stuck"}]
          /\ view \in [Servers -> SUBSET Servers]
          /\ heard \in [Servers -> Nat]
          /\ faults \in 0..MaxFaults

\* getServersFromConfig: all but the master.
ConfigSize == Cardinality(Servers) - 1

Init == /\ servers = {} /\ listeners = {}
        /\ count = ConfigSize
        /\ isStarted = FALSE
        /\ link = [s \in Servers |-> "none"]
        /\ pending = [s \in Servers |-> <<>>]
        /\ phase = [s \in Servers |-> "off"]
        /\ view = [s \in Servers |-> {}]
        /\ heard = [s \in Servers |-> 0]
        /\ faults = 0

-----------------------------------------------------------------------------
(* Messages of the master *)

Add(s)      == [type |-> "addServer", id |-> s]
Remove(s)   == [type |-> "removeServer", id |-> s]
List(S)     == [type |-> "servers", ids |-> S]
Replace(S)  == [type |-> "replaceServer", ids |-> S]
StartOver   == [type |-> "startOver"]

\* What is pending after the messages of the sequence ms are sent to s; a
\* broken connection takes nothing.
SentTo(s, ms) == IF link[s] = "up" THEN pending[s] \o ms ELSE pending[s]

\* notify: to all listeners.
Notify(m) == pending' = [s \in Servers |-> IF s \in listeners THEN SentTo(s, <<m>>) ELSE pending[s]]

-----------------------------------------------------------------------------
(* Servers come up *)

\* A process starts and its monitor registers: addServer, unless the record has
\* no serverType, which is so of the master's own.
Register(s) ==
    /\ phase[s] = "off" /\ link[s] = "none"
    /\ s = Master \/ phase[Master] # "off"
    /\ phase' = [phase EXCEPT ![s] = "registered"]
    /\ link' = [link EXCEPT ![s] = "up"]
    /\ IF s = Master THEN UNCHANGED <<servers, pending>>
       ELSE servers' = servers \cup {s} /\ Notify(Add(s))
    /\ UNCHANGED <<listeners, count, isStarted, view, heard, faults>>

SubscribeWithoutSelf(s) ==
    /\ phase[s] = "registered" /\ link[s] = "up"
    /\ phase' = [phase EXCEPT ![s] = "subscribed"]
    /\ listeners' = listeners \cup {s}
    /\ pending' = [pending EXCEPT ![s] = @ \o <<List(servers \ {s})>>]
    /\ UNCHANGED <<servers, count, isStarted, link, view, heard, faults>>

\* subscribeRequest is served: s listens from now on and gets the list.
Subscribe(s) ==
    /\ phase[s] = "registered" /\ link[s] = "up"
    /\ phase' = [phase EXCEPT ![s] = "subscribed"]
    /\ listeners' = listeners \cup {s}
    /\ pending' = [pending EXCEPT ![s] = @ \o <<List(servers)>>]
    /\ UNCHANGED <<servers, count, isStarted, link, view, heard, faults>>

\* addServers, removeServers and replaceServers of the application.
Applied(S, m) == CASE m.type = "servers"       -> S \cup m.ids
                   [] m.type = "addServer"     -> S \cup {m.id}
                   [] m.type = "removeServer"  -> S \ {m.id}
                   [] m.type = "replaceServer" -> m.ids
                   [] m.type = "startOver"     -> S

\* The next message reaches s.  The list lets the start of s go on.
Deliver(s) ==
    /\ pending[s] # <<>>
    /\ LET m == Head(pending[s]) IN
          /\ view' = [view EXCEPT ![s] = Applied(@, m)]
          /\ phase' = [phase EXCEPT ![s] = IF m.type = "servers" THEN "starting" ELSE @]
          /\ heard' = [heard EXCEPT ![s] = IF m.type = "startOver" THEN @ + 1 ELSE @]
    /\ pending' = [pending EXCEPT ![s] = Tail(@)]
    /\ UNCHANGED <<masterVars, link, faults>>

RecordEarly == /\ count' = count - 1
               /\ isStarted' = (count' <= 0)
               /\ IF count' <= 0 THEN Notify(StartOver) ELSE UNCHANGED pending

\* record.
Record == /\ count' = count - 1
          /\ isStarted' = (count' < 0)
          /\ IF count' < 0 THEN Notify(StartOver) ELSE UNCHANGED pending

\* afterStart of s is through: its monitor tells the master, if it can.
Started(s) ==
    /\ phase[s] = "starting"
    /\ phase' = [phase EXCEPT ![s] = "started"]
    /\ IF link[s] = "up" /\ ~isStarted THEN Record
       ELSE UNCHANGED <<count, isStarted, pending>>
    /\ UNCHANGED <<servers, listeners, link, view, heard, faults>>

-----------------------------------------------------------------------------
(* Faults *)

\* What s waits for when its connection breaks never comes.
Interrupted(p) == IF p \in {"registered", "subscribed"} THEN "stuck" ELSE p

\* A connection breaks; not that within the master's process.
Break(s) ==
    /\ faults < MaxFaults /\ s # Master /\ link[s] = "up"
    /\ faults' = faults + 1
    /\ link' = [link EXCEPT ![s] = "broken"]
    /\ pending' = [pending EXCEPT ![s] = <<>>]
    /\ phase' = [phase EXCEPT ![s] = Interrupted(@)]
    /\ UNCHANGED <<masterVars, view, heard>>

\* A server's process dies or is stopped.
Crash(s) ==
    /\ faults < MaxFaults /\ s # Master /\ phase[s] # "off"
    /\ faults' = faults + 1
    /\ link' = [link EXCEPT ![s] = IF @ = "up" THEN "broken" ELSE @]
    /\ pending' = [pending EXCEPT ![s] = <<>>]
    /\ phase' = [phase EXCEPT ![s] = "off"]
    /\ view' = [view EXCEPT ![s] = {}]
    /\ heard' = [heard EXCEPT ![s] = 0]
    /\ UNCHANGED masterVars

\* The master's process dies and a new one begins.
MasterCrash ==
    /\ faults < MaxFaults /\ phase[Master] # "off"
    /\ faults' = faults + 1
    /\ servers' = {} /\ listeners' = {} /\ count' = ConfigSize /\ isStarted' = FALSE
    /\ link' = [s \in Servers |-> "none"]
    /\ pending' = [s \in Servers |-> <<>>]
    /\ phase' = [s \in Servers |-> IF s = Master THEN "off" ELSE Interrupted(phase[s])]
    /\ view' = [view EXCEPT ![Master] = {}]
    /\ heard' = [heard EXCEPT ![Master] = 0]

\* The master hears of the end of a connection: removeServer.
RemoveServer(s) ==
    /\ link[s] = "broken"
    /\ link' = [link EXCEPT ![s] = "none"]
    /\ listeners' = listeners \ {s}
    /\ servers' = servers \ {s}
    /\ pending' = [t \in Servers |-> IF t \in listeners \ {s} THEN SentTo(t, <<Remove(s)>>)
                                     ELSE pending[t]]
    /\ UNCHANGED <<count, isStarted, phase, view, heard, faults>>

ReconnectSubscribesOnly(s) ==
    /\ phase[s] # "off" /\ link[s] = "none" /\ phase[Master] # "off"
    /\ link' = [link EXCEPT ![s] = "up"]
    /\ servers' = servers \cup {s}
    /\ Notify(Add(s))
    /\ listeners' = listeners \cup {s}
    /\ UNCHANGED <<count, isStarted, phase, view, heard, faults>>

\* The monitor of s has a connection again: reconnectServer.
ReconnectServer(s) ==
    /\ phase[s] # "off" /\ link[s] = "none" /\ phase[Master] # "off"
    /\ link' = [link EXCEPT ![s] = "up"]
    /\ servers' = servers \cup {s}
    /\ pending' = [t \in Servers |-> IF t = s THEN pending[s] \o <<Replace(servers')>>
                                     ELSE IF t \in listeners THEN SentTo(t, <<Add(s)>>)
                                     ELSE pending[t]]
    /\ listeners' = listeners \cup {s}
    /\ UNCHANGED <<count, isStarted, phase, view, heard, faults>>

Next == \/ \E s \in Servers : \/ Register(s) \/ Subscribe(s) \/ Deliver(s) \/ Started(s)
                              \/ Break(s) \/ Crash(s) \/ RemoveServer(s) \/ ReconnectServer(s)
        \/ MasterCrash

Spec == Init /\ [][Next]_vars

\* Messages of a standing connection arrive, and what a server does on its way
\* up is done.  Crashed servers need not come back.
Fairness == \A s \in Servers : WF_vars(Deliver(s) \/ Subscribe(s) \/ Started(s))

FairSpec == Spec /\ Fairness

-----------------------------------------------------------------------------
(* Properties *)

\* s listens over a standing connection.
Listening(s) == s \in listeners /\ link[s] = "up"

\* Whether m says anything of x, and what it makes of it.
Mentions(m, x) == \/ m.type = "replaceServer"
                  \/ m.type = "servers" /\ x \in m.ids
                  \/ m.type \in {"addServer", "removeServer"} /\ m.id = x
Keeps(m, x) == \/ m.type = "addServer"
               \/ m.type \in {"servers", "replaceServer"} /\ x \in m.ids

\* s will have x on its list once everything pending has arrived.
WillHave(s, x) ==
    LET said == {i \in 1..Len(pending[s]) : Mentions(pending[s][i], x)}
    IN  IF said = {} THEN x \in view[s]
        ELSE \E i \in said : (\A j \in said : j <= i) /\ Keeps(pending[s][i], x)

\* Nothing is missed between the list and the notifications, in whatever order
\* servers come, go, break and come back, with the same master or a new one:
\* what a listener knows and what is under way to it amount to the master's
\* list.
NothingMissed == \A s \in Servers : Listening(s) =>
                    \A x \in Servers : WillHave(s, x) <=> x \in servers

\* Until something goes wrong, the master takes the cluster for started exactly
\* when all servers, its own included, are; startOver is on its way to each of
\* them then, once, and to nobody before.
StartOverWhenAllStarted ==
    faults = 0 => /\ isStarted <=> \A s \in Servers : phase[s] = "started"
                  /\ \A s \in Servers :
                        heard[s] + Cardinality({i \in 1..Len(pending[s]) :
                                                  pending[s][i] = StartOver})
                            = IF isStarted THEN 1 ELSE 0

\* As faults are bounded, every listener gets the master's list in the end and
\* keeps it.
ViewsConverge == <>[](\A s \in Servers : Listening(s) => view[s] = servers)
=============================================================================
