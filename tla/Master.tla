-------------------------------- MODULE Master --------------------------------
(***************************************************************************)
(* The master process and the servers it runs: lib/master/master.js and    *)
(* starter.js, and lib/modules/console.js, the module behind the commands  *)
(* kill, stop, list, restart and add of an administrator.                  *)
(*                                                                         *)
(* Every server process has a monitor whose socket the master holds        *)
(* (agent.idMap).  A command asks servers over these sockets and waits for *)
(* them with a count down latch; the end of a socket makes the master      *)
(* restart a server that is configured so.  The two know of each other     *)
(* only through the list STOP_SERVERS.                                     *)
(***************************************************************************)
EXTENDS Integers, Sequences, FiniteSets, Functions

CONSTANTS Servers,         \* the servers of the configuration; add and cluster name them too
          Self,            \* the monitor of the master process itself
          AutoRestart,     \* those with auto-restart 'true'
          Forced,          \* those with restart-force 'true'
          ForceSet,        \* those with restart-force set to anything
          Commands,        \* the commands given, 1..n
          Scripts,         \* bound: the sequences of commands that may be given
          MaxFaults        \* bound: processes that die and sockets that break

Operations == {"kill", "list", "stop", "restart", "add", "cluster"}

ASSUME MasterAssumption ==
    /\ IsFiniteSet(Servers) /\ Self \notin Servers
    /\ AutoRestart \subseteq Servers /\ Forced \subseteq ForceSet /\ ForceSet \subseteq Servers
    /\ Scripts \subseteq Seq(Operations)
    /\ MaxFaults \in Nat

VARIABLES master,          \* "up", "leaving" when it is about to exit, "gone"
          proc,            \* proc[s]: "down", "booting", "up" or "stopping"
          pid,             \* pid[s]: a number for the last process of s
          sock,            \* sock[s]: "none", "live", "dead" if its process is gone
          agent,           \* agent[s]: the process at the other end of sock[s]
          told,            \* servers a stop notification is on its way to
          stopServers,     \* STOP_SERVERS
          autos,           \* automatic restarts under way: [server, pid, n, stage];
                           \* n tells those of one server apart
          cmd,             \* cmd[c]: [op, ids] of a command
          task,            \* task[c][a]: how far c is with agent a
          answers,         \* answers[c]: what the callback of c was called with
          faults           \* faults so far
VARIABLES made, count, timer, calls, late   \* of the commands' latches
\* History: automatic restarts given up; servers that were stopped, no automatic
\* restart of them being under way, and not started by a command since; those of
\* them that a later stop dropped from STOP_SERVERS before they were down;
\* commands whose latch was counted down once too often.
VARIABLES gaveUp, stopped, overwritten, thrown

latchVars   == <<made, count, timer, calls, late>>
processVars == <<proc, pid, sock, agent, told>>
commandVars == <<cmd, task, answers, latchVars, thrown>>
stopVars    == <<stopServers, stopped, overwritten>>
vars == <<master, processVars, stopVars, autos, commandVars, faults, gaveUp>>

Latch == INSTANCE CountDownLatch WITH Latches <- Commands

\* app.getServers() in the master: its own watcher is told of every monitor that
\* comes and goes, at once.
known == {s \in Servers : sock[s] # "none"}

Agents == Servers \cup {Self}
Asked    == {"asked", "lost"}
UnderWay == Asked \cup {"wait", "check"}

\* runServers: the master comes up and starts every server.
Init == /\ master = "up"
        /\ proc = [s \in Servers |-> "booting"]
        /\ pid = [s \in Servers |-> 0]
        /\ sock = [s \in Servers |-> "none"]
        /\ agent = [s \in Servers |-> 0]
        /\ told = {} /\ stopServers = {} /\ autos = {}
        /\ cmd = [c \in Commands |-> [op |-> "none", ids |-> {}]]
        /\ task = [c \in Commands |-> [a \in Agents |-> "none"]]
        /\ answers = [c \in Commands |-> <<>>]
        /\ faults = 0
        /\ Latch!Init
        /\ gaveUp = {} /\ stopped = {} /\ overwritten = {} /\ thrown = {}

-----------------------------------------------------------------------------
(* Processes *)

\* The automatic restarts of s under way, and a number none of them remembers.
RestartsOf(s) == {h \in autos : h.server = s}
Fresh(used)   == CHOOSE n \in 0..Cardinality(used) : n \notin used

\* The process of s ends; the master has not noticed yet.
Ends(s) == /\ proc' = [proc EXCEPT ![s] = "down"]
           /\ sock' = [sock EXCEPT ![s] = IF @ = "live" THEN "dead" ELSE @]

\* starter.run: a process for s.  It comes up unless the port is taken; a
\* stopping process may have given the port back already.
Run(s) == /\ \/ /\ proc[s] \in {"down", "stopping"}
                /\ proc' = [proc EXCEPT ![s] = "booting"]
                /\ pid' = [pid EXCEPT ![s] = Fresh({agent[s]} \cup {h.pid : h \in RestartsOf(s)})]
                /\ sock' = [sock EXCEPT ![s] = IF @ = "live" THEN "dead" ELSE @]
             \/ /\ proc[s] # "down"
                /\ UNCHANGED <<proc, pid, sock>>
          /\ UNCHANGED <<agent, told>>

\* checkPort: a port is taken by a process that is up.
Busy(s)    == proc[s] # "down"
Leisure(s) == proc[s] # "up"

\* The monitor of a process registers: 'register' or, after a broken
\* connection, 'reconnect', and the master's own watcher is told.
Register(s) ==
    /\ proc[s] \in {"booting", "up"} /\ sock[s] = "none"
    /\ proc' = [proc EXCEPT ![s] = "up"]
    /\ sock' = [sock EXCEPT ![s] = "live"]
    /\ agent' = [agent EXCEPT ![s] = pid[s]]
    /\ gaveUp' = gaveUp \ {s}
    /\ UNCHANGED <<master, pid, told, stopVars, autos, commandVars, faults>>

Crash(s) == /\ faults < MaxFaults /\ faults' = faults + 1
            /\ proc[s] \in {"booting", "up"}
            /\ Ends(s)
            /\ UNCHANGED <<master, pid, agent, told, stopVars, autos, commandVars,
                           gaveUp>>

\* A notification to stop arrives: app.stop(true).
ToldToStop(s) ==
    /\ s \in told /\ sock[s] = "live"
    /\ told' = told \ {s}
    /\ proc' = [proc EXCEPT ![s] = "stopping"]
    /\ UNCHANGED <<master, pid, sock, agent, stopVars, autos, commandVars, faults,
                   gaveUp>>

\* The stop of the application is through, or its timer is over.
Exit(s) == /\ proc[s] = "stopping"
           /\ Ends(s)
           /\ UNCHANGED <<master, pid, agent, told, stopVars, autos, commandVars, faults,
                          gaveUp>>

-----------------------------------------------------------------------------
(* The master's automatic restart *)

\* 'disconnect' of the socket of s: what was on its way over it is lost.
SocketCloses(s) ==
    /\ sock' = [sock EXCEPT ![s] = "none"]
    /\ told' = told \ {s}
    /\ task' = [c \in Commands |-> [task[c] EXCEPT ![s] = IF @ = "asked" THEN "lost" ELSE @]]
    /\ autos' = IF s \in (AutoRestart \cup Forced) \ stopServers
                THEN autos \cup {[server |-> s, pid |-> agent[s], stage |-> "ping",
                                  n |-> Fresh({h.n : h \in RestartsOf(s)})]}
                ELSE autos
    /\ UNCHANGED <<master, proc, pid, agent, stopVars, cmd, answers, latchVars, thrown,
                   gaveUp>>

Disconnect(s) == sock[s] = "dead" /\ UNCHANGED faults /\ SocketCloses(s)

\* The connection breaks although the process lives.
Drop(s) == /\ sock[s] = "live" /\ faults < MaxFaults /\ faults' = faults + 1
           /\ SocketCloses(s)

Goes(h, stage) == autos' = (autos \ {h}) \cup {[h EXCEPT !.stage = stage]}
Ended(h)       == autos' = autos \ {h}

\* A slip: a ping that fails is not tried again.
PingedOnce(h) == /\ h.stage = "ping"
                 /\ Goes(h, "check") \/ Ended(h)
                 /\ UNCHANGED <<master, processVars, stopVars, commandVars, faults, gaveUp>>

\* The host answers a ping; until then it is asked again and again.
Pinged(h) == /\ h.stage = "ping"
             /\ Goes(h, "check")
             /\ UNCHANGED <<master, processVars, stopVars, commandVars, faults, gaveUp>>

\* checkPort: kill the old process if the port is taken and restart-force is set
\* (to 'false' even), and give up if it is not or the command of checkPort fails.
Checked(h) ==
    /\ h.stage = "check"
    /\ \E status \in {"leisure", "busy", "error"} :
        /\ status = "leisure" => Leisure(h.server)
        /\ status = "busy" => Busy(h.server)
        /\ IF status = "error" \/ (status = "busy" /\ h.server \notin ForceSet)
           THEN /\ Ended(h) /\ gaveUp' = gaveUp \cup {h.server}
                /\ UNCHANGED <<proc, sock>>
           ELSE /\ Goes(h, "wait") /\ UNCHANGED gaveUp
                /\ IF status = "busy" /\ pid[h.server] = h.pid
                   THEN Ends(h.server) ELSE UNCHANGED <<proc, sock>>
    /\ UNCHANGED <<master, pid, agent, told, stopVars, commandVars, faults>>

\* Three seconds later.
Restarts(h) ==
    /\ h.stage = "wait"
    /\ Ended(h)
    /\ Run(h.server)
    /\ UNCHANGED <<master, stopVars, commandVars, faults, gaveUp>>

-----------------------------------------------------------------------------
(* The console module *)

Give(c, op, ids) ==
    /\ cmd[c].op = "none"
    /\ \E q \in Scripts : /\ c \in DOMAIN q /\ q[c] = op
                         /\ \A b \in Commands : b < c => cmd[b].op = q[b]
    /\ cmd' = [cmd EXCEPT ![c] = [op |-> op, ids |-> ids]]

Answered(c, code, ids, late_) ==
    answers' = [answers EXCEPT ![c] = Append(@, [code |-> code, ids |-> ids, timedOut |-> late_])]

TaskIn(t, stages) == {a \in Agents : t[a] \in stages}

arrayDiff(array1, array2) == array1 \ array2

\* The callback of the latch of c, when the tasks stand at t.
Finish(c, t, timedOut) ==
    CASE cmd[c].op = "kill" ->
            IF timedOut THEN Answered(c, "remained", TaskIn(t, Asked), TRUE)
                        ELSE Answered(c, "ok", {}, FALSE)
      [] cmd[c].op = "list" -> Answered(c, "list", TaskIn(t, {"answered"}), timedOut)
      [] OTHER ->          \* restart: arrayDiff of those asked and those run; cluster: `fails`
            LET ran == TaskIn(t, {"ran", "reported"}) IN
            IF ran = {} THEN Answered(c, "all failed", {}, timedOut)
            ELSE Answered(c, "failed", IF cmd[c].op = "restart" THEN arrayDiff(cmd[c].ids, ran)
                                       ELSE TaskIn(t, {"failed", "reported"}), timedOut)

\* After the callback of a kill the master has two seconds to live.
Leaves(c) == master' = IF cmd[c].op = "kill" THEN "leaving" ELSE master

\* latch.done() of c when its tasks stand at t: on a latch that is down it
\* throws, and the exception ends the handler.
Done(c, t) ==
    /\ task' = [task EXCEPT ![c] = t]
    /\ IF count[c] = 0
       THEN thrown' = thrown \cup {c} /\ UNCHANGED <<latchVars, answers, master>>
       ELSE /\ Latch!Done(c)
            /\ IF calls'[c] > calls[c] THEN Finish(c, t, FALSE) /\ Leaves(c)
                                       ELSE UNCHANGED <<answers, master>>
            /\ UNCHANGED thrown

Task(c, a, stage) == [task[c] EXCEPT ![a] = stage]

\* Two slips: the latch does not count the master's own monitor, and has no timer.
AskCountsServers(c, op) ==
    /\ Give(c, op, known \cup {Self})
    /\ task' = [task EXCEPT ![c] = [a \in Agents |-> IF a \in known \cup {Self} THEN "asked" ELSE "none"]]
    /\ Latch!Create(c, Cardinality(known), TRUE)
    /\ UNCHANGED <<master, processVars, stopVars, autos, answers, thrown, faults, gaveUp>>

AskUntimed(c, op) ==
    /\ Give(c, op, known \cup {Self})
    /\ task' = [task EXCEPT ![c] = [a \in Agents |-> IF a \in known \cup {Self} THEN "asked" ELSE "none"]]
    /\ Latch!Create(c, Cardinality(known) + 1, FALSE)
    /\ UNCHANGED <<master, processVars, stopVars, autos, answers, thrown, faults, gaveUp>>

\* kill and list: every agent is asked, the master's own monitor too.
AskAll(c, op) ==
    LET agents == known \cup {Self} IN
    /\ Give(c, op, agents)
    /\ task' = [task EXCEPT ![c] = [a \in Agents |-> IF a \in agents THEN "asked" ELSE "none"]]
    /\ Latch!Create(c, Cardinality(agents), TRUE)
    /\ UNCHANGED <<master, processVars, stopVars, autos, answers, thrown, faults, gaveUp>>

Kill(c) == AskAll(c, "kill")
List(c) == AskAll(c, "list")

\* restart: the servers named, or all the master knows (none: the latch throws).
Restart(c, ids) ==
    LET asked == IF ids = {} THEN known ELSE ids IN
    /\ Give(c, "restart", asked)
    /\ IF asked = {}
       THEN thrown' = thrown \cup {c} /\ UNCHANGED <<task, latchVars>>
       ELSE /\ task' = [task EXCEPT ![c] = [a \in Agents |-> IF a \in asked THEN "asked" ELSE "none"]]
            /\ Latch!Create(c, Cardinality(asked), TRUE)
            /\ UNCHANGED thrown
    /\ UNCHANGED <<master, processVars, stopVars, autos, answers, faults, gaveUp>>

\* add of servers: their ports are checked and then they are run.
Add(c, op, ids) ==
    /\ Give(c, op, ids)
    /\ task' = [task EXCEPT ![c] = [a \in Agents |-> IF a \in ids THEN "check" ELSE "none"]]
    /\ IF op = "cluster" THEN Latch!Create(c, Cardinality(ids), FALSE) ELSE UNCHANGED latchVars
    /\ UNCHANGED <<master, processVars, stopVars, autos, answers, thrown, faults, gaveUp>>

\* One server, or a cluster of them: only this has a latch, without a timer.
AddServer(c, s)    == Add(c, "add", {s})
AddCluster(c, ids) == ids # {} /\ Add(c, "cluster", ids)

\* The process of s is connected and no automatic restart of it is under way.
Settled(s) == sock[s] = "live" /\ RestartsOf(s) = {}
\* What is stopped already and will not be heard of again.
Asleep(s)  == proc[s] = "down" /\ sock[s] = "none"

\* A slip: a stop leaves STOP_SERVERS as it is.
StoppingForgets(ids) ==
    /\ stopped' = stopped \cup {s \in ids : Settled(s)}
    /\ UNCHANGED <<stopServers, overwritten>>

\* What a stop of `ids` does to STOP_SERVERS: the list of an earlier stop is gone.
Stopping(ids) ==
    LET resumed == {s \in ids : Settled(s)} IN
    /\ stopServers' = ids
    /\ stopped' = stopped \cup resumed
    /\ overwritten' = (overwritten \cup {s \in stopped \ ids : ~Asleep(s)}) \ resumed

\* The answers of a stop that names `unknown`: an error for each, and then "part".
Refusals(unknown, order) ==
    [i \in 1..Cardinality(unknown) |-> [code |-> "unknown", ids |-> {order[i]}, timedOut |-> FALSE]]
Part == [code |-> "part", ids |-> {}, timedOut |-> FALSE]

\* stop of the servers named; those the master does not know come in any order.
StopSome(c, ids) ==
    /\ ids # {}
    /\ Give(c, "stop", ids)
    /\ Stopping(ids)
    /\ told' = told \cup (ids \cap known)
    /\ \E order \in Bijection(1..Cardinality(ids \ known), ids \ known) :
          answers' = [answers EXCEPT ![c] = Append(Refusals(ids \ known, order), Part)]
    /\ UNCHANGED <<master, proc, pid, sock, agent, autos, task, latchVars, thrown,
                   faults, gaveUp>>

\* stop of all: everyone is notified, and three seconds later it is answered.
StopAll(c) ==
    /\ Give(c, "stop", {})
    /\ Stopping(known)
    /\ told' = told \cup known
    /\ UNCHANGED <<master, proc, pid, sock, agent, autos, task, answers, latchVars, thrown,
                   faults, gaveUp>>

StopAllEnds(c) ==
    /\ cmd[c].op = "stop" /\ cmd[c].ids = {} /\ answers[c] = <<>>
    /\ Answered(c, "all", {}, FALSE)
    /\ master' = "leaving"
    /\ UNCHANGED <<processVars, stopVars, autos, cmd, task, latchVars, thrown, faults, gaveUp>>

\* monitorHandler: an agent takes a request.  It answers a kill or a restart
\* and stops after that; the master's own never stops.
AgentAnswers(c, a) ==
    /\ task[c][a] = "asked"
    /\ a \in Servers => sock[a] = "live"
    /\ IF a \in Servers /\ cmd[c].op # "list"
       THEN proc' = [proc EXCEPT ![a] = "stopping"] ELSE UNCHANGED proc
    /\ IF cmd[c].op = "restart"
       THEN /\ task' = [task EXCEPT ![c] = Task(c, a, "wait")]
            /\ UNCHANGED <<master, answers, latchVars, thrown>>
       ELSE Done(c, Task(c, a, "answered"))
    /\ UNCHANGED <<pid, sock, agent, told, stopVars, autos, cmd, faults, gaveUp>>

\* A slip: the empty answer is counted, and the restart goes on with it.
NoAgentGoesOn(c, s) ==
    /\ cmd[c].op = "restart" /\ task[c][s] = "asked" /\ sock[s] = "none"
    /\ Done(c, Task(c, s, "wait"))
    /\ UNCHANGED <<processVars, stopVars, autos, cmd, faults, gaveUp>>

\* A restart asks for a server that has no agent: an empty answer.
NoAgent(c, s) ==
    /\ cmd[c].op = "restart" /\ task[c][s] = "asked" /\ sock[s] = "none"
    /\ Done(c, Task(c, s, "failed"))
    /\ UNCHANGED <<processVars, stopVars, autos, cmd, faults, gaveUp>>

\* Five seconds after the answer the restarting server has made room.
RestartWaited(c, s) ==
    /\ task[c][s] = "wait"
    /\ task' = [task EXCEPT ![c] = Task(c, s, "check")]
    /\ UNCHANGED <<master, processVars, stopVars, autos, cmd, answers, latchVars, thrown,
                   faults, gaveUp>>

\* runServer, and start of a cluster: the port is found taken or free.
PortBusy(c, s) ==
    /\ task[c][s] = "check" /\ Busy(s)
    /\ IF cmd[c].op = "add"
       THEN /\ task' = [task EXCEPT ![c] = Task(c, s, "failed")]
            /\ Answered(c, "busy", {s}, FALSE)
            /\ UNCHANGED <<master, latchVars, thrown>>
       ELSE Done(c, Task(c, s, "failed"))
    /\ UNCHANGED <<processVars, stopVars, autos, cmd, faults, gaveUp>>

PortFree(c, s) ==
    /\ task[c][s] = "check" /\ Leisure(s)
    /\ Run(s)
    /\ stopped' = stopped \ {s} /\ overwritten' = overwritten \ {s}
    /\ IF cmd[c].op = "add"
       THEN /\ task' = [task EXCEPT ![c] = Task(c, s, "ran")]
            /\ Answered(c, "ok", {}, FALSE)
            /\ UNCHANGED <<master, latchVars, thrown>>
       ELSE Done(c, Task(c, s, "ran"))
    /\ UNCHANGED <<stopServers, autos, cmd, faults, gaveUp>>

\* spawnProcess: the child writes to stderr or exits with an error, and the
\* callback of run gets it, though the server was counted as run before.
ChildReports(c, s) ==
    /\ task[c][s] = "ran"
    /\ IF cmd[c].op = "add"
       THEN /\ task' = [task EXCEPT ![c] = Task(c, s, "reported")]
            /\ Answered(c, "error", {s}, FALSE)
            /\ UNCHANGED <<master, latchVars, thrown>>
       ELSE Done(c, Task(c, s, "reported"))
    /\ UNCHANGED <<processVars, stopVars, autos, cmd, faults, gaveUp>>

LatchTimesOut(c) ==
    /\ Latch!Timeout(c)
    /\ Finish(c, task[c], TRUE)
    /\ Leaves(c)
    /\ UNCHANGED <<processVars, stopVars, autos, cmd, task, thrown, faults, gaveUp>>

\* process.exit of the master.
Leave == /\ master = "leaving"
         /\ master' = "gone"
         /\ UNCHANGED <<processVars, stopVars, autos, commandVars, faults, gaveUp>>

-----------------------------------------------------------------------------

ServerStep(s) == Register(s) \/ ToldToStop(s) \/ Exit(s) \/ Disconnect(s)
AutoStep      == \E h \in autos : Pinged(h) \/ Checked(h) \/ Restarts(h)
Command(c) == \/ Kill(c) \/ List(c) \/ StopAll(c)
              \/ \E s \in Servers : AddServer(c, s)
              \/ \E ids \in SUBSET Servers : \/ Restart(c, ids) \/ StopSome(c, ids)
                                             \/ AddCluster(c, ids)
ConsoleStep(c) == \/ \E s \in Servers : NoAgent(c, s) \/ RestartWaited(c, s)
                                        \/ PortBusy(c, s) \/ PortFree(c, s)
                  \/ LatchTimesOut(c) \/ StopAllEnds(c)

Next == /\ master # "gone"
        /\ \/ \E s \in Servers : ServerStep(s) \/ Crash(s) \/ Drop(s)
           \/ AutoStep
           \/ \E c \in Commands : \/ Command(c) \/ ConsoleStep(c)
                                  \/ \E a \in Agents : AgentAnswers(c, a)
                                  \/ \E s \in Servers : ChildReports(c, s)
           \/ Leave

Spec == Init /\ [][Next]_vars

\* Timers fire, commands of the shell end, pings are answered at last, sockets
\* of ended processes close.  Nothing is assumed of agents and children.
FairSpec == Spec /\ \A c \in Commands : WF_vars(master # "gone" /\ ConsoleStep(c))
                 /\ \A s \in Servers : WF_vars(master # "gone" /\ Disconnect(s))
                 /\ WF_vars(master # "gone" /\ AutoStep)

\* What the variables hold.
TypeOK ==
    /\ master \in {"up", "leaving", "gone"}
    /\ proc \in [Servers -> {"down", "booting", "up", "stopping"}]
    /\ pid \in [Servers -> Nat] /\ agent \in [Servers -> Nat]
    /\ sock \in [Servers -> {"none", "live", "dead"}]
    /\ told \subseteq Servers /\ stopServers \subseteq Servers
    /\ autos \subseteq [server : Servers, pid : Nat, n : Nat, stage : {"ping", "check", "wait"}]
    /\ cmd \in [Commands -> [op : Operations \cup {"none"}, ids : SUBSET Agents]]
    /\ task \in [Commands -> [Agents -> {"none", "asked", "lost", "answered", "wait", "check",
                                         "ran", "failed", "reported"}]]
    /\ Latch!TypeOK
    /\ faults \in 0..MaxFaults
    /\ gaveUp \subseteq Servers /\ stopped \subseteq Servers /\ overwritten \subseteq Servers
    /\ thrown \subseteq Commands

-----------------------------------------------------------------------------
(* Properties *)

Reported(c) == \E s \in Servers : task[c][s] = "reported"

\* An answer that came without a timeout is complete: nobody who was asked is
\* still at it, a kill is "ok" only if every agent has said so, and a server
\* missing from the list of a restart's failures has been run.
CompleteAnswers == \A c \in Commands : \A i \in 1..Len(answers[c]) :
    LET a == answers[c][i] IN
    (~a.timedOut /\ ~Reported(c)) =>
        /\ TaskIn(task[c], UnderWay) = {}
        /\ a.code = "failed" => a.ids = TaskIn(task[c], {"failed"})

\* What a stop says of a server it cannot find is not the end of it.
Final(c)   == {i \in 1..Len(answers[c]) : answers[c][i].code # "unknown"}
Refusal(c) == 1..Len(answers[c]) \ Final(c)

\* One final answer, or more after a timeout or the late error of a child.
FinalOnce(c) == \A i, j \in Final(c) : i < j => answers[c][i].timedOut \/ Reported(c)

\* Errors before it are those of a stop, each of another server that it names.
RefusedEach(c) == \A i \in Refusal(c) :
    /\ cmd[c].op = "stop" /\ \E s \in cmd[c].ids : answers[c][i].ids = {s}
    /\ \E j \in Final(c) : i < j
    /\ \A j \in Refusal(c) : answers[c][i].ids = answers[c][j].ids => i = j

\* "Count down to zero or timeout and invoke cb finally" (countDownLatch.js
\* l. 4): a command gets one final answer, but for timeouts before it and for a
\* child that reports an error after it was counted; only then is a latch
\* counted below zero.  What else its callback gets is an error for each server
\* a stop names and the master does not know, once and before the answer.
OneAnswer == \A c \in Commands :
    /\ FinalOnce(c) /\ RefusedEach(c)
    /\ (c \in thrown /\ cmd[c].ids # {}) => Reported(c)

\* A server that was stopped, no automatic restart of it being under way, is
\* not started again by the master on its own, whatever happens to its process
\* and its socket, until a command starts it.  This is so only as long as
\* STOP_SERVERS names it while it goes down: a later stop that names other
\* servers overwrites the list (console.js l. 153, 169), and then the end of its
\* socket starts it again.
StoppedStaysDown == \A s \in stopped \ overwritten : proc[s] # "booting"

\* Every command is answered, whatever agents do, or it threw at once.
CommandAnswered == \A c \in Commands :
    (cmd[c].op # "none") ~> (answers[c] # <<>> \/ c \in thrown \/ master = "gone")

\* A registered server that dies and is to be restarted comes back, unless a
\* stop names it in STOP_SERVERS, be it one that was over long ago and whose list
\* was never cleared, or the master gave the restart up: its port was found in
\* use without restart-force, or the command that checks the port failed.
CrashedComesBack == \A s \in AutoRestart \cup Forced :
    (sock[s] = "dead" /\ proc[s] = "down") ~>
        (proc[s] # "down" \/ s \in stopServers \cup gaveUp \/ master = "gone")
=============================================================================
