----------------------------- MODULE Processes_proofs -----------------------------
(***************************************************************************)
(* Proofs about processes.  What the console stops the master does not     *)
(* start again, and commands are answered once and completely, for any     *)
(* servers, commands and faults; a process comes up whole and goes down    *)
(* cleanly, for any calls of start and stop.                               *)
(***************************************************************************)
EXTENDS Master, AppLifecycle, FiniteSetTheorems, TLAPS

\* A process with a live socket is not one that is still booting.
LiveIsUp == \A s \in Servers : sock[s] = "live" => proc[s] # "booting"

Fields == /\ DOMAIN proc = Servers /\ DOMAIN sock = Servers
          /\ stopped \subseteq Servers /\ LiveIsUp
          /\ \A h \in autos : h = [server |-> h.server, pid |-> h.pid, stage |-> h.stage, n |-> h.n]

\* The servers that were stopped and that no later stop has dropped.
Resting == stopped \ overwritten

\* Why they stay down: the only thing that makes an automatic restart is the end
\* of a socket, and then either STOP_SERVERS still names the server or it has
\* ended before and has no socket that could end.
Rests == \A s \in Resting : /\ proc[s] # "booting"
                            /\ \A h \in autos : h.server # s
                            /\ s \in stopServers \/ Asleep(s)

IInv == Fields /\ Rests

\* The variables the invariant speaks of.
seen == <<proc, sock, autos, stopVars>>

LEMMA InitRests == Init => IInv
BY DEF Init, IInv, Fields, LiveIsUp, Rests, Resting

LEMMA SeenUnchanged == IInv /\ UNCHANGED seen => IInv'
BY DEF IInv, Fields, LiveIsUp, Rests, Resting, seen, stopVars, Asleep

\* What an action may do to the processes and sockets of resting servers: they
\* leave a server that is asleep alone and start none that rests.
Gentle == /\ DOMAIN proc' = Servers /\ DOMAIN sock' = Servers /\ LiveIsUp'
          /\ \A s \in Resting' : /\ proc'[s] # "booting"
                                 /\ Asleep(s) => Asleep(s)'

\* No server is stopped, but some may be started.
Fewer == stopped' \subseteq stopped /\ Resting' \subseteq Resting

LEMMA GentleStep ==
    ASSUME IInv, Gentle, autos' = autos, stopServers' = stopServers, Fewer
    PROVE  IInv'
BY DEF IInv, Fields, LiveIsUp, Rests, Gentle, Fewer, Asleep

\* Processes that come up are not resting.
LEMMA RegisterRests == ASSUME IInv, NEW s \in Servers, Register(s) PROVE IInv'
<1>1. Gentle
  BY DEF IInv, Fields, LiveIsUp, Rests, Register, Gentle, Asleep, stopVars, Resting
<1>2. QED
  BY <1>1, GentleStep DEF Register, stopVars, Fewer, Resting

\* Nor does one that ends wake up, whatever the automatic restarts of others do.
LEMMA EndsRests ==
    ASSUME IInv, NEW s, Ends(s), Fields', UNCHANGED stopVars,
           \A h \in autos' : \E g \in autos : h.server = g.server
    PROVE  IInv'
<1>1. \A r \in Servers : Asleep(r) => Asleep(r)'
  BY DEF IInv, Fields, LiveIsUp, Ends, Asleep
<1>2. \A r \in Resting : proc'[r] # "booting"
  BY DEF IInv, Fields, LiveIsUp, Rests, Ends
<1>3. Rests'
  BY <1>1, <1>2 DEF IInv, Fields, LiveIsUp, Rests, stopVars, Resting
<1>4. QED
  BY <1>3 DEF IInv

\* A notification or a request only reaches a process with a live socket.
LEMMA StopsRests ==
    ASSUME IInv, NEW s \in Servers, sock[s] = "live",
           proc' = [proc EXCEPT ![s] = "stopping"], UNCHANGED <<sock, autos, stopVars>>
    PROVE  IInv'
<1>1. Gentle
  BY DEF IInv, Fields, LiveIsUp, Rests, Gentle, Asleep, stopVars, Resting
<1>2. QED
  BY <1>1, GentleStep DEF stopVars, Fewer, Resting

\* The end of a socket: a resting server is named by STOP_SERVERS, for one that
\* is asleep has no socket.
LEMMA SocketClosesRests ==
    ASSUME IInv, NEW s \in Servers, sock[s] # "none", SocketCloses(s)
    PROVE  IInv'
<1>1. Fields'
  BY DEF IInv, Fields, LiveIsUp, SocketCloses, stopVars, Resting
<1>2. s \in Resting => s \in stopServers
  BY DEF IInv, Rests, Asleep
<1>3. \A h \in autos' : h \in autos \/ (h.server = s /\ s \notin Resting)
  BY <1>2 DEF SocketCloses
<1>4. \A r \in Resting' : Asleep(r) => Asleep(r)'
  BY DEF IInv, Fields, LiveIsUp, SocketCloses, Asleep
<1>5. Rests'
  BY <1>3, <1>4 DEF IInv, Rests, SocketCloses, stopVars, Resting
<1>6. QED
  BY <1>1, <1>5 DEF IInv

\* A process is run for a server that does not rest.
LEMMA RunRests ==
    ASSUME IInv, NEW s, Run(s), s \notin Resting', Fewer,
           autos' \subseteq autos, stopServers' = stopServers
    PROVE  IInv'
<1>1. DOMAIN proc' = Servers /\ DOMAIN sock' = Servers /\ LiveIsUp'
  BY DEF IInv, Fields, LiveIsUp, Run
<1>2. \A r \in Servers \ {s} : proc'[r] = proc[r] /\ sock'[r] = sock[r]
  BY DEF IInv, Fields, LiveIsUp, Run
<1>3. Resting' \subseteq Servers \ {s}
  BY DEF IInv, Fields, LiveIsUp, Fewer, Resting
<1>4. \A r \in Resting' : Asleep(r) => Asleep(r)'
  BY <1>2, <1>3 DEF Asleep
<1>5. Fields'
  BY <1>1, <1>3 DEF IInv, Fields, LiveIsUp, Fewer, Resting
<1>6. Rests'
  BY <1>2, <1>3, <1>4 DEF IInv, Rests, Fewer, Resting
<1>7. QED
  BY <1>5, <1>6 DEF IInv

\* The automatic restart: of no server that rests.
LEMMA GoesFields ==
    ASSUME Fields, NEW h \in autos, NEW stage, Goes(h, stage), UNCHANGED stopVars,
           DOMAIN proc' = Servers, DOMAIN sock' = Servers, LiveIsUp'
    PROVE  Fields' /\ \A g \in autos' : \E f \in autos : g.server = f.server
<1>1. PICK s, p, n, st : h = [server |-> s, pid |-> p, stage |-> st, n |-> n]
  BY DEF Fields, LiveIsUp
<1>2. [h EXCEPT !.stage = stage] = [server |-> s, pid |-> p, stage |-> stage, n |-> n]
  BY <1>1
<1>3. autos' = (autos \ {h}) \cup {[server |-> s, pid |-> p, stage |-> stage, n |-> n]}
  BY <1>2 DEF Goes
<1>4. QED
  BY <1>1, <1>3 DEF Fields, LiveIsUp, stopVars, Resting

LEMMA AutoRests == ASSUME IInv, AutoStep PROVE IInv'
<1> PICK h \in autos : Pinged(h) \/ Checked(h) \/ Restarts(h)
  BY DEF AutoStep
<1>1. h.server \notin Resting
  BY DEF IInv, Rests
<1>2. CASE Pinged(h)
  <2>1. UNCHANGED <<proc, sock, stopVars>>
    BY <1>2 DEF Pinged, processVars
  <2>2. Fields' /\ \A g \in autos' : \E f \in autos : g.server = f.server
    BY <1>2, <2>1, GoesFields DEF Pinged, IInv, Fields, LiveIsUp
  <2>3. QED
    BY <2>1, <2>2 DEF IInv, Rests, Asleep, stopVars, Resting
<1>3. CASE Checked(h)
  <2>1. UNCHANGED stopVars /\ (Ends(h.server) \/ UNCHANGED <<proc, sock>>)
    BY <1>3 DEF Checked
  <2>2. DOMAIN proc' = Servers /\ DOMAIN sock' = Servers /\ LiveIsUp'
    BY <2>1 DEF Ends, IInv, Fields, LiveIsUp
  <2>3. Goes(h, "wait") \/ Ended(h)
    BY <1>3 DEF Checked
  <2>4. Fields' /\ \A g \in autos' : \E f \in autos : g.server = f.server
    <3>1. CASE Goes(h, "wait")
      BY <3>1, <2>1, <2>2, GoesFields DEF IInv
    <3>2. CASE Ended(h)
      BY <3>2, <2>1, <2>2 DEF Ended, IInv, Fields, LiveIsUp, stopVars, Resting
    <3>3. QED
      BY <2>3, <3>1, <3>2
  <2>5. CASE Ends(h.server)
    BY <2>1, <2>4, <2>5, EndsRests
  <2>6. CASE UNCHANGED <<proc, sock>>
    BY <2>1, <2>4, <2>6 DEF IInv, Rests, Asleep, stopVars, Resting
  <2>7. QED
    BY <2>1, <2>5, <2>6
<1>4. CASE Restarts(h)
  <2>1. Run(h.server) /\ autos' \subseteq autos /\ UNCHANGED stopVars
    BY <1>4 DEF Restarts, Ended
  <2>2. QED
    BY <1>1, <2>1, RunRests DEF stopVars, Fewer, Resting
<1>5. QED
  BY <1>2, <1>3, <1>4

\* A stop: what rests after it has rested and is asleep, or is named now, with
\* no automatic restart under way.
LEMMA StoppingRests ==
    ASSUME IInv, NEW ids \in SUBSET Servers, Stopping(ids), UNCHANGED <<proc, sock, autos>>
    PROVE  IInv'
<1>1. stopServers' = ids /\ stopped' = stopped \cup {s \in ids : Settled(s)}
  BY DEF Stopping
<1>2. Fields'
  BY <1>1 DEF IInv, Fields, LiveIsUp
<1>3. \A s \in Resting' : s \in Servers
  BY <1>2 DEF Fields, Resting
<1>4. ASSUME NEW s \in ids, Settled(s)
      PROVE  proc[s] # "booting" /\ \A h \in autos : h.server # s
  BY <1>4 DEF IInv, Fields, LiveIsUp, Settled, RestartsOf
<1>5. \A s \in Resting' : ~Settled(s) \/ s \notin ids => s \in Resting /\ (s \in ids \/ Asleep(s))
  BY <1>1 DEF Stopping, Resting
<1>6. Rests'
  BY <1>1, <1>4, <1>5 DEF IInv, Rests, Asleep
<1> QED
  BY <1>2, <1>6 DEF IInv

\* Of the commands only a stop changes STOP_SERVERS.
LEMMA CommandRests == ASSUME IInv, NEW c \in Commands, Command(c) PROVE IInv'
<1>1. CASE UNCHANGED seen
  BY <1>1, SeenUnchanged
<1>2. ASSUME NEW ids \in SUBSET Servers, StopSome(c, ids) PROVE IInv'
  BY <1>2, StoppingRests DEF StopSome
<1>3. CASE StopAll(c)
  BY <1>3, StoppingRests DEF StopAll, known
<1>4. Kill(c) \/ List(c) => UNCHANGED seen
  BY DEF Kill, List, AskAll, processVars, seen
<1>5. \A ids \in SUBSET Servers : Restart(c, ids) => UNCHANGED seen
  BY DEF Restart, processVars, seen
<1>6. /\ \A s \in Servers : AddServer(c, s) => UNCHANGED seen
      /\ \A ids \in SUBSET Servers : AddCluster(c, ids) => UNCHANGED seen
  BY DEF AddServer, AddCluster, Add, processVars, seen
<1>7. QED
  BY <1>1, <1>2, <1>3, <1>4, <1>5, <1>6 DEF Command

LEMMA AnswerRests ==
    ASSUME IInv, NEW c \in Commands, NEW a \in Agents, AgentAnswers(c, a) PROVE IInv'
<1>1. UNCHANGED <<sock, autos, stopVars>>
  BY DEF AgentAnswers
<1>2. CASE UNCHANGED proc
  BY <1>1, <1>2, SeenUnchanged DEF seen
<1>3. CASE a \in Servers /\ proc' = [proc EXCEPT ![a] = "stopping"]
  BY <1>1, <1>3, StopsRests DEF AgentAnswers
<1>4. QED
  BY <1>2, <1>3 DEF AgentAnswers

\* The steps of a command: none starts a server that rests, PortFree because
\* its server rests no longer.
LEMMA ConsoleRests == ASSUME IInv, NEW c \in Commands, ConsoleStep(c) PROVE IInv'
<1>1. CASE UNCHANGED seen
  BY <1>1, SeenUnchanged
<1>2. ASSUME NEW s \in Servers, PortFree(c, s) PROVE IInv'
  BY <1>2, RunRests DEF PortFree, Fewer, Resting
<1>3. \A s \in Servers : (NoAgent(c, s) \/ RestartWaited(c, s) \/ PortBusy(c, s)) => UNCHANGED seen
  BY DEF NoAgent, RestartWaited, PortBusy, processVars, seen
<1>4. (LatchTimesOut(c) \/ StopAllEnds(c)) => UNCHANGED seen
  BY DEF LatchTimesOut, StopAllEnds, processVars, seen
<1>5. QED
  BY <1>1, <1>2, <1>3, <1>4 DEF ConsoleStep

LEMMA StepRests == IInv /\ [Next]_vars => IInv'
<1> SUFFICES ASSUME IInv, [Next]_vars PROVE IInv'
  OBVIOUS
<1>1. CASE UNCHANGED vars
  BY <1>1, SeenUnchanged DEF vars, processVars, seen
<1>2. ASSUME NEW s \in Servers, ServerStep(s) PROVE IInv'
  <2>1. CASE Register(s)
    BY <2>1, RegisterRests
  <2>2. CASE ToldToStop(s)
    BY <2>2, StopsRests DEF ToldToStop
  <2>3. CASE Exit(s)
    <3>1. Ends(s) /\ UNCHANGED <<autos, stopVars>>
      BY <2>3 DEF Exit
    <3>2. Fields'
      BY <3>1 DEF IInv, Fields, LiveIsUp, Ends, stopVars, Resting
    <3>3. QED
      BY <3>1, <3>2, EndsRests
  <2>4. CASE Disconnect(s)
    BY <2>4, SocketClosesRests DEF Disconnect
  <2>5. QED
    BY <1>2, <2>1, <2>2, <2>3, <2>4 DEF ServerStep
<1>3. ASSUME NEW s \in Servers, Crash(s) PROVE IInv'
  <2>1. Ends(s) /\ UNCHANGED <<autos, stopVars>>
    BY <1>3 DEF Crash
  <2>2. Fields'
    BY <2>1 DEF IInv, Fields, LiveIsUp, Ends, stopVars, Resting
  <2>3. QED
    BY <2>1, <2>2, EndsRests
<1>4. ASSUME NEW s \in Servers, Drop(s) PROVE IInv'
  BY <1>4, SocketClosesRests DEF Drop
<1>5. ASSUME NEW c \in Commands, NEW s \in Servers, ChildReports(c, s) PROVE IInv'
  BY <1>5, SeenUnchanged DEF ChildReports, processVars, seen
<1>6. CASE Leave
  BY <1>6, SeenUnchanged DEF Leave, processVars, seen
<1>7. QED
  BY <1>1, <1>2, <1>3, <1>4, <1>5, <1>6, AutoRests, CommandRests, ConsoleRests, AnswerRests
     DEF Next

\* A server that the console has stopped is not started again by the master on
\* its own, for any servers, commands and faults, unless a later stop has dropped
\* it from STOP_SERVERS before it was down.
THEOREM StoppedStaysDownCorrect == Spec => []StoppedStaysDown
<1>1. IInv => StoppedStaysDown
  BY DEF IInv, Rests, Resting, StoppedStaysDown
<1>2. QED
  BY InitRests, StepRests, <1>1, PTL DEF Spec

-----------------------------------------------------------------------------
(* The answers of commands *)

Stages == {"none", "asked", "lost", "answered", "wait", "check", "ran", "failed", "reported"}
Codes  == {"ok", "remained", "list", "all failed", "failed", "part", "all", "busy", "error", "unknown"}
Reply  == [code : Codes, ids : SUBSET Agents, timedOut : BOOLEAN]

AnswerTypes == /\ cmd \in [Commands -> [op : Operations \cup {"none"}, ids : SUBSET Agents]]
               /\ task \in [Commands -> [Agents -> Stages]]
               /\ count \in [Commands -> Nat] /\ calls \in [Commands -> Nat]
               /\ timer \in [Commands -> {"none", "set", "over"}]
               /\ answers \in [Commands -> Seq(Reply)]

\* The commands that wait with a latch, and how far their agents can be.
Latched(c) == cmd[c].op \in {"kill", "list", "cluster"} \/ (cmd[c].op = "restart" /\ cmd[c].ids # {})

StagesOf(op) == CASE op \in {"kill", "list"}    -> {"asked", "lost", "answered"}
                  [] op = "restart"             -> Stages \ {"none", "answered"}
                  [] op \in {"add", "cluster"}  -> {"check", "ran", "failed", "reported"}
                  [] OTHER                      -> {"none"}

Working(c) == TaskIn(task[c], UnderWay)

\* A command has tasks with the agents it named, of the kind of its operation.
Placed(c) == /\ \A a \in Agents : task[c][a] \in IF a \in cmd[c].ids THEN StagesOf(cmd[c].op)
                                                                     ELSE {"none"}
             /\ cmd[c].op \in {"restart", "add", "cluster"} => cmd[c].ids \subseteq Servers
             /\ cmd[c].op = "add" => \E s \in Servers : cmd[c].ids = {s}

\* Unless a child reported an error late, the latch waits for those at work.
Counted(c) == (Latched(c) /\ ~Reported(c)) => count[c] = Cardinality(Working(c))

\* Nobody has been told anything while the timer runs, an added server is at
\* work or the command has not been given.
Untold(c) == /\ timer[c] = "set" => Latched(c) /\ answers[c] = <<>>
             /\ (cmd[c].op = "add" /\ Working(c) # {}) => answers[c] = <<>>
             /\ cmd[c].op = "none" => answers[c] = <<>> /\ c \notin thrown

Complete(c) == \A i \in 1..Len(answers[c]) :
    LET a == answers[c][i] IN
    (~a.timedOut /\ ~Reported(c)) =>
        /\ TaskIn(task[c], UnderWay) = {}
        /\ a.code = "failed" => a.ids = TaskIn(task[c], {"failed"})

Once(c) == /\ FinalOnce(c) /\ RefusedEach(c)
           /\ (c \in thrown /\ cmd[c].ids # {}) => Reported(c)

CInv(c) == Placed(c) /\ Counted(c) /\ Untold(c) /\ Complete(c) /\ Once(c)

\* The inductive invariant: an answer that is no timeout was given when nobody
\* was at work, and the latch is at zero since then, so that no second can come
\* from it; a timeout comes only before any other answer.
AInv == AnswerTypes /\ \A c \in Commands : CInv(c)

\* What a command's invariant depends on.
Same(c) == /\ cmd'[c] = cmd[c] /\ task'[c] = task[c] /\ answers'[c] = answers[c]
           /\ count'[c] = count[c] /\ timer'[c] = timer[c]
           /\ c \in thrown' <=> c \in thrown

LEMMA SameKeeps == ASSUME NEW c, CInv(c), Same(c) PROVE CInv(c)'
<1>1. Latched(c)' <=> Latched(c)
  BY DEF Same, Latched
<1>2. (Reported(c)' <=> Reported(c)) /\ Working(c)' = Working(c)
  BY DEF Same, Reported, Working, TaskIn
<1>3. Placed(c)'
  BY DEF CInv, Same, Placed
<1>4. Counted(c)' /\ Untold(c)'
  BY <1>1, <1>2 DEF CInv, Same, Counted, Untold
<1>5. Complete(c)'
  BY <1>2 DEF CInv, Same, Complete, TaskIn
<1>6. Once(c)'
  BY <1>2 DEF CInv, Same, Once, FinalOnce, RefusedEach, Final, Refusal
<1> QED
  BY <1>3, <1>4, <1>5, <1>6 DEF CInv

LEMMA FiniteTasks ==
    ASSUME NEW t, NEW stages PROVE IsFiniteSet(TaskIn(t, stages)) /\ TaskIn(t, stages) \subseteq Agents
<1>1. IsFiniteSet(Agents)
  BY MasterAssumption, FS_AddElement DEF MasterAssumption, Agents
<1> QED
  BY <1>1, FS_Subset DEF TaskIn

\* An agent that is not at work any more.
LEMMA FewerAtWork ==
    ASSUME NEW t \in [Agents -> Stages], NEW a \in Agents, t[a] \in UnderWay,
           NEW stage, stage \notin UnderWay
    PROVE  /\ a \in TaskIn(t, UnderWay)
           /\ TaskIn([t EXCEPT ![a] = stage], UnderWay) = TaskIn(t, UnderWay) \ {a}
           /\ Cardinality(TaskIn(t, UnderWay)) \in Nat \ {0}
           /\ Cardinality(TaskIn([t EXCEPT ![a] = stage], UnderWay))
                = Cardinality(TaskIn(t, UnderWay)) - 1
<1>1. a \in TaskIn(t, UnderWay)
  BY DEF TaskIn
<1>2. TaskIn([t EXCEPT ![a] = stage], UnderWay) = TaskIn(t, UnderWay) \ {a}
  BY DEF TaskIn
<1>3. IsFiniteSet(TaskIn(t, UnderWay))
  BY FiniteTasks
<1>4. Cardinality(TaskIn(t, UnderWay)) \in Nat
  BY <1>3, FS_CardinalityType
<1>5. Cardinality(TaskIn(t, UnderWay)) # 0
  BY <1>1, <1>3, FS_EmptySet
<1>6. Cardinality(TaskIn(t, UnderWay) \ {a}) = Cardinality(TaskIn(t, UnderWay)) - 1
  BY <1>1, <1>3, FS_RemoveElement
<1> QED
  BY <1>1, <1>2, <1>4, <1>5, <1>6

-----------------------------------------------------------------------------
(* What a command's callback is told, and what done() does *)

LEMMA FinishReply ==
    ASSUME AnswerTypes, NEW c \in Commands, NEW t, NEW timedOut \in BOOLEAN, Finish(c, t, timedOut)
    PROVE  \E r \in Reply :
              /\ answers' = [answers EXCEPT ![c] = Append(@, r)]
              /\ r.timedOut = timedOut /\ r.code # "unknown"
              /\ r.code = "failed" =>
                    /\ cmd[c].op \notin {"kill", "list"}
                    /\ r.ids = IF cmd[c].op = "restart"
                               THEN cmd[c].ids \ TaskIn(t, {"ran", "reported"})
                               ELSE TaskIn(t, {"failed", "reported"})
<1>1. \A stages : TaskIn(t, stages) \subseteq Agents
  BY DEF TaskIn
<1>2. cmd[c].ids \subseteq Agents
  BY DEF AnswerTypes
<1>3. CASE cmd[c].op = "kill" /\ timedOut
  <2>1. PICK asked \in SUBSET Agents : asked = TaskIn(t, Asked)
    BY <1>1
  <2>2. PICK r : r = [code |-> "remained", ids |-> asked, timedOut |-> TRUE]
    OBVIOUS
  <2>3. r \in Reply /\ r.code = "remained" /\ r.timedOut = TRUE
    BY <2>1, <2>2 DEF Reply, Codes
  <2>4. answers' = [answers EXCEPT ![c] = Append(@, r)]
    BY <1>3, <2>1, <2>2 DEF Finish, Answered
  <2> QED
    BY <1>3, <2>3, <2>4
<1>4. CASE cmd[c].op = "kill" /\ ~timedOut
  <2>1. PICK r : r = [code |-> "ok", ids |-> {}, timedOut |-> FALSE]
    OBVIOUS
  <2>2. r \in Reply /\ r.code = "ok" /\ r.timedOut = FALSE
    BY <2>1 DEF Reply, Codes
  <2>3. answers' = [answers EXCEPT ![c] = Append(@, r)]
    BY <1>4, <2>1 DEF Finish, Answered
  <2> QED
    BY <1>4, <2>2, <2>3
<1>5. CASE cmd[c].op = "list"
  <2>1. PICK said \in SUBSET Agents : said = TaskIn(t, {"answered"})
    BY <1>1
  <2>2. PICK r : r = [code |-> "list", ids |-> said, timedOut |-> timedOut]
    OBVIOUS
  <2>3. r \in Reply /\ r.code = "list" /\ r.timedOut = timedOut
    BY <2>1, <2>2 DEF Reply, Codes
  <2>4. answers' = [answers EXCEPT ![c] = Append(@, r)]
    BY <1>5, <2>1, <2>2 DEF Finish, Answered
  <2> QED
    BY <2>3, <2>4
<1>6. CASE cmd[c].op \notin {"kill", "list"} /\ TaskIn(t, {"ran", "reported"}) = {}
  <2>1. PICK r : r = [code |-> "all failed", ids |-> {}, timedOut |-> timedOut]
    OBVIOUS
  <2>2. r \in Reply /\ r.code = "all failed" /\ r.timedOut = timedOut
    BY <2>1 DEF Reply, Codes
  <2>3. answers' = [answers EXCEPT ![c] = Append(@, r)]
    BY <1>6, <2>1 DEF Finish, Answered
  <2> QED
    BY <2>2, <2>3
<1>7. CASE cmd[c].op \notin {"kill", "list"} /\ TaskIn(t, {"ran", "reported"}) # {}
  <2>1. PICK ids \in SUBSET Agents : ids = IF cmd[c].op = "restart"
                                         THEN cmd[c].ids \ TaskIn(t, {"ran", "reported"})
                                         ELSE TaskIn(t, {"failed", "reported"})
    BY <1>1, <1>2
  <2>2. PICK r : r = [code |-> "failed", ids |-> ids, timedOut |-> timedOut]
    OBVIOUS
  <2>3. r \in Reply /\ r.ids = ids /\ r.timedOut = timedOut /\ r.code # "unknown"
    BY <2>1, <2>2 DEF Reply, Codes
  <2>4. answers' = [answers EXCEPT ![c] = Append(@, r)]
    BY <1>7, <2>1, <2>2 DEF Finish, Answered, arrayDiff
  <2> QED
    BY <1>7, <2>1, <2>3, <2>4
<1> QED
  BY <1>3, <1>4, <1>5, <1>6, <1>7

\* done() throws, waits for more, or calls back.
Throws(c) == /\ count[c] = 0 /\ thrown' = thrown \cup {c}
             /\ UNCHANGED <<count, calls, timer, answers>>
Waits(c)  == /\ count[c] > 1 /\ count' = [count EXCEPT ![c] = @ - 1]
             /\ UNCHANGED <<thrown, calls, timer, answers>>
CallsBack(c, t) == /\ count[c] = 1 /\ count' = [count EXCEPT ![c] = @ - 1]
                   /\ calls' = [calls EXCEPT ![c] = @ + 1]
                   /\ timer' = [timer EXCEPT ![c] = IF @ = "set" THEN "over" ELSE @]
                   /\ Finish(c, t, FALSE)
                   /\ UNCHANGED thrown

LEMMA DoneOutcome ==
    ASSUME AnswerTypes, NEW c \in Commands, NEW t, Done(c, t)
    PROVE  /\ task' = [task EXCEPT ![c] = t]
           /\ Throws(c) \/ Waits(c) \/ CallsBack(c, t)
<1>1. count[c] \in Nat /\ calls[c] \in Nat /\ calls \in [Commands -> Nat]
  BY DEF AnswerTypes
<1>2. CASE count[c] = 0
  BY <1>2 DEF Done, Throws, latchVars
<1>3. CASE count[c] # 0
  <2>1. /\ count[c] > 0 /\ count' = [count EXCEPT ![c] = @ - 1]
        /\ IF count[c] = 1
           THEN /\ calls' = [calls EXCEPT ![c] = @ + 1]
                /\ timer' = [timer EXCEPT ![c] = IF @ = "set" THEN "over" ELSE @]
           ELSE UNCHANGED <<calls, timer>>
        /\ UNCHANGED thrown
    BY <1>3 DEF Done, Latch!Done
  <2>2. IF calls'[c] > calls[c] THEN Finish(c, t, FALSE) ELSE UNCHANGED answers
    BY <1>3 DEF Done
  <2>3. CASE count[c] = 1
    <3>1. calls'[c] > calls[c]
      BY <1>1, <2>1, <2>3
    <3> QED
      BY <2>1, <2>2, <2>3, <3>1 DEF CallsBack, Done
  <2>4. CASE count[c] # 1
    <3>1. UNCHANGED <<calls, timer>> /\ count[c] > 1
      BY <1>1, <2>1, <2>4
    <3>2. ~(calls'[c] > calls[c])
      BY <1>1, <3>1
    <3>3. UNCHANGED answers
      BY ONLY <2>2, <3>2
    <3> QED
      BY <2>1, <3>1, <3>3 DEF Waits, Done
  <2> QED
    BY <2>3, <2>4
<1> QED
  BY <1>2, <1>3 DEF Done

LEMMA AnswerAppended ==
    ASSUME AnswerTypes, NEW c \in Commands, NEW r \in Reply,
           answers' = [answers EXCEPT ![c] = Append(@, r)]
    PROVE  /\ answers' \in [Commands -> Seq(Reply)]
           /\ answers'[c] = Append(answers[c], r)
           /\ Len(answers'[c]) = Len(answers[c]) + 1 /\ answers'[c] # <<>>
           /\ answers'[c][Len(answers[c]) + 1] = r
           /\ \A i \in 1..Len(answers[c]) : answers'[c][i] = answers[c][i]
           /\ \A d \in Commands \ {c} : answers'[d] = answers[d]
<1>1. answers \in [Commands -> Seq(Reply)] /\ answers[c] \in Seq(Reply)
  BY DEF AnswerTypes
<1>2. PICK s \in Seq(Reply) : s = answers[c]
  BY <1>1
<1>3. answers' = [answers EXCEPT ![c] = Append(s, r)] /\ Append(s, r) \in Seq(Reply)
  BY <1>1, <1>2
<1>4. /\ Len(Append(s, r)) = Len(s) + 1 /\ Append(s, r) # <<>>
      /\ Append(s, r)[Len(s) + 1] = r
      /\ \A i \in 1..Len(s) : Append(s, r)[i] = s[i]
  BY <1>2
<1>5. answers'[c] = Append(s, r) /\ answers' \in [Commands -> Seq(Reply)]
  BY <1>1, <1>3
<1>6. \A d \in Commands \ {c} : answers'[d] = answers[d]
  BY <1>1, <1>3
<1> QED
  BY <1>2, <1>4, <1>5, <1>6

\* A final answer more, of a command that is no stop.
LEMMA FinalAppended ==
    ASSUME AnswerTypes, NEW c \in Commands, NEW r \in Reply, r.code # "unknown",
           answers' = [answers EXCEPT ![c] = Append(@, r)], UNCHANGED cmd,
           RefusedEach(c), cmd[c].op # "stop",
           Reported(c)' \/ \A i \in 1..Len(answers[c]) : answers[c][i].timedOut
    PROVE  FinalOnce(c)' /\ RefusedEach(c)'
<1>1. /\ Len(answers'[c]) = Len(answers[c]) + 1 /\ Len(answers[c]) \in Nat
      /\ answers'[c][Len(answers[c]) + 1] = r
      /\ \A i \in 1..Len(answers[c]) : answers'[c][i] = answers[c][i]
  BY AnswerAppended DEF AnswerTypes
<1>2. Refusal(c) = {}
  BY DEF RefusedEach
<1>3. \A i \in 1..Len(answers'[c]) : answers'[c][i].code # "unknown"
  BY <1>1, <1>2 DEF Refusal, Final
<1>4. Refusal(c)' = {}
  BY <1>3 DEF Refusal, Final
<1>5. ASSUME NEW i \in Final(c)', NEW j \in Final(c)', i < j
      PROVE  answers'[c][i].timedOut \/ Reported(c)'
  BY <1>1, <1>5 DEF Final
<1> QED
  BY <1>4, <1>5 DEF FinalOnce, RefusedEach

\* Nothing more to say.
LEMMA FinalKept ==
    ASSUME NEW c, FinalOnce(c), RefusedEach(c), UNCHANGED <<cmd, answers>>, Reported(c) => Reported(c)'
    PROVE  FinalOnce(c)' /\ RefusedEach(c)'
BY DEF FinalOnce, RefusedEach, Final, Refusal

LEMMA DoneOnce ==
    ASSUME AnswerTypes, NEW c \in Commands, NEW t, Done(c, t), UNCHANGED cmd,
           FinalOnce(c), RefusedEach(c), cmd[c].op # "stop", Reported(c) => Reported(c)',
           Reported(c)' \/ Waits(c) \/ \A i \in 1..Len(answers[c]) : answers[c][i].timedOut
    PROVE  FinalOnce(c)' /\ RefusedEach(c)'
<1>1. CASE UNCHANGED answers
  BY <1>1, FinalKept
<1>2. CASE CallsBack(c, t)
  <2>1. ~Waits(c)
    BY <1>2 DEF CallsBack, Waits, AnswerTypes
  <2>2. PICK r \in Reply : answers' = [answers EXCEPT ![c] = Append(@, r)] /\ r.code # "unknown"
    BY <1>2, FinishReply DEF CallsBack
  <2> QED
    BY <2>1, <2>2, FinalAppended
<1> QED
  BY <1>1, <1>2, DoneOutcome DEF Throws, Waits

LEMMA NoneFinal ==
    ASSUME NEW c, answers'[c] = <<>> PROVE FinalOnce(c)' /\ RefusedEach(c)'
BY DEF FinalOnce, RefusedEach, Final, Refusal

\* A step of one command leaves the others as they were.
LEMMA OneCommand ==
    ASSUME AInv, AnswerTypes', NEW c \in Commands, CInv(c)', \A d \in Commands \ {c} : Same(d)
    PROVE  AInv'
<1>1. \A d \in Commands : CInv(d)'
  BY SameKeeps DEF AInv
<1> QED
  BY <1>1 DEF AInv

LEMMA DoneFrame ==
    ASSUME AnswerTypes, NEW c \in Commands, NEW t \in [Agents -> Stages], Done(c, t), UNCHANGED cmd
    PROVE  AnswerTypes' /\ \A d \in Commands \ {c} : Same(d)
<1>1. task' = [task EXCEPT ![c] = t] /\ (Throws(c) \/ Waits(c) \/ CallsBack(c, t))
  BY DoneOutcome
<1>2. /\ cmd' \in [Commands -> [op : Operations \cup {"none"}, ids : SUBSET Agents]]
      /\ task' \in [Commands -> [Agents -> Stages]]
      /\ \A d \in Commands \ {c} : cmd'[d] = cmd[d] /\ task'[d] = task[d]
  BY <1>1 DEF AnswerTypes
<1>3. /\ count' \in [Commands -> Nat] /\ \A d \in Commands \ {c} : count'[d] = count[d]
  <2>1. CASE UNCHANGED count
    BY <2>1 DEF AnswerTypes
  <2>2. CASE count[c] >= 1 /\ count' = [count EXCEPT ![c] = @ - 1]
    <3>1. count \in [Commands -> Nat] /\ count[c] - 1 \in Nat
      BY <2>2 DEF AnswerTypes
    <3> QED
      BY <2>2, <3>1
  <2>3. count[c] \in Nat
    BY DEF AnswerTypes
  <2>4. count[c] > 1 \/ count[c] = 1 => count[c] >= 1
    BY <2>3
  <2> QED
    BY <1>1, <2>1, <2>2, <2>4 DEF Throws, Waits, CallsBack
<1>4. /\ calls' \in [Commands -> Nat]
  <2>1. calls' = calls \/ calls' = [calls EXCEPT ![c] = @ + 1]
    BY <1>1 DEF Throws, Waits, CallsBack
  <2> QED
    BY <2>1 DEF AnswerTypes
<1>5. /\ timer' \in [Commands -> {"none", "set", "over"}]
      /\ \A d \in Commands \ {c} : timer'[d] = timer[d]
  <2>1. timer' = timer \/ timer' = [timer EXCEPT ![c] = IF @ = "set" THEN "over" ELSE @]
    BY <1>1 DEF Throws, Waits, CallsBack
  <2> QED
    BY <2>1 DEF AnswerTypes
<1>6. /\ answers' \in [Commands -> Seq(Reply)]
      /\ \A d \in Commands \ {c} : answers'[d] = answers[d]
  <2>1. CASE UNCHANGED answers
    BY <2>1 DEF AnswerTypes
  <2>2. CASE CallsBack(c, t)
    <3>1. PICK r \in Reply : answers' = [answers EXCEPT ![c] = Append(@, r)]
      BY <2>2, FinishReply DEF CallsBack
    <3> QED
      BY <3>1, AnswerAppended
  <2> QED
    BY <1>1, <2>1, <2>2 DEF Throws, Waits
<1>7. \A d \in Commands \ {c} : d \in thrown' <=> d \in thrown
  BY <1>1 DEF Throws, Waits, CallsBack
<1>8. AnswerTypes'
  BY <1>2, <1>3, <1>4, <1>5, <1>6 DEF AnswerTypes
<1> QED
  BY <1>2, <1>3, <1>5, <1>6, <1>7, <1>8 DEF Same

\* The timer of a latch that has called back is over.
LEMMA DoneUntold ==
    ASSUME AnswerTypes, NEW c \in Commands, CInv(c), NEW t \in [Agents -> Stages], Done(c, t),
           UNCHANGED cmd, cmd[c].op \notin {"none", "add"}
    PROVE  Untold(c)'
<1>1. Throws(c) \/ Waits(c) \/ CallsBack(c, t)
  BY DoneOutcome
<1>2. Latched(c)' <=> Latched(c)
  BY DEF Latched
<1>3. CASE UNCHANGED <<timer, answers>>
  BY <1>2, <1>3 DEF CInv, Untold
<1>4. CASE CallsBack(c, t)
  <2>1. timer'[c] # "set"
    BY <1>4 DEF CallsBack, AnswerTypes
  <2> QED
    BY <2>1 DEF Untold
<1> QED
  BY <1>1, <1>3, <1>4 DEF Throws, Waits

\* An agent is done with.
LEMMA DoneStep ==
    ASSUME AInv, NEW c \in Commands, NEW a \in Agents,
           NEW stage \in {"answered", "failed", "ran"}, stage \in StagesOf(cmd[c].op),
           Latched(c), task[c][a] \in UnderWay, Done(c, Task(c, a, stage)), UNCHANGED cmd
    PROVE  AInv'
<1> USE DEF AInv
<1>1. PICK old \in [Agents -> Stages] : old = task[c]
  BY DEF AnswerTypes
<1>2. PICK t : t = [old EXCEPT ![a] = stage]
  OBVIOUS
<1>3. t \in [Agents -> Stages] /\ t = Task(c, a, stage) /\ Done(c, t)
  BY <1>1, <1>2 DEF Task, Stages
<1>4. AnswerTypes' /\ \A d \in Commands \ {c} : Same(d)
  BY <1>3, DoneFrame
<1>5. task' = [task EXCEPT ![c] = t] /\ (Throws(c) \/ Waits(c) \/ CallsBack(c, t))
  BY <1>3, DoneOutcome
<1>6. task'[c] = t
  BY <1>5 DEF AnswerTypes
<1>7. CInv(c) /\ (Latched(c)' <=> Latched(c))
  BY DEF Latched
<1>8. /\ a \in Working(c) /\ Working(c)' = Working(c) \ {a}
      /\ Cardinality(Working(c)) \in Nat \ {0}
      /\ Cardinality(Working(c)') = Cardinality(Working(c)) - 1
  <2>1. old[a] \in UnderWay /\ stage \notin UnderWay
    BY <1>1 DEF UnderWay, Asked
  <2>2. /\ a \in TaskIn(old, UnderWay) /\ TaskIn(t, UnderWay) = TaskIn(old, UnderWay) \ {a}
        /\ Cardinality(TaskIn(old, UnderWay)) \in Nat \ {0}
        /\ Cardinality(TaskIn(t, UnderWay)) = Cardinality(TaskIn(old, UnderWay)) - 1
    BY <1>2, <2>1, FewerAtWork
  <2>3. Working(c) = TaskIn(old, UnderWay) /\ Working(c)' = TaskIn(t, UnderWay)
    BY <1>1, <1>6 DEF Working, TaskIn
  <2> QED
    BY <2>2, <2>3
<1>9. Reported(c)' <=> Reported(c)
  BY <1>1, <1>2, <1>6 DEF Reported, UnderWay, Asked
<1>10. Placed(c)'
  <2>1. a \in cmd[c].ids
    BY <1>7, <1>8 DEF CInv, Placed, Working, TaskIn, UnderWay, Asked
  <2>2. \A b \in Agents \ {a} : task'[c][b] = task[c][b]
    BY <1>1, <1>2, <1>6
  <2>3. task'[c][a] = stage
    BY <1>2, <1>6
  <2> QED
    BY <1>7, <2>1, <2>2, <2>3 DEF CInv, Placed
<1>11. cmd[c].op \notin {"none", "add"}
  BY DEF Latched
<1>12. Untold(c)'
  BY <1>3, <1>7, <1>11, DoneUntold
<1>13. CASE Reported(c)
  <2>1. FinalOnce(c)' /\ RefusedEach(c)'
    BY <1>3, <1>7, <1>9, <1>13, DoneOnce DEF CInv, Once, Latched
  <2> QED
    BY <1>4, <1>9, <1>10, <1>12, <1>13, <2>1, OneCommand DEF CInv, Counted, Complete, Once
<1>14. CASE ~Reported(c)
  <2>1. count[c] = Cardinality(Working(c)) /\ ~Throws(c)
    BY <1>7, <1>8, <1>14 DEF CInv, Counted, Throws
  <2>2. Counted(c)'
    <3>1. count' = [count EXCEPT ![c] = @ - 1]
      BY <1>5, <2>1 DEF Waits, CallsBack
    <3>2. count'[c] = count[c] - 1
      BY <3>1 DEF AnswerTypes
    <3> QED
      BY <1>8, <2>1, <3>2 DEF Counted
  <2>3. \A i \in 1..Len(answers[c]) : answers[c][i].timedOut
    BY <1>7, <1>8, <1>14 DEF CInv, Complete, Working
  <2>4. thrown' = thrown
    BY <1>5, <2>1 DEF Waits, CallsBack
  <2>5. c \notin thrown \/ cmd[c].ids = {}
    BY <1>7, <1>14 DEF CInv, Once
  <2>6. Once(c)'
    <3>1. FinalOnce(c)' /\ RefusedEach(c)'
      BY <1>3, <1>7, <1>9, <2>3, DoneOnce DEF CInv, Once, Latched
    <3> QED
      BY <2>4, <2>5, <3>1 DEF Once
  <2>7. CASE Waits(c)
    <3>1. answers' = answers
      BY <2>7 DEF Waits
    <3>2. Complete(c)' /\ Once(c)'
      BY <1>7, <1>9, <2>3, <2>6, <3>1 DEF CInv, Complete
    <3> QED
      BY <1>4, <1>10, <1>12, <2>2, <3>2, OneCommand DEF CInv
  <2>8. CASE CallsBack(c, t)
    <3>1. PICK r \in Reply :
             /\ answers' = [answers EXCEPT ![c] = Append(@, r)]
             /\ r.timedOut = FALSE /\ r.code # "unknown"
             /\ r.code = "failed" =>
                   /\ cmd[c].op \notin {"kill", "list"}
                   /\ r.ids = IF cmd[c].op = "restart"
                              THEN cmd[c].ids \ TaskIn(t, {"ran", "reported"})
                              ELSE TaskIn(t, {"failed", "reported"})
      BY <2>8, FinishReply DEF CallsBack
    <3>2. /\ Len(answers'[c]) = Len(answers[c]) + 1
          /\ answers'[c][Len(answers[c]) + 1] = r
          /\ \A i \in 1..Len(answers[c]) : answers'[c][i] = answers[c][i]
      BY <3>1, AnswerAppended
    <3>3. Len(answers[c]) \in Nat
      BY DEF AnswerTypes
    <3>4. Working(c)' = {}
      <4>1. Cardinality(Working(c)') = 0
        BY <1>8, <2>1, <2>8 DEF CallsBack
      <4>2. IsFiniteSet(Working(c)')
        BY <1>6, FiniteTasks DEF Working
      <4> QED
        BY <4>1, <4>2, FS_EmptySet
    <3>5. r.code = "failed" => r.ids = TaskIn(t, {"failed"})
      <4>1. SUFFICES ASSUME r.code = "failed" PROVE r.ids = TaskIn(t, {"failed"})
        OBVIOUS
      <4>2. cmd[c].op \in {"restart", "cluster"} /\ cmd[c].ids \subseteq Servers
        BY <1>7, <3>1, <4>1 DEF Latched, CInv, Placed
      <4>3. \A b \in Agents : t[b] # "reported"
        <5> SUFFICES ASSUME NEW b \in Agents, t[b] = "reported" PROVE FALSE
          OBVIOUS
        <5>1. b \in Servers
          BY <1>6, <1>10, <4>2 DEF Placed
        <5> QED
          BY <1>6, <1>9, <1>14, <5>1 DEF Reported
      <4>4. \A b \in Agents : t[b] \notin UnderWay
        BY <1>6, <3>4 DEF Working, TaskIn
      <4>5. \A b \in Agents : t[b] \in IF b \in cmd[c].ids THEN StagesOf(cmd[c].op) ELSE {"none"}
        BY <1>6, <1>10 DEF Placed
      <4>6. CASE cmd[c].op = "restart"
        <5>1. \A b \in Agents : b \in cmd[c].ids <=> t[b] \in {"ran", "failed"}
          BY <4>3, <4>4, <4>5, <4>6 DEF StagesOf, Stages, UnderWay, Asked
        <5>2. cmd[c].ids \subseteq Agents
          BY <4>2 DEF Agents
        <5> QED
          BY <3>1, <4>1, <4>3, <4>6, <5>1, <5>2 DEF TaskIn
      <4>7. CASE cmd[c].op = "cluster"
        BY <3>1, <4>1, <4>3, <4>7 DEF TaskIn
      <4> QED
        BY <4>2, <4>6, <4>7
    <3>6. Complete(c)'
      <4>1. \A i \in 1..Len(answers'[c]) : answers'[c][i].timedOut \/ answers'[c][i] = r
        BY <2>3, <3>2, <3>3
      <4> QED
        BY <1>6, <3>4, <3>5, <4>1 DEF Complete, Working
    <3> QED
      BY <1>4, <1>10, <1>12, <2>2, <2>6, <3>6, OneCommand DEF CInv
  <2> QED
    BY <1>5, <2>1, <2>7, <2>8
<1> QED
  BY <1>13, <1>14

LEMMA AtWork ==
    ASSUME AInv, NEW c \in Commands, NEW a \in Agents, task[c][a] # "none"
    PROVE  /\ a \in cmd[c].ids /\ task[c][a] \in StagesOf(cmd[c].op)
           /\ cmd[c].op = "add" \/ Latched(c)
<1>1. cmd[c].op \in Operations \cup {"none"}
  BY DEF AInv, AnswerTypes
<1>2. a \in cmd[c].ids /\ task[c][a] \in StagesOf(cmd[c].op)
  BY DEF AInv, CInv, Placed
<1>3. cmd[c].op \in {"kill", "list", "restart", "add", "cluster"}
  BY <1>2 DEF StagesOf
<1> QED
  BY <1>2, <1>3 DEF Latched

\* An agent goes on, or its request is lost: it stays at work.
LEMMA StillAtWork ==
    ASSUME AInv, task' \in [Commands -> [Agents -> Stages]],
           UNCHANGED <<cmd, count, calls, timer, answers, thrown>>,
           \A c \in Commands, a \in Agents :
               \/ task'[c][a] = task[c][a]
               \/ /\ task[c][a] \in UnderWay /\ task'[c][a] \in UnderWay
                  /\ task'[c][a] \in StagesOf(cmd[c].op)
    PROVE  AInv'
<1>1. AnswerTypes'
  BY DEF AInv, AnswerTypes
<1> SUFFICES ASSUME NEW c \in Commands PROVE CInv(c)'
  BY <1>1 DEF AInv
<1>2. CInv(c)
  BY DEF AInv
<1>3. Working(c)' = Working(c) /\ (Latched(c)' <=> Latched(c))
  BY DEF Working, TaskIn, Latched
<1>4. /\ \A a \in Agents : task'[c][a] = "reported" <=> task[c][a] = "reported"
      /\ \A a \in Agents : task'[c][a] = "failed" <=> task[c][a] = "failed"
  BY DEF UnderWay, Asked
<1>5. Reported(c)' <=> Reported(c)
  BY <1>4 DEF Reported, Agents
<1>6. TaskIn(task'[c], {"failed"}) = TaskIn(task[c], {"failed"})
  BY <1>4 DEF TaskIn
<1>7. Placed(c)'
  <2>1. ASSUME NEW a \in Agents
        PROVE  task'[c][a] \in IF a \in cmd[c].ids THEN StagesOf(cmd[c].op) ELSE {"none"}
    BY <1>2, AtWork DEF CInv, Placed, UnderWay, Asked
  <2> QED
    BY <1>2, <2>1 DEF CInv, Placed
<1>8. Counted(c)' /\ Untold(c)'
  BY <1>2, <1>3, <1>5 DEF CInv, Counted, Untold
<1>9. Complete(c)' /\ Once(c)'
  BY <1>2, <1>3, <1>5, <1>6, FinalKept DEF CInv, Complete, Once, Working
<1> QED
  BY <1>7, <1>8, <1>9 DEF CInv

LEMMA GoesOn ==
    ASSUME AInv, NEW c \in Commands, NEW a \in Agents, NEW stage \in {"wait", "check"},
           task[c][a] \in UnderWay, cmd[c].op = "restart", task' = [task EXCEPT ![c] = Task(c, a, stage)],
           UNCHANGED <<cmd, count, calls, timer, answers, thrown>>
    PROVE  AInv'
<1>1. stage \in UnderWay /\ stage \in StagesOf(cmd[c].op) /\ stage \in Stages
  BY DEF UnderWay, StagesOf, Stages
<1>2. PICK old \in [Agents -> Stages] : old = task[c]
  BY DEF AInv, AnswerTypes
<1>3. PICK t \in [Agents -> Stages] : t = [old EXCEPT ![a] = stage]
  BY <1>1
<1>4. task' = [task EXCEPT ![c] = t]
  BY <1>2, <1>3 DEF Task
<1>5. /\ task' \in [Commands -> [Agents -> Stages]] /\ task'[c] = t
      /\ \A d \in Commands \ {c} : task'[d] = task[d]
  BY <1>4 DEF AInv, AnswerTypes
<1>6. \A b \in Agents : b # a => t[b] = task[c][b]
  BY <1>2, <1>3
<1>7. t[a] = stage
  BY <1>3
<1>8. \A d \in Commands, b \in Agents :
          \/ task'[d][b] = task[d][b]
          \/ /\ task[d][b] \in UnderWay /\ task'[d][b] \in UnderWay
             /\ task'[d][b] \in StagesOf(cmd[d].op)
  BY <1>1, <1>5, <1>6, <1>7
<1> QED
  BY <1>5, <1>8, StillAtWork

LEMMA SocketClosesAnswers == ASSUME AInv, NEW s \in Servers, SocketCloses(s) PROVE AInv'
<1>1. task' = [c \in Commands |-> [task[c] EXCEPT ![s] = IF @ = "asked" THEN "lost" ELSE @]]
  BY DEF SocketCloses
<1>2. UNCHANGED <<cmd, count, calls, timer, answers, thrown>>
  BY DEF SocketCloses, latchVars
<1>3. \A c \in Commands : task[c] \in [Agents -> Stages]
  BY DEF AInv, AnswerTypes
<1>4. "lost" \in Stages
  BY DEF Stages
<1>5. task' \in [Commands -> [Agents -> Stages]]
  BY <1>1, <1>3, <1>4
<1>6. ASSUME NEW c \in Commands, NEW a \in Agents
      PROVE  \/ task'[c][a] = task[c][a]
             \/ /\ task[c][a] \in UnderWay /\ task'[c][a] \in UnderWay
                /\ task'[c][a] \in StagesOf(cmd[c].op)
  <2>1. task'[c][a] = task[c][a] \/ (task[c][a] = "asked" /\ task'[c][a] = "lost")
    BY <1>1, <1>3
  <2>2. CASE task[c][a] = "asked" /\ task'[c][a] = "lost"
    <3>1. "asked" \in StagesOf(cmd[c].op)
      BY <2>2, AtWork
    <3>2. "lost" \in StagesOf(cmd[c].op)
      BY <3>1 DEF StagesOf, Stages
    <3> QED
      BY <2>2, <3>2 DEF UnderWay, Asked
  <2> QED
    BY <2>1, <2>2
<1> QED
  BY <1>2, <1>5, <1>6, StillAtWork

\* A latch that is not counted down yet calls its callback with a timeout.
LEMMA TimesOutAnswers == ASSUME AInv, NEW c \in Commands, LatchTimesOut(c) PROVE AInv'
<1>1. /\ timer[c] = "set" /\ timer' = [timer EXCEPT ![c] = "over"]
      /\ calls' = [calls EXCEPT ![c] = @ + 1] /\ UNCHANGED <<cmd, task, count, thrown>>
      /\ Finish(c, task[c], TRUE)
  BY DEF LatchTimesOut, Latch!Timeout
<1>2. AnswerTypes /\ CInv(c)
  BY DEF AInv
<1>3. Latched(c) /\ answers[c] = <<>>
  BY <1>1, <1>2 DEF CInv, Untold
<1>4. PICK r \in Reply : answers' = [answers EXCEPT ![c] = Append(@, r)] /\ r.timedOut = TRUE
                          /\ r.code # "unknown"
  BY <1>1, <1>2, FinishReply
<1>5. /\ answers' \in [Commands -> Seq(Reply)]
      /\ Len(answers'[c]) = Len(answers[c]) + 1
      /\ answers'[c][Len(answers[c]) + 1] = r
      /\ \A d \in Commands \ {c} : answers'[d] = answers[d]
  BY <1>2, <1>4, AnswerAppended
<1>6. Len(answers'[c]) = 1 /\ answers'[c][1] = r
  BY <1>3, <1>5
<1>7. AnswerTypes'
  BY <1>1, <1>2, <1>5 DEF AnswerTypes
<1>8. \A d \in Commands \ {c} : Same(d)
  BY <1>1, <1>2, <1>5 DEF Same, AnswerTypes
<1>9. /\ Latched(c)' <=> Latched(c)
      /\ Reported(c)' <=> Reported(c)
      /\ Working(c)' = Working(c)
  BY <1>1 DEF Latched, Reported, Working
<1>10. Placed(c)' /\ Counted(c)'
  BY <1>1, <1>2, <1>9 DEF CInv, Placed, Counted
<1>11. Untold(c)'
  <2>1. timer'[c] = "over"
    BY <1>1, <1>2 DEF AnswerTypes
  <2>2. cmd'[c].op \notin {"none", "add"}
    BY <1>1, <1>3 DEF Latched
  <2> QED
    BY <2>1, <2>2 DEF Untold
<1>12. Complete(c)'
  BY <1>1, <1>2, <1>4, <1>6, <1>9 DEF CInv, Complete
<1>13. Once(c)'
  <2>1. FinalOnce(c)' /\ RefusedEach(c)'
    <3>1. \A i \in 1..Len(answers[c]) : answers[c][i].timedOut
      BY <1>3
    <3>2. RefusedEach(c) /\ cmd[c].op # "stop"
      BY <1>2, <1>3 DEF CInv, Once, Latched
    <3> QED
      BY <1>1, <1>2, <1>4, <3>1, <3>2, FinalAppended
  <2> QED
    BY <1>1, <1>2, <1>9, <2>1 DEF CInv, Once
<1> QED
  BY <1>7, <1>8, <1>10, <1>11, <1>12, <1>13, OneCommand DEF CInv

-----------------------------------------------------------------------------
(* Commands begin *)

LEMMA NotGiven ==
    ASSUME AInv, NEW c \in Commands, cmd[c].op = "none"
    PROVE  /\ answers[c] = <<>> /\ c \notin thrown /\ timer[c] # "set"
           /\ \A a \in Agents : task[c][a] = "none"
BY AtWork DEF AInv, CInv, Untold, Latched, StagesOf

LEMMA Given ==
    ASSUME AInv, NEW c \in Commands, NEW op, NEW ids \in SUBSET Agents, Give(c, op, ids)
    PROVE  /\ cmd' \in [Commands -> [op : Operations \cup {"none"}, ids : SUBSET Agents]]
           /\ cmd'[c].op = op /\ cmd'[c].ids = ids
           /\ \A d \in Commands \ {c} : cmd'[d] = cmd[d]
           /\ cmd[c].op = "none"
<1>1. PICK r : r = [op |-> op, ids |-> ids]
  OBVIOUS
<1>5. op \in Operations
  <2>1. PICK q \in Scripts : c \in DOMAIN q /\ q[c] = op
    BY DEF Give
  <2>2. q \in Seq(Operations)
    BY <2>1, MasterAssumption DEF MasterAssumption
  <2> QED
    BY <2>1, <2>2
<1>2. r \in [op : Operations \cup {"none"}, ids : SUBSET Agents] /\ r.op = op /\ r.ids = ids
  BY <1>1, <1>5
<1>3. cmd' = [cmd EXCEPT ![c] = r]
  BY <1>1 DEF Give
<1>4. cmd'[c] = r
  BY <1>3 DEF AInv, AnswerTypes
<1> QED
  BY <1>2, <1>3, <1>4 DEF AInv, AnswerTypes, Give

\* The tasks a command begins with.
StartsAt(t, ids, first) ==
    t \in [Agents -> Stages] /\ \A a \in Agents : t[a] = IF a \in ids THEN first ELSE "none"

LEMMA Begun ==
    ASSUME AInv, NEW c \in Commands, NEW ids \in SUBSET Agents, NEW first \in {"asked", "check"},
           NEW t, StartsAt(t, ids, first),
           task' = [task EXCEPT ![c] = t]
    PROVE  /\ task' \in [Commands -> [Agents -> Stages]]
           /\ \A a \in Agents : task'[c][a] = IF a \in ids THEN first ELSE "none"
           /\ \A d \in Commands \ {c} : task'[d] = task[d]
           /\ TaskIn(task'[c], UnderWay) = ids
           /\ \A s \in Servers : task'[c][s] # "reported"
<1>1. task' \in [Commands -> [Agents -> Stages]] /\ task'[c] = t
  BY DEF StartsAt, AInv, AnswerTypes
<1>2. \A d \in Commands \ {c} : task'[d] = task[d]
  BY DEF StartsAt, AInv, AnswerTypes
<1>3. \A a \in Agents : task'[c][a] = IF a \in ids THEN first ELSE "none"
  BY <1>1 DEF StartsAt
<1>4. TaskIn(task'[c], UnderWay) = ids
  BY <1>3 DEF TaskIn, UnderWay, Asked
<1>5. \A s \in Servers : task'[c][s] # "reported"
  <2> SUFFICES ASSUME NEW s \in Servers PROVE task'[c][s] # "reported"
    OBVIOUS
  <2>1. s \in Agents
    BY DEF Agents
  <2>2. task'[c][s] \in {first, "none"}
    BY <1>3, <2>1
  <2> QED
    BY <2>2
<1> QED
  BY <1>1, <1>2, <1>3, <1>4, <1>5

LEMMA LatchMade ==
    ASSUME AInv, NEW c \in Commands, NEW op \in {"kill", "list", "restart", "cluster"},
           NEW ids \in SUBSET Agents, Give(c, op, ids), NEW first \in {"asked", "check"},
           first \in StagesOf(op), op \in {"restart", "cluster"} => ids \subseteq Servers /\ ids # {},
           task' = [task EXCEPT ![c] = [a \in Agents |-> IF a \in ids THEN first ELSE "none"]],
           NEW timed \in BOOLEAN, Latch!Create(c, Cardinality(ids), timed), UNCHANGED <<answers, thrown>>
    PROVE  AInv'
<1>1. /\ cmd' \in [Commands -> [op : Operations \cup {"none"}, ids : SUBSET Agents]]
      /\ cmd'[c].op = op /\ cmd'[c].ids = ids
      /\ \A d \in Commands \ {c} : cmd'[d] = cmd[d]
      /\ cmd[c].op = "none"
  BY Given
<1>2. /\ task' \in [Commands -> [Agents -> Stages]]
      /\ \A a \in Agents : task'[c][a] = IF a \in ids THEN first ELSE "none"
      /\ \A d \in Commands \ {c} : task'[d] = task[d]
      /\ TaskIn(task'[c], UnderWay) = ids
      /\ \A s \in Servers : task'[c][s] # "reported"
  <2>1. PICK t : t = [a \in Agents |-> IF a \in ids THEN first ELSE "none"]
    OBVIOUS
  <2>2. task' = [task EXCEPT ![c] = t]
    BY <2>1
  <2>3. StartsAt(t, ids, first)
    BY <2>1 DEF StartsAt, Stages
  <2>4. ids \in SUBSET Agents /\ c \in Commands /\ AInv
    OBVIOUS
  <2>5. CASE first = "asked"
    <3>1. StartsAt(t, ids, "asked")
      BY <2>3, <2>5
    <3> QED
      BY ONLY <2>2, <2>4, <3>1, <2>5, Begun
  <2>6. CASE first = "check"
    <3>1. StartsAt(t, ids, "check")
      BY <2>3, <2>6
    <3> QED
      BY ONLY <2>2, <2>4, <3>1, <2>6, Begun
  <2> QED
    BY <2>5, <2>6
<1>3. Working(c)' = ids /\ ~Reported(c)'
  BY <1>2 DEF Working, Reported
<1>4. Cardinality(ids) \in Nat
  <2>1. IsFiniteSet(TaskIn(task'[c], UnderWay))
    BY FiniteTasks
  <2>2. IsFiniteSet(ids)
    BY <1>2, <2>1
  <2> QED
    BY <2>2, FS_CardinalityType
<1>5. /\ count' = [count EXCEPT ![c] = Cardinality(ids)]
      /\ timer' = [timer EXCEPT ![c] = IF timed THEN "set" ELSE "none"] /\ UNCHANGED calls
  BY DEF Latch!Create
<1>6. /\ count' \in [Commands -> Nat] /\ count'[c] = Cardinality(ids)
      /\ \A d \in Commands \ {c} : count'[d] = count[d]
  BY <1>4, <1>5 DEF AInv, AnswerTypes
<1>7. /\ timer' \in [Commands -> {"none", "set", "over"}]
      /\ \A d \in Commands \ {c} : timer'[d] = timer[d]
  BY <1>5 DEF AInv, AnswerTypes
<1>8. AnswerTypes'
  BY <1>1, <1>2, <1>5, <1>6, <1>7 DEF AInv, AnswerTypes
<1>9. \A d \in Commands \ {c} : Same(d)
  BY <1>1, <1>2, <1>6, <1>7 DEF Same
<1>10. answers'[c] = <<>> /\ c \notin thrown'
  BY <1>1, NotGiven
<1>11. Placed(c)'
  BY <1>1, <1>2 DEF Placed
<1>12. Counted(c)'
  BY <1>6, <1>3 DEF Counted
<1>13. Untold(c)'
  BY <1>1, <1>10 DEF Untold, Latched
<1>14. Complete(c)' /\ Once(c)'
  BY <1>10, NoneFinal DEF Complete, Once
<1> QED
  BY <1>8, <1>9, <1>11, <1>12, <1>13, <1>14, OneCommand DEF CInv

\* Operations without a latch.
LEMMA NoLatch ==
    ASSUME AInv, NEW c \in Commands, NEW op \in {"stop", "restart"}, NEW ids \in SUBSET Agents,
           Give(c, op, ids), op = "restart" => ids = {},
           UNCHANGED <<task, count, calls, timer>>,
           answers' \in [Commands -> Seq(Reply)], \A d \in Commands \ {c} : answers'[d] = answers[d],
           FinalOnce(c)', RefusedEach(c)',
           \A i \in 1..Len(answers'[c]) : answers'[c][i].code # "failed",
           thrown' = thrown \/ (ids = {} /\ thrown' = thrown \cup {c})
    PROVE  AInv'
<1>1. /\ cmd' \in [Commands -> [op : Operations \cup {"none"}, ids : SUBSET Agents]]
      /\ cmd'[c].op = op /\ cmd'[c].ids = ids
      /\ \A d \in Commands \ {c} : cmd'[d] = cmd[d]
      /\ cmd[c].op = "none"
  BY Given
<1>2. /\ c \notin thrown /\ timer[c] # "set"
      /\ \A a \in Agents : task[c][a] = "none"
  BY <1>1, NotGiven
<1>3. AnswerTypes'
  BY <1>1 DEF AInv, AnswerTypes
<1>4. \A d \in Commands \ {c} : Same(d)
  BY <1>1 DEF Same
<1>5. ~Latched(c)'
  BY <1>1 DEF Latched
<1>6. TaskIn(task'[c], UnderWay) = {}
  BY <1>2 DEF TaskIn, UnderWay, Asked
<1>7. Placed(c)'
  BY <1>1, <1>2 DEF Placed, StagesOf
<1>8. Counted(c)' /\ Untold(c)'
  BY <1>1, <1>2, <1>5 DEF Counted, Untold
<1>9. Complete(c)'
  BY <1>6 DEF Complete
<1>10. Once(c)'
  BY <1>1, <1>2 DEF Once
<1> QED
  BY <1>3, <1>4, <1>7, <1>8, <1>9, <1>10, OneCommand DEF CInv

LEMMA KnownServers == known \subseteq Servers /\ known \subseteq Agents /\ Servers \subseteq Agents
BY DEF known, Agents

LEMMA AddGiven ==
    ASSUME AInv, NEW c \in Commands, NEW s \in Servers, AddServer(c, s) PROVE AInv'
<1>1. PICK ids \in SUBSET Agents : ids = {s}
  BY KnownServers
<1>2. /\ Give(c, "add", ids)
      /\ task' = [task EXCEPT ![c] = [a \in Agents |-> IF a \in ids THEN "check" ELSE "none"]]
      /\ UNCHANGED <<count, calls, timer, answers, thrown>>
  BY <1>1 DEF AddServer, Add, latchVars
<1>3. /\ cmd' \in [Commands -> [op : Operations \cup {"none"}, ids : SUBSET Agents]]
      /\ cmd'[c].op = "add" /\ cmd'[c].ids = ids
      /\ \A d \in Commands \ {c} : cmd'[d] = cmd[d]
      /\ cmd[c].op = "none"
  BY <1>2, Given
<1>4. /\ task' \in [Commands -> [Agents -> Stages]]
      /\ \A a \in Agents : task'[c][a] = IF a \in ids THEN "check" ELSE "none"
      /\ \A d \in Commands \ {c} : task'[d] = task[d]
  <2>1. PICK t : t = [a \in Agents |-> IF a \in ids THEN "check" ELSE "none"]
    OBVIOUS
  <2>2. task' = [task EXCEPT ![c] = t]
    BY <1>2, <2>1
  <2>3. StartsAt(t, ids, "check")
    BY <2>1 DEF StartsAt, Stages
  <2> QED
    BY <2>2, <2>3, Begun
<1>5. answers[c] = <<>> /\ c \notin thrown /\ timer[c] # "set"
  BY <1>3, NotGiven
<1>6. AnswerTypes'
  BY <1>2, <1>3, <1>4 DEF AInv, AnswerTypes
<1>7. \A d \in Commands \ {c} : Same(d)
  BY <1>2, <1>3, <1>4 DEF Same
<1>8. Placed(c)'
  BY <1>1, <1>3, <1>4 DEF Placed, StagesOf
<1>9. Counted(c)' /\ Untold(c)' /\ Complete(c)' /\ Once(c)'
  BY <1>2, <1>3, <1>5, NoneFinal DEF Counted, Untold, Complete, Once, Latched
<1> QED
  BY <1>6, <1>7, <1>8, <1>9, OneCommand DEF CInv

\* What a stop says: an error for each server it cannot find, and "part".
LEMMA StopReplies ==
    ASSUME AInv, NEW c \in Commands, NEW ids \in SUBSET Servers, NEW unknown \in SUBSET ids,
           NEW order \in Bijection(1..Cardinality(unknown), unknown),
           answers' = [answers EXCEPT ![c] = Append(Refusals(unknown, order), Part)],
           cmd'[c].op = "stop", cmd'[c].ids = ids
    PROVE  /\ answers' \in [Commands -> Seq(Reply)] /\ \A d \in Commands \ {c} : answers'[d] = answers[d]
           /\ FinalOnce(c)' /\ RefusedEach(c)'
           /\ \A i \in 1..Len(answers'[c]) : answers'[c][i].code # "failed"
<1>1. PICK n \in Nat : n = Cardinality(unknown)
  BY MasterAssumption, FS_Subset, FS_CardinalityType DEF MasterAssumption
<1>2. /\ order \in [1..n -> unknown]
      /\ \A i, j \in 1..n : order[i] = order[j] => i = j
  BY <1>1 DEF Bijection, Injection, IsInjective
<1>3. PICK w : w = Refusals(unknown, order)
  OBVIOUS
<1>4. w = [i \in 1..n |-> [code |-> "unknown", ids |-> {order[i]}, timedOut |-> FALSE]]
  BY <1>1, <1>3 DEF Refusals
<1>5. ASSUME NEW i \in 1..n PROVE w[i] \in Reply /\ w[i].code = "unknown" /\ w[i].ids = {order[i]}
  <2>1. {order[i]} \in SUBSET Agents
    BY <1>2, KnownServers
  <2>2. w[i] = [code |-> "unknown", ids |-> {order[i]}, timedOut |-> FALSE]
    BY <1>4
  <2> QED
    BY <2>1, <2>2 DEF Reply, Codes
<1>6. w \in Seq(Reply) /\ Len(w) = n
  <2>1. w \in [1..n -> Reply]
    BY <1>4, <1>5
  <2> QED
    BY <1>1, <2>1
<1>7. Part \in Reply /\ Part.code = "part"
  BY DEF Part, Reply, Codes
<1>8. PICK all : all = Append(w, Part)
  OBVIOUS
<1>9. /\ all \in Seq(Reply) /\ Len(all) = n + 1 /\ all[n + 1] = Part
      /\ \A i \in 1..n : all[i] = w[i]
  BY <1>6, <1>7, <1>8
<1>10. /\ answers' \in [Commands -> Seq(Reply)] /\ answers'[c] = all
       /\ \A d \in Commands \ {c} : answers'[d] = answers[d]
  BY <1>3, <1>8, <1>9 DEF AInv, AnswerTypes
<1>11. Final(c)' = {n + 1} /\ Refusal(c)' = 1..n
  <2>1. Final(c)' = {i \in 1..(n + 1) : all[i].code # "unknown"}
    BY <1>9, <1>10 DEF Final
  <2>2. Final(c)' = {n + 1}
    BY <1>1, <1>5, <1>7, <1>9, <2>1
  <2> QED
    BY <1>1, <1>9, <1>10, <2>2 DEF Refusal
<1>12. FinalOnce(c)'
  BY <1>1, <1>11 DEF FinalOnce
<1>13. RefusedEach(c)'
  <2> SUFFICES ASSUME NEW i \in 1..n
               PROVE  /\ \E s \in ids : answers'[c][i].ids = {s}
                      /\ \E j \in {n + 1} : i < j
                      /\ \A j \in 1..n : answers'[c][i].ids = answers'[c][j].ids => i = j
    BY <1>11 DEF RefusedEach
  <2>1. \A j \in 1..n : answers'[c][j].ids = {order[j]} /\ order[j] \in ids
    BY <1>2, <1>5, <1>9, <1>10
  <2>2. i < n + 1
    BY <1>1
  <2>3. ASSUME NEW j \in 1..n, {order[i]} = {order[j]} PROVE i = j
    <3>1. order[i] = order[j]
      BY <2>3
    <3> QED
      BY <1>2, <3>1
  <2> QED
    BY <2>1, <2>2, <2>3
<1>14. \A i \in 1..Len(answers'[c]) : answers'[c][i].code # "failed"
  BY <1>1, <1>5, <1>7, <1>9, <1>10
<1> QED
  BY <1>10, <1>12, <1>13, <1>14

LEMMA CommandAnswers == ASSUME AInv, NEW c \in Commands, Command(c) PROVE AInv'
<1>1. ASSUME NEW op \in {"kill", "list"}, AskAll(c, op) PROVE AInv'
  <2>1. PICK ids : ids = known \cup {Self}
    OBVIOUS
  <2>2. ids \in SUBSET Agents
    BY <2>1, KnownServers DEF Agents
  <2>3. /\ Give(c, op, ids) /\ Latch!Create(c, Cardinality(ids), TRUE)
        /\ task' = [task EXCEPT ![c] = [a \in Agents |-> IF a \in ids THEN "asked" ELSE "none"]]
        /\ UNCHANGED <<answers, thrown>>
    BY <1>1, <2>1 DEF AskAll
  <2>4. "asked" \in StagesOf(op)
    BY DEF StagesOf
  <2> QED
    BY <2>2, <2>3, <2>4, LatchMade
<1>2. ASSUME NEW ids \in SUBSET Servers, Restart(c, ids) PROVE AInv'
  <2>1. PICK asked : asked = IF ids = {} THEN known ELSE ids
    OBVIOUS
  <2>2. asked \in SUBSET Agents /\ asked \subseteq Servers
    BY <2>1, KnownServers
  <2>3. Give(c, "restart", asked) /\ UNCHANGED answers
    BY <1>2, <2>1 DEF Restart
  <2>4. CASE asked = {}
    <3>1. thrown' = thrown \cup {c} /\ UNCHANGED <<task, count, calls, timer>>
      BY <1>2, <2>1, <2>4 DEF Restart, latchVars
    <3>2. cmd[c].op = "none"
      BY <2>3 DEF Give
    <3>3. answers'[c] = <<>> /\ answers' \in [Commands -> Seq(Reply)]
      BY <2>3, <3>2, NotGiven DEF AInv, AnswerTypes
    <3>4. /\ FinalOnce(c)' /\ RefusedEach(c)'
          /\ \A i \in 1..Len(answers'[c]) : answers'[c][i].code # "failed"
      BY <3>3, NoneFinal
    <3> QED
      BY <2>2, <2>3, <2>4, <3>1, <3>3, <3>4, NoLatch
  <2>5. CASE asked # {}
    <3>1. /\ Latch!Create(c, Cardinality(asked), TRUE) /\ UNCHANGED thrown
          /\ task' = [task EXCEPT ![c] = [a \in Agents |-> IF a \in asked THEN "asked" ELSE "none"]]
      BY <1>2, <2>1, <2>5 DEF Restart
    <3>2. "asked" \in StagesOf("restart")
      BY DEF StagesOf, Stages
    <3> QED
      BY <2>2, <2>3, <2>5, <3>1, <3>2, LatchMade
  <2> QED
    BY <2>4, <2>5
<1>3. ASSUME NEW ids \in SUBSET Servers, AddCluster(c, ids) PROVE AInv'
  <2>1. /\ Give(c, "cluster", ids) /\ ids # {} /\ ids \in SUBSET Agents
        /\ Latch!Create(c, Cardinality(ids), FALSE)
        /\ task' = [task EXCEPT ![c] = [a \in Agents |-> IF a \in ids THEN "check" ELSE "none"]]
        /\ UNCHANGED <<answers, thrown>>
    BY <1>3, KnownServers DEF AddCluster, Add
  <2>2. "check" \in StagesOf("cluster")
    BY DEF StagesOf
  <2> QED
    BY <2>1, <2>2, LatchMade
<1>4. ASSUME NEW ids \in SUBSET Servers, StopSome(c, ids) PROVE AInv'
  <2>1. PICK order \in Bijection(1..Cardinality(ids \ known), ids \ known) :
           answers' = [answers EXCEPT ![c] = Append(Refusals(ids \ known, order), Part)]
    BY <1>4 DEF StopSome
  <2>2. /\ Give(c, "stop", ids) /\ ids \in SUBSET Agents
        /\ UNCHANGED <<task, count, calls, timer, thrown>>
    BY <1>4, KnownServers DEF StopSome, latchVars
  <2>3. cmd'[c].op = "stop" /\ cmd'[c].ids = ids
    BY <2>2, Given
  <2>4. ids \ known \in SUBSET ids
    OBVIOUS
  <2>5. /\ answers' \in [Commands -> Seq(Reply)] /\ \A d \in Commands \ {c} : answers'[d] = answers[d]
        /\ FinalOnce(c)' /\ RefusedEach(c)'
        /\ \A i \in 1..Len(answers'[c]) : answers'[c][i].code # "failed"
    BY <2>1, <2>3, <2>4, StopReplies
  <2> QED
    BY <2>2, <2>5, NoLatch
<1>5. CASE StopAll(c)
  <2>1. Give(c, "stop", {}) /\ UNCHANGED <<task, count, calls, timer, answers, thrown>>
    BY <1>5 DEF StopAll, latchVars
  <2>2. cmd[c].op = "none"
    BY <2>1 DEF Give
  <2>3. answers'[c] = <<>> /\ answers' \in [Commands -> Seq(Reply)]
    BY <2>1, <2>2, NotGiven DEF AInv, AnswerTypes
  <2>4. /\ FinalOnce(c)' /\ RefusedEach(c)'
        /\ \A i \in 1..Len(answers'[c]) : answers'[c][i].code # "failed"
    BY <2>3, NoneFinal
  <2> QED
    BY <2>1, <2>3, <2>4, NoLatch
<1> QED
  BY <1>1, <1>2, <1>3, <1>4, <1>5, AddGiven DEF Command, Kill, List

-----------------------------------------------------------------------------
(* Commands go on *)

\* The one answer of a command without a latch.
LEMMA OnlyAnswer ==
    ASSUME AInv, NEW c \in Commands, answers[c] = <<>>,
           NEW r \in Reply, r.code \notin {"failed", "unknown"}, answers' = [answers EXCEPT ![c] = Append(@, r)], UNCHANGED <<cmd, count, calls, timer, thrown>>,
           ~Latched(c), cmd[c].op # "none", task' \in [Commands -> [Agents -> Stages]],
           \A d \in Commands \ {c} : task'[d] = task[d],
           Placed(c)', TaskIn(task'[c], UnderWay) = {}, \A s \in Servers : task[c][s] # "reported"
    PROVE  AInv'
<1>1. /\ answers' \in [Commands -> Seq(Reply)]
      /\ Len(answers'[c]) = Len(answers[c]) + 1
      /\ answers'[c][Len(answers[c]) + 1] = r
      /\ \A d \in Commands \ {c} : answers'[d] = answers[d]
  BY AnswerAppended DEF AInv
<1>2. Len(answers'[c]) = 1 /\ answers'[c][1] = r
  BY <1>1
<1>3. AnswerTypes'
  BY <1>1 DEF AInv, AnswerTypes
<1>4. \A d \in Commands \ {c} : Same(d)
  BY <1>1 DEF Same
<1>5. ~Latched(c)' /\ Working(c)' = {} /\ CInv(c)
  BY DEF Latched, Working, AInv
<1>6. Counted(c)'
  BY <1>5 DEF Counted
<1>7. Untold(c)'
  BY <1>5 DEF Untold, CInv
<1>8. Complete(c)'
  BY <1>2 DEF Complete
<1>9. Once(c)'
  <2>1. Final(c)' = {1} /\ Refusal(c)' = {}
    BY <1>2 DEF Final, Refusal
  <2>2. FinalOnce(c)' /\ RefusedEach(c)'
    BY <2>1 DEF FinalOnce, RefusedEach
  <2> QED
    BY <1>2, <1>5, <2>2 DEF Once, CInv, Reported
<1> QED
  BY <1>3, <1>4, <1>6, <1>7, <1>8, <1>9, OneCommand DEF CInv

\* The server of an add is run or its port is taken.
LEMMA AddedStep ==
    ASSUME AInv, NEW c \in Commands, NEW s \in Servers, task[c][s] = "check", cmd[c].op = "add",
           NEW stage \in {"failed", "ran"}, task' = [task EXCEPT ![c] = Task(c, s, stage)],
           NEW r \in Reply, r.code \notin {"failed", "unknown"}, answers' = [answers EXCEPT ![c] = Append(@, r)],
           UNCHANGED <<cmd, count, calls, timer, thrown>>
    PROVE  AInv'
<1>1. CInv(c) /\ s \in Agents /\ "check" \in UnderWay
  BY KnownServers DEF AInv, UnderWay
<1>2. cmd[c].ids = {s} /\ \A a \in Agents \ {s} : task[c][a] = "none"
  <2>1. s \in cmd[c].ids
    BY <1>1, AtWork
  <2> QED
    BY <1>1, <2>1 DEF CInv, Placed
<1>3. answers[c] = <<>>
  BY <1>1 DEF CInv, Untold, Working, TaskIn
<1>4. PICK old \in [Agents -> Stages] : old = task[c]
  BY DEF AInv, AnswerTypes
<1>5. PICK t : t = [old EXCEPT ![s] = stage]
  OBVIOUS
<1>6. t \in [Agents -> Stages] /\ t[s] = stage /\ \A a \in Agents \ {s} : t[a] = "none"
  BY <1>1, <1>2, <1>4, <1>5 DEF Stages
<1>7. task' = [task EXCEPT ![c] = t]
  BY <1>4, <1>5 DEF Task
<1>8. /\ task' \in [Commands -> [Agents -> Stages]] /\ task'[c] = t
      /\ \A d \in Commands \ {c} : task'[d] = task[d]
  BY <1>6, <1>7 DEF AInv, AnswerTypes
<1>9. Placed(c)'
  BY <1>1, <1>2, <1>6, <1>8 DEF CInv, Placed, StagesOf
<1>10. TaskIn(task'[c], UnderWay) = {}
  BY <1>6, <1>8 DEF TaskIn, UnderWay, Asked
<1>11. ~Latched(c) /\ \A b \in Servers : task[c][b] # "reported"
  BY <1>2, KnownServers DEF Latched
<1> QED
  BY <1>3, <1>8, <1>9, <1>10, <1>11, OnlyAnswer

LEMMA StopAllAnswers == ASSUME AInv, NEW c \in Commands, StopAllEnds(c) PROVE AInv'
<1>1. /\ cmd[c].op = "stop" /\ answers[c] = <<>>
      /\ UNCHANGED <<cmd, task, count, calls, timer, thrown>>
  BY DEF StopAllEnds, latchVars
<1>2. PICK r : r = [code |-> "all", ids |-> {}, timedOut |-> FALSE]
  OBVIOUS
<1>3. r \in Reply /\ r.code \notin {"failed", "unknown"}
  BY <1>2 DEF Reply, Codes
<1>4. answers' = [answers EXCEPT ![c] = Append(@, r)]
  BY <1>2 DEF StopAllEnds, Answered
<1>5. \A a \in Agents : task[c][a] = "none"
  BY <1>1, AtWork DEF Latched
<1>6. TaskIn(task'[c], UnderWay) = {} /\ \A s \in Servers : task[c][s] # "reported"
  BY <1>1, <1>5, KnownServers DEF TaskIn, UnderWay, Asked
<1>7. ~Latched(c) /\ Placed(c)' /\ task' \in [Commands -> [Agents -> Stages]]
  BY <1>1 DEF Latched, AInv, CInv, Placed, AnswerTypes
<1> QED
  BY <1>1, <1>3, <1>4, <1>6, <1>7, OnlyAnswer

LEMMA AgentAnswersAnswers ==
    ASSUME AInv, NEW c \in Commands, NEW a \in Agents, AgentAnswers(c, a) PROVE AInv'
<1>1. task[c][a] = "asked" /\ UNCHANGED cmd
  BY DEF AgentAnswers
<1>2. "asked" \in StagesOf(cmd[c].op) /\ "asked" \in UnderWay /\ (cmd[c].op = "add" \/ Latched(c))
  BY <1>1, AtWork DEF UnderWay, Asked
<1>3. CASE cmd[c].op = "restart"
  <2>1. /\ task' = [task EXCEPT ![c] = Task(c, a, "wait")]
        /\ UNCHANGED <<cmd, count, calls, timer, answers, thrown>>
    BY <1>3 DEF AgentAnswers, latchVars
  <2> QED
    BY <1>1, <1>2, <1>3, <2>1, GoesOn
<1>4. CASE cmd[c].op # "restart"
  <2>1. cmd[c].op \in {"kill", "list"}
    BY <1>2, <1>4 DEF StagesOf, Latched
  <2>2. "answered" \in StagesOf(cmd[c].op) /\ Latched(c)
    BY <2>1 DEF StagesOf, Latched
  <2>3. Done(c, Task(c, a, "answered"))
    BY <1>4 DEF AgentAnswers
  <2> QED
    BY <1>1, <1>2, <2>2, <2>3, DoneStep
<1> QED
  BY <1>3, <1>4

LEMMA ConsoleAnswers == ASSUME AInv, NEW c \in Commands, ConsoleStep(c) PROVE AInv'
<1>1. ASSUME NEW s \in Servers, NoAgent(c, s) PROVE AInv'
  <2>1. /\ cmd[c].op = "restart" /\ task[c][s] = "asked" /\ UNCHANGED cmd /\ s \in Agents
        /\ Done(c, Task(c, s, "failed"))
    BY <1>1, KnownServers DEF NoAgent
  <2>2. "failed" \in StagesOf(cmd[c].op) /\ task[c][s] \in UnderWay
    BY <2>1 DEF StagesOf, Stages, UnderWay, Asked
  <2>3. Latched(c)
    BY <2>1, AtWork
  <2> QED
    BY <2>1, <2>2, <2>3, DoneStep
<1>2. ASSUME NEW s \in Servers, RestartWaited(c, s) PROVE AInv'
  <2>1. /\ task[c][s] = "wait" /\ s \in Agents /\ task' = [task EXCEPT ![c] = Task(c, s, "check")]
        /\ UNCHANGED <<cmd, count, calls, timer, answers, thrown>>
    BY <1>2, KnownServers DEF RestartWaited, latchVars
  <2>2. "wait" \in StagesOf(cmd[c].op)
    BY <2>1, AtWork
  <2>3. cmd[c].op = "restart"
    BY <2>2 DEF StagesOf
  <2>4. task[c][s] \in UnderWay
    BY <2>1 DEF UnderWay
  <2> QED
    BY <2>1, <2>3, <2>4, GoesOn
<1>3. ASSUME NEW s \in Servers, task[c][s] = "check", UNCHANGED cmd, cmd[c].op # "add",
             NEW stage \in {"failed", "ran"}, Done(c, Task(c, s, stage))
      PROVE  AInv'
  <2>1. "check" \in StagesOf(cmd[c].op) /\ Latched(c) /\ s \in Agents
    BY <1>3, AtWork, KnownServers
  <2>2. stage \in StagesOf(cmd[c].op)
    BY <2>1 DEF StagesOf, Stages
  <2>3. task[c][s] \in UnderWay /\ stage \in {"answered", "failed", "ran"}
    BY <1>3 DEF UnderWay
  <2> QED
    BY <1>3, <2>1, <2>2, <2>3, DoneStep
<1>4. ASSUME NEW s \in Servers, PortBusy(c, s) PROVE AInv'
  <2>1. task[c][s] = "check" /\ UNCHANGED cmd
    BY <1>4 DEF PortBusy
  <2>2. CASE cmd[c].op = "add"
    <3>1. PICK r : r = [code |-> "busy", ids |-> {s}, timedOut |-> FALSE]
      OBVIOUS
    <3>2. r \in Reply /\ r.code \notin {"failed", "unknown"}
      BY <3>1, KnownServers DEF Reply, Codes
    <3>3. /\ answers' = [answers EXCEPT ![c] = Append(@, r)]
          /\ task' = [task EXCEPT ![c] = Task(c, s, "failed")]
          /\ UNCHANGED <<cmd, count, calls, timer, thrown>>
      BY <1>4, <2>2, <3>1 DEF PortBusy, Answered, latchVars
    <3> QED
      BY <2>1, <2>2, <3>2, <3>3, AddedStep
  <2>3. CASE cmd[c].op # "add"
    <3>1. Done(c, Task(c, s, "failed"))
      BY <1>4, <2>3 DEF PortBusy
    <3> QED
      BY <1>3, <2>1, <2>3, <3>1
  <2> QED
    BY <2>2, <2>3
<1>5. ASSUME NEW s \in Servers, PortFree(c, s) PROVE AInv'
  <2>1. task[c][s] = "check" /\ UNCHANGED cmd
    BY <1>5 DEF PortFree
  <2>2. CASE cmd[c].op = "add"
    <3>1. PICK r : r = [code |-> "ok", ids |-> {}, timedOut |-> FALSE]
      OBVIOUS
    <3>2. r \in Reply /\ r.code \notin {"failed", "unknown"}
      BY <3>1 DEF Reply, Codes
    <3>3. /\ answers' = [answers EXCEPT ![c] = Append(@, r)]
          /\ task' = [task EXCEPT ![c] = Task(c, s, "ran")]
          /\ UNCHANGED <<cmd, count, calls, timer, thrown>>
      BY <1>5, <2>2, <3>1 DEF PortFree, Answered, latchVars
    <3> QED
      BY <2>1, <2>2, <3>2, <3>3, AddedStep
  <2>3. CASE cmd[c].op # "add"
    <3>1. Done(c, Task(c, s, "ran"))
      BY <1>5, <2>3 DEF PortFree
    <3> QED
      BY <1>3, <2>1, <2>3, <3>1
  <2> QED
    BY <2>2, <2>3
<1> QED
  BY <1>1, <1>2, <1>4, <1>5, TimesOutAnswers, StopAllAnswers DEF ConsoleStep

\* A child reports an error after it was counted: nothing more is claimed of
\* the command's answers.
LEMMA ReportAnswers ==
    ASSUME AInv, NEW c \in Commands, NEW s \in Servers, ChildReports(c, s) PROVE AInv'
<1>1. task[c][s] = "ran" /\ UNCHANGED cmd /\ CInv(c) /\ AnswerTypes /\ s \in Agents
  BY KnownServers DEF ChildReports, AInv
<1>2. /\ s \in cmd[c].ids /\ "ran" \in StagesOf(cmd[c].op)
      /\ cmd[c].op = "add" \/ Latched(c)
  BY <1>1, AtWork
<1>3. PICK old \in [Agents -> Stages] : old = task[c]
  BY DEF AInv, AnswerTypes
<1>4. PICK t : t = [old EXCEPT ![s] = "reported"]
  OBVIOUS
<1>5. /\ t \in [Agents -> Stages] /\ t = Task(c, s, "reported")
      /\ t[s] = "reported" /\ \A a \in Agents \ {s} : t[a] = task[c][a]
  BY <1>1, <1>3, <1>4 DEF Task, Stages
<1>6. task' = [task EXCEPT ![c] = t]
  BY <1>5 DEF ChildReports, Done
<1>7. task' \in [Commands -> [Agents -> Stages]] /\ task'[c] = t
  BY <1>1, <1>5, <1>6 DEF AnswerTypes
<1>8. "reported" \in StagesOf(cmd[c].op)
  BY <1>2 DEF StagesOf, Stages
<1>9. Placed(c)'
  BY <1>1, <1>2, <1>5, <1>7, <1>8 DEF CInv, Placed
<1>10. Reported(c)'
  BY <1>5, <1>7 DEF Reported
<1>11. Counted(c)' /\ Complete(c)' /\ (FinalOnce(c)' /\ RefusedEach(c)' => Once(c)')
  BY <1>10 DEF Counted, Complete, Once
<1>12. CASE cmd[c].op = "add"
  <2>1. PICK r : r = [code |-> "error", ids |-> {s}, timedOut |-> FALSE]
    OBVIOUS
  <2>2. r \in Reply
    BY <1>1, <2>1 DEF Reply, Codes
  <2>3. /\ answers' = [answers EXCEPT ![c] = Append(@, r)]
        /\ UNCHANGED <<cmd, count, calls, timer, thrown>>
    BY <1>12, <2>1 DEF ChildReports, Answered, latchVars
  <2>10. FinalOnce(c)' /\ RefusedEach(c)'
    BY <1>1, <1>10, <1>12, <2>1, <2>2, <2>3, FinalAppended DEF CInv, Once
  <2>4. /\ answers' \in [Commands -> Seq(Reply)]
        /\ \A d \in Commands \ {c} : answers'[d] = answers[d]
    BY <1>1, <2>2, <2>3, AnswerAppended
  <2>5. AnswerTypes'
    BY <1>1, <1>7, <2>3, <2>4 DEF AnswerTypes
  <2>6. \A d \in Commands \ {c} : Same(d)
    BY <1>1, <1>6, <2>3, <2>4 DEF Same, AnswerTypes
  <2>7. timer'[c] # "set"
    BY <1>1, <1>12, <2>3 DEF CInv, Untold, Latched
  <2>8. Working(c)' = {}
    <3>1. \A a \in Agents \ {s} : task[c][a] = "none"
      BY <1>1, <1>2, <1>12 DEF CInv, Placed
    <3> QED
      BY <1>5, <1>7, <3>1 DEF Working, TaskIn, UnderWay, Asked
  <2>9. Untold(c)'
    BY <1>12, <2>3, <2>7, <2>8 DEF Untold
  <2> QED
    BY <1>9, <1>11, <2>5, <2>6, <2>9, <2>10, OneCommand DEF CInv
<1>13. CASE cmd[c].op # "add"
  <2>1. Done(c, t) /\ cmd[c].op \notin {"none", "add"}
    BY <1>2, <1>5, <1>13 DEF ChildReports, Latched
  <2>2. Untold(c)'
    BY <1>1, <1>5, <2>1, DoneUntold
  <2>3. AnswerTypes' /\ \A d \in Commands \ {c} : Same(d)
    BY <1>1, <1>5, <2>1, DoneFrame
  <2>4. FinalOnce(c)' /\ RefusedEach(c)'
    <3>1. cmd[c].op # "stop"
      BY <1>2, <1>13 DEF Latched
    <3> QED
      BY <1>1, <1>5, <1>10, <2>1, <3>1, DoneOnce DEF CInv, Once
  <2> QED
    BY <1>9, <1>11, <2>2, <2>3, <2>4, OneCommand DEF CInv
<1> QED
  BY <1>12, <1>13

LEMMA InitAnswers == Init => AInv
<1> SUFFICES ASSUME Init PROVE AInv
  OBVIOUS
<1>1. /\ cmd = [c \in Commands |-> [op |-> "none", ids |-> {}]]
      /\ task = [c \in Commands |-> [a \in Agents |-> "none"]]
      /\ answers = [c \in Commands |-> <<>>] /\ thrown = {}
      /\ count = [c \in Commands |-> 0] /\ calls = [c \in Commands |-> 0]
      /\ timer = [c \in Commands |-> "none"]
  BY DEF Init, Latch!Init
<1>2. AnswerTypes
  <2>1. [op |-> "none", ids |-> {}] \in [op : Operations \cup {"none"}, ids : SUBSET Agents]
    OBVIOUS
  <2>2. cmd \in [Commands -> [op : Operations \cup {"none"}, ids : SUBSET Agents]]
    BY <1>1, <2>1
  <2>3. [a \in Agents |-> "none"] \in [Agents -> Stages]
    BY DEF Stages
  <2>4. task \in [Commands -> [Agents -> Stages]]
    BY <1>1, <2>3
  <2>5. <<>> \in Seq(Reply)
    OBVIOUS
  <2>6. answers \in [Commands -> Seq(Reply)]
    BY <1>1, <2>5
  <2>7. /\ count \in [Commands -> Nat] /\ calls \in [Commands -> Nat]
        /\ timer \in [Commands -> {"none", "set", "over"}]
    BY <1>1
  <2> QED
    BY <2>2, <2>4, <2>6, <2>7 DEF AnswerTypes
<1>3. ASSUME NEW c \in Commands PROVE CInv(c)
  <2>1. /\ cmd[c].op = "none" /\ cmd[c].ids = {} /\ answers[c] = <<>> /\ timer[c] = "none"
        /\ \A a \in Agents : task[c][a] = "none"
    BY <1>1
  <2>2. Placed(c) /\ Counted(c)
    BY <2>1 DEF Placed, Counted, Latched
  <2>3. Untold(c) /\ Complete(c) /\ Once(c)
    BY <1>1, <2>1 DEF Untold, Complete, Once, FinalOnce, RefusedEach, Final, Refusal
  <2> QED
    BY <2>2, <2>3 DEF CInv
<1> QED
  BY <1>2, <1>3 DEF AInv

\* The variables the answers depend on.
answerVars == <<cmd, task, count, calls, timer, answers, thrown>>

LEMMA AnswersUnchanged == AInv /\ UNCHANGED answerVars => AInv'
<1> SUFFICES ASSUME AInv, UNCHANGED answerVars PROVE AInv'
  OBVIOUS
<1>1. UNCHANGED <<cmd, task, count, calls, timer, answers, thrown>>
  BY DEF answerVars
<1>2. AnswerTypes'
  BY <1>1 DEF AInv, AnswerTypes
<1>3. \A c \in Commands : CInv(c)'
  BY <1>1, SameKeeps DEF AInv, Same
<1> QED
  BY <1>2, <1>3 DEF AInv

LEMMA StepAnswers == AInv /\ [Next]_vars => AInv'
<1> SUFFICES ASSUME AInv, [Next]_vars PROVE AInv'
  OBVIOUS
<1>1. CASE UNCHANGED vars
  BY <1>1, AnswersUnchanged DEF vars, commandVars, latchVars, answerVars
<1>2. ASSUME NEW s \in Servers, ServerStep(s) \/ Crash(s) \/ Drop(s) PROVE AInv'
  <2>1. CASE Register(s) \/ ToldToStop(s) \/ Exit(s) \/ Crash(s)
    BY <2>1, AnswersUnchanged
       DEF Register, ToldToStop, Exit, Crash, commandVars, latchVars, answerVars
  <2>2. CASE Disconnect(s) \/ Drop(s)
    BY <2>2, SocketClosesAnswers DEF Disconnect, Drop
  <2> QED
    BY <1>2, <2>1, <2>2 DEF ServerStep
<1>3. CASE AutoStep
  BY <1>3, AnswersUnchanged
     DEF AutoStep, Pinged, Checked, Restarts, commandVars, latchVars, answerVars
<1>4. CASE Leave
  BY <1>4, AnswersUnchanged DEF Leave, commandVars, latchVars, answerVars
<1> QED
  BY <1>1, <1>2, <1>3, <1>4, CommandAnswers, ConsoleAnswers, AgentAnswersAnswers, ReportAnswers
     DEF Next

LEMMA AnswersInvariant == Spec => []AInv
<1>1. QED
  BY InitAnswers, StepAnswers, PTL DEF Spec

\* A command of the console gets one final answer, but for timeouts before it and
\* for a child that reports an error late, and only then is its latch counted down
\* below zero; the other answers are the errors of a stop, one for each server it
\* cannot find, for any servers, commands and faults.
THEOREM OneAnswerCorrect == Spec => []OneAnswer
<1>1. AInv => OneAnswer
  BY DEF AInv, CInv, Once, OneAnswer
<1>2. QED
  BY AnswersInvariant, <1>1, PTL

\* An answer that is no timeout is given when no agent is at work any more, and
\* the failures it names are those that failed.
THEOREM CompleteAnswersCorrect == Spec => []CompleteAnswers
<1>1. AInv => CompleteAnswers
  BY DEF AInv, CInv, Complete, CompleteAnswers
<1>2. QED
  BY AnswersInvariant, <1>1, PTL

-----------------------------------------------------------------------------
(* How often a command's latch calls back, and how often it is answered *)

AnswersOfLatch(c) == c \in made =>
    /\ Len(answers[c]) = calls[c]
    /\ calls[c] = (IF count[c] = 0 THEN 1 ELSE 0) + (IF c \in late THEN 1 ELSE 0)

\* A latch that is not made has done nothing, one whose timer runs neither.
LatchInv(c) == /\ AnswersOfLatch(c)
               /\ c \in made => cmd[c].op \in {"kill", "list", "restart", "cluster"}
               /\ c \notin made => count[c] = 0 /\ calls[c] = 0 /\ timer[c] = "none" /\ c \notin late
               /\ timer[c] = "set" => count[c] > 0 /\ c \notin late

CallsInv == \A c \in Commands : LatchInv(c)

\* A step that does nothing with the latch of c, nor, if there is one, with what
\* c is and has been answered.
Untouched(c) == /\ c \in made' <=> c \in made
                /\ c \in late' <=> c \in late
                /\ count'[c] = count[c] /\ calls'[c] = calls[c] /\ timer'[c] = timer[c]
                /\ c \in made => cmd'[c] = cmd[c] /\ answers'[c] = answers[c]

LEMMA UntouchedLatch == ASSUME NEW c, LatchInv(c), Untouched(c) PROVE LatchInv(c)'
BY DEF LatchInv, AnswersOfLatch, Untouched

LEMMA OneLatch ==
    ASSUME CallsInv, NEW c \in Commands, LatchInv(c)', \A d \in Commands \ {c} : Untouched(d)
    PROVE  CallsInv'
<1>1. \A d \in Commands : LatchInv(d)'
  BY UntouchedLatch DEF CallsInv
<1> QED BY <1>1 DEF CallsInv

\* Steps that leave all latches alone: who has none may be answered and be given.
LEMMA NoLatchTouched ==
    ASSUME CallsInv, AInv, UNCHANGED latchVars, NEW c \in Commands, c \notin made,
           cmd' = cmd \/ cmd' = [cmd EXCEPT ![c] = cmd'[c]],
           answers' = answers \/ answers' = [answers EXCEPT ![c] = answers'[c]]
    PROVE  CallsInv'
<1>1. \A d \in Commands \ {c} : cmd'[d] = cmd[d] /\ answers'[d] = answers[d]
  BY DEF AInv, AnswerTypes
<1>2. \A d \in Commands : Untouched(d)
  BY <1>1 DEF Untouched, latchVars
<1> QED BY <1>2, UntouchedLatch DEF CallsInv

LEMMA LatchesUnchanged == CallsInv /\ UNCHANGED <<cmd, answers, latchVars>> => CallsInv'
BY UntouchedLatch DEF CallsInv, Untouched, latchVars

LEMMA CreateLatch ==
    ASSUME CallsInv, AInv, NEW c \in Commands, NEW op \in {"kill", "list", "restart", "cluster"},
           NEW ids \in SUBSET Agents, Give(c, op, ids), NEW n \in Nat, NEW timed \in BOOLEAN,
           Latch!Create(c, n, timed), UNCHANGED answers
    PROVE  CallsInv'
<1>1. /\ cmd'[c].op = op /\ \A d \in Commands \ {c} : cmd'[d] = cmd[d]
      /\ answers[c] = <<>>
  BY Given, NotGiven
<1>2. /\ c \notin made /\ n > 0 /\ made' = made \cup {c} /\ UNCHANGED <<calls, late>>
      /\ count' = [count EXCEPT ![c] = n]
      /\ timer' = [timer EXCEPT ![c] = IF timed THEN "set" ELSE "none"]
  BY DEF Latch!Create
<1>3. /\ count'[c] = n /\ timer'[c] \in {"set", "none"} /\ calls[c] = 0 /\ c \notin late
      /\ \A d \in Commands \ {c} : count'[d] = count[d] /\ timer'[d] = timer[d]
  BY <1>2 DEF AInv, AnswerTypes, CallsInv, LatchInv
<1>4. LatchInv(c)'
  BY <1>1, <1>2, <1>3 DEF LatchInv, AnswersOfLatch
<1>5. \A d \in Commands \ {c} : Untouched(d)
  BY <1>1, <1>2, <1>3 DEF Untouched
<1> QED BY <1>4, <1>5, OneLatch

\* done() calls back when it was the last, whether the timer has fired or not.
LEMMA DoneLatch ==
    ASSUME CallsInv, AInv, NEW c \in Commands, NEW t \in [Agents -> Stages], Done(c, t), UNCHANGED cmd
    PROVE  CallsInv'
<1>1. AnswerTypes /\ (Throws(c) \/ Waits(c) \/ CallsBack(c, t))
  BY DoneOutcome DEF AInv
<1>2. UNCHANGED <<made, late>>
  BY DEF Done, Latch!Done, latchVars
<1>3. /\ count \in [Commands -> Nat] /\ calls \in [Commands -> Nat] /\ LatchInv(c)
      /\ timer \in [Commands -> {"none", "set", "over"}]
  BY <1>1 DEF AnswerTypes, CallsInv
<1>4. CASE Throws(c)
  BY <1>2, <1>4, LatchesUnchanged DEF Throws, latchVars
<1>5. CASE Waits(c)
  <2>1. /\ count'[c] = count[c] - 1 /\ count[c] > 1
        /\ \A d \in Commands \ {c} : count'[d] = count[d]
    BY <1>3, <1>5 DEF Waits
  <2>2. LatchInv(c)'
    BY <1>2, <1>3, <1>5, <2>1 DEF Waits, LatchInv, AnswersOfLatch
  <2>3. \A d \in Commands \ {c} : Untouched(d)
    BY <1>2, <1>5, <2>1 DEF Waits, Untouched
  <2> QED BY <2>2, <2>3, OneLatch
<1>6. CASE CallsBack(c, t)
  <2>1. PICK r \in Reply : answers' = [answers EXCEPT ![c] = Append(@, r)]
    BY <1>1, <1>6, FinishReply DEF CallsBack
  <2>2. /\ Len(answers'[c]) = Len(answers[c]) + 1 /\ Len(answers[c]) \in Nat
        /\ \A d \in Commands \ {c} : answers'[d] = answers[d]
    BY <1>1, <2>1, AnswerAppended DEF AnswerTypes
  <2>3. /\ count[c] = 1 /\ count'[c] = 0 /\ calls'[c] = calls[c] + 1 /\ timer'[c] # "set"
        /\ \A d \in Commands \ {c} : /\ count'[d] = count[d] /\ calls'[d] = calls[d]
                                     /\ timer'[d] = timer[d]
    BY <1>3, <1>6 DEF CallsBack
  <2>4. c \in made
    BY <1>3, <2>3 DEF LatchInv
  <2>5. LatchInv(c)'
    BY <1>2, <1>3, <2>2, <2>3, <2>4 DEF LatchInv, AnswersOfLatch
  <2>6. \A d \in Commands \ {c} : Untouched(d)
    BY <1>2, <2>2, <2>3 DEF Untouched
  <2> QED BY <2>5, <2>6, OneLatch
<1> QED BY <1>1, <1>4, <1>5, <1>6

LEMMA TimeoutLatch ==
    ASSUME CallsInv, AInv, NEW c \in Commands, LatchTimesOut(c)
    PROVE  CallsInv'
<1>1. /\ timer[c] = "set" /\ timer' = [timer EXCEPT ![c] = "over"]
      /\ calls' = [calls EXCEPT ![c] = @ + 1] /\ late' = late \cup {c}
      /\ UNCHANGED <<made, count, cmd>> /\ Finish(c, task[c], TRUE)
  BY DEF LatchTimesOut, Latch!Timeout
<1>2. /\ AnswerTypes /\ LatchInv(c) /\ count[c] \in Nat /\ calls[c] \in Nat
  BY DEF AInv, AnswerTypes, CallsInv
<1>3. PICK r \in Reply : answers' = [answers EXCEPT ![c] = Append(@, r)]
  BY <1>1, <1>2, FinishReply
<1>4. /\ Len(answers'[c]) = Len(answers[c]) + 1 /\ Len(answers[c]) \in Nat
      /\ \A d \in Commands \ {c} : answers'[d] = answers[d]
  BY <1>2, <1>3, AnswerAppended DEF AnswerTypes
<1>5. /\ calls'[c] = calls[c] + 1 /\ timer'[c] = "over"
      /\ \A d \in Commands \ {c} : calls'[d] = calls[d] /\ timer'[d] = timer[d]
  BY <1>1, <1>2 DEF AnswerTypes
<1>6. LatchInv(c)'
  BY <1>1, <1>2, <1>4, <1>5 DEF LatchInv, AnswersOfLatch
<1>7. \A d \in Commands \ {c} : Untouched(d)
  BY <1>1, <1>4, <1>5 DEF Untouched
<1> QED BY <1>6, <1>7, OneLatch

LEMMA CommandLatch ==
    ASSUME CallsInv, AInv, NEW c \in Commands, Command(c)
    PROVE  CallsInv'
<1>1. /\ IsFiniteSet(Agents) /\ known \subseteq Servers /\ Servers \subseteq Agents
      /\ Self \in Agents /\ \A ids \in SUBSET Agents : Cardinality(ids) \in Nat
  <2>1. IsFiniteSet(Agents)
    BY MasterAssumption, FS_AddElement DEF MasterAssumption, Agents
  <2> QED BY <2>1, FS_Subset, FS_CardinalityType, KnownServers DEF Agents
<1>2. ASSUME NEW op, NEW ids \in SUBSET Agents, Give(c, op, ids)
      PROVE  c \notin made /\ cmd' = [cmd EXCEPT ![c] = cmd'[c]]
  <2>1. cmd[c].op = "none" /\ cmd' \in [Commands -> [op : Operations \cup {"none"}, ids : SUBSET Agents]]
        /\ \A d \in Commands \ {c} : cmd'[d] = cmd[d]
    BY <1>2, Given
  <2> QED BY <2>1 DEF CallsInv, LatchInv, AInv, AnswerTypes
<1>3. CASE Kill(c) \/ List(c)
  <2> DEFINE ids == known \cup {Self}
  <2>1. PICK op \in {"kill", "list"} : AskAll(c, op)
    BY <1>3 DEF Kill, List
  <2>2. /\ ids \in SUBSET Agents /\ Give(c, op, ids) /\ Cardinality(ids) \in Nat
        /\ Latch!Create(c, Cardinality(ids), TRUE) /\ UNCHANGED answers
    BY <1>1, <2>1 DEF AskAll
  <2> QED BY <2>2, CreateLatch
<1>4. ASSUME NEW ids \in SUBSET Servers, Restart(c, ids) PROVE CallsInv'
  <2> DEFINE asked == IF ids = {} THEN known ELSE ids
  <2>1. /\ asked \in SUBSET Agents /\ Cardinality(asked) \in Nat
        /\ Give(c, "restart", asked) /\ UNCHANGED answers
    BY <1>1, <1>4 DEF Restart
  <2>2. CASE asked = {}
    <3>1. UNCHANGED latchVars
      BY <1>4, <2>2 DEF Restart
    <3> QED BY <1>2, <2>1, <3>1, NoLatchTouched
  <2>3. CASE asked # {}
    <3>1. Latch!Create(c, Cardinality(asked), TRUE)
      BY <1>4, <2>3 DEF Restart
    <3> QED BY <2>1, <3>1, CreateLatch
  <2> QED BY <2>2, <2>3
<1>5. ASSUME NEW s \in Servers, AddServer(c, s) PROVE CallsInv'
  <2>1. {s} \in SUBSET Agents /\ Give(c, "add", {s}) /\ UNCHANGED latchVars /\ UNCHANGED answers
    BY <1>1, <1>5 DEF AddServer, Add
  <2> QED BY <1>2, <2>1, NoLatchTouched
<1>6. ASSUME NEW ids \in SUBSET Servers, AddCluster(c, ids) PROVE CallsInv'
  <2>1. /\ ids \in SUBSET Agents /\ Give(c, "cluster", ids) /\ Cardinality(ids) \in Nat
        /\ Latch!Create(c, Cardinality(ids), FALSE) /\ UNCHANGED answers
    BY <1>1, <1>6 DEF AddCluster, Add
  <2> QED BY <2>1, CreateLatch
<1>7. ASSUME NEW ids \in SUBSET Servers, StopSome(c, ids) PROVE CallsInv'
  <2>1. /\ ids \in SUBSET Agents /\ Give(c, "stop", ids) /\ UNCHANGED latchVars
        /\ \E r : answers' = [answers EXCEPT ![c] = r]
    BY <1>1, <1>7 DEF StopSome
  <2>2. answers' = [answers EXCEPT ![c] = answers'[c]]
    BY <2>1 DEF AInv, AnswerTypes
  <2> QED BY <1>2, <2>1, <2>2, NoLatchTouched
<1>8. CASE StopAll(c)
  <2>1. {} \in SUBSET Agents /\ Give(c, "stop", {}) /\ UNCHANGED latchVars /\ UNCHANGED answers
    BY <1>8 DEF StopAll
  <2> QED BY <1>2, <2>1, NoLatchTouched
<1> QED BY <1>3, <1>4, <1>5, <1>6, <1>7, <1>8 DEF Command

\* An agent is done with: a command without a latch, add, is answered at once.
LEMMA TaskLatch ==
    ASSUME CallsInv, AInv, NEW c \in Commands, NEW a \in Agents, NEW stage \in Stages, UNCHANGED cmd,
           \/ Done(c, Task(c, a, stage))
           \/ /\ cmd[c].op = "add" /\ UNCHANGED latchVars
              /\ \E r : answers' = [answers EXCEPT ![c] = r]
    PROVE  CallsInv'
<1>1. CASE Done(c, Task(c, a, stage))
  <2>1. Task(c, a, stage) \in [Agents -> Stages]
    BY DEF Task, AInv, AnswerTypes
  <2> QED BY <1>1, <2>1, DoneLatch
<1>2. CASE /\ cmd[c].op = "add" /\ UNCHANGED latchVars
           /\ \E r : answers' = [answers EXCEPT ![c] = r]
  <2>1. answers' = [answers EXCEPT ![c] = answers'[c]]
    BY <1>2 DEF AInv, AnswerTypes
  <2>2. c \notin made
    BY <1>2 DEF CallsInv, LatchInv
  <2> QED BY <1>2, <2>1, <2>2, NoLatchTouched
<1> QED BY <1>1, <1>2

LEMMA ConsoleLatch ==
    ASSUME CallsInv, AInv, NEW c \in Commands,
           \/ ConsoleStep(c)
           \/ \E a \in Agents : AgentAnswers(c, a)
           \/ \E s \in Servers : ChildReports(c, s)
    PROVE  CallsInv'
<1>1. Servers \subseteq Agents /\ {"answered", "failed", "ran", "reported"} \subseteq Stages
  BY DEF Agents, Stages
<1>2. ASSUME NEW s \in Servers, NoAgent(c, s) PROVE CallsInv'
  BY <1>1, <1>2, TaskLatch DEF NoAgent
<1>3. ASSUME NEW s \in Servers, RestartWaited(c, s) PROVE CallsInv'
  BY <1>3, LatchesUnchanged DEF RestartWaited
<1>4. ASSUME NEW s \in Servers, PortBusy(c, s) PROVE CallsInv'
  BY <1>1, <1>4, TaskLatch DEF PortBusy, Answered
<1>5. ASSUME NEW s \in Servers, PortFree(c, s) PROVE CallsInv'
  BY <1>1, <1>5, TaskLatch DEF PortFree, Answered
<1>6. CASE LatchTimesOut(c)
  BY <1>6, TimeoutLatch
<1>7. CASE StopAllEnds(c)
  <2>1. /\ cmd[c].op = "stop" /\ UNCHANGED latchVars /\ UNCHANGED cmd
        /\ \E r : answers' = [answers EXCEPT ![c] = r]
    BY <1>7 DEF StopAllEnds, Answered
  <2>2. answers' = [answers EXCEPT ![c] = answers'[c]] /\ c \notin made
    BY <2>1 DEF AInv, AnswerTypes, CallsInv, LatchInv
  <2> QED BY <2>1, <2>2, NoLatchTouched
<1>8. ASSUME NEW a \in Agents, AgentAnswers(c, a) PROVE CallsInv'
  <2>1. UNCHANGED cmd /\ (UNCHANGED <<answers, latchVars>> \/ Done(c, Task(c, a, "answered")))
    BY <1>8 DEF AgentAnswers
  <2> QED BY <1>1, <2>1, LatchesUnchanged, TaskLatch
<1>9. ASSUME NEW s \in Servers, ChildReports(c, s) PROVE CallsInv'
  BY <1>1, <1>9, TaskLatch DEF ChildReports, Answered
<1> QED BY <1>2, <1>3, <1>4, <1>5, <1>6, <1>7, <1>8, <1>9 DEF ConsoleStep

LEMMA StepCalls == CallsInv /\ AInv /\ [Next]_vars => CallsInv'
<1> SUFFICES ASSUME CallsInv, AInv, [Next]_vars PROVE CallsInv'
  OBVIOUS
<1>1. CASE UNCHANGED vars
  BY <1>1, LatchesUnchanged DEF vars, commandVars
<1>2. ASSUME NEW s \in Servers, ServerStep(s) \/ Crash(s) \/ Drop(s) PROVE CallsInv'
  BY <1>2, LatchesUnchanged
     DEF ServerStep, Register, ToldToStop, Exit, Crash, Disconnect, Drop, SocketCloses, commandVars
<1>3. CASE AutoStep
  BY <1>3, LatchesUnchanged DEF AutoStep, Pinged, Checked, Restarts, commandVars
<1>4. CASE Leave
  BY <1>4, LatchesUnchanged DEF Leave, commandVars
<1> QED BY <1>1, <1>2, <1>3, <1>4, CommandLatch, ConsoleLatch DEF Next

\* A latch calls back once when it has been counted down and once when its timer
\* fires before that, and each time the command is answered: a command that
\* waits with a latch is answered twice at most, and twice only after a timeout.
THEOREM AnswersOfLatchCorrect == Spec => [](\A c \in Commands : AnswersOfLatch(c))
<1>1. Init => CallsInv
  BY DEF Init, Latch!Init, CallsInv, LatchInv, AnswersOfLatch
<1>2. CallsInv => \A c \in Commands : AnswersOfLatch(c)
  BY DEF CallsInv, LatchInv
<1> QED BY AnswersInvariant, StepCalls, <1>1, <1>2, PTL DEF Spec

-----------------------------------------------------------------------------
(* What a server process does of itself: AppLifecycle                        *)

LifeTypes ==
    /\ starts = [r \in Starts |-> starts[r]]
    /\ stops = [q \in Stops |-> stops[q]]
    /\ \A r \in Starts : starts[r] = [phase |-> starts[r].phase, pos |-> starts[r].pos,
                                           err |-> starts[r].err]
    /\ \A q \in Stops : stops[q] = [phase |-> stops[q].phase, pos |-> stops[q].pos,
                                         force |-> stops[q].force, timer |-> stops[q].timer]

StopBegun(q) == stops[q].phase # "none"

\* Where r's start has come to, if it is answered or about to be.
Through(r) == (starts[r].phase \in {"hook", "answered"} /\ ~starts[r].err) =>
                 From(starts[r].pos + 1, "afterStart") = N + 1

\* Once a stop has begun no start is under way and none will be.
Quiet == \A q \in Stops : StopBegun(q) =>
            /\ state = "stoped"
            /\ \A r \in Starts : ~Starting(r)
            /\ \A p \in Stops : StopBegun(p) => p = q

\* Before the default components are loaded no start has been accepted.
Refused(r) == starts[r].phase = "none" \/ (starts[r].phase = "answered" /\ starts[r].err)

LInv == /\ LifeTypes /\ defaults \in BOOLEAN
        /\ defaults = FALSE => \A r \in Starts : Refused(r)
        /\ ~early => Quiet /\ process # "crashed" /\ \A r \in Starts : Through(r)

\* A step of a start.
LEMMA PhaseEffect ==
    ASSUME LifeTypes, NEW r \in Starts, NEW p, NEW i, NEW e, Phase(r, p, i, e),
           UNCHANGED stops
    PROVE  /\ LifeTypes'
           /\ starts'[r] = [phase |-> p, pos |-> i, err |-> e]
           /\ \A z \in Starts : z # r => starts'[z] = starts[z]
<1>1. starts' = [starts EXCEPT ![r] = [phase |-> p, pos |-> i, err |-> e]]
  BY DEF Phase
<1>2. DOMAIN starts = Starts
  BY DEF LifeTypes
<1>3. /\ starts'[r] = [phase |-> p, pos |-> i, err |-> e]
      /\ \A z \in Starts : z # r => starts'[z] = starts[z]
  BY <1>1, <1>2
<1>4. starts' = [z \in Starts |-> starts'[z]]
  BY <1>1, <1>2
<1>5. ASSUME NEW z \in Starts
      PROVE  starts'[z] = [phase |-> starts'[z].phase, pos |-> starts'[z].pos,
                           err |-> starts'[z].err]
  <2>1. CASE z = r
    BY <1>3, <2>1
  <2>2. CASE z # r
    BY <1>3, <2>2 DEF LifeTypes
  <2> QED BY <2>1, <2>2
<1> QED
  BY <1>3, <1>4, <1>5 DEF LifeTypes

\* Where a chain goes is a matter of the configuration and of what is loaded.
LEMMA SameChain ==
    ASSUME UNCHANGED <<server, defaults>>
    PROVE  /\ \A i, m : From(i, m)' = From(i, m)
           /\ N' = N
BY DEF From, N, loaded

\* A step of r's start that is not its last, when nothing has been stopped.
LEMMA StartGoesOn ==
    ASSUME LInv, NEW r \in Starts, NEW p, NEW i, NEW e, Phase(r, p, i, e),
           UNCHANGED <<server, stops, early>>, \A q \in Stops : ~early => ~StopBegun(q),
           defaults' = TRUE, defaults = FALSE => p \notin {"hook", "answered"},
           (p \in {"hook", "answered"} /\ ~e) => From(i + 1, "afterStart") = N + 1,
           (~early /\ process # "crashed") => process' # "crashed"
    PROVE  LInv'
<1>1. /\ LifeTypes' /\ starts'[r] = [phase |-> p, pos |-> i, err |-> e]
      /\ \A z \in Starts : z # r => starts'[z] = starts[z]
  BY PhaseEffect DEF LInv
<1> SUFFICES ASSUME ~early'
             PROVE  Quiet' /\ process' # "crashed" /\ \A z \in Starts : Through(z)'
  BY <1>1 DEF LInv
<1>2. Quiet'
  BY DEF Quiet, StopBegun, Stops
<1>3. ASSUME NEW z \in Starts PROVE Through(z)'
  <2>1. CASE defaults = FALSE
    <3>1. starts'[z].phase \notin {"hook", "answered"} \/ starts'[z].err
      BY <1>1, <2>1 DEF LInv, Refused
    <3> QED
      BY <3>1 DEF Through
  <2>2. CASE defaults = TRUE
    <3>1. Through(z) /\ (z # r => starts'[z] = starts[z])
      BY <1>1 DEF LInv
    <3> QED
      BY <1>1, <2>2, <3>1, SameChain DEF Through
  <2> QED BY <2>1, <2>2 DEF LInv
<1> QED
  BY <1>2, <1>3 DEF LInv

\* A start goes on when the default components are loaded.
LEMMA StartingLoaded == ASSUME LInv, NEW r \in Starts, Starting(r) PROVE defaults = TRUE
BY DEF LInv, Refused, Starting

LEMMA NothingStopped ==
    ASSUME LInv, NEW r \in Starts, state # "stoped" \/ Starting(r)
    PROVE  \A q \in Stops : ~early => ~StopBegun(q)
BY DEF LInv, Quiet

LEMMA NobodyDead ==
    ASSUME \A q \in Stops : ~StopBegun(q), NEW i
    PROVE  ~Dead(i)
BY DEF StopBegun, Dead

LEMMA StartSteps ==
    ASSUME LInv, NEW r \in Starts, process = "up",
           \/ Start(r) \/ BeforeCalls(r) \/ StartCalls(r)
           \/ AfterCalls(r) \/ HookCalls(r)
    PROVE  LInv'
<1>1. CASE Start(r)
  <2>1. CASE state # "inited"
    <3>1. Phase(r, "answered", 0, TRUE) /\ starts[r].phase = "none"
          /\ UNCHANGED <<server, hooks, state, stops, last, process, early>>
      BY <1>1, <2>1 DEF Start
    <3>5. UNCHANGED defaults
      BY <1>1, <2>1 DEF Start, LInv
    <3> DEFINE no == TRUE
    <3>2. /\ LifeTypes' /\ starts'[r] = [phase |-> "answered", pos |-> 0, err |-> no]
          /\ \A z \in Starts : z # r => starts'[z] = starts[z]
      <4>1. LifeTypes /\ UNCHANGED stops /\ Phase(r, "answered", 0, no)
        BY <3>1 DEF LInv
      <4> HIDE DEF no
      <4> QED
        BY <4>1, PhaseEffect
    <3>3. \A z \in Starts : /\ Through(z) => Through(z)'
                            /\ Starting(z)' => Starting(z)
                            /\ Refused(z) => Refused(z)'
      BY <3>1, <3>2, <3>5, SameChain DEF Through, Starting, Refused
    <3>4. Quiet => Quiet'
      BY <3>1, <3>3 DEF Quiet, StopBegun
    <3> QED
      BY <3>1, <3>2, <3>3, <3>4, <3>5 DEF LInv
  <2>2. CASE state = "inited"
    <3>1. /\ \/ Phase(r, "before", 0, FALSE)
             \/ \E i : Phase(r, "start", i, FALSE)
          /\ UNCHANGED <<server, hooks, state, stops, last, process, early>>
          /\ defaults' = TRUE
      BY <1>1, <2>2 DEF Start
    <3>2. \A q \in Stops : ~early => ~StopBegun(q)
      BY <2>2, NothingStopped
    <3> QED
      BY <3>1, <3>2, StartGoesOn
  <2> QED BY <2>1, <2>2
<1>2. CASE BeforeCalls(r)
  <2>1. /\ Starting(r) /\ Phase(r, "start", From(1, "start"), FALSE)
        /\ UNCHANGED <<server, defaults, stops, process, early>>
    BY <1>2 DEF BeforeCalls, Starting
  <2> QED
    BY <2>1, NothingStopped, StartingLoaded, StartGoesOn
<1>3. CASE StartCalls(r) \/ AfterCalls(r)
  <2>1. Starting(r) /\ UNCHANGED <<server, defaults, stops, early>>
    BY <1>3 DEF StartCalls, AfterCalls, Starting
  <2>2. \A q \in Stops : ~early => ~StopBegun(q)
    BY <2>1, NothingStopped
  <2>3. ~early => \A i : ~Dead(i)
    BY <2>2, NobodyDead
  <2>4. \E p, i, e : /\ Phase(r, p, i, e)
                     /\ (p \in {"hook", "answered"} /\ ~e) =>
                            From(i + 1, "afterStart") = N + 1
                     /\ ~early => process' = process
    <3>1. CASE StartCalls(r)
      <4> DEFINE i == starts[r].pos
                 next == From(i + 1, "start")
      <4>1. \/ Phase(r, "start", next, FALSE) /\ UNCHANGED process
            \/ AfterFrom(r, 1)
            \/ Phase(r, "answered", i, TRUE) /\ UNCHANGED process
        BY <3>1 DEF StartCalls
      <4> HIDE DEF i, next
      <4> QED
        BY <2>3, <4>1 DEF AfterFrom
    <3>2. CASE AfterCalls(r)
      <4> DEFINE i == starts[r].pos
                 next == From(i + 1, "afterStart")
      <4>1. \/ AfterFrom(r, i + 1)
            \/ \E err \in BOOLEAN, p \in {"hook", "answered"} :
                  /\ err \/ next = N + 1
                  /\ Phase(r, p, i, err) /\ UNCHANGED process
        BY <3>2 DEF AfterCalls
      <4> HIDE DEF i
      <4> QED
        BY <2>3, <4>1 DEF AfterFrom
    <3> QED BY <1>3, <3>1, <3>2
  <2> QED
    BY <2>1, <2>2, <2>4, StartingLoaded, StartGoesOn
<1>4. CASE HookCalls(r)
  <2>1. /\ starts[r].phase = "hook" /\ Phase(r, "answered", starts[r].pos, starts[r].err)
        /\ UNCHANGED <<server, hooks, defaults, state, stops, last, process, early>>
    BY <1>4 DEF HookCalls
  <2>2. /\ LifeTypes' /\ starts'[r] = [phase |-> "answered", pos |-> starts[r].pos,
                                       err |-> starts[r].err]
        /\ \A z \in Starts : z # r => starts'[z] = starts[z]
    BY <2>1, PhaseEffect DEF LInv
  <2>3. \A z \in Starts : /\ Through(z) => Through(z)'
                          /\ Starting(z)' => Starting(z)
                          /\ Refused(z) => Refused(z)'
    BY <2>1, <2>2, SameChain DEF Through, Starting, Refused
  <2>4. Quiet => Quiet'
    BY <2>1, <2>3 DEF Quiet, StopBegun
  <2> QED
    BY <2>1, <2>2, <2>3, <2>4 DEF LInv
<1> QED
  BY <1>1, <1>2, <1>3, <1>4

LEMMA ChainEffect ==
    ASSUME LifeTypes, NEW q \in Stops, NEW i, NEW force, NEW clock,
           ChainTo(q, i, force, clock), UNCHANGED starts
    PROVE  /\ LifeTypes'
           /\ \A p \in Stops : StopBegun(p)' <=> p = q \/ StopBegun(p)
           /\ process' \in {process, "exited"}
<1> DEFINE j == From(i, "stop")
<1>1. DOMAIN stops = Stops
  BY DEF LifeTypes
<1>2. CASE j <= N
  <2>1. /\ stops' = [stops EXCEPT ![q] = [phase |-> "chain", pos |-> j,
                                          force |-> force, timer |-> clock]]
        /\ process' \in {process, "exited"}
    BY <1>2 DEF ChainTo
  <2>2. /\ stops'[q] = [phase |-> "chain", pos |-> j, force |-> force, timer |-> clock]
        /\ \A p \in Stops : p # q => stops'[p] = stops[p]
    BY <1>1, <2>1
  <2>3. stops' = [p \in Stops |-> stops'[p]]
    BY <1>1, <2>1
  <2> HIDE DEF j
  <2>4. \A p \in Stops :
           stops'[p] = [phase |-> stops'[p].phase, pos |-> stops'[p].pos,
                        force |-> stops'[p].force, timer |-> stops'[p].timer]
    BY <2>2 DEF LifeTypes
  <2>5. \A p \in Stops : StopBegun(p)' <=> p = q \/ StopBegun(p)
    BY <2>2 DEF StopBegun
  <2> QED
    BY <2>1, <2>3, <2>4, <2>5 DEF LifeTypes
<1>3. CASE ~(j <= N)
  <2>1. PICK t : t = [p \in Stops |-> Cleared(p)]
    OBVIOUS
  <2>2. PICK c : c = j
    OBVIOUS
  <2>3. /\ stops' = [p \in Stops |->
                       [stops[p] EXCEPT !.timer = Cleared(p),
                                        !.phase = IF p = q THEN "done" ELSE @,
                                        !.pos = IF p = q THEN j ELSE @]]
        /\ process' \in {process, "exited"}
    BY <1>3 DEF ChainTo
  <2> HIDE DEF j
  <2>4. stops' = [p \in Stops |-> stops'[p]]
    BY <2>3
  <2>5. \A p \in Stops :
           stops'[p] = [stops[p] EXCEPT !.timer = t[p],
                                        !.phase = IF p = q THEN "done" ELSE stops[p].phase,
                                        !.pos = IF p = q THEN c ELSE stops[p].pos]
    BY <2>1, <2>2, <2>3
  <2>6. ASSUME NEW p \in Stops
        PROVE  /\ stops'[p] = [phase |-> stops'[p].phase, pos |-> stops'[p].pos,
                               force |-> stops'[p].force, timer |-> stops'[p].timer]
               /\ stops'[p].phase = IF p = q THEN "done" ELSE stops[p].phase
    <3>1. PICK ph, ps, f, u : stops[p] = [phase |-> ph, pos |-> ps, force |-> f, timer |-> u]
      BY DEF LifeTypes
    <3>2. CASE p = q
      BY <2>5, <3>1, <3>2
    <3>3. CASE p # q
      BY <2>5, <3>1, <3>3
    <3> QED BY <3>2, <3>3
  <2>7. \A p \in Stops : StopBegun(p)' <=> p = q \/ StopBegun(p)
    BY <2>6 DEF StopBegun
  <2> QED
    BY <2>3, <2>4, <2>6, <2>7 DEF LifeTypes
<1> QED BY <1>2, <1>3

LEMMA StopSteps ==
    ASSUME LInv, NEW q \in Stops, process = "up",
           \/ \E force \in BOOLEAN : Stop(q, force)
           \/ HookCancels(q) \/ HookShutsDown(q) \/ StopCalls(q)
           \/ TimerFires(q)
    PROVE  LInv'
<1>1. ASSUME NEW force \in BOOLEAN, Stop(q, force) PROVE LInv'
  <2>1. /\ ~StopBegun(q) /\ state # "stoped" /\ state' = "stoped"
        /\ early' = (early \/ \E r \in Starts : Starting(r))
        /\ UNCHANGED <<server, defaults>> /\ UNCHANGED starts
    BY <1>1 DEF Stop, StopBegun
  <2>2. /\ LifeTypes' /\ (\A p \in Stops : StopBegun(p)' <=> p = q \/ StopBegun(p))
        /\ process' \in {process, "exited"}
    <3>1. CASE "beforeShutdown" \in hooks
      <4>1. /\ stops' = [stops EXCEPT ![q] = [phase |-> "hook", pos |-> 0,
                                              force |-> force, timer |-> "set"]]
            /\ UNCHANGED process
        BY <1>1, <3>1 DEF Stop
      <4>2. DOMAIN stops = Stops
        BY DEF LInv, LifeTypes
      <4>3. /\ stops'[q] = [phase |-> "hook", pos |-> 0, force |-> force, timer |-> "set"]
            /\ \A p \in Stops : p # q => stops'[p] = stops[p]
        BY <4>1, <4>2
      <4>4. stops' = [p \in Stops |-> stops'[p]]
        BY <4>1, <4>2
      <4>5. \A p \in Stops :
               stops'[p] = [phase |-> stops'[p].phase, pos |-> stops'[p].pos,
                            force |-> stops'[p].force, timer |-> stops'[p].timer]
        BY <4>3 DEF LInv, LifeTypes
      <4>6. \A p \in Stops : StopBegun(p)' <=> p = q \/ StopBegun(p)
        BY <4>3 DEF StopBegun
      <4> QED
        BY <2>1, <4>1, <4>4, <4>5, <4>6 DEF LInv, LifeTypes
    <3>2. CASE "beforeShutdown" \notin hooks
      <4>1. ChainTo(q, 1, force, "set") /\ LifeTypes
        BY <1>1, <3>2 DEF Stop, LInv
      <4> QED
        BY <2>1, <4>1, ChainEffect
    <3> QED BY <3>1, <3>2
  <2> SUFFICES ASSUME ~early'
               PROVE  Quiet' /\ process' # "crashed" /\ \A r \in Starts : Through(r)'
    BY <2>1, <2>2 DEF LInv, Refused
  <2>3. ~early /\ \A r \in Starts : ~Starting(r)
    BY <2>1
  <2>4. \A p \in Stops : ~StopBegun(p)
    BY <2>1, <2>3 DEF LInv, Quiet
  <2>5. Quiet'
    BY <2>1, <2>2, <2>3, <2>4 DEF Quiet, Starting
  <2>6. \A r \in Starts : Through(r)'
    BY <2>1, <2>3, SameChain DEF LInv, Through
  <2> QED
    BY <2>2, <2>3, <2>5, <2>6 DEF LInv
\* The others are steps of a stop that has begun.
<1>2. ASSUME LifeTypes', \A p \in Stops : StopBegun(p)' => StopBegun(p),
             process' \in {process, "exited"}, UNCHANGED <<server, defaults, state, starts, early>>
      PROVE  LInv'
  <2>1. Quiet => Quiet'
    BY <1>2 DEF Quiet, Starting
  <2>2. \A r \in Starts : Through(r) => Through(r)'
    BY <1>2, SameChain DEF Through
  <2> QED
    BY <1>2, <2>1, <2>2 DEF LInv, Refused
<1>3. CASE HookCancels(q)
  <2>1. /\ stops' = [p \in Stops |-> [stops[p] EXCEPT !.timer = Cleared(p)]]
        /\ UNCHANGED <<server, defaults, state, starts, process, early>>
    BY <1>3 DEF HookCancels
  <2>2. ASSUME NEW p \in Stops
        PROVE  /\ stops'[p] = [phase |-> stops'[p].phase, pos |-> stops'[p].pos,
                               force |-> stops'[p].force, timer |-> stops'[p].timer]
               /\ stops'[p].phase = stops[p].phase
    <3>1. PICK ph, ps, f, u : stops[p] = [phase |-> ph, pos |-> ps, force |-> f, timer |-> u]
      BY DEF LInv, LifeTypes
    <3>2. PICK t : t = Cleared(p)
      OBVIOUS
    <3>3. stops'[p] = [stops[p] EXCEPT !.timer = t]
      BY <2>1, <3>2
    <3> QED
      BY <3>1, <3>3
  <2>3. stops' = [p \in Stops |-> stops'[p]]
    BY <2>1
  <2>4. LifeTypes'
    BY <2>1, <2>2, <2>3 DEF LInv, LifeTypes
  <2>5. \A p \in Stops : StopBegun(p)' => StopBegun(p)
    BY <2>2 DEF StopBegun
  <2> QED
    BY <1>2, <2>1, <2>4, <2>5
<1>4. CASE HookShutsDown(q) \/ StopCalls(q)
  <2>1. /\ StopBegun(q) /\ LifeTypes
        /\ \E i, force, clock : ChainTo(q, i, force, clock)
        /\ UNCHANGED <<server, defaults>> /\ UNCHANGED state /\ UNCHANGED starts /\ UNCHANGED early
    BY <1>4 DEF HookShutsDown, StopCalls, StopBegun, LInv
  <2>2. /\ LifeTypes' /\ (\A p \in Stops : StopBegun(p)' <=> p = q \/ StopBegun(p))
        /\ process' \in {process, "exited"}
    BY <2>1, ChainEffect
  <2> QED
    BY <1>2, <2>1, <2>2
<1>5. CASE TimerFires(q)
  <2>1. UNCHANGED <<server, defaults, state, starts, stops, early>> /\ process' = "exited"
    BY <1>5 DEF TimerFires
  <2>2. LifeTypes' /\ \A p \in Stops : StopBegun(p)' => StopBegun(p)
    BY <2>1 DEF LInv, LifeTypes, StopBegun
  <2> QED
    BY <1>2, <2>1, <2>2
<1> QED
  BY <1>1, <1>3, <1>4, <1>5

LEMMA LifeInvariant == LifeSpec => []LInv
<1>1. LifeInit => LInv
  <2> SUFFICES ASSUME LifeInit PROVE LInv
    OBVIOUS
  <2>1. /\ starts = [r \in Starts |-> [phase |-> "none", pos |-> 0, err |-> FALSE]]
        /\ stops = [q \in Stops |-> [phase |-> "none", pos |-> 0, force |-> FALSE,
                                          timer |-> "none"]]
        /\ process = "up" /\ defaults = FALSE
    BY DEF LifeInit
  <2>2. LifeTypes
    BY <2>1 DEF LifeTypes
  <2> QED
    BY <2>1, <2>2 DEF LInv, Quiet, StopBegun, Through, Refused
<1>2. LInv /\ [LifeNext]_lifeVars => LInv'
  <2> SUFFICES ASSUME LInv, [LifeNext]_lifeVars PROVE LInv'
    OBVIOUS
  <2>1. CASE UNCHANGED lifeVars
    <3>1. UNCHANGED <<server, defaults, state, starts, stops, process, early>>
      BY <2>1 DEF lifeVars
    <3>2. \A r \in Starts : Through(r) => Through(r)'
      BY <3>1, SameChain DEF Through
    <3>3. LifeTypes' /\ (Quiet => Quiet')
      BY <3>1 DEF LInv, LifeTypes, Quiet, StopBegun, Starting
    <3> QED
      BY <3>1, <3>2, <3>3 DEF LInv, Refused
  <2>2. CASE LifeNext
    BY <2>2, StartSteps, StopSteps DEF LifeNext
  <2> QED BY <2>1, <2>2
<1> QED BY <1>1, <1>2, PTL DEF LifeSpec

\* An application that is not stopped in the middle of a start comes up whole,
\* does not crash, and is stopped once at most, for any number of calls of start
\* and stop, schedulers, connectors and callbacks.
THEOREM StartsAndStopsCorrect == LifeSpec => []StartsAndStopsCleanly
<1>1. LInv => StartsAndStopsCleanly
  <2> SUFFICES ASSUME LInv, ~early
               PROVE  /\ WholeStart /\ process # "crashed"
                      /\ \A p, q \in Stops :
                            (stops[p].phase # "none" /\ stops[q].phase # "none") => p = q
    BY DEF StartsAndStopsCleanly
  <2> QED
    BY DEF LInv, WholeStart, Through, Quiet, StopBegun
<1> QED BY <1>1, LifeInvariant, PTL
=============================================================================
