---------------------------- MODULE AppLifecycle ----------------------------
(***************************************************************************)
(* lib/application.js start, afterStart and stop, with the component       *)
(* chains of lib/util/appUtil.js and the life-cycle methods of the         *)
(* components: how a server process comes up and goes down.                *)
(*                                                                         *)
(* start calls the `start` of every component in the order of loading,     *)
(* each after the callback of the one before, then `afterStart` likewise;  *)
(* stop calls every `stop` in the same order and gives up after three      *)
(* seconds.  An application may be started more than once and stopped at   *)
(* any moment: the chains of these calls then run side by side.            *)
(***************************************************************************)
EXTENDS Naturals, Sequences

CONSTANTS MaxStarts,       \* bound: calls of app.start
          MaxStops,        \* bound: calls of app.stop
          Schedulers,      \* "buffer", "direct" or "selectable": pushSchedulers tried
          Connectors,      \* "mqtt" or "other": connectors tried
          HookSets         \* life-cycle callbacks an application may set

ASSUME LifecycleAssumption ==
    /\ MaxStarts \in Nat /\ MaxStops \in Nat
    /\ Schedulers \subseteq {"buffer", "direct", "selectable"}
    /\ Connectors \subseteq {"mqtt", "other"}
    /\ HookSets \subseteq SUBSET {"beforeStartup", "afterStartup", "beforeShutdown"}

VARIABLES server,          \* what is configured: [type, scheduler, connector]
          hooks,           \* life-cycle callbacks of the application, by name
          defaults,        \* whether a start has loaded the default components
          state,           \* app.state
          starts,          \* starts[r]: [phase, pos, err] of a call of start
          stops,           \* stops[q]: [phase, pos, force, timer] of one of stop
          last,            \* {q}: the stop whose timer this.stopTimer holds; {}: none
          process,         \* "up", "exited", or "crashed" by an exception
          early            \* history: stop was called while a start was under way

lifeVars == <<server, hooks, defaults, state, starts, stops, last, process, early>>

-----------------------------------------------------------------------------
(* The components.  stop: "none" if there is no such method, else whether it *)
(* calls back, never does, or ends the process; fallible: start can fail.    *)

Comp(name, start, after, stop, fallible) ==
    [name |-> name, start |-> start, after |-> after, stop |-> stop,
     fallible |-> fallible]

Proxy     == Comp("proxy", TRUE, TRUE, "none", FALSE)
Remote    == Comp("remote", TRUE, FALSE, "calls", FALSE)
Channel   == Comp("channel", TRUE, FALSE, "none", TRUE)
Server    == Comp("server", TRUE, TRUE, "calls", FALSE)
Monitor   == Comp("monitor", TRUE, FALSE, "calls", TRUE)
Master    == Comp("master", TRUE, FALSE, "calls", TRUE)

\* mqttconnector's stop ends the process; the others close and call back.
Connector(c) == Comp("connector", TRUE, TRUE,
                     IF c = "mqtt" THEN "exits" ELSE "calls", FALSE)

\* PushScheduler.stop: buffer.stop takes its callback for `force`, so nobody
\* calls it; direct has no stop, and a selector calls back by itself.
PushScheduler(s) == Comp("pushScheduler", FALSE, TRUE,
                         IF s = "buffer" THEN "never" ELSE "calls", FALSE)

\* A component of the application: it may fail or be slow like any other.
Plugin == Comp("plugin", TRUE, TRUE, "calls", TRUE)

Configs == [type : {"frontend"}, scheduler : Schedulers, connector : Connectors]
           \cup [type : {"master", "backend"}, scheduler : {"none"}, connector : {"none"}]

\* loadDefaultComponents, without those that have no life-cycle method.
DefaultComponents(c) ==
    (CASE c.type = "master"   -> <<Master>>
       [] c.type = "frontend" -> <<Proxy, Remote, Connector(c.connector),
                                   PushScheduler(c.scheduler), Channel, Server>>
       [] c.type = "backend"  -> <<Proxy, Remote, Channel, Server>>) \o <<Monitor>>

Components == [c \in Configs |-> [d \in BOOLEAN |->
                  <<Plugin>> \o (IF d THEN DefaultComponents(c) ELSE <<>>)]]

\* app.loaded: before any start, what the application has loaded itself.
loaded == Components[server][defaults]
N      == Len(loaded)

Methods == {"start", "afterStart", "stop"}
Has(comp, method) == CASE method = "start"      -> comp.start
                       [] method = "afterStart" -> comp.after
                       [] method = "stop"       -> comp.stop # "none"

\* Where a chain goes from place i: the first component from there on that has
\* the method, one past the last if there is none.
Chain == [c \in Configs |-> [d \in BOOLEAN |-> LET comps == Components[c][d]  n == Len(comps) IN
            [m \in Methods |-> [i \in 1..n + 2 |->
                CHOOSE j \in 1..n + 1 : /\ j >= i \/ j = n + 1
                                        /\ j = n + 1 \/ Has(comps[j], m)
                                        /\ \A k \in i..j - 1 : ~Has(comps[k], m)]]]]
From(i, method) == Chain[server][defaults][method][i]

Starts == 1..MaxStarts
Stops  == 1..MaxStops

LifeInit == /\ server \in Configs
            /\ hooks \in HookSets
            /\ state = "inited" /\ defaults = FALSE
            /\ starts = [r \in Starts |-> [phase |-> "none", pos |-> 0, err |-> FALSE]]
            /\ stops = [q \in Stops |-> [phase |-> "none", pos |-> 0, force |-> FALSE, timer |-> "none"]]
            /\ last = {} /\ process = "up" /\ early = FALSE

-----------------------------------------------------------------------------
(* start and afterStart *)

Phase(r, p, i, e) == starts' = [starts EXCEPT ![r] = [phase |-> p, pos |-> i, err |-> e]]

Starting(r) == starts[r].phase \in {"before", "start", "after"}

\* Application.start: refused only once a start has got as far as STATE_START.
Start(r) ==
    /\ starts[r].phase = "none" /\ \A p \in 1..r - 1 : starts[p].phase # "none"
    /\ UNCHANGED <<server, hooks, state, stops, last, process, early>>
    /\ defaults' = (defaults \/ state = "inited")
    /\ IF state # "inited" THEN Phase(r, "answered", 0, TRUE)
       ELSE IF "beforeStartup" \in hooks THEN Phase(r, "before", 0, FALSE)
       ELSE Phase(r, "start", From(1, "start")', FALSE)

\* The BEFORE_STARTUP callback calls startUp.
BeforeCalls(r) == /\ starts[r].phase = "before"
                  /\ Phase(r, "start", From(1, "start"), FALSE)
                  /\ UNCHANGED <<server, hooks, defaults, state, stops, last, process, early>>

\* The component at i of r's chain: a connector that was stopped has no
\* socket server left, and its afterStart throws.
Dead(i) == /\ i <= N /\ loaded[i].name = "connector"
           /\ \E q \in Stops : stops[q].phase \in {"chain", "done"} /\ stops[q].pos >= i

AfterFrom(r, i) == LET j == From(i, "afterStart") IN
                   /\ Phase(r, "after", j, FALSE)
                   /\ process' = IF Dead(j) THEN "crashed" ELSE process

\* The callback of a component's start: the next one's start, or, after the
\* last, the state and the afterStart of the first.  afterStart asks for
\* STATE_START, which has been set just before.
StartCalls(r) ==
    /\ starts[r].phase = "start"
    /\ LET i == starts[r].pos  next == From(i + 1, "start") IN
       \/ /\ next <= N
          /\ Phase(r, "start", next, FALSE)
          /\ UNCHANGED <<state, process>>
       \/ /\ next = N + 1
          /\ state' = "start"
          /\ AfterFrom(r, 1)
       \/ /\ loaded[i].fallible
          /\ state' = "start"
          /\ Phase(r, "answered", i, TRUE)
          /\ UNCHANGED process
    /\ UNCHANGED <<server, hooks, defaults, stops, last, early>>

\* The callback of a component's afterStart; the first error ends the chain,
\* which sets the state and emits START_SERVER either way.
AfterCalls(r) ==
    /\ starts[r].phase = "after"
    /\ LET i == starts[r].pos  next == From(i + 1, "afterStart") IN
       \/ /\ next <= N
          /\ AfterFrom(r, i + 1)
          /\ UNCHANGED state
       \/ \E err \in BOOLEAN :
          /\ IF err THEN loaded[i].fallible ELSE next = N + 1
          /\ state' = "started"
          /\ Phase(r, IF "afterStartup" \in hooks THEN "hook" ELSE "answered", i, err)
          /\ UNCHANGED process
    /\ UNCHANGED <<server, hooks, defaults, stops, last, early>>

\* The AFTER_STARTUP callback calls back: start's cb, at last.
HookCalls(r) == /\ starts[r].phase = "hook"
                /\ Phase(r, "answered", starts[r].pos, starts[r].err)
                /\ UNCHANGED <<server, hooks, defaults, state, stops, last, process, early>>

-----------------------------------------------------------------------------
(* stop *)

Cleared(q) == IF q \in last THEN "cleared" ELSE stops[q].timer

\* stopComps goes to the component at i.
ChainTo(q, i, force, timer) ==
    LET j == From(i, "stop") IN
    IF j <= N
    THEN /\ stops' = [stops EXCEPT ![q] = [phase |-> "chain", pos |-> j,
                                           force |-> force, timer |-> timer]]
         /\ process' = IF loaded[j].stop = "exits" THEN "exited" ELSE process
    ELSE \* all stopped: cancelShutDownTimer, and exit if forced
         /\ stops' = [p \in Stops |->
                        [stops[p] EXCEPT !.timer = Cleared(p),
                                         !.phase = IF p = q THEN "done" ELSE @,
                                         !.pos = IF p = q THEN j ELSE @]]
         /\ process' = IF force THEN "exited" ELSE process

\* A slip: stop does not ask whether the application is stopping already.
StopAgain(q, force) ==
    /\ stops[q].phase = "none" /\ \A p \in 1..q - 1 : stops[p].phase # "none"
    /\ state' = "stoped"
    /\ last' = {q}
    /\ early' = (early \/ \E r \in Starts : Starting(r))
    /\ IF "beforeShutdown" \in hooks
       THEN /\ stops' = [stops EXCEPT ![q] = [phase |-> "hook", pos |-> 0,
                                              force |-> force, timer |-> "set"]]
            /\ UNCHANGED process
       ELSE ChainTo(q, 1, force, "set")
    /\ UNCHANGED <<server, hooks, defaults, starts>>

\* Application.stop, which an application that never started may call too: its
\* chain then goes over the components loaded so far.
Stop(q, force) ==
    /\ stops[q].phase = "none" /\ \A p \in 1..q - 1 : stops[p].phase # "none"
    /\ state # "stoped"
    /\ state' = "stoped"
    /\ last' = {q}
    /\ early' = (early \/ \E r \in Starts : Starting(r))
    /\ IF "beforeShutdown" \in hooks
       THEN /\ stops' = [stops EXCEPT ![q] = [phase |-> "hook", pos |-> 0,
                                              force |-> force, timer |-> "set"]]
            /\ UNCHANGED process
       ELSE ChainTo(q, 1, force, "set")
    /\ UNCHANGED <<server, hooks, defaults, starts>>

\* The BEFORE_SHUTDOWN callback may cancel the timer and then shut down.
HookCancels(q) ==
    /\ stops[q].phase = "hook" /\ \E p \in last : stops[p].timer = "set"
    /\ stops' = [p \in Stops |-> [stops[p] EXCEPT !.timer = Cleared(p)]]
    /\ UNCHANGED <<server, hooks, defaults, state, starts, last, process, early>>

HookShutsDown(q) ==
    /\ stops[q].phase = "hook"
    /\ ChainTo(q, 1, stops[q].force, stops[q].timer)
    /\ UNCHANGED <<server, hooks, defaults, state, starts, last, early>>

\* A slip: the timer is cancelled when the shut down begins, not when it ends.
ChainCancelsEarly(q) ==
    /\ stops[q].phase = "chain" /\ loaded[stops[q].pos].stop = "calls"
    /\ ChainTo(q, stops[q].pos + 1, stops[q].force, "cleared")
    /\ UNCHANGED <<server, hooks, defaults, state, starts, last, early>>

\* The callback of a component's stop; errors are ignored.
StopCalls(q) ==
    /\ stops[q].phase = "chain" /\ loaded[stops[q].pos].stop = "calls"
    /\ ChainTo(q, stops[q].pos + 1, stops[q].force, stops[q].timer)
    /\ UNCHANGED <<server, hooks, defaults, state, starts, last, early>>

\* Three seconds are over.
TimerFires(q) ==
    /\ stops[q].timer = "set"
    /\ process' = "exited"
    /\ UNCHANGED <<server, hooks, defaults, state, starts, stops, last, early>>

LifeNext == /\ process = "up"
            /\ \/ \E r \in Starts : \/ Start(r) \/ BeforeCalls(r) \/ StartCalls(r)
                                    \/ AfterCalls(r) \/ HookCalls(r)
               \/ \E q \in Stops : \/ \E force \in BOOLEAN : Stop(q, force)
                                   \/ HookCancels(q) \/ HookShutsDown(q)
                                   \/ StopCalls(q) \/ TimerFires(q)

\* What the variables hold; a call of stop that has not begun has no timer.
LifeTypeOK == /\ server \in Configs /\ hooks \in HookSets
              /\ state \in {"inited", "start", "started", "stoped"}
              /\ starts \in [Starts -> [phase : {"none", "before", "start", "after", "hook", "answered"},
                                        pos : 0..N + 1, err : BOOLEAN]]
              /\ stops \in [Stops -> [phase : {"none", "hook", "chain", "done"}, pos : 0..N + 1,
                                      force : BOOLEAN, timer : {"none", "set", "cleared"}]]
              /\ \A q \in Stops : stops[q].phase = "none" => stops[q].timer = "none"
              /\ last \subseteq Stops /\ process \in {"up", "exited", "crashed"}
              /\ early \in BOOLEAN /\ defaults \in BOOLEAN

LifeSpec == LifeInit /\ [][LifeNext]_lifeVars

\* Timers fire.  Nothing is assumed of the callbacks of components: buffer's is
\* never called.
FairLifeSpec == LifeSpec /\ WF_lifeVars(process = "up" /\ \E q \in Stops : TimerFires(q))

-----------------------------------------------------------------------------
(* Properties *)

\* A start that is answered without an error has gone through the chain to its
\* end: no component has failed or was left out.
WholeStart == \A r \in Starts :
    (starts[r].phase \in {"hook", "answered"} /\ ~starts[r].err) =>
        From(starts[r].pos + 1, "afterStart") = N + 1

\* An application that is not stopped in the middle of a start comes up whole
\* and goes down cleanly: it does not crash, and no second stop runs through
\* its components.
StartsAndStopsCleanly == ~early =>
    /\ WholeStart
    /\ process # "crashed"
    /\ \A p, q \in Stops : (stops[p].phase # "none" /\ stops[q].phase # "none") => p = q

\* stop(true) ends the process, even though the stop of the buffered scheduler
\* never calls back and whatever starts and stops run beside it, unless the
\* application's own BEFORE_SHUTDOWN callback holds it up.
ForcedStopExits ==
    ("beforeShutdown" \notin hooks /\ \E q \in Stops : stops[q].force) ~> (process # "up")
=============================================================================
