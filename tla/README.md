# omelo in TLA+

omelo is a framework for game servers on Node.js: *frontend* servers hold the
connections of clients, *backend* servers handle requests, a *master* watches
both. This directory holds TLA+ specifications of its core, the TLC
configurations that check them and TLAPS proofs about sessions and their copies,
connections, sockets and their framing, requests, channels and pushes to them,
schedulers, the cluster, the master and the life of a process.
All paths below are relative to `src/`; `lib/` is the framework.

## 1. Inventory

| Component | State | Operations | Interacts with | Hard about it | What makes it correct |
|---|---|---|---|---|---|
| Session service (`lib/common/service/sessionService.js`) | `sessions` by id, `uidMap` by user, and per session `uid`, `__state__`, settings | create, bind, unbind, closed, kick, kickBySessionId, send, settings | connector (events), RPC from backends, schedulers | two indexes of the same facts; the socket is disconnected a tick later; user ids that are falsy | the index is exact; one session per user when asked; kick finds its sessions; it implements a registry of users |
| Connection statistics (`connectionService.js`) | `connCount`, `loginedCount`, `logined` | increase, decrease, add and remove user | connector, console | counted from five places | counts cover connections; the list has no ghosts |
| Connector component (`lib/components/connector.js`) | listeners on sockets with their `closed` flags, blacklist | hostFilter, bindEvents, send, message handling | all of the above, server component | error, disconnect, kick and timeout end a connection in any order; an asynchronous filter | each connection is counted in and out once, never over max-connections |
| Sockets and connectors (`lib/connectors/*`) | socket state, heartbeat timers, framing buffers | handshake, ack, heartbeat, data, disconnect | connector | some emit `disconnect` inside `disconnect()`, some later | nothing is sent before the handshake or after the close |
| Push schedulers (`lib/pushSchedulers/*`, `lib/components/pushScheduler.js`) | queue per session, timer | schedule, flush, close listener, start, stop | session service | queues filled, flushed and dropped concurrently with session life | once, in order, to the right receivers, and in the end |
| Channel service (`lib/common/service/channelService.js`) | channels by name, groups, records, amounts, external store | create, get, destroy, add, leave, pushMessage, broadcast, restore | RPC to `channelRemote` at frontends | three counts of the same members; stale objects; RPC failures; restart | amount, records, groups and store agree; one true answer per push |
| Count down latch (`lib/util/countDownLatch.js`) | count, timer | create, done, timeout | channel service, console | timeout racing the last answer | calls back exactly once |
| Backend sessions (`backendSessionService.js`, `sessionRemote.js`, `msgRemote.js`) | copies of sessions and settings | get, bind, unbind, push, pushAll, kick | RPC to the frontend | calls under way while the session changes, closes or its frontend restarts; ids used again | a copy nobody has overtaken agrees with its session; what is not pushed stays local; a closed session is not written |
| Request handling (`lib/server/server.js`, filter and handler services, `lib/filters`, `taskManager.js`) | filter chains, serial queues, timers | globalHandle, handle, forward, before and after filters | connector, RPC | a task that timed out answers late | one response per request, in the order of the session |
| RPC proxy and remote (`lib/components/proxy.js`, `remote.js`) | client stations | rpcInvoke, add/remove/replace servers | cluster events | external library | its stations are the servers of the application |
| Cluster membership (`lib/master/watchdog.js`, `lib/modules/masterwatcher.js`, `monitorwatcher.js`, server maps of `lib/application.js`) | the master's servers and listeners; each server's maps | register, subscribe, record, add, remove, replace, reconnect | admin console (external) | lost and reordered notifications, restarts | every server's map converges to the master's; startOver once, when all are up |
| Master and starter (`lib/master/*.js`) | timers of restarts | start, restart after a crash, kill | processes | ping and port checks with retries; STOP_SERVERS, the only link to the commands | a crashed server comes back; a stopped one stays down |
| Application life cycle (`lib/application.js`, `lib/util/appUtil.js`) | state, loaded components | load, start, afterStart, stop | every component | callbacks that never come, a 3 s deadline, stop while starting | it comes up whole and goes down once; a forced stop ends the process |
| Transactions (`lib/common/manager/appManager.js`) | conditions, handlers, retries | transaction | application code | retries | handlers run in order, retried as often as asked |
| Console module (`lib/modules/console.js`) | commands under way | kill, stop, restart, list, add | admin agents | latches over many agents, servers that restart meanwhile | every command is answered, once and completely |
| Filters of RPC, dictionary, protobuf, coder, MQTT codec, path and module utilities, `bin/omelo`, `template/` | tables read at start, file and process I/O | - | - | - | not modelled: pure conversion or I/O |

Everything runs in Node's event loop: a callback runs to its end, the queue of
`process.nextTick` is emptied before the next I/O event or timer, and only
between callbacks can anything else happen. A TLA+ step is therefore a whole
callback or call, and what a call leaves to the next tick, to a timer, to a
store or to another process is a step of its own.

## 2. Modules

| Module | What it models |
|---|---|
| `UserRegistry` | abstract: which sessions are on line and whose they are |
| `SessionService` | `sessionService.js`: create, bind, unbind, closed, kick, with the index by user |
| `SessionService_proofs` | its type and safety theorems, and that it implements `UserRegistry` |
| `ConnectionService` | `connectionService.js`: the operations of the statistics |
| `Connector` | `connector.js` and the sockets, composed of the two services |
| `Connector_proofs` | its theorems, on top of those of `SessionService` |
| `TcpFraming` | `tcpsocket.js`: packages cut out of a stream of bytes; operations |
| `HybridSocket` | `hybridsocket.js`, `handler.js`, handshake, heartbeat and kick, composed with `TcpFraming` |
| `HybridSocket_proofs` | its theorems |
| `PushScheduler` | `pushScheduler.js` with `direct.js` and `buffer.js` |
| `CountDownLatch` | `countDownLatch.js`: operations, for those who wait with a latch |
| `ChannelNames` | the users and the servers `Channel` and `ChannelPush` speak of |
| `Channel` | channel objects, their members and the store |
| `ChannelPush` | pushes and broadcasts over RPC, with a `CountDownLatch` for each |
| `Delivery_proofs` | of `ChannelPush`: a caller is answered once, after all, and truthfully; of `Channel`: records, groups and store speak of its members; of `PushScheduler`: clients get their messages once and in order |
| `Cluster` | `watchdog.js`, `masterwatcher.js`, `monitorwatcher.js` and the server maps of `application.js` |
| `Cluster_proofs` | that listeners miss nothing and startOver comes once |
| `BackendSession` | copies of sessions: `backendSessionService.js`, `sessionRemote.js`, `FrontendSession` and the settings of `sessionService.js`, on top of `SessionService` |
| `BackendSession_proofs` | its theorems, on top of those of `SessionService` |
| `AppLifecycle` | start, afterStart and stop of `application.js`, the chains of `appUtil.js`, the life-cycle methods of the components |
| `Master` | `master.js`, `starter.js` and the commands of `console.js`, with a `CountDownLatch` for each |
| `Processes_proofs` | of `Master`: a stopped server stays down, commands are answered once and completely, and a latch calls back no oftener than it should; of `AppLifecycle`: an application starts and stops cleanly |
| `Request` | `server.js`, filter and handler services, the filters timeout and serial, `taskManager.js`, `msgRemote.js` |
| `Request_proofs` | its safety theorems |
| `MC...` | the same, with the sets TLC needs |

**SessionService.** `sessions` and `state[s]` are the table and each object's
`__state__`; `uid[s]` stays on the object after it is closed, because listeners
of its socket still read it; `uidMap[u]` is a set, since neither bind nor kick
uses the order of the array; `ticks` are the `socket.disconnect()` calls that
`closed` left to the next tick. `FalsyUids` are the user ids JavaScript takes
for false. `Closed`, `KickBySessionId` and `Kick` share `Close`, the whole of
`Session.closed` with `SessionService.remove`. `Kick` of a user with a stale
entry throws in the middle of its loop: some of the sessions are closed.
Operations of `UserRegistry` are matched one to one; `DisconnectTick` is a
stutter.

**Connector.** One id for each socket ever accepted. `sock` is the state of the
socket object and `wire` says whether its transport has closed; they differ
between `disconnect()` and the event for a socket that is not in `SyncSids`
(MQTT emits the event later, the others within `disconnect()`), and after the
client left. `filtering` holds sockets waiting for `blacklistFun`, `listening`
those with the listeners of `bindEvents`, `released` those whose `closed` flag
is set. `SocketEvent` is the whole reaction to `disconnect` or `error` in the
order of the listeners: session first, count second. I/O events need an empty
tick queue (`Macrotask`); calls of the application do not, since it runs inside
callbacks of every kind, other ticks included. A rejected or filtered socket
that reports an error has no listener and would throw; that is not modelled.

**HybridSocket** with **TcpFraming.** One client; sockets share only tables with
an entry for each. A turn of the loop of `ondata` is a step, because a complete
package is handled before the next bytes are read and may close the socket under
the loop; ticks and I/O events wait until the chunk is parsed (`Macrotask`).
`wire` holds the bytes the client sent and that have not arrived; the histories
`unhandled` and `ends` are the packages sent and not handled yet, and where each
of them ends, in bytes from those the parser has not consumed. A package of a
known type is `WellFormed`: at least a head, whose size is that of its body. `asked` counts handshakes the application has
not answered, `ticks` is the queue of `process.nextTick`. `disconnect` is the
whole of the method with the listeners of 'close' and 'disconnect', those of
the heartbeat command and the session's among them. `told` is a history of the
kinds of packages written while the connection could carry them. With
`closeMethod` "end" bytes still come after a close, with "destroy" they do not;
the run takes "end", which allows more. `Heartbeat` says that the option of the same
name is set: without it `heartbeat` neither answers nor sets a timer, and nothing
drops a silent client. The run has it set. Heads have `HeadSize` bytes, 4 in the
code and 2 in the run. Clients that end a connection have sent whole packages;
those that break off come to `Error`. Websocket frames are cut by a library.

**PushScheduler.** Messages are numbered as they are scheduled. `queue` is the
table of the buffer scheduler, `running` its timer, `sent[s]` what was written
to the socket of `s`; sockets drop what is sent before the handshake is over
(`working`). Which scheduler takes a message is free when both are loaded, as
the selector is application code. `accepted[m]` is a history of whom `m` was
meant for, `buffered` of what the buffer took.

**Channel.** Objects made under one name; other names share nothing with them.
A group is a bag `entries[o][f]` because its order is never used; `keys[o]` are
the keys of `groups`, `records` and `amount` are as in the code, `stored` and
`listed` are what the external store holds. Store calls take effect in the order
they are made. `Restart` forgets all objects and asks the store; `Loaded` is the
callback that throws at the first pair it should put back. The process ends of it
(`up`) or, if it handles uncaught exceptions as `template/app.js` does, goes on
with an empty channel and a full store; both happen in the run. `unrestored`, a
history, is what the last restart did not put back and nobody has removed since;
`careful` is one of the application: it has added nobody twice and used no object
that lost the name.

**ChannelPush.** `Dispatch` is `sendMessageByGroup` and the loop of `broadcast`;
`Handle` is `channelRemote` at a frontend, with the users that have a session
there at that moment; `RequestLost` and `ReplyLost` are the two ways an RPC can
fail, before and after it is served; `Answer` is `rpcCB`. `Here` is the server
itself if it is a frontend: called directly, answered later. `Serve` is what a
frontend does with a message: it schedules it, or refuses it because there is
none, because an asynchronous encoder failed, or because an encoder returned
nothing, as the framework's own does without a route or a body. In the last case
`connector.doSend` calls back with the error and then again when the scheduler is
done; an RPC is answered once, so only `Here` has the second callback (`again`).
The latch counts it as another server's, or is down already and throws
(`CountDown`). `asked`, `broken` and `twice` are histories: the servers a message
went to, those whose RPC failed, and the messages `Here` calls back for twice.
A `Here` that refuses an empty message calls back before the loop of the RPCs is
over; the model has that callback later, which makes no difference to the latch.

**Cluster.** `servers`, `listeners`, `count` and `isStarted` are the fields of
the watchdog; `view[s]` is `app.servers` at `s`. `pending[s]` is what the master
has sent to `s` over the connection of the admin console, which is external:
messages arrive in order, those under way are lost when the connection breaks,
and the master hears of the end of a connection before a new one of the same
server comes. `link[s]` is "broken" in between. `phase[s]` follows a server's
start: its monitor registers, subscribes, waits for the list, then the
application starts and `finishStart` is recorded. The master runs a monitor too
and records itself, which is why `record` waits for one more than the servers
of the configuration; its own record has no `serverType`, so that `onServerAdd`
drops it and the master is in nobody's list. Faults are crashes, the master's included, and broken
connections.

**Request.** `front[r]` is where the request is at its frontend, `work[r]` where
it is at the server that handles it, `at[r]`; after a failed RPC the two go on
without each other. `waiting` and `current` are the queues of `taskManager` by
server and session, `late` the tasks whose queue stopped waiting, `timers` the
table of the timeout filter. Filters, handlers and error handlers may call back
with or without an error, and handlers of `Silent` never do. A handler that
throws ends the process and is not modelled. `Response` is the whole of the
after filters with the answer. Session objects are made per request, so
`__serialTask__` and `__timeout__` belong to one request each.

**BackendSession.** A handle `h` is a session object some handler holds, on a
server of its own; those in `Local` are in the frontend and their calls are
carried out at once. `wire[h]` and `back[h]` are calls and answers under way, in
order, each of which may be lost. What the frontend does with a call are the
actions of `SessionService`, extended here. Every write gives a value a new
number, so a property can say where it came from. `behind[h]` is a history: the
session was changed by somebody else, or a call of `h` failed; `unpushed[h]`
another: the keys written since their last push. `Restart` is a crash of the
frontend, after which socket ids are given out from the first again.

**AppLifecycle.** The components of each kind of server in the order of
`loadDefaultComponents`, a component of the application before them; the default
ones are there from the first `start` on (`defaults`), so that a stop before it
finds only the application's. Those without life-cycle methods that do anything (session, connection, backend
session, dictionary, protobuf) are left out. `starts[r]` and `stops[q]` are the
calls of `start` and `stop`, each at its place in the chain, so that they run
side by side; `last` is the call whose timer `stopTimer` holds. A
connector that was stopped has no server socket left, and its afterStart throws. The stop of
the buffered scheduler never calls back, that of the MQTT connector ends the
process. `early` is a history: stop was called during a start.

**Master.** `proc[s]`, `sock[s]` and `stopServers` are the process, the socket of
its monitor and the list STOP_SERVERS; `autos` the automatic restarts between the
end of a socket and the new process. `task[c][a]` is how far command `c` is with
agent `a`; `Finish` is the callback of its latch. `answers[c]` are all calls of
its callback: a stop makes one with an error for each server it names and the
master does not know, before the last, "part" (`StopSome`). `stopped` is a
history of the servers a stop named while no restart of theirs was under way and
no command has started since, `overwritten` those of them that were still going
down when another stop replaced STOP_SERVERS. The end
of a socket begins a restart if `restart-force` is 'true' (`Forced`), the port
check kills if it is there at all (`ForceSet`). The watcher of the master
itself is told of every server at once, so the servers the master knows are the
sockets it holds. `kill -9` takes effect at once. There is no clock: timers fire
whenever they may. A new process of a server registers after the end of the old
socket was noticed, and a request to an agent that is gone is answered with an
empty list (the admin library, external). An exception in a command's handler
ends the handler and not the master, as the template application installs a
handler for uncaught exceptions (`template/app.js:36`). Bounds of the model: a
child process reports an error once, `addCluster` names servers of the
configuration, and `Scripts` are the sequences of commands that may be given.

## 3. Runs

| Run | Question | Bounds |
|---|---|---|
| `sessions` | Are the index and bind right over every order of calls? Does the service implement the registry? | 3 sessions, 2 users: two sessions of one user and one of another, or a kick between two binds |
| `conn` | Do sessions, connections and the list of users agree, is the limit kept, is every closed session counted out, with the host filter on and several sessions of a user? | 3 connections, limit 2: one is always rejected; one socket closes at once, two close later; 2 users. A connector has sockets of one kind: the mixture covers both |
| `conn_deadsocket` (violated) | Does every session have a connection? | 2 connections, 1 user |
| `socket` | Does the framing lose or mix bytes, is anything but a refusal sent before the greeting, what is left of a socket that is gone, is a silent client dropped? | 4 packages: handshake, acknowledgement and two more, of 7 kinds, one without a body, one whose body looks like a head, one of no known type |
| `push` | With both schedulers: do the messages of the buffer come once, in order, to the right clients, and in the end? | 2 sessions, 1 user, 3 messages: a flush or a direct write between any two |
| `channel` | Do amount, records and groups agree for an application that does everything? Does the store follow, while it is careful? | 2 objects, so one is destroyed or lost and another made; 2 users, 2 servers, 3 entries: the same user twice on one server and once on the other |
| `cpush` | Is the caller answered once, after all servers, truthfully, and in the end? | 3 servers, one of them the caller itself: two may fail in different ways while it calls back twice; 1 user with sessions anywhere; messages share nothing but the sessions, so one is enough |
| `cluster` | Does a listener miss a server? Do all lists agree in the end? Is startOver sent once to everyone, when all servers have started? | 3 servers, one of them the master's own; 2 faults: a server breaks off and comes back while another, or the master, crashes |
| `request` | Is every request answered once, in order, in the end, and late ones with an error? | 3 requests of one session, so that two wait behind a silent one, or the timer table is full; 1 closing |
| `copies` | Does a copy nobody has overtaken agree with its session, does what is not pushed stay local, is a closed session left alone? | 1 session, a copy in a backend and one in the frontend; 2 users, 2 keys, 2 values: each copy can overwrite the other; 1 call under way for each copy, 1 crash of the frontend |
| `life` | Does an application come up whole and go down once, and does a forced stop end it? | every kind of server, scheduler and connector; no callback of the application, each alone, all three; 1 start, 2 stops |
| `master` | Are commands answered, once and completely? Do stopped servers stay down and crashed ones come back? | 2 servers, one of them restarted automatically and with force; 1 command of any kind or 2 stops, so that one can overwrite the other; 1 crash or broken connection |

`channel` and `copies` use symmetry; they check no liveness. `CHECK_DEADLOCK` is
off throughout: session, socket, message and object ids are used up, and
nothing need happen once all are. Outside the runs, for their size, `life` holds
with 2 starts and 2 stops without the selectable scheduler (5.1 million states)
and `master` with one server and any two commands (1.05 million);
of both only the safety properties were checked.

Each module of the system has a type invariant that documents its variables, and no run
spends a property on one. Those of `SessionService`, `Connector`, `HybridSocket`,
`Channel`, `ChannelPush`, `PushScheduler`, `Cluster` and `Request` hold by proof; those of `BackendSession`, `AppLifecycle` and `Master` are only
documentation, beyond the parts that invariants of their proofs repeat. `LoginedCountExact` of `Connector` is a step of its
proof.

**Fairness.** `Connector!FairSpec`: Node empties the tick queue (`Tick`), and a
transport that was destroyed reports its close (`TransportClosed`). Clients,
the application and `blacklistFun` owe nothing. `ClosedIsCountedOut` is about
sockets that still had a transport when they closed: one that died while the
host filter was asked is what `conn_deadsocket` shows. `PushScheduler!FairSchedulerSpec`: an
interval timer fires. `HybridSocket!FairSpec`: a chunk is parsed to its end, the
tick queue is emptied, and a heartbeat timer that is set fires; as packages are
bounded every client falls silent. `ChannelPush!FairSpec`: an RPC is answered or fails, as
the RPC client has a timeout, and queued callbacks run. `Cluster!FairSpec`: what
the master sent over a standing connection arrives, and servers go on with
their start; nobody need restart or reconnect. `Request!FairSpec`: queues begin
their next task or time out, RPCs are answered or fail, and the application's
filters, error handlers and handlers, but the silent ones, call back.
`AppLifecycle!FairLifeSpec`: the timers of stop fire; components owe nothing.
`Master!FairSpec`: the timers of commands and latches fire and the shell commands of the
console end (`ConsoleStep`), sockets of dead processes close (`Disconnect`), a host
answers a ping at last and a restart goes on (`AutoStep`); agents and child
processes owe nothing.

**What the violated run shows** is in `PROJECT.json` under `findings`, with the
line of the code and the sentence of the repository it departs from: a client
leaving during `blacklistFun` leaves a session behind.

The models contain more behaviour of this kind, for which no run is kept.

*Connections, requests, channels.* A rejected connection is counted in and never
out (`connectionService.js:3` says each leaving connection is subtracted). A latch that has timed out calls back again when its last answer comes
(`CountDownLatch`, `Timeout`). A request that reaches its filters after its
session closed makes a queue that is never closed (`Request`). A server that
crashes and starts again is recorded twice, so startOver may come too early
(`Cluster`). User id 0 counts as unbound (`FalsyUids`; the runs assume there is none). The late
disconnect of a kicked session takes a user off the list who has logged in
again. A broadcast to bound sessions by the direct scheduler reaches a session
as often as its user has sessions (`BroadcastBinded`). Leave after a double add
leaves an entry without a record. A user refused by `add` is stored all the
same (`AddNowhere`). When one of several RPCs fails, `cb` gets no error and the
users of that server are not named; when its answer was lost, they may have got
the message although an error was told. A message that is encoded to nothing makes
the caller's own server call back twice (`Serve`): the answer comes before another
server's, and with only failures it may say there was none. A push to a destroyed channel is never answered
(`PushToDestroyed`). A restart with stored members puts none back (`Loaded`).

*Copies.* After a restart of the frontend a copy made before it may bind or write
the session of another client that was given the same id (`Restart`).

*Life cycle.* A stop during a start is forgotten when the start sets the state
again; two calls of stop run through the components side by side, and only the
timer of the last is cancelled.

*Master.* A stop replaces STOP_SERVERS, so of two stops in a row the first is
forgotten: a server still going down is started again (`overwritten`). A stop of
several unknown servers is answered several times (`StopSome`). A stop does not hold back a restart that is under way. A server once
stopped is not restarted automatically until another stop, and one that dies
before it registers not at all. A restart command for a server that is restarted
automatically starts it twice, and the second process dies on the port; a kill
lets such servers come back while the master waits. A child that reports an
error counts the latch down a second time: the answer comes early, or the latch
throws 'illegal state.'. A restart may be answered with 'timeout' and then again.

## 4. Proofs

All theorems hold for all values of the constants: every set of sessions, users or
servers and every limit, but for what is said of each module below. Sets that
are counted (requests, servers) are assumed to be finite, as they are. Each
inductive invariant was checked by TLC on a small instance before it was proved.

`SessionService_proofs`. The inductive invariant `IInv` joins `TypeOK`,
`RegisteredIffOpen` and `IndexConsistent`: that closing a session removes it
from the right list needs the index to be exact, and that kick closes only
registered sessions needs the index to hold registered sessions only.
`OneSessionPerUser` is proved on top of it: bind's guard speaks of the index,
the property of the sessions, and `IndexConsistent` connects the two. The
refinement (`RegistryImplemented`) maps each operation to the operation of
`UserRegistry` it stands for; kick needs `IndexConsistent` again. It assumes
`FalsyUids = {}`: a session of a falsy user can be bound again without being
unbound, which the registry forbids.

`Connector_proofs`. Every step of the connector is a step of the session
service or leaves it alone, by the way it is composed (`StepSessions`), so the
invariant above holds of it. Then a socket invariant (only new sockets have no listeners, no transport
and no session; only listening sockets are released) makes the counting
argument possible: `Counted`, the listening sockets not yet released, grows by
one exactly when `connCount` does, and loses one at most when it is counted
out, hence `CountCorrect` by cardinalities of finite sets. `SessionsCounted`
needs that a socket event closes the session before it counts out. `NoGhosts`
and `LoginedCountCorrect` follow the list through bind, unbind and the end of
connections: a user is listed only with a counted connection that is his.

`HybridSocket_proofs`. `GoneCorrect` needs that a socket which has reported the
end of its connection but still thinks it is working (`LostIsQuiet`) has a
closed transport and no chunk left, or a heartbeat could set a timer that nobody
clears. `GreetingCorrect` needs that a socket waiting for the acknowledgement
has greeted, as far as its writes still go out. Both hold for all packages and
heads and either `closeMethod`.
`FramesCorrect`, that every package comes out of the bytes as it went in, has the
invariant `FramesInv`: the bytes in the buffers, the chunk and on the wire
together are the packages not handled yet, one after the other (`Framed`), until
a head of no known type has come (`Discarding`). So a turn of the loop only
regroups bytes, `Regroup`; a head that is complete is the head of the first of
these packages, hence its size is the right one; and when the body is complete,
the bytes read are that package. `ends` keeps what cannot be proved of a sum of
lengths without induction, that the ends of the packages are in order.
`HandledInTurn` is what the code owes its handlers: what they get is the
next package sent. `TypeCorrect` rests on it as well, since the bound on handshakes
under way holds only if no package is handled twice.

`Processes_proofs`. `StoppedStaysDownCorrect`: that the master starts no server it
has stopped is not inductive, since a restart may be under way and STOP_SERVERS
is replaced by the next stop. `Rests` says of a server that was stopped and not
overwritten: no automatic restart of it is under way, and either it is in
STOP_SERVERS, so that the end of its socket begins none, or it is asleep, down with
no socket whose end could begin one. A second stop keeps it because `overwritten`
takes those it does not name and that are not asleep. `Fields` adds that a process
with a socket is not booting (`LiveIsUp`). It holds for all servers, options,
commands and faults.
`OneAnswerCorrect` and `CompleteAnswersCorrect` have an invariant of their own,
`AInv`, with five parts for each command. `Counted`: the latch is at the number
of agents still at work, by cardinalities, unless a child reported an error late.
`Untold`: nobody has been told anything while the timer runs, so a timeout can
only be the first answer. `Complete` and `Once` are the two properties for one
command; `Placed` says which agents a command can have work at. `OneAnswer` speaks of the final answers (`Final`),
and of the refusals before the last answer of a stop, that they are those of
different servers. None but all
together is inductive: that the latch calls back once needs its count to be
right, and that the callback names all failures needs nobody to be at work then.
`AnswersOfLatchCorrect` says how often a command is answered that waits with a
latch, whatever timers, late answers and errors of children do: once when the
latch has been counted down, once when its timer fires before that, and so
twice only after a timeout. Its invariant adds that a timer runs only while
somebody is awaited, and that a command without a latch has none to call
back (`LatchInv`); it needs `AInv` for the latch made by a command under way.
`StartsAndStopsCorrect`, about `AppLifecycle`, rests on `Quiet`:
unless a stop came in the middle of a start, one that has begun is the only one,
no start is under way and none will be, since `start` is refused after it. So no
`afterStart` meets a connector that is closed. The theorem asks nothing of the
configuration; where a chain goes (`From`) is never expanded.

`Request_proofs`. `IInv` is in two halves. `AnswerInv` says how far a request is
at its frontend, `front`, and where it is handled, `work`: what the two say fits
(`Stages`), so that a request can be answered from one place only, and what is
late still has its error to come (`LateStages`). `OneResponseCorrect` and
`LateIsErrorCorrect` follow. `QueueInv` says what the queues of `taskManager`
hold: each what is queued there, in the order it came (`Queues`, `QueuedWait`);
whoever is at a handler in time is the current task of the queue
(`CurrentRuns`, `RunningIsCurrent`); behind a request that is not through
everybody waits (`Fifo`). `OneAtATimeCorrect` is an instance of
`RunningIsCurrent`, `AnswersInOrderCorrect` needs `Fifo` at each answer. The
exceptions are part of them: a queue whose session closed does not count, nor
does a task the queue did not wait for. `TimersOfPendingCorrect` is inductive with
the types and stages.

`Delivery_proofs`, pushes. The invariant is a conjunction for each message. `LatchOf`:
its latch is at the number of callbacks to come, one less if `Here` calls back twice,
as it was not made for that one, and has called back exactly if it is made and at zero; `OneReply`: of a server there is a request or one answer under way, so that
each is counted once, and a second callback comes behind an error of `Here`;
`AskedOf`: `broken` are the servers whose answers are errors, so the histories say what
`rpcCB` is told; `Honest`: what servers answered is true; `Told1`: so is what the
caller was told. Nothing is assumed of encoders.

`Delivery_proofs`, channels. `StoreFollowsCorrect`:
add writes to the store also for a user who is a member already, and leave
removes him from it although another entry may remain, so the property needs
`Single`: a careful application's channel has for a user the entry his record
names and no other. From a restart on the store holds more than the members, namely
what was not put back (`unrestored`), which `StoreInv` adds to them. `GroupsAgreeCorrect`
has no such condition but for the last part, `MembersHaveRecords`, which is another
consequence of `Single`: `Grouped` is kept by every add and leave of every object.
That the amount is right is counted: it is the cardinality of the set of
entries, each by itself (`EntriesOf`), to which an add brings one element and
from which a leave takes one (`SpreadMore`), so no sum is needed. That the amount
never falls below zero (`ChannelTypesCorrect`) follows from it.

`Delivery_proofs`, schedulers. `Streams` says of
what is written to a session and what is queued for it that the messages of the
buffer are in order, those written before those queued, and meant for the
session. Four lemmas say that it survives whatever a step does to the two: direct
messages, whose numbers the buffer never has, an append, a flush, a drop.
`InOrderCorrect` is one half of it. `QueuesOfOpenCorrect` is inductive.
`StreamCorrect` proves `StreamOnlyGrows`: each step of a live client's stream
appends, and goes on with the messages of the buffer where the last one ended. The
work is to say of each step what it adds to what is written and what is queued
(`Extends`: nothing, direct messages, one queued, or all that is queued written);
`NothingLost` says the same of the messages' numbers, without sequences: what is
written or queued stays, and what comes has a higher number.

`Cluster_proofs`. `NothingMissed` is nearly inductive; `Links` adds that nothing
is under way to a server that does not listen or has no connection, and that one
waiting for its list has heard of nobody. The work is in the lemmas: what a
server will think of another when a sequence of messages has arrived (`Will`)
is decided by the last message that mentions it, and they say what appending a
message or taking the first does to that. `StartOverCorrect` counts: without
faults the master's count is the servers of the configuration less those that
have started (`Starts`), so it falls below zero with the last of them, and each
server then has startOver behind it or under way, once (`ToldOnce`).

`BackendSession_proofs`. That a copy agrees with its session when nothing is under
way is not inductive: it must be said of copies with calls under way. `Agrees`
says that once the answers in `back[h]` are taken the copy will have the user of
its session (`Follows`: the last answer that tells of a bind or unbind decides),
and that once the calls in `wire[h]` are carried out the session will have the
copy's values, but for the keys it has not pushed (`Saves`: the last call that pushes a
key decides). Seven lemmas say what appending to and taking from these queues
does; `Served` says what any call does in the frontend, so that the proof has
the same three cases for all of them: calls carried out at once, calls sent,
calls that arrive. `Orderly` keeps calls with their session, without which a
call could change another. `CopyAgreesCorrect` assumes `FalsyUids = {}`: a
second bind to user 0 is answered as done when it was not, and the copy
believes it. `UnpushedIsLocalCorrect` has the invariant `PInv`: nothing has a
value not written yet, and each key of a copy that is not pushed has a value of
its own (`Distinct`); every step but a write hands on `Free` values only, those
somebody else has already or the copy has pushed. `ClosedIsFinalCorrect` needs
that the service reaches registered sessions only, which is `RegisteredIffOpen`
of `SessionService_proofs`.

Every invariant and every action property that a passing run checks is a theorem. Only
model-checked are the liveness properties (`ClosedIsCountedOut`,
`SilentIsDropped`, `QueuedIsFlushed`, `EveryPushAnswered`, `ViewsConverge`,
`EveryRequestAnswered`, `ForcedStopExits`, `CommandAnswered`,
`CrashedComesBack`), since liveness under fairness is out of the prover's reach.
What a head's bytes amount to as a number (`headHandler`) is a fold, of which the
proofs use only that it is a number: `WellFormed` says what it must be, and
TLC evaluates it. `SessionHasConnection` is the property the code does not have.

## 5. Plan

Done: sessions, connections, hybrid sockets with their framing, push schedulers,
channels, cluster, requests, copies of sessions, the life cycle, the master with
its console. Next:

1. Proofs: the type invariants of `BackendSession`, `AppLifecycle` and `Master`; that
   of `Master` needs that among finitely many restarts and processes there is always
   a fresh number, that of `AppLifecycle` that the chain of a method always ends.
2. The other sockets (MQTT, socket.io, UDP), listeners of a session that close
   others, `AddCron` and the blacklist command.

## 6. Not modelled

Pure conversion: coders, crypto, the MQTT codec, dictionary and protobuf,
argument parsing. I/O and configuration: how a process is spawned and a host
pinged (`Master` keeps the outcome), files read at start, the command line and
the templates. Transactions are a chain of callbacks of the application, one after the
other, with a bound on retries, and nothing runs beside them. `Monitor.reconnect`
is an operation of the monitor component that nobody in the repository calls. Sockets other than the hybrid one appear only
through when they report their end (`Connector`). `PROJECT.json` names every
component with its status, and every hazard that no property covers yet with
the reason.
