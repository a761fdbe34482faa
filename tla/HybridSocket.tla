---------------------------- MODULE HybridSocket ----------------------------
(***************************************************************************)
(* One client of the hybrid connector, over TCP: connectors/hybridsocket.js *)
(* with common/handler.js, the commands handshake, heartbeat and kick, and *)
(* the framing of TcpFraming, which hands over a package as soon as it is  *)
(* complete.  Sockets share nothing but tables with an entry for each.     *)
(* The connector component closes the session when the socket reports      *)
(* 'disconnect' or 'error' (bindEvents, Session.closed); module Connector  *)
(* has the rest of it.                                                     *)
(***************************************************************************)
EXTENDS TcpFraming

CONSTANTS Packages,        \* the packages a client may send, as bytes
          MaxPackages,     \* bound: packages of the client
          CloseMethod,     \* option closeMethod: "end" or "destroy"
          Heartbeat        \* option heartbeat: an interval is given

\* A package of a type that is known has the size its head says; of what else
\* a client may send, only the first byte matters.
WellFormed(package) == /\ Len(package) >= HeadSize
                       /\ Len(package) = headHandler(SubSeq(package, 1, HeadSize)) + HeadSize

ASSUME SocketAssumption == /\ Packages \subseteq Seq(Bytes) \ {<<>>}
                           /\ \A package \in Packages :
                                package[1] \in PackageTypes => WellFormed(package)
                           /\ MaxPackages \in Nat
                           /\ CloseMethod \in {"end", "destroy"}
                           /\ Heartbeat \in BOOLEAN

VARIABLES state,           \* of the hybrid socket: inited, waitAck, working, closed
          transport,       \* of the TCP connection: see TransportStates
          wire,            \* bytes the client sent that have not arrived
          unhandled,       \* history: the packages sent and not handled yet
          ends,            \* history: where each of them ends, in bytes after the
                           \* end of the package handled last
          sent,            \* how many packages the client has sent
          asked,           \* handshakes the application has yet to answer
          ticks,           \* callbacks queued by process.nextTick
          timer,           \* the heartbeat timer of the socket is set
          client,          \* the heartbeat command listens to the socket
          disconnects,     \* how often the socket has emitted 'disconnect'
          sessionOpen,     \* the session of the socket is open
          told             \* history: the kinds of packages written to the client

clientVars    == <<wire, unhandled, ends, sent>>
heartbeatVars == <<timer, client>>
sessionVars   == <<disconnects, sessionOpen, ticks>>
socketVars == <<clientVars, heartbeatVars, sessionVars, state, transport, asked, told>>
vars == <<framingVars, socketVars>>

States == {"inited", "waitAck", "working", "closed"}
\* "closing": end() was called and the client may still send.  "ended": the
\* client has ended the connection.  "destroyed": no more bytes will come.
TransportStates == {"open", "closing", "ended", "destroyed", "closed"}
Ticks == {"respond", "refuse", "disconnect"}
Kinds == {"ok", "error", "heartbeat", "data", "kick"}

TypeOK == /\ FramingTypeOK
          /\ state \in States /\ transport \in TransportStates
          /\ wire \in Seq(Bytes)
          /\ unhandled \in Seq(Packages)
          /\ ends \in Seq(Nat) /\ Len(ends) = Len(unhandled)
          /\ sent \in 0..MaxPackages /\ asked \in 0..MaxPackages
          /\ ticks \in Seq(Ticks)
          /\ timer \in BOOLEAN /\ client \in BOOLEAN /\ sessionOpen \in BOOLEAN
          /\ disconnects \in Nat
          /\ told \subseteq Kinds

Init == /\ FramingInit
        /\ state = "inited" /\ transport = "open"
        /\ wire = <<>> /\ unhandled = <<>> /\ ends = <<>> /\ sent = 0
        /\ asked = 0 /\ ticks = <<>>
        /\ timer = FALSE /\ client = FALSE
        /\ disconnects = 0 /\ sessionOpen = TRUE
        /\ told = {}

\* I/O events and timers come when no callback runs and no tick is queued.
Macrotask == ~Parsing /\ ticks = <<>>

(* --- What the calls of the code do. --- *)

\* Writes to a connection that is going down reach nobody.
Write(kind) == told' = IF transport = "open" THEN told \cup {kind} ELSE told

\* sendRaw drops what is sent before the acknowledgement or after the close.
sendRaw(kind) == IF state = "working" THEN Write(kind) ELSE UNCHANGED told

\* Session.closed: the socket is disconnected in a later tick.
CloseSession(queue) == /\ sessionOpen' = FALSE
                       /\ ticks' = IF sessionOpen THEN Append(queue, "disconnect") ELSE queue

\* The listener of 'close', installed with once: it emits 'disconnect', which
\* clears the heartbeat and closes the session.
EmitClose(queue) ==
  IF disconnects = 0
  THEN disconnects' = 1 /\ timer' = FALSE /\ client' = FALSE /\ CloseSession(queue)
  ELSE ticks' = queue /\ UNCHANGED <<disconnects, sessionOpen, heartbeatVars>>

\* close of the TCP socket.
CloseTransport == transport' = IF transport \notin {"open", "closing"} THEN transport
                               ELSE IF CloseMethod = "end" THEN "closing"
                               ELSE "destroyed"

\* disconnect of the hybrid socket.
disconnect(queue) ==
  IF state = "closed"
  THEN ticks' = queue /\ UNCHANGED <<state, transport, disconnects, sessionOpen, heartbeatVars>>
  ELSE state' = "closed" /\ EmitClose(queue) /\ CloseTransport

heartbeatSetsNoTimer == IF Heartbeat THEN client' = TRUE /\ Write("heartbeat") /\ timer' = FALSE
                                     ELSE UNCHANGED <<heartbeatVars, told>>
\* handle of the heartbeat command: listen, answer and set the timer anew, if
\* there are to be heartbeats.
heartbeat == IF Heartbeat THEN client' = TRUE /\ Write("heartbeat") /\ timer' = TRUE
                          ELSE UNCHANGED <<heartbeatVars, told>>

\* processError of the handshake: sendForce, and disconnect in the next tick.
processError(queue) == /\ IF state # "closed" THEN Write("error") ELSE UNCHANGED told
                       /\ ticks' = Append(queue, "disconnect")

(* --- The handlers of packages. --- *)

Ignore == UNCHANGED <<state, transport, asked, told, heartbeatVars, sessionVars>>

\* A handshake is fit when it has a sys part, of a client that is known; the
\* application then answers it.  Several may be under way.
handleHandshake(package) ==
  /\ state = "inited"
  /\ IF package[Len(package)] = 1
     THEN asked' = asked + 1 /\ UNCHANGED <<ticks, told>>
     ELSE processError(ticks) /\ UNCHANGED asked
  /\ UNCHANGED <<state, transport, heartbeatVars, disconnects, sessionOpen>>

handleHandshakeAckAlways == /\ state' = "working"
                            /\ heartbeat
                            /\ UNCHANGED <<transport, asked, sessionVars>>
handleHandshakeAck == /\ state = "waitAck"
                      /\ state' = "working"
                      /\ heartbeat
                      /\ UNCHANGED <<transport, asked, sessionVars>>

handleHeartbeatClosedToo == /\ state \in {"working", "closed"}
                            /\ heartbeat
                            /\ UNCHANGED <<state, transport, asked, sessionVars>>
handleHeartbeat == /\ state = "working"
                   /\ heartbeat
                   /\ UNCHANGED <<state, transport, asked, sessionVars>>

\* What a socket in another state does with a package, and with data, which it
\* passes on to the connector.
handleNothing(type) == /\ \/ type = 1 /\ state # "inited"
                          \/ type = 2 /\ state # "waitAck"
                          \/ type = 3 /\ state # "working"
                          \/ type = 4
                       /\ Ignore

handle(package) == \/ package[1] = 1 /\ handleHandshake(package)
                   \/ package[1] = 2 /\ handleHandshakeAck
                   \/ package[1] = 3 /\ handleHeartbeat
                   \/ package[1] > 4 /\ disconnect(ticks) /\ UNCHANGED <<asked, told>>
                   \/ handleNothing(package[1])

(* --- The client and its connection. --- *)

\* Where the first n packages not handled end.
EndOf(n) == IF n = 0 THEN 0 ELSE ends[n]

ClientSends(package) == /\ transport = "open" /\ sent < MaxPackages
                        /\ sent' = sent + 1
                        /\ wire' = wire \o package
                        /\ unhandled' = Append(unhandled, package)
                        /\ ends' = Append(ends, EndOf(Len(ends)) + Len(package))
                        /\ UNCHANGED <<framingVars, state, transport, asked, told,
                                       heartbeatVars, sessionVars>>

\* Any number of the bytes sent arrive in one chunk.
Data(n) == /\ Macrotask
           /\ transport \in {"open", "closing"}
           /\ ondata(SubSeq(wire, 1, n))
           /\ wire' = SubSeq(wire, n + 1, Len(wire))
           /\ UNCHANGED <<state, transport, unhandled, ends, sent, asked, told,
                          heartbeatVars, sessionVars>>

Parse == /\ HeadUnfinished \/ HeadFinished \/ BodyUnfinished
         /\ UNCHANGED socketVars

ParseInvalid == /\ HeadInvalid
                /\ CloseTransport
                /\ UNCHANGED <<state, asked, told, clientVars, heartbeatVars, sessionVars>>

ParsePackage == /\ BodyFinished
                /\ handle(BodyRead)
                /\ unhandled' = Tail(unhandled)
                /\ ends' = [i \in 1..Len(ends) - 1 |-> ends[i + 1] - ends[1]]
                /\ UNCHANGED <<wire, sent>>

\* The client ends the connection; it has sent whole packages.
End == /\ Macrotask
       /\ transport \in {"open", "closing"} /\ wire = <<>>
       /\ onend
       /\ transport' = "ended"
       /\ unhandled' = <<>> /\ ends' = <<>>
       /\ UNCHANGED <<state, wire, sent, asked, told, heartbeatVars, sessionVars>>

\* 'error' of the connection, after which it closes.  The heartbeat command
\* hears of it if it listens; the connector closes the session.
Error == /\ Macrotask
         /\ transport # "closed"
         /\ transport' = "destroyed"
         /\ timer' = (timer /\ ~client)
         /\ client' = FALSE
         /\ CloseSession(ticks)
         /\ UNCHANGED <<framingVars, clientVars, state, asked, told, disconnects>>

\* The switcher destroys a connection without communication.
IdleTimeout == /\ Macrotask
               /\ transport \in {"open", "closing", "ended"}
               /\ transport' = "destroyed"
               /\ UNCHANGED <<framingVars, clientVars, heartbeatVars, sessionVars,
                              state, asked, told>>

TransportClosed == /\ Macrotask
                   /\ transport \in {"ended", "destroyed"}
                   /\ transport' = "closed"
                   /\ EmitClose(ticks)
                   /\ UNCHANGED <<framingVars, clientVars, state, asked, told>>

(* --- Timers, ticks and the application. --- *)

HeartbeatTimeout == /\ Macrotask /\ timer
                    /\ disconnect(ticks)
                    /\ UNCHANGED <<framingVars, clientVars, asked, told>>

\* handshakeResponse
TickRespond == /\ Head(ticks) = "respond"
               /\ IF state = "inited" THEN state' = "waitAck" /\ Write("ok")
                  ELSE UNCHANGED <<state, told>>
               /\ ticks' = Tail(ticks)
               /\ UNCHANGED <<transport, heartbeatVars, disconnects, sessionOpen>>

TickRefuse == /\ Head(ticks) = "refuse"
              /\ processError(Tail(ticks))
              /\ UNCHANGED <<state, transport, heartbeatVars, disconnects, sessionOpen>>

TickDisconnect == /\ Head(ticks) = "disconnect"
                  /\ disconnect(Tail(ticks))
                  /\ UNCHANGED told

Tick == /\ ~Parsing /\ ticks # <<>>
        /\ TickRespond \/ TickRefuse \/ TickDisconnect
        /\ UNCHANGED <<framingVars, clientVars, asked>>

\* The application answers a handshake; without such a function the answer is
\* "respond" and immediate.
UserHandshake(answer) == /\ asked > 0
                         /\ asked' = asked - 1
                         /\ ticks' = Append(ticks, answer)
                         /\ UNCHANGED <<framingVars, clientVars, heartbeatVars, state,
                                        transport, disconnects, sessionOpen, told>>

\* The application sends to the client, or kicks it with a reason, within any
\* callback.
Send == /\ sessionOpen
        /\ sendRaw("data")
        /\ UNCHANGED <<framingVars, clientVars, heartbeatVars, sessionVars, state,
                       transport, asked>>

Kick == /\ sessionOpen
        /\ sendRaw("kick")
        /\ CloseSession(ticks)
        /\ UNCHANGED <<framingVars, clientVars, heartbeatVars, state, transport,
                       disconnects, asked>>

Next == \/ \E package \in Packages: ClientSends(package)
        \/ \E n \in 1..Len(wire): Data(n)
        \/ Parse \/ ParseInvalid \/ ParsePackage
        \/ End \/ Error \/ IdleTimeout \/ TransportClosed
        \/ HeartbeatTimeout \/ Tick
        \/ \E answer \in {"respond", "refuse"}: UserHandshake(answer)
        \/ Send \/ Kick

Spec == Init /\ [][Next]_vars

\* A chunk is parsed to its end, ticks run, a timer that is set fires.
FairSpec == /\ Spec
            /\ WF_vars(Parse \/ ParseInvalid \/ ParsePackage)
            /\ WF_vars(Tick)
            /\ WF_vars(HeartbeatTimeout)

-----------------------------------------------------------------------------
(* Properties. *)

HeadIsInvalid == reading = "head" /\ Len(headBuffer) = HeadSize

\* The bytes are those of the packages, one after the other.
MadeOf(bytes, packages) ==
    /\ Len(bytes) = EndOf(Len(packages))
    /\ \A i \in 1..Len(packages) : SubSeq(bytes, EndOf(i - 1) + 1, EndOf(i)) = packages[i]

\* Chunks may be cut anywhere: what was delivered and not handled, followed by
\* what is under way, is what the client sent and the server has not handled.
\* No byte is lost, read twice or taken for a part of another package (readHead
\* and readBody), until a head of no known type ends the conversation.
FramesIntact == HeadIsInvalid \/ MadeOf(Unparsed \o wire, unhandled)

\* Nothing but refusals is written to a client before its handshake has been
\* answered (sendRaw, handshakeResponse and the guards of common/handler.js).
GreetingFirst == told \cap {"heartbeat", "data", "kick"} # {} => "ok" \in told

\* However a connection ends, the connector hears of it once, and at the latest
\* when the socket is closed; after that no heartbeat timer is set and the table
\* of the heartbeat command has no entry of the socket (EmitClose, heartbeat.js).
GoneForGood == /\ disconnects <= 1
               /\ state = "closed" => disconnects = 1
               /\ disconnects = 1 => ~timer /\ ~client

\* With the option heartbeat, a working client that falls silent is disconnected
\* (HeartbeatTimeout).  Without it nothing but an error, a kick or the end of its
\* connection removes a client that says nothing.
SilentIsDropped == Heartbeat => ((state = "working") ~> (state = "closed"))
=============================================================================
