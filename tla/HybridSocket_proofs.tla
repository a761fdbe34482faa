------------------------ MODULE HybridSocket_proofs ------------------------
(***************************************************************************)
(* Theorems about HybridSocket, for all packages and heads, however the    *)
(* stream is cut into chunks.                                              *)
(***************************************************************************)
EXTENDS HybridSocket, SequenceTheorems, TLAPS

\* A socket may have reported the end of its connection and still think it is
\* working: until the tick in which the session disconnects it.  It then
\* handles no package, as its transport is closed and no chunk is left.
LostIsQuiet == disconnects = 1 /\ state # "closed" => transport = "closed" /\ ~Parsing

GoneInv == /\ disconnects \in {0, 1}
           /\ GoneForGood
           /\ LostIsQuiet

\* disconnect makes an end of everything, whatever the state of the socket.
LEMMA DisconnectKeepsGone ==
  ASSUME NEW queue, GoneInv, disconnect(queue)
  PROVE  /\ disconnects' \in {0, 1}
         /\ GoneForGood'
         /\ state' = "closed"
<1>1. CASE state = "closed"
  BY <1>1 DEF GoneInv, GoneForGood, disconnect, heartbeatVars
<1>2. CASE state # "closed" /\ disconnects = 0
  BY <1>2 DEF GoneInv, GoneForGood, disconnect, EmitClose, CloseSession
<1>3. CASE state # "closed" /\ disconnects = 1
  BY <1>3 DEF GoneInv, GoneForGood, disconnect, EmitClose, heartbeatVars
<1> QED  BY <1>1, <1>2, <1>3 DEF GoneInv

\* A package that is handled leaves a socket that is gone as it is.
LEMMA HandleKeepsGone ==
  ASSUME GoneInv, BodyFinished, NEW package, handle(package)
  PROVE  GoneInv'
<1>1. Parsing
  BY DEF BodyFinished, readBody
<1>2. state # "closed" => disconnects = 0
  BY <1>1 DEF GoneInv, LostIsQuiet
<1>3. CASE handleHandshake(package)
  BY <1>2, <1>3 DEF GoneInv, GoneForGood, LostIsQuiet, handleHandshake, heartbeatVars
<1>4. CASE handleHandshakeAck
  BY <1>2, <1>4 DEF GoneInv, GoneForGood, LostIsQuiet, handleHandshakeAck, heartbeat, heartbeatVars,
                     sessionVars
<1>5. CASE handleHeartbeat
  BY <1>2, <1>5 DEF GoneInv, GoneForGood, LostIsQuiet, handleHeartbeat, heartbeat, heartbeatVars,
                     sessionVars
<1>6. CASE disconnect(ticks)
  BY <1>6, DisconnectKeepsGone DEF GoneInv, LostIsQuiet
<1>7. CASE handleNothing(package[1])
  BY <1>2, <1>7 DEF GoneInv, GoneForGood, LostIsQuiet, handleNothing, Ignore, heartbeatVars, sessionVars
<1> QED  BY <1>3, <1>4, <1>5, <1>6, <1>7 DEF handle

LEMMA GoneInductive == GoneInv /\ [Next]_vars => GoneInv'
<1> SUFFICES ASSUME GoneInv, [Next]_vars PROVE GoneInv'
  OBVIOUS
<1> USE DEF GoneInv, GoneForGood, LostIsQuiet
<1>1. ASSUME NEW package \in Packages, ClientSends(package) PROVE GoneInv'
  BY <1>1 DEF ClientSends, framingVars, heartbeatVars, sessionVars, Parsing
<1>2. ASSUME NEW n \in 1..Len(wire), Data(n) PROVE GoneInv'
  BY <1>2 DEF Data, heartbeatVars, sessionVars
<1>3. ASSUME Parse PROVE GoneInv'
  <2>1. Parsing
    BY <1>3 DEF Parse, HeadUnfinished, HeadFinished, BodyUnfinished, readHead, readBody, Parsing
  <2> QED  BY <1>3, <2>1 DEF Parse, socketVars, heartbeatVars, sessionVars
<1>4. ASSUME ParseInvalid PROVE GoneInv'
  <2>1. Parsing
    BY <1>4 DEF ParseInvalid, HeadInvalid, readHead, Parsing
  <2> QED  BY <1>4, <2>1 DEF ParseInvalid, heartbeatVars, sessionVars
<1>5. ASSUME ParsePackage PROVE GoneInv'
  BY <1>5, HandleKeepsGone DEF ParsePackage
<1>6. ASSUME End PROVE GoneInv'
  BY <1>6 DEF End, heartbeatVars, sessionVars
<1>7. ASSUME Error PROVE GoneInv'
  BY <1>7 DEF Error, CloseSession
<1>8. ASSUME IdleTimeout PROVE GoneInv'
  BY <1>8 DEF IdleTimeout, heartbeatVars, sessionVars
<1>9. ASSUME TransportClosed PROVE GoneInv'
  <2>1. ~Parsing'
    BY <1>9 DEF TransportClosed, Macrotask, framingVars, Parsing
  <2> QED  BY <1>9, <2>1 DEF TransportClosed, EmitClose, CloseSession, heartbeatVars
<1>10. ASSUME HeartbeatTimeout PROVE GoneInv'
  BY <1>10, DisconnectKeepsGone DEF HeartbeatTimeout
<1>11. ASSUME Tick PROVE GoneInv'
  <2>1. Parsing' = Parsing
    BY <1>11 DEF Tick, framingVars, Parsing
  <2>2. CASE TickRespond
    BY <2>1, <2>2 DEF TickRespond, heartbeatVars
  <2>3. CASE TickRefuse
    BY <2>1, <2>3 DEF TickRefuse, heartbeatVars
  <2>4. CASE TickDisconnect
    BY <2>4, DisconnectKeepsGone DEF TickDisconnect
  <2> QED  BY <1>11, <2>2, <2>3, <2>4 DEF Tick
<1>12. ASSUME NEW answer \in {"respond", "refuse"}, UserHandshake(answer) PROVE GoneInv'
  BY <1>12 DEF UserHandshake, framingVars, heartbeatVars, Parsing
<1>13. ASSUME Send PROVE GoneInv'
  BY <1>13 DEF Send, framingVars, heartbeatVars, sessionVars, Parsing
<1>14. ASSUME Kick PROVE GoneInv'
  BY <1>14 DEF Kick, framingVars, heartbeatVars, Parsing
<1>15. ASSUME UNCHANGED vars PROVE GoneInv'
  BY <1>15 DEF vars, framingVars, socketVars, heartbeatVars, sessionVars, Parsing
<1> QED
  BY <1>1, <1>2, <1>3, <1>4, <1>5, <1>6, <1>7, <1>8, <1>9, <1>10, <1>11, <1>12, <1>13,
     <1>14, <1>15 DEF Next

\* However a connection ends, the socket reports it once and leaves neither a
\* timer nor an entry in the table of the heartbeat command.
THEOREM GoneCorrect == Spec => []GoneForGood
<1>1. Init => GoneInv
  BY DEF Init, GoneInv, GoneForGood, LostIsQuiet
<1>2. GoneInv => GoneForGood
  BY DEF GoneInv
<1> QED  BY <1>1, <1>2, GoneInductive, PTL DEF Spec

-----------------------------------------------------------------------------
(* What the client is told. *)

\* While packages can reach the client, a socket that waits for the
\* acknowledgement or is working has answered the handshake.
GreetingInv == /\ GreetingFirst
               /\ transport = "open" /\ state \in {"waitAck", "working"} => "ok" \in told

\* A step that writes nothing or a refusal and moves the socket nowhere but to
\* its close.
LEMMA QuietStep ==
  ASSUME GreetingInv,
         told' = told \/ told' = told \cup {"error"},
         transport' = "open" => transport = "open",
         state' \in {state, "closed"}
  PROVE  GreetingInv'
BY DEF GreetingInv, GreetingFirst

LEMMA DisconnectIsQuiet ==
  ASSUME NEW queue, disconnect(queue)
  PROVE  state' \in {state, "closed"} /\ (transport' = "open" => transport = "open")
BY DEF disconnect, CloseTransport

\* A step that writes when the greeting is out, or the transport no more open.
LEMMA WorkingStep ==
  ASSUME GreetingInv, NEW kind, Write(kind) \/ told' = told, transport' = transport,
         state \in {"waitAck", "working"}, state' \in {state, "working"}
  PROVE  GreetingInv'
BY DEF GreetingInv, GreetingFirst, Write

LEMMA GreetingInductive == GreetingInv /\ [Next]_vars => GreetingInv'
<1> SUFFICES ASSUME GreetingInv, [Next]_vars PROVE GreetingInv'
  OBVIOUS
<1>1. ASSUME NEW package \in Packages, ClientSends(package) PROVE GreetingInv'
  BY <1>1, QuietStep DEF ClientSends
<1>2. ASSUME NEW n \in 1..Len(wire), Data(n) PROVE GreetingInv'
  BY <1>2, QuietStep DEF Data
<1>3. ASSUME Parse PROVE GreetingInv'
  BY <1>3, QuietStep DEF Parse, socketVars
<1>4. ASSUME ParseInvalid PROVE GreetingInv'
  BY <1>4, QuietStep DEF ParseInvalid, CloseTransport
<1>5. ASSUME ParsePackage PROVE GreetingInv'
  <2> DEFINE package == BodyRead
  <2>1. CASE handleHandshake(package)
    BY <2>1, QuietStep DEF handleHandshake, processError, Write
  <2>2. CASE handleHandshakeAck
    BY <2>2, WorkingStep DEF handleHandshakeAck, heartbeat, heartbeatVars
  <2>3. CASE handleHeartbeat
    BY <2>3, WorkingStep DEF handleHeartbeat, heartbeat, heartbeatVars
  <2>4. CASE disconnect(ticks) /\ UNCHANGED told
    BY <2>4, DisconnectIsQuiet, QuietStep
  <2>5. CASE handleNothing(package[1])
    BY <2>5, QuietStep DEF handleNothing, Ignore
  <2> QED  BY <1>5, <2>1, <2>2, <2>3, <2>4, <2>5 DEF ParsePackage, handle
<1>6. ASSUME End \/ Error \/ IdleTimeout \/ TransportClosed PROVE GreetingInv'
  BY <1>6, QuietStep DEF End, Error, IdleTimeout, TransportClosed
<1>7. ASSUME HeartbeatTimeout PROVE GreetingInv'
  BY <1>7, DisconnectIsQuiet, QuietStep DEF HeartbeatTimeout
<1>8. ASSUME Tick PROVE GreetingInv'
  <2>1. CASE TickRespond
    BY <2>1 DEF TickRespond, Write, GreetingInv, GreetingFirst
  <2>2. CASE TickRefuse
    BY <2>2, QuietStep DEF TickRefuse, processError, Write
  <2>3. CASE TickDisconnect
    BY <2>3, DisconnectIsQuiet, QuietStep DEF TickDisconnect
  <2> QED  BY <1>8, <2>1, <2>2, <2>3 DEF Tick
<1>9. ASSUME NEW answer \in {"respond", "refuse"}, UserHandshake(answer) PROVE GreetingInv'
  BY <1>9, QuietStep DEF UserHandshake
<1>10. ASSUME Send \/ Kick PROVE GreetingInv'
  <2>1. PICK kind \in {"data", "kick"} : sendRaw(kind)
    BY <1>10 DEF Send, Kick
  <2>2. transport' = transport /\ state' = state
    BY <1>10 DEF Send, Kick
  <2>3. CASE state = "working"
    BY <2>1, <2>2, <2>3, WorkingStep DEF sendRaw
  <2>4. CASE state # "working"
    BY <2>1, <2>2, <2>4, QuietStep DEF sendRaw
  <2> QED  BY <2>3, <2>4
<1>11. ASSUME UNCHANGED vars PROVE GreetingInv'
  BY <1>11, QuietStep DEF vars, socketVars
<1> QED
  BY <1>1, <1>2, <1>3, <1>4, <1>5, <1>6, <1>7, <1>8, <1>9, <1>10, <1>11 DEF Next

\* Whatever a client sends and whenever the application answers, nothing but
\* refusals is written before the handshake has been answered.
THEOREM GreetingCorrect == Spec => []GreetingFirst
<1>1. Init => GreetingInv
  BY DEF Init, GreetingInv, GreetingFirst
<1>2. GreetingInv => GreetingFirst
  BY DEF GreetingInv
<1> QED  BY <1>1, <1>2, GreetingInductive, PTL DEF Spec

-----------------------------------------------------------------------------
(* How the stream is cut into packages: sequences of bytes. *)

LEMMA ByteAssociative ==
    ASSUME NEW x \in Seq(Bytes), NEW y \in Seq(Bytes), NEW z \in Seq(Bytes)
    PROVE  (x \o y) \o z = x \o (y \o z)
BY ConcatAssociative

\* What a turn of the loop takes and leaves is what was there.
LEMMA Regroup ==
    ASSUME NEW x \in Seq(Bytes), NEW y \in Seq(Bytes), NEW n \in 0..Len(y)
    PROVE  /\ SubSeq(y, 1, n) \in Seq(Bytes) /\ SubSeq(y, n + 1, Len(y)) \in Seq(Bytes)
           /\ x \o SubSeq(y, 1, n) \in Seq(Bytes)
           /\ Len(x \o SubSeq(y, 1, n)) = Len(x) + n
           /\ (x \o SubSeq(y, 1, n)) \o SubSeq(y, n + 1, Len(y)) = x \o y
<1> DEFINE taken == SubSeq(y, 1, n)
           left  == SubSeq(y, n + 1, Len(y))
<1>1. Len(y) \in Nat /\ n \in Nat /\ n <= Len(y) /\ \A i \in 1..Len(y) : y[i] \in Bytes
  BY LenProperties, ElementOfSeq
<1>2. taken \in Seq(Bytes) /\ Len(taken) = n /\ left \in Seq(Bytes)
  BY <1>1, SubSeqProperties
<1>3. taken \o left = SubSeq(y, 1, Len(y))
  <2>1. 1 \in 1..Len(y) + 1 /\ n \in 1 - 1..Len(y) /\ Len(y) \in n..Len(y)
    BY <1>1
  <2> HIDE DEF taken, left
  <2>2. SubSeq(y, 1, n) \o SubSeq(y, n + 1, Len(y)) = SubSeq(y, 1, Len(y))
    BY <2>1, ConcatAdjacentSubSeq
  <2> QED BY <2>2 DEF taken, left
<1>4. taken \o left = y
  BY <1>3, SubSeqFull
<1> HIDE DEF taken, left
<1>5. (x \o taken) \o left = x \o (taken \o left)
  BY <1>2, ByteAssociative
<1>6. x \o taken \in Seq(Bytes) /\ Len(x \o taken) = Len(x) + n
  BY <1>2, ConcatProperties
<1> QED BY <1>2, <1>4, <1>5, <1>6 DEF taken, left

LEMMA FirstPart ==
    ASSUME NEW x \in Seq(Bytes), NEW y \in Seq(Bytes)
    PROVE  /\ x \o y \in Seq(Bytes) /\ Len(x \o y) = Len(x) + Len(y)
           /\ SubSeq(x \o y, 1, Len(x)) = x
           /\ SubSeq(x \o y, Len(x) + 1, Len(x \o y)) = y
<1> DEFINE s == x \o y
           first == SubSeq(s, 1, Len(x))
           rest == SubSeq(s, Len(x) + 1, Len(s))
<1>1. /\ s \in Seq(Bytes) /\ Len(s) = Len(x) + Len(y) /\ Len(x) \in Nat /\ Len(y) \in Nat
      /\ \A i \in 1..Len(x) : s[i] = x[i]
      /\ \A i \in 1..Len(y) : s[Len(x) + i] = y[i]
      /\ \A i \in 1..Len(s) : s[i] \in Bytes
  BY ConcatProperties, LenProperties, ElementOfSeq
<1> HIDE DEF s
<1>2. /\ first \in Seq(Bytes) /\ Len(first) = Len(x)
      /\ \A i \in 1..Len(x) : first[i] = s[i]
  BY <1>1, SubSeqProperties
<1>3. /\ rest \in Seq(Bytes) /\ Len(rest) = Len(y)
      /\ \A i \in 1..Len(y) : rest[i] = s[Len(x) + i]
  BY <1>1, SubSeqProperties
<1> HIDE DEF first, rest
<1>4. first = x
  BY <1>1, <1>2, SeqEqual
<1>5. rest = y
  BY <1>1, <1>3, SeqEqual
<1> QED BY <1>1, <1>4, <1>5 DEF s, first, rest

\* A part of the rest of a sequence is a part of the sequence.
LEMMA PartOfRest ==
    ASSUME NEW s \in Seq(Bytes), NEW k \in Nat, NEW a \in Nat, NEW b \in Nat,
           k <= a, a < b, b <= Len(s)
    PROVE  SubSeq(SubSeq(s, k + 1, Len(s)), a - k + 1, b - k) = SubSeq(s, a + 1, b)
<1>1. Len(s) \in Nat
  BY LenProperties
<1>2. /\ k + 1 \in 1..Len(s) /\ Len(s) \in 1..Len(s)
      /\ a - k + 1 \in 1..(Len(s) - (k + 1) + 1) /\ b - k \in 1..(Len(s) - (k + 1) + 1)
      /\ (k + 1) + (a - k + 1) - 1 = a + 1 /\ (k + 1) + (b - k) - 1 = b
  BY <1>1
<1>3. SubSeq(SubSeq(s, k + 1, Len(s)), a - k + 1, b - k)
        = SubSeq(s, (k + 1) + (a - k + 1) - 1, (k + 1) + (b - k) - 1)
  BY <1>2, SubSeqOfSubSeq
<1> QED BY <1>2, <1>3

FramesType == /\ chunk \in Seq(Bytes) /\ wire \in Seq(Bytes)
              /\ headBuffer \in Seq(Bytes) /\ packageBuffer \in Seq(Bytes)
              /\ reading \in {"head", "body"}
              /\ unhandled \in Seq(Packages)
              /\ ends \in Seq(Nat) /\ Len(ends) = Len(unhandled)

\* A head of no known type has been read: it stays, and what comes is dropped.
Discarding == /\ HeadIsInvalid
              /\ headBuffer[1] \notin PackageTypes

\* The stream goes on where a package begins, the size of the package under way
\* is that of the first one not handled, and no buffer has more than it needs.
Framed == /\ MadeOf(Unparsed \o wire, unhandled)
          /\ \A i, j \in 1..Len(ends) : i < j => ends[i] < ends[j]
          /\ reading = "head" => Len(headBuffer) < HeadSize
          /\ reading = "body" => /\ unhandled # <<>>
                                 /\ packageSize = Len(unhandled[1])
                                 /\ Len(packageBuffer) <= packageSize

FramesInv == FramesType /\ (Discarding \/ Framed)

LEMMA PackageIsBytes ==
    ASSUME NEW package \in Packages
    PROVE  package \in Seq(Bytes) /\ Len(package) \in Nat /\ Len(package) > 0
BY SocketAssumption, LenProperties, EmptySeq

LEMMA BufferIsBytes ==
    ASSUME FramesType
    PROVE  /\ Unparsed \in Seq(Bytes) /\ Unparsed \o wire \in Seq(Bytes)
           /\ Len(Unparsed \o wire) = Len(Unparsed) + Len(wire)
           /\ Len(Unparsed \o wire) \in Nat
<1>1. Unparsed \in Seq(Bytes)
  BY ConcatProperties DEF FramesType, Unparsed
<1> QED BY <1>1, ConcatProperties, LenProperties DEF FramesType

\* All packages end within the stream, which ends with the last one.
LEMMA EndsInStream ==
    ASSUME FramesType, Framed, NEW i \in 0..Len(ends)
    PROVE  EndOf(i) \in Nat /\ EndOf(i) <= Len(Unparsed \o wire)
<1>1. /\ Len(ends) \in Nat /\ \A j \in 1..Len(ends) : ends[j] \in Nat
      /\ Len(Unparsed \o wire) \in Nat
  BY BufferIsBytes, LenProperties, ElementOfSeq DEF FramesType
<1>2. Len(Unparsed \o wire) = EndOf(Len(ends))
  BY DEF FramesType, Framed, MadeOf
<1>3. \A j, k \in 1..Len(ends) : j < k => ends[j] < ends[k]
  BY DEF Framed
<1> QED BY <1>1, <1>2, <1>3 DEF EndOf

\* The stream begins with the first package not handled.
LEMMA FirstPackage ==
    ASSUME FramesType, Framed, unhandled # <<>>
    PROVE  /\ unhandled[1] \in Packages
           /\ ends[1] = Len(unhandled[1])
           /\ ends[1] <= Len(Unparsed \o wire)
           /\ SubSeq(Unparsed \o wire, 1, ends[1]) = unhandled[1]
<1>1. /\ Len(unhandled) \in Nat /\ Len(unhandled) > 0 /\ Len(ends) = Len(unhandled)
      /\ unhandled[1] \in Packages
  BY LenProperties, ElementOfSeq, EmptySeq DEF FramesType
<1>2. ends[1] = EndOf(1) /\ ends[1] \in Nat /\ ends[1] <= Len(Unparsed \o wire)
  BY <1>1, EndsInStream DEF EndOf
<1>3. SubSeq(Unparsed \o wire, EndOf(0) + 1, EndOf(1)) = unhandled[1]
  <2>1. 1 \in 1..Len(unhandled) /\ 1 - 1 = 0
    BY <1>1
  <2> QED BY <2>1 DEF Framed, MadeOf
<1>4. SubSeq(Unparsed \o wire, 1, ends[1]) = unhandled[1]
  BY <1>2, <1>3 DEF EndOf
<1>5. /\ Unparsed \o wire \in Seq(Bytes) /\ Len(Unparsed \o wire) \in Nat
      /\ \A i \in 1..ends[1] : (Unparsed \o wire)[i] \in Bytes
  BY <1>2, BufferIsBytes, ElementOfSeq
<1>6. Len(SubSeq(Unparsed \o wire, 1, ends[1])) = ends[1]
  <2>1. ends[1] \in Int /\ 1 \in Int /\ (IF 1 <= ends[1] THEN ends[1] - 1 + 1 ELSE 0) = ends[1]
    BY <1>2
  <2> QED BY <1>5, <2>1, SubSeqProperties
<1> QED BY <1>1, <1>2, <1>4, <1>6

\* A step that leaves the stream as it is leaves it made of the same packages.
LEMMA SameStream ==
    ASSUME Framed, Unparsed' \o wire' = Unparsed \o wire, UNCHANGED <<unhandled, ends>>
    PROVE  /\ MadeOf(Unparsed \o wire, unhandled)'
           /\ \A i, j \in 1..Len(ends') : i < j => ends'[i] < ends'[j]
BY DEF Framed, MadeOf, EndOf

\* A turn of the loop takes from the chunk what it wants and leaves the rest.
LEMMA TurnOfTheLoop ==
    ASSUME FramesType, NEW x \in Seq(Bytes), NEW wanted \in Nat
    PROVE  /\ Taken(wanted) \in Nat /\ Taken(wanted) <= wanted
           /\ x \o Take(Taken(wanted)) \in Seq(Bytes)
           /\ Len(x \o Take(Taken(wanted))) = Len(x) + Taken(wanted)
           /\ Leave(Taken(wanted)) \in Seq(Bytes)
           /\ (x \o Take(Taken(wanted))) \o Leave(Taken(wanted)) = x \o chunk
<1>1. chunk \in Seq(Bytes) /\ Len(chunk) \in Nat
  BY LenProperties DEF FramesType
<1>2. Taken(wanted) \in 0..Len(chunk) /\ Taken(wanted) \in Nat /\ Taken(wanted) <= wanted
  BY <1>1 DEF Taken
<1> QED BY <1>1, <1>2, Regroup DEF Take, Leave

\* readHead and readBody: what is in the buffer then and what is left of the chunk
\* are what was there.  A head that was read stays as it is.
LEMMA HeadTurn ==
    ASSUME FramesInv, reading = "head"
    PROVE  /\ HeadRead \in Seq(Bytes) /\ Leave(HeadTaken) \in Seq(Bytes)
           /\ HeadRead \o Leave(HeadTaken) = Unparsed
           /\ Len(HeadRead) = Len(headBuffer) + HeadTaken
           /\ Len(headBuffer) \in Nat /\ HeadTaken \in Nat
           /\ Discarding => HeadRead = headBuffer
<1>1. /\ FramesType /\ headBuffer \in Seq(Bytes) /\ HeadSize \in Nat
      /\ Len(headBuffer) \in Nat
  BY FramingAssumption, LenProperties DEF FramesInv, FramesType
<1>2. HeadSize - Len(headBuffer) \in Nat
  BY <1>1 DEF FramesInv, Discarding, Framed, HeadIsInvalid
<1>3. /\ HeadRead \in Seq(Bytes) /\ Leave(HeadTaken) \in Seq(Bytes)
      /\ HeadRead \o Leave(HeadTaken) = headBuffer \o chunk
      /\ Len(HeadRead) = Len(headBuffer) + HeadTaken /\ HeadTaken \in Nat
      /\ HeadTaken <= HeadSize - Len(headBuffer)
  BY <1>1, <1>2, TurnOfTheLoop DEF HeadRead, HeadTaken
<1>4. ASSUME Discarding PROVE HeadRead = headBuffer
  <2>1. HeadTaken = 0
    BY <1>1, <1>3, <1>4 DEF Discarding, HeadIsInvalid
  <2>2. Take(0) = <<>>
    BY SubSeqEmpty DEF Take
  <2> QED BY <1>1, <2>1, <2>2, ConcatEmptySeq DEF HeadRead
<1> QED BY <1>1, <1>3, <1>4 DEF Unparsed

LEMMA BodyTurn ==
    ASSUME FramesInv, reading = "body"
    PROVE  /\ Framed
           /\ BodyRead \in Seq(Bytes) /\ Leave(BodyTaken) \in Seq(Bytes)
           /\ BodyRead \o Leave(BodyTaken) = Unparsed
           /\ Len(BodyRead) \in Nat
           /\ packageSize \in Nat
<1>1. FramesType /\ packageBuffer \in Seq(Bytes) /\ Len(packageBuffer) \in Nat
  BY LenProperties DEF FramesInv, FramesType
<1>2. Framed
  BY DEF FramesInv, Discarding, HeadIsInvalid
<1>3. packageSize \in Nat /\ Len(packageBuffer) <= packageSize
  BY <1>1, <1>2, FirstPackage, PackageIsBytes DEF Framed
<1>4. /\ BodyRead \in Seq(Bytes) /\ Leave(BodyTaken) \in Seq(Bytes)
      /\ BodyRead \o Leave(BodyTaken) = packageBuffer \o chunk
  <2>1. packageSize - Len(packageBuffer) \in Nat
    BY <1>1, <1>3
  <2> QED BY <1>1, <2>1, TurnOfTheLoop DEF BodyRead, BodyTaken
<1> QED BY <1>2, <1>3, <1>4, LenProperties DEF Unparsed

LEMMA DataKeepsFrames ==
    ASSUME FramesInv, NEW n \in 1..Len(wire), Data(n)
    PROVE  FramesInv'
<1> DEFINE buffer == IF reading = "body" THEN packageBuffer ELSE headBuffer
<1>1. /\ FramesType /\ wire \in Seq(Bytes) /\ Len(wire) \in Nat /\ n \in 0..Len(wire)
      /\ buffer \in Seq(Bytes)
  BY LenProperties DEF FramesInv, FramesType
<1>2. /\ chunk = <<>> /\ chunk' = SubSeq(wire, 1, n)
      /\ wire' = SubSeq(wire, n + 1, Len(wire))
      /\ UNCHANGED <<reading, headBuffer, packageSize, packageBuffer, unhandled, ends>>
  BY DEF Data, ondata, Parsing
<1>3. /\ chunk' \in Seq(Bytes) /\ wire' \in Seq(Bytes)
      /\ (buffer \o chunk') \o wire' = buffer \o wire
  BY <1>1, <1>2, Regroup
<1>4. buffer \o <<>> = buffer
  BY <1>1, ConcatEmptySeq
<1>5. Unparsed = buffer /\ Unparsed' = buffer \o chunk'
  BY <1>2, <1>4 DEF Unparsed
<1>6. FramesType'
  BY <1>1, <1>2, <1>3 DEF FramesType
<1>7. CASE Discarding
  BY <1>2, <1>6, <1>7 DEF FramesInv, Discarding, HeadIsInvalid
<1>8. CASE Framed
  <2>1. Unparsed' \o wire' = Unparsed \o wire
    BY <1>3, <1>5
  <2>2. MadeOf(Unparsed \o wire, unhandled)' /\ \A i, j \in 1..Len(ends') : i < j => ends'[i] < ends'[j]
    BY <1>2, <1>8, <2>1, SameStream
  <2>3. Framed'
    BY <1>2, <1>8, <2>2 DEF Framed
  <2> QED BY <1>6, <2>3 DEF FramesInv
<1> QED BY <1>7, <1>8 DEF FramesInv

\* A head or a body of which more is to come.
LEMMA UnfinishedKeepsFrames ==
    ASSUME FramesInv, HeadUnfinished \/ BodyUnfinished, UNCHANGED socketVars
    PROVE  FramesInv'
<1>1. FramesType /\ UNCHANGED <<wire, unhandled, ends, reading, packageSize>>
  BY DEF FramesInv, socketVars, clientVars, HeadUnfinished, BodyUnfinished
<1>2. CASE HeadUnfinished
  <2>1. /\ reading = "head" /\ headBuffer' = HeadRead /\ Len(HeadRead) < HeadSize
        /\ chunk' = Leave(HeadTaken) /\ packageBuffer' = packageBuffer
    BY <1>2 DEF HeadUnfinished, readHead
  <2>2. /\ Framed /\ FramesType' /\ Unparsed' = Unparsed
    <3>1. Framed
      BY <2>1, HeadTurn, FramingAssumption DEF FramesInv, Discarding, HeadIsInvalid
    <3>2. FramesType'
      BY <1>1, <2>1, HeadTurn DEF FramesType
    <3> QED BY <1>1, <2>1, <3>1, <3>2, HeadTurn DEF Unparsed
  <2>3. MadeOf(Unparsed \o wire, unhandled)' /\ \A i, j \in 1..Len(ends') : i < j => ends'[i] < ends'[j]
    BY <1>1, <2>2, SameStream
  <2> QED BY <1>1, <2>1, <2>2, <2>3 DEF FramesInv, Framed
<1>3. CASE BodyUnfinished
  <2>1. /\ reading = "body" /\ packageBuffer' = BodyRead /\ Len(BodyRead) < packageSize
        /\ chunk' = Leave(BodyTaken) /\ headBuffer' = headBuffer
    BY <1>3 DEF BodyUnfinished, readBody
  <2>2. /\ Framed /\ FramesType' /\ Unparsed' = Unparsed
    BY <1>1, <2>1, BodyTurn DEF FramesInv, FramesType, Unparsed
  <2>3. MadeOf(Unparsed \o wire, unhandled)' /\ \A i, j \in 1..Len(ends') : i < j => ends'[i] < ends'[j]
    BY <1>1, <2>2, SameStream
  <2>4. Len(packageBuffer') <= packageSize'
    BY <1>1, <2>1, BodyTurn
  <2> QED BY <1>1, <2>1, <2>2, <2>3, <2>4 DEF FramesInv, Framed
<1> QED BY <1>2, <1>3

\* A head of a known type is that of the first package not handled, and says how
\* long that is.
LEMMA HeadFinishedKeepsFrames ==
    ASSUME FramesInv, HeadFinished, UNCHANGED socketVars
    PROVE  FramesInv'
<1>1. FramesType /\ UNCHANGED <<wire, unhandled, ends>>
  BY DEF FramesInv, socketVars, clientVars
<1>2. /\ reading = "head" /\ headBuffer' = HeadRead /\ Len(HeadRead) = HeadSize
      /\ HeadRead[1] \in PackageTypes /\ chunk' = Leave(HeadTaken)
      /\ reading' = "body" /\ packageBuffer' = HeadRead
      /\ packageSize' = headHandler(HeadRead) + HeadSize
  BY DEF HeadFinished, readHead
<1>3. /\ Framed /\ FramesType' /\ Unparsed' = Unparsed
      /\ HeadRead \in Seq(Bytes) /\ HeadRead \o Leave(HeadTaken) = Unparsed
  BY <1>1, <1>2, HeadTurn DEF FramesInv, FramesType, Discarding, HeadIsInvalid, Unparsed
<1>4. MadeOf(Unparsed \o wire, unhandled)' /\ \A i, j \in 1..Len(ends') : i < j => ends'[i] < ends'[j]
  BY <1>1, <1>3, SameStream
<1> DEFINE stream == Unparsed \o wire
           rest   == Leave(HeadTaken) \o wire
           first  == unhandled[1]
<1>5. /\ rest \in Seq(Bytes) /\ stream = HeadRead \o rest
      /\ HeadSize \in Nat /\ HeadSize > 0
  <2>1. wire \in Seq(Bytes) /\ Leave(HeadTaken) \in Seq(Bytes)
    BY <1>1, <1>2, HeadTurn DEF FramesType
  <2>2. (HeadRead \o Leave(HeadTaken)) \o wire = HeadRead \o (Leave(HeadTaken) \o wire)
    BY <1>3, <2>1, ByteAssociative
  <2> QED BY <1>3, <2>1, <2>2, ConcatProperties, FramingAssumption
<1>6. unhandled # <<>>
  <2>1. Len(stream) >= HeadSize
    BY <1>2, <1>3, <1>5, FirstPart, LenProperties
  <2>2. Len(stream) = EndOf(Len(unhandled))
    BY <1>3 DEF Framed, MadeOf
  <2> QED BY <1>5, <2>1, <2>2, EmptySeq DEF EndOf
<1>7. /\ first \in Packages /\ first \in Seq(Bytes) /\ Len(first) \in Nat /\ Len(first) > 0
      /\ Len(first) <= Len(stream) /\ SubSeq(stream, 1, Len(first)) = first
  BY <1>1, <1>3, <1>6, FirstPackage, PackageIsBytes
<1>8. /\ SubSeq(stream, 1, HeadSize) = HeadRead
      /\ stream \in Seq(Bytes) /\ Len(stream) \in Nat
  BY <1>2, <1>3, <1>5, FirstPart, LenProperties
<1>9. first[1] = HeadRead[1]
  <2>1. \A i \in 1..Len(stream) : stream[i] \in Bytes
    BY <1>8, ElementOfSeq
  <2>2. first[1] = stream[1]
    BY <1>7, <1>8, <2>1, SubSeqProperties
  <2>3. HeadRead[1] = stream[1]
    BY <1>2, <1>3, <1>5, <1>8, ConcatProperties, LenProperties
  <2> QED BY <2>2, <2>3
<1>10. Len(first) >= HeadSize /\ Len(first) = headHandler(SubSeq(first, 1, HeadSize)) + HeadSize
  BY <1>2, <1>7, <1>9, SocketAssumption DEF WellFormed
<1>11. SubSeq(first, 1, HeadSize) = HeadRead
  <2>1. /\ 1 \in 1..Len(stream) /\ Len(first) \in 1..Len(stream)
        /\ 1 \in 1..Len(first) - 1 + 1 /\ HeadSize \in 1..Len(first) - 1 + 1
        /\ 1 + 1 - 1 = 1 /\ 1 + HeadSize - 1 = HeadSize
    BY <1>5, <1>7, <1>8, <1>10
  <2>2. SubSeq(SubSeq(stream, 1, Len(first)), 1, HeadSize) = SubSeq(stream, 1 + 1 - 1, 1 + HeadSize - 1)
    BY <1>8, <2>1, SubSeqOfSubSeq
  <2> QED BY <1>7, <1>8, <2>1, <2>2
<1>12. packageSize' = Len(unhandled'[1]) /\ Len(packageBuffer') <= packageSize'
  BY <1>1, <1>2, <1>5, <1>7, <1>10, <1>11
<1> QED BY <1>1, <1>2, <1>3, <1>4, <1>6, <1>12 DEF FramesInv, Framed

LEMMA HeadInvalidKeepsFrames ==
    ASSUME FramesInv, HeadInvalid, UNCHANGED clientVars
    PROVE  FramesInv'
<1>1. FramesType /\ UNCHANGED <<wire, unhandled, ends>>
  BY DEF FramesInv, clientVars
<1>2. /\ reading = "head" /\ headBuffer' = HeadRead /\ Len(HeadRead) = HeadSize
      /\ HeadRead[1] \notin PackageTypes /\ chunk' = <<>>
      /\ reading' = "head" /\ packageBuffer' = packageBuffer
  BY DEF HeadInvalid, readHead
<1>3. FramesType'
  BY <1>1, <1>2, HeadTurn, EmptySeq DEF FramesType
<1> QED BY <1>2, <1>3 DEF FramesInv, Discarding, HeadIsInvalid

\* The package that is complete is the first one not handled, and what is left of
\* the stream begins where it ends.
LEMMA PackageRead ==
    ASSUME FramesInv, BodyFinished
    PROVE  /\ Framed /\ unhandled # <<>>
           /\ BodyRead = unhandled[1]
           /\ Leave(BodyTaken) \in Seq(Bytes)
           /\ Leave(BodyTaken) \o wire
                = SubSeq(Unparsed \o wire, ends[1] + 1, Len(Unparsed \o wire))
<1>1. FramesType /\ wire \in Seq(Bytes)
  BY DEF FramesInv, FramesType
<1>2. reading = "body" /\ Len(BodyRead) = packageSize
  BY DEF BodyFinished, readBody
<1>3. /\ Framed /\ BodyRead \in Seq(Bytes) /\ Leave(BodyTaken) \in Seq(Bytes)
      /\ BodyRead \o Leave(BodyTaken) = Unparsed
  BY <1>2, BodyTurn
<1>4. unhandled # <<>> /\ Len(BodyRead) = Len(unhandled[1])
  BY <1>2, <1>3 DEF Framed
<1>5. /\ ends[1] = Len(BodyRead)
      /\ SubSeq(Unparsed \o wire, 1, Len(BodyRead)) = unhandled[1]
  BY <1>1, <1>3, <1>4, FirstPackage
<1> DEFINE rest == Leave(BodyTaken) \o wire
<1>6. rest \in Seq(Bytes) /\ Unparsed \o wire = BodyRead \o rest
  <2>1. (BodyRead \o Leave(BodyTaken)) \o wire = BodyRead \o (Leave(BodyTaken) \o wire)
    BY <1>1, <1>3, ByteAssociative
  <2> QED BY <1>1, <1>3, <2>1, ConcatProperties
<1>7. /\ SubSeq(BodyRead \o rest, 1, Len(BodyRead)) = BodyRead
      /\ SubSeq(BodyRead \o rest, Len(BodyRead) + 1, Len(BodyRead \o rest)) = rest
  BY <1>3, <1>6, FirstPart
<1> QED BY <1>3, <1>4, <1>5, <1>6, <1>7

LEMMA PackageKeepsFrames ==
    ASSUME FramesInv, BodyFinished,
           unhandled' = Tail(unhandled),
           ends' = [i \in 1..Len(ends) - 1 |-> ends[i + 1] - ends[1]],
           UNCHANGED wire
    PROVE  FramesInv'
<1> DEFINE stream == Unparsed \o wire
           rest   == Leave(BodyTaken) \o wire
           count  == Len(ends)
           NewEnd(i) == IF i = 0 THEN 0 ELSE ends'[i]
<1>1. /\ FramesType /\ Framed /\ unhandled # <<>> /\ wire \in Seq(Bytes)
      /\ unhandled \in Seq(Packages) /\ Len(unhandled) = count
      /\ Leave(BodyTaken) \in Seq(Bytes)
      /\ rest = SubSeq(stream, ends[1] + 1, Len(stream))
  BY PackageRead DEF FramesInv, FramesType
<1>2. /\ reading' = "head" /\ headBuffer' = <<>> /\ packageBuffer' = <<>>
      /\ chunk' = Leave(BodyTaken)
  BY DEF BodyFinished, readBody, reset
<1>3. /\ count \in Nat /\ count > 0 /\ \A i \in 1..count : ends[i] \in Nat
      /\ \A i, j \in 1..count : i < j => ends[i] < ends[j]
      /\ stream \in Seq(Bytes) /\ Len(stream) \in Nat /\ Len(stream) = ends[count]
  <2>1. count \in Nat /\ count > 0 /\ ends \in Seq(Nat)
    BY <1>1, LenProperties, EmptySeq DEF FramesType
  <2>2. /\ \A i \in 1..count : ends[i] \in Nat
        /\ stream \in Seq(Bytes) /\ Len(stream) \in Nat
    BY <1>1, <2>1, ElementOfSeq, BufferIsBytes
  <2>3. Len(stream) = EndOf(count)
    BY <1>1 DEF Framed, MadeOf
  <2> QED BY <1>1, <2>1, <2>2, <2>3 DEF Framed, EndOf
<1>4. \A i \in 1..count - 1 : ends[i + 1] - ends[1] \in Nat
  BY <1>3
<1>5. /\ ends' \in Seq(Nat) /\ Len(ends') = count - 1
      /\ \A i \in 1..count - 1 : ends'[i] = ends[i + 1] - ends[1]
  BY <1>3, <1>4, IsASeq, LenProperties
<1>6. /\ unhandled' \in Seq(Packages) /\ Len(unhandled') = count - 1
      /\ \A i \in 1..count - 1 : unhandled'[i] = unhandled[i + 1]
  BY <1>1, <1>3, HeadTailProperties
<1>7. FramesType'
  BY <1>1, <1>2, <1>5, <1>6, EmptySeq DEF FramesType
<1>8. Unparsed' \o wire' = rest
  <2>1. <<>> \o Leave(BodyTaken) = Leave(BodyTaken)
    BY <1>1, ConcatEmptySeq
  <2> QED BY <1>2, <2>1 DEF Unparsed
<1>9. \A i \in 0..count - 1 : NewEnd(i) = ends[i + 1] - ends[1]
  BY <1>3, <1>5
<1>10. Len(rest) = NewEnd(count - 1)
  <2>1. ends[1] <= ends[count] /\ ends[1] \in Nat /\ ends[count] \in Nat
    BY <1>3
  <2>2. \A i \in ends[1] + 1..Len(stream) : stream[i] \in Bytes
    BY <1>3, <2>1, ElementOfSeq
  <2>3. Len(rest) = Len(stream) - ends[1]
    <3>1. ends[1] + 1 \in Int /\ Len(stream) \in Int
          /\ (IF ends[1] + 1 <= Len(stream) THEN Len(stream) - (ends[1] + 1) + 1 ELSE 0)
               = Len(stream) - ends[1]
      BY <1>3, <2>1
    <3>2. Len(SubSeq(stream, ends[1] + 1, Len(stream)))
            = IF ends[1] + 1 <= Len(stream) THEN Len(stream) - (ends[1] + 1) + 1 ELSE 0
      BY <2>2, <3>1, SubSeqProperties
    <3> QED BY <1>1, <3>1, <3>2
  <2>4. count - 1 \in 0..count - 1 /\ (count - 1) + 1 = count
    BY <1>3
  <2>5. NewEnd(count - 1) = ends[count] - ends[1]
    BY <1>9, <2>4
  <2> HIDE DEF NewEnd, rest
  <2> QED BY <1>3, <2>3, <2>5
<1>11. ASSUME NEW i \in 1..count - 1
       PROVE  SubSeq(rest, NewEnd(i - 1) + 1, NewEnd(i)) = unhandled'[i]
  <2> DEFINE k == ends[1]
             a == ends[i]
             b == ends[i + 1]
  <2>1. /\ k \in Nat /\ a \in Nat /\ b \in Nat /\ k <= a /\ a < b /\ b <= Len(stream)
    BY <1>3
  <2>2. SubSeq(SubSeq(stream, k + 1, Len(stream)), a - k + 1, b - k) = SubSeq(stream, a + 1, b)
    BY <1>3, <2>1, PartOfRest
  <2>3. NewEnd(i - 1) = a - k /\ NewEnd(i) = b - k
    BY <1>3, <1>9
  <2>4. SubSeq(stream, EndOf(i) + 1, EndOf(i + 1)) = unhandled[i + 1]
    <3>1. i + 1 \in 1..Len(unhandled) /\ (i + 1) - 1 = i
      BY <1>1, <1>3
    <3> QED BY <1>1, <3>1 DEF Framed, MadeOf
  <2>5. EndOf(i) = a /\ EndOf(i + 1) = b
    BY <1>3 DEF EndOf
  <2> QED BY <1>1, <1>6, <2>2, <2>3, <2>4, <2>5
<1>12. MadeOf(Unparsed \o wire, unhandled)'
  BY <1>6, <1>8, <1>10, <1>11 DEF MadeOf, EndOf
<1>13. \A i, j \in 1..Len(ends') : i < j => ends'[i] < ends'[j]
  BY <1>3, <1>5
<1>14. Len(headBuffer') < HeadSize
  BY <1>2, EmptySeq, FramingAssumption
<1> QED BY <1>2, <1>7, <1>12, <1>13, <1>14 DEF FramesInv, Framed

LEMMA SendKeepsFrames ==
    ASSUME FramesInv, NEW package \in Packages, ClientSends(package)
    PROVE  FramesInv'
<1> DEFINE stream == Unparsed \o wire
           count  == Len(ends)
<1>1. /\ FramesType /\ wire \in Seq(Bytes) /\ Unparsed \in Seq(Bytes)
      /\ stream \in Seq(Bytes) /\ Len(stream) \in Nat
      /\ package \in Seq(Bytes) /\ Len(package) \in Nat /\ Len(package) > 0
  BY BufferIsBytes, PackageIsBytes DEF FramesInv, FramesType
<1>2. /\ UNCHANGED framingVars
      /\ wire' = wire \o package
      /\ unhandled' = Append(unhandled, package)
      /\ ends' = Append(ends, EndOf(count) + Len(package))
  BY DEF ClientSends
<1>3. /\ count \in Nat /\ Len(unhandled) = count
      /\ \A i \in 1..count : ends[i] \in Nat
      /\ EndOf(count) \in Nat
  BY <1>1, LenProperties, ElementOfSeq DEF FramesType, EndOf
<1>4. /\ ends' \in Seq(Nat) /\ Len(ends') = count + 1
      /\ \A i \in 1..count : ends'[i] = ends[i]
      /\ ends'[count + 1] = EndOf(count) + Len(package)
  BY <1>1, <1>2, <1>3, AppendProperties DEF FramesType
<1>5. /\ unhandled' \in Seq(Packages) /\ Len(unhandled') = count + 1
      /\ \A i \in 1..count : unhandled'[i] = unhandled[i]
      /\ unhandled'[count + 1] = package
  BY <1>1, <1>2, <1>3, AppendProperties DEF FramesType
<1>6. FramesType'
  BY <1>1, <1>2, <1>4, <1>5, ConcatProperties DEF FramesType, framingVars
<1>7. CASE Discarding
  BY <1>2, <1>6, <1>7 DEF FramesInv, Discarding, HeadIsInvalid, framingVars
<1>8. CASE Framed
  <2>1. Unparsed' \o wire' = stream \o package
    <3>1. (Unparsed \o wire) \o package = Unparsed \o (wire \o package)
      BY <1>1, ByteAssociative
    <3> QED BY <1>2, <3>1 DEF Unparsed, framingVars
  <2>2. /\ Len(stream) = EndOf(count)
        /\ \A i \in 1..count : SubSeq(stream, EndOf(i - 1) + 1, EndOf(i)) = unhandled[i]
        /\ \A i, j \in 1..count : i < j => ends[i] < ends[j]
    BY <1>3, <1>8 DEF Framed, MadeOf
  <2> DEFINE NewEnd(i) == IF i = 0 THEN 0 ELSE ends'[i]
  <2>3. /\ \A i \in 0..count : NewEnd(i) = EndOf(i)
        /\ NewEnd(count + 1) = EndOf(count) + Len(package)
    BY <1>3, <1>4 DEF EndOf
  <2>4. /\ Len(stream \o package) = NewEnd(count + 1)
        /\ SubSeq(stream \o package, Len(stream) + 1, Len(stream \o package)) = package
    BY <1>1, <2>2, <2>3, FirstPart
  <2>5. ASSUME NEW i \in 1..count
        PROVE  SubSeq(stream \o package, NewEnd(i - 1) + 1, NewEnd(i)) = unhandled[i]
    <3>1. /\ i - 1 \in 0..count /\ i \in 0..count
      BY <1>3
    <3>2. /\ EndOf(i - 1) \in Nat /\ EndOf(i) \in Nat /\ EndOf(i) <= Len(stream)
          /\ EndOf(i - 1) < EndOf(i)
      <4>1. CASE i = 1
        <5>1. unhandled # <<>>
          BY <1>3, <4>1, EmptySeq
        <5>2. unhandled[1] \in Packages /\ ends[1] = Len(unhandled[1])
          BY <1>1, <1>8, <5>1, FirstPackage
        <5>3. ends[1] \in Nat /\ ends[1] > 0
          BY <5>2, PackageIsBytes
        <5> QED BY <1>1, <1>3, <1>8, <3>1, <4>1, <5>3, EndsInStream DEF EndOf
      <4>2. CASE i # 1
        <5>1. i - 1 \in 1..count /\ ends[i - 1] < ends[i]
          BY <1>3, <2>2, <4>2
        <5> QED BY <1>1, <1>3, <1>8, <3>1, <4>2, <5>1, EndsInStream DEF EndOf
      <4> QED BY <4>1, <4>2
    <3>3. EndOf(i - 1) + 1 \in 1..Len(stream) /\ EndOf(i) \in 1..Len(stream)
      BY <1>1, <3>2
    <3>4. SubSeq(stream \o package, EndOf(i - 1) + 1, EndOf(i))
            = SubSeq(stream, EndOf(i - 1) + 1, EndOf(i))
      BY <1>1, <3>3, SubSeqOfConcat1
    <3> QED BY <2>2, <2>3, <3>1, <3>4
  <2>6. \A i \in 1..count + 1 :
           SubSeq(stream \o package, NewEnd(i - 1) + 1, NewEnd(i)) = unhandled'[i]
    <3>1. /\ NewEnd((count + 1) - 1) = Len(stream)
          /\ NewEnd(count + 1) = Len(stream \o package)
      <4>1. (count + 1) - 1 = count /\ count \in 0..count
        BY <1>3
      <4> HIDE DEF NewEnd
      <4> QED BY <2>2, <2>3, <2>4, <4>1
    <3>2. SubSeq(stream \o package, NewEnd((count + 1) - 1) + 1, NewEnd(count + 1)) = package
      BY <2>4, <3>1
    <3>3. \A i \in 1..count + 1 : i \in 1..count \/ i = count + 1
      BY <1>3
    <3> HIDE DEF NewEnd
    <3> QED BY <1>5, <2>5, <3>2, <3>3
  <2>7. MadeOf(Unparsed \o wire, unhandled)'
    BY <1>5, <2>1, <2>4, <2>6 DEF MadeOf, EndOf
  <2>8. \A i, j \in 1..Len(ends') : i < j => ends'[i] < ends'[j]
    <3>1. \A i \in 1..count : ends[i] <= EndOf(count)
      BY <1>3, <2>2 DEF EndOf
    <3>2. ASSUME NEW i \in 1..count, NEW j \in 1..count + 1, i < j
          PROVE  ends'[i] < ends'[j]
      <4>1. CASE j \in 1..count
        BY <1>4, <2>2, <3>2, <4>1
      <4>2. CASE j = count + 1
        BY <1>1, <1>3, <1>4, <3>1, <4>2
      <4> QED BY <1>3, <4>1, <4>2
    <3>3. \A i, j \in 1..count + 1 : i < j => i \in 1..count
      BY <1>3
    <3> QED BY <1>4, <3>2, <3>3
  <2>9. reading' = "body" => unhandled' # <<>> /\ unhandled'[1] = unhandled[1]
    <3>1. reading' = "body" => 1 \in 1..count
      BY <1>2, <1>3, <1>8, EmptySeq, LenProperties DEF Framed, FramesType, framingVars
    <3> QED BY <1>3, <1>5, <3>1, EmptySeq
  <2> QED BY <1>2, <1>6, <1>8, <2>7, <2>8, <2>9 DEF FramesInv, Framed, framingVars
<1> QED BY <1>7, <1>8 DEF FramesInv

LEMMA FramesInductive == FramesInv /\ [Next]_vars => FramesInv'
<1> SUFFICES ASSUME FramesInv, [Next]_vars PROVE FramesInv'
  OBVIOUS
<1> DEFINE all == <<framingVars, wire, unhandled, ends>>
<1>1. ASSUME UNCHANGED all PROVE FramesInv'
  BY <1>1 DEF framingVars, FramesInv, FramesType, Discarding, HeadIsInvalid, Framed, MadeOf,
              Unparsed, EndOf
<1>2. ASSUME NEW package \in Packages, ClientSends(package) PROVE FramesInv'
  BY <1>2, SendKeepsFrames
<1>3. ASSUME NEW n \in 1..Len(wire), Data(n) PROVE FramesInv'
  BY <1>3, DataKeepsFrames
<1>4. ASSUME Parse PROVE FramesInv'
  BY <1>4, UnfinishedKeepsFrames, HeadFinishedKeepsFrames DEF Parse
<1>5. ASSUME ParseInvalid PROVE FramesInv'
  BY <1>5, HeadInvalidKeepsFrames DEF ParseInvalid
<1>6. ASSUME ParsePackage PROVE FramesInv'
  BY <1>6, PackageKeepsFrames DEF ParsePackage
<1>7. ASSUME End PROVE FramesInv'
  <2>1. /\ reading' = "head" /\ headBuffer' = <<>> /\ packageBuffer' = <<>>
        /\ chunk' = <<>> /\ wire' = <<>> /\ unhandled' = <<>> /\ ends' = <<>>
    BY <1>7 DEF End, onend, reset, Parsing
  <2>2. FramesType'
    BY <2>1, EmptySeq DEF FramesType
  <2>3. /\ <<>> \o <<>> \o <<>> = <<>> /\ Len(<<>>) = 0 /\ 0 < HeadSize
    BY FramingAssumption, EmptySeq, ConcatEmptySeq
  <2> QED BY <2>1, <2>2, <2>3 DEF FramesInv, Framed, MadeOf, Unparsed, EndOf
<1>8. ASSUME Error \/ IdleTimeout \/ TransportClosed \/ HeartbeatTimeout \/ Tick \/ Send \/ Kick
      PROVE FramesInv'
  BY <1>1, <1>8 DEF Error, IdleTimeout, TransportClosed, HeartbeatTimeout, Tick, Send, Kick,
                    clientVars
<1>9. ASSUME NEW answer \in {"respond", "refuse"}, UserHandshake(answer) PROVE FramesInv'
  BY <1>1, <1>9 DEF UserHandshake, clientVars
<1>10. ASSUME UNCHANGED vars PROVE FramesInv'
  BY <1>1, <1>10 DEF vars, socketVars, clientVars
<1> QED
  BY <1>2, <1>3, <1>4, <1>5, <1>6, <1>7, <1>8, <1>9, <1>10 DEF Next

LEMMA FramesInitial == Init => FramesInv
<1> SUFFICES ASSUME Init PROVE FramesInv
  OBVIOUS
<1>1. /\ reading = "head" /\ headBuffer = <<>> /\ packageBuffer = <<>>
      /\ chunk = <<>> /\ wire = <<>> /\ unhandled = <<>> /\ ends = <<>>
  BY DEF Init, FramingInit
<1>2. FramesType
  BY <1>1, EmptySeq DEF FramesType
<1>3. /\ <<>> \o <<>> \o <<>> = <<>> /\ Len(<<>>) = 0 /\ 0 < HeadSize
  BY FramingAssumption, EmptySeq, ConcatEmptySeq
<1> QED BY <1>1, <1>2, <1>3 DEF FramesInv, Framed, MadeOf, Unparsed, EndOf

\* However the stream is cut into chunks, what was delivered and not handled and
\* what is under way are the packages not handled, until a head of no known type.
THEOREM FramesCorrect == Spec => []FramesIntact
<1>1. FramesInv => FramesIntact
  BY DEF FramesInv, Discarding, Framed, FramesIntact
<1> QED BY <1>1, FramesInitial, FramesInductive, PTL DEF Spec

\* A package is handled as the client sent it, and in its turn: what readBody
\* hands over is the first package not handled.
THEOREM HandledInTurn == Spec => [][ParsePackage => BodyRead = unhandled[1]]_vars
<1>1. FramesInv /\ [Next]_vars => [ParsePackage => BodyRead = unhandled[1]]_vars
  BY PackageRead DEF ParsePackage
<1> QED BY <1>1, FramesInitial, FramesInductive, PTL DEF Spec

-----------------------------------------------------------------------------
(* Types. *)

\* A handshake that the application has yet to answer came in a package that has
\* been handled.
AskedOfHandled == asked + Len(unhandled) <= sent

SocketTypes == /\ state \in States /\ transport \in TransportStates
               /\ ticks \in Seq(Ticks)
               /\ timer \in BOOLEAN /\ client \in BOOLEAN /\ sessionOpen \in BOOLEAN
               /\ disconnects \in Nat
               /\ told \subseteq Kinds

BufferTypes == /\ packageSize \in Nat
               /\ Len(headBuffer) <= HeadSize
               /\ Len(packageBuffer) <= packageSize

CountTypes == /\ sent \in Nat /\ asked \in Nat /\ sent <= MaxPackages
              /\ AskedOfHandled

TypeInv == FramesInv /\ SocketTypes /\ BufferTypes /\ CountTypes

LEMMA QueueTypes ==
    ASSUME NEW queue \in Seq(Ticks)
    PROVE  /\ \A tick \in Ticks : Append(queue, tick) \in Seq(Ticks)
           /\ queue # <<>> => Tail(queue) \in Seq(Ticks)
BY AppendProperties, HeadTailProperties

LEMMA CloseTypes ==
    ASSUME SocketTypes, NEW queue \in Seq(Ticks), EmitClose(queue)
    PROVE  /\ timer' \in BOOLEAN /\ client' \in BOOLEAN /\ sessionOpen' \in BOOLEAN
           /\ disconnects' \in Nat /\ ticks' \in Seq(Ticks)
<1>1. Append(queue, "disconnect") \in Seq(Ticks)
  BY QueueTypes DEF Ticks
<1>2. CASE disconnects = 0
  <2>1. /\ disconnects' = 1 /\ timer' = FALSE /\ client' = FALSE /\ sessionOpen' = FALSE
        /\ ticks' \in {queue, Append(queue, "disconnect")}
    BY <1>2 DEF EmitClose, CloseSession
  <2> QED BY <1>1, <2>1
<1>3. CASE disconnects # 0
  BY <1>3 DEF SocketTypes, EmitClose, heartbeatVars
<1> QED BY <1>2, <1>3

LEMMA DisconnectTypes ==
    ASSUME SocketTypes, NEW queue \in Seq(Ticks), disconnect(queue), UNCHANGED told
    PROVE  SocketTypes'
<1>1. CASE state = "closed"
  BY <1>1 DEF SocketTypes, disconnect, heartbeatVars
<1>2. CASE state # "closed"
  <2>1. /\ timer' \in BOOLEAN /\ client' \in BOOLEAN /\ sessionOpen' \in BOOLEAN
        /\ disconnects' \in Nat /\ ticks' \in Seq(Ticks)
    BY <1>2, CloseTypes DEF disconnect
  <2>2. state' \in States /\ transport' \in TransportStates
    BY <1>2 DEF SocketTypes, disconnect, CloseTransport, States, TransportStates
  <2> QED BY <2>1, <2>2 DEF SocketTypes
<1> QED BY <1>1, <1>2

LEMMA HandleTypes ==
    ASSUME SocketTypes, NEW package, handle(package)
    PROVE  SocketTypes' /\ asked' \in {asked, asked + 1}
<1>1. ticks \in Seq(Ticks) /\ Append(ticks, "disconnect") \in Seq(Ticks)
  BY QueueTypes DEF SocketTypes, Ticks
<1>2. CASE handleHandshake(package)
  BY <1>1, <1>2 DEF SocketTypes, handleHandshake, processError, Write, heartbeatVars, Kinds
<1>3. CASE handleHandshakeAck
  BY <1>3 DEF SocketTypes, handleHandshakeAck, heartbeat, heartbeatVars, Write, sessionVars, Kinds, States
<1>4. CASE handleHeartbeat
  BY <1>4 DEF SocketTypes, handleHeartbeat, heartbeat, heartbeatVars, Write, sessionVars, Kinds
<1>5. CASE disconnect(ticks) /\ UNCHANGED <<asked, told>>
  BY <1>1, <1>5, DisconnectTypes
<1>6. CASE handleNothing(package[1])
  BY <1>6 DEF SocketTypes, handleNothing, Ignore, heartbeatVars, sessionVars
<1> QED BY <1>2, <1>3, <1>4, <1>5, <1>6 DEF handle

LEMMA SocketTypesInductive == SocketTypes /\ [Next]_vars => SocketTypes'
<1> SUFFICES ASSUME SocketTypes, [Next]_vars PROVE SocketTypes'
  OBVIOUS
<1>1. /\ ticks \in Seq(Ticks)
      /\ \A tick \in Ticks : Append(ticks, tick) \in Seq(Ticks)
      /\ ticks # <<>> => Tail(ticks) \in Seq(Ticks)
  BY QueueTypes DEF SocketTypes
<1>2. ASSUME NEW package \in Packages, ClientSends(package) PROVE SocketTypes'
  BY <1>2 DEF SocketTypes, ClientSends, heartbeatVars, sessionVars
<1>3. ASSUME NEW n \in 1..Len(wire), Data(n) PROVE SocketTypes'
  BY <1>3 DEF SocketTypes, Data, heartbeatVars, sessionVars
<1>4. ASSUME Parse PROVE SocketTypes'
  BY <1>4 DEF SocketTypes, Parse, socketVars, heartbeatVars, sessionVars
<1>5. ASSUME ParseInvalid PROVE SocketTypes'
  BY <1>5 DEF SocketTypes, ParseInvalid, CloseTransport, heartbeatVars, sessionVars, TransportStates
<1>6. ASSUME ParsePackage PROVE SocketTypes'
  BY <1>6, HandleTypes DEF ParsePackage
<1>7. ASSUME End PROVE SocketTypes'
  BY <1>7 DEF SocketTypes, End, heartbeatVars, sessionVars, TransportStates
<1>8. ASSUME Error PROVE SocketTypes'
  BY <1>1, <1>8 DEF SocketTypes, Error, CloseSession, TransportStates, Ticks
<1>9. ASSUME IdleTimeout PROVE SocketTypes'
  BY <1>9 DEF SocketTypes, IdleTimeout, heartbeatVars, sessionVars, TransportStates
<1>10. ASSUME TransportClosed PROVE SocketTypes'
  <2>1. EmitClose(ticks) /\ transport' = "closed" /\ UNCHANGED <<state, told>>
    BY <1>10 DEF TransportClosed
  <2> QED BY <1>1, <2>1, CloseTypes DEF SocketTypes, TransportStates
<1>11. ASSUME HeartbeatTimeout PROVE SocketTypes'
  BY <1>1, <1>11, DisconnectTypes DEF HeartbeatTimeout
<1>12. ASSUME Tick PROVE SocketTypes'
  <2>1. Tail(ticks) \in Seq(Ticks) /\ Append(Tail(ticks), "disconnect") \in Seq(Ticks)
    BY <1>1, <1>12, QueueTypes DEF Tick, Ticks
  <2>2. CASE TickRespond
    BY <2>1, <2>2 DEF SocketTypes, TickRespond, Write, heartbeatVars, States, Kinds
  <2>3. CASE TickRefuse
    BY <2>1, <2>3 DEF SocketTypes, TickRefuse, processError, Write, heartbeatVars, Kinds
  <2>4. CASE TickDisconnect
    BY <2>1, <2>4, DisconnectTypes DEF TickDisconnect
  <2> QED BY <1>12, <2>2, <2>3, <2>4 DEF Tick
<1>13. ASSUME NEW answer \in {"respond", "refuse"}, UserHandshake(answer) PROVE SocketTypes'
  BY <1>1, <1>13 DEF SocketTypes, UserHandshake, heartbeatVars, Ticks
<1>14. ASSUME Send PROVE SocketTypes'
  BY <1>14 DEF SocketTypes, Send, sendRaw, Write, heartbeatVars, sessionVars, Kinds
<1>15. ASSUME Kick PROVE SocketTypes'
  BY <1>1, <1>15 DEF SocketTypes, Kick, sendRaw, Write, CloseSession, heartbeatVars, Kinds, Ticks
<1>16. ASSUME UNCHANGED vars PROVE SocketTypes'
  BY <1>16 DEF SocketTypes, vars, socketVars, heartbeatVars, sessionVars
<1> QED
  BY <1>2, <1>3, <1>4, <1>5, <1>6, <1>7, <1>8, <1>9, <1>10, <1>11, <1>12, <1>13, <1>14,
     <1>15, <1>16 DEF Next

\* The buffers hold no more than a head and the package under way.
LEMMA BufferTypesInductive == FramesInv /\ BufferTypes /\ [Next]_vars => BufferTypes'
<1> SUFFICES ASSUME FramesInv, BufferTypes, [Next]_vars PROVE BufferTypes'
  OBVIOUS
<1>1. CASE UNCHANGED <<reading, headBuffer, packageSize, packageBuffer>>
  BY <1>1 DEF BufferTypes
<1>2. CASE readHead /\ UNCHANGED <<packageSize, packageBuffer>>
  <2>1. FramesInv'
    BY FramesInductive
  <2> QED BY <1>2, HeadTurn, FramingAssumption DEF BufferTypes, readHead, HeadTaken, Taken
<1>3. CASE HeadFinished
  <2>1. /\ FramesInv' /\ reading' = "body" /\ headBuffer' = HeadRead /\ Len(HeadRead) = HeadSize
    BY <1>3, FramesInductive DEF HeadFinished, readHead
  <2>2. Framed' /\ FramesType'
    BY <2>1 DEF FramesInv, Discarding, HeadIsInvalid
  <2>3. unhandled' # <<>> /\ packageSize' = Len(unhandled'[1]) /\ Len(packageBuffer') <= packageSize'
    BY <2>1, <2>2 DEF Framed
  <2>4. unhandled'[1] \in Packages
    BY <2>2, <2>3, ElementOfSeq, EmptySeq, LenProperties DEF FramesType
  <2> QED BY <2>1, <2>3, <2>4, PackageIsBytes, FramingAssumption DEF BufferTypes
<1>4. CASE BodyUnfinished
  BY <1>4, BodyTurn DEF BufferTypes, BodyUnfinished, readBody
<1>5. CASE reset
  BY <1>5, EmptySeq, FramingAssumption DEF BufferTypes, reset
<1> QED
  BY <1>1, <1>2, <1>3, <1>4, <1>5 DEF Next, vars, framingVars, ClientSends, Data, ondata, Parse,
     HeadUnfinished, ParseInvalid, HeadInvalid, ParsePackage, BodyFinished, End, onend, Error,
     IdleTimeout, TransportClosed, HeartbeatTimeout, Tick, UserHandshake, Send, Kick

\* Every package is counted once when it is sent, and leaves the history when it
\* is handled.
LEMMA CountTypesInductive == TypeInv /\ [Next]_vars => CountTypes'
<1> SUFFICES ASSUME TypeInv, [Next]_vars PROVE CountTypes'
  OBVIOUS
<1>1. /\ sent \in Nat /\ asked \in Nat /\ sent <= MaxPackages /\ asked + Len(unhandled) <= sent
      /\ unhandled \in Seq(Packages) /\ Len(unhandled) \in Nat /\ MaxPackages \in Nat
  BY LenProperties, SocketAssumption DEF TypeInv, CountTypes, AskedOfHandled, FramesInv, FramesType
<1>2. ASSUME NEW package \in Packages, ClientSends(package) PROVE CountTypes'
  <2>1. Len(unhandled') = Len(unhandled) + 1 /\ sent' = sent + 1 /\ sent < MaxPackages /\ asked' = asked
    BY <1>1, <1>2, AppendProperties DEF ClientSends
  <2> QED BY <1>1, <2>1 DEF CountTypes, AskedOfHandled
<1>3. ASSUME ParsePackage PROVE CountTypes'
  <2>1. unhandled # <<>>
    BY <1>3, PackageRead DEF TypeInv, ParsePackage
  <2>2. Len(unhandled') = Len(unhandled) - 1 /\ sent' = sent
    BY <1>1, <1>3, <2>1, HeadTailProperties DEF ParsePackage
  <2>3. asked' \in {asked, asked + 1}
    BY <1>3, HandleTypes DEF TypeInv, ParsePackage
  <2>4. Len(unhandled') \in Nat
    BY <1>1, <1>3, <2>1, HeadTailProperties, LenProperties DEF ParsePackage
  <2> QED BY <1>1, <2>2, <2>3, <2>4 DEF CountTypes, AskedOfHandled
<1>4. ASSUME End PROVE CountTypes'
  BY <1>1, <1>4, EmptySeq DEF End, CountTypes, AskedOfHandled
<1>5. ASSUME NEW answer \in {"respond", "refuse"}, UserHandshake(answer) PROVE CountTypes'
  BY <1>1, <1>5 DEF UserHandshake, clientVars, CountTypes, AskedOfHandled
<1>6. CASE UNCHANGED <<sent, asked, unhandled>>
  BY <1>1, <1>6 DEF CountTypes, AskedOfHandled
<1>7. CASE UNCHANGED vars
  BY <1>6, <1>7 DEF vars, socketVars, clientVars
<1> QED
  BY <1>2, <1>3, <1>4, <1>5, <1>6, <1>7 DEF Next, Data, Parse, ParseInvalid, socketVars,
     clientVars, Error, IdleTimeout, TransportClosed, HeartbeatTimeout, Tick, Send, Kick

\* All variables have their types.  The count of the handshakes that are asked is
\* bounded only because the socket handles no package twice.
THEOREM TypeCorrect == Spec => []TypeOK
<1>1. Init => TypeInv
  <2> SUFFICES ASSUME Init PROVE TypeInv
    OBVIOUS
  <2>1. FramesInv
    BY FramesInitial
  <2>2. SocketTypes
    BY EmptySeq DEF Init, SocketTypes, States, TransportStates, Kinds
  <2>3. BufferTypes /\ CountTypes
    BY EmptySeq, FramingAssumption, SocketAssumption
    DEF Init, FramingInit, BufferTypes, CountTypes, AskedOfHandled
  <2> QED BY <2>1, <2>2, <2>3 DEF TypeInv
<1>2. TypeInv /\ [Next]_vars => TypeInv'
  BY FramesInductive, SocketTypesInductive, BufferTypesInductive, CountTypesInductive DEF TypeInv
<1>3. TypeInv => TypeOK
  <2> SUFFICES ASSUME TypeInv PROVE TypeOK
    OBVIOUS
  <2>1. FramingTypeOK
    BY DEF TypeInv, FramesInv, FramesType, BufferTypes, FramingTypeOK
  <2>2. sent \in 0..MaxPackages /\ asked \in 0..MaxPackages
    BY LenProperties, SocketAssumption DEF TypeInv, CountTypes, AskedOfHandled, FramesInv, FramesType
  <2> QED BY <2>1, <2>2 DEF TypeInv, FramesInv, FramesType, SocketTypes, TypeOK
<1> QED BY <1>1, <1>2, <1>3, PTL DEF Spec
=============================================================================
