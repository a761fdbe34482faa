----------------------------- MODULE TcpFraming -----------------------------
(***************************************************************************)
(* lib/connectors/hybrid/tcpsocket.js: packages are cut out of the chunks  *)
(* of bytes a TCP connection delivers.  A package is a head (its type and  *)
(* the size of its body) and a body; a chunk may hold a part of a package  *)
(* or several.  One turn of the loop of ondata is an operation here, as a  *)
(* package that is complete is handled before the next bytes are read.     *)
(* The operations are composed with those of the socket in HybridSocket.   *)
(***************************************************************************)
EXTENDS Naturals, Sequences, SequencesExt

CONSTANTS HeadSize,        \* bytes of a head: the type, then the size
          PackageTypes     \* the types that checkTypeData lets pass

ASSUME FramingAssumption == /\ HeadSize \in Nat \ {0}
                            /\ PackageTypes \subseteq 0..255

VARIABLES chunk,           \* what is left of the chunk that ondata works on
          reading,         \* the state: "head" or "body"
          headBuffer,      \* the bytes of the head read so far
          packageSize,     \* the size of the package, head included
          packageBuffer    \* its bytes read so far

framingVars == <<chunk, reading, headBuffer, packageSize, packageBuffer>>

Bytes == 0..255

\* The bytes of the stream that were delivered and not passed on as a package.
\* A head stays in its buffer until the package is complete.
Unparsed == (IF reading = "body" THEN packageBuffer ELSE headBuffer) \o chunk

\* There is something to do in the loop of ondata: bytes are left, or the head
\* just read belongs to a package without a body.
Parsing == \/ chunk # <<>>
           \/ reading = "body" /\ Len(packageBuffer) = packageSize

\* The size of the body: what utils.headHandler reads after the type.
headHandler(head) == FoldLeft(LAMBDA len, byte: 256 * len + byte, 0, Tail(head))

\* readHead and readBody take what they need and what there is.
Taken(wanted) == IF wanted <= Len(chunk) THEN wanted ELSE Len(chunk)
Take(n)       == SubSeq(chunk, 1, n)
Leave(n)      == SubSeq(chunk, n + 1, Len(chunk))

FramingInit == /\ chunk = <<>>
               /\ reading = "head"
               /\ headBuffer = <<>>
               /\ packageSize = 0
               /\ packageBuffer = <<>>

resetKeepsHead == /\ reading' = "head"
                  /\ packageSize' = 0
                  /\ packageBuffer' = <<>>
                  /\ UNCHANGED headBuffer
reset == /\ reading' = "head"
         /\ headBuffer' = <<>>
         /\ packageSize' = 0
         /\ packageBuffer' = <<>>

\* 'data' of the transport.
ondata(bytes) == /\ ~Parsing
                 /\ chunk' = bytes
                 /\ UNCHANGED <<reading, headBuffer, packageSize, packageBuffer>>

\* readHead: the head as it is when this turn of the loop has read from it.
HeadTaken == Taken(HeadSize - Len(headBuffer))
HeadRead  == headBuffer \o Take(HeadTaken)

readHead == /\ reading = "head"
            /\ chunk # <<>>
            /\ headBuffer' = HeadRead

HeadUnfinished == /\ readHead
                  /\ Len(HeadRead) < HeadSize
                  /\ chunk' = Leave(HeadTaken)
                  /\ UNCHANGED <<reading, packageSize, packageBuffer>>

HeadFinished == /\ readHead
                /\ Len(HeadRead) = HeadSize
                /\ HeadRead[1] \in PackageTypes
                /\ chunk' = Leave(HeadTaken)
                /\ reading' = "body"
                /\ packageSize' = headHandler(HeadRead) + HeadSize
                /\ packageBuffer' = HeadRead

\* The rest of the chunk is dropped and the connection closed by the caller.
\* The buffer stays full: whatever comes next is dropped for the same head.
HeadInvalid == /\ readHead
               /\ Len(HeadRead) = HeadSize
               /\ HeadRead[1] \notin PackageTypes
               /\ chunk' = <<>>
               /\ UNCHANGED <<reading, packageSize, packageBuffer>>

\* readBody
BodyTaken == Taken(packageSize - Len(packageBuffer))
BodyRead  == packageBuffer \o Take(BodyTaken)

readBody == /\ reading = "body"
            /\ Parsing
            /\ chunk' = Leave(BodyTaken)

BodyUnfinished == /\ readBody
                  /\ Len(BodyRead) < packageSize
                  /\ packageBuffer' = BodyRead
                  /\ UNCHANGED <<reading, headBuffer, packageSize>>

\* The package BodyRead is complete: the caller handles it.
BodyFinished == /\ readBody
                /\ Len(BodyRead) = packageSize
                /\ reset

\* 'end' of the transport: a package that is not complete is forgotten.  The
\* state is set to closed and at once back to "head" by reset.
onend == /\ ~Parsing
         /\ reset
         /\ UNCHANGED chunk

FramingTypeOK == /\ chunk \in Seq(Bytes)
                 /\ reading \in {"head", "body"}
                 /\ headBuffer \in Seq(Bytes) /\ Len(headBuffer) <= HeadSize
                 /\ packageSize \in Nat
                 /\ packageBuffer \in Seq(Bytes) /\ Len(packageBuffer) <= packageSize
=============================================================================
