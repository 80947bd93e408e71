------------------------------- MODULE Framing -------------------------------
(***************************************************************************)
(* Reading framed replies from a socket that delivers bytes in chunks of   *)
(* any size: readFrame, recvExact and takeBuffered of CASConnection        *)
(* (src/src/protocol/connection.ts), with retireSocket after a failure.    *)
(* The CASConnection module takes a frame per step; this one shows that a  *)
(* frame is what the code makes of the chunks.                             *)
(*                                                                         *)
(* A byte is the request it answers and its place in the reply; the first  *)
(* SizeDataLength bytes of a reply state its length.  Definitions named    *)
(* Wrong... are deliberate bugs, used only to show that a property notices *)
(* them.                                                                   *)
(***************************************************************************)
EXTENDS Integers, Sequences

CONSTANTS
  SizeDataLength,  \* SIZE_DATA_LENGTH
  SizeCasInfo,     \* SIZE_CAS_INFO
  MaxFrameLength,  \* maxFrameLength
  Announced,       \* the lengths a CAS announces
  MaxRequests      \* bound: requests of one behaviour

ASSUME SizesAssumption ==
  /\ SizeDataLength \in Nat \ {0} /\ SizeCasInfo \in Nat /\ MaxFrameLength \in Nat
  /\ Announced \subseteq Int
ASSUME MaxRequestsAssumption == MaxRequests \in Nat

VARIABLES
  lengths,        \* the length announced in the reply to each request, once it is sent
  wire,           \* the bytes on their way to the client
  socketDestroyed,
  receiveBuffer,
  chunks,         \* the bytes onData gathered behind receiveBuffer
  reading,        \* what readFrame waits for, and how many bytes that takes
  requests,       \* the requests sent
  replies         \* history: the frames that were read, each with its request

vars == <<lengths, wire, socketDestroyed, receiveBuffer, chunks, reading, requests, replies>>

Idle == [what |-> "nothing", size |-> 0]

\* The bytes of the reply to request r with that length; there are none after a
\* length that is no length.
Header(r) == [i \in 1..SizeDataLength |-> <<r, i>>]
Body(r, length) == [i \in 1..(length + SizeCasInfo) |-> <<r, SizeDataLength + i>>]
Frame(r, length) == IF length < 0 THEN Header(r) ELSE Header(r) \o Body(r, length)

\* readInt32BE of bytes that are the header of a reply.
DataLength(bytes) == lengths[bytes[1][1]]

-----------------------------------------------------------------------------
(* The socket.                                                             *)

\* A request is written and its reply awaited; the CAS may send it.
Request ==
  /\ reading = Idle /\ ~socketDestroyed /\ requests < MaxRequests
  /\ requests' = requests + 1
  /\ reading' = [what |-> "length", size |-> SizeDataLength]
  /\ UNCHANGED <<lengths, wire, socketDestroyed, receiveBuffer, chunks, replies>>

Replies(length) ==
  /\ Len(lengths) < requests /\ ~socketDestroyed
  /\ lengths' = Append(lengths, length)
  /\ wire' = wire \o Frame(requests, length)
  /\ UNCHANGED <<socketDestroyed, receiveBuffer, chunks, reading, requests, replies>>

-----------------------------------------------------------------------------
(* The reads.                                                              *)

Enough == Len(receiveBuffer) >= reading.size

\* recvExact waits with its listeners on the socket.
Listening == reading # Idle /\ ~Enough /\ ~socketDestroyed

\* One that counts the last chunk only.
WrongGathered(bytes) == bytes

\* What there is once a chunk has arrived.
Gathered(bytes) == receiveBuffer \o chunks \o bytes

\* onData: a chunk of n bytes.
OnData(n) ==
  /\ Listening /\ n \in 1..Len(wire)
  /\ wire' = SubSeq(wire, n + 1, Len(wire))
  /\ LET bytes == SubSeq(wire, 1, n)
     IN \/ /\ Len(Gathered(bytes)) >= reading.size
           /\ receiveBuffer' = Gathered(bytes) /\ chunks' = <<>>
        \/ /\ Len(Gathered(bytes)) < reading.size
           /\ chunks' = chunks \o bytes /\ UNCHANGED receiveBuffer
  /\ UNCHANGED <<lengths, socketDestroyed, reading, requests, replies>>

Taken == SubSeq(receiveBuffer, 1, reading.size)

\* One that keeps nothing of the chunk that completed a read.
WrongRest == <<>>

\* takeBuffered
Rest == SubSeq(receiveBuffer, reading.size + 1, Len(receiveBuffer))

\* One that keeps the bytes of the socket it gives up.
WrongRetireSocket ==
  /\ socketDestroyed' = TRUE /\ wire' = <<>>
  /\ UNCHANGED receiveBuffer

\* retireSocket; the listeners of an unfinished read go with their socket.
RetireSocket ==
  /\ socketDestroyed' = TRUE /\ wire' = <<>>
  /\ receiveBuffer' = <<>>

\* readFrame has the length: an impossible one is refused before its body is
\* awaited.
LengthRead ==
  /\ reading.what = "length" /\ Enough
  /\ LET length == DataLength(Taken)
     IN \/ /\ length \in 0..MaxFrameLength
           /\ reading' = [what |-> "body", size |-> length + SizeCasInfo]
           /\ receiveBuffer' = Rest
           /\ UNCHANGED <<wire, socketDestroyed>>
        \/ /\ length \notin 0..MaxFrameLength
           /\ reading' = Idle /\ RetireSocket
  /\ UNCHANGED <<lengths, chunks, requests, replies>>

BodyRead ==
  /\ reading.what = "body" /\ Enough
  /\ replies' = Append(replies, [request |-> requests, bytes |-> Taken])
  /\ receiveBuffer' = Rest
  /\ reading' = Idle
  /\ UNCHANGED <<lengths, wire, socketDestroyed, chunks, requests>>

\* The socket closes or fails; what was not delivered is lost.
SocketCloses ==
  /\ ~socketDestroyed
  /\ socketDestroyed' = TRUE /\ wire' = <<>>
  /\ UNCHANGED <<lengths, receiveBuffer, chunks, reading, requests, replies>>

\* error, close or end of the socket, or the read timeout; a read that finds the
\* socket destroyed fails the same way.
ReadFails ==
  /\ reading # Idle /\ ~Enough
  /\ RetireSocket
  /\ chunks' = <<>> /\ reading' = Idle
  /\ UNCHANGED <<lengths, requests, replies>>

\* A new socket for the next request; what the CAS did not answer stays so.
Reconnects ==
  /\ socketDestroyed /\ reading = Idle
  /\ socketDestroyed' = FALSE
  /\ lengths' = [r \in 1..requests |-> IF r <= Len(lengths) THEN lengths[r] ELSE 0]
  /\ UNCHANGED <<wire, receiveBuffer, chunks, reading, requests, replies>>

-----------------------------------------------------------------------------
Init ==
  /\ lengths = <<>> /\ wire = <<>> /\ socketDestroyed = FALSE
  /\ receiveBuffer = <<>> /\ chunks = <<>>
  /\ reading = Idle /\ requests = 0 /\ replies = <<>>

Next ==
  \/ Request
  \/ \E length \in Announced : Replies(length)
  \/ \E n \in 1..Len(wire) : OnData(n)
  \/ LengthRead \/ BodyRead \/ SocketCloses \/ ReadFails \/ Reconnects

Spec == Init /\ [][Next]_vars

-----------------------------------------------------------------------------
(* Properties.                                                             *)

Awaited ==
  CASE reading.what = "length" -> Frame(requests, lengths[requests])
    [] reading.what = "body" -> Body(requests, lengths[requests])

\* Every frame that is read is the reply to its own request, from the first byte
\* behind its length to the last, however the bytes were cut into chunks and
\* whatever became of the requests before.  Until then no byte of it is lost or out
\* of its place between the socket, the chunks and the buffer; and while nobody
\* listens nothing is on its way, for Node.js would drop it.
FramesIntact ==
  /\ \A i \in 1..Len(replies) :
       replies[i].bytes = Body(replies[i].request, lengths[replies[i].request])
  /\ reading # Idle /\ Len(lengths) = requests /\ ~socketDestroyed =>
       receiveBuffer \o chunks \o wire = Awaited
  /\ reading = Idle => receiveBuffer \o chunks \o wire = <<>>

=============================================================================
