---------------------------- MODULE Framing_proofs ----------------------------
(***************************************************************************)
(* What Framing guarantees for every cut of the bytes into chunks, every   *)
(* number of requests and every length a CAS announces: the frames that    *)
(* are read are the replies.                                               *)
(*                                                                         *)
(* FramesIntact is not inductive: a reply that is half read says nothing   *)
(* of a socket that closes, though its buffer may still hold the rest.     *)
(* The invariant therefore follows each byte: the k-th of those that were  *)
(* received or are on their way is the k-th that is awaited, none is       *)
(* missing while the socket lives, and none is left when nobody reads.     *)
(***************************************************************************)
EXTENDS Framing, SequenceTheorems, TLAPS

Bytes == Nat \X Nat

Typed ==
  /\ requests \in Nat /\ lengths \in Seq(Int) /\ socketDestroyed \in BOOLEAN
  /\ wire \in Seq(Bytes) /\ receiveBuffer \in Seq(Bytes) /\ chunks \in Seq(Bytes)
  /\ reading \in [what : {"nothing", "length", "body"}, size : Nat]
  /\ replies \in Seq([request : Nat, bytes : Seq(Bytes)])

(* How many bytes a read takes; one that has enough gathered no chunks.    *)
Sized ==
  /\ reading.what = "nothing" <=> reading = Idle
  /\ reading.what = "length" => reading.size = SizeDataLength
  /\ reading.what = "body" =>
       /\ Len(lengths) = requests /\ requests > 0 /\ lengths[requests] \in Nat
       /\ reading.size = lengths[requests] + SizeCasInfo
  /\ Enough => chunks = <<>>

(* One reply at most is outstanding, and only while it is read.            *)
Outstanding ==
  /\ Len(lengths) \in {requests - 1, requests}
  /\ Len(lengths) # requests => reading.what = "length" \/ socketDestroyed
  /\ socketDestroyed => wire = <<>>
  /\ reading.what # "nothing" => requests > 0

(* The bytes of a reply that is read start behind this one, and there are  *)
(* this many to come.                                                      *)
Behind == IF reading.what = "body" THEN SizeDataLength ELSE 0
ToCome ==
  IF reading.what = "length" /\ lengths[requests] < 0 THEN SizeDataLength
  ELSE SizeDataLength + lengths[requests] + SizeCasInfo - Behind

(* s holds bytes of the reply to request r, behind its first n.            *)
Holds(s, r, n) == \A k \in 1..Len(s) : s[k] = <<r, n + k>>

InPlace ==
  /\ Len(lengths) # requests \/ reading.what = "nothing" =>
       receiveBuffer = <<>> /\ chunks = <<>> /\ wire = <<>>
  /\ Len(lengths) = requests /\ reading.what # "nothing" =>
       LET received == Len(receiveBuffer) + Len(chunks)
       IN  /\ Holds(receiveBuffer, requests, Behind)
           /\ Holds(chunks, requests, Behind + Len(receiveBuffer))
           /\ Holds(wire, requests, Behind + received)
           /\ received + Len(wire) <= ToCome
           /\ ~socketDestroyed => received + Len(wire) = ToCome

(* What was read stays what was announced.                                 *)
Whole ==
  \A i \in 1..Len(replies) :
    /\ replies[i].request \in 1..Len(lengths)
    /\ replies[i].bytes = Body(replies[i].request, lengths[replies[i].request])

IInv == Typed /\ Sized /\ Outstanding /\ InPlace /\ Whole

-----------------------------------------------------------------------------
(* Runs of bytes of one reply.                                             *)

Join(s, t, all) == all = s \o t
Cut(s, m, t, rest) ==
  m \in 0..Len(s) /\ t = SubSeq(s, 1, m) /\ rest = SubSeq(s, m + 1, Len(s))

LEMMA Joined ==
  ASSUME NEW r, NEW n \in Nat, NEW s \in Seq(Bytes), NEW t \in Seq(Bytes), NEW k, NEW u,
         Join(s, t, u), Holds(s, r, n), Holds(t, r, k), k = n + Len(s)
  PROVE  u \in Seq(Bytes) /\ Len(u) = Len(s) + Len(t) /\ Holds(u, r, n)
<1>1. /\ u \in Seq(Bytes) /\ Len(u) = Len(s) + Len(t)
      /\ \A i \in 1..(Len(s) + Len(t)) : u[i] = IF i <= Len(s) THEN s[i] ELSE t[i - Len(s)]
  BY ConcatProperties DEF Join
<1>2. ASSUME NEW i \in 1..Len(u) PROVE u[i] = <<r, n + i>>
  <2>1. CASE i <= Len(s)
    <3>1. i \in 1..Len(s) /\ u[i] = s[i] BY <1>1, <2>1
    <3> QED BY <3>1 DEF Holds
  <2>2. CASE i > Len(s)
    <3>1. i - Len(s) \in 1..Len(t) /\ u[i] = t[i - Len(s)] BY <1>1, <2>2
    <3>2. k + (i - Len(s)) = n + i BY <1>1, <3>1
    <3> QED BY <3>1, <3>2 DEF Holds
  <2> QED BY <1>1, <2>1, <2>2
<1> QED BY <1>1, <1>2 DEF Holds

LEMMA Assembled ==
  ASSUME NEW s \in Seq(Bytes), NEW t \in Seq(Bytes), NEW u \in Seq(Bytes)
  PROVE  Join(s, t \o u, s \o t \o u)
<1>1. s \o t \o u = s \o (t \o u) BY ConcatAssociative
<1> QED BY <1>1, Zenon DEF Join

LEMMA CutUp ==
  ASSUME NEW r, NEW n \in Nat, NEW s \in Seq(Bytes), NEW m, NEW t, NEW u,
         Cut(s, m, t, u), Holds(s, r, n)
  PROVE  /\ t \in Seq(Bytes) /\ Len(t) = m /\ Holds(t, r, n)
         /\ u \in Seq(Bytes) /\ Len(u) = Len(s) - m /\ Holds(u, r, n + m)
<1>1. m \in 0..Len(s) BY DEF Cut
<1>2. t \in Seq(Bytes) /\ Len(t) = m /\ \A i \in 1..m : t[i] = s[i]
  BY DEF Cut
<1>3. u \in Seq(Bytes) /\ Len(u) = Len(s) - m /\ \A i \in 1..(Len(s) - m) : u[i] = s[m + i]
  BY DEF Cut
<1>4. Holds(t, r, n)
  <2> SUFFICES ASSUME NEW i \in 1..Len(t) PROVE t[i] = <<r, n + i>>
    BY DEF Holds
  <2>1. i \in 1..m /\ i \in 1..Len(s) BY <1>1, <1>2
  <2> QED BY <1>2, <2>1 DEF Holds
<1>5. Holds(u, r, n + m)
  <2> SUFFICES ASSUME NEW i \in 1..Len(u) PROVE u[i] = <<r, n + m + i>>
    BY DEF Holds
  <2>1. m + i \in 1..Len(s) /\ n + (m + i) = n + m + i BY <1>1, <1>3
  <2> QED BY <1>3, <2>1 DEF Holds
<1> QED BY <1>2, <1>3, <1>4, <1>5

LEMMA SameBytes ==
  ASSUME NEW r, NEW n, NEW s \in Seq(Bytes), NEW t \in Seq(Bytes), Len(s) = Len(t),
         Holds(s, r, n), Holds(t, r, n)
  PROVE  s = t
<1>1. \A i \in 1..Len(s) : s[i] = t[i] BY DEF Holds
<1> QED BY <1>1, SeqEqual

LEMMA NoBytes ==
  ASSUME NEW r, NEW n
  PROVE  <<>> \in Seq(Bytes) /\ Len(<<>>) = 0 /\ Holds(<<>>, r, n)
BY DEF Holds

\* What a CAS sends in reply to request r.
LEMMA HeaderHolds ==
  ASSUME NEW r \in Nat
  PROVE  Header(r) \in Seq(Bytes) /\ Len(Header(r)) = SizeDataLength /\ Holds(Header(r), r, 0)
<1>1. SizeDataLength \in Nat BY SizesAssumption
<1>2. Header(r) \in [1..SizeDataLength -> Bytes] BY <1>1 DEF Header, Bytes
<1>3. Header(r) \in Seq(Bytes) /\ Len(Header(r)) = SizeDataLength BY <1>1, <1>2
<1>4. \A k \in 1..SizeDataLength : Header(r)[k] = <<r, 0 + k>> BY <1>1 DEF Header
<1> QED BY <1>3, <1>4 DEF Holds

LEMMA BodyHolds ==
  ASSUME NEW r \in Nat, NEW length \in Nat
  PROVE  /\ Body(r, length) \in Seq(Bytes) /\ Len(Body(r, length)) = length + SizeCasInfo
         /\ Holds(Body(r, length), r, SizeDataLength)
<1> DEFINE l == length + SizeCasInfo
<1>1. SizeDataLength \in Nat /\ l \in Nat BY SizesAssumption
<1>2. Body(r, length) = [i \in 1..l |-> <<r, SizeDataLength + i>>] BY DEF Body
<1> HIDE DEF l
<1>3. Body(r, length) \in [1..l -> Bytes]
  <2>1. \A i \in 1..l : <<r, SizeDataLength + i>> \in Bytes BY <1>1 DEF Bytes
  <2> QED BY <1>2, <2>1
<1>4. Body(r, length) \in Seq(Bytes) /\ Len(Body(r, length)) = l BY <1>1, <1>3
<1>5. \A k \in 1..l : Body(r, length)[k] = <<r, SizeDataLength + k>> BY <1>2
<1> QED BY <1>4, <1>5 DEF Holds, l

LEMMA FrameHolds ==
  ASSUME NEW r \in Nat, NEW length \in Int
  PROVE  /\ Frame(r, length) \in Seq(Bytes) /\ Holds(Frame(r, length), r, 0)
         /\ Len(Frame(r, length)) = IF length < 0 THEN SizeDataLength
                                    ELSE SizeDataLength + length + SizeCasInfo
<1>1. CASE length < 0 BY <1>1, HeaderHolds DEF Frame
<1>2. CASE length >= 0
  <2>1. length \in Nat /\ SizeDataLength \in Nat /\ SizeCasInfo \in Nat /\ 0 \in Nat
        /\ 0 + SizeDataLength = SizeDataLength
    BY <1>2, SizesAssumption
  <2> DEFINE h == Header(r)  b == Body(r, length)
  <2>2. h \in Seq(Bytes) /\ Len(h) = SizeDataLength /\ Holds(h, r, 0) BY HeaderHolds
  <2>3. b \in Seq(Bytes) /\ Len(b) = length + SizeCasInfo /\ Holds(b, r, SizeDataLength)
    BY <2>1, BodyHolds
  <2>4. Join(h, b, Frame(r, length)) BY <1>2 DEF Frame, Join
  <2> HIDE DEF h, b
  <2>5. /\ Frame(r, length) \in Seq(Bytes) /\ Len(Frame(r, length)) = Len(h) + Len(b)
        /\ Holds(Frame(r, length), r, 0)
    BY <2>1, <2>2, <2>3, <2>4, Joined
  <2> QED BY <1>2, <2>1, <2>2, <2>3, <2>5
<1> QED BY <1>1, <1>2

-----------------------------------------------------------------------------
(* The steps.                                                              *)

LEMMA InitIInv == Init => IInv
<1> SUFFICES ASSUME Init PROVE IInv
  OBVIOUS
<1>1. Len(<<>>) = 0 /\ <<>> \in Seq(Bytes) /\ <<>> \in Seq(Int)
      /\ <<>> \in Seq([request : Nat, bytes : Seq(Bytes)])
  OBVIOUS
<1>2. Typed BY <1>1 DEF Init, Typed, Idle
<1>3. Sized /\ Outstanding /\ InPlace /\ Whole
  BY <1>1 DEF Init, Sized, Outstanding, InPlace, Whole, Enough, Idle
<1> QED BY <1>2, <1>3 DEF IInv

\* Nothing is left of a reply when nobody reads it.
LEMMA Nothing ==
  ASSUME IInv, Len(lengths) # requests \/ reading.what = "nothing"
  PROVE  receiveBuffer = <<>> /\ chunks = <<>> /\ wire = <<>>
BY DEF IInv, InPlace

\* What is there of a reply that is read.
LEMMA Something ==
  ASSUME IInv, Len(lengths) = requests, reading.what # "nothing"
  PROVE  /\ requests \in Nat /\ requests > 0 /\ lengths[requests] \in Int
         /\ Behind \in Nat /\ reading.size \in Nat
         /\ Holds(receiveBuffer, requests, Behind)
         /\ Holds(chunks, requests, Behind + Len(receiveBuffer))
         /\ Holds(wire, requests, Behind + (Len(receiveBuffer) + Len(chunks)))
         /\ Len(receiveBuffer) + Len(chunks) + Len(wire) <= ToCome
         /\ ~socketDestroyed => Len(receiveBuffer) + Len(chunks) + Len(wire) = ToCome
<1>1. requests \in Nat /\ requests > 0 BY DEF IInv, Typed, Outstanding
<1>2. requests \in 1..Len(lengths) /\ lengths \in Seq(Int) BY <1>1 DEF IInv, Typed
<1>3. lengths[requests] \in Int BY <1>2
<1>4. Behind \in Nat BY SizesAssumption DEF Behind
<1> QED BY <1>1, <1>3, <1>4 DEF IInv, Typed, InPlace

\* The frames that were read stay what they are while no length is changed.
LEMMA StillWhole ==
  ASSUME IInv, replies' = replies, lengths' \in Seq(Int), Len(lengths') >= Len(lengths),
         \A r \in 1..Len(lengths) : lengths'[r] = lengths[r]
  PROVE  Whole'
<1>1. Len(lengths) \in Nat /\ Len(lengths') \in Nat BY DEF IInv, Typed
<1>2. ASSUME NEW i \in 1..Len(replies)
      PROVE  /\ replies[i].request \in 1..Len(lengths')
             /\ replies[i].bytes = Body(replies[i].request, lengths'[replies[i].request])
  BY <1>1 DEF IInv, Whole
<1> QED BY <1>2 DEF Whole

LEMMA RequestKeeps ==
  ASSUME IInv, Request
  PROVE  IInv'
<1>1. /\ reading = Idle /\ ~socketDestroyed /\ requests' = requests + 1
      /\ reading' = [what |-> "length", size |-> SizeDataLength]
      /\ UNCHANGED <<lengths, wire, socketDestroyed, receiveBuffer, chunks, replies>>
  BY DEF Request
<1>2. reading.what = "nothing" /\ Len(lengths) = requests /\ requests \in Nat
  BY <1>1 DEF Idle, IInv, Typed, Outstanding
<1>3. receiveBuffer = <<>> /\ chunks = <<>> /\ wire = <<>> BY <1>2, Nothing
<1>4. SizeDataLength \in Nat \ {0} BY SizesAssumption
<1>5. Typed' BY <1>1, <1>2, <1>4 DEF IInv, Typed
<1>6. Sized' BY <1>1, <1>3, <1>4 DEF Sized, Enough, Idle
<1>7. Outstanding' BY <1>1, <1>2, <1>3 DEF Outstanding
<1>8. InPlace' BY <1>1, <1>2, <1>3 DEF InPlace
<1>9. Whole' BY <1>1, StillWhole DEF IInv, Typed
<1> QED BY <1>5, <1>6, <1>7, <1>8, <1>9 DEF IInv

LEMMA RepliesKeeps ==
  ASSUME IInv, NEW length \in Announced, Replies(length)
  PROVE  IInv'
<1>1. /\ Len(lengths) < requests /\ ~socketDestroyed /\ lengths' = Append(lengths, length)
      /\ wire' = wire \o Frame(requests, length)
      /\ UNCHANGED <<socketDestroyed, receiveBuffer, chunks, reading, requests, replies>>
  BY DEF Replies
<1>2. /\ lengths \in Seq(Int) /\ requests \in Nat /\ length \in Int
      /\ Len(lengths) = requests - 1 /\ reading.what = "length"
  BY <1>1, SizesAssumption DEF IInv, Typed, Outstanding
<1>3. receiveBuffer = <<>> /\ chunks = <<>> /\ wire = <<>> BY <1>2, Nothing
<1>4. /\ lengths' \in Seq(Int) /\ Len(lengths') = requests /\ lengths'[requests] = length
      /\ \A r \in 1..Len(lengths) : lengths'[r] = lengths[r]
  BY <1>1, <1>2
<1>5. /\ Frame(requests, length) \in Seq(Bytes) /\ Holds(Frame(requests, length), requests, 0)
      /\ Len(Frame(requests, length)) = IF length < 0 THEN SizeDataLength
                                        ELSE SizeDataLength + length + SizeCasInfo
  BY <1>2, FrameHolds
<1>6. wire' = Frame(requests, length) BY <1>1, <1>3, <1>5
<1>7. Typed' BY <1>1, <1>4, <1>5, <1>6 DEF IInv, Typed
<1>8. Sized' BY <1>1, <1>2 DEF IInv, Sized, Enough
<1>9. Outstanding' BY <1>1, <1>2, <1>4 DEF IInv, Outstanding
<1>10. Whole' BY <1>1, <1>2, <1>4, StillWhole
<1>11. InPlace'
  <2>1. Behind' = 0 BY <1>1, <1>2 DEF Behind
  <2>2. ToCome' = Len(Frame(requests, length))
    BY <1>1, <1>2, <1>4, <1>5, <2>1, SizesAssumption DEF ToCome
  <2>3. Len(<<>>) = 0 /\ Holds(<<>>, requests, 0) /\ 0 + 0 = 0 BY NoBytes
  <2>4. Len(Frame(requests, length)) \in Nat BY <1>5
  <2> QED BY <1>1, <1>2, <1>3, <1>4, <1>5, <1>6, <2>1, <2>2, <2>3, <2>4 DEF InPlace
<1> QED BY <1>7, <1>8, <1>9, <1>10, <1>11 DEF IInv

\* n bytes arrive: chunk of what is coming joins what is gathered, and both the buffer.
Arriving(r, k, buffer, gathered, coming, n, chunk, rest, more, all) ==
  /\ k \in Nat /\ buffer \in Seq(Bytes) /\ gathered \in Seq(Bytes) /\ coming \in Seq(Bytes)
  /\ Holds(buffer, r, k) /\ Holds(gathered, r, k + Len(buffer))
  /\ Holds(coming, r, k + (Len(buffer) + Len(gathered)))
  /\ Cut(coming, n, chunk, rest) /\ Join(gathered, chunk, more) /\ Join(buffer, more, all)

\* A chunk behind those that were gathered: what is there of a reply before and
\* after it.
LEMMA Arrives ==
  ASSUME NEW r, NEW k, NEW buffer, NEW gathered, NEW coming, NEW n, NEW chunk, NEW rest, NEW more,
         NEW all, Arriving(r, k, buffer, gathered, coming, n, chunk, rest, more, all)
  PROVE  /\ rest \in Seq(Bytes) /\ more \in Seq(Bytes) /\ all \in Seq(Bytes)
         /\ Len(all) = Len(buffer) + Len(more)
         /\ Len(all) + Len(rest) = Len(buffer) + Len(gathered) + Len(coming)
         /\ Holds(all, r, k) /\ Holds(more, r, k + Len(buffer))
         /\ Holds(rest, r, k + Len(all))
<1> USE DEF Arriving
<1>1. PICK at \in Nat : at = k + Len(buffer) OBVIOUS
<1>2. PICK from \in Nat : from = k + (Len(buffer) + Len(gathered)) OBVIOUS
<1>3. from = at + Len(gathered) BY <1>1, <1>2
<1>4. /\ chunk \in Seq(Bytes) /\ Len(chunk) = n /\ Holds(chunk, r, from)
      /\ rest \in Seq(Bytes) /\ Len(rest) = Len(coming) - n /\ Holds(rest, r, from + n)
  BY <1>2, CutUp
<1>5. more \in Seq(Bytes) /\ Len(more) = Len(gathered) + Len(chunk) /\ Holds(more, r, at)
  <2>1. Holds(gathered, r, at) BY <1>1
  <2> QED BY <1>3, <1>4, <2>1, Joined
<1>6. all \in Seq(Bytes) /\ Len(all) = Len(buffer) + Len(more) /\ Holds(all, r, k)
  BY <1>1, <1>5, Joined
<1>7. /\ Len(buffer) \in Nat /\ Len(gathered) \in Nat /\ Len(coming) \in Nat /\ Len(more) \in Nat
      /\ Len(chunk) = n /\ Len(rest) = Len(coming) - n /\ n \in Nat /\ Len(all) \in Nat
      /\ Len(more) = Len(gathered) + n /\ Len(all) = Len(buffer) + Len(more)
  <2>1. Len(chunk) \in Nat BY <1>4
  <2>2. Len(more) \in Nat BY <1>5
  <2>3. Len(all) \in Nat BY <1>6
  <2>4. Len(buffer) \in Nat /\ Len(gathered) \in Nat /\ Len(coming) \in Nat OBVIOUS
  <2> QED BY <1>4, <1>5, <1>6, <2>1, <2>2, <2>3, <2>4
<1>8. k + Len(all) = from + n BY <1>2, <1>7
<1>9. Len(all) + Len(rest) = Len(buffer) + Len(gathered) + Len(coming)
  BY <1>7
<1> QED BY <1>1, <1>4, <1>5, <1>6, <1>8, <1>9

LEMMA OnDataKeeps ==
  ASSUME IInv, NEW n \in 1..Len(wire), OnData(n)
  PROVE  IInv'
<1> DEFINE rest == SubSeq(wire, n + 1, Len(wire))
           more == chunks \o SubSeq(wire, 1, n)
           all == receiveBuffer \o chunks \o SubSeq(wire, 1, n)
<1>1. /\ ~socketDestroyed /\ ~Enough /\ wire' = rest
      /\ \/ receiveBuffer' = all /\ chunks' = <<>>
         \/ chunks' = more /\ receiveBuffer' = receiveBuffer /\ Len(all) < reading.size
      /\ UNCHANGED <<lengths, socketDestroyed, reading, requests, replies>>
  BY DEF OnData, Listening, Gathered
<1>2. /\ wire \in Seq(Bytes) /\ receiveBuffer \in Seq(Bytes) /\ chunks \in Seq(Bytes)
  BY DEF IInv, Typed
<1>3. wire # <<>> BY <1>2
<1>4. Len(lengths) = requests /\ reading.what # "nothing" BY <1>3, Nothing
<1>5. /\ requests \in Nat /\ Behind \in Nat /\ reading.size \in Nat
      /\ Holds(receiveBuffer, requests, Behind)
      /\ Holds(chunks, requests, Behind + Len(receiveBuffer))
      /\ Holds(wire, requests, Behind + (Len(receiveBuffer) + Len(chunks)))
      /\ Len(receiveBuffer) + Len(chunks) + Len(wire) = ToCome
  BY <1>1, <1>4, Something
<1>6. /\ rest \in Seq(Bytes) /\ more \in Seq(Bytes) /\ all \in Seq(Bytes)
      /\ Len(all) = Len(receiveBuffer) + Len(more)
      /\ Len(all) + Len(rest) = Len(receiveBuffer) + Len(chunks) + Len(wire)
      /\ Holds(all, requests, Behind) /\ Holds(more, requests, Behind + Len(receiveBuffer))
      /\ Holds(rest, requests, Behind + Len(all))
  <2> DEFINE chunk == SubSeq(wire, 1, n)
  <2>1. n \in 0..Len(wire) BY <1>2
  <2>2. chunk \in Seq(Bytes) BY <1>2, <2>1
  <2>3. Cut(wire, n, chunk, rest) BY <2>1 DEF Cut
  <2>4. Join(chunks, chunk, more) BY DEF Join
  <2>5. Join(receiveBuffer, more, all)
    <3> HIDE DEF chunk
    <3>1. Join(receiveBuffer, chunks \o chunk, receiveBuffer \o chunks \o chunk)
      BY <1>2, <2>2, Assembled
    <3> QED BY <3>1 DEF chunk
  <2> HIDE DEF chunk, rest, more, all
  <2>6. Arriving(requests, Behind, receiveBuffer, chunks, wire, n, chunk, rest, more, all)
    BY <1>2, <1>5, <2>3, <2>4, <2>5, Zenon DEF Arriving
  <2> QED BY <2>6, Arrives
<1> HIDE DEF rest, more, all
<1>7. Behind' = Behind /\ ToCome' = ToCome BY <1>1 DEF Behind, ToCome
<1>8. Typed' BY <1>1, <1>6, NoBytes DEF IInv, Typed
<1>9. Sized'
  <2>1. Enough' => chunks' = <<>> BY <1>1 DEF Enough
  <2> QED BY <1>1, <2>1 DEF IInv, Sized
<1>10. Outstanding' BY <1>1 DEF IInv, Outstanding
<1>11. Whole' BY <1>1, StillWhole DEF IInv, Typed
<1>12. InPlace'
  <2>1. /\ Len(lengths') = requests' /\ reading'.what # "nothing" /\ requests' = requests
        /\ wire' = rest
    BY <1>1, <1>4
  <2>2. /\ Holds(receiveBuffer', requests, Behind)
        /\ Holds(chunks', requests, Behind + Len(receiveBuffer'))
        /\ Len(receiveBuffer') + Len(chunks') = Len(all)
    <3>1. CASE receiveBuffer' = all /\ chunks' = <<>>
      <4>1. Len(chunks') = 0 /\ Holds(chunks', requests, Behind + Len(receiveBuffer'))
        BY <3>1, NoBytes
      <4>2. Len(receiveBuffer') + Len(chunks') = Len(all) BY <1>6, <3>1, <4>1
      <4> QED BY <1>6, <3>1, <4>1, <4>2
    <3>2. CASE chunks' = more /\ receiveBuffer' = receiveBuffer
      <4>1. Len(receiveBuffer') + Len(chunks') = Len(all) BY <1>6, <3>2
      <4> QED BY <1>5, <1>6, <3>2, <4>1
    <3> QED BY <1>1, <3>1, <3>2
  <2>3. Len(receiveBuffer') + Len(chunks') + Len(wire') = ToCome' /\ ToCome' \in Int
    <3>1. Len(receiveBuffer') + Len(chunks') + Len(wire') = Len(all) + Len(rest)
      BY <2>1, <2>2
    <3>2. Len(all) + Len(rest) \in Int BY <1>6
    <3> QED BY <1>5, <1>6, <1>7, <3>1, <3>2
  <2>4. Holds(wire', requests, Behind + (Len(receiveBuffer') + Len(chunks')))
    BY <1>6, <2>1, <2>2
  <2> QED BY <1>7, <2>1, <2>2, <2>3, <2>4 DEF InPlace
<1> QED BY <1>8, <1>9, <1>10, <1>11, <1>12 DEF IInv

\* A read that has enough: the bytes it takes, and those it leaves.
LEMMA EnoughRead ==
  ASSUME IInv, reading.what # "nothing", Enough
  PROVE  /\ chunks = <<>> /\ Len(lengths) = requests
         /\ Taken \in Seq(Bytes) /\ Len(Taken) = reading.size /\ Holds(Taken, requests, Behind)
         /\ Rest \in Seq(Bytes) /\ Len(Rest) = Len(receiveBuffer) - reading.size
         /\ Holds(Rest, requests, Behind + reading.size)
         /\ reading.size <= Len(receiveBuffer)
<1>1. /\ chunks = <<>> /\ receiveBuffer \in Seq(Bytes) /\ Len(receiveBuffer) \in Nat
      /\ reading.size \in Nat /\ reading.size <= Len(receiveBuffer)
      /\ reading.what \in {"length", "body"}
  <2>1. reading.what \in {"nothing", "length", "body"} /\ reading.size \in Nat
    BY DEF IInv, Typed
  <2> QED BY <2>1 DEF IInv, Typed, Sized, Enough
<1>2. Len(lengths) = requests
  <2>1. CASE reading.what = "length"
    <3>1. Len(receiveBuffer) > 0
      BY <1>1, <2>1, SizesAssumption DEF IInv, Sized
    <3>2. receiveBuffer # <<>> BY <3>1
    <3> QED BY <3>2, Nothing
  <2>2. CASE reading.what = "body" BY <2>2 DEF IInv, Sized
  <2> QED BY <1>1, <2>1, <2>2
<1>3. Behind \in Nat /\ Holds(receiveBuffer, requests, Behind) BY <1>2, Something
<1>4. Cut(receiveBuffer, reading.size, Taken, Rest) BY <1>1 DEF Cut, Taken, Rest
<1> QED BY <1>1, <1>2, <1>3, <1>4, CutUp

\* The first bytes of a reply tell the length that was announced in it.
LEMMA LengthTold ==
  ASSUME IInv, reading.what = "length", Enough
  PROVE  DataLength(Taken) = lengths[requests]
<1>1. reading.size \in Nat \ {0} BY SizesAssumption DEF IInv, Sized
<1>2. 1 \in 1..Len(Taken) /\ Holds(Taken, requests, Behind) BY <1>1, EnoughRead
<1>3. Taken[1] = <<requests, Behind + 1>> BY <1>2 DEF Holds
<1> QED BY <1>3 DEF DataLength

LEMMA LengthReadKeeps ==
  ASSUME IInv, LengthRead
  PROVE  IInv'
<1>1. /\ reading.what = "length" /\ Enough
      /\ UNCHANGED <<lengths, chunks, requests, replies>>
      /\ \/ /\ lengths[requests] \in 0..MaxFrameLength
            /\ reading' = [what |-> "body", size |-> lengths[requests] + SizeCasInfo]
            /\ receiveBuffer' = Rest
            /\ UNCHANGED <<wire, socketDestroyed>>
         \/ /\ reading' = Idle /\ socketDestroyed' = TRUE /\ wire' = <<>>
            /\ receiveBuffer' = <<>>
  <2>1. reading.what = "length" /\ Enough BY DEF LengthRead
  <2>2. DataLength(Taken) = lengths[requests] BY <2>1, LengthTold
  <2> QED BY <2>1, <2>2 DEF LengthRead, RetireSocket
<1>2. /\ chunks = <<>> /\ Len(lengths) = requests
      /\ Rest \in Seq(Bytes) /\ Len(Rest) = Len(receiveBuffer) - reading.size
      /\ Holds(Rest, requests, Behind + reading.size)
  BY <1>1, EnoughRead
<1>3. /\ requests \in Nat /\ requests > 0 /\ Behind = 0 /\ reading.size = SizeDataLength
      /\ Holds(wire, requests, 0 + (Len(receiveBuffer) + Len(chunks)))
      /\ Len(receiveBuffer) + Len(chunks) + Len(wire) <= ToCome
      /\ ~socketDestroyed => Len(receiveBuffer) + Len(chunks) + Len(wire) = ToCome
  <2>1. Behind = 0 /\ reading.size = SizeDataLength BY <1>1 DEF Behind, IInv, Sized
  <2> QED BY <1>1, <1>2, <2>1, Something
<1>4. SizeDataLength \in Nat /\ SizeCasInfo \in Nat /\ Len(receiveBuffer) \in Nat
      /\ Len(wire) \in Nat
  BY SizesAssumption DEF IInv, Typed
<1>5. Whole' BY <1>1, StillWhole DEF IInv, Typed
<1>6. CASE /\ lengths[requests] \in 0..MaxFrameLength
           /\ reading' = [what |-> "body", size |-> lengths[requests] + SizeCasInfo]
           /\ receiveBuffer' = Rest
           /\ UNCHANGED <<wire, socketDestroyed>>
  <2>1. lengths[requests] \in Nat BY <1>6, SizesAssumption
  <2>2. Typed' BY <1>1, <1>2, <1>4, <1>6, <2>1 DEF IInv, Typed
  <2>3. Sized'
    <3>1. reading'.what = "body" /\ reading'.size = lengths'[requests'] + SizeCasInfo
      BY <1>1, <1>6
    <3>2. reading' # Idle BY <3>1 DEF Idle
    <3> QED BY <1>1, <1>2, <1>3, <2>1, <3>1, <3>2 DEF Sized
  <2>4. Outstanding' BY <1>1, <1>2, <1>6 DEF IInv, Outstanding
  <2>5. InPlace'
    <3>1. Behind' = SizeDataLength BY <1>6 DEF Behind
    <3>2. ToCome = SizeDataLength + lengths[requests] + SizeCasInfo
      BY <1>3, <1>4, <2>1 DEF ToCome
    <3>3. ToCome' = lengths[requests] + SizeCasInfo
      BY <1>1, <1>4, <1>6, <2>1, <3>1 DEF ToCome
    <3>4. Len(<<>>) = 0 /\ Holds(<<>>, requests, Behind' + Len(receiveBuffer')) BY NoBytes
    <3>5. 0 + SizeDataLength = SizeDataLength /\ Len(chunks) = 0 BY <1>2, <1>4, <3>4
    <3>6. Holds(receiveBuffer', requests, Behind')
      BY <1>2, <1>3, <1>6, <3>1, <3>5
    <3>7. SizeDataLength + (Len(Rest) + 0) = 0 + (Len(receiveBuffer) + Len(chunks))
      BY <1>2, <1>3, <1>4, <3>5
    <3>8. Holds(wire', requests, Behind' + (Len(receiveBuffer') + Len(chunks')))
      BY <1>1, <1>2, <1>3, <1>6, <3>1, <3>4, <3>7
    <3>9. Len(receiveBuffer') + Len(chunks') + Len(wire')
          = Len(receiveBuffer) + Len(chunks) + Len(wire) - SizeDataLength
      <4>1. Len(receiveBuffer') = Len(receiveBuffer) - SizeDataLength  BY <1>2, <1>3, <1>6
      <4>2. Len(chunks') = Len(chunks) /\ Len(wire') = Len(wire)  BY <1>1, <1>6
      <4> QED BY <1>4, <3>5, <4>1, <4>2
    <3>10. Len(receiveBuffer') + Len(chunks') + Len(wire') <= ToCome'
      BY <1>3, <1>4, <2>1, <3>2, <3>3, <3>5, <3>9
    <3>11. ~socketDestroyed' => Len(receiveBuffer') + Len(chunks') + Len(wire') = ToCome'
      <4>1. ~socketDestroyed' => Len(receiveBuffer) + Len(chunks) + Len(wire) = ToCome
        BY <1>3, <1>6
      <4>2. ToCome' = ToCome - SizeDataLength  BY <1>4, <2>1, <3>2, <3>3
      <4>3. ToCome \in Int /\ Len(chunks) = 0
        BY <1>4, <2>1, <3>2, <3>5
      <4> QED BY <1>4, <3>9, <4>1, <4>2, <4>3
    <3> QED BY <1>1, <1>2, <1>6, <3>4, <3>6, <3>8, <3>10, <3>11 DEF InPlace
  <2> QED BY <1>5, <2>2, <2>3, <2>4, <2>5 DEF IInv
<1>7. CASE /\ reading' = Idle /\ socketDestroyed' = TRUE /\ wire' = <<>>
           /\ receiveBuffer' = <<>>
  <2>1. Typed' BY <1>1, <1>7, NoBytes DEF IInv, Typed, Idle
  <2>2. Sized' BY <1>1, <1>2, <1>7 DEF Sized, Idle
  <2>3. Outstanding' BY <1>1, <1>2, <1>7 DEF Outstanding, Idle
  <2>4. InPlace' BY <1>1, <1>2, <1>7 DEF InPlace, Idle
  <2> QED BY <1>5, <2>1, <2>2, <2>3, <2>4 DEF IInv
<1> QED BY <1>1, <1>6, <1>7

LEMMA BodyReadKeeps ==
  ASSUME IInv, BodyRead
  PROVE  IInv'
<1>1. /\ reading.what = "body" /\ Enough
      /\ replies' = Append(replies, [request |-> requests, bytes |-> Taken])
      /\ receiveBuffer' = Rest /\ reading' = Idle
      /\ UNCHANGED <<lengths, wire, socketDestroyed, chunks, requests>>
  BY DEF BodyRead
<1>2. /\ chunks = <<>> /\ Len(lengths) = requests
      /\ Taken \in Seq(Bytes) /\ Len(Taken) = reading.size /\ Holds(Taken, requests, Behind)
      /\ Rest \in Seq(Bytes) /\ Len(Rest) = Len(receiveBuffer) - reading.size
      /\ reading.size <= Len(receiveBuffer)
  BY <1>1, EnoughRead
<1>3. /\ requests \in Nat /\ requests > 0 /\ lengths[requests] \in Nat
      /\ Behind = SizeDataLength /\ reading.size = lengths[requests] + SizeCasInfo
      /\ Len(receiveBuffer) + Len(chunks) + Len(wire) <= ToCome
  BY <1>1, <1>2, Something DEF Behind, IInv, Typed, Sized
<1>4. /\ SizeDataLength \in Nat /\ SizeCasInfo \in Nat /\ Len(receiveBuffer) \in Nat
      /\ wire \in Seq(Bytes) /\ Len(wire) \in Nat /\ Len(chunks) = 0
  BY <1>2, SizesAssumption DEF IInv, Typed
<1>5. ToCome = lengths[requests] + SizeCasInfo BY <1>1, <1>3, <1>4 DEF ToCome
<1>6. Len(receiveBuffer) = reading.size /\ Len(wire) = 0 BY <1>2, <1>3, <1>4, <1>5
<1>7. wire = <<>> /\ Rest = <<>> BY <1>2, <1>3, <1>4, <1>6
<1>8. Taken = Body(requests, lengths[requests])
  <2>1. /\ Body(requests, lengths[requests]) \in Seq(Bytes)
        /\ Len(Body(requests, lengths[requests])) = lengths[requests] + SizeCasInfo
        /\ Holds(Body(requests, lengths[requests]), requests, SizeDataLength)
    BY <1>3, BodyHolds
  <2> QED BY <1>2, <1>3, <2>1, SameBytes
<1>9. Typed'
  <2>1. [request |-> requests, bytes |-> Taken] \in [request : Nat, bytes : Seq(Bytes)]
    BY <1>2, <1>3
  <2>2. replies' \in Seq([request : Nat, bytes : Seq(Bytes)])
    BY <1>1, <2>1 DEF IInv, Typed
  <2> QED BY <1>1, <1>2, <2>2 DEF IInv, Typed, Idle
<1>10. Sized' BY <1>1, <1>2 DEF Sized, Idle
<1>11. Outstanding' BY <1>1, <1>2 DEF IInv, Outstanding, Idle
<1>12. InPlace' BY <1>1, <1>2, <1>7 DEF InPlace, Idle
<1>13. Whole'
  <2>1. Len(replies) \in Nat /\ Len(replies') = Len(replies) + 1 /\ requests \in 1..Len(lengths)
    BY <1>1, <1>2, <1>3 DEF IInv, Typed
  <2>2. ASSUME NEW i \in 1..Len(replies')
        PROVE  /\ replies'[i].request \in 1..Len(lengths)
               /\ replies'[i].bytes = Body(replies'[i].request, lengths[replies'[i].request])
    <3>1. CASE i = Len(replies')
      <4>1. replies'[i] = [request |-> requests, bytes |-> Taken]
        BY <1>1, <2>1, <3>1 DEF IInv, Typed
      <4> QED BY <1>8, <2>1, <4>1
    <3>2. CASE i # Len(replies')
      <4>1. i \in 1..Len(replies) BY <2>1, <3>2
      <4>2. replies'[i] = replies[i] BY <1>1, <4>1 DEF IInv, Typed
      <4> QED BY <4>1, <4>2 DEF IInv, Whole
    <3> QED BY <3>1, <3>2
  <2> QED BY <1>1, <2>2 DEF Whole
<1> QED BY <1>9, <1>10, <1>11, <1>12, <1>13 DEF IInv

LEMMA SocketClosesKeeps ==
  ASSUME IInv, SocketCloses
  PROVE  IInv'
<1>1. /\ socketDestroyed' = TRUE /\ wire' = <<>>
      /\ UNCHANGED <<lengths, receiveBuffer, chunks, reading, requests, replies>>
  BY DEF SocketCloses
<1>2. Typed' BY <1>1, NoBytes DEF IInv, Typed
<1>3. Sized' BY <1>1 DEF IInv, Sized, Enough
<1>4. Outstanding' BY <1>1 DEF IInv, Outstanding
<1>5. Whole' BY <1>1, StillWhole DEF IInv, Typed
<1>6. InPlace'
  <2>1. CASE Len(lengths) # requests \/ reading.what = "nothing"
    BY <1>1, <2>1, Nothing DEF InPlace
  <2>2. CASE Len(lengths) = requests /\ reading.what # "nothing"
    <3>1. Behind' = Behind /\ ToCome' = ToCome BY <1>1 DEF Behind, ToCome
    <3>2. Len(<<>>) = 0
          /\ Holds(<<>>, requests, Behind + (Len(receiveBuffer) + Len(chunks)))
      BY NoBytes
    <3>3. /\ Holds(receiveBuffer, requests, Behind)
          /\ Holds(chunks, requests, Behind + Len(receiveBuffer))
          /\ Len(receiveBuffer) + Len(chunks) + Len(wire) <= ToCome
      BY <2>2, Something
    <3>4. ToCome \in Int /\ Len(wire) \in Nat /\ Len(receiveBuffer) + Len(chunks) \in Nat
      <4>1. lengths[requests] \in Int /\ Behind \in Nat BY <2>2, Something
      <4>2. ToCome \in Int BY <4>1, SizesAssumption DEF ToCome
      <4> QED BY <4>2 DEF IInv, Typed
    <3>5. Len(receiveBuffer) + Len(chunks) + 0 <= ToCome BY <3>3, <3>4
    <3> QED BY <1>1, <2>2, <3>1, <3>2, <3>3, <3>5 DEF InPlace
  <2> QED BY <2>1, <2>2
<1> QED BY <1>2, <1>3, <1>4, <1>5, <1>6 DEF IInv

LEMMA ReadFailsKeeps ==
  ASSUME IInv, ReadFails
  PROVE  IInv'
<1>1. /\ socketDestroyed' = TRUE /\ wire' = <<>> /\ receiveBuffer' = <<>> /\ chunks' = <<>>
      /\ reading' = Idle /\ UNCHANGED <<lengths, requests, replies>>
  BY DEF ReadFails, RetireSocket
<1>2. Typed' BY <1>1, NoBytes DEF IInv, Typed, Idle
<1>3. Sized' BY <1>1 DEF Sized, Idle
<1>4. Outstanding' BY <1>1 DEF IInv, Outstanding, Idle
<1>5. InPlace' BY <1>1 DEF InPlace, Idle
<1>6. Whole' BY <1>1, StillWhole DEF IInv, Typed
<1> QED BY <1>2, <1>3, <1>4, <1>5, <1>6 DEF IInv

LEMMA ReconnectsKeeps ==
  ASSUME IInv, Reconnects
  PROVE  IInv'
<1>1. /\ reading = Idle /\ socketDestroyed' = FALSE
      /\ lengths' = [r \in 1..requests |-> IF r <= Len(lengths) THEN lengths[r] ELSE 0]
      /\ UNCHANGED <<wire, receiveBuffer, chunks, reading, requests, replies>>
  BY DEF Reconnects
<1>2. reading.what = "nothing" BY <1>1 DEF Idle
<1>3. receiveBuffer = <<>> /\ chunks = <<>> /\ wire = <<>> BY <1>2, Nothing
<1>4. /\ requests \in Nat /\ lengths \in Seq(Int) /\ Len(lengths) \in Nat
      /\ Len(lengths) <= requests
  BY DEF IInv, Typed, Outstanding
<1>5. \A r \in 1..requests : (IF r <= Len(lengths) THEN lengths[r] ELSE 0) \in Int BY <1>4
<1>6. lengths' \in Seq(Int) /\ Len(lengths') = requests BY <1>1, <1>4, <1>5
<1>7. \A r \in 1..Len(lengths) : lengths'[r] = lengths[r] BY <1>1, <1>4
<1>8. Typed' BY <1>1, <1>6 DEF IInv, Typed
<1>9. Sized' BY <1>1, <1>3 DEF Sized, Idle
<1>10. Outstanding' BY <1>1, <1>3, <1>4, <1>6 DEF Outstanding, Idle
<1>11. InPlace' BY <1>1, <1>2, <1>3 DEF InPlace
<1>12. Whole' BY <1>1, <1>4, <1>6, <1>7, StillWhole
<1> QED BY <1>8, <1>9, <1>10, <1>11, <1>12 DEF IInv

LEMMA NextIInv == IInv /\ [Next]_vars => IInv'
<1> SUFFICES ASSUME IInv, [Next]_vars PROVE IInv'
  OBVIOUS
<1>1. CASE Request BY <1>1, RequestKeeps
<1>2. CASE \E length \in Announced : Replies(length) BY <1>2, RepliesKeeps
<1>3. CASE \E n \in 1..Len(wire) : OnData(n) BY <1>3, OnDataKeeps
<1>4. CASE LengthRead BY <1>4, LengthReadKeeps
<1>5. CASE BodyRead BY <1>5, BodyReadKeeps
<1>6. CASE SocketCloses BY <1>6, SocketClosesKeeps
<1>7. CASE ReadFails BY <1>7, ReadFailsKeeps
<1>8. CASE Reconnects BY <1>8, ReconnectsKeeps
<1>9. CASE UNCHANGED vars
  BY <1>9 DEF vars, IInv, Typed, Sized, Outstanding, InPlace, Whole, Behind, ToCome, Enough,
             Holds, Idle
<1> QED BY <1>1, <1>2, <1>3, <1>4, <1>5, <1>6, <1>7, <1>8, <1>9 DEF Next

-----------------------------------------------------------------------------
\* The bytes of a reply in the order they are read.
LEMMA AllJoined ==
  ASSUME NEW r, NEW k \in Nat, NEW buffer \in Seq(Bytes), NEW gathered \in Seq(Bytes),
         NEW coming \in Seq(Bytes), NEW both, NEW all,
         Holds(buffer, r, k), Holds(gathered, r, k + Len(buffer)),
         Holds(coming, r, k + (Len(buffer) + Len(gathered))),
         Join(buffer, gathered, both), Join(both, coming, all)
  PROVE  /\ all \in Seq(Bytes) /\ Holds(all, r, k)
         /\ Len(all) = Len(buffer) + Len(gathered) + Len(coming)
<1> USE DEF Arriving
<1>1. PICK at \in Nat : at = k + Len(buffer) OBVIOUS
<1>2. PICK from \in Nat : from = k + (Len(buffer) + Len(gathered)) OBVIOUS
<1>3. both \in Seq(Bytes) /\ Len(both) = Len(buffer) + Len(gathered) /\ Holds(both, r, k)
  <2>1. Holds(gathered, r, at) BY <1>1
  <2> QED BY <1>1, <2>1, Joined
<1>4. from = k + Len(both) /\ Holds(coming, r, from) BY <1>2, <1>3
<1>5. all \in Seq(Bytes) /\ Len(all) = Len(both) + Len(coming) /\ Holds(all, r, k)
  BY <1>3, <1>4, Joined
<1> QED BY <1>3, <1>5

\* The bytes that are there of a living socket's reply are all that are awaited.
LEMMA AllThere ==
  ASSUME IInv, reading.what # "nothing", Len(lengths) = requests, ~socketDestroyed
  PROVE  receiveBuffer \o chunks \o wire = Awaited
<1> DEFINE all == receiveBuffer \o chunks \o wire
<1>1. /\ requests \in Nat /\ lengths[requests] \in Int /\ Behind \in Nat
      /\ Holds(receiveBuffer, requests, Behind)
      /\ Holds(chunks, requests, Behind + Len(receiveBuffer))
      /\ Holds(wire, requests, Behind + (Len(receiveBuffer) + Len(chunks)))
      /\ Len(receiveBuffer) + Len(chunks) + Len(wire) = ToCome
  BY Something
<1>2. /\ receiveBuffer \in Seq(Bytes) /\ chunks \in Seq(Bytes) /\ wire \in Seq(Bytes)
      /\ Len(receiveBuffer) \in Nat /\ Len(chunks) \in Nat /\ Len(wire) \in Nat
  BY DEF IInv, Typed
<1>3. all \in Seq(Bytes) /\ Len(all) = ToCome /\ Holds(all, requests, Behind)
  <2>1. Join(receiveBuffer, chunks, receiveBuffer \o chunks)
        /\ Join(receiveBuffer \o chunks, wire, all)
    BY DEF Join
  <2> HIDE DEF all
  <2> QED BY <1>1, <1>2, <2>1, AllJoined
<1> HIDE DEF all
<1>4. CASE reading.what = "length"
  <2> DEFINE frame == Frame(requests, lengths[requests])
  <2>1. Behind = 0 BY <1>4 DEF Behind
  <2>2. /\ frame \in Seq(Bytes) /\ Holds(frame, requests, 0)
        /\ Len(frame) = IF lengths[requests] < 0 THEN SizeDataLength
                        ELSE SizeDataLength + lengths[requests] + SizeCasInfo
    BY <1>1, FrameHolds
  <2>3. Awaited = frame BY <1>4 DEF Awaited
  <2> HIDE DEF frame
  <2>4. Len(frame) = ToCome BY <1>1, <1>4, <2>1, <2>2, SizesAssumption DEF ToCome
  <2>5. all = frame BY <1>3, <2>1, <2>2, <2>4, SameBytes
  <2> QED BY <2>3, <2>5 DEF all
<1>5. CASE reading.what = "body"
  <2> DEFINE body == Body(requests, lengths[requests])
  <2>1. Behind = SizeDataLength /\ lengths[requests] \in Nat BY <1>5 DEF Behind, IInv, Sized
  <2>2. /\ body \in Seq(Bytes) /\ Holds(body, requests, SizeDataLength)
        /\ Len(body) = lengths[requests] + SizeCasInfo
    BY <1>1, <2>1, BodyHolds
  <2>3. Awaited = body BY <1>5 DEF Awaited
  <2> HIDE DEF body
  <2>4. Len(body) = ToCome BY <1>1, <1>5, <2>1, <2>2, SizesAssumption DEF ToCome
  <2>5. all = body BY <1>3, <2>1, <2>2, <2>4, SameBytes
  <2> QED BY <2>3, <2>5 DEF all
<1>6. reading.what \in {"length", "body"} BY DEF IInv, Typed
<1> QED BY <1>4, <1>5, <1>6

LEMMA IInvIntact == IInv => FramesIntact
<1> SUFFICES ASSUME IInv PROVE FramesIntact
  OBVIOUS
<1>1. reading = Idle <=> reading.what = "nothing" BY DEF IInv, Sized
<1>2. reading # Idle /\ Len(lengths) = requests /\ ~socketDestroyed =>
        receiveBuffer \o chunks \o wire = Awaited
  BY <1>1, AllThere
<1>3. reading = Idle => receiveBuffer \o chunks \o wire = <<>>
  <2>1. ASSUME reading = Idle PROVE receiveBuffer = <<>> /\ chunks = <<>> /\ wire = <<>>
    BY <1>1, <2>1, Nothing
  <2> QED BY <2>1
<1> QED BY <1>2, <1>3 DEF FramesIntact, IInv, Whole

\* Every frame that readFrame returns is the reply to its own request, byte by byte, for
\* every cut of the bytes into chunks, every length a CAS announces, and sockets that
\* close, fail or are replaced at any moment; no byte is lost or left over in between.
THEOREM FramesRead == Spec => []FramesIntact
<1>1. IInv /\ [Next]_vars => IInv' BY NextIInv
<1>2. Init => IInv BY InitIInv
<1>3. IInv => FramesIntact BY IInvIntact
<1> QED BY <1>1, <1>2, <1>3, PTL DEF Spec

=============================================================================
