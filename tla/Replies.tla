------------------------------- MODULE Replies -------------------------------
(***************************************************************************)
(* Decoding the rows of a FETCH reply: parseFetch, parseRowData,           *)
(* readValue, readCollection and readCollectionElement                     *)
(* (src/src/protocol/protocol.ts) over the bounded reads of PacketReader   *)
(* (src/src/protocol/packet-reader.ts).                                    *)
(*                                                                         *)
(* A reply is a sequence of words.  Every field is one word wide: a        *)
(* length, a row index, an OID, a type, a count, an INT and a DATE, whose  *)
(* zero is the zero date.  A decoder answers with a verdict, the value and *)
(* the words it has consumed; an exception is a verdict.  Definitions      *)
(* named Wrong... are deliberate bugs, used only to show that a property   *)
(* notices them.                                                           *)
(***************************************************************************)
EXTENDS Integers, Sequences

\* CUBRIDDataType, one of each kind of decoder; any other type has none.
NULLTYPE == 0
INT == 1
BIT == 2
DATE == 3
SET == 4
BLOB == 5

\* The first word of a type header of two words, which the type follows: it marks a
\* collection, whose element type that is, or nothing the driver knows.
CollectionFlag == 9
OtherFlag == 8

CollectionHeaderSize == 2
LobHandleHeaderSize == 3
MinReplySize == 2

\* A JavaScript value, tagged; Unsupported is the value that is not read.
Null == <<"null">>
Unsupported == <<"unsupported">>
Scalar(words) == <<"scalar", words>>
Collection(elements) == <<"collection", elements>>

\* MalformedReplyError, UnsupportedValueError or a value.
Malformed == [verdict |-> "malformed", value |-> <<>>, at |-> 0]
NotDecoded(at) == [verdict |-> "unsupported", value |-> Unsupported, at |-> at]
Ok(value, at) == [verdict |-> "ok", value |-> value, at |-> at]

-----------------------------------------------------------------------------
(* PacketReader: words from position `at`, none behind `limit`.            *)

Available(at, limit, length) == length \in 0..(limit - at)
Word(words, at) == words[at + 1]
Words(words, at, length) == SubSeq(words, at + 1, at + length)

IsCollectionType(type) == type = SET
IsBitType(type) == type = BIT

\* assertExactLength
ExactLength(read, from, size) ==
  IF read.verdict = "ok" /\ read.at - from # size THEN Malformed ELSE read

-----------------------------------------------------------------------------
(* The loops over elements, columns and rows.                              *)

\* One that stops at the first value it cannot decode.
WrongAnd(before, next) ==
  IF before.verdict # "ok" THEN before
  ELSE IF next.verdict # "ok" THEN next
  ELSE Ok(Append(before.value, next.value), next.at)

\* A failure of a later value wins over an unsupported one.
And(before, next) ==
  IF "malformed" \in {before.verdict, next.verdict} THEN Malformed
  ELSE IF "unsupported" \in {before.verdict, next.verdict} THEN NotDecoded(next.at)
  ELSE Ok(Append(before.value, next.value), next.at)

\* `count` values, of which next[i][at] is how number i is read from `at`.
ReadAll(next, count, from) ==
  LET read[i \in 0..count] ==
        IF i = 0 THEN Ok(<<>>, from)
        ELSE LET before == read[i - 1] IN And(before, next[i][before.at])
  IN read[count]

-----------------------------------------------------------------------------
(* Values.  `nested` reads the value of an element, which takes [at][type]   *)
(* [length], in the limits of the element.                                  *)

\* readCollectionElement, its length read and `at` behind it.
ReadElement(nested, at, limit, type, length) ==
  IF length = -1 THEN Ok(Null, at)
  ELSE IF length = 0 /\ IsBitType(type) THEN Ok(Scalar(<<>>), at)
  ELSE IF length <= 0 \/ ~Available(at, limit, length) THEN Malformed
  ELSE LET element == IF type = BLOB THEN NotDecoded(at)
                      ELSE ExactLength(nested[at][type][length], at, length)
       IN IF element.verdict = "unsupported" THEN NotDecoded(at + length) ELSE element

\* One turn of the loop of readCollection.
NextElement(nested, words, at, limit, type) ==
  IF ~Available(at, limit, 1) THEN Malformed
  ELSE ReadElement(nested, at + 1, limit, type, Word(words, at))

\* readCollection
ReadCollection(nested, words, at, limit, size) ==
  IF ~Available(at, limit, size) \/ size < CollectionHeaderSize THEN Malformed
  ELSE LET type == Word(words, at)
           count == Word(words, at + 1)
           next == [i \in 1..count |-> [from \in Int |-> NextElement(nested, words, from, at + size, type)]]
           elements == ReadAll(next, count, at + CollectionHeaderSize)
       IN IF count < 0 \/ count > size - CollectionHeaderSize \/ elements.at # at + size
          THEN Malformed
          ELSE IF elements.verdict = "ok" THEN Ok(Collection(elements.value), elements.at)
          ELSE elements

\* readLobLocator: its type, its size, the length of the locator, and the locator
\* with its NUL.
ReadLobLocator(words, at, limit, size) ==
  IF /\ Available(at, limit, size) /\ size > LobHandleHeaderSize
     /\ Word(words, at) = BLOB /\ Word(words, at + 1) >= 0
     /\ LobHandleHeaderSize + Word(words, at + 2) = size
     /\ Word(words, at + size - 1) = 0
  THEN Ok(Scalar(Words(words, at, size)), at + size)
  ELSE Malformed

\* readValue; an unsupported value leaves its words unread.
ReadValue(nested, words, at, limit, type, size) ==
  IF type = INT THEN
    IF Available(at, limit, 1) THEN Ok(Scalar(Words(words, at, 1)), at + 1) ELSE Malformed
  ELSE IF type = BIT THEN
    IF Available(at, limit, size) THEN Ok(Scalar(Words(words, at, size)), at + size) ELSE Malformed
  ELSE IF type = DATE THEN
    IF ~Available(at, limit, 1) THEN Malformed
    ELSE IF size = 1 /\ Word(words, at) = 0 THEN NotDecoded(at)
    ELSE Ok(Scalar(Words(words, at, 1)), at + 1)
  ELSE IF type = BLOB THEN ReadLobLocator(words, at, limit, size)
  ELSE IF IsCollectionType(type) THEN ReadCollection(nested, words, at, limit, size)
  ELSE NotDecoded(at)

\* A collection nests no deeper than it has words, so that depth 0 is not reached.
AtDepth(nested, words) ==
  [at \in Int |-> [type \in Int |-> [length \in Int |->
     ReadValue(nested, words, at, at + length, type, length)]]]
Nested(words) ==
  LET nested[depth \in 0..Len(words)] ==
        IF depth = 0 THEN <<>> ELSE AtDepth(nested[depth - 1], words)
  IN nested[Len(words)]

-----------------------------------------------------------------------------
(* Rows.                                                                   *)

\* The value of a cell, behind its length and its type header; what is unsupported
\* is skipped.
ReadPayload(words, at, type, size) ==
  IF size = 0 /\ IsBitType(type) THEN Ok(Scalar(<<>>), at)
  ELSE LET limit == Len(words)
           value == ExactLength(ReadValue(Nested(words), words, at, limit, type, size), at, size)
       IN IF value.verdict = "unsupported"
          THEN IF Available(at, limit, size) THEN NotDecoded(at + size) ELSE Malformed
          ELSE IF value.verdict = "ok" /\ size = 0 THEN Malformed
          ELSE value

\* parseColumnType
HeaderWidth(word) == IF word \in {CollectionFlag, OtherFlag} THEN 2 ELSE 1
HeaderType(words, at) ==
  IF Word(words, at) = CollectionFlag THEN SET
  ELSE Word(words, at + HeaderWidth(Word(words, at)) - 1)

\* One column of a row; a column of no type states it in the cell.
ReadCell(words, at, type) ==
  IF ~Available(at, Len(words), 1) THEN Malformed
  ELSE LET size == Word(words, at)
           hasTypeHeader == type = NULLTYPE
           width == HeaderWidth(Word(words, at + 1))
       IN IF size < -1 \/ (size = 0 /\ (IsCollectionType(type) \/ hasTypeHeader)) THEN Malformed
          ELSE IF size = -1 THEN Ok(Null, at + 1)
          ELSE IF ~hasTypeHeader THEN ReadPayload(words, at + 1, type, size)
          ELSE IF ~Available(at + 1, Len(words), 1) THEN Malformed
          ELSE IF ~Available(at + 1, Len(words), width) \/ width > size THEN Malformed
          ELSE ReadPayload(words, at + 1 + width, HeaderType(words, at + 1), size - width)

\* parseRowData: a row has its index and its OID in front.
ReadRow(words, at, columns) ==
  IF ~Available(at, Len(words), 2) THEN Malformed
  ELSE ReadAll([i \in 1..Len(columns) |-> [from \in Int |-> ReadCell(words, from, columns[i])]],
               Len(columns), at + 2)

ParseRowData(words, at, columns, tupleCount) ==
  IF tupleCount <= 0 THEN Ok(<<>>, at)
  ELSE ReadAll([i \in 1..tupleCount |-> [from \in Int |-> ReadRow(words, from, columns)]],
               tupleCount, at)

\* parseFetch; a negative response code is the error of the CAS.
ParseFetch(words, columns) ==
  IF Len(words) < MinReplySize THEN Malformed
  ELSE IF Word(words, 0) < 0 THEN [verdict |-> "refused", value |-> <<>>, at |-> MinReplySize]
  ELSE ParseRowData(words, MinReplySize, columns, Word(words, 1))

-----------------------------------------------------------------------------
(* The format (external: what a CAS sends): a value is the way its words   *)
(* can be split.  Each set has the values that the words behind `from`, up *)
(* to `to`, can mean; it is empty for words that mean nothing.             *)

\* The words split into `count` pieces, of which piece k means one of means[k][from][to]:
\* the sequences of values, for each end of the last piece.
FirstSplit(from, to) == [end \in from..to |-> IF end = from THEN {<<>>} ELSE {}]
NextSplit(split, means, from, to) ==
  [end \in from..to |->
     UNION {{Append(values, value) : values \in split[start], value \in means[start][end]} :
              start \in {s \in from..end : means[s][end] # {}}}]
Splits(means, count, from, to) ==
  LET split[k \in 0..count] ==
        IF k = 0 THEN FirstSplit(from, to) ELSE NextSplit(split[k - 1], means[k], from, to)
  IN split[count]

\* A length, and as many words of a value.
CellValues(nested, words, type, from, to) ==
  IF from >= to THEN {}
  ELSE IF to = from + 1 /\ words[to] = -1 THEN {Null}
  ELSE IF words[from + 1] # to - from - 1 THEN {}
  ELSE nested[type][from + 1][to]

\* An element has words, unless it is a bit string; the locator of a BLOB in a
\* collection is not read.
ElementValues(nested, words, type, from, to) ==
  IF to = from + 1 /\ words[to] = 0 /\ type # BIT THEN {}
  ELSE CellValues(nested, words, IF type = BLOB THEN NULLTYPE ELSE type, from, to)

Elements(nested, words, type, count, from, to) ==
  IF count < 0 THEN {}
  ELSE Splits([k \in 1..count |-> [start \in Int |-> [end \in Int |->
                 ElementValues(nested, words, type, start, end)]]], count, from, to)[to]

HasUnsupported(values) == \E i \in 1..Len(values) : values[i] = Unsupported

\* The values of a payload; a type without a decoder says nothing about its words.
Payloads(nested, words, type, from, to) ==
  LET size == to - from
      payload == SubSeq(words, from + 1, to)
  IN CASE type \in {INT, DATE} ->
            IF size # 1 THEN {}
            ELSE IF type = DATE /\ words[to] = 0 THEN {Unsupported} ELSE {Scalar(payload)}
       [] type = BIT -> {Scalar(payload)}
       [] type = BLOB ->
            IF /\ size > 3 /\ words[from + 1] = BLOB /\ words[from + 2] >= 0
               /\ words[from + 3] = size - 3 /\ words[to] = 0
            THEN {Scalar(payload)} ELSE {}
       [] type = SET ->
            IF size < 2 THEN {}
            ELSE {IF HasUnsupported(values) THEN Unsupported ELSE Collection(values) :
                    values \in Elements(nested, words, words[from + 1], words[from + 2], from + 2, to)}
       [] OTHER -> {Unsupported}

PayloadsAtDepth(nested, words) ==
  [type \in Int |-> [from \in Int |-> [to \in Int |-> Payloads(nested, words, type, from, to)]]]
NestedPayloads(words) ==
  LET nested[depth \in 0..Len(words)] ==
        IF depth = 0 THEN <<>> ELSE PayloadsAtDepth(nested[depth - 1], words)
  IN nested[Len(words)]

\* A column of no type is a length and a type header in front of the payload.
ColumnValues(words, type, from, to) ==
  LET nested == PayloadsAtDepth(NestedPayloads(words), words)
  IN IF type # NULLTYPE \/ (to = from + 1 /\ words[to] = -1)
     THEN CellValues(nested, words, type, from, to)
     ELSE IF to < from + 2 \/ words[from + 1] # to - from - 1 THEN {}
     ELSE IF words[from + 2] \notin {CollectionFlag, OtherFlag}
       THEN nested[words[from + 2]][from + 2][to]
     ELSE IF to < from + 3 THEN {}
     ELSE nested[IF words[from + 2] = CollectionFlag THEN SET ELSE words[from + 3]][from + 3][to]

RowValues(words, columns, from, to) ==
  IF to < from + 2 THEN {}
  ELSE Splits([k \in 1..Len(columns) |-> [start \in Int |-> [end \in Int |->
                 ColumnValues(words, columns[k], start, end)]]],
              Len(columns), from + 2, Len(words))[to]

\* The rows that a FETCH reply can begin with.
Meanings(words, columns) ==
  LET count == words[2]
  IN IF count <= 0 THEN {<<>>}
     ELSE UNION {Splits([k \in 1..count |-> [start \in Int |-> [end \in Int |->
                           RowValues(words, columns, start, end)]]],
                        count, MinReplySize, Len(words))[last] : last \in MinReplySize..Len(words)}

\* A FETCH reply is read as the one thing it means: its rows, when every value of
\* them has a decoder; unsupported, which keeps the session, only if the rest of
\* the reply holds together, wherever in a row or a nested collection the value is;
\* malformed, which drops the session, for every other reply.  No damage to the
\* lengths and counts turns the words of one value into another.
ReadAsMeant(words, columns) ==
  LET read == ParseFetch(words, columns)
      meanings == Meanings(words, columns)
      RowsUnsupported(rows) == \E r \in 1..Len(rows) : HasUnsupported(rows[r])
  IN Len(words) >= MinReplySize /\ words[1] >= 0 =>
       CASE read.verdict = "ok" -> meanings = {read.value} /\ ~RowsUnsupported(read.value)
         [] read.verdict = "unsupported" ->
              meanings # {} /\ \A rows \in meanings : RowsUnsupported(rows)
         [] OTHER -> meanings = {}

=============================================================================
