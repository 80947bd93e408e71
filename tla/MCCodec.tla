------------------------------- MODULE MCCodec -------------------------------
(***************************************************************************)
(* The instance of the codec that TLC checks.  A behaviour follows one     *)
(* subject: frames are cut into chunks (Framing), or the reply of a CAS is *)
(* damaged and decoded (Replies), or a text is written and parameters are  *)
(* rendered into it (SqlText).                                             *)
(***************************************************************************)
EXTENDS Framing, Replies, SqlText

CONSTANTS
  MaxDamage,  \* bound: words of a reply that are damaged
  MaxText     \* bound: characters of a text

VARIABLES
  columnTypes,  \* of the columns of the reply
  reply,        \* the words of the reply, none yet at the start
  damage,
  statement     \* the text of a statement

mcvars == <<vars, columnTypes, reply, damage, statement>>

-----------------------------------------------------------------------------
(* The replies of a CAS.                                                   *)

Cell(words) == <<Len(words)>> \o words

SqlNull == <<-1>>
Dates == Cell(<<DATE, 2>> \o Cell(<<0>>) \o Cell(<<2>>))

\* The cells of columns of each type: values, SQL NULL, a zero date, a type without a
\* decoder, collections with such elements, and collections of collections.
CellsOf(type) ==
  CASE type = INT -> {Cell(<<3>>), SqlNull}
    [] type = BIT -> {Cell(<<>>), Cell(<<0, 4>>)}
    [] type = DATE -> {Cell(<<0>>), Cell(<<2>>)}
    [] type = BLOB -> {Cell(<<BLOB, 1, 1, 0>>)}
    [] type = SET ->
         {Cell(<<NULLTYPE, 0>>), Dates,
          Cell(<<BIT, 2>> \o Cell(<<>>) \o SqlNull),
          Cell(<<BLOB, 1>> \o Cell(<<3, 0>>)),
          Cell(<<SET, 2>> \o Cell(<<DATE, 1>> \o Cell(<<0>>)) \o Cell(<<INT, 1>> \o Cell(<<3>>)))}
    [] type = NULLTYPE ->
         {SqlNull, Cell(<<INT, 3>>), Cell(<<CollectionFlag, DATE>> \o Tail(Dates)),
          Cell(<<OtherFlag, INT, 3>>)}
    [] OTHER -> {Cell(<<>>), Cell(<<1, 2>>)}

Unknown == 7
Types == {NULLTYPE, INT, BIT, DATE, SET, BLOB, Unknown}

Row(cells) == <<1, 0>> \o cells

\* One row of two columns, or two rows of one.
OneRow(type, other, cell) ==
  {[columns |-> <<type, other>>, words |-> <<0, 1>> \o Row(c \o cell)] : c \in CellsOf(type)}
TwoRows(type) ==
  {[columns |-> <<type>>, words |-> <<0, 2>> \o Row(c) \o Row(d)] :
     c \in CellsOf(type), d \in CellsOf(type)}
Refused == [columns |-> <<INT>>, words |-> <<-1, 4>>]

Encoded ==
  (UNION {OneRow(type, DATE, Cell(<<2>>)) : type \in Types})
    \cup OneRow(DATE, SET, Dates) \cup TwoRows(DATE) \cup {Refused}

DamagedWords == {-2, -1, 0, 1, 2, 3, 4, 5, 9}

-----------------------------------------------------------------------------
(* The texts.                                                              *)

Characters == {"'", "\"", "\\", "/", "*", "-", "?", "nl", "x"}
AllCharacters == Characters \cup {"nul", "1", "NULL", "X", "0"}

ASSUME CharactersAssumption == AllCharacters \subseteq Alphabet

\* The parameters that are bound, two of them at a time.
Values ==
  {Str(s) : s \in {<<>>, <<"'">>, <<"\\">>, <<"'", "\\">>, <<"\\", "'">>, <<"nl", "?">>, <<"nul">>}}
    \cup {Plain(<<"-", "1">>), Plain(<<"NULL">>), Quoted(<<"X">>, <<"0">>)}
Params(value) == <<value, Str(<<"x", "-", "-">>)>>

-----------------------------------------------------------------------------
(* The behaviours.                                                         *)

AnnouncedLengths == {-1, 0, 1, 2, 3}

NoFrames == requests = 0 /\ ~socketDestroyed
NoReply == reply = <<>>
NoText == statement = <<>>

MCInit == Init /\ columnTypes = <<>> /\ reply = <<>> /\ damage = 0 /\ statement = <<>>

FramingStep == NoReply /\ NoText /\ Next /\ UNCHANGED <<columnTypes, reply, damage, statement>>

Answer ==
  /\ NoFrames /\ NoReply /\ NoText
  /\ \E e \in Encoded : columnTypes' = e.columns /\ reply' = e.words
  /\ UNCHANGED <<vars, damage, statement>>

Damage ==
  /\ reply # <<>> /\ damage < MaxDamage
  /\ \/ \E i \in 2..Len(reply), w \in DamagedWords : reply' = [reply EXCEPT ![i] = w]
     \/ \E n \in 1..(Len(reply) - 1) : reply' = SubSeq(reply, 1, n)
  /\ damage' = damage + 1
  /\ UNCHANGED <<vars, columnTypes, statement>>

Write ==
  /\ NoFrames /\ NoReply /\ Len(statement) < MaxText
  /\ \E ch \in Characters : statement' = Append(statement, ch)
  /\ UNCHANGED <<vars, columnTypes, reply, damage>>

MCNext == FramingStep \/ Answer \/ Damage \/ Write

MCSpec == MCInit /\ [][MCNext]_mcvars

-----------------------------------------------------------------------------
(* Properties.                                                             *)

\* A FETCH reply, as the CAS wrote it or with lengths, counts, types and values
\* damaged or cut off, is read as the one thing it means: its rows, when every
\* value of them has a decoder; unsupported, which keeps the session, only if the
\* rest of the reply holds together, wherever in a row or in a nested collection the
\* value is; malformed, which drops the session, for every other reply.
RepliesReadAsMeant ==
  reply # <<>> => ReadAsMeant(reply, columnTypes)

\* A statement with its parameters is read by the server as that statement with those
\* values, in the mode the parameters were escaped for: no value ends its literal or
\* begins SQL of its own, no question mark in a string, behind -- or in a block comment
\* takes a value, and nothing is sent when a placeholder has no parameter or a value has
\* no literal.  Literal mode is restricted to texts without a backslash (see
\* LiteralModeFollowed), and negative numbers to texts without a minus sign in front of a
\* placeholder.  Nothing is said of comments behind //, or of question marks in brackets
\* or backticks, which the server's lexer in SqlText does not know.
BoundAsWritten ==
  \A mode \in BOOLEAN, value \in Values :
    /\ statement # <<>> /\ Spaced(statement, mode) /\ NoDoubleMinus(statement, Params(value))
    /\ mode => NoBackslash(statement)
    => BoundTo(statement, Params(value), mode)

\* README.md and the comment of escapeString: in literal mode the backslash is an
\* ordinary character.  So the scanner finds the placeholders the server sees.
LiteralModeFollowed ==
  LET nulls == [i \in 1..Len(statement) |-> Plain(<<"NULL">>)]
  IN InterpolateParams(statement, nulls, TRUE).paramIndex = Cardinality(ServerPlaceholders(statement, TRUE))

=============================================================================
