------------------------------- MODULE SqlText -------------------------------
(***************************************************************************)
(* Rendering parameters into SQL text: interpolateParams, formatValue and  *)
(* escapeString (src/src/protocol/protocol.ts).                            *)
(*                                                                         *)
(* A text is a sequence of characters, of which only those the code looks  *)
(* at are told apart; "nl" stands for a line feed and for a carriage       *)
(* return, "nul" for the two characters no literal can hold.  Definitions  *)
(* named Wrong... are deliberate bugs, used only to show that a property   *)
(* notices them.                                                           *)
(***************************************************************************)
EXTENDS Integers, Sequences, FiniteSets

CONSTANT Alphabet  \* the characters of a text

ASSUME AlphabetAssumption ==
  {"'", "\"", "\\", "/", "*", "-", "?", "nl"} \subseteq Alphabet /\ "" \notin Alphabet

\* The pieces of a text one after another (FlattenSeq, as a function that proofs can unfold).
Joined(pieces) ==
  LET upTo[k \in 0..Len(pieces)] == IF k = 0 THEN <<>> ELSE upTo[k - 1] \o pieces[k]
  IN upTo[Len(pieces)]

-----------------------------------------------------------------------------
(* Parameters.  A number, a bigint, a boolean and null are plain: what     *)
(* String() writes, or NULL.  A Date and a Buffer are quoted behind a      *)
(* prefix, their characters need no escape.                                *)

Str(characters) == [type |-> "string", prefix |-> <<>>, text |-> characters]
Quoted(prefix, characters) == [type |-> "quoted", prefix |-> prefix, text |-> characters]
Plain(characters) == [type |-> "plain", prefix |-> characters, text |-> <<>>]

\* assertStorableText
Storable(value) == value.type = "string" => \A i \in 1..Len(value.text) : value.text[i] # "nul"

\* One that leaves the backslash alone in both modes.
WrongEscaped(ch, noBackslashEscapes) ==
  IF ch = "'" THEN <<"'", "'">>
  ELSE IF ~noBackslashEscapes /\ ch = "nl" THEN <<"\\", ch>> ELSE <<ch>>

\* What escapeString replaces a character by.
Escaped(ch, noBackslashEscapes) ==
  IF ch = "'" THEN <<"'", "'">>
  ELSE IF ~noBackslashEscapes /\ ch \in {"\\", "nl"} THEN <<"\\", ch>> ELSE <<ch>>

EscapeString(value, noBackslashEscapes) ==
  <<"'">> \o Joined([i \in 1..Len(value) |-> Escaped(value[i], noBackslashEscapes)]) \o <<"'">>

\* One that quotes a string only if there is something in it.
WrongFormatValue(value, noBackslashEscapes) ==
  IF value.type = "string" /\ value.text # <<>> THEN EscapeString(value.text, noBackslashEscapes)
  ELSE value.prefix

FormatValue(value, noBackslashEscapes) ==
  CASE value.type = "string" -> EscapeString(value.text, noBackslashEscapes)
    [] value.type = "quoted" -> value.prefix \o <<"'">> \o value.text \o <<"'">>
    [] OTHER -> value.prefix

-----------------------------------------------------------------------------
(* The scanner of interpolateParams: where it is, and whether it has taken *)
(* the next character as well.                                             *)

Quotes == {"'", "\""}

At(text, i) == IF i \in 1..Len(text) THEN text[i] ELSE ""

To(place, taken) == [place |-> place, taken |-> taken]

\* One that reads only single quotes as quotes.
WrongScan(place, ch, next) ==
  IF place = "sql" THEN (IF ch = "'" THEN To("'", FALSE) ELSE To("sql", FALSE))
  ELSE IF ch = "\\" /\ next # "" THEN To(place, TRUE)
  ELSE IF ch = place /\ next = place THEN To(place, TRUE)
  ELSE IF ch = place THEN To("sql", FALSE) ELSE To(place, FALSE)

Scan(place, ch, next) ==
  CASE place \in Quotes ->
         IF next # "" /\ (ch = "\\" \/ (ch = place /\ next = place)) THEN To(place, TRUE)
         ELSE IF ch = place THEN To("sql", FALSE) ELSE To(place, FALSE)
    [] place = "block" -> IF ch = "*" /\ next = "/" THEN To("sql", TRUE) ELSE To("block", FALSE)
    [] place = "line" -> IF ch = "nl" THEN To("sql", FALSE) ELSE To("line", FALSE)
    [] OTHER ->
         IF ch \in Quotes THEN To(ch, FALSE)
         ELSE IF ch = "/" /\ next = "*" THEN To("block", TRUE)
         ELSE IF ch = "-" /\ next = "-" THEN To("line", TRUE)
         ELSE To("sql", FALSE)

\* The loop: the result so far, how many parameters are in it, and whether it threw,
\* because a placeholder has no parameter or a value no literal.
Start == [scan |-> To("sql", FALSE), paramIndex |-> 0, sent |-> TRUE, result |-> <<>>]

IsPlaceholder(scan, ch) == scan.place = "sql" /\ ~scan.taken /\ ch = "?"

TakeChar(loop, ch, next, params, noBackslashEscapes) ==
  LET param == params[loop.paramIndex + 1]
      scan == IF loop.scan.taken THEN To(loop.scan.place, FALSE)
                                 ELSE Scan(loop.scan.place, ch, next)
  IN CASE ~loop.sent -> loop
       [] loop.sent /\ ~IsPlaceholder(loop.scan, ch) ->
            [loop EXCEPT !.scan = scan, !.result = Append(@, ch)]
       [] OTHER ->
            IF loop.paramIndex = Len(params) \/ ~Storable(param) THEN [loop EXCEPT !.sent = FALSE]
            ELSE [loop EXCEPT !.paramIndex = @ + 1,
                              !.result = @ \o FormatValue(param, noBackslashEscapes)]

InterpolateParams(text, params, noBackslashEscapes) ==
  LET loop[i \in 0..Len(text)] ==
        IF i = 0 THEN Start
        ELSE TakeChar(loop[i - 1], text[i], At(text, i + 1), params, noBackslashEscapes)
  IN loop[Len(text)]

-----------------------------------------------------------------------------
(* The server (external): how CUBRID reads the text in each mode, one      *)
(* character after another.  In literal mode a backslash is an ordinary    *)
(* character; in escape mode it takes the next one into the string as it   *)
(* is.  A doubled quote is a quote.  Comments that begin with two slashes, *)
(* and identifiers in brackets or backticks, are ordinary characters here. *)

Token(kind, mark, string) == [kind |-> kind, mark |-> mark, string |-> string]
Character(ch) == Token("character", ch, <<>>)

\* What is read so far: the tokens, the text of an unfinished string, and where.
Lexer(tokens, string, state, mark) ==
  [tokens |-> tokens, string |-> string, state |-> state, mark |-> mark]
Empty == Lexer(<<>>, <<>>, "sql", "")

ReadSql(tokens, ch) ==
  IF ch \in Quotes THEN Lexer(tokens, <<>>, "string", ch)
  ELSE IF ch \in {"/", "-"} THEN Lexer(tokens, <<>>, "seen", ch)
  ELSE Lexer(Append(tokens, Character(ch)), <<>>, "sql", "")

\* The tokens, when what was read last turns out to be over.
Flushed(lexer) ==
  CASE lexer.state = "sql" -> lexer.tokens
    [] lexer.state = "seen" -> Append(lexer.tokens, Character(lexer.mark))
    [] lexer.state = "quote" -> Append(lexer.tokens, Token("literal", lexer.mark, lexer.string))
    [] OTHER -> Append(lexer.tokens, Token(lexer.state, lexer.mark, lexer.string))

ReadChar(lexer, ch, noBackslashEscapes) ==
  LET state == lexer.state
      mark == lexer.mark
      Go(s) == [lexer EXCEPT !.state = s]
      Taken == [lexer EXCEPT !.state = "string", !.string = Append(@, ch)]
  IN CASE state = "sql" -> ReadSql(lexer.tokens, ch)
       [] state = "seen" ->
            IF mark = "/" /\ ch = "*" THEN Go("block")
            ELSE IF mark = "-" /\ ch = "-" THEN Go("line")
            ELSE ReadSql(Flushed(lexer), ch)
       [] state = "block" -> IF ch = "*" THEN Go("star") ELSE lexer
       [] state = "star" -> IF ch = "/" THEN Go("sql") ELSE IF ch = "*" THEN lexer ELSE Go("block")
       [] state = "line" -> IF ch = "nl" THEN Go("sql") ELSE lexer
       [] state = "escaped" -> Taken
       [] state = "string" ->
            IF ch = "\\" /\ ~noBackslashEscapes THEN Go("escaped")
            ELSE IF ch = mark THEN Go("quote") ELSE Taken
       [] OTHER -> IF ch = mark THEN Taken ELSE ReadSql(Flushed(lexer), ch)

\* The lexer behind each character of a text.
Reading(lexer, text, noBackslashEscapes) ==
  LET read[i \in 0..Len(text)] ==
        IF i = 0 THEN lexer ELSE ReadChar(read[i - 1], text[i], noBackslashEscapes)
  IN read

\* The tokens of a text, with the rest of it when it ends inside a string or a comment.
ServerReads(text, noBackslashEscapes) ==
  Flushed(Reading(Empty, text, noBackslashEscapes)[Len(text)])

\* Where the server wants a value.
ServerPlaceholders(text, noBackslashEscapes) ==
  {i \in 1..Len(text) :
     /\ text[i] = "?"
     /\ Reading(Empty, text, noBackslashEscapes)[i - 1].state \in {"sql", "seen", "quote"}}

\* The tokens of a value: one literal, behind its prefix if it has one, or the
\* characters of a plain one.
ValueTokens(value) ==
  [i \in 1..Len(value.prefix) |-> Character(value.prefix[i])]
    \o (IF value.type = "plain" THEN <<>> ELSE <<Token("literal", "'", value.text)>>)

\* The tokens with the parameters in place of the placeholders, and how many those are.
BindToken(bound, token, params) ==
  IF token # Character("?") THEN [tokens |-> Append(bound.tokens, token), count |-> bound.count]
  ELSE [tokens |-> bound.tokens \o ValueTokens(params[bound.count + 1]), count |-> bound.count + 1]

Bound(tokens, params) ==
  LET bound[k \in 0..Len(tokens)] ==
        IF k = 0 THEN [tokens |-> <<>>, count |-> 0]
        ELSE BindToken(bound[k - 1], tokens[k], params)
  IN bound[Len(tokens)]

-----------------------------------------------------------------------------
(* What InterpolateParams promises.                                        *)

\* No placeholder touches a string or another placeholder: SQL has an operator or a
\* space between two operands, and two literals side by side are one.
Spaced(text, noBackslashEscapes) ==
  \A i \in ServerPlaceholders(text, noBackslashEscapes) :
    At(text, i - 1) # "'" /\ At(text, i + 1) \notin {"'", "?"}

\* No negative number goes right behind a minus sign, where the two would begin a comment.
NoDoubleMinus(text, params) ==
  \A k \in 1..Len(params) :
    At(params[k].prefix, 1) = "-"
      => \A i \in 1..Len(text) : text[i] = "-" => At(text, i + 1) # "?"

\* In literal mode the scanner takes a backslash for an escape (see LiteralModeFollowed).
NoBackslash(text) == \A i \in 1..Len(text) : text[i] # "\\"

\* The parameters are sent if every placeholder has one and each that is used has a
\* literal; then the server reads the statement with those values.
BoundTo(text, params, noBackslashEscapes) ==
  LET bound == InterpolateParams(text, params, noBackslashEscapes)
      count == Cardinality(ServerPlaceholders(text, noBackslashEscapes))
  IN /\ bound.sent <=> count <= Len(params) /\ \A k \in 1..count : Storable(params[k])
     /\ bound.sent => ServerReads(bound.result, noBackslashEscapes)
                        = Bound(ServerReads(text, noBackslashEscapes), params).tokens

=============================================================================
