---------------------------- MODULE Streams_proofs ----------------------------
(***************************************************************************)
(* What Streams guarantees for every number of calls, streams and rows.    *)
(*                                                                         *)
(* None of its properties is inductive.  They follow from IInv, whose core *)
(* is what the two sides of a stream may assume of each other: Sound says  *)
(* what holds of a call whatever the producer does, its cursor, reader and *)
(* status taken together, and Stage how far the producer may be, given the *)
(* rows that have been delivered and those on their way.                   *)
(*                                                                         *)
(* The methods of a cursor and the steps of a consumer concern one call.   *)
(* What they preserve is stated of records, without the state; a lemma     *)
(* lifts it to the steps, and each action then only names its case.        *)
(***************************************************************************)
EXTENDS Streams, TLAPS

Statuses == {"waiting", "done", "failed", "refused"}

CursorSet ==
  [window : Seq(Nat), stopped : BOOLEAN, cancelled : BOOLEAN, running : BOOLEAN,
   finished : BOOLEAN, failure : BOOLEAN, resumeProducer : BOOLEAN, resumeConsumer : BOOLEAN]

ReaderSet ==
  [at : {"none", "taking", "reading", "closing", "ended"}, rows : Seq(Nat), delivered : Seq(Nat),
   outcome : {"none", "cancelled", "failed", "complete", "returned"}]

ProducerSet ==
  [at : {"idle", "execute", "fetch", "lob", "waiting", "end", "release"}, rows : Seq(Nat),
   fetched : Nat, lobColumns : BOOLEAN, lobsRead : BOOLEAN, failed : BOOLEAN]

Typed ==
  /\ calls \in Seq(Kinds) /\ Len(calls) <= MaxCalls
  /\ queue \in Seq(1..Len(calls))
  /\ told \in [1..Len(calls) -> Statuses]
  /\ cursor \in [1..Len(calls) -> CursorSet] /\ reader \in [1..Len(calls) -> ReaderSet]
  /\ total \in [1..Len(calls) -> Nat]
  /\ producer \in ProducerSet
  /\ heldBy \in 0..Len(calls) /\ open \in 0..Len(calls)
  /\ waiting \subseteq 1..Len(calls) /\ ran \subseteq 1..Len(calls)

(* A call waits, or ran, or was refused, never two of these.               *)
Apart ==
  /\ due \subseteq waiting /\ decoded \subseteq ran
  /\ \A i \in waiting : told[i] = "waiting" /\ calls[i] # "close" /\ i \notin ran
  /\ \A i \in ran : told[i] # "refused"
  /\ \A i \in 1..Len(calls) : cursor[i].running => i \in ran

(* The rows a stream has delivered, and those on their way from c to r.    *)
InOrder(c, r) ==
  LET d == Len(r.delivered)
  IN  /\ r.delivered = Rows(0, d) /\ r.rows = Rows(d, Len(r.rows))
      /\ ~c.stopped => c.window = Rows(d + Len(r.rows), Len(c.window))
      /\ r.at # "reading" => r.rows = <<>>
      /\ r.at = "reading" => c.running /\ (c.stopped \/ c.window = <<>>)
      /\ ~c.running => c.window = <<>> /\ r.delivered = <<>> /\ r.rows = <<>>

(* The flags of a cursor, and how far its reader is.                       *)
Flagged(c, r, status) ==
  /\ c.finished <=> status # "waiting"
  /\ c.failure => status \in {"failed", "refused"}
  /\ c.cancelled => c.stopped
  /\ c.stopped => ~c.resumeProducer
  /\ r.at \in {"closing", "ended"} => c.stopped
  /\ r.at \in {"taking", "reading"} /\ c.stopped => c.cancelled
  /\ r.at = "ended" => ~c.running \/ (c.finished /\ ~c.failure)

OnTheWay(c, r) == Len(r.delivered) + Len(r.rows) + Len(c.window)

(* What its consumer was told of a stream that settled with status and has *)
(* n rows.                                                                 *)
Reported(c, r, status, n) ==
  /\ r.outcome = "none" <=> r.at \notin {"closing", "ended"}
  /\ r.outcome = "complete" => status = "done" /\ Len(r.delivered) = n
  /\ r.outcome = "returned" => c.running
  /\ status \in {"failed", "refused"} =>
       c.failure \/ c.cancelled \/ r.outcome = "failed" \/ r.at = "none"
  /\ status = "done" /\ ~c.stopped /\ r.at # "none" => OnTheWay(c, r) = n

(* A call of that kind, with its cursor, reader and status.                *)
Sound(kind, c, r, status, n) ==
  /\ kind = "stream" <=> r.at # "none"
  /\ InOrder(c, r) /\ Flagged(c, r, status) /\ Reported(c, r, status, n)

AllSound == \A i \in 1..Len(calls) : Sound(calls[i], cursor[i], reader[i], told[i], total[i])

(* Whose turn it is: the statement that runs was not told anything yet.    *)
Turn ==
  /\ heldBy # 0 <=> producer.at = "waiting"
  /\ timer \in {0, heldBy}
  /\ producer.at # "idle" =>
       /\ queue # <<>> /\ Running \in ran /\ told[Running] = "waiting"
       /\ calls[Running] # "close"
       /\ calls[Running] = "stream" => cursor[Running].running
       /\ producer.at # "execute" => calls[Running] = "stream"
       /\ heldBy \in {0, Running}

(* The consumer waits in take(), and there is nothing for it.              *)
Asked(c, r) == r.at = "taking" /\ c.window = <<>>

(* How far a stream is for a producer in state p: nothing before its       *)
(* statement was answered and then, while its rows are wanted, the rows    *)
(* that were fetched are delivered, on their way, or held by p.            *)
Stage(p, c, r, n) ==
  LET d == Len(r.delivered)
      sent == OnTheWay(c, r)
  IN  /\ p.at = "execute" => c.window = <<>> /\ r.delivered = <<>> /\ r.rows = <<>>
      /\ ~c.stopped =>
           /\ p.at \in {"execute", "fetch", "lob"} => Asked(c, r)
           /\ p.at = "fetch" => d = p.fetched
           /\ p.at = "lob" => d < p.fetched /\ p.rows = Rows(d, p.fetched - d)
           /\ p.at = "waiting" =>
                /\ sent <= p.fetched /\ p.rows = Rows(sent, p.fetched - sent)
                /\ \/ ~c.resumeProducer /\ Asked(c, r)
                   \/ r.at = "reading" /\ c.resumeProducer
                   \/ r.at = "taking" /\ c.resumeProducer /\ c.window # <<>> /\ ~c.resumeConsumer
           /\ p.at \in {"end", "release"} /\ ~p.failed => sent = n

InStage ==
  producer.at # "idle" /\ calls[Running] = "stream" =>
    Stage(producer, cursor[Running], reader[Running], total[Running])

(* What the producer starts with, and who left the session in a            *)
(* transaction: a stream whose END_TRAN is still to come.                  *)
Opened ==
  /\ producer.at = "execute" =>
       Running \notin decoded /\ ~producer.failed /\ ~producer.lobsRead
  /\ open \in decoded =>
       /\ producer.at \in {"fetch", "lob", "waiting", "end"} /\ open = Running
       /\ producer.lobsRead \/ producer.fetched < total[Running]

IInv == Typed /\ Apart /\ AllSound /\ Turn /\ InStage /\ Opened

-----------------------------------------------------------------------------
(* Rows, in the order the result has them.                                 *)

LEMMA RowsAre ==
  ASSUME NEW from \in Nat, NEW n \in Nat
  PROVE  /\ Rows(from, n) \in Seq(Nat) /\ Len(Rows(from, n)) = n
         /\ \A k \in 1..n : Rows(from, n)[k] = from + k
BY DEF Rows

LEMMA TheseRows ==
  ASSUME NEW from \in Nat, NEW n \in Nat, NEW s \in Seq(Nat), Len(s) = n,
         \A k \in 1..n : s[k] = from + k
  PROVE  s = Rows(from, n)
<1>1. s \in [1..n -> Nat] OBVIOUS
<1>2. s = [k \in 1..n |-> from + k] BY <1>1
<1> QED BY <1>2 DEF Rows

LEMMA NoRows ==
  ASSUME NEW from \in Nat, NEW n \in Nat
  PROVE  Rows(from, n) = <<>> <=> n = 0
<1>1. Len(Rows(from, n)) = n BY RowsAre
<1>2. ASSUME n = 0 PROVE Rows(from, n) = <<>>
  <2>1. Rows(from, n) \in Seq(Nat) /\ Len(Rows(from, n)) = 0 BY <1>2, RowsAre
  <2> QED BY <2>1
<1> QED BY <1>1, <1>2

LEMMA RowsTaken ==
  ASSUME NEW from \in Nat, NEW n \in Nat, n > 0
  PROVE  Head(Rows(from, n)) = from + 1 /\ Tail(Rows(from, n)) = Rows(from + 1, n - 1)
<1> DEFINE s == Rows(from, n)
<1>1. s \in Seq(Nat) /\ Len(s) = n /\ \A k \in 1..n : s[k] = from + k BY RowsAre
<1>2. s # <<>> BY <1>1
<1>3. Head(s) = from + 1 BY <1>1, <1>2
<1>4. /\ Tail(s) \in Seq(Nat) /\ Len(Tail(s)) = n - 1
      /\ \A k \in 1..(n - 1) : Tail(s)[k] = (from + 1) + k
  BY <1>1, <1>2
<1> HIDE DEF s
<1>5. from + 1 \in Nat /\ n - 1 \in Nat BY SMT
<1>6. Tail(s) = Rows(from + 1, n - 1) BY <1>4, <1>5, TheseRows
<1> QED BY <1>3, <1>6 DEF s

LEMMA OneRow ==
  ASSUME NEW from \in Nat
  PROVE  <<from + 1>> = Rows(from, 1)
<1>1. 1 \in Nat /\ 1 \in 1..1 OBVIOUS
<1>2. Rows(from, 1) \in Seq(Nat) /\ Len(Rows(from, 1)) = 1 /\ Rows(from, 1)[1] = from + 1
  BY <1>1, RowsAre
<1> QED BY <1>2

LEMMA RowsAdded ==
  ASSUME NEW n \in Nat
  PROVE  Append(Rows(0, n), n + 1) = Rows(0, n + 1)
<1> DEFINE s == Append(Rows(0, n), n + 1)
<1>1. Rows(0, n) \in Seq(Nat) /\ Len(Rows(0, n)) = n /\ \A k \in 1..n : Rows(0, n)[k] = 0 + k
  BY RowsAre
<1>2. s \in Seq(Nat) /\ Len(s) = n + 1 /\ \A k \in 1..(n + 1) : s[k] = 0 + k
  BY <1>1
<1> HIDE DEF s
<1>3. s = Rows(0, n + 1) BY <1>2, TheseRows
<1> QED BY <1>3 DEF s

-----------------------------------------------------------------------------
(* The steps of a consumer, from cursor c and reader r to d and s.  None   *)
(* of them starts or ends the statement, and the producer may be at any    *)
(* stage.                                                                  *)

Moved(kind, status, n, c, r, d, s) ==
  /\ d \in CursorSet /\ s \in ReaderSet /\ d.running = c.running
  /\ Sound(kind, d, s, status, n)
  /\ status = "waiting" => \A p \in ProducerSet : Stage(p, c, r, n) => Stage(p, d, s, n)

\* The finally block of the generator.
Left(kind, status, n, c, r, d, s) ==
  /\ Sound(kind, c, r, status, n) /\ r.at \in {"taking", "reading"}
  /\ d.window = c.window /\ d.cancelled = c.cancelled /\ d.running = c.running
  /\ d.finished = c.finished /\ d.stopped /\ ~d.resumeProducer /\ (d.failure => c.failure)
  /\ s.at = IF c.running THEN "closing" ELSE "ended"
  /\ s.rows = <<>> /\ s.delivered = r.delivered /\ s.outcome # "none"
  /\ s.outcome = "complete" => status = "done" /\ Len(r.delivered) = n
  /\ s.outcome = "returned" => c.running
  /\ status \in {"failed", "refused"} => d.failure \/ c.cancelled \/ s.outcome = "failed"

LEMMA LeavingMoves ==
  ASSUME NEW kind, NEW status \in Statuses, NEW n \in Nat,
         NEW c \in CursorSet, NEW r \in ReaderSet, NEW d \in CursorSet, NEW s \in ReaderSet,
         Left(kind, status, n, c, r, d, s)
  PROVE  Moved(kind, status, n, c, r, d, s)
<1> USE DEF Left
<1>1. InOrder(d, s)
  <2>1. Len(s.delivered) \in Nat /\ Len(s.rows) = 0 BY DEF ReaderSet
  <2>2. s.rows = Rows(Len(s.delivered), Len(s.rows)) BY <2>1, NoRows
  <2> QED BY <2>2 DEF Sound, InOrder
<1>2. Flagged(d, s, status) BY DEF Sound, Flagged, CursorSet
<1>3. Reported(d, s, status, n) BY DEF Sound, Reported, CursorSet
<1>4. \A p \in ProducerSet : Stage(p, c, r, n) => Stage(p, d, s, n) BY DEF Stage
<1> QED BY <1>1, <1>2, <1>3, <1>4 DEF Moved, Sound

\* A row is handed to the caller, from a new window or from those before it.
LEMMA YieldingMoves ==
  ASSUME NEW kind, NEW status \in Statuses, NEW n \in Nat,
         NEW c \in CursorSet, NEW r \in ReaderSet, NEW d \in CursorSet, NEW s \in ReaderSet,
         NEW rows \in Seq(Nat), rows # <<>>,
         Sound(kind, c, r, status, n), ~c.cancelled,
         (r.at = "taking" /\ rows = c.window) \/ (r.at = "reading" /\ rows = r.rows),
         d.window = <<>>, d.stopped = c.stopped, d.cancelled = c.cancelled,
         d.running = c.running, d.finished = c.finished, d.failure = c.failure,
         d.resumeProducer = c.resumeProducer,
         s.at = "reading", s.rows = Tail(rows),
         s.delivered = Append(r.delivered, Head(rows)), s.outcome = r.outcome
  PROVE  Moved(kind, status, n, c, r, d, s)
<1> DEFINE m == Len(r.delivered)  l == Len(rows)
<1>1. ~c.stopped /\ c.running BY DEF Sound, Flagged, InOrder
<1>2. m \in Nat /\ l \in Nat /\ l > 0 BY DEF ReaderSet
<1>3. r.delivered = Rows(0, m) /\ rows = Rows(m, l) /\ OnTheWay(c, r) = m + l
  <2>1. Len(<<>>) = 0 OBVIOUS
  <2>2. CASE r.at = "taking"
    <3>1. r.rows = <<>> /\ rows = c.window BY <2>2 DEF Sound, InOrder
    <3>2. c.window = Rows(m + 0, l) /\ r.delivered = Rows(0, m)
      BY <1>1, <2>1, <3>1 DEF Sound, InOrder
    <3> QED BY <1>2, <2>1, <3>1, <3>2 DEF OnTheWay
  <2>3. CASE r.at = "reading"
    <3>1. c.window = <<>> /\ rows = r.rows BY <1>1, <2>3 DEF Sound, InOrder
    <3>2. rows = Rows(m, l) /\ r.delivered = Rows(0, m) BY <3>1 DEF Sound, InOrder
    <3> QED BY <1>2, <2>1, <3>1, <3>2 DEF OnTheWay
  <2> QED BY <2>2, <2>3
<1>4. 0 \in Nat /\ m + 1 \in Nat /\ l - 1 \in Nat BY <1>2
<1>5. s.delivered = Rows(0, m + 1) /\ s.rows = Rows(m + 1, l - 1)
  BY <1>2, <1>3, RowsTaken, RowsAdded
<1>6. Len(s.delivered) = m + 1 /\ Len(s.rows) = l - 1 BY <1>4, <1>5, RowsAre
<1>7. OnTheWay(d, s) = OnTheWay(c, r)
  <2>1. Len(d.window) = 0 OBVIOUS
  <2>2. OnTheWay(d, s) = (m + 1) + (l - 1) + 0 BY <1>6, <2>1, Zenon DEF OnTheWay
  <2> HIDE DEF m, l
  <2>3. (m + 1) + (l - 1) + 0 = m + l BY <1>2
  <2> QED BY <1>3, <2>2, <2>3
<1>8. InOrder(d, s)
  <2>1. m + 1 + (l - 1) \in Nat /\ Len(d.window) = 0 BY <1>4
  <2>2. d.window = Rows(m + 1 + (l - 1), Len(d.window)) BY <2>1, NoRows
  <2> QED BY <1>1, <1>5, <1>6, <2>2 DEF InOrder
<1>9. Flagged(d, s, status) BY <1>1 DEF Sound, Flagged, CursorSet
<1>10. Reported(d, s, status, n) BY <1>7 DEF Sound, Reported, CursorSet
<1>11. ASSUME NEW p \in ProducerSet, Stage(p, c, r, n)
       PROVE  Stage(p, d, s, n)
  <2>1. ~Asked(c, r) BY DEF Asked
  <2> QED BY <1>1, <1>7, <1>11, <2>1 DEF Stage
<1> QED BY <1>8, <1>9, <1>10, <1>11 DEF Moved, Sound

\* take() finds nothing, and waits for the producer.
LEMMA WaitingMoves ==
  ASSUME NEW kind, NEW status \in Statuses, NEW n \in Nat,
         NEW c \in CursorSet, NEW r \in ReaderSet, NEW d \in CursorSet, NEW s \in ReaderSet,
         Sound(kind, c, r, status, n), ~c.cancelled,
         r.at \in {"taking", "reading"}, r.rows = <<>>, c.window = <<>>,
         d.window = c.window, d.stopped = c.stopped, d.cancelled = c.cancelled,
         d.running = c.running, d.finished = c.finished, d.failure = c.failure,
         d.resumeProducer = (c.resumeProducer /\ r.at = "taking"),
         s.at = "taking", s.rows = r.rows, s.delivered = r.delivered, s.outcome = r.outcome
  PROVE  Moved(kind, status, n, c, r, d, s)
<1>1. OnTheWay(d, s) = OnTheWay(c, r) BY DEF OnTheWay
<1>2. InOrder(d, s) BY DEF Sound, InOrder
<1>3. Flagged(d, s, status) BY DEF Sound, Flagged, CursorSet
<1>4. Reported(d, s, status, n) BY <1>1 DEF Sound, Reported, CursorSet
<1>5. \A p \in ProducerSet : Stage(p, c, r, n) => Stage(p, d, s, n)
  BY <1>1 DEF Stage, Asked, CursorSet
<1> QED BY <1>2, <1>3, <1>4, <1>5 DEF Moved, Sound

\* The signal aborts, or the connection is closed.
LEMMA CancellingMoves ==
  ASSUME NEW kind, NEW status \in Statuses, NEW n \in Nat,
         NEW c \in CursorSet, NEW r \in ReaderSet, Sound(kind, c, r, status, n)
  PROVE  Moved(kind, status, n, c, r, Cancel(c), r)
<1> DEFINE d == Cancel(c)
<1>1. /\ d \in CursorSet
      /\ d.window = c.window /\ d.running = c.running /\ d.finished = c.finished
      /\ d.failure = c.failure
      /\ d.stopped /\ d.cancelled /\ ~d.resumeProducer
  BY DEF Cancel, WakeProducer, WakeConsumer, CursorSet
<1> HIDE DEF d
<1>2. InOrder(d, r) BY <1>1 DEF Sound, InOrder
<1>3. Flagged(d, r, status) BY <1>1 DEF Sound, Flagged
<1>4. Reported(d, r, status, n) BY <1>1 DEF Sound, Reported
<1>5. \A p \in ProducerSet : Stage(p, c, r, n) => Stage(p, d, r, n) BY <1>1 DEF Stage
<1>6. Moved(kind, status, n, c, r, d, r) BY <1>1, <1>2, <1>3, <1>4, <1>5 DEF Moved, Sound
<1> QED BY <1>6 DEF d

\* close() of a cursor returns.
LEMMA ClosingMoves ==
  ASSUME NEW kind, NEW status \in Statuses, NEW n \in Nat,
         NEW c \in CursorSet, NEW r \in ReaderSet, NEW d \in CursorSet, NEW s \in ReaderSet,
         Sound(kind, c, r, status, n), r.at = "closing", c.finished,
         d = [c EXCEPT !.failure = FALSE],
         s = [r EXCEPT !.at = "ended",
                       !.outcome = IF c.failure /\ ~c.cancelled THEN "failed" ELSE @]
  PROVE  Moved(kind, status, n, c, r, d, s)
<1>1. /\ d.window = c.window /\ d.running = c.running /\ d.finished = c.finished
      /\ ~d.failure /\ d.stopped = c.stopped /\ d.cancelled = c.cancelled
      /\ d.resumeProducer = c.resumeProducer
      /\ s.at = "ended" /\ s.rows = r.rows /\ s.delivered = r.delivered
      /\ s.outcome = IF c.failure /\ ~c.cancelled THEN "failed" ELSE r.outcome
  BY DEF CursorSet, ReaderSet
<1>2. c.stopped BY DEF Sound, Flagged
<1>3. InOrder(d, s) BY <1>1 DEF Sound, InOrder
<1>4. Flagged(d, s, status) BY <1>1 DEF Sound, Flagged
<1>5. Reported(d, s, status, n) BY <1>1, <1>2 DEF Sound, Reported
<1>6. \A p \in ProducerSet : Stage(p, c, r, n) => Stage(p, d, s, n) BY <1>1, <1>2 DEF Stage
<1> QED BY <1>1, <1>3, <1>4, <1>5, <1>6 DEF Moved, Sound

-----------------------------------------------------------------------------
(* The steps of a turn, seen by the call whose turn it is.                 *)

\* The call settles.  A stream that succeeds and is still wanted has all its rows.
Settles(kind, old, status, n, c, r) ==
  /\ status \in {"done", "failed", "refused"} /\ n \in Nat /\ c \in CursorSet /\ r \in ReaderSet
  /\ Sound(kind, c, r, old, n)
  /\ old = "waiting" \/ kind # "stream"
  /\ status = "done" /\ ~c.stopped /\ kind = "stream" => OnTheWay(c, r) = n

LEMMA SettlingSound ==
  ASSUME NEW kind, NEW old, NEW status, NEW n, NEW c, NEW r, Settles(kind, old, status, n, c, r)
  PROVE  /\ Finish(c, status # "done") \in CursorSet
         /\ Finish(c, status # "done").running = c.running
         /\ Sound(kind, Finish(c, status # "done"), r, status, n)
<1> USE DEF Settles
<1> DEFINE d == Finish(c, status # "done")
<1>1. /\ d \in CursorSet
      /\ d.window = c.window /\ d.running = c.running /\ d.stopped = c.stopped
      /\ d.cancelled = c.cancelled /\ d.resumeProducer = c.resumeProducer
      /\ d.finished = TRUE /\ d.failure = (status # "done")
  BY DEF Finish, WakeConsumer, CursorSet
<1> HIDE DEF d
<1>2. r.at = "ended" => ~c.running \/ kind # "stream" BY DEF Sound, Flagged
<1>3. InOrder(d, r) BY <1>1 DEF Sound, InOrder
<1>4. Flagged(d, r, status) BY <1>1, <1>2 DEF Sound, Flagged
<1>5. OnTheWay(d, r) = OnTheWay(c, r) BY <1>1 DEF OnTheWay
<1>6. r.outcome = "complete" => FALSE BY DEF Sound, Reported
<1>7. Reported(d, r, status, n) BY <1>1, <1>5, <1>6 DEF Sound, Reported
<1>8. Sound(kind, d, r, status, n) BY <1>3, <1>4, <1>7 DEF Sound
<1> QED BY <1>1, <1>8 DEF d

\* The turn of a call begins.
LEMMA BeginningSound ==
  ASSUME NEW kind, NEW n \in Nat, NEW c \in CursorSet, NEW r \in ReaderSet,
         Sound(kind, c, r, "waiting", n), ~c.running
  PROVE  /\ BeginCursor(c) \in CursorSet /\ BeginCursor(c).running = ~c.stopped
         /\ Sound(kind, BeginCursor(c), r, "waiting", n)
         /\ \A p \in ProducerSet : kind = "stream" /\ p.at = "execute" => Stage(p, BeginCursor(c), r, n)
<1> DEFINE d == BeginCursor(c)
<1>1. /\ d \in CursorSet
      /\ d.window = c.window /\ d.finished = c.finished /\ d.stopped = c.stopped
      /\ d.cancelled = c.cancelled /\ d.resumeProducer = c.resumeProducer
      /\ d.failure = c.failure /\ d.running = ~c.stopped
  BY DEF BeginCursor, CursorSet
<1> HIDE DEF d
<1>2. c.window = <<>> /\ r.delivered = <<>> /\ r.rows = <<>> /\ r.at # "reading"
  BY DEF Sound, InOrder
<1>3. InOrder(d, r) BY <1>1, <1>2 DEF Sound, InOrder
<1>4. Flagged(d, r, "waiting") BY <1>1 DEF Sound, Flagged
<1>5. Reported(d, r, "waiting", n) BY <1>1 DEF Sound, Reported, Flagged
<1>6. ASSUME kind = "stream", ~d.stopped PROVE Asked(d, r)
  BY <1>1, <1>2, <1>6 DEF Sound, Flagged, Asked, ReaderSet
<1>7. \A p \in ProducerSet : kind = "stream" /\ p.at = "execute" => Stage(p, d, r, n)
  BY <1>1, <1>2, <1>6 DEF Stage
<1>8. Sound(kind, d, r, "waiting", n) BY <1>3, <1>4, <1>5 DEF Sound
<1> QED BY <1>1, <1>7, <1>8 DEF d

\* The rows offered follow the d rows delivered, and those behind them are held by a
\* producer in state p, unless they are the last of n.
Following(p, rows, more, d, n) ==
  LET sent == d + Len(rows)
  IN  /\ rows = Rows(d, Len(rows))
      /\ more => sent <= p.fetched /\ p.rows = Rows(sent, p.fetched - sent)
      /\ ~more => sent = n

\* The producer, in state p from now on, offers rows to a consumer that asked for them,
\* or that stopped.
Offers(kind, n, c, r, more, rows, p) ==
  /\ n \in Nat /\ c \in CursorSet /\ r \in ReaderSet
  /\ Sound(kind, c, r, "waiting", n) /\ c.running
  /\ more \in BOOLEAN /\ rows \in Seq(Nat) /\ rows # <<>>
  /\ p \in ProducerSet /\ p.at = IF more THEN "waiting" ELSE "end"
  /\ ~c.stopped => Asked(c, r) /\ Following(p, rows, more, Len(r.delivered), n)

LEMMA OfferingSound ==
  ASSUME NEW kind, NEW n, NEW c, NEW r, NEW more, NEW rows, NEW p, Offers(kind, n, c, r, more, rows, p)
  PROVE  /\ Offer(c, rows, more) \in CursorSet /\ Offer(c, rows, more).running
         /\ Sound(kind, Offer(c, rows, more), r, "waiting", n)
         /\ Stage(p, Offer(c, rows, more), r, n)
<1> USE DEF Offers
<1> DEFINE d == Offer(c, rows, more)  m == Len(r.delivered)  k == Len(rows)
<1>1. /\ d \in CursorSet
      /\ d.window = rows /\ d.finished = c.finished /\ d.stopped = c.stopped
      /\ d.cancelled = c.cancelled /\ d.resumeProducer = (more /\ ~c.stopped)
      /\ d.failure = c.failure /\ d.running = c.running /\ ~d.resumeConsumer
  BY DEF Offer, WakeConsumer, CursorSet
<1> HIDE DEF d
<1>2. m \in Nat /\ k \in Nat BY DEF ReaderSet
<1>3. ASSUME ~c.stopped
      PROVE  r.at = "taking" /\ m + Len(r.rows) = m
  <2>1. r.at = "taking" /\ r.rows = <<>> BY <1>3 DEF Sound, InOrder, Asked
  <2>2. Len(<<>>) = 0 /\ m + 0 = m BY <1>2
  <2> QED BY <1>3, <2>1, <2>2
<1>4. InOrder(d, r)
  <2>1. r.at = "reading" => c.stopped BY <1>3
  <2>2. ASSUME ~c.stopped
        PROVE  d.window = Rows(m + Len(r.rows), Len(d.window))
    BY <1>1, <1>3, <2>2, Zenon DEF Following
  <2> QED BY <1>1, <2>1, <2>2 DEF Sound, InOrder
<1>5. Flagged(d, r, "waiting") BY <1>1 DEF Sound, Flagged
<1>6. Reported(d, r, "waiting", n) BY <1>1 DEF Sound, Reported
<1>7. Stage(p, d, r, n)
  <2>1. ASSUME ~c.stopped PROVE OnTheWay(d, r) = m + k
    BY <1>1, <1>3, <2>1, Zenon DEF OnTheWay
  <2> QED BY <1>1, <1>3, <2>1 DEF Stage, Following
<1>8. Sound(kind, d, r, "waiting", n) BY <1>4, <1>5, <1>6 DEF Sound
<1> QED BY <1>1, <1>7, <1>8 DEF d

-----------------------------------------------------------------------------
(* From the calls to the state.                                            *)

LEMMA Calls ==
  ASSUME IInv
  PROVE  /\ Len(calls) \in Nat /\ Numbers = 1..Len(calls)
         /\ queue # <<>> => Running \in 1..Len(calls)
         /\ 0 \notin 1..Len(calls) /\ 0 \notin ran /\ 0 \notin decoded
BY DEF IInv, Typed, Apart, Numbers, Running

\* Whoever runs is a call that was told nothing yet.
LEMMA RunningCall ==
  ASSUME IInv, producer.at # "idle"
  PROVE  /\ Running \in 1..Len(calls) /\ queue # <<>> /\ Running \in ran /\ Running \notin waiting
         /\ told[Running] = "waiting" /\ calls[Running] # "close"
         /\ producer \in ProducerSet /\ cursor[Running] \in CursorSet
         /\ reader[Running] \in ReaderSet /\ total[Running] \in Nat
         /\ Sound(calls[Running], cursor[Running], reader[Running], "waiting", total[Running])
         /\ calls[Running] = "stream" =>
              /\ cursor[Running].running
              /\ Stage(producer, cursor[Running], reader[Running], total[Running])
         /\ producer.at # "execute" => calls[Running] = "stream"
         /\ producer.at # "waiting" => heldBy = 0 /\ timer = 0
<1>1. Running \in 1..Len(calls) BY Calls DEF IInv, Turn
<1> QED BY <1>1 DEF IInv, Typed, Apart, AllSound, Turn, InStage

\* A step of the consumer of stream i.
LEMMA ConsumerSteps ==
  ASSUME IInv, NEW i \in Numbers, NEW d, NEW s,
         Moved(calls[i], told[i], total[i], cursor[i], reader[i], d, s),
         cursor' = [cursor EXCEPT ![i] = d], reader' = [reader EXCEPT ![i] = s], due' \subseteq due,
         UNCHANGED <<calls, queue, waiting, told, heldBy, timer, producer, open, history>>
  PROVE  IInv'
<1>1. /\ i \in 1..Len(calls)
      /\ calls' = calls /\ queue' = queue /\ waiting' = waiting /\ told' = told
      /\ heldBy' = heldBy /\ timer' = timer /\ producer' = producer /\ open' = open
      /\ ran' = ran /\ decoded' = decoded /\ total' = total /\ Running' = Running
  BY DEF Numbers, history, Running
<1>2. /\ d \in CursorSet /\ s \in ReaderSet /\ d.running = cursor[i].running
      /\ Sound(calls[i], d, s, told[i], total[i])
  BY DEF Moved
<1>3. Typed' BY <1>1, <1>2 DEF IInv, Typed
<1>4. /\ cursor'[i] = d /\ reader'[i] = s
      /\ \A j \in 1..Len(calls) \ {i} : cursor'[j] = cursor[j] /\ reader'[j] = reader[j]
  BY <1>1 DEF IInv, Typed
<1>5. \A j \in 1..Len(calls) : cursor'[j].running = cursor[j].running BY <1>2, <1>4
<1>6. Apart' BY <1>1, <1>5 DEF IInv, Apart
<1>7. ASSUME NEW j \in 1..Len(calls)
      PROVE  Sound(calls[j], cursor'[j], reader'[j], told[j], total[j])
  BY <1>2, <1>4 DEF IInv, AllSound
<1>8. AllSound' BY <1>1, <1>7 DEF AllSound
<1>9. CASE producer.at = "idle"
  BY <1>1, <1>3, <1>6, <1>8, <1>9 DEF IInv, Turn, InStage, Opened
<1>10. CASE producer.at # "idle"
  <2>1. Running \in 1..Len(calls) BY <1>10, RunningCall
  <2>2. Turn' BY <1>1, <1>5, <2>1 DEF IInv, Turn
  <2>3. ASSUME calls[Running] = "stream"
        PROVE  Stage(producer, cursor'[Running], reader'[Running], total[Running])
    <3>1. Stage(producer, cursor[Running], reader[Running], total[Running])
      BY <1>10, <2>3, RunningCall
    <3>2. producer \in ProducerSet /\ told[Running] = "waiting" BY <1>10, RunningCall
    <3>3. CASE i = Running BY <1>4, <3>1, <3>2, <3>3 DEF Moved
    <3>4. CASE i # Running BY <1>4, <2>1, <3>1, <3>4
    <3> QED BY <3>3, <3>4
  <2>4. InStage' BY <1>1, <2>3 DEF InStage
  <2>5. Opened' BY <1>1 DEF IInv, Opened
  <2> QED BY <1>3, <1>6, <1>8, <2>2, <2>4, <2>5 DEF IInv
<1> QED BY <1>9, <1>10

\* A step of the producer that does not end the turn.
LEMMA ProducerSteps ==
  ASSUME IInv, producer.at # "idle", calls[Running] = "stream",
         producer' \in ProducerSet, producer'.at \notin {"idle", "execute"},
         cursor' \in [1..Len(calls) -> CursorSet], total' \in [1..Len(calls) -> Nat],
         \A j \in 1..Len(calls) \ {Running} : cursor'[j] = cursor[j] /\ total'[j] = total[j],
         cursor'[Running].running,
         Sound("stream", cursor'[Running], reader[Running], "waiting", total'[Running]),
         Stage(producer', cursor'[Running], reader[Running], total'[Running]),
         due' \subseteq due, heldBy' = IF producer'.at = "waiting" THEN Running ELSE 0,
         timer' \in {0, heldBy'}, open' \in 0..Len(calls), decoded' \subseteq decoded \cup {Running},
         open' \in decoded' =>
           /\ producer'.at \in {"fetch", "lob", "waiting", "end"} /\ open' = Running
           /\ producer'.lobsRead \/ producer'.fetched < total'[Running],
         UNCHANGED <<calls, queue, waiting, told, reader, ran>>
  PROVE  IInv'
<1>1. /\ Running \in 1..Len(calls) /\ queue # <<>> /\ Running \in ran
      /\ told[Running] = "waiting"
  BY RunningCall
<1>2. /\ calls' = calls /\ queue' = queue /\ waiting' = waiting /\ told' = told
      /\ reader' = reader /\ ran' = ran /\ Running' = Running
  BY DEF Running
<1>3. 0 # Running /\ heldBy' \in 0..Len(calls) BY <1>1, Calls
<1>4. Typed' BY <1>2, <1>3 DEF IInv, Typed
<1>5. Apart' BY <1>1, <1>2 DEF IInv, Apart
<1>6. ASSUME NEW j \in 1..Len(calls)
      PROVE  Sound(calls[j], cursor'[j], reader[j], told[j], total'[j])
  BY <1>1 DEF IInv, AllSound
<1>7. AllSound' BY <1>2, <1>6 DEF AllSound
<1>8. Turn' BY <1>1, <1>2, <1>3 DEF Turn
<1>9. InStage' BY <1>2 DEF InStage
<1>10. Opened' BY <1>2 DEF Opened
<1> QED BY <1>4, <1>5, <1>7, <1>8, <1>9, <1>10 DEF IInv

\* The turn of the running call is over.
LEMMA TurnEnds ==
  ASSUME IInv, queue # <<>>, producer.at \in {"idle", "execute", "release"},
         NEW status \in {"done", "failed"}, Settle(Running, status),
         told[Running] = "waiting" \/ calls[Running] # "stream",
         status = "done" /\ ~cursor[Running].stopped /\ calls[Running] = "stream" =>
           OnTheWay(cursor[Running], reader[Running]) = total[Running],
         queue' = Tail(queue), producer' \in ProducerSet, producer'.at = "idle",
         waiting' \subseteq waiting, Running \notin waiting', due' \subseteq waiting',
         open' \in 0..Len(calls), open' \notin decoded,
         UNCHANGED <<calls, reader, heldBy, timer, ran, decoded, total>>
  PROVE  IInv'
<1> DEFINE d == Finish(cursor[Running], status # "done")
<1>1. Running \in 1..Len(calls) BY Calls
<1>2. /\ d \in CursorSet /\ d.running = cursor[Running].running
      /\ Sound(calls[Running], d, reader[Running], status, total[Running])
  <2>1. /\ cursor[Running] \in CursorSet /\ reader[Running] \in ReaderSet /\ total[Running] \in Nat
        /\ Sound(calls[Running], cursor[Running], reader[Running], told[Running], total[Running])
    BY <1>1 DEF IInv, Typed, AllSound
  <2>2. status \in {"done", "failed", "refused"} OBVIOUS
  <2> DEFINE c == cursor[Running]  r == reader[Running]  n == total[Running]
             old == told[Running]  kind == calls[Running]
  <2>3. /\ c \in CursorSet /\ r \in ReaderSet /\ n \in Nat /\ Sound(kind, c, r, old, n)
        /\ old = "waiting" \/ kind # "stream"
        /\ status = "done" /\ ~c.stopped /\ kind = "stream" => OnTheWay(c, r) = n
    BY <2>1
  <2> HIDE DEF c, r, n, old, kind
  <2>4. /\ Finish(c, status # "done") \in CursorSet
        /\ Finish(c, status # "done").running = c.running
        /\ Sound(kind, Finish(c, status # "done"), r, status, n)
    <3>1. Settles(kind, old, status, n, c, r) BY <2>2, <2>3, Zenon DEF Settles
    <3> QED BY <3>1, SettlingSound, Zenon
  <2> QED BY <2>4 DEF c, r, n, kind
<1>3. told' = [told EXCEPT ![Running] = status] /\ cursor' = [cursor EXCEPT ![Running] = d]
  BY DEF Settle
<1> HIDE DEF d
<1>4. queue' \in Seq(1..Len(calls)) BY DEF IInv, Typed
<1>5. Typed' BY <1>1, <1>2, <1>3, <1>4 DEF IInv, Typed, Statuses
<1>6. /\ told'[Running] = status /\ cursor'[Running] = d
      /\ \A j \in 1..Len(calls) \ {Running} : told'[j] = told[j] /\ cursor'[j] = cursor[j]
  BY <1>1, <1>3 DEF IInv, Typed
<1>7. Apart'
  <2>1. \A j \in 1..Len(calls) : cursor'[j].running = cursor[j].running BY <1>2, <1>6
  <2>2. \A j \in waiting' : j \in waiting /\ told'[j] = told[j] BY <1>6 DEF IInv, Typed
  <2>3. \A j \in ran : told'[j] # "refused" BY <1>6 DEF IInv, Typed, Apart
  <2> QED BY <2>1, <2>2, <2>3 DEF IInv, Apart
<1>8. ASSUME NEW j \in 1..Len(calls)
      PROVE  Sound(calls[j], cursor'[j], reader[j], told'[j], total[j])
  BY <1>2, <1>6 DEF IInv, AllSound
<1>9. AllSound' BY <1>8 DEF AllSound
<1>10. Turn' /\ InStage' /\ Opened' BY DEF IInv, Turn, InStage, Opened
<1> QED BY <1>5, <1>7, <1>9, <1>10 DEF IInv

-----------------------------------------------------------------------------
(* The actions of the consumers.                                           *)

\* The call of a stream, as the state has it.
LEMMA StreamCall ==
  ASSUME IInv, NEW i \in Numbers
  PROVE  /\ cursor[i] \in CursorSet /\ reader[i] \in ReaderSet
         /\ told[i] \in Statuses /\ total[i] \in Nat
         /\ Sound(calls[i], cursor[i], reader[i], told[i], total[i])
BY DEF IInv, Typed, AllSound, Numbers

LEMMA LeavesKeeps ==
  ASSUME IInv, NEW i \in Numbers, reader[i].at \in {"taking", "reading"},
         NEW c \in CursorSet, NEW outcome \in {"cancelled", "failed", "complete", "returned"},
         Leaves(i, c, With(i, outcome)),
         c.window = cursor[i].window, c.cancelled = cursor[i].cancelled,
         c.running = cursor[i].running, c.finished = cursor[i].finished,
         c.failure => cursor[i].failure,
         outcome = "complete" => told[i] = "done" /\ Len(reader[i].delivered) = total[i],
         outcome = "returned" => c.running,
         told[i] \in {"failed", "refused"} => c.failure \/ c.cancelled \/ outcome = "failed",
         due' \subseteq due,
         UNCHANGED <<calls, queue, waiting, told, heldBy, timer, producer, open, history>>
  PROVE  IInv'
<1> DEFINE t == Stop(c)
           d == IF t.running THEN t ELSE [t EXCEPT !.failure = FALSE]
           r == With(i, outcome)
           s == [r EXCEPT !.at = IF t.running THEN "closing" ELSE "ended",
                          !.rows = <<>>,
                          !.outcome = IF ~t.running /\ t.failure /\ ~t.cancelled
                                        THEN "failed" ELSE @]
<1>1. cursor' = [cursor EXCEPT ![i] = d] /\ reader' = [reader EXCEPT ![i] = s]
  BY DEF Leaves
<1>2. /\ t \in CursorSet /\ t.window = c.window /\ t.cancelled = c.cancelled
      /\ t.running = c.running /\ t.finished = c.finished /\ t.failure = c.failure
      /\ t.stopped /\ ~t.resumeProducer
  BY DEF Stop, WakeProducer, CursorSet
<1>3. /\ r \in ReaderSet /\ r.delivered = reader[i].delivered /\ r.outcome = outcome
  BY StreamCall DEF With, ReaderSet
<1> HIDE DEF t, r
<1>4. /\ d \in CursorSet /\ d.window = c.window /\ d.cancelled = c.cancelled
      /\ d.running = c.running /\ d.finished = c.finished
      /\ d.failure = (c.running /\ c.failure) /\ d.stopped /\ ~d.resumeProducer
  BY <1>2 DEF CursorSet
<1>5. /\ s.at = (IF c.running THEN "closing" ELSE "ended")
      /\ s.rows = <<>> /\ s.delivered = reader[i].delivered
      /\ s.outcome = IF ~c.running /\ c.failure /\ ~c.cancelled THEN "failed" ELSE outcome
  BY <1>2, <1>3 DEF ReaderSet
<1>6. s \in ReaderSet
  <2>1. <<>> \in Seq(Nat) OBVIOUS
  <2> QED BY <1>3, <2>1 DEF ReaderSet
<1> HIDE DEF d, s
<1>7. s.outcome \in {outcome, "failed"} BY <1>5
<1>8. told[i] \in {"failed", "refused"} => d.failure \/ c.cancelled \/ s.outcome = "failed"
  BY <1>4, <1>5
<1>9. Moved(calls[i], told[i], total[i], cursor[i], reader[i], d, s)
  <2>1. /\ cursor[i] \in CursorSet /\ reader[i] \in ReaderSet
        /\ told[i] \in Statuses /\ total[i] \in Nat
        /\ Sound(calls[i], cursor[i], reader[i], told[i], total[i])
    BY StreamCall, Zenon
  <2>2. d.failure => cursor[i].failure BY <1>4
  <2>3. /\ s.outcome # "none"
        /\ s.outcome = "complete" => outcome = "complete"
        /\ s.outcome = "returned" => outcome = "returned"
    BY <1>7
  <2>4. Left(calls[i], told[i], total[i], cursor[i], reader[i], d, s)
    BY <1>4, <1>5, <1>8, <2>1, <2>2, <2>3 DEF Left
  <2> QED BY <1>4, <1>6, <2>1, <2>4, LeavingMoves
<1> QED BY <1>1, <1>9, ConsumerSteps

LEMMA YieldsKeeps ==
  ASSUME IInv, NEW i \in Numbers, ~cursor[i].cancelled,
         NEW c \in CursorSet, NEW rows, rows # <<>>, Yields(i, c, rows),
         (reader[i].at = "taking" /\ rows = cursor[i].window /\ c = [cursor[i] EXCEPT !.window = <<>>])
           \/ (reader[i].at = "reading" /\ rows = reader[i].rows /\ c = cursor[i]),
         due' \subseteq due,
         UNCHANGED <<calls, queue, waiting, told, heldBy, timer, producer, open, history>>
  PROVE  IInv'
<1> DEFINE s == [reader[i] EXCEPT !.at = "reading", !.rows = Tail(rows),
                                  !.delivered = Append(@, Head(rows))]
<1>1. cursor' = [cursor EXCEPT ![i] = c] /\ reader' = [reader EXCEPT ![i] = s]
  BY DEF Yields
<1>2. /\ cursor[i] \in CursorSet /\ reader[i] \in ReaderSet /\ told[i] \in Statuses
      /\ total[i] \in Nat /\ Sound(calls[i], cursor[i], reader[i], told[i], total[i])
  BY StreamCall
<1>3. rows \in Seq(Nat) BY <1>2 DEF CursorSet, ReaderSet
<1>4. /\ c.window = <<>> /\ c.stopped = cursor[i].stopped /\ c.cancelled = cursor[i].cancelled
      /\ c.running = cursor[i].running /\ c.finished = cursor[i].finished
      /\ c.failure = cursor[i].failure /\ c.resumeProducer = cursor[i].resumeProducer
  <2>1. CASE reader[i].at = "taking" BY <1>2, <2>1 DEF CursorSet
  <2>2. CASE reader[i].at = "reading"
    <3>1. cursor[i].window = <<>> BY <1>2, <2>2 DEF Sound, InOrder, Flagged
    <3> QED BY <2>2, <3>1
  <2> QED BY <2>1, <2>2
<1>5. /\ s.at = "reading" /\ s.rows = Tail(rows)
      /\ s.delivered = Append(reader[i].delivered, Head(rows)) /\ s.outcome = reader[i].outcome
  BY <1>2 DEF ReaderSet
<1>6. s \in ReaderSet
  <2>1. /\ Tail(rows) \in Seq(Nat) /\ Head(rows) \in Nat
        /\ Append(reader[i].delivered, Head(rows)) \in Seq(Nat)
    BY <1>2, <1>3 DEF ReaderSet
  <2> QED BY <1>2, <2>1 DEF ReaderSet
<1> HIDE DEF s
<1>7. Moved(calls[i], told[i], total[i], cursor[i], reader[i], c, s)
  BY <1>2, <1>3, <1>4, <1>5, <1>6, YieldingMoves
<1> QED BY <1>1, <1>7, ConsumerSteps

LEMMA TakeKeeps ==
  ASSUME IInv, NEW i \in Numbers, NEW c,
         (reader[i].at = "taking" /\ c = cursor[i])
           \/ (reader[i].at = "reading" /\ reader[i].rows = <<>> /\ c = WakeProducer(cursor[i])),
         Take(i, c), due' \subseteq due,
         UNCHANGED <<calls, queue, waiting, told, heldBy, timer, producer, open, history>>
  PROVE  IInv'
<1>1. /\ cursor[i] \in CursorSet /\ reader[i] \in ReaderSet /\ told[i] \in Statuses
      /\ total[i] \in Nat /\ Sound(calls[i], cursor[i], reader[i], told[i], total[i])
  BY StreamCall
<1>2. /\ c \in CursorSet
      /\ c.window = cursor[i].window /\ c.stopped = cursor[i].stopped
      /\ c.cancelled = cursor[i].cancelled /\ c.running = cursor[i].running
      /\ c.finished = cursor[i].finished /\ c.failure = cursor[i].failure
      /\ c.resumeProducer = (cursor[i].resumeProducer /\ reader[i].at = "taking")
  BY <1>1 DEF WakeProducer, CursorSet
<1>3. reader[i].at \in {"taking", "reading"} /\ reader[i].rows = <<>>
  BY <1>1 DEF Sound, InOrder
<1>4. /\ told[i] \in {"failed", "refused"} => c.failure \/ c.cancelled
      /\ c.finished <=> told[i] # "waiting"
      /\ told[i] = "done" /\ ~c.stopped => OnTheWay(cursor[i], reader[i]) = total[i]
      /\ c.stopped => c.cancelled
      /\ reader[i].at = "reading" => c.stopped \/ c.window = <<>>
  BY <1>1, <1>2, <1>3 DEF Sound, Flagged, Reported, InOrder
<1>5. CASE c.cancelled
  <2>1. Leaves(i, c, With(i, "cancelled")) BY <1>5 DEF Take
  <2> QED BY <1>2, <1>3, <1>5, <2>1, LeavesKeeps
<1>6. CASE ~c.cancelled /\ c.window # <<>>
  <2>1. Yields(i, [c EXCEPT !.window = <<>>], c.window) BY <1>6 DEF Take
  <2>2. reader[i].at = "taking" /\ c = cursor[i] BY <1>4, <1>6
  <2>3. [cursor[i] EXCEPT !.window = <<>>] \in CursorSet
    <3>1. <<>> \in Seq(Nat) OBVIOUS
    <3> QED BY <1>1, <3>1 DEF CursorSet
  <2> QED BY <1>2, <1>6, <2>1, <2>2, <2>3, YieldsKeeps
<1>7. CASE ~c.cancelled /\ c.window = <<>> /\ c.failure
  <2> DEFINE e == [c EXCEPT !.failure = FALSE]
  <2>1. Leaves(i, e, With(i, "failed")) BY <1>7 DEF Take
  <2>2. /\ e \in CursorSet /\ e.window = cursor[i].window /\ e.cancelled = cursor[i].cancelled
        /\ e.running = cursor[i].running /\ e.finished = cursor[i].finished /\ ~e.failure
    BY <1>2 DEF CursorSet
  <2> HIDE DEF e
  <2> QED BY <1>3, <2>1, <2>2, LeavesKeeps
<1>8. CASE ~c.cancelled /\ c.window = <<>> /\ ~c.failure /\ c.finished
  <2>1. Leaves(i, c, With(i, "complete")) BY <1>8 DEF Take
  <2>2. told[i] = "done" BY <1>1, <1>4, <1>8 DEF Statuses
  <2>3. OnTheWay(cursor[i], reader[i]) = Len(reader[i].delivered)
    <3>1. Len(<<>>) = 0 /\ Len(reader[i].delivered) \in Nat BY <1>1 DEF ReaderSet
    <3> QED BY <1>2, <1>3, <1>8, <3>1 DEF OnTheWay
  <2>4. Len(reader[i].delivered) = total[i] BY <1>4, <1>8, <2>2, <2>3
  <2> QED BY <1>2, <1>3, <2>1, <2>2, <2>4, LeavesKeeps
<1>9. CASE ~c.cancelled /\ c.window = <<>> /\ ~c.failure /\ ~c.finished
  <2> DEFINE d == [c EXCEPT !.resumeConsumer = TRUE]
             s == [reader[i] EXCEPT !.at = "taking"]
  <2>1. cursor' = [cursor EXCEPT ![i] = d] /\ reader' = [reader EXCEPT ![i] = s]
    BY <1>9 DEF Take
  <2>2. /\ d \in CursorSet
        /\ d.window = c.window /\ d.stopped = c.stopped /\ d.cancelled = c.cancelled
        /\ d.running = c.running /\ d.finished = c.finished /\ d.failure = c.failure
        /\ d.resumeProducer = c.resumeProducer
    BY <1>2 DEF CursorSet
  <2>3. /\ s \in ReaderSet /\ s.at = "taking" /\ s.rows = reader[i].rows
        /\ s.delivered = reader[i].delivered /\ s.outcome = reader[i].outcome
    BY <1>1 DEF ReaderSet
  <2> HIDE DEF d, s
  <2>4. Moved(calls[i], told[i], total[i], cursor[i], reader[i], d, s)
    BY <1>1, <1>2, <1>3, <1>9, <2>2, <2>3, WaitingMoves
  <2> QED BY <2>1, <2>4, ConsumerSteps
<1> QED BY <1>2, <1>5, <1>6, <1>7, <1>8, <1>9 DEF CursorSet

LEMMA ResumesKeeps ==
  ASSUME IInv, NEW i \in Numbers, Resumes(i)
  PROVE  IInv'
BY TakeKeeps DEF Resumes, TakeReady, turns

LEMMA AsksNextKeeps ==
  ASSUME IInv, NEW i \in Numbers, AsksNext(i)
  PROVE  IInv'
<1>1. reader[i].at = "reading" /\ due' \subseteq due
      /\ UNCHANGED <<calls, queue, waiting, told, heldBy, timer, producer, open, history>>
  BY DEF AsksNext
<1>2. CASE reader[i].rows = <<>> BY <1>1, <1>2, TakeKeeps DEF AsksNext
<1>3. CASE reader[i].rows # <<>> /\ cursor[i].cancelled
  <2>1. Leaves(i, cursor[i], With(i, "cancelled")) BY <1>3 DEF AsksNext
  <2> QED BY <1>1, <1>3, <2>1, StreamCall, LeavesKeeps
<1>4. CASE reader[i].rows # <<>> /\ ~cursor[i].cancelled
  <2>1. Yields(i, cursor[i], reader[i].rows) BY <1>4 DEF AsksNext
  <2> QED BY <1>1, <1>4, <2>1, StreamCall, YieldsKeeps
<1> QED BY <1>2, <1>3, <1>4

LEMMA ReturnsKeeps ==
  ASSUME IInv, NEW i \in Numbers, Returns(i)
  PROVE  IInv'
<1>1. reader[i].at = "reading" /\ Leaves(i, cursor[i], With(i, "returned"))
      /\ UNCHANGED <<calls, queue, waiting, told, heldBy, timer, due, producer, open, history>>
  BY DEF Returns, turns
<1>2. cursor[i].running /\ (told[i] \in {"failed", "refused"} => cursor[i].failure \/ cursor[i].cancelled)
  BY <1>1, StreamCall DEF Sound, InOrder, Reported
<1> QED BY <1>1, <1>2, StreamCall, LeavesKeeps

LEMMA ClosedKeeps ==
  ASSUME IInv, NEW i \in Numbers, Closed(i)
  PROVE  IInv'
<1> DEFINE c == cursor[i]  r == reader[i]
           d == [c EXCEPT !.failure = FALSE]
           s == [r EXCEPT !.at = "ended",
                          !.outcome = IF c.failure /\ ~c.cancelled THEN "failed" ELSE @]
<1>1. cursor' = [cursor EXCEPT ![i] = d] /\ reader' = [reader EXCEPT ![i] = s]
      /\ r.at = "closing" /\ c.finished
      /\ UNCHANGED <<calls, queue, waiting, told, heldBy, timer, due, producer, open, history>>
  BY DEF Closed, CloseReady, turns
<1>2. /\ c \in CursorSet /\ r \in ReaderSet /\ told[i] \in Statuses
      /\ total[i] \in Nat /\ Sound(calls[i], c, r, told[i], total[i])
  BY StreamCall
<1> HIDE DEF c, r
<1>3. d \in CursorSet /\ s \in ReaderSet BY <1>2 DEF CursorSet, ReaderSet
<1>4. Moved(calls[i], told[i], total[i], c, r, d, s) BY <1>1, <1>2, <1>3, ClosingMoves
<1> HIDE DEF d, s
<1> QED BY <1>1, <1>4, ConsumerSteps DEF c, r

LEMMA AbortsKeeps ==
  ASSUME IInv, NEW i \in Numbers, Aborts(i)
  PROVE  IInv'
<1> DEFINE d == Cancel(cursor[i])  s == reader[i]
<1>1. cursor' = [cursor EXCEPT ![i] = d] /\ reader' = [reader EXCEPT ![i] = s]
      /\ UNCHANGED <<calls, queue, waiting, told, heldBy, timer, due, producer, open, history>>
  BY DEF Aborts, turns, IInv, Typed, Numbers
<1>2. Moved(calls[i], told[i], total[i], cursor[i], reader[i], d, s)
  BY StreamCall, CancellingMoves
<1> HIDE DEF d, s
<1> QED BY <1>1, <1>2, ConsumerSteps

-----------------------------------------------------------------------------
(* The actions of the producer.                                            *)

\* What a running stream has depends on the number of its rows only once it settles.
LEMMA AnyTotal ==
  ASSUME NEW kind, NEW c, NEW r, NEW n, NEW m, Sound(kind, c, r, "waiting", n)
  PROVE  Sound(kind, c, r, "waiting", m)
BY DEF Sound, Reported

\* The producer goes on to p without rows for the consumer.
LEMMA GoesOn ==
  ASSUME IInv, producer.at # "idle", calls[Running] = "stream",
         NEW p \in ProducerSet, p.at \in {"fetch", "lob", "end", "release"}, producer' = p,
         cursor' = cursor, heldBy' = 0, timer' = 0, due' \subseteq due,
         NEW n \in Nat, total' = [total EXCEPT ![Running] = n],
         Stage(p, cursor[Running], reader[Running], n),
         open' \in 0..Len(calls), decoded' \subseteq decoded \cup {Running},
         open' \in decoded' =>
           p.at # "release" /\ open' = Running /\ (p.lobsRead \/ p.fetched < n),
         UNCHANGED <<calls, queue, waiting, told, reader, ran>>
  PROVE  IInv'
<1>1. /\ Running \in 1..Len(calls) /\ cursor[Running].running
      /\ Sound("stream", cursor[Running], reader[Running], "waiting", total[Running])
  BY RunningCall
<1>2. Sound("stream", cursor[Running], reader[Running], "waiting", n) BY <1>1, AnyTotal
<1>3. /\ cursor' \in [1..Len(calls) -> CursorSet] /\ total' \in [1..Len(calls) -> Nat]
      /\ total'[Running] = n
      /\ \A j \in 1..Len(calls) \ {Running} : cursor'[j] = cursor[j] /\ total'[j] = total[j]
  BY <1>1 DEF IInv, Typed
<1>4. p.at \notin {"idle", "execute", "waiting"} OBVIOUS
<1>5. p.at # "release" => p.at \in {"fetch", "lob", "waiting", "end"} OBVIOUS
<1> QED BY <1>1, <1>2, <1>3, <1>4, <1>5, ProducerSteps

\* The producer goes on with rows for the consumer.
LEMMA OfferingKeeps ==
  ASSUME IInv, producer.at \notin {"idle", "waiting"}, calls[Running] = "stream",
         NEW p \in ProducerSet, NEW rows \in Seq(Nat), NEW more \in BOOLEAN, rows # <<>>,
         Offering(p, rows, more), NEW n \in Nat, total' = [total EXCEPT ![Running] = n],
         ~Stopped =>
           /\ Asked(cursor[Running], reader[Running])
           /\ Following(p, rows, more, Len(reader[Running].delivered), n),
         open' \in 0..Len(calls), decoded' \subseteq decoded \cup {Running},
         open' \in decoded' => open' = Running /\ (p.lobsRead \/ p.fetched < n),
         UNCHANGED <<calls, queue, waiting, told, reader, ran>>
  PROVE  IInv'
<1> DEFINE q == [p EXCEPT !.at = IF more THEN "waiting" ELSE "end"]
           c == cursor[Running]
           d == Offer(c, rows, more)
           r == reader[Running]
<1>1. /\ cursor' = [cursor EXCEPT ![Running] = d] /\ producer' = q
      /\ IF more THEN heldBy' = Running /\ due' = {} /\ WatchHeldTurn(Running, waiting)
                 ELSE UNCHANGED <<heldBy, due, timer>>
  BY DEF Offering
<1>2. /\ Running \in 1..Len(calls) /\ c.running /\ c \in CursorSet /\ r \in ReaderSet
      /\ Sound("stream", c, r, "waiting", total[Running]) /\ heldBy = 0 /\ timer = 0
  BY RunningCall
<1>3. Sound("stream", c, r, "waiting", n) BY <1>2, AnyTotal
<1>4. /\ q \in ProducerSet /\ q.at = (IF more THEN "waiting" ELSE "end")
      /\ q.rows = p.rows /\ q.fetched = p.fetched /\ q.lobsRead = p.lobsRead
  BY DEF ProducerSet
<1>5. /\ heldBy' = IF q.at = "waiting" THEN Running ELSE 0
      /\ timer' \in {0, heldBy'} /\ due' \subseteq due
  BY <1>1, <1>2, <1>4 DEF WatchHeldTurn
<1>6. ~c.stopped => Asked(c, r) /\ Following(q, rows, more, Len(r.delivered), n)
  BY <1>4 DEF Stopped, Following
<1> HIDE DEF q, c, r
<1>7. d \in CursorSet /\ d.running /\ Sound("stream", d, r, "waiting", n) /\ Stage(q, d, r, n)
  <2>1. Offers("stream", n, c, r, more, rows, q) BY <1>2, <1>3, <1>4, <1>6, Zenon DEF Offers
  <2> QED BY <2>1, OfferingSound, Zenon
<1> HIDE DEF d
<1>8. /\ cursor' \in [1..Len(calls) -> CursorSet] /\ cursor'[Running] = d
      /\ total' \in [1..Len(calls) -> Nat] /\ total'[Running] = n
      /\ \A j \in 1..Len(calls) \ {Running} : cursor'[j] = cursor[j] /\ total'[j] = total[j]
  BY <1>1, <1>2, <1>7 DEF IInv, Typed
<1>9. q.at \notin {"idle", "execute"} /\ q.at \in {"fetch", "lob", "waiting", "end"} BY <1>4
<1>10. open' \in decoded' => open' = Running /\ (q.lobsRead \/ q.fetched < n) BY <1>4
<1> QED BY <1>1, <1>4, <1>5, <1>7, <1>8, <1>9, <1>10, ProducerSteps DEF r

\* Nothing is on its way to a consumer that asked.
LEMMA AskedWay ==
  ASSUME NEW kind, NEW status, NEW n, NEW c \in CursorSet, NEW r \in ReaderSet,
         Sound(kind, c, r, status, n), Asked(c, r)
  PROVE  Len(r.delivered) \in Nat /\ OnTheWay(c, r) = Len(r.delivered) /\ r.at = "taking"
<1>1. r.rows = <<>> /\ c.window = <<>> /\ r.at = "taking" BY DEF Sound, InOrder, Asked
<1>2. Len(<<>>) = 0 /\ Len(r.delivered) \in Nat BY DEF ReaderSet
<1> QED BY <1>1, <1>2 DEF OnTheWay

\* A window of k rows arrived, behind the m that were delivered.
LEMMA WindowKeeps ==
  ASSUME IInv, producer.at \in {"execute", "fetch"}, calls[Running] = "stream",
         NEW m \in Nat, NEW k \in Nat, NEW n \in Nat, m + k <= n,
         NEW p \in ProducerSet, p.rows = Rows(m, k), p.fetched = m + k, Window(p, n),
         ~Stopped => Asked(cursor[Running], reader[Running]) /\ Len(reader[Running].delivered) = m,
         total' = [total EXCEPT ![Running] = n],
         open' \in 0..Len(calls), decoded' \subseteq decoded \cup {Running},
         open' \in decoded' => open' = Running /\ p.fetched < n,
         UNCHANGED <<calls, queue, waiting, told, reader, ran>>
  PROVE  IInv'
<1> DEFINE c == cursor[Running]  r == reader[Running]
<1>1. /\ c \in CursorSet /\ r \in ReaderSet /\ heldBy = 0 /\ timer = 0
      /\ Sound("stream", c, r, "waiting", total[Running])
  BY RunningCall
<1>2. ~Stopped => OnTheWay(c, r) = m BY <1>1, AskedWay
<1>3. /\ Len(p.rows) = k /\ p.rows \in Seq(Nat) /\ (p.rows = <<>> <=> k = 0)
  BY RowsAre, NoRows DEF ProducerSet
<1>4. CASE p.rows = <<>>
  <2> DEFINE q == [p EXCEPT !.at = IF p.fetched = n \/ Stopped THEN "end" ELSE "fetch"]
  <2>1. NotOffering(q) BY <1>4 DEF Window
  <2>2. /\ q \in ProducerSet /\ q.at = (IF p.fetched = n \/ Stopped THEN "end" ELSE "fetch")
        /\ q.fetched = p.fetched /\ q.lobsRead = p.lobsRead
    BY DEF ProducerSet
  <2> HIDE DEF q
  <2>3. Stage(q, c, r, n)
    <3>1. p.fetched = m BY <1>3, <1>4
    <3> QED BY <1>2, <2>2, <3>1 DEF Stage, Stopped
  <2>4. q.at \in {"fetch", "end"} BY <2>2
  <2>5. /\ q.at \in {"fetch", "lob", "end", "release"} /\ producer.at # "idle"
        /\ open' \in decoded' =>
             q.at # "release" /\ open' = Running /\ (q.lobsRead \/ q.fetched < n)
    BY <2>2, <2>4
  <2>6. producer' = q /\ cursor' = cursor /\ heldBy' = 0 /\ timer' = 0 /\ due' \subseteq due
    BY <1>1, <2>1 DEF NotOffering
  <2> QED BY <2>2, <2>3, <2>5, <2>6, GoesOn
<1>5. CASE p.rows # <<>> /\ p.lobColumns
  <2> DEFINE q == [p EXCEPT !.at = IF Stopped THEN "end" ELSE "lob"]
  <2>1. NotOffering(q) BY <1>5 DEF Window
  <2>2. /\ q \in ProducerSet /\ q.at = (IF Stopped THEN "end" ELSE "lob")
        /\ q.fetched = p.fetched /\ q.lobsRead = p.lobsRead /\ q.rows = p.rows
    BY DEF ProducerSet
  <2> HIDE DEF q
  <2>3. Stage(q, c, r, n)
    <3>1. m < p.fetched /\ p.fetched - m = k BY <1>3, <1>5
    <3> QED BY <2>2, <3>1 DEF Stage, Stopped
  <2>4. q.at \in {"lob", "end"} BY <2>2
  <2>5. /\ q.at \in {"fetch", "lob", "end", "release"} /\ producer.at # "idle"
        /\ open' \in decoded' =>
             q.at # "release" /\ open' = Running /\ (q.lobsRead \/ q.fetched < n)
    BY <2>2, <2>4
  <2>6. producer' = q /\ cursor' = cursor /\ heldBy' = 0 /\ timer' = 0 /\ due' \subseteq due
    BY <1>1, <2>1 DEF NotOffering
  <2> QED BY <2>2, <2>3, <2>5, <2>6, GoesOn
<1>6. CASE p.rows # <<>> /\ ~p.lobColumns
  <2> DEFINE q == [p EXCEPT !.rows = <<>>]  more == p.fetched < n
  <2>1. Offering(q, p.rows, more) BY <1>6 DEF Window
  <2>2. /\ q \in ProducerSet /\ q.rows = <<>> /\ q.fetched = p.fetched /\ q.lobsRead = p.lobsRead
    <3>1. <<>> \in Seq(Nat) OBVIOUS
    <3> QED BY <3>1 DEF ProducerSet
  <2>3. more \in BOOLEAN OBVIOUS
  <2> HIDE DEF q
  <2>4. Following(q, p.rows, more, m, n)
    <3>1. q.rows = Rows(m + k, q.fetched - (m + k))
      <4>1. m + k \in Nat /\ q.fetched - (m + k) = 0 BY <2>2
      <4> QED BY <2>2, <4>1, NoRows
    <3> QED BY <1>3, <2>2, <3>1 DEF Following
  <2>5. producer.at \notin {"idle", "waiting"} OBVIOUS
  <2>6. open' \in decoded' => open' = Running /\ (q.lobsRead \/ q.fetched < n) BY <2>2
  <2>7. ~Stopped => Asked(c, r) /\ Following(q, p.rows, more, Len(r.delivered), n) BY <2>4
  <2> HIDE DEF more
  <2> QED BY <1>3, <1>6, <2>1, <2>2, <2>3, <2>5, <2>6, <2>7, OfferingKeeps
<1> QED BY <1>4, <1>5, <1>6

LEMMA ExecuteKeeps ==
  ASSUME IInv, ExecuteAnswered
  PROVE  IInv'
<1>1. producer.at = "execute" /\ calls[Running] = "stream"
      /\ UNCHANGED <<calls, queue, waiting, told, reader, ran>>
  BY DEF ExecuteAnswered
<1>2. /\ Running \in 1..Len(calls) /\ producer \in ProducerSet /\ heldBy = 0 /\ timer = 0
      /\ Stage(producer, cursor[Running], reader[Running], total[Running])
      /\ Running \notin decoded /\ 0 \notin decoded /\ 0 \in 0..Len(calls)
  BY <1>1, RunningCall, Calls DEF IInv, Opened
<1>3. ~Stopped => Asked(cursor[Running], reader[Running]) /\ Len(reader[Running].delivered) = 0
  BY <1>1, <1>2 DEF Stage, Stopped
<1>4. ASSUME NEW n \in 0..MaxRows, NEW lobColumns \in Lobs, NEW k \in 0..n,
             total' = [total EXCEPT ![Running] = n], decoded' = decoded \cup {Running},
             open' = IF k < n THEN Running ELSE 0,
             Window([producer EXCEPT !.rows = Rows(0, k), !.fetched = k,
                                     !.lobColumns = lobColumns], n)
      PROVE  IInv'
  <2> DEFINE p == [producer EXCEPT !.rows = Rows(0, k), !.fetched = k, !.lobColumns = lobColumns]
  <2>1. n \in Nat /\ k \in Nat /\ 0 \in Nat /\ 0 + k = k /\ k <= n BY LimitsAssumption
  <2>2. p \in ProducerSet /\ p.rows = Rows(0, k) /\ p.fetched = 0 + k
    <3>1. Rows(0, k) \in Seq(Nat) /\ lobColumns \in BOOLEAN BY <2>1, RowsAre, LobsAssumption
    <3> QED BY <1>2, <2>1, <3>1 DEF ProducerSet
  <2>3. Window(p, n) BY <1>4
  <2> HIDE DEF p
  <2>4. open' \in 0..Len(calls) /\ (open' \in decoded' => open' = Running /\ p.fetched < n)
    <3>1. 0 # Running BY <1>2
    <3> QED BY <1>2, <1>4, <2>1, <2>2, <3>1
  <2> QED BY <1>1, <1>3, <1>4, <2>1, <2>2, <2>3, <2>4, WindowKeeps
<1>5. ASSUME open' \in {0, Running}, UNCHANGED <<total, decoded>>,
             NotOffering([producer EXCEPT !.at = "release", !.failed = TRUE])
      PROVE  IInv'
  <2> DEFINE p == [producer EXCEPT !.at = "release", !.failed = TRUE]  n == total[Running]
  <2>1. p \in ProducerSet /\ p.at = "release" /\ p.failed BY <1>2 DEF ProducerSet
  <2>2. producer' = p /\ cursor' = cursor /\ heldBy' = 0 /\ timer' = 0 /\ due' \subseteq due
    BY <1>2, <1>5 DEF NotOffering
  <2> HIDE DEF p
  <2>3. Stage(p, cursor[Running], reader[Running], n) BY <2>1 DEF Stage
  <2>4. n \in Nat /\ total' = [total EXCEPT ![Running] = n] BY <1>2, <1>5 DEF IInv, Typed
  <2>5. open' \in 0..Len(calls) /\ open' \notin decoded' BY <1>2, <1>5
  <2> HIDE DEF n
  <2> QED BY <1>1, <1>5, <2>1, <2>2, <2>3, <2>4, <2>5, GoesOn
<1> QED BY <1>4, <1>5 DEF ExecuteAnswered

LEMMA FetchKeeps ==
  ASSUME IInv, FetchAnswered
  PROVE  IInv'
<1> DEFINE n == total[Running]
<1>1. /\ producer.at = "fetch" /\ calls[Running] = "stream"
      /\ UNCHANGED <<calls, queue, waiting, told, reader, ran, decoded, total>>
  BY RunningCall DEF FetchAnswered, history
<1>2. /\ Running \in 1..Len(calls) /\ producer \in ProducerSet /\ heldBy = 0 /\ timer = 0
      /\ Stage(producer, cursor[Running], reader[Running], n)
      /\ 0 \notin decoded /\ open \in 0..Len(calls) /\ 0 \in 0..Len(calls)
      /\ n \in Nat /\ total' = [total EXCEPT ![Running] = n]
  BY <1>1, RunningCall, Calls DEF IInv, Typed
<1>3. open \in decoded => open = Running /\ (producer.lobsRead \/ producer.fetched < n)
  BY <1>1 DEF IInv, Opened
<1>4. ~Stopped => Asked(cursor[Running], reader[Running])
                  /\ Len(reader[Running].delivered) = producer.fetched
  BY <1>1, <1>2 DEF Stage, Stopped
<1>5. ASSUME NEW k \in 1..Unread, open' = IF k = Unread THEN 0 ELSE open,
             Window([producer EXCEPT !.rows = Rows(producer.fetched, k), !.fetched = @ + k], n)
      PROVE  IInv'
  <2> DEFINE m == producer.fetched
             p == [producer EXCEPT !.rows = Rows(m, k), !.fetched = @ + k]
  <2>1. m \in Nat /\ k \in Nat /\ m + k <= n /\ (k # Unread => m + k < n)
    BY <1>2, <1>5 DEF Unread, ProducerSet
  <2>2. p \in ProducerSet /\ p.rows = Rows(m, k) /\ p.fetched = m + k
    <3>1. Rows(m, k) \in Seq(Nat) BY <2>1, RowsAre
    <3>2. m + k \in Nat BY <2>1
    <3> QED BY <1>2, <3>1, <3>2 DEF ProducerSet
  <2>3. Window(p, n) BY <1>5
  <2>4. ~Stopped => Asked(cursor[Running], reader[Running]) /\ Len(reader[Running].delivered) = m
    BY <1>4
  <2> HIDE DEF p, m
  <2>5. open' \in 0..Len(calls) /\ (open' \in decoded' => open' = Running /\ p.fetched < n)
    BY <1>1, <1>2, <1>3, <1>5, <2>1, <2>2
  <2>6. producer.at \in {"execute", "fetch"} /\ decoded' \subseteq decoded \cup {Running}
    BY <1>1
  <2> HIDE DEF n
  <2> QED BY <1>1, <1>2, <2>1, <2>2, <2>3, <2>4, <2>5, <2>6, WindowKeeps
<1>6. ASSUME open' \in {0, open}, Fails
      PROVE  IInv'
  <2> DEFINE p == [producer EXCEPT !.at = "end", !.failed = TRUE]
  <2>1. /\ p \in ProducerSet /\ p.at = "end" /\ p.failed
        /\ p.lobsRead = producer.lobsRead /\ p.fetched = producer.fetched
    BY <1>2 DEF ProducerSet
  <2>2. producer' = p /\ cursor' = cursor /\ heldBy' = 0 /\ timer' = 0 /\ due' \subseteq due
    BY <1>2, <1>6 DEF Fails, NotOffering
  <2> HIDE DEF p
  <2>3. Stage(p, cursor[Running], reader[Running], n) BY <2>1 DEF Stage
  <2>4. /\ p.at \in {"fetch", "lob", "end", "release"} /\ producer.at # "idle"
        /\ decoded' \subseteq decoded \cup {Running} /\ open' \in 0..Len(calls)
        /\ open' \in decoded' =>
             p.at # "release" /\ open' = Running /\ (p.lobsRead \/ p.fetched < n)
    BY <1>1, <1>2, <1>3, <1>6, <2>1
  <2> HIDE DEF n
  <2> QED BY <1>1, <1>2, <2>1, <2>2, <2>3, <2>4, GoesOn
<1> QED BY <1>5, <1>6 DEF FetchAnswered

LEMMA LobKeeps ==
  ASSUME IInv, LobAnswered
  PROVE  IInv'
<1> DEFINE n == total[Running]  c == cursor[Running]  r == reader[Running]
           p == [producer EXCEPT !.lobsRead = TRUE]
           m == Len(r.delivered)
<1>1. /\ producer.at = "lob" /\ calls[Running] = "stream" /\ open' = Running
      /\ UNCHANGED <<calls, queue, waiting, told, reader, ran, decoded, total>>
  BY RunningCall DEF LobAnswered, history
<1>2. /\ Running \in 1..Len(calls) /\ producer \in ProducerSet /\ heldBy = 0 /\ timer = 0
      /\ Stage(producer, c, r, n) /\ c \in CursorSet /\ r \in ReaderSet
      /\ n \in Nat /\ total' = [total EXCEPT ![Running] = n]
      /\ open' \in 0..Len(calls) /\ decoded' \subseteq decoded \cup {Running}
  BY <1>1, RunningCall DEF IInv, Typed
<1>3. /\ p \in ProducerSet /\ p.lobsRead /\ p.rows = producer.rows /\ p.fetched = producer.fetched
  BY <1>2 DEF ProducerSet
<1> HIDE DEF p
<1>4. ASSUME NEW failed \in BOOLEAN, failed \/ Stopped,
             NotOffering([p EXCEPT !.at = "end", !.failed = failed])
      PROVE  IInv'
  <2> DEFINE q == [p EXCEPT !.at = "end", !.failed = failed]
  <2>1. q \in ProducerSet /\ q.at = "end" /\ q.failed = failed /\ q.lobsRead
    BY <1>3 DEF ProducerSet
  <2>2. producer' = q /\ cursor' = cursor /\ heldBy' = 0 /\ timer' = 0 /\ due' \subseteq due
    BY <1>2, <1>4 DEF NotOffering
  <2> HIDE DEF q
  <2>3. Stage(q, c, r, n) BY <1>4, <2>1 DEF Stage, Stopped
  <2>4. /\ q.at \in {"fetch", "lob", "end", "release"} /\ producer.at # "idle"
        /\ open' \in decoded' =>
             q.at # "release" /\ open' = Running /\ (q.lobsRead \/ q.fetched < n)
    BY <1>1, <2>1
  <2> HIDE DEF n
  <2> QED BY <1>1, <1>2, <2>1, <2>2, <2>3, <2>4, GoesOn
<1>5. ASSUME ~Stopped, Offering([p EXCEPT !.rows = Tail(@)], <<Head(p.rows)>>,
                                ~LastWindow(p) \/ Len(p.rows) > 1)
      PROVE  IInv'
  <2> DEFINE q == [p EXCEPT !.rows = Tail(@)]  rows == <<Head(p.rows)>>
             more == ~LastWindow(p) \/ Len(p.rows) > 1
             k == p.fetched - m
  <2>1. Asked(c, r) /\ m < p.fetched /\ p.rows = Rows(m, k)
    BY <1>1, <1>2, <1>3, <1>5 DEF Stage, Stopped
  <2>2. m \in Nat /\ p.fetched \in Nat /\ k \in Nat /\ k > 0
    BY <1>2, <1>3, <2>1 DEF ProducerSet, ReaderSet
  <2>3. rows = Rows(m, 1) /\ Tail(p.rows) = Rows(m + 1, k - 1) /\ Len(p.rows) = k
    <3> HIDE DEF m, k
    <3>1. Head(p.rows) = m + 1 /\ Tail(p.rows) = Rows(m + 1, k - 1) BY <2>1, <2>2, RowsTaken
    <3>2. Len(p.rows) = k BY <2>1, <2>2, RowsAre
    <3>3. <<m + 1>> = Rows(m, 1) BY <2>2, OneRow
    <3> QED BY <3>1, <3>2, <3>3
  <2>4. rows \in Seq(Nat) /\ Len(rows) = 1 /\ rows # <<>> /\ Tail(p.rows) \in Seq(Nat)
    <3>1. 1 \in Nat /\ m + 1 \in Nat /\ k - 1 \in Nat BY <2>2
    <3>2. Rows(m, 1) \in Seq(Nat) /\ Len(Rows(m, 1)) = 1 /\ Rows(m + 1, k - 1) \in Seq(Nat)
      BY <2>2, <3>1, RowsAre
    <3> QED BY <2>3, <3>2
  <2>5. q \in ProducerSet /\ q.rows = Tail(p.rows) /\ q.fetched = p.fetched /\ q.lobsRead
    BY <1>3, <2>4 DEF ProducerSet
  <2>6. /\ Offering(q, rows, more) /\ more \in BOOLEAN
        /\ more <=> p.fetched # n \/ k > 1
    BY <1>5, <2>3 DEF LastWindow
  <2> HIDE DEF q, rows, more
  <2>7. Following(q, rows, more, m, n)
    <3>1. k - 1 = q.fetched - (m + 1) /\ m + 1 <= q.fetched BY <2>2, <2>5
    <3>2. q.rows = Rows(m + 1, q.fetched - (m + 1)) BY <2>3, <2>5, <3>1
    <3>3. ~more => m + 1 = n BY <2>2, <2>6
    <3> QED BY <2>3, <2>4, <3>1, <3>2, <3>3 DEF Following
  <2>8. ~Stopped => Asked(c, r) /\ Following(q, rows, more, m, n) BY <2>1, <2>7
  <2>9. /\ producer.at \notin {"idle", "waiting"}
        /\ open' \in decoded' => open' = Running /\ (q.lobsRead \/ q.fetched < n)
    BY <1>1, <2>5
  <2> HIDE DEF n
  <2> QED BY <1>1, <1>2, <2>4, <2>5, <2>6, <2>8, <2>9, OfferingKeeps
<1>6. \/ NotOffering([p EXCEPT !.at = "end", !.failed = TRUE])
      \/ Stopped /\ NotOffering([p EXCEPT !.at = "end", !.failed = c.cancelled])
      \/ ~Stopped /\ Offering([p EXCEPT !.rows = Tail(@)], <<Head(p.rows)>>,
                              ~LastWindow(p) \/ Len(p.rows) > 1)
  BY DEF LobAnswered, p
<1>7. TRUE \in BOOLEAN /\ c.cancelled \in BOOLEAN BY <1>2 DEF CursorSet
<1> QED BY <1>4, <1>5, <1>6, <1>7

LEMMA OfferedKeeps ==
  ASSUME IInv, Offered
  PROVE  IInv'
<1> DEFINE n == total[Running]  c == cursor[Running]  r == reader[Running]  p == producer
           m == Len(r.delivered)
<1>1. /\ p.at = "waiting" /\ ~c.resumeProducer /\ calls[Running] = "stream"
      /\ producer' = Continued /\ cursor' = cursor
      /\ heldBy' = 0 /\ timer' = 0 /\ due' \subseteq due /\ open' = open
      /\ UNCHANGED <<calls, queue, waiting, told, reader, ran, decoded, total>>
  BY RunningCall DEF Offered, ProducerReady, history
<1>2. /\ Running \in 1..Len(calls) /\ p \in ProducerSet /\ c \in CursorSet /\ r \in ReaderSet
      /\ Stage(p, c, r, n) /\ Sound("stream", c, r, "waiting", n)
      /\ n \in Nat /\ total' = [total EXCEPT ![Running] = n]
      /\ open' \in 0..Len(calls) /\ decoded' \subseteq decoded \cup {Running}
  BY <1>1, RunningCall DEF IInv, Typed
<1>3. Continued \in ProducerSet /\ Continued.fetched = p.fetched /\ Continued.rows = p.rows
      /\ Continued.lobsRead = p.lobsRead /\ Continued.failed = p.failed
      /\ Continued.at = IF Stopped \/ (p.rows = <<>> /\ LastWindow(p)) THEN "end"
                        ELSE IF p.rows # <<>> THEN "lob" ELSE "fetch"
  BY <1>2 DEF Continued, ProducerSet
<1>4. ASSUME ~Stopped
      PROVE  /\ Asked(c, r) /\ OnTheWay(c, r) = m /\ m <= p.fetched
             /\ p.rows = Rows(m, p.fetched - m) /\ (p.rows = <<>> <=> p.fetched = m)
  <2>1. Asked(c, r) BY <1>1, <1>2, <1>4 DEF Stage, Stopped
  <2>2. m \in Nat /\ OnTheWay(c, r) = m BY <1>2, <2>1, AskedWay
  <2>3. m <= p.fetched /\ p.rows = Rows(m, p.fetched - m)
    BY <1>1, <1>2, <1>4, <2>2 DEF Stage, Stopped
  <2>4. p.fetched - m \in Nat BY <1>2, <2>2, <2>3 DEF ProducerSet
  <2>5. p.rows = <<>> <=> p.fetched - m = 0 BY <2>2, <2>3, <2>4, NoRows
  <2>6. p.fetched \in Nat BY <1>2 DEF ProducerSet
  <2>7. p.fetched - m = 0 <=> p.fetched = m BY <2>2, <2>6
  <2> QED BY <2>1, <2>2, <2>3, <2>5, <2>7
<1>5. Stage(Continued, c, r, n)
  <2>1. CASE Stopped
    <3>1. Continued.at = "end" BY <1>3, <2>1
    <3> QED BY <2>1, <3>1 DEF Stage, Stopped
  <2>2. CASE ~Stopped /\ p.rows = <<>> /\ LastWindow(p)
    <3>1. Continued.at = "end" BY <1>3, <2>2
    <3>2. OnTheWay(c, r) = n BY <1>4, <2>2 DEF LastWindow
    <3> QED BY <3>1, <3>2 DEF Stage
  <2>3. CASE ~Stopped /\ p.rows = <<>> /\ ~LastWindow(p)
    <3>1. Continued.at = "fetch" /\ Continued.fetched = m BY <1>3, <1>4, <2>3
    <3> QED BY <1>4, <2>3, <3>1 DEF Stage
  <2>4. CASE ~Stopped /\ p.rows # <<>>
    <3>1. Continued.at = "lob" BY <1>3, <2>4
    <3>2. m < p.fetched
      <4>1. m \in Nat /\ p.fetched \in Nat BY <1>2 DEF ProducerSet, ReaderSet
      <4> QED BY <1>4, <2>4, <4>1
    <3> QED BY <1>3, <1>4, <2>4, <3>1, <3>2 DEF Stage
  <2> QED BY <2>1, <2>2, <2>3, <2>4
<1>6. Continued.at \in {"fetch", "lob", "end"} BY <1>3
<1>7. /\ Continued.at \in {"fetch", "lob", "end", "release"} /\ producer.at # "idle"
      /\ open' \in decoded' =>
           Continued.at # "release" /\ open' = Running /\ (Continued.lobsRead \/ Continued.fetched < n)
  BY <1>1, <1>3, <1>6 DEF IInv, Opened
<1> HIDE DEF n, c, r, p, m
<1> QED BY <1>1, <1>2, <1>3, <1>5, <1>7, GoesOn DEF n, c, r

LEMMA EndReadKeeps ==
  ASSUME IInv, EndReadTransaction
  PROVE  IInv'
<1> DEFINE n == total[Running]  p == [producer EXCEPT !.at = "release"]
<1>1. /\ producer.at = "end" /\ calls[Running] = "stream" /\ producer' = p /\ cursor' = cursor
      /\ open' = IF EndsRead THEN 0 ELSE open
      /\ UNCHANGED <<calls, queue, waiting, told, reader, ran, heldBy, timer, due, decoded, total>>
  BY RunningCall DEF EndReadTransaction, turns, history
<1>2. /\ producer \in ProducerSet /\ Stage(producer, cursor[Running], reader[Running], n)
      /\ n \in Nat /\ total' = [total EXCEPT ![Running] = n] /\ heldBy = 0 /\ timer = 0
      /\ open \in 0..Len(calls) /\ 0 \in 0..Len(calls) /\ 0 \notin decoded
  BY <1>1, RunningCall, Calls DEF IInv, Typed
<1>3. /\ p \in ProducerSet /\ p.at = "release" /\ p.failed = producer.failed
  BY <1>2 DEF ProducerSet
<1>4. Stage(p, cursor[Running], reader[Running], n) BY <1>1, <1>2, <1>3 DEF Stage
<1>5. open \in decoded => EndsRead
  BY <1>2 DEF IInv, Opened, EndsRead, Unread, ProducerSet
<1>6. open' \notin decoded' /\ open' \in 0..Len(calls) BY <1>1, <1>2, <1>5
<1>7. producer.at # "idle" /\ decoded' \subseteq decoded \cup {Running} /\ due' \subseteq due
      /\ heldBy' = 0 /\ timer' = 0
  BY <1>1, <1>2
<1> HIDE DEF n, p
<1> QED BY <1>1, <1>2, <1>3, <1>4, <1>6, <1>7, GoesOn DEF n

-----------------------------------------------------------------------------
(* The actions of the turns.                                               *)

LEMMA ReleaseKeeps ==
  ASSUME IInv, ReleaseHandle
  PROVE  IInv'
<1> DEFINE status == IF producer.failed THEN "failed" ELSE "done"
           c == cursor[Running]  r == reader[Running]  n == total[Running]
<1>1. /\ producer.at = "release" /\ Settle(Running, status) /\ queue' = Tail(queue)
      /\ producer' = Idle /\ open' = open
      /\ UNCHANGED <<calls, reader, heldBy, timer, waiting, due, ran, decoded, total>>
  BY DEF ReleaseHandle, TurnOver, history
<1>2. /\ queue # <<>> /\ Running \notin waiting /\ told[Running] = "waiting"
      /\ Stage(producer, c, r, n)
  BY <1>1, RunningCall
<1>3. status \in {"done", "failed"} /\ (status = "done" => ~producer.failed) OBVIOUS
<1>4. status = "done" /\ ~c.stopped => OnTheWay(c, r) = n BY <1>1, <1>2, <1>3 DEF Stage
<1>5. Idle \in ProducerSet /\ Idle.at = "idle" BY DEF Idle, ProducerSet
<1>6. open' \in 0..Len(calls) /\ open' \notin decoded /\ due' \subseteq waiting'
  BY <1>1 DEF IInv, Typed, Apart, Opened
<1> HIDE DEF status
<1> QED BY <1>1, <1>2, <1>3, <1>4, <1>5, <1>6, TurnEnds

LEMMA StatementKeeps ==
  ASSUME IInv, StatementAnswered
  PROVE  IInv'
<1>1. PICK status \in {"done", "failed"} : TurnOver(status) BY DEF StatementAnswered
<1>2. /\ producer.at = "execute" /\ calls[Running] # "stream" /\ open' = 0
      /\ Settle(Running, status) /\ queue' = Tail(queue) /\ producer' = Idle
      /\ UNCHANGED <<calls, reader, heldBy, timer, waiting, due, ran, decoded, total>>
  BY <1>1 DEF StatementAnswered, TurnOver, history
<1>3. queue # <<>> /\ Running \notin waiting BY <1>2, RunningCall
<1>4. open' \in 0..Len(calls) /\ open' \notin decoded /\ due' \subseteq waiting'
  BY <1>2, Calls DEF IInv, Apart
<1>5. Idle \in ProducerSet /\ Idle.at = "idle" BY DEF Idle, ProducerSet
<1> QED BY <1>2, <1>3, <1>4, <1>5, TurnEnds

LEMMA CloseKeeps ==
  ASSUME IInv, CloseNow
  PROVE  IInv'
<1>1. /\ producer.at = "idle" /\ queue # <<>> /\ calls[Running] = "close" /\ open' = 0
      /\ Settle(Running, "done") /\ queue' = Tail(queue) /\ producer' = Idle
      /\ UNCHANGED <<calls, reader, heldBy, timer, waiting, due, ran, decoded, total>>
  BY DEF CloseNow, TurnReady, TurnOver, history
<1>2. Running \notin waiting BY <1>1 DEF IInv, Apart
<1>3. open' \in 0..Len(calls) /\ open' \notin decoded /\ due' \subseteq waiting'
  BY <1>1, Calls DEF IInv, Apart
<1>4. Idle \in ProducerSet /\ Idle.at = "idle" BY DEF Idle, ProducerSet
<1> QED BY <1>1, <1>2, <1>3, <1>4, TurnEnds

LEMMA SkipKeeps ==
  ASSUME IInv, SkipRefused
  PROVE  IInv'
<1>1. /\ producer.at = "idle" /\ queue # <<>> /\ queue' = Tail(queue)
      /\ UNCHANGED <<calls, waiting, told, heldBy, timer, due, cursor, reader, producer, open,
                     ran, decoded, total>>
  BY DEF SkipRefused, TurnReady, history
<1>2. queue' \in Seq(1..Len(calls)) BY <1>1 DEF IInv, Typed
<1>3. Typed' BY <1>1, <1>2 DEF IInv, Typed
<1>4. Apart' /\ AllSound' BY <1>1 DEF IInv, Apart, AllSound
<1>5. Turn' /\ InStage' /\ Opened' BY <1>1 DEF IInv, Turn, InStage, Opened
<1> QED BY <1>3, <1>4, <1>5 DEF IInv

LEMMA BeginKeeps ==
  ASSUME IInv, BeginTurn
  PROVE  IInv'
<1> DEFINE c == cursor[Running]  r == reader[Running]  n == total[Running]  d == BeginCursor(c)
           p == [Idle EXCEPT !.at = "execute"]
<1>1. /\ producer.at = "idle" /\ queue # <<>> /\ Running \in waiting /\ calls[Running] # "close"
      /\ waiting' = waiting \ {Running} /\ due' = due \ {Running}
      /\ UNCHANGED <<calls, reader, heldBy, timer, open, decoded, total>>
  BY DEF BeginTurn, TurnReady, MayRun
<1>2. /\ Running \in 1..Len(calls) /\ told[Running] = "waiting" /\ Running \notin ran
      /\ ~c.running /\ c \in CursorSet /\ r \in ReaderSet /\ n \in Nat
      /\ Sound(calls[Running], c, r, "waiting", n)
  BY <1>1, Calls DEF IInv, Typed, Apart, AllSound
<1>3. /\ d \in CursorSet /\ d.running = ~c.stopped /\ Sound(calls[Running], d, r, "waiting", n)
      /\ \A q \in ProducerSet : calls[Running] = "stream" /\ q.at = "execute" => Stage(q, d, r, n)
  BY <1>2, BeginningSound
<1>4. heldBy = 0 /\ timer = 0 /\ open \notin decoded BY <1>1 DEF IInv, Turn, Opened
<1>5. CASE calls[Running] = "stream" /\ ~d.running
  <2>1. /\ Settle(Running, "done") /\ queue' = Tail(queue)
        /\ producer' = producer /\ ran' = ran
    BY <1>5 DEF BeginTurn
  <2>2. cursor[Running].stopped BY <1>3, <1>5
  <2>3. /\ producer' \in ProducerSet /\ producer'.at = "idle" /\ open' \in 0..Len(calls)
        /\ open' \notin decoded /\ due' \subseteq waiting'
    BY <1>1, <1>4, <2>1 DEF IInv, Typed, Apart
  <2>4. waiting' \subseteq waiting /\ Running \notin waiting' BY <1>1
  <2> QED BY <1>1, <1>2, <2>1, <2>2, <2>3, <2>4, TurnEnds
<1>6. CASE ~(calls[Running] = "stream" /\ ~d.running)
  <2>1. /\ cursor' = [cursor EXCEPT ![Running] = d] /\ producer' = p
        /\ ran' = ran \cup {Running} /\ queue' = queue /\ told' = told /\ Running' = Running
    BY <1>6 DEF BeginTurn, Running
  <2>2. p \in ProducerSet /\ p.at = "execute" /\ ~p.failed /\ ~p.lobsRead
    <3>1. Idle \in ProducerSet /\ ~Idle.failed /\ ~Idle.lobsRead BY DEF Idle, ProducerSet
    <3> QED BY <3>1 DEF ProducerSet
  <2> HIDE DEF d, p
  <2>3. /\ cursor'[Running] = d /\ \A j \in 1..Len(calls) \ {Running} : cursor'[j] = cursor[j]
    BY <1>2, <2>1 DEF IInv, Typed
  <2>4. Typed' BY <1>1, <1>2, <1>3, <2>1, <2>2 DEF IInv, Typed
  <2>5. Apart' BY <1>1, <1>2, <2>1, <2>3 DEF IInv, Apart
  <2>6. ASSUME NEW j \in 1..Len(calls)
        PROVE  Sound(calls[j], cursor'[j], reader[j], told[j], total[j])
    BY <1>2, <1>3, <2>3 DEF IInv, AllSound
  <2>7. AllSound' BY <1>1, <2>1, <2>6 DEF AllSound
  <2>8. Turn' BY <1>1, <1>2, <1>4, <1>6, <2>1, <2>2, <2>3 DEF Turn
  <2>9. calls[Running] = "stream" => Stage(p, d, r, n) BY <1>3, <2>2
  <2>10. InStage' BY <1>1, <2>1, <2>3, <2>9 DEF InStage
  <2>11. Opened'
    <3>1. Running \notin decoded BY <1>2 DEF IInv, Apart
    <3> QED BY <1>1, <1>4, <2>1, <2>2, <3>1 DEF Opened
  <2> QED BY <2>4, <2>5, <2>7, <2>8, <2>10, <2>11 DEF IInv
<1> QED BY <1>5, <1>6

-----------------------------------------------------------------------------
(* Calls, and the timer.                                                   *)

\* One entry for each call is a list.
LEMMA Entries ==
  ASSUME NEW S, NEW l \in Nat, NEW f \in [1..l -> S]
  PROVE  f \in Seq(S) /\ Len(f) = l
OBVIOUS

LEMMA Listed ==
  ASSUME NEW S, NEW f \in Seq(S)
  PROVE  f \in [1..Len(f) -> S]
OBVIOUS

\* What is appended to a list leaves its head.
LEMMA FirstStays ==
  ASSUME NEW S, NEW s \in Seq(S), NEW e \in S
  PROVE  /\ Append(s, e) \in Seq(S) /\ Append(s, e) # <<>>
         /\ s # <<>> => Head(Append(s, e)) = Head(s)
<1>1. Append(s, e) \in Seq(S) /\ Len(Append(s, e)) = Len(s) + 1 /\ Len(s) \in Nat OBVIOUS
<1>2. Append(s, e) # <<>>  BY <1>1
<1>3. ASSUME s # <<>>  PROVE Head(Append(s, e)) = Head(s)
  <2>1. Len(s) > 0  BY <1>3
  <2>2. Append(s, e)[1] = s[1]  BY <2>1
  <2> QED BY <1>1, <1>2, <1>3, <2>2
<1> QED BY <1>1, <1>2, <1>3

\* A call that was just made.
LEMMA NewCall ==
  ASSUME NEW kind
  PROVE  LET c == [NoCursor EXCEPT !.resumeConsumer = (kind = "stream")]
             r == [NoReader EXCEPT !.at = IF kind = "stream" THEN "taking" ELSE @]
         IN  /\ c \in CursorSet /\ r \in ReaderSet /\ ~c.running
             /\ Sound(kind, c, r, "waiting", 0)
<1> DEFINE c == [NoCursor EXCEPT !.resumeConsumer = (kind = "stream")]
           r == [NoReader EXCEPT !.at = IF kind = "stream" THEN "taking" ELSE @]
<1>1. <<>> \in Seq(Nat) /\ Len(<<>>) = 0 OBVIOUS
<1>2. /\ c \in CursorSet /\ c.window = <<>> /\ ~c.stopped /\ ~c.cancelled /\ ~c.running
      /\ ~c.finished /\ ~c.failure /\ ~c.resumeProducer
  BY <1>1 DEF NoCursor, CursorSet
<1>3. /\ r \in ReaderSet /\ r.rows = <<>> /\ r.delivered = <<>> /\ r.outcome = "none"
      /\ r.at = IF kind = "stream" THEN "taking" ELSE "none"
  BY <1>1 DEF NoReader, ReaderSet
<1> HIDE DEF c, r
<1>4. InOrder(c, r)
  <2>1. 0 \in Nat /\ 0 + 0 = 0 OBVIOUS
  <2>2. Rows(0, 0) = <<>> BY <2>1, NoRows
  <2> QED BY <1>1, <1>2, <1>3, <2>1, <2>2 DEF InOrder
<1>5. Flagged(c, r, "waiting") BY <1>2, <1>3 DEF Flagged
<1>6. Reported(c, r, "waiting", 0) BY <1>2, <1>3 DEF Reported
<1>7. Sound(kind, c, r, "waiting", 0) BY <1>3, <1>4, <1>5, <1>6 DEF Sound
<1> QED BY <1>2, <1>3, <1>7 DEF c, r

LEMMA CallKeeps ==
  ASSUME IInv, NEW kind \in Kinds, Call(kind)
  PROVE  IInv'
<1> DEFINE n == Len(calls) + 1
           cancelled == [j \in Numbers |-> IF kind = "close" /\ Open(j) THEN Cancel(cursor[j])
                                                                        ELSE cursor[j]]
           c == [NoCursor EXCEPT !.resumeConsumer = (kind = "stream")]
           r == [NoReader EXCEPT !.at = IF kind = "stream" THEN "taking" ELSE @]
<1>1. /\ n <= MaxCalls /\ calls' = Append(calls, kind) /\ queue' = Append(queue, n)
      /\ told' = Append(told, "waiting")
      /\ cursor' = Append(cancelled, c) /\ reader' = Append(reader, r)
      /\ total' = Append(total, 0)
      /\ UNCHANGED <<heldBy, due, producer, open, ran, decoded>>
  BY DEF Call
<1>2. /\ waiting' = IF kind = "close" THEN waiting ELSE waiting \cup {n}
      /\ timer' = timer \/ (kind # "close" /\ WatchHeldTurn(heldBy, waiting'))
  BY DEF Call
<1>3. c \in CursorSet /\ r \in ReaderSet /\ ~c.running /\ Sound(kind, c, r, "waiting", 0)
  BY NewCall
<1>4. /\ Len(calls) \in Nat /\ n = Len(calls) + 1 /\ Numbers = 1..Len(calls)
      /\ 1..n = 1..Len(calls) \cup {n} /\ n \notin 1..Len(calls)
  BY Calls
<1>5. ASSUME NEW j \in 1..Len(calls)
      PROVE  /\ cancelled[j] \in CursorSet /\ cancelled[j].running = cursor[j].running
             /\ Sound(calls[j], cancelled[j], reader[j], told[j], total[j])
             /\ told[j] = "waiting" =>
                  \A p \in ProducerSet : Stage(p, cursor[j], reader[j], total[j])
                                           => Stage(p, cancelled[j], reader[j], total[j])
  <2>1. /\ cursor[j] \in CursorSet /\ reader[j] \in ReaderSet /\ told[j] \in Statuses
        /\ total[j] \in Nat /\ Sound(calls[j], cursor[j], reader[j], told[j], total[j])
    BY <1>4, StreamCall
  <2>2. cancelled[j] \in {cursor[j], Cancel(cursor[j])} BY <1>4
  <2>3. Moved(calls[j], told[j], total[j], cursor[j], reader[j], Cancel(cursor[j]), reader[j])
    BY <2>1, CancellingMoves
  <2> QED BY <2>1, <2>2, <2>3 DEF Moved
<1> HIDE DEF c, r
<1>6. cancelled \in [1..Len(calls) -> CursorSet] BY <1>4, <1>5
<1> HIDE DEF cancelled, n
<1>7. calls' \in Seq(Kinds) /\ Len(calls') = n /\ calls'[n] = kind
      /\ \A j \in 1..Len(calls) : calls'[j] = calls[j]
  BY <1>1, <1>4 DEF IInv, Typed
<1>8. /\ told' \in [1..n -> Statuses] /\ told'[n] = "waiting"
      /\ \A j \in 1..Len(calls) : told'[j] = told[j]
  <2>1. told \in Seq(Statuses) /\ Len(told) = Len(calls) /\ "waiting" \in Statuses
    <3>1. told \in [1..Len(calls) -> Statuses] BY DEF IInv, Typed
    <3>2. "waiting" \in Statuses BY DEF Statuses
    <3> QED BY <1>4, <3>1, <3>2, Entries
  <2>2. /\ told' \in Seq(Statuses) /\ Len(told') = n /\ told'[n] = "waiting"
        /\ \A j \in 1..Len(calls) : told'[j] = told[j]
    BY <1>1, <1>4, <2>1
  <2>3. told' \in [1..Len(told') -> Statuses] BY <2>2, Listed
  <2> QED BY <2>2, <2>3
<1>9. /\ cursor' \in [1..n -> CursorSet] /\ cursor'[n] = c
      /\ \A j \in 1..Len(calls) : cursor'[j] = cancelled[j]
  <2>1. cancelled \in Seq(CursorSet) /\ Len(cancelled) = Len(calls) BY <1>4, <1>6, Entries
  <2>2. /\ cursor' \in Seq(CursorSet) /\ Len(cursor') = n /\ cursor'[n] = c
        /\ \A j \in 1..Len(calls) : cursor'[j] = cancelled[j]
    BY <1>1, <1>3, <1>4, <2>1
  <2>3. cursor' \in [1..Len(cursor') -> CursorSet] BY <2>2, Listed
  <2> QED BY <2>2, <2>3
<1>10. /\ reader' \in [1..n -> ReaderSet] /\ reader'[n] = r
       /\ \A j \in 1..Len(calls) : reader'[j] = reader[j]
  <2>1. reader \in Seq(ReaderSet) /\ Len(reader) = Len(calls)
    BY <1>4, Entries DEF IInv, Typed
  <2>2. /\ reader' \in Seq(ReaderSet) /\ Len(reader') = n /\ reader'[n] = r
        /\ \A j \in 1..Len(calls) : reader'[j] = reader[j]
    BY <1>1, <1>3, <1>4, <2>1
  <2>3. reader' \in [1..Len(reader') -> ReaderSet] BY <2>2, Listed
  <2> QED BY <2>2, <2>3
<1>11. /\ total' \in [1..n -> Nat] /\ total'[n] = 0
       /\ \A j \in 1..Len(calls) : total'[j] = total[j]
  <2>1. total \in Seq(Nat) /\ Len(total) = Len(calls) /\ 0 \in Nat
    BY <1>4, Entries DEF IInv, Typed
  <2>2. /\ total' \in Seq(Nat) /\ Len(total') = n /\ total'[n] = 0
        /\ \A j \in 1..Len(calls) : total'[j] = total[j]
    BY <1>1, <1>4, <2>1
  <2>3. total' \in [1..Len(total') -> Nat] BY <2>2, Listed
  <2> QED BY <2>2, <2>3
<1>12. /\ queue' \in Seq(1..n) /\ queue' # <<>>
       /\ queue # <<>> => Running' = Running
  <2>1. queue \in Seq(1..n) /\ n \in 1..n BY <1>4 DEF IInv, Typed
  <2>2. queue' = Append(queue, n) BY <1>1
  <2>3. /\ Append(queue, n) \in Seq(1..n) /\ Append(queue, n) # <<>>
        /\ queue # <<>> => Head(Append(queue, n)) = Head(queue)
    BY <2>1, FirstStays
  <2> QED BY <2>2, <2>3 DEF Running
<1>13. waiting \subseteq waiting' /\ waiting' \subseteq waiting \cup {n}
       /\ (n \in waiting' => kind # "close")
  BY <1>2, <1>4 DEF IInv, Typed
<1>14. Typed'
  <2>1. 0..Len(calls) \subseteq 0..n BY <1>4
  <2> QED BY <1>1, <1>4, <1>7, <1>8, <1>9, <1>10, <1>11, <1>12, <1>13, <2>1 DEF IInv, Typed
<1>15. Apart'
  <2>1. n \notin ran /\ due \subseteq waiting' BY <1>4, <1>13 DEF IInv, Typed, Apart
  <2>2. ASSUME NEW j \in waiting' PROVE told'[j] = "waiting" /\ calls'[j] # "close" /\ j \notin ran
    <3>1. CASE j = n BY <1>7, <1>8, <1>13, <2>1, <2>2, <3>1
    <3>2. CASE j # n
      <4>1. j \in waiting /\ j \in 1..Len(calls) BY <1>13, <2>2, <3>2 DEF IInv, Typed
      <4> QED BY <1>7, <1>8, <4>1 DEF IInv, Apart
    <3> QED BY <3>1, <3>2
  <2>3. \A j \in ran : told'[j] # "refused" BY <1>8 DEF IInv, Typed, Apart
  <2>4. \A j \in 1..n : cursor'[j].running => j \in ran
    BY <1>3, <1>4, <1>5, <1>9 DEF IInv, Apart
  <2> QED BY <1>1, <1>7, <2>1, <2>2, <2>3, <2>4 DEF IInv, Apart
<1>16. ASSUME NEW j \in 1..n
       PROVE  Sound(calls'[j], cursor'[j], reader'[j], told'[j], total'[j])
  <2>1. CASE j = n BY <1>3, <1>7, <1>8, <1>9, <1>10, <1>11, <2>1
  <2>2. CASE j \in 1..Len(calls) BY <1>5, <1>7, <1>8, <1>9, <1>10, <1>11, <2>2
  <2> QED BY <1>4, <2>1, <2>2
<1>17. AllSound' BY <1>7, <1>16 DEF AllSound
<1>18. timer' \in {0, heldBy} BY <1>2 DEF WatchHeldTurn, IInv, Turn
<1>19. CASE producer.at = "idle"
  BY <1>1, <1>14, <1>15, <1>17, <1>18, <1>19 DEF IInv, Turn, InStage, Opened
<1>20. CASE producer.at # "idle"
  <2>1. /\ Running \in 1..Len(calls) /\ queue # <<>> /\ told[Running] = "waiting"
        /\ producer \in ProducerSet /\ Running' = Running
    BY <1>12, <1>20, RunningCall
  <2>2. /\ calls'[Running] = calls[Running] /\ told'[Running] = told[Running]
        /\ cursor'[Running].running = cursor[Running].running /\ total'[Running] = total[Running]
    BY <1>5, <1>7, <1>8, <1>9, <1>11, <2>1
  <2>3. Turn' BY <1>1, <1>12, <1>18, <2>1, <2>2 DEF IInv, Turn
  <2>4. ASSUME calls[Running] = "stream"
        PROVE  Stage(producer, cursor'[Running], reader'[Running], total'[Running])
    <3>1. Stage(producer, cursor[Running], reader[Running], total[Running])
      BY <1>20, <2>4, RunningCall
    <3> QED BY <1>5, <1>9, <1>10, <1>11, <2>1, <3>1
  <2>5. InStage' BY <1>1, <2>1, <2>2, <2>4 DEF InStage
  <2>6. Opened' BY <1>1, <2>1, <2>2 DEF IInv, Opened
  <2> QED BY <1>14, <1>15, <1>17, <2>3, <2>5, <2>6 DEF IInv
<1> QED BY <1>19, <1>20

LEMMA ElapsesKeeps ==
  ASSUME IInv, NEW i \in Numbers, Elapses(i)
  PROVE  IInv'
<1>1. /\ due' \subseteq waiting
      /\ UNCHANGED <<calls, queue, waiting, told, heldBy, timer, cursor, reader, producer, open,
                     ran, decoded, total>>
  BY DEF Elapses, history, IInv, Apart
<1>2. Typed' BY <1>1 DEF IInv, Typed
<1>3. Apart' /\ AllSound' BY <1>1 DEF IInv, Apart, AllSound
<1>4. Turn' /\ InStage' /\ Opened' BY <1>1 DEF IInv, Turn, InStage, Opened, Running
<1> QED BY <1>2, <1>3, <1>4 DEF IInv

LEMMA TimerKeeps ==
  ASSUME IInv, TimerFires
  PROVE  IInv'
<1>1. PICK refused \in {{}, Due} :
        /\ waiting' = waiting \ refused /\ due' = due \ refused
        /\ told' = [i \in Numbers |-> IF i \in refused THEN "refused" ELSE told[i]]
        /\ cursor' = [i \in Numbers |-> IF i \in refused THEN Finish(cursor[i], TRUE) ELSE cursor[i]]
        /\ timer' \in {0, heldBy}
  BY DEF TimerFires
<1>2. UNCHANGED <<calls, queue, heldBy, reader, producer, open, ran, decoded, total>>
  BY DEF TimerFires, history
<1>3. Numbers = 1..Len(calls) /\ refused \subseteq waiting /\ waiting \subseteq 1..Len(calls)
      /\ \A i \in refused : told[i] = "waiting" /\ i \notin ran
  BY Calls DEF Due, IInv, Typed, Apart
<1>4. ASSUME NEW i \in 1..Len(calls)
      PROVE  /\ cursor'[i] \in CursorSet /\ cursor'[i].running = cursor[i].running
             /\ told'[i] \in Statuses
             /\ Sound(calls[i], cursor'[i], reader[i], told'[i], total[i])
  <2>1. /\ cursor[i] \in CursorSet /\ reader[i] \in ReaderSet /\ told[i] \in Statuses
        /\ total[i] \in Nat /\ Sound(calls[i], cursor[i], reader[i], told[i], total[i])
    BY <1>3, StreamCall
  <2>2. CASE i \notin refused BY <1>1, <1>3, <2>1, <2>2
  <2>3. CASE i \in refused
    <3>1. told'[i] = "refused" /\ cursor'[i] = Finish(cursor[i], TRUE) BY <1>1, <1>3, <2>3
    <3>2. told[i] = "waiting" BY <1>3, <2>3
    <3> DEFINE status == "refused"
    <3>3. status \in {"done", "failed", "refused"} /\ (status # "done") = TRUE /\ status # "done"
      OBVIOUS
    <3> HIDE DEF status
    <3>4. /\ Finish(cursor[i], status # "done") \in CursorSet
          /\ Finish(cursor[i], status # "done").running = cursor[i].running
          /\ Sound(calls[i], Finish(cursor[i], status # "done"), reader[i], status, total[i])
      <4>1. Settles(calls[i], told[i], status, total[i], cursor[i], reader[i])
        BY <2>1, <3>2, <3>3 DEF Settles
      <4> QED BY <4>1, SettlingSound, Zenon
    <3>5. /\ Finish(cursor[i], TRUE) \in CursorSet
          /\ Finish(cursor[i], TRUE).running = cursor[i].running
          /\ Sound(calls[i], Finish(cursor[i], TRUE), reader[i], status, total[i])
      BY <3>3, <3>4
    <3> QED BY <3>1, <3>5 DEF status, Statuses
  <2> QED BY <2>2, <2>3
<1>5. cursor' \in [1..Len(calls) -> CursorSet] /\ told' \in [1..Len(calls) -> Statuses]
  BY <1>1, <1>3, <1>4
<1>6. Typed' BY <1>1, <1>2, <1>5 DEF IInv, Typed
<1>7. \A i \in 1..Len(calls) \ refused : told'[i] = told[i] /\ cursor'[i] = cursor[i]
  BY <1>1, <1>3
<1>8. Apart'
  <2>1. due' \subseteq waiting' /\ decoded' \subseteq ran' BY <1>1, <1>2 DEF IInv, Apart
  <2>2. \A i \in waiting' : told'[i] = "waiting" /\ calls'[i] # "close" /\ i \notin ran'
    BY <1>1, <1>2, <1>3, <1>7 DEF IInv, Apart
  <2>3. \A i \in ran' : told'[i] # "refused"
    BY <1>2, <1>3, <1>7 DEF IInv, Typed, Apart
  <2>4. \A i \in 1..Len(calls') : cursor'[i].running => i \in ran'
    BY <1>2, <1>4 DEF IInv, Apart
  <2> QED BY <2>1, <2>2, <2>3, <2>4 DEF Apart
<1>9. AllSound' BY <1>2, <1>4 DEF AllSound
<1>10. CASE producer.at = "idle"
  BY <1>1, <1>2, <1>6, <1>8, <1>9, <1>10 DEF IInv, Turn, InStage, Opened
<1>11. CASE producer.at # "idle"
  <2>1. Running \in 1..Len(calls) /\ Running \notin refused /\ Running' = Running
    <3>1. Running \in 1..Len(calls) /\ Running \in ran BY <1>11, RunningCall
    <3> QED BY <1>2, <1>3, <3>1 DEF Running
  <2>2. told'[Running] = told[Running] /\ cursor'[Running] = cursor[Running] BY <1>7, <2>1
  <2>3. Turn' BY <1>1, <1>2, <2>1, <2>2 DEF IInv, Turn
  <2>4. InStage' BY <1>2, <2>1, <2>2 DEF IInv, InStage
  <2>5. Opened' BY <1>2, <2>1 DEF IInv, Opened
  <2> QED BY <1>6, <1>8, <1>9, <2>3, <2>4, <2>5 DEF IInv
<1> QED BY <1>10, <1>11

-----------------------------------------------------------------------------
(* Every step.                                                             *)

LEMMA InitIInv == Init => IInv
<1> SUFFICES ASSUME Init PROVE IInv
  OBVIOUS
<1>1. Typed
  <2>1. Len(<<>>) = 0 /\ <<>> \in Seq(Kinds) /\ <<>> \in Seq(1..0) OBVIOUS
  <2>2. <<>> \in [1..0 -> Statuses] /\ <<>> \in [1..0 -> CursorSet]
        /\ <<>> \in [1..0 -> ReaderSet] /\ <<>> \in [1..0 -> Nat]
    OBVIOUS
  <2>3. Idle \in ProducerSet BY DEF Idle, ProducerSet
  <2>4. 0 <= MaxCalls BY LimitsAssumption
  <2> QED BY <2>1, <2>2, <2>3, <2>4 DEF Init, Typed
<1>2. Len(calls) = 0 BY DEF Init
<1>3. Apart /\ AllSound BY <1>2 DEF Init, Apart, AllSound
<1>4. Turn /\ InStage /\ Opened BY DEF Init, Turn, InStage, Opened, Idle
<1> QED BY <1>1, <1>3, <1>4 DEF IInv

LEMMA NextIInv == IInv /\ [Next]_vars => IInv'
<1> SUFFICES ASSUME IInv, [Next]_vars PROVE IInv'
  OBVIOUS
<1>1. CASE Client
  BY <1>1, BeginKeeps, SkipKeeps, CloseKeeps, OfferedKeeps, ResumesKeeps, ClosedKeeps
  DEF Client, TurnStep
<1>2. CASE Answered
  BY <1>2, StatementKeeps, ExecuteKeeps, FetchKeeps, LobKeeps, EndReadKeeps, ReleaseKeeps
  DEF Answered
<1>3. CASE Clock BY <1>3, TimerKeeps, ElapsesKeeps DEF Clock
<1>4. CASE Caller BY <1>4, CallKeeps, AsksNextKeeps, ReturnsKeeps, AbortsKeeps DEF Caller
<1>5. CASE UNCHANGED vars
  <2>1. UNCHANGED <<calls, queue, waiting, told, heldBy, timer, due, cursor, reader, producer,
                    open, ran, decoded, total>>
    BY <1>5 DEF vars, turns, history
  <2>2. Typed' BY <2>1 DEF IInv, Typed
  <2>3. Apart' /\ AllSound' BY <2>1 DEF IInv, Apart, AllSound
  <2>4. Turn' /\ InStage' /\ Opened' BY <2>1 DEF IInv, Turn, InStage, Opened, Running
  <2> QED BY <2>2, <2>3, <2>4 DEF IInv
<1> QED BY <1>1, <1>2, <1>3, <1>4, <1>5 DEF Next

LEMMA Always == Spec => []IInv
BY InitIInv, NextIInv, PTL DEF Spec

-----------------------------------------------------------------------------
(* What follows.                                                           *)

(* Every variable keeps its type; who is due is waiting, the timer is that *)
(* of the stream that holds the turn, and a statement that runs is queued. *)
THEOREM TypeCorrect == Spec => []TypeOK
<1>1. IInv => TypeOK
  <2> SUFFICES ASSUME IInv PROVE TypeOK
    OBVIOUS
  <2>1. Numbers = 1..Len(calls) BY DEF Numbers
  <2>2. \A i \in Numbers :
          /\ told[i] \in Statuses /\ reader[i] \in ReaderSet
          /\ calls[i] = "stream" <=> reader[i].at # "none"
    BY StreamCall DEF Sound
  <2>3. producer \in ProducerSet BY DEF IInv, Typed
  <2> QED BY <2>1, <2>2, <2>3
      DEF IInv, Typed, Apart, Turn, TypeOK, Streaming, Statuses, ReaderSet, ProducerSet
<1> QED BY <1>1, Always, PTL

(* However many rows a result has and however they arrive, a stream        *)
(* delivers them once and in order, says it is complete after the last     *)
(* one, and lets the next FETCH go only when all before it are consumed    *)
(* (offer() and take() of StreamCursor).                                   *)
THEOREM RowsDelivered == Spec => []RowsInOrder
<1>1. IInv => RowsInOrder
  <2> SUFFICES ASSUME IInv PROVE RowsInOrder
    OBVIOUS
  <2>1. ASSUME NEW i \in Numbers
        PROVE  /\ reader[i].delivered = Rows(0, Len(reader[i].delivered))
               /\ reader[i].outcome = "complete" => Len(reader[i].delivered) = total[i]
    BY StreamCall DEF Sound, InOrder, Reported
  <2>2. ASSUME producer.at = "fetch", ~Stopped
        PROVE  Len(reader[Running].delivered) = producer.fetched
    BY <2>2, RunningCall DEF Stage, Stopped
  <2> QED BY <2>1, <2>2 DEF RowsInOrder
<1> QED BY <1>1, Always, PTL

(* However many statements wait behind however many streams, one that was  *)
(* told that it was refused, because a consumer held the turn for too long *)
(* (refuseStatements), never sends anything when its turn comes (inTurn).  *)
THEOREM NoRefusedRuns == Spec => []RefusedNeverRuns
<1>1. IInv => RefusedNeverRuns BY DEF IInv, Apart, RefusedNeverRuns
<1> QED BY <1>1, Always, PTL

(* A stream that ended for its consumer does not run any more, so what     *)
(* comes next on the connection does not meet it (close() awaits the       *)
(* producer).                                                              *)
THEOREM ReleasedWhenEnded == Spec => []EndedMeansReleased
<1>1. IInv => EndedMeansReleased
  <2> SUFFICES ASSUME IInv, producer.at # "idle", Streaming(Running)
               PROVE  reader[Running].at # "ended"
    BY DEF EndedMeansReleased
  <2>1. /\ Sound(calls[Running], cursor[Running], reader[Running], "waiting", total[Running])
        /\ cursor[Running].running
    BY RunningCall DEF Streaming
  <2> QED BY <2>1 DEF Sound, Flagged
<1> QED BY <1>1, Always, PTL

(* Whenever the statement of a stream fails, before, between or after the  *)
(* rows its consumer reads, a consumer that was not aborted is told.       *)
THEOREM FailureTold == Spec => []FailureIsSeen
<1>1. IInv => FailureIsSeen
  <2> SUFFICES ASSUME IInv, NEW i \in Numbers, reader[i].at = "ended", ~cursor[i].cancelled,
                      reader[i].outcome \in {"complete", "returned"}
               PROVE  told[i] = "done"
    BY DEF FailureIsSeen
  <2>1. told[i] \in Statuses /\ Sound(calls[i], cursor[i], reader[i], told[i], total[i])
    BY StreamCall
  <2>2. CASE reader[i].outcome = "complete" BY <2>1, <2>2 DEF Sound, Reported
  <2>3. CASE reader[i].outcome = "returned"
    BY <2>1, <2>3 DEF Sound, Reported, Flagged, Statuses
  <2> QED BY <2>2, <2>3
<1> QED BY <1>1, Always, PTL

(* However a stream ends, its END_TRAN was sent, or its session dropped,   *)
(* before its turn is over.                                                *)
THEOREM NothingLeftBehind == Spec => []NothingLeftOpen
<1>1. IInv => NothingLeftOpen BY DEF IInv, Opened, NothingLeftOpen
<1> QED BY <1>1, Always, PTL

\* Only the timer refuses.
LEMMA TimerRefuses ==
  ASSUME IInv, Next, NEW i \in Numbers, told'[i] = "refused", told[i] # "refused"
  PROVE  TimerFires
<1>1. i \in 1..Len(calls) /\ told \in [1..Len(calls) -> Statuses]
  BY DEF Numbers, IInv, Typed
<1>2. ASSUME NEW j, NEW status \in {"done", "failed"}, Settle(j, status)
      PROVE  FALSE
  <2>1. told' = [told EXCEPT ![j] = status] BY <1>2 DEF Settle
  <2> QED BY <1>1, <2>1
<1>3. told' # told OBVIOUS
<1>4. ASSUME NEW kind \in Kinds, Call(kind)
      PROVE  FALSE
  <2>1. told' = Append(told, "waiting") BY <1>4 DEF Call
  <2>2. told \in Seq(Statuses) /\ Len(told) = Len(calls) /\ "waiting" \in Statuses
    <3>1. Len(calls) \in Nat /\ "waiting" \in Statuses BY Calls DEF Statuses
    <3> QED BY <1>1, <3>1, Entries
  <2>3. told'[i] = told[i] BY <1>1, <2>1, <2>2
  <2> QED BY <2>3
<1>5. ~Client
  <2>1. ~BeginTurn BY <1>2, <1>3 DEF BeginTurn
  <2>2. ~SkipRefused BY <1>3 DEF SkipRefused
  <2>3. ~CloseNow BY <1>2 DEF CloseNow, TurnOver
  <2>4. ~Offered BY <1>3 DEF Offered
  <2>5. ~\E j \in Numbers : Resumes(j) \/ Closed(j) BY <1>3 DEF Resumes, Closed, turns
  <2> QED BY <2>1, <2>2, <2>3, <2>4, <2>5 DEF Client, TurnStep
<1>6. ~Answered
  <2>1. ~StatementAnswered BY <1>2 DEF StatementAnswered, TurnOver
  <2>2. ~ExecuteAnswered BY <1>3 DEF ExecuteAnswered
  <2>3. ~FetchAnswered BY <1>3 DEF FetchAnswered
  <2>4. ~LobAnswered BY <1>3 DEF LobAnswered
  <2>5. ~EndReadTransaction BY <1>3 DEF EndReadTransaction, turns
  <2>6. ~ReleaseHandle BY <1>2 DEF ReleaseHandle, TurnOver
  <2> QED BY <2>1, <2>2, <2>3, <2>4, <2>5, <2>6 DEF Answered
<1>7. ~Caller
  <2>1. ~\E j \in Numbers : AsksNext(j) \/ Returns(j) \/ Aborts(j)
    BY <1>3 DEF AsksNext, Returns, Aborts, turns
  <2> QED BY <1>4, <2>1 DEF Caller
<1>8. ~\E j \in Numbers : Elapses(j) BY <1>3 DEF Elapses
<1> QED BY <1>5, <1>6, <1>7, <1>8 DEF Next, Clock

(* A statement is refused only while the turn is held by a stream that     *)
(* waits for its consumer, and that consumer has a row and is not back for *)
(* the next, however late the timer fires (watchHeldTurn, clearTimeout).   *)
THEOREM RefusedBehindIdle == Spec => RefusedBehindIdleConsumer
<1>1. IInv /\ [Next]_vars =>
        [\A i \in Numbers :
           told'[i] = "refused" /\ told[i] # "refused" =>
             producer.at = "waiting" /\ reader[Running].at = "reading"]_vars
  <2> SUFFICES ASSUME IInv, Next, NEW i \in Numbers, told'[i] = "refused", told[i] # "refused"
               PROVE  producer.at = "waiting" /\ reader[Running].at = "reading"
    OBVIOUS
  <2>1. TimerFires BY TimerRefuses
  <2>2. timer # 0 /\ ~Ready BY <2>1 DEF TimerFires
  <2>3. producer.at = "waiting" BY <2>2 DEF IInv, Turn
  <2>4. /\ Running \in Numbers /\ calls[Running] = "stream"
        /\ Stage(producer, cursor[Running], reader[Running], total[Running])
        /\ Sound(calls[Running], cursor[Running], reader[Running], "waiting", total[Running])
    BY <2>3, RunningCall DEF Numbers
  <2>5. cursor[Running].resumeProducer /\ ~TakeReady(Running)
    BY <2>2, <2>3, <2>4 DEF Ready, ProducerReady
  <2>6. ~cursor[Running].stopped BY <2>4, <2>5 DEF Sound, Flagged
  <2> QED BY <2>3, <2>4, <2>5, <2>6 DEF Stage, TakeReady
<1> QED BY <1>1, Always, PTL DEF Spec, RefusedBehindIdleConsumer
=============================================================================
