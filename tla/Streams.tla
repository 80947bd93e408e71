------------------------------- MODULE Streams -------------------------------
(***************************************************************************)
(* How statements take turns on one connection, and how a stream keeps its *)
(* turn while the caller reads its rows: StreamCursor                      *)
(* (src/src/adapters/stream-cursor.ts) with inTurn, watchHeldTurn,         *)
(* streamRows and streamWindows of native.ts, outside of transactions.     *)
(*                                                                         *)
(* Three parties run at their own pace: the statement at the head of the   *)
(* queue (the producer), the consumers of the streams, which are the       *)
(* caller's code, and the timer.  An action is what happens from one await *)
(* to the next.  Continuations that are ready (Ready) go before timers and *)
(* replies, as microtasks do; the caller's code runs at any time.          *)
(***************************************************************************)
EXTENDS Integers, Sequences, FiniteSets

CONSTANTS
  Kinds,       \* the calls that are made, of "statement", "stream", "close"
  Lobs,        \* subset of BOOLEAN: whether a result has LOBs
  MaxCalls,    \* bound: calls made in one behaviour
  MaxStreams,  \* bound: those of them that are streams
  MaxRows      \* bound: rows of a result

ASSUME KindsAssumption == Kinds \subseteq {"statement", "stream", "close"}
ASSUME LobsAssumption == Lobs \subseteq BOOLEAN
ASSUME LimitsAssumption == MaxCalls \in Nat /\ MaxStreams \in Nat /\ MaxRows \in Nat

VARIABLES
  calls,     \* the kind of each call, in the order they were made
  queue,     \* statementQueue: the calls whose turn is not over
  waiting,   \* waitingStatements
  told,      \* how the promise of each call settled, or "waiting"
  cursor,    \* the StreamCursor of each call that is a stream
  reader,    \* the generator of each call that is a stream, and its consumer
  producer,  \* the statement at the head of the queue, once it runs
  heldBy,    \* the stream whose turn waits for its consumer, 0 for none
  timer,     \* refusalTimer: the stream it was armed for, 0 for none
  due,       \* the waiting statements that waited consumerTimeout without a sign
  open,      \* external: the stream that left the session in a transaction, or 0
  ran,       \* history: the calls that sent anything
  decoded,   \* history: the streams whose result was opened
  total      \* history: the number of rows of each stream's result

turns == <<queue, waiting, told, heldBy, timer, due>>
history == <<ran, decoded, total>>
vars == <<calls, turns, cursor, reader, producer, open, history>>

Running == Head(queue)
Numbers == 1..Len(calls)

NoCursor ==
  [window |-> <<>>, stopped |-> FALSE, cancelled |-> FALSE, running |-> FALSE, finished |-> FALSE,
   failure |-> FALSE, resumeProducer |-> FALSE, resumeConsumer |-> FALSE]

NoReader == [at |-> "none", rows |-> <<>>, delivered |-> <<>>, outcome |-> "none"]

Idle ==
  [at |-> "idle", rows |-> <<>>, fetched |-> 0, lobColumns |-> FALSE, lobsRead |-> FALSE,
   failed |-> FALSE]

-----------------------------------------------------------------------------
(* The methods of a cursor.                                                *)

WakeProducer(c) == [c EXCEPT !.resumeProducer = FALSE]
WakeConsumer(c) == [c EXCEPT !.resumeConsumer = FALSE]

Cancel(c) == WakeProducer(WakeConsumer([c EXCEPT !.cancelled = TRUE, !.stopped = TRUE]))

\* Does not wake the producer.
WrongStop(c) == [c EXCEPT !.stopped = TRUE]
Stop(c) == WakeProducer([c EXCEPT !.stopped = TRUE])

\* Does not wait for the consumer.
WrongOffer(c, rows, more) == WakeConsumer([c EXCEPT !.window = rows])

Offer(c, rows, more) ==
  [WakeConsumer([c EXCEPT !.window = rows]) EXCEPT !.resumeProducer = more /\ ~c.stopped]

\* A statement whose stream was stopped while it waited still runs.
WrongBegin(c) == [c EXCEPT !.running = TRUE]
BeginCursor(c) == [c EXCEPT !.running = ~c.stopped]

\* However the statement ended, the stream is complete.
WrongFinish(c, failed) == WakeConsumer([c EXCEPT !.finished = TRUE])
Finish(c, failed) == WakeConsumer([c EXCEPT !.finished = TRUE, !.failure = failed])

-----------------------------------------------------------------------------
(* Turns.                                                                  *)

\* A continuation waits to run.
TurnReady == producer.at = "idle" /\ queue # <<>>
ProducerReady == producer.at = "waiting" /\ ~cursor[Running].resumeProducer
TakeReady(i) == reader[i].at = "taking" /\ ~cursor[i].resumeConsumer
CloseReady(i) == reader[i].at = "closing" /\ cursor[i].finished
Ready == TurnReady \/ ProducerReady \/ \E i \in Numbers : TakeReady(i) \/ CloseReady(i)

\* Armed when a turn begins to be held, but not when another statement joins.
WrongWatchHeldTurn(holder, statements) ==
  timer' = IF holder = 0 \/ holder = heldBy \/ timer # 0 \/ statements = {} THEN timer ELSE holder

\* watchHeldTurn() with heldBy = holder and waitingStatements = statements.
WatchHeldTurn(holder, statements) ==
  timer' = IF holder = 0 \/ timer # 0 \/ statements = {} THEN timer ELSE holder

\* The promise of call i settles.
Settle(i, status) ==
  /\ told' = [told EXCEPT ![i] = status]
  /\ cursor' = [cursor EXCEPT ![i] = Finish(@, status # "done")]

TurnOver(status) ==
  /\ Settle(Running, status)
  /\ queue' = Tail(queue)
  /\ producer' = Idle
  /\ UNCHANGED <<waiting, heldBy, timer, due>>

\* A refused statement runs when its turn comes.
WrongMayRun == calls[Running] # "close"

\* A refused statement keeps its place in the queue but must not run.
MayRun == calls[Running] # "close" /\ Running \in waiting

SkipRefused ==
  /\ TurnReady /\ ~MayRun /\ calls[Running] # "close"
  /\ queue' = Tail(queue)
  /\ UNCHANGED <<calls, waiting, told, heldBy, timer, due, cursor, reader, producer, open, history>>

\* Its turn comes: it leaves the waiting ones, and runs unless its stream was stopped.
BeginTurn ==
  /\ TurnReady /\ MayRun
  /\ waiting' = waiting \ {Running}
  /\ due' = due \ {Running}
  /\ LET c == BeginCursor(cursor[Running])
     IN  IF calls[Running] = "stream" /\ ~c.running
           THEN /\ Settle(Running, "done")
                /\ queue' = Tail(queue)
                /\ UNCHANGED <<producer, ran>>
           ELSE /\ cursor' = [cursor EXCEPT ![Running] = c]
                /\ producer' = [Idle EXCEPT !.at = "execute"]
                /\ ran' = ran \cup {Running}
                /\ UNCHANGED <<queue, told>>
  /\ UNCHANGED <<calls, reader, heldBy, timer, open, decoded, total>>

\* closeNow(): the session goes, and its transaction with it.
CloseNow ==
  /\ TurnReady /\ calls[Running] = "close"
  /\ TurnOver("done")
  /\ open' = 0
  /\ UNCHANGED <<calls, reader, history>>

\* A statement that is no stream is answered, which ends its transaction.
StatementAnswered ==
  /\ producer.at = "execute" /\ calls[Running] = "statement" /\ ~Ready
  /\ TurnOver("done") \/ TurnOver("failed")
  /\ open' = 0
  /\ UNCHANGED <<calls, reader, history>>

-----------------------------------------------------------------------------
(* streamWindows(): the producer.                                          *)

Unread == total[Running] - producer.fetched
LastWindow(p) == p.fetched = total[Running]

\* Rows from the server: they are numbered as the result has them.
Rows(from, n) == [k \in 1..n |-> from + k]

\* The consumer gets rows; if more can follow, the turn is held until it asks.
Offering(p, rows, more) ==
  /\ cursor' = [cursor EXCEPT ![Running] = Offer(@, rows, more)]
  /\ producer' = [p EXCEPT !.at = IF more THEN "waiting" ELSE "end"]
  /\ IF more
       THEN heldBy' = Running /\ due' = {} /\ WatchHeldTurn(Running, waiting)
       ELSE UNCHANGED <<heldBy, due, timer>>

NotOffering(p) == producer' = p /\ UNCHANGED <<cursor, heldBy, due, timer>>

Stopped == cursor[Running].stopped

\* A window arrived, as the rows of state p; the result has n rows.  An empty one,
\* which only the first may be, is followed by a FETCH.
Window(p, n) ==
  CASE p.rows = <<>> ->
         NotOffering([p EXCEPT !.at = IF p.fetched = n \/ Stopped THEN "end" ELSE "fetch"])
    [] p.rows # <<>> /\ p.lobColumns -> NotOffering([p EXCEPT !.at = IF Stopped THEN "end" ELSE "lob"])
    [] p.rows # <<>> /\ ~p.lobColumns -> Offering([p EXCEPT !.rows = <<>>], p.rows, p.fetched < n)

Fails == NotOffering([producer EXCEPT !.at = "end", !.failed = TRUE])

\* The statement and its first rows; or an error reply, a damaged one or a session that
\* is gone, which leave no transaction; or first rows with a value that has no decoder,
\* which leave one if there are more rows, and no streamWindows() to end it.
ExecuteAnswered ==
  /\ producer.at = "execute" /\ calls[Running] = "stream" /\ ~Ready
  /\ \/ \E n \in 0..MaxRows, lobColumns \in Lobs : \E k \in 0..n :
          /\ total' = [total EXCEPT ![Running] = n]
          /\ decoded' = decoded \cup {Running}
          /\ open' = IF k < n THEN Running ELSE 0
          /\ Window([producer EXCEPT !.rows = Rows(0, k), !.fetched = k,
                                     !.lobColumns = lobColumns], n)
     \/ /\ open' \in {0, Running}
        /\ NotOffering([producer EXCEPT !.at = "release", !.failed = TRUE])
        /\ UNCHANGED <<total, decoded>>
  /\ UNCHANGED <<calls, queue, waiting, told, reader, ran>>

\* FETCH: rows, an error or a row that cannot be decoded, or a session that is gone.
FetchAnswered ==
  /\ producer.at = "fetch" /\ ~Ready
  /\ \/ \E k \in 1..Unread :
          /\ open' = IF k = Unread THEN 0 ELSE open
          /\ Window([producer EXCEPT !.rows = Rows(producer.fetched, k), !.fetched = @ + k],
                    total[Running])
     \/ open' \in {0, open} /\ Fails
  /\ UNCHANGED <<calls, queue, waiting, told, reader, history>>

\* LOB_READ opens a transaction.  What was not wanted any more is not an error.
LobAnswered ==
  /\ producer.at = "lob" /\ ~Ready
  /\ open' = Running
  /\ LET p == [producer EXCEPT !.lobsRead = TRUE]
     IN  \/ NotOffering([p EXCEPT !.at = "end", !.failed = TRUE])
         \/ /\ Stopped
            /\ NotOffering([p EXCEPT !.at = "end", !.failed = cursor[Running].cancelled])
         \/ /\ ~Stopped
            /\ Offering([p EXCEPT !.rows = Tail(@)], <<Head(p.rows)>>,
                        ~LastWindow(p) \/ Len(p.rows) > 1)
  /\ UNCHANGED <<calls, queue, waiting, told, reader, history>>

\* After the wait: an end, the next row, or the next FETCH.
Continued ==
  [producer EXCEPT !.at = IF Stopped \/ (producer.rows = <<>> /\ LastWindow(producer)) THEN "end"
                          ELSE IF producer.rows # <<>> THEN "lob" ELSE "fetch"]

\* The turn counts as held until rows are offered again.
WrongOffered ==
  /\ ProducerReady
  /\ producer' = Continued
  /\ UNCHANGED <<calls, turns, cursor, reader, open, history>>

\* The timer is not cleared.
StaleTimer ==
  /\ ProducerReady
  /\ producer' = Continued
  /\ heldBy' = 0 /\ due' = {}
  /\ UNCHANGED <<calls, queue, waiting, told, timer, cursor, reader, open, history>>

\* The consumer asked for more, or stopped: the turn is not held any longer.
Offered ==
  /\ ProducerReady
  /\ producer' = Continued
  /\ heldBy' = 0 /\ timer' = 0 /\ due' = {}
  /\ UNCHANGED <<calls, queue, waiting, told, cursor, reader, open, history>>

\* Only after LOBs, or only with rows left.
WrongEndsRead == producer.lobsRead
WrongEndsUnread == Unread > 0
EndsRead == producer.lobsRead \/ Unread > 0

\* endReadTransaction(): answered, or the session is dropped.
EndReadTransaction ==
  /\ producer.at = "end" /\ ~Ready
  /\ producer' = [producer EXCEPT !.at = "release"]
  /\ open' = IF EndsRead THEN 0 ELSE open
  /\ UNCHANGED <<calls, turns, cursor, reader, history>>

\* The query handle is released, and the turn is over.
ReleaseHandle ==
  /\ producer.at = "release" /\ ~Ready
  /\ TurnOver(IF producer.failed THEN "failed" ELSE "done")
  /\ UNCHANGED <<calls, reader, open, history>>

-----------------------------------------------------------------------------
(* streamRows(): the generator and the code that consumes it.              *)

\* The finally block: c is the cursor, r the reader as it leaves the loop.
Leaves(i, c, r) ==
  LET s == Stop(c)
  IN  /\ cursor' = [cursor EXCEPT ![i] = IF s.running THEN s ELSE [s EXCEPT !.failure = FALSE]]
      /\ reader' = [reader EXCEPT ![i] =
                      [r EXCEPT !.at = IF s.running THEN "closing" ELSE "ended",
                                !.rows = <<>>,
                                !.outcome = IF ~s.running /\ s.failure /\ ~s.cancelled
                                              THEN "failed" ELSE @]]

Yields(i, c, rows) ==
  /\ cursor' = [cursor EXCEPT ![i] = c]
  /\ reader' = [reader EXCEPT ![i] = [reader[i] EXCEPT !.at = "reading", !.rows = Tail(rows),
                                                       !.delivered = Append(@, Head(rows))]]

With(i, outcome) == [reader[i] EXCEPT !.outcome = outcome]

\* The loop of take(), with cursor c.
Take(i, c) ==
  IF c.cancelled THEN Leaves(i, c, With(i, "cancelled"))
  ELSE IF c.window # <<>> THEN Yields(i, [c EXCEPT !.window = <<>>], c.window)
  ELSE IF c.failure THEN Leaves(i, [c EXCEPT !.failure = FALSE], With(i, "failed"))
  ELSE IF c.finished THEN Leaves(i, c, With(i, "complete"))
  ELSE /\ cursor' = [cursor EXCEPT ![i] = [c EXCEPT !.resumeConsumer = TRUE]]
       /\ reader' = [reader EXCEPT ![i].at = "taking"]

Resumes(i) ==
  /\ TakeReady(i)
  /\ Take(i, cursor[i])
  /\ UNCHANGED <<calls, turns, producer, open, history>>

\* The caller asks for the next row: a sign that it is still reading.
AsksNext(i) ==
  /\ reader[i].at = "reading"
  /\ due' = IF heldBy = i THEN {} ELSE due
  /\ IF reader[i].rows = <<>> THEN Take(i, WakeProducer(cursor[i]))
     ELSE IF cursor[i].cancelled THEN Leaves(i, cursor[i], With(i, "cancelled"))
     ELSE Yields(i, cursor[i], reader[i].rows)
  /\ UNCHANGED <<calls, queue, waiting, told, heldBy, timer, producer, open, history>>

\* The caller wants no more rows.
Returns(i) ==
  /\ reader[i].at = "reading"
  /\ Leaves(i, cursor[i], With(i, "returned"))
  /\ UNCHANGED <<calls, turns, producer, open, history>>

\* close() of a cursor: the turn is over, and may have failed unseen.
Closed(i) ==
  /\ CloseReady(i)
  /\ reader' = [reader EXCEPT ![i].at = "ended",
                              ![i].outcome = IF cursor[i].failure /\ ~cursor[i].cancelled
                                               THEN "failed" ELSE @]
  /\ cursor' = [cursor EXCEPT ![i].failure = FALSE]
  /\ UNCHANGED <<calls, turns, producer, open, history>>

\* openCursors
Open(i) == reader[i].at \in {"taking", "reading"}

\* The stream's AbortSignal.
Aborts(i) ==
  /\ Open(i) /\ ~cursor[i].cancelled
  /\ cursor' = [cursor EXCEPT ![i] = Cancel(@)]
  /\ UNCHANGED <<calls, turns, reader, producer, open, history>>

-----------------------------------------------------------------------------
(* Calls, and the timer of those that wait.                                *)

\* A stream issues its statement at its first read, and then waits in take().
Call(kind) ==
  LET i == Len(calls) + 1
  IN  /\ i <= MaxCalls
      /\ kind = "stream" => Cardinality({j \in Numbers : calls[j] = "stream"}) < MaxStreams
      /\ calls' = Append(calls, kind)
      /\ queue' = Append(queue, i)
      /\ told' = Append(told, "waiting")
      /\ waiting' = IF kind = "close" THEN waiting ELSE waiting \cup {i}
      /\ IF kind = "close" THEN UNCHANGED timer ELSE WatchHeldTurn(heldBy, waiting')
      /\ cursor' = Append([j \in Numbers |-> IF kind = "close" /\ Open(j) THEN Cancel(cursor[j])
                                                                        ELSE cursor[j]],
                          [NoCursor EXCEPT !.resumeConsumer = (kind = "stream")])
      /\ reader' = Append(reader, [NoReader EXCEPT !.at = IF kind = "stream" THEN "taking" ELSE @])
      /\ total' = Append(total, 0)
      /\ UNCHANGED <<heldBy, due, producer, open, ran, decoded>>

\* Time passes without a sign of the consumer: who waited first is due first.
Elapses(i) ==
  /\ heldBy # 0 /\ ~Ready
  /\ i \in waiting \ due /\ \A j \in waiting \ due : i <= j
  /\ due' = due \cup {i}
  /\ UNCHANGED <<calls, queue, waiting, told, heldBy, timer, cursor, reader, producer, open, history>>

\* Whoever waits is refused, also if the consumer gave a sign meanwhile.
WrongDue == waiting
Due == waiting \cap due

\* The timer fires; the statements it refuses send nothing.
TimerFires ==
  /\ timer # 0 /\ ~Ready
  /\ due # {} \/ waiting = {}
  /\ LET refused == IF heldBy = timer THEN Due ELSE {}
     IN  /\ waiting' = waiting \ refused
         /\ due' = due \ refused
         /\ told' = [i \in Numbers |-> IF i \in refused THEN "refused" ELSE told[i]]
         /\ cursor' = [i \in Numbers |-> IF i \in refused THEN Finish(cursor[i], TRUE) ELSE cursor[i]]
         /\ timer' = IF heldBy # 0 /\ waiting' # {} THEN heldBy ELSE 0
  /\ UNCHANGED <<calls, queue, heldBy, reader, producer, open, history>>

-----------------------------------------------------------------------------

Init ==
  /\ calls = <<>> /\ queue = <<>> /\ waiting = {} /\ told = <<>>
  /\ cursor = <<>> /\ reader = <<>> /\ producer = Idle
  /\ heldBy = 0 /\ timer = 0 /\ due = {} /\ open = 0
  /\ ran = {} /\ decoded = {} /\ total = <<>>

TurnStep == BeginTurn \/ SkipRefused \/ CloseNow

\* External: the server answers.
Answered ==
  \/ StatementAnswered \/ ExecuteAnswered \/ FetchAnswered \/ LobAnswered
  \/ EndReadTransaction \/ ReleaseHandle

Caller ==
  \/ \E kind \in Kinds : Call(kind)
  \/ \E i \in Numbers : AsksNext(i) \/ Returns(i) \/ Aborts(i)

Client == TurnStep \/ Offered \/ (\E i \in Numbers : Resumes(i) \/ Closed(i))

Clock == TimerFires \/ (\E i \in Numbers : Elapses(i))

Next == Client \/ Answered \/ Clock \/ Caller

Spec == Init /\ [][Next]_vars

\* The client's own steps and its timer, and a server that answers.
Fairness == WF_vars(Client) /\ WF_vars(Answered) /\ WF_vars(Clock)
FairSpec == Spec /\ Fairness

-----------------------------------------------------------------------------
(* Properties.                                                             *)

Streaming(i) == calls[i] = "stream"

TypeOK ==
  /\ calls \in Seq(Kinds) /\ Len(calls) <= MaxCalls
  /\ queue \in Seq(Numbers) /\ waiting \subseteq Numbers /\ due \subseteq waiting
  /\ heldBy \in 0..Len(calls) /\ timer \in {0, heldBy} /\ open \in 0..Len(calls)
  /\ DOMAIN told = Numbers /\ DOMAIN cursor = Numbers /\ DOMAIN reader = Numbers
  /\ \A i \in Numbers :
       /\ told[i] \in {"waiting", "done", "failed", "refused"}
       /\ reader[i].at \in {"none", "taking", "reading", "closing", "ended"}
       /\ Streaming(i) <=> reader[i].at # "none"
  /\ producer.at \in {"idle", "execute", "fetch", "lob", "waiting", "end", "release"}
  /\ producer.at # "idle" => queue # <<>>

(* A stream delivers the rows of its result once, in order and none left out, *)
(* and only says that it is complete after the last one; and the next FETCH   *)
(* only goes out once every row of the windows before it was consumed, so one *)
(* window at most is held (StreamCursor's hand-over through two wake-ups).    *)
RowsInOrder ==
  /\ \A i \in Numbers :
       /\ reader[i].delivered = Rows(0, Len(reader[i].delivered))
       /\ reader[i].outcome = "complete" => Len(reader[i].delivered) = total[i]
  /\ producer.at = "fetch" /\ ~Stopped => Len(reader[Running].delivered) = producer.fetched

(* A statement that was refused, or whose stream was over before its turn,    *)
(* never sends anything (inTurn, begin).                                      *)
RefusedNeverRuns ==
  \A i \in Numbers : told[i] = "refused" => i \notin ran

(* A stream that ended for its consumer is over on the connection as well: its *)
(* statement does not run any more, and what comes next on the connection     *)
(* does not meet it (close() awaits the producer).                            *)
EndedMeansReleased ==
  producer.at # "idle" /\ Streaming(Running) => reader[Running].at # "ended"

(* A failure of the stream's statement is not lost: a consumer that read to   *)
(* the end, or stopped early, was told (the failure in take() and close()).   *)
FailureIsSeen ==
  \A i \in Numbers :
    /\ reader[i].at = "ended" /\ ~cursor[i].cancelled
    /\ reader[i].outcome \in {"complete", "returned"}
    => told[i] = "done"

(* Between turns no stream that was opened has left its session in a          *)
(* transaction, whose locks and CAS it would keep (streamWindows' END_TRAN).  *)
NothingLeftOpen == producer.at = "idle" => open \notin decoded

(* docs/API_REFERENCE.md, on stream(): a failed read closes the stream, and   *)
(* ends the transaction that the SELECT opened.                               *)
FailedReadEndsTransaction ==
  producer.at = "idle" => \A i \in Numbers : reader[i].outcome = "failed" => open # i

(* A statement is only refused while the turn is held by a stream whose       *)
(* consumer is somewhere in the caller's code, never while the server or the  *)
(* stream works (heldBy, clearTimeout).                                       *)
RefusedBehindIdleConsumer ==
  [][\A i \in Numbers :
       told'[i] = "refused" /\ told[i] # "refused" =>
         producer.at = "waiting" /\ reader[Running].at = "reading"]_vars

(* Every statement settles, also behind a stream whose consumer never asks    *)
(* for another row, and also if that consumer is waiting for this very        *)
(* statement; a close() settles whatever streams are open.                    *)
EveryCallSettles ==
  \A i \in 1..MaxCalls : i \in Numbers /\ calls[i] # "stream" ~> i \in Numbers /\ told[i] # "waiting"

(* A consumer that asked for a row, or stopped, goes on: with a row or with   *)
(* the end of the stream (no wake-up is lost between the two sides).          *)
EveryReadSettles ==
  \A i \in 1..MaxCalls :
    i \in Numbers /\ reader[i].at \in {"taking", "closing"}
      ~> i \in Numbers /\ reader[i].at \in {"reading", "ended"}

=============================================================================
