# A TLA+ model of cubrid-client

cubrid-client is a Node.js client for CUBRID. This directory holds its formal
model: TLA+ modules translated from the source under `src/`, TLC configurations
that check them on small instances, and proofs that TLAPS checks for every
value of the constants. Paths such as `connection.ts` mean the file of that name
under `src/src/`.

## 1. The system

### Parts, their state and their operations

| Part | Source | State it keeps | Operations |
|------|--------|----------------|------------|
| CAS connection | `protocol/connection.ts` | one socket, flags about the session on it, its session parameters, two counters, a FIFO queue of operations | `connect`, `ensureSession`, `sendAndRecv`, `sendAndRecvOnSession`, `releaseOnSession`, `setSessionParameters`, `discardSession`, `close`, `ping` |
| Socket framing | `protocol/connection.ts` (`recvExact`, `readFrame`, `takeBuffered`) | `receiveBuffer` and the listeners of the read in progress | read exactly n bytes, read one frame |
| Transaction adapter | `adapters/native.ts` | `autoCommit`, the session and reply count the open transaction is bound to, the abort that ended it, the measured backslash mode, the insert-id baseline | `query`, `execute`, their prepared forms, `beginTransaction`, `commit`, `rollback`, `ping`, `setTransactionOptions`, `close` |
| Statement turns | `adapters/native.ts` (`inTurn`, `watchHeldTurn`) | the queue of statements, those that wait, the stream that holds the turn, one timer | take a turn, refuse a waiting statement |
| Stream cursor | `adapters/stream-cursor.ts` | one window of rows, two wake-up callbacks, stop and failure flags | `run`, `begin`, `offer`, `take`, `cancel`, `close` |
| LOB reading | `adapters/native.ts` | none of its own | `loadLobs`, `readLob`, `endReadTransaction` |
| Callback transaction | `client/transaction.ts` | the running queries, unseen rejections, the terminal operation | `query`, `commit`, `rollback`, `finish`, `abort` |
| Client | `client/client.ts` | the shared connection's promise, the running schema lookups, `closed` | everything public |
| Schema lookups | `client/schema.ts` | none | catalog queries |
| Protocol codec | `protocol/protocol.ts`, `packet-reader.ts`, `packet-writer.ts`, `constants.ts` | none | encode a request, decode a reply, interpolate parameters |
| Errors, configuration, logging, types | `errors/`, `internals/`, `types/`, `utils/` | none that a statement depends on | classify, validate, report |

### How they interact

The client opens one adapter for all shared calls and one per `transaction()`.
An adapter runs one statement at a time, in the order of the calls. A statement
is several operations of the adapter's CAS connection, and the connection runs
one operation at a time, in the order they joined its queue. An operation is
several writes and reads on a socket. A stream keeps its adapter's turn while
its consumer, which is the caller's own code, holds a window of rows.

At the far end are a broker, which hands the client to a CAS process, and the
CAS. They are not in the repository. The models take from `connection.ts` what
it says and relies on: a reply tells whether a transaction is open; a CAS that
is out of a transaction may turn to another client at any moment, closing the
socket; `CHECK_CAS` holds it until the next statement ends; any CAS may crash.

### What is hard

* *Asynchrony.* Every `await` lets other calls in. A value read before it (a
  generation, a failure count, a flag) may be stale after it.
* *Sessions come and go.* The connection replaces a lost session by itself.
  Everything tied to a session (handles, transactions, a deferred commit, the
  backslash mode, the last generated id, session parameters) must notice.
* *Unknown outcomes.* A request whose reply never came may have run. It must
  not be sent again, and the socket must not be used again.
* *The server decides too.* It can roll a transaction back on its own and say
  so in a reply that is otherwise ordinary.
* *Timers and events.* A read timeout, a late socket event, an abort signal and
  a consumer that stopped reading arrive in any order.

### What makes each part correct

* CAS connection: an answer belongs to its request, which ran once; no request
  runs twice; the session check leaves no gap; a usable session holds its
  parameters; a session-bound request stays on its session; every operation
  settles.
* Transaction adapter: a commit that succeeds made every acknowledged statement
  durable, a transaction is never committed in part, a statement reported
  unsent never runs.
* Streams: every row once and in order, the turn is always given back, a
  refused statement never runs.
* Generated ids: a reported id was generated by that statement.
* Callback transaction: one outcome, and no commit while a query it contains
  runs or has failed unseen.
* Client: nothing opens after `close()`, and what is open is closed.
* Framing and codec: a reply is the bytes of its own frame and is read as the one
  thing it means; a statement reaches the server as it was written.

## 2. Modules

| Module | Models | Checked by |
|--------|--------|------------|
| `CASConnection` | `protocol/connection.ts` with the sockets and CAS processes it talks to | `MCCASConnection` with the cfgs below |
| `RequestQueue` | what a connection promises its callers: the abstract specification of `CASConnection` | the property `KeepsPromise` |
| `MCCASConnection` | the instances TLC checks; every behaviour of its `MCSpec` is one of `Spec`, with one of two workloads | |
| `Session` | the same connection as the adapter sees it: one step per operation, no sockets | through `Adapter` |
| `Adapter` | `adapters/native.ts`: statements, transactions, the backslash mode and generated ids over a `Session` | `MCAdapter` with the cfgs below |
| `MCAdapter` | the calls of the instances of `Adapter` | |
| `Streams` | `adapters/stream-cursor.ts` and the turns of `adapters/native.ts`: streams, their consumers, the refusal timer | `MCStreams` with the cfgs below |
| `MCStreams` | the kinds of calls of its instances | |
| `CallbackTransaction` | `client/transaction.ts` and `transaction()` of `client/client.ts`, microtask by microtask | `Callback.cfg` |
| `Client` | the rest of `client/client.ts`: the shared connection, `close()`, the lookups of `client/schema.ts` | `Client.cfg` |
| `Framing` | `readFrame`, `recvExact`, `takeBuffered` of `protocol/connection.ts` over chunks | `MCCodec` with the cfgs below |
| `Replies` | decoding the rows of a FETCH reply, `protocol/protocol.ts` and `protocol/packet-reader.ts` | `MCCodec` |
| `SqlText` | `interpolateParams`, `formatValue` and `escapeString` of `protocol/protocol.ts` | `MCCodec` |
| `MCCodec` | replies, damage and texts for the three modules above | |
| `CASConnection_proofs` | type correctness; the session check and the alignment of the reply stream; a request's own session, dead sockets, session parameters; one run per answer, no silent drop, the refinement of `RequestQueue` | TLAPS |
| `Adapter_proofs` | type correctness, what waited behind an unknown outcome, all or nothing, outcomes told, durability, no stray work | TLAPS |
| `AdapterSessions_proofs` | generated ids, one session, escaped text, what becomes durable when | TLAPS |
| `Framing_proofs` | the frames that are read are the replies | TLAPS |
| `Codec_proofs` | any reply is decoded as what it means; any statement reaches the server with its values | TLAPS |
| `Streams_proofs` | rows in order, failures seen, refusals, nothing left running or open | TLAPS |
| `Client_proofs` | one connection, and none after `close()` | TLAPS |
| `CallbackTransaction_proofs` | type correctness, the order of END_TRAN, the outcome told, unhandled rejections, which failures forbid the commit | TLAPS |

### CASConnection

The variables `socket` (0 for null), `connected`, `socketDead`, `inHandshake`,
`generation`, `outOfTransaction`, `casVerified`, `settingUp`,
`sessionParameters`, `failedExchanges` and `outOfTransactionReplies` are the
fields of the class. `queue` is the promise chain of `enqueue()`; its head is the
operation that runs. `pc` names the await that operation has reached, and
`attempt`, `index` and `startGeneration` are the local variables that live across
awaits. An action is what happens from one await to the next, so nothing
interleaves with it, exactly as in the event loop; events of sockets are
delivered only while the operation waits (`Waits`).

`cas` holds the far end of every socket ever opened: whether the peer is up, has
left for another client or crashed; the generation of the session on it; whether
it is in a transaction; the settings it holds; the requests and replies under
way. `Serve`, `Leave` and `Crash` are the environment. A socket the client gave up
keeps existing, and a request already written to it may still run. `sentOn` and
`served` are history: the sockets a call's request was written to, and how often
a CAS ran it.

Abstractions: a frame is one element of a sequence, and an impossible length is a
reply of form `unreadable`; a chunk boundary inside a frame, TLS records and the
bytes of CAS_INFO are not in the model; time is not measured, so a timeout may
strike whenever one is armed; `ping()` is two `sendAndRecv()` calls and is not an
operation of its own. `Serve` only answers requests of the current socket, and
callers' requests of retired ones: nothing the client does depends on the others.

### RequestQueue

Requests settle one after another in the order of their calls. Being told
"answered" means the request ran exactly once; "failed" leaves it open, and it may
even run later; anything else means it never ran and never will.

### Session

The adapter awaits every operation of its connection and shares the connection
with nobody, so each operation can be one step. `Session` gives, for every
operation, the set of its outcomes. An outcome is the session afterwards, what the
caller is told, which statements it made durable, whether the request ran, and
whether the client was left not knowing (`unknown`, which is when
`failedExchanges` grows). A reply is `ok`, `more` (a SELECT with rows left to
fetch), `error`, `abort` (error -72), `malformed` (damaged) or `undecodable`; no
reply is `lost`, and `absent` is the null of the session-bound operations.

The far end is in the same record: `up`, `open` (a transaction), `work` (the
statements whose changes that transaction holds), `lastId` and its `author`. What
the model assumes of a CAS:

* it leaves for another client only while it is out of a transaction and not
  held by `CHECK_CAS`; that the client never sends a request to a CAS free to
  leave is what `HeldWhileUnanswered` proves of `CASConnection`;
* an ordinary error undoes its statement only, or the whole transaction of an
  autocommitted one; a refused COMMIT leaves the transaction open; a ROLLBACK is
  never refused; error -72 empties the transaction and still says IN_TRAN;
* a session that goes takes its uncommitted work with it;
* a request without a reply ran at once or never. In the code a request already
  written may still run later on the abandoned socket; that CAS is not used
  again, so only the moment differs;
* `EndsUnasked` adds a CAS that answers inside a transaction that none is open.
  The source says CUBRID 10.2 to 11.4 never do, and defends against it
  (`transactionEnded`); the runs about transactions include it;
* replies to END_TRAN and releases are not damaged (see the hazard at
  `protocol.ts:730`).

`Session` is not shown to be implemented by `CASConnection`: that is part of the
plan. Its operations are translated from the same lines.

### Adapter

`cas`, `autoCommit`, `transactionGeneration`, `transactionEndReplies`,
`transactionAbort`, `backslashModeGeneration`, `insertIdBaseline` and
`insertIdGeneration` are the fields of the class; `queue` is the chain of
`inTurn()`. `pc` is the await that the running call has reached, and `generation`,
`handle` and `failure` are the locals that live across awaits: the session the
statement ran on, the session of its query handle, and the error that will be
thrown once handle and transaction are cleaned up. A statement goes through
`baseline` (read the last id first), `start` (checks and `ensureSession`), `mode` and
`releaseProbe` (measure the backslash mode), `send`, `execute` (prepared), `fetch` or
`lastId`, `commit` (deferred), `release` and `undo`. Between any two of these the CAS may
go (`CasGoes`) and calls may be made (`Call`).

What a statement's text does is reduced to three classes: `select` reads and may
need more FETCHes, `insert` writes and may generate an id, `update` writes, and like
a multi-statement text may generate an id that nobody reads. `binds` makes it a
prepared statement, `escapes` gives it parameters that need the backslash mode.

History variables: `told` (what each call was told, within which transaction and on
which session it ran, and on which one it was escaped), `transactions` (the outcome
told of each), `durable` (the committed statements), `doomed` (the calls that were
waiting when an outcome became unknown).

Not in this module: `stream()` and everything that holds a turn, the refusal of
waiting statements, LOBs, the values of session parameters (in `CASConnection`),
and a `connect()` called while other calls wait: it is the one operation outside of
`inTurn()`, and is only taken with an empty queue.

### Streams

`queue`, `waiting`, `heldBy` and `timer` are `statementQueue`, `waitingStatements`,
`heldBy` and `refusalTimer` of the adapter. `cursor[i]` holds the fields of the
`StreamCursor` of call i; the two callbacks are the BOOLEANs `resumeProducer` and
`resumeConsumer`, true while someone waits. `producer` is the statement at the head
of the queue (`streamWindows` and its locals), `reader[i]` the generator of
`streamRows` with the rows it holds, and where its consumer stands: waiting in
`take()`, somewhere in the caller's code after a row (`reading`), waiting in `close()`, or
at the end.

An action is what runs from one await to the next. A continuation that is ready
goes before a reply or a timer, as microtasks do (`Ready`); the order among ready
continuations is left open, and the caller's code may run at any time. Time is not
measured: `Elapses` makes waiting statements due one after another in the order
they were called, for as long as the consumer gives no sign, and every sign of it
(`activityAt`) and every end of the hold makes none due again. The deadline is
`max(since, activityAt) + consumerTimeout`, and all statements wait behind the same
cursor, so that is the order in which they become due.

`open` is what the server keeps: the stream that left an autocommit session in a
transaction. A SELECT does so until its last row, and a LOB_READ does so again.
`ran`, `decoded` and `total` are history. Rows are numbers; a result of n rows may
arrive in any windows, of which the first may be empty. A reply is one step and
may always be an error. Settling a promise and the reaction to it are one step;
what could come between touches neither.

Not in the module: what the connection below does (`CASConnection`), streams inside
a transaction, which send no END_TRAN, a row without LOBs in a result that has
LOB columns, and several LOBs in a row. A result that cannot be decoded ends the
statement before `streamWindows`, and may leave its transaction open; see the run
`failed_read`.

### CallbackTransaction

What this code gets right or wrong is a matter of single microtasks, so `jobs` is
the microtask queue of the engine: a promise that settles appends its reactions, and
a job runs to its end before the next. `pc`, `failed` and `outcome` are the await,
the local variable and the promise of `transaction()`; `state`, `completion`,
`runningQueries`, `justRejectedQueries`, `rejectedQueries` and `rollbackFailure` are
the fields of the class, `ending` the await of `runCommit()` or `runRollback()`, and
`waits` what `settleRunningQueries()` found. Of a query there are two promises:
`statement` is the connection's, `promise` the one `track()` gives to the callback.
`Settle` is its `catch` and `finally`, `Forget` and `Forgotten` the two microtasks of
`rememberRejection()`. `handled` are the promises somebody listens to, which is what
Node.js looks at before it reports a rejection as unhandled.

The callback is any program: it starts queries, awaits any of them, its own
completion or something else, completes the transaction or not, and returns or
throws. Code it leaves behind may use `tx` at any time after. `known`, `seen`, `late`,
`decider` and `sent` are history.

Two things are looser than the engine: a statement may settle between any two jobs,
and `Promise.allSettled` goes on at any moment after the promises it waits for have
settled. The properties hold for all of these orders. The forwarding methods of
`CubridTransaction` are one kind of statement; the mapping of their errors is left
out.

### Client

`closed` and `shared` are `closed` and `sharedConnectionPromise`, `SchemaOperations` is
computed from the calls as `schemaOperations` is kept. `connections` holds every
connection the factory was asked for: how far it has come, the calls that await its
promise in their order, the operations it was asked, and whether it has a session
`open`. A call is at an await (`shared`, `asked`, `lookups`), has its `answer`, or has
settled; a lookup has up to three statements and asks for the next when it has the
last one's answer. `query` stands for every call of one statement. What the
connection does with a statement is in `Adapter`; here it takes its operations in
order and may fail each of them. A close that fails leaves the session as it was, as
does a connection that fails to be discarded, which is then given up by the code.

### Framing

A byte is a pair: the request it answers and its place in the reply. `wire` holds the
bytes on their way, `receiveBuffer` is the field, `chunks` what `onData` gathered and
`reading` the read that `recvExact` waits for. A chunk is any number of bytes from the
front of `wire`. That no data event comes between the read of the length and the
read of the body is assumed: the second is started by microtasks of the first. The
bytes that could come between requests, when nobody listens, are in the invariant.

### Replies

A reply is a sequence of words, each of which stands for one field: a length, a
count, a type, an OID, an INT, a DATE. `ParseFetch` decodes it as `parseFetch` does, with
the cells that state their own type, nested collections with their bounded readers,
LOB locators, bit strings, the zero date and a type without a decoder. The reference
definition, `Meanings`, has no position and no order: it is the set of ways in which the words
can be split into rows, so that `ReadAsMeant` says there is one, and the code found it.
One type stands for each kind of decoder; a fixed-width value is one word, so widths
are told apart from the declared length as any other size is.

### SqlText

`TakeChar` is one turn of the loop of `interpolateParams`, `Scan` its part that follows quotes
and comments (the second character of a pair is a turn of its own, marked `taken`), `EscapeString`
is `escapeString`. The reference definition `ServerReads` reads a text as CUBRID does, one
character after another, in the mode the server is in. A parameter is a string; a value in
quotes behind a prefix, which is how a Date and a Buffer are written; or plain text, which is what
`String()` makes of a number, a bigint or a boolean, and NULL. `BoundAsWritten` has three
preconditions. `Spaced`: no placeholder touches a quote or another placeholder, where two
literals would become one; SQL needs an operator or a space there. `NoDoubleMinus`: no value
that begins with a minus sign goes right behind one, where the two make the hyphens of a comment,
which the code does not prevent. In literal mode, no backslash in the text (see the
run `scanner`). Not in the model of the server, so nothing is said of them: comments that begin with
`//`, identifiers in brackets or backticks, and literals with a letter in front in the text of the
statement. So the "comment" of `BoundAsWritten` is one behind `--` or between `/*` and `*/`.

`Replies` and `SqlText` compute with recursive functions over the positions of a sequence, or
over the depth of nesting, which the proofs can unfold.

## 3. Runs

`MaxCalls` bounds the operations called in one behaviour, `MaxFaults` the crashes
and unreadable frames. Both only stop new calls and new faults; what is under way
always continues. Deadlock is not checked where a behaviour ends once its calls
are used up.

| Run | Shows | Bounds |
|-----|-------|--------|
| `exchange` | an answer is the caller's own and its request ran once (`AnsweredExactlyOnce`); nothing is under way between requests (`NothingInFlight`); the session check leaves no gap (`HeldForRequest`); a session-bound request stays on its session (`OnOwnSession`); the death of a replaced socket does not condemn its successor (`OnlyDeadIfGone`); a session with a transaction is never dropped silently (`NeverDroppedSilently`); the connection implements `RequestQueue` (`KeepsPromise`); a usable session holds the parameters in force (`SessionHoldsParameters`) | two workloads, one per behaviour: 4 calls that request, drop and replace, 2 faults, read timeout on, no parameters; or 3 calls that set parameters, settle the session and request, 1 fault, no read timeout, lists of 1 and 2 parameters |
| `settles` | every operation settles (`EveryCallSettles`), over TLS, with one connection retry: with a read timeout on no assumption about the CAS, without one if it serves what it received | 2 calls, 1 fault, both values of the read timeout |
| `counts_failures` | violation: see the finding below | 2 calls, 1 fault |
| `transactions` | once a change of a transaction is durable, every acknowledged one is (`AllOrNothing`); what the caller is told of a transaction is so (`OutcomeIsTrue`); all its statements ran on one session (`OneSession`); an acknowledged change outside of a transaction is durable (`AutocommitIsDurable`); a change becomes durable only by its own statement or by the `commit()` of its open transaction (`CommittedAsAsked`); nothing that waited behind an unknown outcome runs (`NotBehindUnknown`) | two workloads, one per behaviour: 5 calls of update, begin, commit, rollback and ping, at most 2 in the queue, 1 fault; or 3 calls of every kind of statement, ping, close and options, all waiting at once, 2 faults. `EndsUnasked` |
| `mixed` | text runs on the session it was escaped for (`EscapedForItsSession`); a reported id was generated by that statement (`TrueInsertId`) | 3 calls of inserts and updates of every kind, begin, commit, rollback, close, connect; 2 in the queue, 2 ids, 2 faults |
| `streams` | rows come once, in order and completely, and none is fetched before the last window is consumed (`RowsInOrder`); who was refused sends nothing (`RefusedNeverRuns`), and is only refused behind a consumer that is in its own code (`RefusedBehindIdleConsumer`); a stream that ended is over on the connection (`EndedMeansReleased`), left no transaction (`NothingLeftOpen`) and its failure was told (`FailureIsSeen`) | 4 calls, 2 of them streams, 3 rows, with and without LOBs |
| `callback` | no END_TRAN while a statement is unanswered (`EndsAfterStatements`); no commit over a failure the callback had no chance to see (`NoUnseenFailureCommitted`), and none held back by one it saw (`SeenFailuresForgiven`); one failure is reported, and no rejection is left that nobody listens to (`OneFailureReported`); the caller is told what became of the work (`OutcomeIsTrue`); `transaction()` settles (`Settles`) | 3 statements |
| `client` | when `close()` resolves nothing is open and nothing follows (`ClosedStaysClosed`); one connection at a time (`OneConnection`); every call settles (`EveryCallSettles`) | 4 calls, each a statement, a lookup of three statements or a close |
| `codec` | frames survive every cut into chunks and every failure before them (`FramesIntact`); replies are read as what they mean or refused (`RepliesReadAsMeant`); a statement with its parameters is read by the server as it was written (`BoundAsWritten`) | 3 requests of replies of -1 to 3 bytes, of which 2 are allowed; replies of two columns or two rows with up to 2 damaged or missing words; texts of up to 5 of 9 characters with 10 values in both modes |
| `scanner` | violation: see the second finding | texts of up to 4 characters |
| `failed_read` | violation: see the third finding | 1 stream, 2 calls, 2 rows |
| `streams_settle` | statements and closes settle whatever consumers do (`EveryCallSettles`); a consumer that asked or stopped goes on (`EveryReadSettles`) | 3 calls, 2 of them streams, 2 rows, with and without LOBs |

Four calls are enough for a session to be opened, used, replaced and used again
with an operation of each kind in between; two faults let the replacement fail
too. Longer behaviours repeat these situations, because every operation starts
from the same idle state, and the theorems below hold for any number of calls.

For the streams, `MaxCalls` bounds streams, statements and closes together,
`MaxStreams` the streams among them and `MaxRows` the rows of a result. So a stream
can hold its turn while another stream and statements wait, and a close can cancel
two streams at once; three rows give a first, a middle and a last window, and a window of two rows.

For the adapter, whose bounds are fields of a `Workload`: `maxCalls` bounds all calls,
`maxWaiting` those in the queue and `maxFaults` everything that goes wrong except a CAS that leaves, ordinary errors
and values that cannot be decoded, which are free. Five calls let a transaction
begin, have two statements with a ping or a lost session between them, and end;
one fault then is enough, because a lost or aborted transaction stays so until it
is ended. Three statements and two faults let a session be lost, replaced, and
lost again while the statements called before it still wait. Two ids let two
tables generate the same value. In `mixed`, `EndsUnasked` is off: with it, the
release of the probe's own handle could say OUT_TRAN, the CAS leave, and the
statement run elsewhere than it was escaped for. Inside a transaction that would be
another session than the transaction's, because nothing compares the two between
`ensureBackslashMode` and the send (`native.ts:893-935`), so the workload of `transactions` that
begins transactions has no text to escape: `OneSession` and `EscapedForItsSession` presuppose
a server that does not end a transaction because its probe's handle is released, which the code
takes for granted and no comment states. `ProbesEndNothing` of `Adapter` says so, and the
instances assume it (`ProbesAssumption`). `NotBehindUnknown` speaks of one
connection object, as the code does: after `close()` a waiting statement runs on
the new one.

For the callback, three statements let one be awaited, one fail late and one start
after the callback has ended; a fourth would be in one of these situations. For the
client, four calls put a lookup, a statement and two closes, or a close and a call
that comes after it, on a connection that fails and one that replaces it. In the
codec, a behaviour takes one of the three subjects. The lengths of the frames are
one below, at and above each limit of `readFrame`; three requests let a frame be
read behind a failed one and in front of another. Two damaged words are enough for a
wrong length that another wrong length makes up for. Five characters hold a
string with an escape or a doubled quote and a placeholder behind it, or a comment
opened, closed and followed by one.

Fairness. `EveryCallSettles` of `CASConnection` assumes weak fairness of the client's own steps: the
event loop runs a continuation that is ready, a dial succeeds or fails, a timer
fires. With a read timeout that is all. Without one it also assumes that a CAS
serves the request it received: the documentation says that such a query waits
for as long as the server stays silent. No fairness is assumed of callers, of a
CAS leaving or crashing, or of socket events.

For the streams: `EveryCallSettles` and `EveryReadSettles` assume that continuations
run, that time passes and the timer fires, and that the server answers (or the read
timeout ends the wait, see above). Of consumers nothing is assumed: one may stop
after any row for ever, also because it awaits the very statement that waits
behind its stream. `consumerTimeout` is always finite (`normalize-config.ts:82-93`).

For the callback, `Settles` assumes that the engine runs the jobs it has and that the
connection answers, which `settles` shows; nothing is assumed of the callback. For the
client, `EveryCallSettles` assumes the same of its jobs and connections, and nothing of
its callers.

Findings. `failedExchanges` is documented as the number of requests whose outcome
is unknown (`connection.ts:600-603`). `exchangeUnlocked` also counts a request that
`send()` refused to write because the session's socket was already known to be
dead, and whose outcome is therefore known: it never ran. The effect is visible:
the adapter refuses every statement that was waiting at that moment
(`native.ts:885`).

`escapeString` says of the literal mode, the default of CUBRID, that the backslash is
an ordinary character (`protocol.ts:1240-1241`), and so does the section of
`src/README.md` on string literals (lines 226-231). The scanner of
`interpolateParams` takes it for an escape in both modes (`protocol.ts:1095` and `1116`),
so in a statement whose own string ends in a backslash it misses the end of that string, and with it the
placeholders behind. The run `scanner` shows the shortest such text, and `codec` leaves
texts with a backslash out in literal mode.

`docs/API_REFERENCE.md:295` says that a failed read of a stream ends the transaction
its SELECT opened, because closing the handle alone leaves the table lock held. The END_TRAN
is sent by the `finally` block of `streamWindows` (`native.ts:750-753`), which is not
reached if the first reply holds a value without a decoder: `parsePrepareAndExecute`
throws before (`native.ts:929`), and only the handle is released. If the result has more
rows, the session stays in the transaction until its next statement. The run `failed_read` shows it;
`NothingLeftOpen` speaks of the streams whose first reply was decoded.

## 4. Proofs

`TypeCorrect` (`CASConnection_proofs`): every variable keeps its type. Types are
not inductive by themselves. That a step may take the head of the queue, or read
the peer of the current socket, needs `Control`: an operation is running unless
`pc` is idle, a connection that counts as connected has a socket, and each await
of the handshake has the socket it waits on.

`HeldWhileUnanswered` and `ReplyStreamAligned` (`CASConnection_proofs`): the invariants
`HeldForRequest` and `NothingInFlight`. The argument is that what the client believes
about the CAS is true. `Held` joins, besides `NothingInFlight`:

* `Peers`: at most one message is under way on any socket, a CAS in transaction has
  not left, and a reply carries the CAS's present status;
* `Fresh`: a socket still in its handshake is untouched;
* `Probing`: while a `CHECK_CAS` is under way nothing else is;
* `BeliefTrue`: between requests, a session that did not say OUT_TRAN last, or was
  probed since, is in transaction;
* `Verified`: a request only starts with such a belief, and no session is used
  while its settings are being sent;
* `Requesting`: from then on the CAS is in transaction until it replies.

`WrittenToOwnSession`, `DeadOnlyIfGone` and `ParametersHeld` (`CASConnection_proofs`): the
invariants `OnOwnSession`, `OnlyDeadIfGone` and `SessionHoldsParameters`. `Sound` says that the
socket in use is that of the session (`Own`), that one which counts as dead has lost its
peer, and that none but the handshake's outlives the session (`Retired`), and that each
await is reached by the operations that may wait there (`Awaited`). `Configured` follows the
settings: in force unless they are being sent or changed (`InForce`), sent up to `index`
while they are (`SetSoFar`), with the reply under way that of the parameter it counts for
(`AwaitsSetting`), and no other request that sets anything (`NothingElseSet`).

`AnsweredOnce`, `DroppedKnowingly` and `PromiseKept` (`CASConnection_proofs`): the invariant
`AnsweredExactlyOnce`, the action property `NeverDroppedSilently` and the refinement
`KeepsPromise`. `Promised` says that who waits is in the queue, in the order of the calls
(`InOrder`), that a request was written to one socket at most and ran once at most (`Sent`),
that an exchange is about its own request (`Exchanged`), and that a request a CAS has yet
to run is the exchange's, or its caller was told that it failed (`Pending`). The lemma
`StepKinds` reduces the actions to six kinds: a call arrives, is sent, is answered,
ends without an answer, is run by a CAS, or nothing happens that a caller can see. Each kind
is a step or a stutter of `RequestQueue`.

The assumptions are those named in `CASConnection`: which operations and functions
exist, that a list of parameters names no parameter twice, and that bounds are
numbers. Nothing bounds the number of calls, faults or sessions.

`TypeCorrect` and `DoomedNeverRun` (`Adapter_proofs`): the invariants `TypeOK` and
`NotBehindUnknown`, for any workload. The first half of the module describes the operations of
`Session`: what a CAS may do with a request and how much of it the client hears (`Served`,
`Exchanged`), and how a session is opened, replaced or dropped (`Opens`, `Sent`, `Dropped`).
That is where an outcome that is not known and the count `failedExchanges` meet: the one comes with the
growth of the other. `Typed` adds to the types that a call which runs is in the queue, the queue being the calls not
settled in their order (`InOrder`), and that only an open transaction of a CAS that is
there holds work, one the client knows of (`Sane`). `Behind` is what makes the comparison in
`runStatement` sound: what a waiting call noted is not above the count of its connection and, if
it is doomed, below it (`Noted`); so one that passed the comparison is not doomed on the
connection it will run on (`Fit`), and stays so, because those who are doomed later wait
behind it. Every action is a `Stepping`, except `Call`, `Close` and `CasGoes`.

`AllOrNothingHolds`, `OutcomesAreTrue`, `AcknowledgedIsDurable` and `NothingStrays` (`Adapter_proofs`):
the invariants `AllOrNothing`, `OutcomeIsTrue` and `AutocommitIsDurable`, and `NoStrayWork`, that a session is
left without uncommitted work between autocommit calls. Each relates
what callers were told to what the server holds, over sessions that went meanwhile, and none is inductive:
what makes a COMMIT safe is that the adapter's record of its transaction is true. `Sound` joins

* `Listed`: what the history says of calls that were not sent: no work, nothing durable;
* `Known`: `bound` and `endReplies`, the session and the count of endings the transaction noted, are
  not ahead of the session's; exactly the last transaction of the history is open, and only outside of
  autocommit; a statement under way in a transaction is on the bound session;
* `Uncommitted`: whose changes the session holds. In autocommit mode it is at most the running
  statement's; in a transaction only that transaction's, and only on the bound session;
* `InSession`: every change of the open transaction that was acknowledged, or is on its way to be,
  is in the session's work as long as nothing contradicts the record (`Healthy`: same session, no ending
  replied since, no rollback reported), which is what `commitNow` compares;
* `OnItsOwn`: outside of a transaction such a change is durable, or its COMMIT is to come on a session
  that still holds it;
* `Outcomes`: ended transactions keep what they were said to be.

The proof splits the steps by what they do to a session. Operations that commit nothing leave the
session, what remains of it, or another in its place (`Spares`), with all its work if it is still
in the same transaction (`Intact`). A statement's step goes from one await to the next (`Sends`),
adds its own change at most (`Alters`), binds its transaction at most once (`Binds`) and, with a result,
has its change there (`Does`). A COMMIT or ROLLBACK ends the transaction in one of three ways (`Over`).

`CommittedOnlyAsAsked` (`AdapterSessions_proofs`): the action property `CommittedAsAsked`, from the
invariant `Sound`. `NoStrayWork` speaks of the state between two calls; this of every step, also
in the middle of a statement and inside a transaction: nothing is committed by a call that did not ask for it,
so what a caller was told failed is not committed by a later one. Each step makes nothing durable, only the running
statement's own changes (`OwnChange`), or what the session holds in the caller's `commit()` (`ByCommit`);
`Uncommitted` says whose changes those are. A request given up counts as run when it is given up:
the model does not let a CAS answer one later on a socket nobody reads.

`InsertIdsAreTrue` (`AdapterSessions_proofs`): the invariant `TrueInsertId`. `Heard` says that the value the
adapter remembers is the session's last one, or none of which it is sure, unless the statement
that runs may have generated another (`Generating`). Operations of the connection keep the value or bring a
session without one (`Remembers`); every way for a statement to fail forgets the value before
the next may start (`FailsHeard`), which is where a missing `forgetInsertId` would break the proof.

`OneSessionHolds` and `EscapedWhereMeasured` (`AdapterSessions_proofs`): the invariants `OneSession` and
`EscapedForItsSession`, under the hypothesis `ProbesEndNothing`: if the server ends transactions
unasked, no workload has both transactions and text to escape. Without it they are false,
for the reason given in section 3; it says nothing of any other request, and holds of every
workload if the server ends none unasked. `Located` joins

* `Ready`: from `ensureSession()` to the send the session is the one verified, and measured if the text
  is escaped: no request in between replaces it;
* `StillIn`: the session of a transaction that was not ended is inside it, so that a later verification finds
  no reason to replace it; this is what a server that ends a transaction at the probe would break;
* `Placed`: what ran in the open transaction ran on the bound session, or is its first statement, whose
  answer was lost and whose session is still to be bound (`Unbound`, `bindSessionLostByFirstStatement`);
* `Untouched`, `Called`, `ToBind`: statements not sent ran nowhere, only what the workload has is called,
  and a prepared statement with markers holds no escaped text.

`FramesRead` (`Framing_proofs`): the invariant `FramesIntact`. It is not inductive, for it says
nothing of a reply that was half read when its socket closed, though the buffer may hold
all that `recvExact` asked for. `IInv` follows each byte: behind those that were read, the k-th
in buffer, chunks and socket is the k-th of the reply awaited, as many as are missing while
the socket lives and no more once it is gone (`InPlace`); a read that has enough gathered no
chunks (`Sized`), one reply at most is outstanding (`Outstanding`), and what was read stays
whole (`Whole`). It holds for any sizes and any announced lengths, impossible ones included.

`ReadAsItIsMeant` and `ParametersBound` (`Codec_proofs`) say of the codec, for every input, what
the run `codec` checks on small ones; `RepliesRead` and `StatementsBound` draw from them the
invariants `RepliesReadAsMeant` and `BoundAsWritten` of any instance of `MCCodec`, where a reply may be
damaged any number of times and a statement have any length. They are inductions over data. The
library's induction theorems take the claim as an operator, which the provers cannot instantiate, so
the claim is a set here: the positions (or the depths) up to which it holds has 0 and, with a number, the
next (`UpTo`, from the well-foundedness of the numbers), and a recursive function is first shown to be
one (`ReadAllDef`, `SplitsDef`, `ReadingDef` and their like).

* Replies. `Decodes` relates a decoder's answer to what the words mean: malformed, they mean
  nothing, wherever they are taken to end; else they mean one value, and only up to where the decoder
  stopped: the value that was read or, if unsupported, one that holds such a value. The lengths in
  front decide alone where a piece ends. `SplitAsRead` shows that a loop whose turns decode does
  so itself, which serves elements, columns and rows alike. `NestedIsRight` is the induction over
  nesting; a collection at depth n has at most n words, so that the depth of a reply is never reached.
* Texts. `Agrees` relates the place of the scanner to the state of the server's lexer one
  character ahead, and every character keeps them in agreement (`AgreesStep`): so both take the same
  question marks for placeholders. `Follows` relates what the server has read of the text that is sent to
  what it would have read of the statement: the same tokens with the values in place, and the same state.
  A character that is copied keeps it (`ReadCharFollows`), and so does a placeholder, because the
  server reads what `formatValue` writes as the tokens of the value, whatever stands in front
  (`ReadsValue`). `Matches` joins the two; behind a value in quotes the one text is at the end of a
  literal and the other in SQL, until the next character, which `Spaced` keeps from being a quote.
  `ProperValue` is what it needs of a value: plain text and prefixes that begin no string and no
  comment of their own, and no quote or backslash in what is quoted without escapes.

The seven theorems of `Streams_proofs` state every invariant of the run `streams` and its action
property, for any kinds, numbers of calls and rows. None is inductive. `IInv` joins

* `Apart`: a call waits, or ran, or was refused, never two of these, which is all that
  `NoRefusedRuns` needs: a refused statement keeps its place in the queue;
* `AllSound`: of every call, its cursor, reader and status agree. The rows delivered, taken
  and waiting are those of the result in order (`InOrder`), the flags go with how far the
  reader is (`Flagged`), and what its consumer was told with how the call settled (`Reported`);
* `Turn` and `InStage`: the statement that runs was not told anything, and `Stage` says how
  far its producer may be, given the rows that were delivered and are on their way;
* `Opened`: who left the session in a transaction has its END_TRAN to come.

A step of a consumer or of the producer concerns the records of one call, so what it
preserves is proved of records (`Sound`, `Stage`) and lifted once to the state.

`ConnectionShared` and `ClosedForGood` (`Client_proofs`): the invariants `OneConnection` and
`ClosedStaysClosed`, for any number of calls and lookups. The lists of a connection are taken
as sets with an order: a call is in the one its stage names (`Listed`, `ListedOnce`, `Found`),
a `close()` stands behind all that was called before it (`ClosesLast`), and it only joins when
the lookups, which come back to the list for their next statement, are over (`LookupsFirst`).
Until a `close()` has succeeded, every connection but the shared one has failed (`OneShared`);
from then on nothing is open and nothing but other `close()` calls waits (`NothingLeft`).

`EndsLast`, `OutcomeTrue`, `OneFailure`, `FailuresSeen` and `SeenForgiven`
(`CallbackTransaction_proofs`): the invariants `EndsAfterStatements`, `OutcomeIsTrue`,
`OneFailureReported` and `NoUnseenFailureCommitted` and the action property
`SeenFailuresForgiven`, for any number of statements, with `TypeCorrect` beside them. None is inductive: each depends on what
is still in the microtask queue. `IInv` joins

* `Stages`: state, completion, the await of the ending and the END_TRANs asked for
  go together;
* `JobsHold`: a job about a query is about one there is, and comes after what it reacts
  to;
* `CallbackJobs`: the callback is resumed by one job at most, and only while it waits
  for it;
* `Unstarted`: before tx exists nothing has happened;
* `Promised`: a settled promise has its statement's result; a pending one is in
  `runningQueries` and, once a completion has begun, in `waits`; a rejected one is in
  `rejectedQueries`; none is pending once an END_TRAN was asked for;
* `Progress`, `Deciders`: how far `transaction()` is and who completed the transaction;
* `Attended`, `Quieted`: whose rejections have a listener, before and after `abort()`;
* `Forgiving`: the order of the jobs. A rejection's `forget` is queued right before the
  reactions of its promise, so it has been replaced by a `forgotten` behind them when they run
  (`Orderly`). Whatever was rejected and not told is therefore remembered, and what is
  remembered has one of the two jobs (`Remembered`); of what the callback was thrown only
  `forgotten` is left (`Told`). The end of the callback queues `transaction()` behind that job,
  and before the `forgotten` of every query it was not told of (`AtTheEnd`); so `finish()` takes
  exactly the latter into what it waits for (`Waited`).

That no statement starts after an END_TRAN follows from `Stages`: there is a
completion by then. That none is unanswered at one follows from `Promised`: every pending
promise was waited for.

The assumptions are those the modules name: of the constants, what `WorkloadsAssumption`,
`KindsAssumption` and their like say, and `ProbesEndNothing` for two theorems of the adapter. None bounds
calls, faults, sessions, rows, chunks, ids, words or characters.

Only model-checked: liveness (`EveryCallSettles`, `EveryReadSettles`, `Settles`), which needs
fairness. Every safety property that a passing run checks has its theorem.

## 5. Not modelled

* `stream()` of the client, which passes on the rows of `Streams`; `create-client.ts` and
  `index.ts`, which construct and export.
* The other replies (prepare, execute, LOB_READ, version, last insert id), all
  requests, prepared parameters and zoned date-times in `protocol.ts`, `packet-reader.ts` and `packet-writer.ts`: pure conversions.
  `Session` has their verdicts (`ok`, `malformed`, `undecodable`).
* The catalog SQL and the rows of `schema.ts`; LOB reading of `query()`.
* Classification and wording of errors, validation of the configuration, logging
  and types: they keep no state that a statement depends on.
* Two hazards have no property: a negative number right behind a minus sign
  (`protocol.ts:1210`), which `BoundAsWritten` leaves out, and replies to END_TRAN that are cut
  short (`protocol.ts:730`).

## 6. Plan

1. That `CASConnection` implements `Session`, with an abstract specification of what a
   transaction promises above it, of which the properties of `transactions` are the parts.
2. Streams inside a transaction, and their LOBs several in a row.
3. The replies to execute.

Theorems wanted next: that `CASConnection` implements `Session`, with the abstract specification of
item 1.
