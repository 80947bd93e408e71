------------------------------- MODULE Adapter -------------------------------
(***************************************************************************)
(* NativeCubridAdapter (src/src/adapters/native.ts): statements one after  *)
(* another on a connection whose session may be replaced at any time, and  *)
(* transactions that must notice when it was.                              *)
(*                                                                         *)
(* Calls queue up in the order they are made (inTurn), and the one at the  *)
(* head runs.  An action is one awaited operation of the connection with   *)
(* what the code does up to the next; between two of them calls may be     *)
(* made and the CAS may go.                                                *)
(*                                                                         *)
(* Streams, LOBs and refusals of a waiting statement are not in this       *)
(* module.  Definitions named Wrong... are deliberate bugs, used only to   *)
(* show that a property notices them.                                      *)
(***************************************************************************)
EXTENDS Integers, Sequences, FiniteSets

CONSTANTS
  Workloads,    \* what the callers of a behaviour may do: see Workload
  Ids,          \* AUTO_INCREMENT values
  EndsUnasked   \* BOOLEAN: see Session

Statements == {"query", "execute"}
CallNames ==
  Statements \cup {"beginTransaction", "commit", "rollback", "ping", "close", "connect",
                  "setTransactionOptions"}
Sql == {"select", "insert", "update"}

\* The calls that are made, and the bounds of a behaviour: how many, how many of
\* them at a time, and how many crashes, lost and damaged replies, aborts and
\* failed connects.  Only a statement has an sql, and "select" is that of the others.
Workload ==
  [calls : SUBSET {c \in [call : CallNames, sql : Sql, binds : BOOLEAN, escapes : BOOLEAN] :
                    c.call \in Statements \/ c.sql = "select"},
   maxCalls : Nat, maxWaiting : Nat, maxFaults : Nat]

ASSUME WorkloadsAssumption == Workloads \subseteq Workload
ASSUME IdsAssumption == Ids \subseteq Nat \ {0}
ASSUME EndsUnaskedAssumption == EndsUnasked \in BOOLEAN

VARIABLES
  workload,                 \* one of Workloads, chosen at the start
  cas,                      \* the CASConnection in use, 0 for null, and
  created,                  \* how many were created
  session,                  \* what it knows and what is at its far end
  autoCommit,
  transactionGeneration,    \* 0 for null
  transactionEndReplies,    \* -1 for null
  transactionAbort,         \* BOOLEAN: a reply said the server rolled back
  backslashModeGeneration,  \* 0 for null; the mode itself is not modelled
  insertIdBaseline,         \* a value, None or Unseen
  insertIdGeneration,       \* 0 for null
  queue,                    \* the calls not settled, the running one first
  pc,                       \* the await the running call has reached
  generation,               \* runStatement: the session the statement ran on
  handle,                   \* withQueryHandle: the session of its handle, 0 for none
  failure,                  \* the error on its way to the caller, or "none"
  faults,
  told,                     \* history: what each call was told, and where it ran
  transactions,             \* history: what was told of each transaction
  durable,                  \* history: the statements whose changes are committed
  doomed                    \* history: those waiting when an outcome became unknown

connection == <<cas, created, session, faults>>
transaction == <<autoCommit, transactionGeneration, transactionEndReplies, transactionAbort>>
baseline == <<insertIdBaseline, insertIdGeneration>>
locals == <<generation, handle, failure>>
vars == <<workload, connection, transaction, backslashModeGeneration, baseline, queue, pc, locals, told,
          transactions, durable, doomed>>

S == INSTANCE Session

None == 0       \* undefined
Unseen == -1    \* null: a statement may have changed it unseen

\* Replies that carry a query handle.
Handles == {"ok", "more", "undecodable", "malformed"}

Running == Head(queue)
id == Running.id

-----------------------------------------------------------------------------
(* The state of a transaction, as predicates of a session.                 *)

\* One that forgets that the server may have rolled back.
WrongSessionLost(s, bound) ==
  ~autoCommit /\ (~s.connected \/ (bound # 0 /\ s.generation # bound))

\* isTransactionSessionLost() with transactionGeneration = bound.
SessionLost(s, bound) ==
  ~autoCommit /\ (transactionAbort \/ ~s.connected \/ (bound # 0 /\ s.generation # bound))

\* A transaction whose session still answers has not ended.
WrongEnded(s, replies) == ~autoCommit /\ replies # -1 /\ ~s.connected

\* transactionEnded() with transactionEndReplies = replies.
Ended(s, replies) == ~autoCommit /\ replies # -1 /\ s.outOfTransactionReplies # replies
TransactionEnded(s) == Ended(s, transactionEndReplies)

\* dropSessionIfTransactionEnded()
DropIfEnded(s) == IF s.connected /\ TransactionEnded(s) THEN S!DiscardSession(s) ELSE s

\* deferCommit, and the request's mode that follows from it.
Deferred == autoCommit /\ (Running.call = "execute" \/ Running.binds)

\* Every statement that is not deferred is autocommitted, also in a transaction.
WrongMode == IF Deferred THEN "deferred" ELSE "autocommit"

Mode == IF ~autoCommit THEN "transaction" ELSE IF Deferred THEN "deferred" ELSE "autocommit"

Transaction == IF autoCommit THEN 0 ELSE Len(transactions)

\* The statement as the CAS sees it.
Statement(fn) ==
  [S!Request(fn, Mode) EXCEPT !.id = id, !.writes = Running.sql # "select"]

-----------------------------------------------------------------------------
(* Making and settling calls.                                              *)

\* Outcome o of an awaited operation.  Who waits behind an unknown outcome is doomed.
Takes(o) ==
  /\ faults + o.cost <= workload.maxFaults
  /\ faults' = faults + o.cost
  /\ durable' = durable \cup o.durable
  /\ doomed' = IF o.unknown
                 THEN doomed \cup {queue[i].id : i \in 2..Len(queue)} ELSE doomed

NothingAwaited == UNCHANGED <<faults, durable, doomed>>

Nowhere == <<0, 0>>

\* The turn is not given back.
WrongTell(status) ==
  /\ told' = [told EXCEPT ![id].status = status]
  /\ queue' = Tail(queue)
  /\ UNCHANGED <<pc, locals>>

Tell(status) ==
  /\ told' = [told EXCEPT ![id].status = status]
  /\ queue' = Tail(queue)
  /\ pc' = "idle"
  /\ generation' = 0 /\ handle' = 0 /\ failure' = "none"

\* getOrCreateCAS()
GetOrCreateCAS ==
  IF cas = 0 THEN cas' = created + 1 /\ created' = created + 1
             ELSE UNCHANGED <<cas, created>>

\* A statement notes the connection and its failures when it is called.
Call(c) ==
  /\ Len(told) < workload.maxCalls /\ Len(queue) < workload.maxWaiting
  /\ c.call = "connect" => queue = <<>>
  /\ IF c.call \in Statements THEN GetOrCreateCAS ELSE UNCHANGED <<cas, created>>
  /\ queue' = Append(queue, [call |-> c.call, sql |-> c.sql, binds |-> c.binds,
                             escapes |-> c.escapes, id |-> Len(told) + 1, cas |-> cas',
                             failedExchanges |-> session.failedExchanges])
  /\ told' = Append(told, [status |-> "waiting", writes |-> c.sql # "select",
                            calledOn |-> cas', within |-> 0, ranOn |-> Nowhere, boundOn |-> Nowhere,
                            insertId |-> None, author |-> 0])
  /\ UNCHANGED <<session, faults, transaction, backslashModeGeneration, baseline, pc, locals,
                 transactions, durable, doomed>>

\* The call at the head of the queue gets its turn.
Turn(call) == pc = "idle" /\ queue # <<>> /\ Running.call = call

\* followInsertIdSession() and forgetInsertId() on session s.
Follow(s) == insertIdGeneration' = s.generation
Baseline(s) == IF insertIdGeneration = s.generation THEN insertIdBaseline ELSE None

WrongForgetInsertId(s) == Follow(s) /\ insertIdBaseline' = Baseline(s)
ForgetInsertId(s) == Follow(s) /\ insertIdBaseline' = Unseen

WrongBindLostSession(s) == UNCHANGED transactionGeneration

\* The catch of executeNow() and queryNow(), and the same of the other calls.
BindLostSession(s) ==
  transactionGeneration' =
    IF ~autoCommit /\ transactionGeneration = 0 /\ ~s.connected
      THEN s.generation ELSE transactionGeneration

RecordAbort(error) == transactionAbort' = (transactionAbort \/ (~autoCommit /\ error = "abort"))

\* A statement ends with an error: session s is what it leaves behind.
StatementFails(s, error) ==
  /\ ForgetInsertId(s) /\ BindLostSession(s) /\ RecordAbort(error)
  /\ Tell("failed")
  /\ UNCHANGED <<autoCommit, transactionEndReplies>>

-----------------------------------------------------------------------------
(* executeNow() and queryNow(), up to sending the statement.               *)

\* readInsertIdBaseline(): is there anything to ask?
BeginExecute ==
  /\ Turn("execute")
  /\ GetOrCreateCAS
  /\ Follow(session) /\ insertIdBaseline' = Baseline(session)
  /\ pc' = IF Baseline(session) = Unseen /\ Running.sql = "insert" THEN "baseline" ELSE "start"
  /\ UNCHANGED <<session, faults, transaction, backslashModeGeneration, queue, locals,
                 told, transactions, durable, doomed>>

BaselineRefused ==
  /\ pc = "baseline" /\ SessionLost(session, transactionGeneration)
  /\ NothingAwaited /\ UNCHANGED session
  /\ UNCHANGED <<cas, created>>
  /\ StatementFails(session, "lost")
  /\ UNCHANGED <<backslashModeGeneration, transactions>>

BaselineUnread ==
  /\ pc = "baseline" /\ ~SessionLost(session, transactionGeneration) /\ ~session.connected
  /\ pc' = "start"
  /\ UNCHANGED <<connection, transaction, backslashModeGeneration, baseline, queue, locals,
                 told, transactions, durable, doomed>>

ReadBaseline ==
  /\ pc = "baseline" /\ ~SessionLost(session, transactionGeneration) /\ session.connected
  /\ UNCHANGED <<cas, created>>
  /\ \E o \in S!SendAndRecv(session, S!Request("GET_LAST_INSERT_ID", Mode)) :
       /\ Takes(o)
       /\ IF o.reply = "ok"
            THEN /\ session' = o.session
                 /\ Follow(o.session) /\ insertIdBaseline' = o.session.lastId
                 /\ pc' = "start"
                 /\ UNCHANGED <<transaction, queue, locals, told>>
            ELSE /\ session' = IF o.reply = "malformed" THEN S!DiscardSession(o.session)
                                                        ELSE o.session
                 /\ StatementFails(session', o.reply)
  /\ UNCHANGED <<backslashModeGeneration, transactions>>

\* An ended or lost transaction, or a failure since the call, refuses the statement.
\* Only a session that is gone refuses, not one that replaced it.
WrongStaleCall ==
  cas = Running.cas /\ session.failedExchanges # Running.failedExchanges /\ ~session.connected

StaleCall == cas = Running.cas /\ session.failedExchanges # Running.failedExchanges

AtStart == pc = "start" \/ Turn("query")

StartRefused ==
  /\ AtStart
  /\ session' = DropIfEnded(session)
  /\ SessionLost(session', transactionGeneration) \/ StaleCall
  /\ NothingAwaited /\ GetOrCreateCAS
  /\ StatementFails(session', "lost")
  /\ UNCHANGED <<backslashModeGeneration, transactions>>

\* Opens a session if there is none, but does not check the one there is.
WrongEnsureSession ==
  /\ AtStart
  /\ DropIfEnded(session) = session
  /\ ~SessionLost(session, transactionGeneration) /\ ~StaleCall
  /\ GetOrCreateCAS
  /\ \E o \in S!Connect(session) :
       /\ Takes(o)
       /\ session' = o.session
       /\ IF o.reply = "ok"
            THEN /\ pc' = IF ~Running.binds /\ Running.escapes
                             /\ backslashModeGeneration # o.session.generation
                            THEN "mode" ELSE "send"
                 /\ UNCHANGED <<transaction, baseline, queue, locals, told>>
            ELSE StatementFails(o.session, "lost")
  /\ UNCHANGED <<backslashModeGeneration, transactions>>

\* ensureSession(), then the backslash mode if the parameters need it.
EnsureSession ==
  /\ AtStart
  /\ DropIfEnded(session) = session
  /\ ~SessionLost(session, transactionGeneration) /\ ~StaleCall
  /\ GetOrCreateCAS
  /\ \E o \in S!EnsureSession(session) :
       /\ Takes(o)
       /\ session' = o.session
       /\ IF o.reply = "ok"
            THEN /\ pc' = IF ~Running.binds /\ Running.escapes
                             /\ backslashModeGeneration # o.session.generation
                            THEN "mode" ELSE "send"
                 /\ UNCHANGED <<transaction, baseline, queue, locals, told>>
            ELSE StatementFails(o.session, "lost")
  /\ UNCHANGED <<backslashModeGeneration, transactions>>

\* negotiateBackslashEscapes(): never autocommitted.  Any answer but 1 or 2 is an error.
ProbeMode ==
  /\ pc = "mode"
  /\ UNCHANGED <<cas, created>>
  /\ generation' = session.generation
  /\ \E o \in S!SendAndRecv(session, S!Request("PREPARE_AND_EXECUTE",
                                               IF autoCommit THEN "deferred" ELSE Mode)) :
       /\ Takes(o)
       /\ session' = IF o.reply = "malformed" THEN S!DiscardSession(o.session) ELSE o.session
       /\ handle' = IF o.reply \in Handles THEN o.session.generation ELSE 0
       /\ failure' \in IF o.reply \in {"ok", "more"} THEN {"none", "error"} ELSE {o.reply}
  /\ pc' = "releaseProbe"
  /\ UNCHANGED <<transaction, backslashModeGeneration, baseline, queue, told,
                 transactions>>

\* closeQueryHandle(): whatever becomes of it is ignored.
CloseQueryHandle ==
  /\ UNCHANGED <<cas, created>>
  /\ \E o \in S!ReleaseOnSession(session, handle, S!Request("CLOSE_REQ_HANDLE", Mode)) :
       /\ Takes(o)
       /\ session' = o.session

ReleaseProbe ==
  /\ pc = "releaseProbe"
  /\ CloseQueryHandle
  /\ IF failure = "none"
       THEN /\ backslashModeGeneration' = generation
            /\ handle' = 0 /\ pc' = "send"
            /\ UNCHANGED <<transaction, baseline, queue, generation, failure, told>>
       ELSE /\ StatementFails(session', failure)
            /\ UNCHANGED backslashModeGeneration
  /\ UNCHANGED <<transactions>>

-----------------------------------------------------------------------------
(* runStatement(), from sending the statement on.                          *)

\* withQueryHandle(): a damaged reply drops the session, every error releases.
Throw(s, error) ==
  /\ session' = IF error = "malformed" THEN S!DiscardSession(s) ELSE s
  /\ failure' = IF error = "absent" THEN "lost" ELSE error
  /\ pc' = "release"
  /\ UNCHANGED baseline

\* The work done with the handle is over.
Finish == pc' = IF Deferred THEN "commit" ELSE "release"

\* The use() of executeQuery() and of executeNow(), on an answer with a result.
UseResult(s, reply) ==
  /\ session' = s
  /\ IF Running.sql = "select" \/ (Running.call = "execute" /\ Running.sql = "insert")
       THEN UNCHANGED baseline ELSE ForgetInsertId(s)
  /\ CASE Running.call = "query" /\ reply = "more" -> pc' = "fetch"
       [] Running.call = "execute" /\ Running.sql = "insert" -> pc' = "lastId"
       [] OTHER -> Finish
  /\ UNCHANGED failure

\* Where a statement ran, if outcome o says it did.
Place(o) == IF o.ran THEN <<cas, o.session.generation>> ELSE Nowhere

\* The session the reply came from becomes that of the transaction, if it may.
SendStatement ==
  /\ pc = "send"
  /\ UNCHANGED <<cas, created, autoCommit, transactionAbort>>
  /\ LET first == ~autoCommit /\ transactionGeneration = 0
         fn == IF Running.binds THEN "PREPARE" ELSE "PREPARE_AND_EXECUTE"
     IN  /\ transactionEndReplies' = IF first THEN session.outOfTransactionReplies
                                              ELSE transactionEndReplies
         /\ \E o \in S!SendAndRecv(session, Statement(fn)) :
              /\ Takes(o)
              /\ told' = [told EXCEPT ![id].within = Transaction,
                                      ![id].ranOn = IF Running.binds THEN @ ELSE Place(o),
                                      ![id].boundOn = IF Running.escapes /\ ~Running.binds
                                                        THEN <<cas, backslashModeGeneration>>
                                                        ELSE @]
              /\ handle' = IF o.reply \in Handles THEN o.session.generation ELSE 0
              /\ generation' = IF o.reply = "lost" THEN session.generation
                                                   ELSE o.session.generation
              /\ transactionGeneration' = IF first /\ o.reply # "lost" THEN o.session.generation
                                                               ELSE transactionGeneration
              /\ CASE o.reply = "lost" -> Throw(o.session, "lost")
                   [] o.reply # "lost" /\ (\/ SessionLost(o.session, transactionGeneration')
                                           \/ Ended(o.session, transactionEndReplies'))
                        -> Throw(S!DiscardSession(o.session), "lost")
                   [] OTHER ->
                        IF o.reply \notin {"ok", "more"} THEN Throw(o.session, o.reply)
                        ELSE IF Running.binds
                               THEN /\ session' = o.session /\ pc' = "execute"
                                    /\ UNCHANGED <<baseline, failure>>
                               ELSE UseResult(o.session, o.reply)
  /\ UNCHANGED <<backslashModeGeneration, queue, transactions>>

\* executeHandle(): the number of markers must match before anything is sent.
MarkersMismatch ==
  /\ pc = "execute"
  /\ Throw(session, "error")
  /\ NothingAwaited
  /\ UNCHANGED <<cas, created, transaction, backslashModeGeneration, queue, generation, handle,
                 told, transactions>>

ExecuteHandle ==
  /\ pc = "execute"
  /\ \E o \in S!SendAndRecvOnSession(session, generation, Statement("EXECUTE")) :
       /\ Takes(o)
       /\ told' = [told EXCEPT ![id].ranOn = Place(o)]
       /\ IF o.reply \in {"ok", "more"} THEN UseResult(o.session, o.reply)
                                        ELSE Throw(o.session, o.reply)
  /\ UNCHANGED <<cas, created, transaction, backslashModeGeneration, queue, generation, handle,
                 transactions>>

\* fetchWindow(), again and again until the last row is there.
FetchWindow ==
  /\ pc = "fetch"
  /\ \E o \in S!SendAndRecvOnSession(session, handle, S!Request("FETCH", Mode)) :
       /\ Takes(o)
       /\ CASE o.reply = "ok" -> session' = o.session /\ Finish /\ UNCHANGED <<failure, baseline>>
            [] o.reply = "more" -> session' = o.session /\ UNCHANGED <<pc, failure, baseline>>
            [] OTHER -> Throw(o.session, o.reply)
  /\ UNCHANGED <<cas, created, transaction, backslashModeGeneration, queue, generation, handle,
                 told, transactions>>

\* readExecuteResult(): a value that was not the session's before is this statement's.
ReadInsertId ==
  /\ pc = "lastId"
  /\ \E o \in S!SendAndRecv(session, S!Request("GET_LAST_INSERT_ID", Mode)) :
       /\ Takes(o)
       /\ IF o.reply = "ok"
            THEN /\ session' = o.session
                 /\ Follow(o.session) /\ insertIdBaseline' = o.session.lastId
                 /\ told' = [told EXCEPT
                               ![id].insertId = IF Baseline(o.session) \in {Unseen, o.session.lastId}
                                                  THEN None ELSE o.session.lastId,
                               ![id].author = o.session.author]
                 /\ Finish
                 /\ UNCHANGED failure
            ELSE Throw(o.session, o.reply) /\ UNCHANGED told
  /\ UNCHANGED <<cas, created, transaction, backslashModeGeneration, queue, generation, handle,
                 transactions>>

\* A session that is lost, before or at the COMMIT, has nothing left to commit.
WrongCommitStatement ==
  /\ pc = "commit"
  /\ \E o \in S!SendAndRecvOnSession(session, generation, S!Request("COMMIT", Mode)) :
       /\ Takes(o)
       /\ IF o.reply \in {"ok", "absent", "lost"}
            THEN session' = o.session /\ pc' = "release" /\ UNCHANGED <<failure, baseline>>
            ELSE Throw(o.session, o.reply)
  /\ UNCHANGED <<cas, created, transaction, backslashModeGeneration, queue, generation, handle,
                 told, transactions>>

\* endStatementTransaction(COMMIT)
CommitStatement ==
  /\ pc = "commit"
  /\ \E o \in S!SendAndRecvOnSession(session, generation, S!Request("COMMIT", Mode)) :
       /\ Takes(o)
       /\ IF o.reply = "ok" THEN /\ session' = o.session /\ pc' = "release"
                                 /\ UNCHANGED <<failure, baseline>>
                            ELSE Throw(o.session, o.reply)
  /\ UNCHANGED <<cas, created, transaction, backslashModeGeneration, queue, generation, handle,
                 told, transactions>>

\* The handle is released, and a transaction that ended meanwhile is noticed.
ReleaseHandle ==
  /\ pc = "release"
  /\ UNCHANGED <<cas, created>>
  /\ \E o \in S!ReleaseOnSession(session, handle, S!Request("CLOSE_REQ_HANDLE", Mode)) :
       /\ Takes(o)
       /\ IF failure = "none" /\ ~TransactionEnded(o.session)
            THEN /\ session' = o.session
                 /\ Tell("done")
            ELSE /\ session' = IF failure = "none" THEN S!DiscardSession(o.session) ELSE o.session
                 /\ failure' = IF failure = "none" THEN "lost" ELSE failure
                 /\ pc' = "undo"
                 /\ UNCHANGED <<queue, generation, handle, told>>
  /\ UNCHANGED <<transaction, backslashModeGeneration, baseline, transactions>>

WrongUndoStatement ==
  /\ pc = "undo"
  /\ UNCHANGED <<cas, created, session>>
  /\ NothingAwaited
  /\ StatementFails(session, failure)
  /\ UNCHANGED <<backslashModeGeneration, transactions>>

\* A failed statement of its own transaction is rolled back there, if it can be.
UndoStatement ==
  /\ pc = "undo"
  /\ UNCHANGED <<cas, created>>
  /\ \E o \in IF Deferred THEN S!SendAndRecvOnSession(session, generation, S!Request("ROLLBACK", Mode))
                          ELSE {S!Outcome(session, "absent", {}, FALSE)} :
       /\ Takes(o)
       /\ session' = o.session
       /\ StatementFails(o.session, failure)
  /\ UNCHANGED <<backslashModeGeneration, transactions>>

-----------------------------------------------------------------------------
(* The transaction calls.                                                  *)

EndTransaction ==
  /\ autoCommit' = TRUE /\ transactionGeneration' = 0
  /\ transactionEndReplies' = -1 /\ transactionAbort' = FALSE

\* The caller is told how the open transaction ended.
TellTransaction(how) ==
  transactions' = IF autoCommit THEN transactions ELSE [transactions EXCEPT ![Transaction] = how]

BeginRefused ==
  /\ Turn("beginTransaction")
  /\ transactionGeneration # 0 \/ transactionAbort
  /\ SessionLost(session, transactionGeneration)
  /\ Tell("failed")
  /\ UNCHANGED <<connection, transaction, backslashModeGeneration, baseline,
                 transactions, durable, doomed>>

BeginTransaction ==
  /\ Turn("beginTransaction")
  /\ ~((transactionGeneration # 0 \/ transactionAbort) /\ SessionLost(session, transactionGeneration))
  /\ GetOrCreateCAS
  /\ \E o \in S!Connect(session) :
       /\ Takes(o)
       /\ session' = o.session
       /\ IF o.reply = "ok"
            THEN /\ autoCommit' = FALSE
                 /\ transactions' = IF autoCommit THEN Append(transactions, "open") ELSE transactions
                 /\ Tell("done")
            ELSE UNCHANGED <<autoCommit, transactions>> /\ Tell("failed")
  /\ UNCHANGED <<transactionGeneration, transactionEndReplies, transactionAbort,
                 backslashModeGeneration, baseline>>

\* A failed end always leaves the transaction open, to be ended again.
WrongTransactionFails(s, error) ==
  /\ session' = s
  /\ Tell("failed")
  /\ UNCHANGED <<transaction, transactions>>

\* The catch of commitNow() and rollbackNow(): endTransactionIfSessionLost().
TransactionFails(s, error) ==
  /\ session' = s
  /\ Tell("failed")
  /\ IF SessionLost(s, transactionGeneration) \/ (~autoCommit /\ error = "abort")
       THEN EndTransaction /\ TellTransaction("failed")
       ELSE UNCHANGED <<transaction, transactions>>

CommitRefused ==
  /\ Turn("commit")
  /\ GetOrCreateCAS
  /\ LET s == DropIfEnded(session)
     IN  /\ ~s.connected \/ SessionLost(s, transactionGeneration)
         /\ TransactionFails(s, "lost")
  /\ NothingAwaited
  /\ UNCHANGED <<backslashModeGeneration, baseline>>

Commit ==
  /\ Turn("commit")
  /\ DropIfEnded(session).connected /\ ~SessionLost(DropIfEnded(session), transactionGeneration)
  /\ UNCHANGED <<cas, created>>
  /\ \E o \in S!SendAndRecv(session, S!Request("COMMIT", Mode)) :
       /\ Takes(o)
       /\ IF o.reply = "ok" /\ ~SessionLost(o.session, transactionGeneration)
            THEN /\ session' = o.session
                 /\ EndTransaction /\ TellTransaction("committed")
                 /\ Tell("done")
            ELSE TransactionFails(o.session, o.reply)
  /\ UNCHANGED <<backslashModeGeneration, baseline>>

RollbackRefused ==
  /\ Turn("rollback") /\ ~session.connected
  /\ GetOrCreateCAS
  /\ TransactionFails(session, "lost")
  /\ NothingAwaited
  /\ UNCHANGED <<backslashModeGeneration, baseline>>

Rollback ==
  /\ Turn("rollback") /\ session.connected
  /\ UNCHANGED <<cas, created>>
  /\ \E o \in S!SendAndRecv(session, S!Request("ROLLBACK", Mode)) :
       /\ Takes(o)
       /\ IF o.reply = "ok"
            THEN /\ session' = o.session
                 /\ EndTransaction /\ TellTransaction("rolled back")
                 /\ Tell("done")
            ELSE TransactionFails(o.session, o.reply)
  /\ UNCHANGED <<backslashModeGeneration, baseline>>

-----------------------------------------------------------------------------
(* The other calls.                                                        *)

\* close() forgets the connection and everything known about it.
Close ==
  /\ Turn("close")
  /\ cas' = 0 /\ session' = S!NewSession
  /\ insertIdBaseline' = None /\ insertIdGeneration' = 0
  /\ backslashModeGeneration' = 0
  /\ IF cas = 0 THEN UNCHANGED <<transaction, transactions>>
                ELSE EndTransaction /\ TellTransaction("failed")
  /\ Tell("done")
  /\ UNCHANGED <<created, faults, durable, doomed>>

\* An operation of the connection and nothing else.
Only(outcomes, next) ==
  /\ \E o \in outcomes :
       /\ Takes(o)
       /\ session' = o.session
       /\ IF o.reply = "ok" /\ next # "idle"
            THEN pc' = next /\ UNCHANGED <<queue, told, locals>>
            ELSE Tell(IF o.reply = "ok" THEN "done" ELSE "failed")
  /\ UNCHANGED <<transaction, backslashModeGeneration, baseline, transactions>>

ConnectNow == Turn("connect") /\ GetOrCreateCAS /\ Only(S!Connect(session), "idle")

PingConnects ==
  /\ Turn("ping") /\ GetOrCreateCAS
  /\ Only(S!Connect(session), IF autoCommit THEN "version" ELSE "checkCas")

PingChecksCas ==
  /\ pc = "checkCas" /\ UNCHANGED <<cas, created>>
  /\ Only(S!SendAndRecv(session, S!Request("CHECK_CAS", Mode)), "version")

PingReadsVersion ==
  /\ pc = "version" /\ UNCHANGED <<cas, created>>
  /\ Only(S!SendAndRecv(session, S!Request("GET_DB_VERSION", Mode)), "idle")

\* Refused in a transaction, and nothing but a note without a connection.
SetTransactionOptions ==
  /\ Turn("setTransactionOptions") /\ UNCHANGED <<cas, created>>
  /\ Only(IF ~autoCommit THEN {S!Outcome(session, "lost", {}, FALSE)}
          ELSE IF cas = 0 THEN {S!Outcome(session, "ok", {}, FALSE)}
          ELSE S!SetSessionParameters(session), "idle")

\* External: between two operations the CAS may go.
CasGoes ==
  /\ \/ session' \in S!Leaves(session) /\ UNCHANGED faults
     \/ session' \in S!Crashes(session) /\ faults < workload.maxFaults /\ faults' = faults + 1
  /\ UNCHANGED <<cas, created, transaction, backslashModeGeneration, baseline, queue, pc, locals,
                 told, transactions, durable, doomed>>

-----------------------------------------------------------------------------

Init ==
  /\ workload \in Workloads
  /\ cas = 0 /\ created = 0 /\ session = S!NewSession /\ faults = 0
  /\ autoCommit = TRUE /\ transactionGeneration = 0
  /\ transactionEndReplies = -1 /\ transactionAbort = FALSE
  /\ backslashModeGeneration = 0
  /\ insertIdBaseline = None /\ insertIdGeneration = 0
  /\ queue = <<>> /\ pc = "idle"
  /\ generation = 0 /\ handle = 0 /\ failure = "none"
  /\ told = <<>> /\ transactions = <<>> /\ durable = {} /\ doomed = {}

Prepares ==
  \/ BeginExecute \/ BaselineRefused \/ BaselineUnread \/ ReadBaseline
  \/ StartRefused \/ EnsureSession \/ ProbeMode \/ ReleaseProbe

Runs ==
  \/ SendStatement \/ MarkersMismatch \/ ExecuteHandle \/ FetchWindow \/ ReadInsertId
  \/ CommitStatement \/ ReleaseHandle \/ UndoStatement

EndsOrBegins ==
  \/ BeginRefused \/ BeginTransaction \/ CommitRefused \/ Commit \/ RollbackRefused \/ Rollback

Other ==
  \/ Close \/ ConnectNow \/ PingConnects \/ PingChecksCas \/ PingReadsVersion
  \/ SetTransactionOptions

Next ==
  /\ \/ \E c \in workload.calls : Call(c)
     \/ Prepares \/ Runs \/ EndsOrBegins \/ Other \/ CasGoes
  /\ UNCHANGED workload

Spec == Init /\ [][Next]_vars

-----------------------------------------------------------------------------
(* Properties.                                                             *)

Numbers == 1..Len(told)

\* A statement with changes to keep that its caller was told succeeded.
Acknowledged(i) == told[i].status = "done" /\ told[i].writes

SessionTyped ==
  /\ session.connected \in BOOLEAN /\ session.outOfTransaction \in BOOLEAN
  /\ session.casVerified \in BOOLEAN /\ session.up \in BOOLEAN /\ session.open \in BOOLEAN
  /\ session.generation \in Nat /\ session.failedExchanges \in Nat
  /\ session.outOfTransactionReplies \in Nat
  /\ session.work \subseteq Numbers /\ session.author \in 0..Len(told)
  /\ session.lastId \in Ids \cup {None}

TransactionTyped ==
  /\ autoCommit \in BOOLEAN /\ transactionAbort \in BOOLEAN
  /\ transactionGeneration \in Nat /\ transactionEndReplies \in Nat \cup {-1}
  /\ transactions \in Seq({"open", "committed", "rolled back", "failed"})
  /\ autoCommit \/ transactions # <<>>

TypeOK ==
  /\ SessionTyped /\ TransactionTyped
  /\ cas \in 0..created /\ backslashModeGeneration \in Nat /\ insertIdGeneration \in Nat
  /\ insertIdBaseline \in Ids \cup {None, Unseen}
  /\ generation \in Nat /\ handle \in Nat /\ faults \in 0..workload.maxFaults
  /\ \A i \in 1..Len(queue) : queue[i].id \in Numbers
  /\ durable \subseteq Numbers /\ doomed \subseteq Numbers
  /\ pc # "idle" => queue # <<>>

(* A transaction is all or nothing: once a change of it is durable, so is the *)
(* change of every statement of it that was acknowledged.  Losing the session *)
(* or being rolled back by the server never leaves a part of it to be         *)
(* committed (assertTransactionSession, transactionEnded, transactionAbort).  *)
AllOrNothing ==
  \A i \in durable, j \in Numbers :
    /\ told[i].within # 0 /\ told[j].within = told[i].within /\ Acknowledged(j)
    => j \in durable

(* What the caller is told of a transaction is so: after a commit that         *)
(* succeeded everything acknowledged is durable, after a rollback nothing is  *)
(* (commitNow, rollbackNow, endTransactionIfSessionLost).                     *)
OutcomeIsTrue ==
  \A i \in Numbers : told[i].within # 0 =>
    LET outcome == transactions[told[i].within]
    IN  /\ outcome = "committed" /\ Acknowledged(i) => i \in durable
        /\ outcome = "rolled back" => i \notin durable

(* A statement acknowledged outside of a transaction is durable, also when it *)
(* was committed by a request of its own on a session that may have gone      *)
(* meanwhile (endStatementTransaction).                                       *)
AutocommitIsDurable ==
  \A i \in Numbers : Acknowledged(i) /\ told[i].within = 0 => i \in durable

(* Changes become durable only while a call that asks for it runs: those of a *)
(* statement outside of a transaction while that statement runs, those of a   *)
(* transaction while it is open and its commit() runs.  So what its caller    *)
(* was told failed is never committed afterwards, by a later call on whatever *)
(* session there is (the rollback in runStatement, discardSession,            *)
(* endTransactionIfSessionLost).  A request that was given up counts as run   *)
(* when it is given up, if it ever runs.                                      *)
CommittedAsAsked ==
  [][\A i \in durable' \ durable :
       /\ queue # <<>>
       /\ IF told'[i].within = 0 THEN Running.id = i
          ELSE Running.call = "commit" /\ ~autoCommit /\ told[i].within = Transaction]_vars

\* What OneSession and EscapedForItsSession rest on: a server that ends a transaction unasked does not end it
\* at the probe of the backslash mode, or at the release of the probe's handle.
ProbesEndNothing ==
  EndsUnasked => \A w \in Workloads :
    (\A c \in w.calls : ~c.escapes) \/ (\A c \in w.calls : c.call # "beginTransaction")

(* The statements of a transaction that ran, all ran on one session, also     *)
(* those whose answer was lost: none starts the transaction over on another   *)
(* session, leaving behind one with an unknown outcome                        *)
(* (transactionGeneration, bindSessionLostByFirstStatement).                  *)
OneSession ==
  \A i, j \in Numbers :
    /\ told[i].within # 0 /\ told[i].within = told[j].within
    /\ told[i].ranOn # Nowhere /\ told[j].ranOn # Nowhere
    => told[i].ranOn = told[j].ranOn

(* A statement that was waiting when the outcome of another became unknown    *)
(* never runs on that connection, whatever session it has by then (the check  *)
(* of failedExchanges against the count noted when the statement was called). *)
NotBehindUnknown ==
  \A i \in doomed : told[i].ranOn # Nowhere => told[i].ranOn[1] # told[i].calledOn

(* Text whose escaping depends on the session's backslash mode only ever runs *)
(* on the session the mode was measured on (ensureSession before              *)
(* ensureBackslashMode).                                                      *)
EscapedForItsSession ==
  \A i \in Numbers :
    told[i].boundOn # Nowhere /\ told[i].ranOn # Nowhere => told[i].ranOn = told[i].boundOn

(* An id that execute() reports was generated by that very statement, not by  *)
(* an earlier one, although the server reports the session's last value       *)
(* either way (readExecuteResult, forgetInsertId, followInsertIdSession).     *)
TrueInsertId == \A i \in Numbers : told[i].insertId # None => told[i].author = i

=============================================================================
