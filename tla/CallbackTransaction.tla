------------------------- MODULE CallbackTransaction -------------------------
(***************************************************************************)
(* CubridClient.transaction() (src/src/client/client.ts) with the          *)
(* CallbackTransaction it hands to the callback                            *)
(* (src/src/client/transaction.ts).                                        *)
(*                                                                         *)
(* What this code gets right or wrong is the order of microtasks, so these *)
(* are modelled one by one: jobs is the queue of the JavaScript engine, a  *)
(* promise that settles appends the reactions to it, and a job runs to its *)
(* end before anything else happens.  Two things are looser than the       *)
(* engine: a statement of the connection may settle between any two jobs,  *)
(* and so may Promise.allSettled, once the promises it waits for have.     *)
(*                                                                         *)
(* The callback is any program: it starts statements, awaits them or not,  *)
(* completes the transaction or not, returns or throws.  Code it leaves    *)
(* behind may do the same with tx at any time.  The connection is the      *)
(* Adapter module's; its promises settle here either way.                  *)
(*                                                                         *)
(* Definitions named Wrong... are deliberate bugs, used only to show that  *)
(* a property notices them.                                                *)
(***************************************************************************)
EXTENDS Naturals, Sequences

CONSTANT MaxQueries  \* bound: the statements run through tx

ASSUME MaxQueriesAssumption == MaxQueries \in Nat

VARIABLES
  pc,                \* the await transaction() has reached
  failed,            \* the local variable of transaction()
  outcome,           \* the promise of transaction()
  state,             \* CallbackTransactionState
  completion,        \* this.completion
  ending,            \* the await runCommit() or runRollback() has reached
  waits,             \* the queries settleRunningQueries() waits for
  statement,         \* pending of track(), per query: the connection's promise
  promise,           \* running of track(), per query: the promise the callback holds
  runningQueries, justRejectedQueries, rejectedQueries,
  handled,           \* the promises of queries somebody listens to
  rollbackFailure,   \* BOOLEAN: it is set
  callback,          \* what the callback does, and the query it awaits
  jobs,              \* the microtask queue
  known,             \* history: the queries whose reactions have run
  seen,              \* history: the queries whose failure the callback was thrown
  late,              \* history: the queries unsettled, for the callback, when it ended
  decider,           \* history: who completed the transaction
  sent               \* history: the END_TRANs asked of the connection

client == <<pc, failed, outcome>>
terminal == <<state, completion, ending, waits, rollbackFailure, decider, sent>>
queries == <<statement, promise, runningQueries, justRejectedQueries, rejectedQueries>>
history == <<known, seen, late>>
vars == <<client, terminal, queries, handled, callback, jobs, history>>

Queries == 1..MaxQueries
Issued == 1..Len(statement)

\* Jobs name the query they are about; the last two concern none.
Job(what, q) == [what |-> what, query |-> q]
CallbackResumes == Job("callback", 0)
TransactionResumes == Job("transaction", 0)

\* Nothing runs beside a job; the callback runs in one whenever it is active.
BetweenJobs == callback.at # "active"
NextJob(what) == BetweenJobs /\ jobs # <<>> /\ Head(jobs).what = what

CallbackEnded == callback.at \in {"returned", "threw"}

\* tx exists.
Begun == callback.at # "none"

-----------------------------------------------------------------------------
(* The statements of the transaction.                                      *)

\* One that does not look at the state.
WrongTrack ==
  /\ Begun /\ Len(statement) < MaxQueries
  /\ LET q == Len(statement) + 1
     IN /\ runningQueries' = runningQueries \cup {q}
        /\ late' = IF CallbackEnded THEN late \cup {q} ELSE late
  /\ statement' = Append(statement, "pending") /\ promise' = Append(promise, "pending")
  /\ UNCHANGED <<client, terminal, justRejectedQueries, rejectedQueries, handled, callback, jobs,
                 known, seen>>

\* track(), by the callback or by code it left behind; refused unless the
\* transaction is open.
Track ==
  /\ Begun /\ state = "open" /\ Len(statement) < MaxQueries
  /\ LET q == Len(statement) + 1
     IN /\ runningQueries' = runningQueries \cup {q}
        /\ late' = IF CallbackEnded THEN late \cup {q} ELSE late
  /\ statement' = Append(statement, "pending") /\ promise' = Append(promise, "pending")
  /\ UNCHANGED <<client, terminal, justRejectedQueries, rejectedQueries, handled, callback, jobs,
                 known, seen>>

\* The connection answers the statement of q.
StatementSettles(q, result) ==
  /\ BetweenJobs /\ q \in Issued /\ statement[q] = "pending"
  /\ statement' = [statement EXCEPT ![q] = result]
  /\ jobs' = Append(jobs, Job("settle", q))
  /\ UNCHANGED <<client, terminal, promise, runningQueries, justRejectedQueries, rejectedQueries,
                 handled, callback, history>>

\* One that forgets a turn early.
WrongReactions(q) ==
  IF statement[q] = "rejected" THEN <<Job("forgotten", q), Job("react", q)>> ELSE <<Job("react", q)>>

\* One that remembers the rejection only when running has settled.
WrongReactionsFirst(q) ==
  IF statement[q] = "rejected" THEN <<Job("react", q), Job("forget", q)>> ELSE <<Job("react", q)>>

\* The jobs a settled promise of q queues: forgetting its rejection comes first,
\* because rememberRejection() runs before running settles.
Reactions(q) ==
  IF statement[q] = "rejected" THEN <<Job("forget", q), Job("react", q)>> ELSE <<Job("react", q)>>

\* settle() of track()
Settle ==
  /\ NextJob("settle")
  /\ LET q == Head(jobs).query
         remembered == IF statement[q] = "rejected" THEN {q} ELSE {}
     IN /\ promise' = [promise EXCEPT ![q] = statement[q]]
        /\ runningQueries' = runningQueries \ {q}
        /\ justRejectedQueries' = justRejectedQueries \cup remembered
        /\ rejectedQueries' = rejectedQueries \cup remembered
        /\ jobs' = Tail(jobs) \o Reactions(q)
  /\ UNCHANGED <<client, terminal, statement, handled, callback, history>>

\* rememberRejection(), the outer microtask
Forget ==
  /\ NextJob("forget")
  /\ jobs' = Append(Tail(jobs), Job("forgotten", Head(jobs).query))
  /\ UNCHANGED <<client, terminal, queries, handled, callback, history>>

\* and the inner one.
Forgotten ==
  /\ NextJob("forgotten")
  /\ jobs' = Tail(jobs)
  /\ justRejectedQueries' = justRejectedQueries \ {Head(jobs).query}
  /\ UNCHANGED <<client, terminal, statement, promise, runningQueries, rejectedQueries, handled,
                 callback, history>>

-----------------------------------------------------------------------------
(* The callback.                                                           *)

Active == [at |-> "active", query |-> 0]

\* The callback goes on after its await of q, which throws what q rejected with.
Resumes(q) ==
  /\ callback' = Active
  /\ seen' = IF q \in Issued /\ promise[q] = "rejected" THEN seen \cup {q} ELSE seen

\* The reactions to the promise of q: allSettled and abort() only note it.
React ==
  /\ NextJob("react")
  /\ LET q == Head(jobs).query
     IN /\ known' = known \cup {q}
        /\ \/ callback = [at |-> "query", query |-> q] /\ Resumes(q)
           \/ callback # [at |-> "query", query |-> q] /\ UNCHANGED <<callback, seen>>
  /\ jobs' = Tail(jobs)
  /\ UNCHANGED <<client, terminal, queries, handled, late>>

\* Awaiting a promise that has settled takes one turn.
AwaitQuery(q) ==
  /\ callback.at = "active" /\ q \in Issued
  /\ handled' = handled \cup {q}
  /\ IF promise[q] = "pending"
     THEN callback' = [at |-> "query", query |-> q] /\ UNCHANGED jobs
     ELSE callback' = [at |-> "resuming", query |-> q] /\ jobs' = Append(jobs, CallbackResumes)
  /\ UNCHANGED <<client, terminal, queries, history>>

\* The callback awaits its commit() or rollback().
AwaitCompletion ==
  /\ callback.at = "active" /\ completion # "none"
  /\ IF completion = "pending"
     THEN callback' = [at |-> "completion", query |-> 0] /\ UNCHANGED jobs
     ELSE callback' = [at |-> "resuming", query |-> 0] /\ jobs' = Append(jobs, CallbackResumes)
  /\ UNCHANGED <<client, terminal, queries, handled, history>>

\* It awaits something else, and that settles.
AwaitElsewhere ==
  /\ callback.at = "active" /\ callback' = [at |-> "elsewhere", query |-> 0]
  /\ UNCHANGED <<client, terminal, queries, handled, jobs, history>>

ElsewhereSettles ==
  /\ callback.at = "elsewhere" /\ callback' = [at |-> "resuming", query |-> 0]
  /\ jobs' = Append(jobs, CallbackResumes)
  /\ UNCHANGED <<client, terminal, queries, handled, history>>

CallbackGoesOn ==
  /\ NextJob("callback") /\ Resumes(callback.query)
  /\ jobs' = Tail(jobs)
  /\ UNCHANGED <<client, terminal, queries, handled, known, late>>

\* Its last step: whatever it will never be told is late.
CallbackEnds(how) ==
  /\ callback.at = "active"
  /\ callback' = [at |-> how, query |-> 0]
  /\ late' = Issued \ known
  /\ jobs' = Append(jobs, TransactionResumes)
  /\ UNCHANGED <<client, terminal, queries, handled, known, seen>>

-----------------------------------------------------------------------------
(* Completing the transaction.                                             *)

\* One that does not wait.
WrongComplete(what, who, running) ==
  /\ state = "open" /\ state' = "completing"
  /\ completion' = "pending" /\ decider' = who
  /\ ending' = IF what = "commit" THEN "settlingCommit" ELSE "settlingRollback"
  /\ waits' = {}
  /\ UNCHANGED <<rollbackFailure, sent>>

\* complete(what), which starts runCommit() or runRollback(); running is
\* what settleRunningQueries() finds.
Complete(what, who, running) ==
  /\ state = "open" /\ state' = "completing"
  /\ completion' = "pending" /\ decider' = who
  /\ ending' = IF what = "commit" THEN "settlingCommit" ELSE "settlingRollback"
  /\ waits' = running
  /\ UNCHANGED <<rollbackFailure, sent>>

\* commit() and rollback() of tx.
CallerCompletes(what) ==
  /\ Begun /\ Complete(what, "caller", runningQueries)
  /\ handled' = handled \cup runningQueries
  /\ UNCHANGED <<client, queries, callback, jobs, history>>

\* this.completion settles: what awaits it goes on.
Completed(result) ==
  /\ completion' = result /\ ending' = "none"
  /\ jobs' = IF callback.at = "completion" THEN Append(jobs, CallbackResumes)
             ELSE IF pc \in {"finishing", "aborting"} THEN Append(jobs, TransactionResumes)
             ELSE jobs
  /\ callback' = IF callback.at = "completion" THEN [at |-> "resuming", query |-> 0] ELSE callback

AllSettled == BetweenJobs /\ \A q \in waits : promise[q] # "pending"

\* One that looks at the last query only.
WrongCommitIfAllSucceeded ==
  /\ ending = "settlingCommit" /\ AllSettled
  /\ \/ /\ Len(promise) \in waits => promise[Len(promise)] = "fulfilled"
        /\ ending' = "committing" /\ sent' = Append(sent, "commit") /\ UNCHANGED state
     \/ /\ Len(promise) \in waits /\ promise[Len(promise)] = "rejected"
        /\ state' = "failed"
        /\ ending' = "undoing" /\ sent' = Append(sent, "rollback")
  /\ UNCHANGED <<client, queries, handled, completion, waits, rollbackFailure, decider, callback,
                 jobs, history>>

\* runCommit(), once the queries have settled: a failed one forbids the commit.
CommitIfAllSucceeded ==
  /\ ending = "settlingCommit" /\ AllSettled
  /\ \/ /\ \A q \in waits : promise[q] = "fulfilled"
        /\ ending' = "committing" /\ sent' = Append(sent, "commit") /\ UNCHANGED state
     \/ /\ \E q \in waits : promise[q] = "rejected"
        /\ state' = "failed"
        /\ ending' = "undoing" /\ sent' = Append(sent, "rollback")
  /\ UNCHANGED <<client, queries, handled, completion, waits, rollbackFailure, decider, callback,
                 jobs, history>>

CommitAnswered ==
  /\ BetweenJobs /\ ending = "committing"
  /\ \/ state' = "committed" /\ Completed("fulfilled") /\ UNCHANGED sent
     \/ /\ state' = "failed" /\ ending' = "undoing" /\ sent' = Append(sent, "rollback")
        /\ UNCHANGED <<completion, jobs, callback>>
  /\ UNCHANGED <<client, queries, handled, waits, rollbackFailure, decider, history>>

\* One that reports the result of the rollback instead of the failure.
WrongUndoAnswered ==
  /\ BetweenJobs /\ ending = "undoing"
  /\ rollbackFailure' \in BOOLEAN
  /\ Completed(IF rollbackFailure' THEN "rejected" ELSE "fulfilled")
  /\ UNCHANGED <<client, queries, handled, state, waits, decider, sent, history>>

\* The rollback after a commit that was skipped or refused.
UndoAnswered ==
  /\ BetweenJobs /\ ending = "undoing"
  /\ rollbackFailure' \in BOOLEAN
  /\ Completed("rejected")
  /\ UNCHANGED <<client, queries, handled, state, waits, decider, sent, history>>

RollbackAfterAll ==
  /\ ending = "settlingRollback" /\ AllSettled
  /\ ending' = "rollingBack" /\ sent' = Append(sent, "rollback")
  /\ UNCHANGED <<client, queries, handled, state, completion, waits, rollbackFailure, decider,
                 callback, jobs, history>>

RollbackAnswered ==
  /\ BetweenJobs /\ ending = "rollingBack"
  /\ \/ state' = "rolledBack" /\ Completed("fulfilled") /\ UNCHANGED rollbackFailure
     \/ state' = "failed" /\ Completed("rejected") /\ rollbackFailure' = TRUE
  /\ UNCHANGED <<client, queries, handled, waits, decider, sent, history>>

-----------------------------------------------------------------------------
(* transaction() of the client.                                            *)

\* It opens a connection of its own, hands it the options and begins; a
\* failure before tx exists leaves a connection to close, if there is one.
AfterAwait == [connecting |-> "options", options |-> "beginning", beginning |-> "callback"]

Prepares ==
  /\ pc \in DOMAIN AfterAwait
  /\ \/ /\ pc' = AfterAwait[pc]
        /\ callback' = IF pc = "beginning" THEN Active ELSE callback
        /\ UNCHANGED <<failed, outcome>>
     \/ /\ pc = "connecting" /\ pc' = "done" /\ outcome' = "rejected"
        /\ failed' = TRUE /\ UNCHANGED callback
     \/ /\ pc # "connecting" /\ pc' = "closing" /\ failed' = TRUE
        /\ UNCHANGED <<callback, outcome>>
  /\ UNCHANGED <<terminal, queries, handled, jobs, history>>

\* One that waits for a completion to settle that already has.
WrongCompletionOr(what, who, running) ==
  \/ completion = "none" /\ Complete(what, who, running) /\ jobs' = Tail(jobs)
  \/ completion # "none" /\ UNCHANGED terminal /\ jobs' = Tail(jobs)

\* The completion there is, or a new one; a settled one takes a turn.
CompletionOr(what, who, running) ==
  \/ /\ completion = "none" /\ Complete(what, who, running)
     /\ jobs' = Tail(jobs)
  \/ /\ completion = "pending" /\ UNCHANGED terminal
     /\ jobs' = Tail(jobs)
  \/ /\ completion \in {"fulfilled", "rejected"} /\ UNCHANGED terminal
     /\ jobs' = Append(Tail(jobs), TransactionResumes)

\* One that only waits for what is still running.
WrongFinish ==
  /\ NextJob("transaction") /\ pc = "callback" /\ callback.at = "returned"
  /\ CompletionOr("commit", "finish", runningQueries)
  /\ handled' = IF completion = "none" THEN handled \cup runningQueries ELSE handled
  /\ pc' = "finishing"
  /\ UNCHANGED <<failed, outcome, queries, callback, history>>

\* finish(): the callback returned.
Finish ==
  /\ NextJob("transaction") /\ pc = "callback" /\ callback.at = "returned"
  /\ LET running == runningQueries \cup justRejectedQueries
     IN /\ runningQueries' = running
        /\ CompletionOr("commit", "finish", running)
        /\ handled' = IF completion = "none" THEN handled \cup running ELSE handled
  /\ pc' = "finishing"
  /\ UNCHANGED <<failed, outcome, statement, promise, justRejectedQueries, rejectedQueries,
                 callback, history>>

\* One that leaves the rejections alone.
WrongAbortHandles == IF completion = "none" THEN runningQueries ELSE {}

\* What abort() listens to, with a rollback if it starts one.
AbortHandles == rejectedQueries \cup (IF completion = "none" THEN runningQueries ELSE {})

\* abort(): the callback or its completion failed.
Abort ==
  /\ NextJob("transaction")
  /\ \/ pc = "callback" /\ callback.at = "threw"
     \/ pc = "finishing" /\ completion = "rejected"
  /\ failed' = TRUE
  /\ CompletionOr("rollback", "abort", runningQueries)
  /\ handled' = handled \cup AbortHandles
  /\ pc' = "aborting"
  /\ UNCHANGED <<outcome, queries, callback, history>>

\* It awaits the close of its connection whatever happened.
Closing ==
  /\ NextJob("transaction")
  /\ \/ pc = "finishing" /\ completion = "fulfilled"
     \/ pc = "aborting"
  /\ pc' = "closing" /\ jobs' = Tail(jobs)
  /\ UNCHANGED <<failed, outcome, terminal, queries, handled, callback, history>>

CloseAnswered ==
  /\ BetweenJobs /\ pc = "closing" /\ pc' = "done"
  /\ outcome' \in IF failed THEN {"rejected"} ELSE {"fulfilled", "rejected"}
  /\ UNCHANGED <<failed, terminal, queries, handled, callback, jobs, history>>

-----------------------------------------------------------------------------
Init ==
  /\ pc = "connecting" /\ failed = FALSE /\ outcome = "pending"
  /\ state = "open" /\ completion = "none" /\ ending = "none" /\ waits = {}
  /\ statement = <<>> /\ promise = <<>>
  /\ runningQueries = {} /\ justRejectedQueries = {} /\ rejectedQueries = {} /\ handled = {}
  /\ rollbackFailure = FALSE
  /\ callback = [at |-> "none", query |-> 0] /\ jobs = <<>>
  /\ known = {} /\ seen = {} /\ late = {} /\ decider = "nobody" /\ sent = <<>>

\* What the callback, and code it left behind, may do.
Caller ==
  \/ Track
  \/ \E what \in {"commit", "rollback"} : CallerCompletes(what)
  \/ \E q \in Queries : AwaitQuery(q)
  \/ AwaitCompletion \/ AwaitElsewhere \/ ElsewhereSettles
  \/ \E how \in {"returned", "threw"} : CallbackEnds(how)

\* Microtasks.
RunsJob ==
  \/ Settle \/ Forget \/ Forgotten \/ React \/ CallbackGoesOn
  \/ Finish \/ Abort \/ Closing
  \/ CommitIfAllSucceeded \/ RollbackAfterAll

\* What the connection answers.
Answers ==
  \/ Prepares \/ CommitAnswered \/ UndoAnswered \/ RollbackAnswered \/ CloseAnswered
  \/ \E q \in Queries, result \in {"fulfilled", "rejected"} : StatementSettles(q, result)

Next == Caller \/ RunsJob \/ Answers

Spec == Init /\ [][Next]_vars

\* The engine runs every job, and the connection settles what it was asked (the
\* runs of CASConnection show when); nothing is assumed of the callback.
FairSpec == Spec /\ WF_vars(RunsJob) /\ WF_vars(Answers)

-----------------------------------------------------------------------------
(* Properties.                                                             *)

Promises == {"pending", "fulfilled", "rejected"}

TypeOK ==
  /\ pc \in {"connecting", "options", "beginning", "callback", "finishing", "aborting", "closing",
             "done"}
  /\ failed \in BOOLEAN /\ outcome \in Promises
  /\ state \in {"open", "completing", "committed", "rolledBack", "failed"}
  /\ completion \in Promises \cup {"none"}
  /\ ending \in {"none", "settlingCommit", "committing", "undoing", "settlingRollback",
                 "rollingBack"}
  /\ statement \in Seq(Promises) /\ promise \in Seq(Promises)
  /\ Len(promise) = Len(statement) /\ Len(statement) <= MaxQueries
  /\ waits \subseteq Issued /\ runningQueries \subseteq Issued
  /\ justRejectedQueries \subseteq Issued /\ rejectedQueries \subseteq Issued
  /\ handled \subseteq Issued /\ known \subseteq Issued
  /\ seen \subseteq Issued /\ late \subseteq Issued
  /\ rollbackFailure \in BOOLEAN
  /\ callback \in [at : {"none", "active", "query", "resuming", "completion", "elsewhere",
                         "returned", "threw"},
                   query : 0..Len(statement)]
  /\ jobs \in Seq([what : {"settle", "forget", "forgotten", "react", "callback", "transaction"},
                   query : 0..Len(statement)])
  /\ decider \in {"nobody", "caller", "finish", "abort"}
  /\ sent \in Seq({"commit", "rollback"})

\* No END_TRAN is asked for while a statement of the transaction is unanswered,
\* and no statement starts after one: it would run outside of the transaction it
\* was issued in, and commit on its own.
EndsAfterStatements == sent # <<>> => \A q \in Issued : statement[q] # "pending"

\* When the callback returned and the client committed for it, no statement
\* failed whose failure the callback had no chance to see: the rest of the work
\* is not kept without it.
NoUnseenFailureCommitted ==
  state = "committed" /\ decider = "finish" => \A q \in late : promise[q] # "rejected"

\* The failure of a statement which the callback was thrown before it completed
\* the transaction, or returned, is its own affair: no commit is held back by it.
SeenFailuresForgiven == [][waits' # waits => waits' \cap seen = {}]_vars

\* After a failed transaction somebody listens to every one of its statements that
\* failed or still may, so no rejection is reported as unhandled beside the failure
\* the caller is given.  (One that Node.js reported earlier, because the event loop
\* moved on between the rejection and the end of the callback, is not taken back.)
OneFailureReported ==
  pc \in {"aborting", "closing", "done"} /\ failed /\ callback.at # "none" =>
    \A q \in Issued : promise[q] # "fulfilled" /\ statement[q] # "fulfilled" => q \in handled

\* transaction() resolves only if the work is committed or its own callback
\* rolled it back, and rejects with a committed transaction only if the callback
\* threw after its own commit, or the close failed.  One that is reported as
\* committed hides no failure: whoever listens to the promise of a failed statement
\* passed the failure on to the callback, and Node.js reports one nobody listens to.
OutcomeIsTrue ==
  /\ outcome = "fulfilled" => \/ state = "committed"
                              \/ state = "rolledBack" /\ decider = "caller"
  /\ state = "committed" /\ failed => decider = "caller"
  /\ outcome = "fulfilled" /\ state = "committed" =>
       \A q \in Issued : promise[q] = "rejected" => q \notin handled \/ q \in seen

\* Once its callback has ended the transaction settles, and its connection is
\* closed: no completion waits for a promise that nobody settles.
Settles == CallbackEnded ~> pc = "done"

=============================================================================
