---------------------- MODULE CallbackTransaction_proofs ----------------------
(***************************************************************************)
(* What holds of CallbackTransaction for every number of statements.       *)
(***************************************************************************)
EXTENDS CallbackTransaction, SequenceTheorems, TLAPS

Whats == {"settle", "forget", "forgotten", "react", "callback", "transaction"}
JobSet(n) == [what : Whats, query : 0..n]
CallbackSet(n) ==
  [at : {"none", "active", "query", "resuming", "completion", "elsewhere", "returned", "threw"},
   query : 0..n]

-----------------------------------------------------------------------------
(* The queue of jobs.                                                      *)

LEMMA JobInSet ==
  ASSUME NEW n \in Nat, NEW what \in Whats, NEW q \in 0..n
  PROVE  Job(what, q) \in JobSet(n)
  BY DEF Job, JobSet

\* Jobs stay jobs while statements are added.
LEMMA JobsGrow ==
  ASSUME NEW n \in Nat, NEW m \in Nat, n <= m
  PROVE  JobSet(n) \subseteq JobSet(m) /\ CallbackSet(n) \subseteq CallbackSet(m)
  BY DEF JobSet, CallbackSet

LEMMA SeqGrows ==
  ASSUME NEW S, NEW T, S \subseteq T, NEW s \in Seq(S)
  PROVE  s \in Seq(T)
<1>1. s \in [1..Len(s) -> S] /\ Len(s) \in Nat  OBVIOUS
<1>2. s \in [1..Len(s) -> T]  BY <1>1
<1> QED  BY <1>1, <1>2

-----------------------------------------------------------------------------
(* Type correctness.                                                       *)

LEMMA QueueTypes ==
  ASSUME TypeOK
  PROVE  /\ Len(statement) \in Nat /\ Len(promise) = Len(statement)
         /\ jobs \in Seq(JobSet(Len(statement))) /\ callback \in CallbackSet(Len(statement))
         /\ DOMAIN statement = Issued /\ DOMAIN promise = Issued
<1>1. statement \in Seq(Promises) /\ promise \in Seq(Promises) /\ Len(promise) = Len(statement)
  BY DEF TypeOK
<1>2. jobs \in Seq(JobSet(Len(statement))) /\ callback \in CallbackSet(Len(statement))
  BY DEF TypeOK, JobSet, CallbackSet, Whats
<1> QED BY <1>1, <1>2 DEF Issued

LEMMA TailTyped ==
  ASSUME NEW n \in Nat, jobs \in Seq(JobSet(n)), jobs # <<>>
  PROVE  /\ Tail(jobs) \in Seq(JobSet(n)) /\ Head(jobs) \in JobSet(n)
         /\ Head(jobs).query \in 0..n
<1>1. Head(jobs) \in JobSet(n)  OBVIOUS
<1>2. Tail(jobs) \in Seq(JobSet(n))  OBVIOUS
<1>3. \A j \in JobSet(n) : j.query \in 0..n  BY DEF JobSet
<1> QED BY <1>1, <1>2, <1>3

LEMMA AppendTyped ==
  ASSUME NEW n \in Nat, NEW s \in Seq(JobSet(n)), NEW what \in Whats, NEW q \in 0..n
  PROVE  Append(s, Job(what, q)) \in Seq(JobSet(n))
  BY JobInSet

\* The type invariant, without its definition.
LEMMA CurrentTypes ==
  ASSUME TypeOK
  PROVE  /\ pc \in {"connecting", "options", "beginning", "callback", "finishing", "aborting",
                    "closing", "done"}
         /\ failed \in BOOLEAN /\ outcome \in Promises
         /\ state \in {"open", "completing", "committed", "rolledBack", "failed"}
         /\ completion \in Promises \cup {"none"}
         /\ ending \in {"none", "settlingCommit", "committing", "undoing", "settlingRollback",
                        "rollingBack"}
         /\ promise \in Seq(Promises) /\ Len(promise) = Len(statement)
         /\ waits \subseteq Issued /\ runningQueries \subseteq Issued
         /\ justRejectedQueries \subseteq Issued /\ rejectedQueries \subseteq Issued
         /\ handled \subseteq Issued /\ known \subseteq Issued
         /\ seen \subseteq Issued /\ late \subseteq Issued
         /\ rollbackFailure \in BOOLEAN
         /\ callback \in CallbackSet(Len(statement))
         /\ jobs \in Seq(JobSet(Len(statement)))
         /\ decider \in {"nobody", "caller", "finish", "abort"}
         /\ sent \in Seq({"commit", "rollback"})
  BY QueueTypes DEF TypeOK

\* A step that leaves the statements alone keeps the type if what it changes does.
LEMMA StepTyped ==
  ASSUME TypeOK, UNCHANGED statement,
         pc' \in {"connecting", "options", "beginning", "callback", "finishing", "aborting",
                  "closing", "done"},
         failed' \in BOOLEAN, outcome' \in Promises,
         state' \in {"open", "completing", "committed", "rolledBack", "failed"},
         completion' \in Promises \cup {"none"},
         ending' \in {"none", "settlingCommit", "committing", "undoing", "settlingRollback",
                      "rollingBack"},
         promise' \in Seq(Promises), Len(promise') = Len(statement),
         waits' \subseteq Issued, runningQueries' \subseteq Issued,
         justRejectedQueries' \subseteq Issued, rejectedQueries' \subseteq Issued,
         handled' \subseteq Issued, known' \subseteq Issued,
         seen' \subseteq Issued, late' \subseteq Issued,
         rollbackFailure' \in BOOLEAN,
         callback' \in CallbackSet(Len(statement)),
         jobs' \in Seq(JobSet(Len(statement))),
         decider' \in {"nobody", "caller", "finish", "abort"},
         sent' \in Seq({"commit", "rollback"})
  PROVE  TypeOK'
  BY DEF TypeOK, Issued, JobSet, CallbackSet, Whats

-----------------------------------------------------------------------------
(* The inductive invariant.                                                *)

\* How far a completion has come: state, this.completion, the await of runCommit() or
\* runRollback() and the END_TRANs asked for go together.
Stages ==
  /\ state = "open" <=> completion = "none"
  /\ completion = "pending" <=> ending # "none"
  /\ state = "open" => sent = <<>> /\ decider = "nobody" /\ waits = {}
  /\ ending \in {"committing", "undoing", "rollingBack"} => sent # <<>>
  /\ ending \in {"settlingCommit", "committing", "settlingRollback", "rollingBack"} =>
       state = "completing"
  /\ ending = "undoing" => state = "failed"
  /\ completion = "fulfilled" => state \in {"committed", "rolledBack"}
  /\ completion = "rejected" => state = "failed"

\* The jobs about a query are about one there is, and come after what they react to.
GoodJobs ==
  {j \in JobSet(Len(statement)) :
     /\ j.what \in {"settle", "forget", "forgotten", "react"} => j.query \in Issued
     /\ j.what = "settle" => statement[j.query] # "pending"
     /\ j.what = "react" => promise[j.query] # "pending"}

JobsHold == jobs \in Seq(GoodJobs)

\* Before tx exists nothing has happened.
Unstarted ==
  /\ pc \in {"connecting", "options", "beginning"} => callback.at = "none" /\ ~failed
  /\ callback.at = "none" => state = "open" /\ Len(statement) = 0

\* A callback that is to go on has one job that does so.
CallbackJobs ==
  /\ \A i \in 1..Len(jobs) : jobs[i].what = "callback" => callback.at = "resuming"
  /\ \A i, j \in 1..Len(jobs) :
       jobs[i].what = "callback" /\ jobs[j].what = "callback" => i = j

LEMMA CompleteStages ==
  ASSUME TypeOK, Stages, NEW what \in {"commit", "rollback"},
         NEW who \in {"caller", "finish", "abort"},
         NEW running \in SUBSET Issued, Complete(what, who, running)
  PROVE  /\ Stages'
         /\ state' = "completing" /\ completion' = "pending" /\ decider' = who /\ sent' = sent
         /\ ending' \in {"settlingCommit", "settlingRollback"}
         /\ waits' = running /\ rollbackFailure' = rollbackFailure
  BY DEF Stages, Complete

\* The other steps of a completion, in one.
LEMMA EndingStages ==
  ASSUME TypeOK, Stages,
         CommitIfAllSucceeded \/ CommitAnswered \/ UndoAnswered \/ RollbackAfterAll \/ RollbackAnswered
  PROVE  /\ Stages'
         /\ state' \in {"completing", "committed", "rolledBack", "failed"}
         /\ completion' \in Promises
         /\ ending' \in {"none", "committing", "undoing", "rollingBack"}
         /\ sent' \in Seq({"commit", "rollback"}) /\ (sent # <<>> => sent' # <<>>)
<1>1. /\ sent \in Seq({"commit", "rollback"})
      /\ \A e \in {"commit", "rollback"} :
           Append(sent, e) \in Seq({"commit", "rollback"}) /\ Append(sent, e) # <<>>
  <2>1. sent \in Seq({"commit", "rollback"})  BY DEF TypeOK
  <2> QED BY <2>1, AppendProperties
<1>3. CASE CommitIfAllSucceeded
  BY <1>1, <1>3 DEF CommitIfAllSucceeded, Stages, Promises
<1>4. CASE CommitAnswered
  BY <1>1, <1>4 DEF CommitAnswered, Completed, Stages, Promises
<1>5. CASE UndoAnswered
  BY <1>1, <1>5 DEF UndoAnswered, Completed, Stages, Promises
<1>6. CASE RollbackAfterAll
  BY <1>1, <1>6 DEF RollbackAfterAll, Stages, Promises
<1>7. CASE RollbackAnswered
  BY <1>1, <1>7 DEF RollbackAnswered, Completed, Stages, Promises
<1> QED BY <1>3, <1>4, <1>5, <1>6, <1>7

-----------------------------------------------------------------------------
(* Every step keeps the types and the stages.                              *)

LEMMA CallerTypes ==
  ASSUME TypeOK, Stages, Caller
  PROVE  TypeOK' /\ Stages'
<1> DEFINE n == Len(statement)
<1>0. /\ n \in Nat /\ Len(promise) = n /\ jobs \in Seq(JobSet(n)) /\ callback \in CallbackSet(n)
      /\ CallbackResumes = Job("callback", 0) /\ TransactionResumes = Job("transaction", 0)
      /\ "callback" \in Whats /\ "transaction" \in Whats /\ 0 \in 0..n /\ Issued = 1..n
  BY QueueTypes DEF CallbackResumes, TransactionResumes, Whats, Issued
<1>a. /\ Append(jobs, CallbackResumes) \in Seq(JobSet(n))
      /\ Append(jobs, TransactionResumes) \in Seq(JobSet(n))
  BY <1>0, AppendTyped
<1>1. CASE Track
  <2>1. /\ statement' = Append(statement, "pending") /\ promise' = Append(promise, "pending")
        /\ runningQueries' = runningQueries \cup {n + 1}
        /\ late' \in {late, late \cup {n + 1}}
        /\ n < MaxQueries
        /\ UNCHANGED <<pc, failed, outcome, state, completion, ending, waits, rollbackFailure,
                       decider, sent, justRejectedQueries, rejectedQueries, handled, callback, jobs,
                       known, seen>>
    BY <1>1 DEF Track, client, terminal
  <2>2. /\ statement' \in Seq(Promises) /\ promise' \in Seq(Promises)
        /\ Len(statement') = n + 1 /\ Len(promise') = n + 1
    BY <1>0, <2>1, AppendProperties DEF TypeOK, Promises
  <2>3. Issued' = 1..(n + 1) /\ Issued \subseteq Issued' /\ n + 1 \in Issued'
    BY <1>0, <2>2 DEF Issued
  <2>4. /\ waits' \subseteq Issued' /\ runningQueries' \subseteq Issued'
        /\ justRejectedQueries' \subseteq Issued' /\ rejectedQueries' \subseteq Issued'
        /\ handled' \subseteq Issued' /\ known' \subseteq Issued'
        /\ seen' \subseteq Issued' /\ late' \subseteq Issued'
    BY <2>1, <2>3 DEF TypeOK
  <2>5. jobs' \in Seq(JobSet(n + 1)) /\ callback' \in CallbackSet(n + 1)
    <3>1. JobSet(n) \subseteq JobSet(n + 1) /\ CallbackSet(n) \subseteq CallbackSet(n + 1)
      BY <1>0, JobsGrow
    <3> QED BY <1>0, <2>1, <3>1, SeqGrows
  <2>6. Len(statement') <= MaxQueries  BY <1>0, <2>1, <2>2, MaxQueriesAssumption
  <2>7. TypeOK'
    BY <2>1, <2>2, <2>4, <2>5, <2>6 DEF TypeOK, JobSet, CallbackSet, Whats
  <2> QED BY <2>1, <2>7 DEF Stages
<1>2. ASSUME NEW what \in {"commit", "rollback"}, CallerCompletes(what)
      PROVE  TypeOK' /\ Stages'
  <2>1. runningQueries \in SUBSET Issued  BY DEF TypeOK
  <2>2. Complete(what, "caller", runningQueries)  BY <1>2 DEF CallerCompletes
  <2>3. /\ Stages' /\ state' = "completing" /\ completion' = "pending" /\ decider' = "caller"
        /\ sent' = sent /\ ending' \in {"settlingCommit", "settlingRollback"}
        /\ waits' = runningQueries /\ rollbackFailure' = rollbackFailure
    BY <2>1, <2>2, CompleteStages
  <2>4. TypeOK'
    BY <1>0, <1>2, <2>1, <2>3, StepTyped, CurrentTypes
       DEF CallerCompletes, client, queries, history, Promises
  <2> QED BY <2>3, <2>4
<1>3. ASSUME NEW q \in Queries, AwaitQuery(q)
      PROVE  TypeOK' /\ Stages'
  <2>1. q \in Issued /\ handled' = handled \cup {q}  BY <1>3 DEF AwaitQuery
  <2>2. callback' \in CallbackSet(n)  BY <1>0, <1>3, <2>1 DEF AwaitQuery, CallbackSet
  <2>3. jobs' \in Seq(JobSet(n))  BY <1>0, <1>a, <1>3 DEF AwaitQuery
  <2>4. UNCHANGED <<pc, failed, outcome, state, completion, ending, waits, rollbackFailure,
                    decider, sent, statement, promise, runningQueries, justRejectedQueries,
                    rejectedQueries, known, seen, late>>
    BY <1>3 DEF AwaitQuery, client, terminal, queries, history
  <2>5. TypeOK'  BY <2>1, <2>2, <2>3, <2>4, StepTyped, CurrentTypes
  <2> QED BY <2>4, <2>5 DEF Stages
<1>4. CASE AwaitCompletion \/ AwaitElsewhere \/ ElsewhereSettles
           \/ \E how \in {"returned", "threw"} : CallbackEnds(how)
  <2>1. callback' \in CallbackSet(n)
    BY <1>0, <1>4 DEF AwaitCompletion, AwaitElsewhere, ElsewhereSettles, CallbackEnds, CallbackSet
  <2>2. jobs' \in Seq(JobSet(n))
    BY <1>0, <1>a, <1>4 DEF AwaitCompletion, AwaitElsewhere, ElsewhereSettles, CallbackEnds
  <2>3. late' \in {late, Issued \ known}
    BY <1>4 DEF AwaitCompletion, AwaitElsewhere, ElsewhereSettles, CallbackEnds, history
  <2>4. UNCHANGED <<pc, failed, outcome, state, completion, ending, waits, rollbackFailure,
                    decider, sent, statement, promise, runningQueries, justRejectedQueries,
                    rejectedQueries, handled, known, seen>>
    BY <1>4 DEF AwaitCompletion, AwaitElsewhere, ElsewhereSettles, CallbackEnds, client, terminal,
                queries, history
  <2>5. TypeOK'  BY <2>1, <2>2, <2>3, <2>4, StepTyped, CurrentTypes
  <2> QED BY <2>4, <2>5 DEF Stages
<1> QED BY <1>1, <1>2, <1>3, <1>4 DEF Caller

LEMMA ResumesTyped ==
  ASSUME TypeOK, NEW q \in 0..Len(statement), Resumes(q)
  PROVE  callback' \in CallbackSet(Len(statement)) /\ seen' \subseteq Issued
<1>1. Active \in CallbackSet(Len(statement))  BY QueueTypes DEF Active, CallbackSet
<1> QED BY <1>1 DEF Resumes, TypeOK

\* transaction() goes on with a completion, new or not.
LEMMA CompletionOrStages ==
  ASSUME TypeOK, Stages, jobs # <<>>, NEW what \in {"commit", "rollback"},
         NEW who \in {"finish", "abort"}, NEW running \in SUBSET Issued,
         CompletionOr(what, who, running)
  PROVE  /\ Stages'
         /\ state' \in {"open", "completing", "committed", "rolledBack", "failed"}
         /\ completion' \in Promises
         /\ decider' \in {"nobody", "caller", "finish", "abort"} /\ sent' = sent
         /\ ending' \in {"none", "settlingCommit", "committing", "undoing", "settlingRollback",
                         "rollingBack"}
         /\ waits' \in {running, waits} /\ rollbackFailure' = rollbackFailure
         /\ jobs' \in Seq(JobSet(Len(statement)))
<1>1. /\ Tail(jobs) \in Seq(JobSet(Len(statement)))
      /\ Append(Tail(jobs), TransactionResumes) \in Seq(JobSet(Len(statement)))
  BY QueueTypes, TailTyped, AppendTyped DEF TransactionResumes, Whats
<1>2. CASE completion = "none" /\ Complete(what, who, running) /\ jobs' = Tail(jobs)
  BY <1>1, <1>2, CompleteStages DEF Promises
<1>3. CASE completion # "none" /\ UNCHANGED terminal
           /\ jobs' \in {Tail(jobs), Append(Tail(jobs), TransactionResumes)}
  <2>1. UNCHANGED <<state, completion, ending, waits, rollbackFailure, decider, sent>>
    BY <1>3 DEF terminal
  <2> QED BY <1>1, <1>3, <2>1 DEF Stages, TypeOK
<1> QED BY <1>2, <1>3 DEF CompletionOr

LEMMA ReactionsTyped ==
  ASSUME TypeOK, NEW s \in Seq(JobSet(Len(statement))), NEW q \in Issued
  PROVE  s \o Reactions(q) \in Seq(JobSet(Len(statement)))
<1>1. /\ Job("react", q) \in JobSet(Len(statement)) /\ Job("forget", q) \in JobSet(Len(statement))
  BY QueueTypes, JobInSet DEF Whats, Issued
<1>2. Reactions(q) \in Seq(JobSet(Len(statement)))  BY <1>1 DEF Reactions
<1> QED BY <1>2

LEMMA JobTypes ==
  ASSUME TypeOK, Stages, JobsHold, RunsJob
  PROVE  TypeOK' /\ Stages'
<1> DEFINE n == Len(statement)
<1>0. /\ n \in Nat /\ Len(promise) = n /\ jobs \in Seq(JobSet(n)) /\ callback \in CallbackSet(n)
      /\ Issued = 1..n /\ DOMAIN promise = Issued /\ DOMAIN statement = Issued
      /\ \A j \in CallbackSet(n) : j.query \in 0..n
  BY QueueTypes DEF Issued, CallbackSet
<1>t. jobs # <<>> => Tail(jobs) \in Seq(JobSet(n)) /\ Head(jobs).query \in 0..n
  BY <1>0, TailTyped
<1>h. jobs # <<>> => Head(jobs) \in GoodJobs  BY DEF JobsHold
<1>1. CASE Settle
  <2> DEFINE q == Head(jobs).query
  <2>1. jobs # <<>> /\ Head(jobs).what = "settle"  BY <1>1 DEF Settle, NextJob
  <2>2. q \in Issued  BY <2>1, <1>h DEF GoodJobs
  <2>3. UNCHANGED <<pc, failed, outcome, state, completion, ending, waits, rollbackFailure,
                    decider, sent, statement, handled, callback, known, seen, late>>
    BY <1>1 DEF Settle, client, terminal, history
  <2>4. /\ promise' = [promise EXCEPT ![q] = statement[q]]
        /\ runningQueries' \subseteq runningQueries
        /\ justRejectedQueries' \subseteq justRejectedQueries \cup {q}
        /\ rejectedQueries' \subseteq rejectedQueries \cup {q}
        /\ jobs' = Tail(jobs) \o Reactions(q)
    BY <1>1 DEF Settle
  <2>5. promise' \in Seq(Promises) /\ Len(promise') = n
    <3>1. statement \in Seq(Promises) /\ promise \in Seq(Promises)  BY DEF TypeOK
    <3>2. statement[q] \in Promises  BY <3>1, <2>2, <1>0
    <3> QED BY <3>1, <3>2, <2>2, <2>4, <1>0, ExceptSeq
  <2>6. jobs' \in Seq(JobSet(n))  BY <2>1, <2>2, <2>4, <1>t, ReactionsTyped
  <2>7. TypeOK'  BY <1>0, <2>2, <2>3, <2>4, <2>5, <2>6, StepTyped, CurrentTypes
  <2> QED BY <2>3, <2>7 DEF Stages
<1>2. CASE Forget \/ Forgotten
  <2>1. jobs # <<>>  BY <1>2 DEF Forget, Forgotten, NextJob
  <2>2. jobs' \in Seq(JobSet(n))
    <3>1. Append(Tail(jobs), Job("forgotten", Head(jobs).query)) \in Seq(JobSet(n))
      BY <2>1, <1>t, <1>0, AppendTyped DEF Whats
    <3> QED BY <3>1, <2>1, <1>t, <1>2 DEF Forget, Forgotten
  <2>3. UNCHANGED <<pc, failed, outcome, state, completion, ending, waits, rollbackFailure,
                    decider, sent, statement, promise, runningQueries, rejectedQueries, handled,
                    callback, known, seen, late>>
    BY <1>2 DEF Forget, Forgotten, client, terminal, queries, history
  <2>4. justRejectedQueries' \subseteq justRejectedQueries  BY <1>2 DEF Forget, Forgotten, queries
  <2>5. TypeOK'  BY <1>0, <2>2, <2>3, <2>4, StepTyped, CurrentTypes
  <2> QED BY <2>3, <2>5 DEF Stages
<1>3. CASE React \/ CallbackGoesOn
  <2>1. jobs # <<>>  BY <1>3 DEF React, CallbackGoesOn, NextJob
  <2>2. jobs' = Tail(jobs)  BY <1>3 DEF React, CallbackGoesOn
  <2>3. known' \subseteq Issued
    BY <1>3, <1>h, <2>1 DEF React, CallbackGoesOn, NextJob, GoodJobs, TypeOK
  <2>4. callback' \in CallbackSet(n) /\ seen' \subseteq Issued
    <3>1. callback.query \in 0..n  BY <1>0
    <3>2. \/ UNCHANGED <<callback, seen>>
          \/ \E q \in 0..n : Resumes(q)
      BY <3>1, <2>1, <1>t, <1>3 DEF React, CallbackGoesOn
    <3> QED BY <3>2, <1>0, ResumesTyped DEF TypeOK
  <2>5. UNCHANGED <<pc, failed, outcome, state, completion, ending, waits, rollbackFailure,
                    decider, sent, statement, promise, runningQueries, justRejectedQueries,
                    rejectedQueries, handled, late>>
    BY <1>3 DEF React, CallbackGoesOn, client, terminal, queries
  <2>6. TypeOK'  BY <1>0, <1>t, <2>1, <2>2, <2>3, <2>4, <2>5, StepTyped, CurrentTypes
  <2> QED BY <2>5, <2>6 DEF Stages
<1>4. CASE Finish
  <2> DEFINE running == runningQueries \cup justRejectedQueries
  <2>1. jobs # <<>> /\ running \in SUBSET Issued  BY <1>4 DEF Finish, NextJob, TypeOK
  <2>2. CompletionOr("commit", "finish", running)  BY <1>4 DEF Finish
  <2>3. /\ pc' = "finishing" /\ runningQueries' = running
        /\ handled' \in {handled, handled \cup running}
        /\ UNCHANGED <<failed, outcome, statement, promise, justRejectedQueries, rejectedQueries,
                       callback, known, seen, late>>
    BY <1>4 DEF Finish, history
  <2>4. /\ Stages'
        /\ state' \in {"open", "completing", "committed", "rolledBack", "failed"}
        /\ completion' \in Promises
        /\ decider' \in {"nobody", "caller", "finish", "abort"} /\ sent' = sent
        /\ ending' \in {"none", "settlingCommit", "committing", "undoing", "settlingRollback",
                        "rollingBack"}
        /\ waits' \in {running, waits} /\ rollbackFailure' = rollbackFailure
        /\ jobs' \in Seq(JobSet(n))
    BY <2>1, <2>2, CompletionOrStages
  <2> QED BY <1>0, <2>1, <2>3, <2>4, StepTyped, CurrentTypes
<1>5. CASE Abort
  <2>1. jobs # <<>> /\ runningQueries \in SUBSET Issued  BY <1>5 DEF Abort, NextJob, TypeOK
  <2>2. CompletionOr("rollback", "abort", runningQueries)  BY <1>5 DEF Abort
  <2>3. /\ pc' = "aborting" /\ failed' = TRUE /\ handled' = handled \cup AbortHandles
        /\ UNCHANGED <<outcome, statement, promise, runningQueries, justRejectedQueries,
                       rejectedQueries, callback, known, seen, late>>
    BY <1>5 DEF Abort, queries, history
  <2>4. AbortHandles \subseteq Issued  BY DEF AbortHandles, TypeOK
  <2>5. /\ Stages'
        /\ state' \in {"open", "completing", "committed", "rolledBack", "failed"}
        /\ completion' \in Promises
        /\ decider' \in {"nobody", "caller", "finish", "abort"} /\ sent' = sent
        /\ ending' \in {"none", "settlingCommit", "committing", "undoing", "settlingRollback",
                        "rollingBack"}
        /\ waits' \in {runningQueries, waits} /\ rollbackFailure' = rollbackFailure
        /\ jobs' \in Seq(JobSet(n))
    BY <2>1, <2>2, CompletionOrStages
  <2> QED BY <1>0, <2>1, <2>3, <2>4, <2>5, StepTyped, CurrentTypes
<1>6. CASE Closing
  <2>1. jobs # <<>> /\ jobs' = Tail(jobs) /\ pc' = "closing"  BY <1>6 DEF Closing, NextJob
  <2>2. UNCHANGED <<failed, outcome, state, completion, ending, waits, rollbackFailure,
                    decider, sent, statement, promise, runningQueries, justRejectedQueries,
                    rejectedQueries, handled, callback, known, seen, late>>
    BY <1>6 DEF Closing, terminal, queries, history
  <2>3. TypeOK'  BY <1>0, <1>t, <2>1, <2>2, StepTyped, CurrentTypes
  <2> QED BY <2>2, <2>3 DEF Stages
<1>7. CASE CommitIfAllSucceeded \/ RollbackAfterAll
  <2>1. UNCHANGED <<pc, failed, outcome, waits, rollbackFailure,
                    decider, statement, promise, runningQueries, justRejectedQueries,
                    rejectedQueries, handled, callback, known, seen, late, jobs>>
    BY <1>7 DEF CommitIfAllSucceeded, RollbackAfterAll, client, queries, history
  <2>2. /\ Stages'
        /\ state' \in {"completing", "committed", "rolledBack", "failed"}
        /\ completion' \in Promises
        /\ ending' \in {"none", "committing", "undoing", "rollingBack"}
        /\ sent' \in Seq({"commit", "rollback"})
    BY <1>7, EndingStages
  <2> QED BY <1>0, <2>1, <2>2, StepTyped, CurrentTypes
<1> QED BY <1>1, <1>2, <1>3, <1>4, <1>5, <1>6, <1>7 DEF RunsJob

LEMMA CompletedTyped ==
  ASSUME TypeOK, NEW result, Completed(result)
  PROVE  callback' \in CallbackSet(Len(statement)) /\ jobs' \in Seq(JobSet(Len(statement)))
<1>1. /\ Append(jobs, CallbackResumes) \in Seq(JobSet(Len(statement)))
      /\ Append(jobs, TransactionResumes) \in Seq(JobSet(Len(statement)))
  BY QueueTypes, AppendTyped DEF CallbackResumes, TransactionResumes, Whats
<1>2. [at |-> "resuming", query |-> 0] \in CallbackSet(Len(statement))
  BY QueueTypes DEF CallbackSet
<1> QED BY <1>1, <1>2, QueueTypes DEF Completed

LEMMA AnswerTypes ==
  ASSUME TypeOK, Stages, Answers
  PROVE  TypeOK' /\ Stages'
<1> DEFINE n == Len(statement)
<1>0. /\ n \in Nat /\ Len(promise) = n /\ jobs \in Seq(JobSet(n)) /\ callback \in CallbackSet(n)
      /\ Issued = 1..n /\ DOMAIN promise = Issued /\ DOMAIN statement = Issued
      /\ Active \in CallbackSet(n)
  BY QueueTypes DEF Issued, CallbackSet, Active
<1>1. CASE Prepares \/ CloseAnswered
  <2>1. pc' \in {"options", "beginning", "callback", "closing", "done"}
    BY <1>1 DEF Prepares, CloseAnswered, AfterAwait
  <2>2. failed' \in BOOLEAN  BY <1>1 DEF Prepares, CloseAnswered, TypeOK
  <2>3. outcome' \in Promises /\ callback' \in CallbackSet(n)
    BY <1>0, <1>1 DEF Prepares, CloseAnswered, TypeOK, Promises
  <2>4. UNCHANGED <<state, completion, ending, waits, rollbackFailure,
                    decider, sent, statement, promise, runningQueries, justRejectedQueries,
                    rejectedQueries, handled, known, seen, late, jobs>>
    BY <1>1 DEF Prepares, CloseAnswered, terminal, queries, history
  <2>5. TypeOK'  BY <1>0, <2>1, <2>2, <2>3, <2>4, StepTyped, CurrentTypes
  <2> QED BY <2>4, <2>5 DEF Stages
<1>2. CASE CommitAnswered \/ UndoAnswered \/ RollbackAnswered
  <2>1. UNCHANGED <<pc, failed, outcome, waits,
                    decider, statement, promise, runningQueries, justRejectedQueries,
                    rejectedQueries, handled, known, seen, late>>
    BY <1>2 DEF CommitAnswered, UndoAnswered, RollbackAnswered, client, queries, history
  <2>2. callback' \in CallbackSet(n) /\ jobs' \in Seq(JobSet(n))
    <3>1. UNCHANGED <<callback, jobs>> \/ Completed("fulfilled") \/ Completed("rejected")
      BY <1>2 DEF CommitAnswered, UndoAnswered, RollbackAnswered
    <3> QED BY <3>1, <1>0, CompletedTyped
  <2>3. rollbackFailure' \in BOOLEAN
    BY <1>2 DEF CommitAnswered, UndoAnswered, RollbackAnswered, TypeOK
  <2>4. /\ Stages'
        /\ state' \in {"completing", "committed", "rolledBack", "failed"}
        /\ completion' \in Promises
        /\ ending' \in {"none", "committing", "undoing", "rollingBack"}
        /\ sent' \in Seq({"commit", "rollback"})
    BY <1>2, EndingStages
  <2> QED BY <1>0, <2>1, <2>2, <2>3, <2>4, StepTyped, CurrentTypes
<1>3. ASSUME NEW q \in Queries, NEW result \in {"fulfilled", "rejected"}, StatementSettles(q, result)
      PROVE  TypeOK' /\ Stages'
  <2>1. /\ q \in Issued /\ statement' = [statement EXCEPT ![q] = result]
        /\ jobs' = Append(jobs, Job("settle", q))
        /\ UNCHANGED <<pc, failed, outcome, state, completion, ending, waits, rollbackFailure,
                       decider, sent, promise, runningQueries, justRejectedQueries,
                       rejectedQueries, handled, callback, known, seen, late>>
    BY <1>3 DEF StatementSettles, client, terminal, history
  <2>2. statement' \in Seq(Promises) /\ Len(statement') = n
    <3>1. statement \in Seq(Promises) /\ result \in Promises  BY DEF TypeOK, Promises
    <3> QED BY <3>1, <2>1, <1>0, ExceptSeq
  <2>3. jobs' \in Seq(JobSet(n))
    BY <1>0, <2>1, AppendTyped DEF Whats
  <2>4. Issued' = Issued  BY <2>2 DEF Issued
  <2>5. TypeOK'
    <3>1. /\ promise' \in Seq(Promises) /\ Len(promise') = Len(statement')
          /\ Len(statement') <= MaxQueries
      BY <1>0, <2>1, <2>2 DEF TypeOK
    <3>2. /\ waits' \subseteq Issued' /\ runningQueries' \subseteq Issued'
          /\ justRejectedQueries' \subseteq Issued' /\ rejectedQueries' \subseteq Issued'
          /\ handled' \subseteq Issued' /\ known' \subseteq Issued'
          /\ seen' \subseteq Issued' /\ late' \subseteq Issued'
      BY <2>1, <2>4, CurrentTypes
    <3>3. callback' \in CallbackSet(Len(statement')) /\ jobs' \in Seq(JobSet(Len(statement')))
      BY <1>0, <2>1, <2>2, <2>3
    <3>4. callback' \in [at : {"none", "active", "query", "resuming", "completion", "elsewhere",
                              "returned", "threw"},
                         query : 0..Len(statement')]
      BY <3>3, Zenon DEF CallbackSet
    <3>5. jobs' \in Seq([what : {"settle", "forget", "forgotten", "react", "callback",
                                "transaction"},
                         query : 0..Len(statement')])
      BY <3>3, Zenon DEF JobSet, Whats
    <3>6. /\ pc' \in {"connecting", "options", "beginning", "callback", "finishing", "aborting",
                      "closing", "done"}
          /\ failed' \in BOOLEAN /\ outcome' \in Promises
          /\ state' \in {"open", "completing", "committed", "rolledBack", "failed"}
          /\ completion' \in Promises \cup {"none"}
          /\ ending' \in {"none", "settlingCommit", "committing", "undoing", "settlingRollback",
                          "rollingBack"}
          /\ rollbackFailure' \in BOOLEAN
          /\ decider' \in {"nobody", "caller", "finish", "abort"}
          /\ sent' \in Seq({"commit", "rollback"})
      BY <2>1, CurrentTypes
    <3> QED BY <2>2, <3>1, <3>2, <3>4, <3>5, <3>6, Zenon DEF TypeOK
  <2> QED BY <2>1, <2>5 DEF Stages
<1> QED BY <1>1, <1>2, <1>3 DEF Answers

-----------------------------------------------------------------------------
(* The queue of jobs, step by step.                                        *)

\* What a step does to the queue.
Keeps == jobs' = jobs
Takes == jobs # <<>> /\ jobs' = Tail(jobs)
ResumesCallback ==
  /\ jobs' = Append(jobs, CallbackResumes)
  /\ callback.at # "resuming" /\ callback'.at = "resuming"
ResumesTransaction ==
  \/ jobs' = Append(jobs, TransactionResumes)
  \/ jobs # <<>> /\ jobs' = Append(Tail(jobs), TransactionResumes)
Answered ==
  \E q \in Issued : statement'[q] # "pending" /\ jobs' = Append(jobs, Job("settle", q))
Reacts ==
  \E q \in Issued : jobs # <<>> /\ promise'[q] # "pending" /\ jobs' = Tail(jobs) \o Reactions(q)
Forgets ==
  \E q \in Issued : jobs # <<>> /\ jobs' = Append(Tail(jobs), Job("forgotten", q))

QueueStep ==
  Keeps \/ Takes \/ ResumesCallback \/ ResumesTransaction \/ Answered \/ Reacts \/ Forgets

\* A callback that is to go on goes on by its job.
CallbackStep ==
  callback.at = "resuming" /\ callback'.at # "resuming" => NextJob("callback") /\ Takes

\* What has settled stays settled.
SettledStay ==
  /\ Len(statement) <= Len(statement') /\ Len(promise) <= Len(promise')
  /\ \A q \in Issued : statement[q] # "pending" => statement'[q] # "pending"
  /\ \A q \in Issued : promise[q] # "pending" => promise'[q] # "pending"

LEMMA QueueSteps ==
  ASSUME TypeOK, Stages, JobsHold, Unstarted, Next
  PROVE  QueueStep /\ CallbackStep /\ SettledStay
<1> DEFINE n == Len(statement)
<1>0. /\ n \in Nat /\ Len(promise) = n /\ Issued = 1..n
      /\ DOMAIN promise = Issued /\ DOMAIN statement = Issued
  BY QueueTypes DEF Issued
<1>h. jobs # <<>> => Head(jobs) \in GoodJobs  BY DEF JobsHold
<1>s. UNCHANGED <<statement, promise>> => SettledStay  BY <1>0 DEF SettledStay
<1>c. ASSUME NEW result, Completed(result)
      PROVE  (Keeps \/ ResumesCallback \/ ResumesTransaction) /\ CallbackStep
  BY <1>c DEF Completed, Keeps, ResumesCallback, ResumesTransaction, CallbackStep
<1>d. ASSUME NEW what, NEW who, NEW running, CompletionOr(what, who, running), jobs # <<>>
      PROVE  Takes \/ ResumesTransaction
  BY <1>d DEF CompletionOr, Takes, ResumesTransaction
<1>1. CASE Caller
  <2>1. CASE Track
    <3>1. /\ statement' = Append(statement, "pending") /\ promise' = Append(promise, "pending")
          /\ UNCHANGED <<jobs, callback>>
      BY <2>1 DEF Track
    <3>2. SettledStay
      <4>1. statement \in Seq(Promises) /\ promise \in Seq(Promises) /\ "pending" \in Promises
        BY DEF TypeOK, Promises
      <4>2. /\ Len(statement') = n + 1 /\ \A q \in 1..n : statement'[q] = statement[q]
            /\ Len(promise') = n + 1 /\ \A q \in 1..n : promise'[q] = promise[q]
        BY <1>0, <3>1, <4>1, AppendProperties
      <4> QED BY <1>0, <4>2 DEF SettledStay
    <3> QED BY <3>1, <3>2 DEF QueueStep, Keeps, CallbackStep
  <2>2. ASSUME NEW what, CallerCompletes(what)
        PROVE  QueueStep /\ CallbackStep /\ SettledStay
    BY <1>s, <2>2 DEF CallerCompletes, queries, QueueStep, Keeps, CallbackStep
  <2>3. ASSUME NEW q, AwaitQuery(q)
        PROVE  QueueStep /\ CallbackStep /\ SettledStay
    <3>1. Keeps \/ ResumesCallback  BY <2>3 DEF AwaitQuery, Keeps, ResumesCallback
    <3>2. CallbackStep  BY <2>3 DEF AwaitQuery, CallbackStep
    <3>3. SettledStay  BY <1>s, <2>3 DEF AwaitQuery, queries
    <3> QED BY <3>1, <3>2, <3>3 DEF QueueStep
  <2>4. CASE AwaitCompletion \/ AwaitElsewhere \/ ElsewhereSettles
    <3>1. Keeps \/ ResumesCallback
      BY <2>4 DEF AwaitCompletion, AwaitElsewhere, ElsewhereSettles, Keeps, ResumesCallback
    <3>2. CallbackStep
      BY <2>4 DEF AwaitCompletion, AwaitElsewhere, ElsewhereSettles, CallbackStep
    <3>3. SettledStay
      BY <1>s, <2>4 DEF AwaitCompletion, AwaitElsewhere, ElsewhereSettles, queries
    <3> QED BY <3>1, <3>2, <3>3 DEF QueueStep
  <2>5. ASSUME NEW how, CallbackEnds(how)
        PROVE  QueueStep /\ CallbackStep /\ SettledStay
    BY <1>s, <2>5 DEF CallbackEnds, queries, QueueStep, ResumesTransaction, CallbackStep
  <2> QED BY <1>1, <2>1, <2>2, <2>3, <2>4, <2>5 DEF Caller
<1>2. CASE RunsJob
  <2>1. CASE Settle
    <3> DEFINE q == Head(jobs).query
    <3>1. jobs # <<>> /\ q \in Issued /\ statement[q] # "pending"
      BY <1>h, <2>1 DEF Settle, NextJob, GoodJobs
    <3>2. /\ promise' = [promise EXCEPT ![q] = statement[q]] /\ statement' = statement
          /\ jobs' = Tail(jobs) \o Reactions(q) /\ callback' = callback
      BY <2>1 DEF Settle
    <3>3. Reacts  BY <1>0, <3>1, <3>2 DEF Reacts
    <3>4. SettledStay
      <4>1. Len(promise') = n /\ \A r \in Issued : promise'[r] = IF r = q THEN statement[q] ELSE promise[r]
        BY <1>0, <3>1, <3>2
      <4> QED BY <1>0, <3>1, <3>2, <4>1 DEF SettledStay
    <3> QED BY <3>2, <3>3, <3>4 DEF QueueStep, CallbackStep
  <2>2. CASE Forget
    <3>1. jobs # <<>> /\ Head(jobs).query \in Issued  BY <1>h, <2>2 DEF Forget, NextJob, GoodJobs
    <3> QED BY <1>s, <2>2, <3>1 DEF Forget, queries, QueueStep, Forgets, CallbackStep
  <2>3. CASE Forgotten
    BY <1>s, <2>3 DEF Forgotten, NextJob, QueueStep, Takes, CallbackStep
  <2>4. CASE React
    <3>1. Takes  BY <2>4 DEF React, NextJob, Takes
    <3>2. CallbackStep  BY <2>4 DEF React, CallbackStep
    <3> QED BY <1>s, <2>4, <3>1, <3>2 DEF React, queries, QueueStep
  <2>5. CASE CallbackGoesOn
    BY <1>s, <2>5 DEF CallbackGoesOn, NextJob, queries, QueueStep, Takes, CallbackStep
  <2>6. CASE Finish \/ Abort
    <3>1. jobs # <<>>  BY <2>6 DEF Finish, Abort, NextJob
    <3>2. Takes \/ ResumesTransaction  BY <1>d, <2>6, <3>1 DEF Finish, Abort
    <3>3. UNCHANGED <<statement, promise, callback>>  BY <2>6 DEF Finish, Abort, queries
    <3> QED BY <1>s, <3>2, <3>3 DEF QueueStep, CallbackStep
  <2>7. CASE Closing
    BY <1>s, <2>7 DEF Closing, NextJob, queries, QueueStep, Takes, CallbackStep
  <2>8. CASE CommitIfAllSucceeded \/ RollbackAfterAll
    BY <1>s, <2>8 DEF CommitIfAllSucceeded, RollbackAfterAll, queries, QueueStep, Keeps, CallbackStep
  <2> QED BY <1>2, <2>1, <2>2, <2>3, <2>4, <2>5, <2>6, <2>7, <2>8 DEF RunsJob
<1>3. CASE Answers
  <2>1. CASE Prepares
    <3>1. UNCHANGED <<jobs, statement, promise>>  BY <2>1 DEF Prepares, queries
    <3>2. callback' \in {callback, Active}  BY <2>1 DEF Prepares
    <3>3. callback' # callback => pc = "beginning"  BY <2>1 DEF Prepares
    <3>4. CallbackStep  BY <3>2, <3>3 DEF CallbackStep, Unstarted
    <3> QED BY <1>s, <3>1, <3>4 DEF QueueStep, Keeps
  <2>2. CASE CloseAnswered
    BY <1>s, <2>2 DEF CloseAnswered, queries, QueueStep, Keeps, CallbackStep
  <2>3. CASE CommitAnswered \/ UndoAnswered \/ RollbackAnswered
    <3>1. (Keeps /\ callback' = callback) \/ (\E result : Completed(result))
      BY <2>3 DEF CommitAnswered, UndoAnswered, RollbackAnswered, Keeps
    <3>2. UNCHANGED <<statement, promise>>
      BY <2>3 DEF CommitAnswered, UndoAnswered, RollbackAnswered, queries
    <3> QED BY <1>c, <1>s, <3>1, <3>2 DEF QueueStep, CallbackStep
  <2>4. ASSUME NEW q, NEW result \in {"fulfilled", "rejected"}, StatementSettles(q, result)
        PROVE  QueueStep /\ CallbackStep /\ SettledStay
    <3>1. /\ q \in Issued /\ statement' = [statement EXCEPT ![q] = result]
          /\ jobs' = Append(jobs, Job("settle", q)) /\ UNCHANGED <<promise, callback>>
      BY <2>4 DEF StatementSettles
    <3>2. /\ Len(statement') = n
          /\ \A r \in Issued : statement'[r] = IF r = q THEN result ELSE statement[r]
      BY <1>0, <3>1
    <3>3. Answered  BY <3>1, <3>2 DEF Answered
    <3>4. SettledStay  BY <1>0, <3>1, <3>2 DEF SettledStay
    <3> QED BY <3>1, <3>3, <3>4 DEF QueueStep, CallbackStep
  <2> QED BY <1>3, <2>1, <2>2, <2>3, <2>4 DEF Answers
<1> QED BY <1>1, <1>2, <1>3 DEF Next

-----------------------------------------------------------------------------
(* The jobs stay what they are.                                         *)

LEMMA GoodJobsStay ==
  ASSUME TypeOK, TypeOK', SettledStay
  PROVE  GoodJobs \subseteq GoodJobs'
<1>1. /\ Len(statement) \in Nat /\ Len(statement') \in Nat
      /\ Issued = 1..Len(statement) /\ Issued' = 1..Len(statement')
  <2>1. statement \in Seq(Promises) /\ statement' \in Seq(Promises)  BY DEF TypeOK
  <2> QED BY <2>1 DEF Issued
<1>2. JobSet(Len(statement)) \subseteq JobSet(Len(statement'))
  BY <1>1, JobsGrow DEF SettledStay
<1>3. Issued \subseteq Issued'  BY <1>1 DEF SettledStay
<1> QED BY <1>2, <1>3 DEF GoodJobs, SettledStay

LEMMA JobsHoldStep ==
  ASSUME TypeOK, TypeOK', JobsHold, QueueStep, SettledStay
  PROVE  JobsHold'
<1> DEFINE n == Len(statement)
<1>0. jobs \in Seq(GoodJobs')  BY GoodJobsStay, SeqGrows DEF JobsHold
<1>1. jobs # <<>> => Tail(jobs) \in Seq(GoodJobs')  BY <1>0
<1>2. /\ Len(statement') \in Nat /\ Issued' = 1..Len(statement') /\ Issued \subseteq Issued'
  <2>1. statement \in Seq(Promises) /\ statement' \in Seq(Promises)  BY DEF TypeOK
  <2> QED BY <2>1 DEF Issued, SettledStay
<1>3. CallbackResumes \in GoodJobs' /\ TransactionResumes \in GoodJobs'
  <2>1. Job("callback", 0) \in JobSet(Len(statement')) /\ Job("transaction", 0) \in JobSet(Len(statement'))
    BY <1>2, JobInSet DEF Whats
  <2> QED BY <2>1 DEF GoodJobs, Job, CallbackResumes, TransactionResumes
<1>4. ASSUME NEW q \in Issued, NEW what \in {"settle", "forget", "forgotten", "react"},
             what = "settle" => statement'[q] # "pending",
             what = "react" => promise'[q] # "pending"
      PROVE  Job(what, q) \in GoodJobs'
  <2>1. Job(what, q) \in JobSet(Len(statement'))  BY <1>2, JobInSet DEF Whats
  <2> QED BY <2>1, <1>2, <1>4 DEF GoodJobs, Job
<1>5. CASE Keeps  BY <1>0, <1>5 DEF Keeps, JobsHold
<1>6. CASE Takes  BY <1>1, <1>6 DEF Takes, JobsHold
<1>7. CASE ResumesCallback  BY <1>0, <1>3, <1>7 DEF ResumesCallback, JobsHold
<1>8. CASE ResumesTransaction  BY <1>0, <1>1, <1>3, <1>8 DEF ResumesTransaction, JobsHold
<1>9. CASE Answered  BY <1>0, <1>4, <1>9 DEF Answered, JobsHold
<1>10. CASE Forgets  BY <1>1, <1>4, <1>10 DEF Forgets, JobsHold
<1>11. CASE Reacts
  <2>1. PICK q \in Issued :
          jobs # <<>> /\ promise'[q] # "pending" /\ jobs' = Tail(jobs) \o Reactions(q)
    BY <1>11 DEF Reacts
  <2>2. Job("forget", q) \in GoodJobs' /\ Job("react", q) \in GoodJobs'  BY <1>4, <2>1
  <2>3. Reactions(q) \in Seq(GoodJobs')  BY <2>2 DEF Reactions
  <2> QED BY <1>1, <2>1, <2>3 DEF JobsHold
<1> QED BY <1>5, <1>6, <1>7, <1>8, <1>9, <1>10, <1>11 DEF QueueStep

\* Neither does another job of the callback appear, nor one of an idle callback.
LEMMA CallbackJobsStep ==
  ASSUME TypeOK, TypeOK', JobsHold, CallbackJobs, QueueStep, CallbackStep
  PROVE  CallbackJobs'
<1> DEFINE S == JobSet(Len(statement))
<1>0. jobs \in Seq(S) /\ Len(jobs) \in Nat  BY QueueTypes
<1>1. ASSUME jobs # <<>>
      PROVE  /\ Tail(jobs) \in Seq(S) /\ Len(Tail(jobs)) = Len(jobs) - 1
             /\ \A i \in 1..Len(Tail(jobs)) : Tail(jobs)[i] = jobs[i + 1]
             /\ Head(jobs) = jobs[1] /\ Len(jobs) >= 1
  BY <1>0, <1>1, HeadTailProperties
<1>2. ASSUME NEW s, NEW rest, s \in Seq(S), rest \in Seq(S),
             \A i \in 1..Len(rest) : rest[i].what # "callback",
             jobs' = s \o rest, s = jobs \/ (jobs # <<>> /\ s = Tail(jobs)),
             callback'.at = "resuming" \/ callback.at # "resuming" \/ (s = Tail(jobs) /\ Head(jobs).what = "callback")
      PROVE  CallbackJobs'
  <2>1. /\ Len(s) \in Nat /\ Len(rest) \in Nat /\ Len(jobs') = Len(s) + Len(rest)
        /\ \A i \in 1..Len(s) : jobs'[i] = s[i]
        /\ \A i \in 1..Len(jobs') : i > Len(s) => jobs'[i] = rest[i - Len(s)]
    BY <1>2, ConcatProperties
  <2>2. \A i \in 1..Len(jobs') : jobs'[i].what = "callback" => i \in 1..Len(s) /\ s[i].what = "callback"
    BY <1>2, <2>1
  <2>3. CASE s = jobs
    BY <1>2, <2>1, <2>2, <2>3 DEF CallbackJobs
  <2>4. CASE jobs # <<>> /\ s = Tail(jobs)
    BY <1>0, <1>1, <1>2, <2>1, <2>2, <2>4 DEF CallbackJobs
  <2> QED BY <1>2, <2>3, <2>4
<1>3. ASSUME NEW what \in Whats \ {"callback"}, NEW q \in 0..Len(statement)
      PROVE  /\ <<Job(what, q)>> \in Seq(S)
             /\ \A i \in 1..Len(<<Job(what, q)>>) : <<Job(what, q)>>[i].what # "callback"
             /\ \A s \in Seq(S) : Append(s, Job(what, q)) = s \o <<Job(what, q)>>
  <2>1. Job(what, q) \in S  BY <1>3, QueueTypes, JobInSet
  <2> QED BY <2>1, <1>3, AppendIsConcat DEF Job
<1>4. CASE Keeps
  BY <1>0, <1>4 DEF Keeps, CallbackStep, CallbackJobs, Takes, NextJob
<1>t. CASE jobs # <<>> /\ \E rest \in Seq(S) : /\ jobs' = Tail(jobs) \o rest
                                              /\ \A i \in 1..Len(rest) : rest[i].what # "callback"
  <2>1. PICK rest \in Seq(S) :
          jobs' = Tail(jobs) \o rest /\ \A i \in 1..Len(rest) : rest[i].what # "callback"
    BY <1>t
  <2>2. callback'.at = "resuming" \/ callback.at # "resuming" \/ Head(jobs).what = "callback"
    BY DEF CallbackStep, NextJob
  <2> QED BY <1>1, <1>2, <1>t, <2>1, <2>2
<1>k. CASE \E rest \in Seq(S) : /\ jobs' = jobs \o rest /\ Len(rest) > 0
                               /\ \A i \in 1..Len(rest) : rest[i].what # "callback"
  <2>1. PICK rest \in Seq(S) : /\ jobs' = jobs \o rest /\ Len(rest) > 0
                              /\ \A i \in 1..Len(rest) : rest[i].what # "callback"
    BY <1>k
  <2>2. Len(jobs') > Len(jobs)  BY <1>0, <2>1, ConcatProperties
  <2>3. ~Takes  BY <1>0, <1>1, <2>2 DEF Takes
  <2> QED BY <1>0, <1>2, <2>1, <2>3 DEF CallbackStep
<1>5. CASE Takes
  <2>1. Tail(jobs) = Tail(jobs) \o <<>> /\ <<>> \in Seq(S)
    BY <1>1, <1>5, ConcatEmptySeq DEF Takes
  <2>2. \A i \in 1..Len(<<>>) : FALSE  OBVIOUS
  <2>3. callback'.at = "resuming" \/ callback.at # "resuming" \/ Head(jobs).what = "callback"
    BY DEF CallbackStep, NextJob
  <2>4. jobs # <<>> /\ Tail(jobs) \in Seq(S)  BY <1>1, <1>5 DEF Takes
  <2>5. jobs' = Tail(jobs) \o <<>>  BY <1>5, <2>1 DEF Takes
  <2> QED BY <1>2, <2>1, <2>2, <2>3, <2>4, <2>5
<1>6. CASE ResumesCallback
  <2>1. \A i \in 1..Len(jobs) : jobs[i].what # "callback"  BY <1>6 DEF ResumesCallback, CallbackJobs
  <2>2. CallbackResumes \in S  BY QueueTypes, JobInSet DEF CallbackResumes, Whats
  <2>3. Len(jobs') = Len(jobs) + 1 /\ \A i \in 1..Len(jobs) : jobs'[i] = jobs[i]
    BY <1>0, <1>6, <2>2, AppendProperties DEF ResumesCallback
  <2> QED BY <1>0, <1>6, <2>1, <2>3 DEF ResumesCallback, CallbackJobs
<1>7. CASE ResumesTransaction
  <2> DEFINE rest == <<TransactionResumes>>
  <2>1. /\ rest \in Seq(S) /\ \A i \in 1..Len(rest) : rest[i].what # "callback"
        /\ \A s \in Seq(S) : Append(s, TransactionResumes) = s \o rest
        /\ Len(rest) > 0
    BY <1>3, QueueTypes DEF TransactionResumes, Whats
  <2>2. CASE jobs' = Append(jobs, TransactionResumes)
    BY <1>0, <1>k, <2>1, <2>2
  <2>3. CASE jobs # <<>> /\ jobs' = Append(Tail(jobs), TransactionResumes)
    BY <1>1, <1>t, <2>1, <2>3
  <2> QED BY <1>7, <2>2, <2>3 DEF ResumesTransaction
<1>8. CASE Answered
  <2>1. PICK q \in Issued : jobs' = Append(jobs, Job("settle", q))  BY <1>8 DEF Answered
  <2> DEFINE rest == <<Job("settle", q)>>
  <2>2. q \in 0..Len(statement)  BY QueueTypes DEF Issued
  <2>3. /\ rest \in Seq(S) /\ \A i \in 1..Len(rest) : rest[i].what # "callback"
        /\ jobs' = jobs \o rest /\ Len(rest) > 0
    BY <1>0, <1>3, <2>1, <2>2 DEF Whats
  <2> QED BY <1>k, <2>3
<1>9. CASE Forgets
  <2>1. PICK q \in Issued : jobs # <<>> /\ jobs' = Append(Tail(jobs), Job("forgotten", q))
    BY <1>9 DEF Forgets
  <2> DEFINE rest == <<Job("forgotten", q)>>
  <2>2. q \in 0..Len(statement)  BY QueueTypes DEF Issued
  <2>3. /\ rest \in Seq(S) /\ \A i \in 1..Len(rest) : rest[i].what # "callback"
        /\ jobs' = Tail(jobs) \o rest
    BY <1>1, <1>3, <2>1, <2>2 DEF Whats
  <2> QED BY <1>t, <2>1, <2>3
<1>10. CASE Reacts
  <2>1. PICK q \in Issued : jobs # <<>> /\ jobs' = Tail(jobs) \o Reactions(q)
    BY <1>10 DEF Reacts
  <2>2. q \in 0..Len(statement)  BY QueueTypes DEF Issued
  <2>3. Job("forget", q) \in S /\ Job("react", q) \in S  BY <2>2, QueueTypes, JobInSet DEF Whats
  <2>4. Reactions(q) \in Seq(S)  BY <2>3 DEF Reactions
  <2>5. \A i \in 1..Len(Reactions(q)) : Reactions(q)[i] \in {Job("forget", q), Job("react", q)}
    <3>1. CASE statement[q] = "rejected"
      <4>1. Len(<<Job("forget", q), Job("react", q)>>) = 2  OBVIOUS
      <4> QED BY <3>1, <4>1 DEF Reactions
    <3>2. CASE statement[q] # "rejected"
      <4>1. Len(<<Job("react", q)>>) = 1  OBVIOUS
      <4> QED BY <3>2, <4>1 DEF Reactions
    <3> QED BY <3>1, <3>2
  <2>6. Job("forget", q).what # "callback" /\ Job("react", q).what # "callback"  BY DEF Job
  <2> QED BY <1>t, <2>1, <2>4, <2>5, <2>6
<1> QED BY <1>4, <1>5, <1>6, <1>7, <1>8, <1>9, <1>10 DEF QueueStep

-----------------------------------------------------------------------------
(* What the statements, transaction() and its completion agree on.          *)

\* Promises follow the statements, and every pending one is waited for.
Promised ==
  /\ \A q \in Issued : promise[q] # "pending" => promise[q] = statement[q]
  /\ \A q \in Issued : promise[q] = "pending" => q \in runningQueries
  /\ \A q \in Issued : promise[q] = "rejected" => q \in rejectedQueries
  /\ state # "open" => \A q \in Issued : promise[q] = "pending" => q \in waits
  /\ sent # <<>> => \A q \in Issued : promise[q] # "pending"
  /\ waits \subseteq handled

\* transaction() only moves on when its callback has ended, and knows how it went.
Progress ==
  /\ pc = "callback" => ~failed
  /\ pc = "finishing" => ~failed
  /\ pc = "aborting" => failed
  /\ pc \in {"finishing", "aborting"} => CallbackEnded /\ state # "open"
  /\ pc \in {"closing", "done"} /\ ~failed => completion = "fulfilled" /\ CallbackEnded
  /\ outcome = "fulfilled" => pc = "done" /\ ~failed

\* Who completed the transaction, and what that makes of it.
Deciders ==
  /\ state # "open" => decider # "nobody"
  /\ decider = "abort" =>
       failed /\ ending \notin {"settlingCommit", "committing"} /\ state # "committed"
  /\ decider = "finish" =>
       /\ pc \in {"finishing", "aborting", "closing", "done"}
       /\ ending \notin {"settlingRollback", "rollingBack"} /\ state # "rolledBack"
       /\ failed => completion = "rejected"

\* While all goes well nobody but the callback, who is told, listens to a failure.
Awaited(q) == callback.at \in {"query", "resuming"} /\ callback.query = q
Attended ==
  /\ ~failed => \A q \in handled :
       q \in waits \/ q \in seen \/ promise[q] = "fulfilled" \/ Awaited(q)
  /\ callback.at = "resuming" /\ callback.query # 0 => promise[callback.query] # "pending"
  /\ ending = "committing" \/ state = "committed" => \A q \in waits : promise[q] = "fulfilled"

\* After a failure every rejection there was is listened to.
Quieted ==
  pc \in {"aborting", "closing", "done"} /\ failed /\ callback.at # "none" =>
    state # "open" /\ rejectedQueries \subseteq handled

-----------------------------------------------------------------------------
(* Promised is kept.                                                        *)

LEMMA PromisedKept ==
  ASSUME Promised, UNCHANGED <<statement, promise>>,
         runningQueries \subseteq runningQueries', rejectedQueries \subseteq rejectedQueries',
         waits' \subseteq handled',
         state' # "open" =>
           (state # "open" /\ waits' = waits) \/ (runningQueries \subseteq waits'),
         sent' # <<>> => sent # <<>> \/ \A q \in Issued : promise[q] # "pending"
  PROVE  Promised'
  BY DEF Promised, Issued

LEMMA CallerPromised ==
  ASSUME TypeOK, Stages, Promised, Caller
  PROVE  Promised'
<1>0. /\ Len(statement) \in Nat /\ Len(promise) = Len(statement) /\ Issued = 1..Len(statement)
  BY QueueTypes DEF Issued
<1>1. CASE Track
  <2>1. /\ statement' = Append(statement, "pending") /\ promise' = Append(promise, "pending")
        /\ runningQueries' = runningQueries \cup {Len(statement) + 1}
        /\ state = "open"
        /\ UNCHANGED <<state, waits, handled, rejectedQueries, sent>>
    BY <1>1 DEF Track, terminal
  <2>2. statement \in Seq(Promises) /\ promise \in Seq(Promises) /\ "pending" \in Promises
    BY DEF TypeOK, Promises
  <2>3. /\ Len(statement') = Len(statement) + 1
        /\ \A q \in Issued : statement'[q] = statement[q] /\ promise'[q] = promise[q]
        /\ promise'[Len(statement) + 1] = "pending"
    BY <1>0, <2>1, <2>2, AppendProperties
  <2>4. Issued' = Issued \cup {Len(statement) + 1}  BY <1>0, <2>3 DEF Issued
  <2> QED BY <2>1, <2>3, <2>4 DEF Promised, Stages
<1>2. ASSUME NEW what \in {"commit", "rollback"}, CallerCompletes(what)
      PROVE  Promised'
  BY <1>2, PromisedKept DEF CallerCompletes, Complete, queries, Stages
<1>3. CASE UNCHANGED <<terminal, queries>> /\ handled \subseteq handled'
  BY <1>3, PromisedKept DEF terminal, queries, Promised
<1> QED BY <1>1, <1>2, <1>3
  DEF Caller, AwaitQuery, AwaitCompletion, AwaitElsewhere, ElsewhereSettles, CallbackEnds

LEMMA JobPromised ==
  ASSUME TypeOK, Stages, JobsHold, Promised, RunsJob
  PROVE  Promised'
<1>0. /\ Len(statement) \in Nat /\ Len(promise) = Len(statement) /\ Issued = 1..Len(statement)
      /\ DOMAIN promise = Issued
  BY QueueTypes DEF Issued
<1>h. jobs # <<>> => Head(jobs) \in GoodJobs  BY DEF JobsHold
<1>1. CASE Settle
  <2> DEFINE q == Head(jobs).query
  <2>1. q \in Issued /\ statement[q] # "pending"
    BY <1>h, <1>1 DEF Settle, NextJob, GoodJobs
  <2>2. /\ promise' = [promise EXCEPT ![q] = statement[q]]
        /\ runningQueries' = runningQueries \ {q}
        /\ rejectedQueries' = rejectedQueries \cup (IF statement[q] = "rejected" THEN {q} ELSE {})
        /\ UNCHANGED <<statement, state, waits, handled, sent>>
    BY <1>1 DEF Settle, terminal
  <2>3. \A r \in Issued : promise'[r] = IF r = q THEN statement[q] ELSE promise[r]
    BY <1>0, <2>1, <2>2
  <2>4. Issued' = Issued  BY <2>2 DEF Issued
  <2> QED BY <2>1, <2>2, <2>3, <2>4 DEF Promised
<1>2. CASE UNCHANGED <<terminal, statement, promise, runningQueries, rejectedQueries, handled>>
  BY <1>2, PromisedKept DEF terminal, Promised
<1>3. CASE Finish
  <2> DEFINE running == runningQueries \cup justRejectedQueries
  <2>1. /\ runningQueries' = running /\ CompletionOr("commit", "finish", running)
        /\ handled' = IF completion = "none" THEN handled \cup running ELSE handled
        /\ UNCHANGED <<statement, promise, rejectedQueries>>
    BY <1>3 DEF Finish
  <2>2. CASE completion = "none" /\ Complete("commit", "finish", running)
    BY <2>1, <2>2, PromisedKept DEF Complete
  <2>3. CASE completion # "none" /\ UNCHANGED terminal
    BY <2>1, <2>3, PromisedKept DEF terminal, Promised
  <2> QED BY <2>1, <2>2, <2>3 DEF CompletionOr
<1>4. CASE Abort
  <2>1. /\ CompletionOr("rollback", "abort", runningQueries)
        /\ handled' = handled \cup AbortHandles
        /\ UNCHANGED <<statement, promise, rejectedQueries, runningQueries>>
    BY <1>4 DEF Abort, queries
  <2>2. CASE completion = "none" /\ Complete("rollback", "abort", runningQueries)
    BY <2>1, <2>2, PromisedKept DEF Complete, AbortHandles
  <2>3. CASE completion # "none" /\ UNCHANGED terminal
    BY <2>1, <2>3, PromisedKept DEF terminal, Promised
  <2> QED BY <2>1, <2>2, <2>3 DEF CompletionOr
<1>5. CASE CommitIfAllSucceeded \/ RollbackAfterAll
  <2>1. state # "open"  BY <1>5 DEF CommitIfAllSucceeded, RollbackAfterAll, Stages
  <2>2. \A q \in Issued : promise[q] # "pending"
    BY <1>5, <2>1 DEF CommitIfAllSucceeded, RollbackAfterAll, AllSettled, Promised
  <2>3. UNCHANGED <<statement, promise, runningQueries, rejectedQueries, handled, waits>>
    BY <1>5 DEF CommitIfAllSucceeded, RollbackAfterAll, queries
  <2> QED BY <2>1, <2>2, <2>3, PromisedKept DEF Promised
<1> QED BY <1>1, <1>2, <1>3, <1>4, <1>5
  DEF RunsJob, Forget, Forgotten, React, CallbackGoesOn, Closing, queries

LEMMA AnswerPromised ==
  ASSUME TypeOK, Stages, Promised, Answers
  PROVE  Promised'
<1>0. /\ Len(statement) \in Nat /\ Issued = 1..Len(statement) /\ DOMAIN statement = Issued
  BY QueueTypes DEF Issued
<1>1. CASE Prepares \/ CloseAnswered
  BY <1>1, PromisedKept DEF Prepares, CloseAnswered, terminal, queries, Promised
<1>2. CASE CommitAnswered \/ UndoAnswered \/ RollbackAnswered
  <2>1. /\ state # "open" /\ sent # <<>>
        /\ UNCHANGED <<statement, promise, runningQueries, rejectedQueries, handled, waits>>
    BY <1>2 DEF CommitAnswered, UndoAnswered, RollbackAnswered, Stages, queries
  <2> QED BY <2>1, PromisedKept DEF Promised
<1>3. ASSUME NEW q, NEW result \in {"fulfilled", "rejected"}, StatementSettles(q, result)
      PROVE  Promised'
  <2>1. /\ q \in Issued /\ statement[q] = "pending"
        /\ statement' = [statement EXCEPT ![q] = result]
        /\ UNCHANGED <<promise, runningQueries, rejectedQueries, handled, state, waits, sent>>
    BY <1>3 DEF StatementSettles, terminal
  <2>2. /\ \A r \in Issued : statement'[r] = IF r = q THEN result ELSE statement[r]
        /\ Len(statement') = Len(statement)
    BY <1>0, <2>1
  <2>3. Issued' = Issued  BY <2>2 DEF Issued
  <2> QED BY <2>1, <2>2, <2>3 DEF Promised
<1> QED BY <1>1, <1>2, <1>3 DEF Answers

-----------------------------------------------------------------------------
(* What no step takes back.                                                 *)

LEMMA GoesOnResuming ==
  ASSUME TypeOK, CallbackJobs, CallbackGoesOn
  PROVE  callback.at = "resuming"
<1>1. jobs # <<>> /\ Head(jobs).what = "callback"  BY DEF CallbackGoesOn, NextJob
<1>2. Head(jobs) = jobs[1] /\ 1 \in 1..Len(jobs)  BY <1>1, QueueTypes, HeadTailProperties
<1> QED BY <1>1, <1>2 DEF CallbackJobs

\* A callback that has ended stays so, and so does a transaction that is not open.
Lasting ==
  /\ CallbackEnded => callback' = callback
  /\ state # "open" => state' # "open" /\ decider' = decider /\ waits' = waits
  /\ completion \in {"fulfilled", "rejected"} => completion' = completion
  /\ failed => failed'
  /\ handled \subseteq handled'
  /\ callback.at = "none" => callback' = callback \/ pc' = "callback"

LEMMA Lasts ==
  ASSUME TypeOK, Stages, CallbackJobs, Unstarted, Next
  PROVE  Lasting
<1>1. ASSUME NEW what, NEW who, NEW running, Complete(what, who, running)
      PROVE  state = "open" /\ state' # "open" /\ completion = "none"
  BY <1>1 DEF Complete, Stages
<1>2. CASE Caller
  <2>1. CASE Track
    BY <2>1 DEF Track, client, terminal, Lasting
  <2>2. ASSUME NEW what \in {"commit", "rollback"}, CallerCompletes(what)
        PROVE  Lasting
    BY <1>1, <2>2 DEF CallerCompletes, client, Lasting
  <2>3. CASE \/ \E q \in Queries : AwaitQuery(q)
             \/ AwaitCompletion \/ AwaitElsewhere \/ ElsewhereSettles
             \/ \E how \in {"returned", "threw"} : CallbackEnds(how)
    <3>1. UNCHANGED <<client, terminal>> /\ callback.at \in {"active", "elsewhere"}
      BY <2>3 DEF AwaitQuery, AwaitCompletion, AwaitElsewhere, ElsewhereSettles, CallbackEnds
    <3>2. handled \subseteq handled'
      BY <2>3 DEF AwaitQuery, AwaitCompletion, AwaitElsewhere, ElsewhereSettles, CallbackEnds
    <3> QED BY <3>1, <3>2 DEF client, terminal, Lasting, CallbackEnded
  <2> QED BY <1>2, <2>1, <2>2, <2>3 DEF Caller
<1>3. CASE RunsJob
  <2>1. CASE Settle \/ Forget \/ Forgotten \/ Closing
    <3>1. UNCHANGED <<failed, terminal, handled, callback>>
      BY <2>1 DEF Settle, Forget, Forgotten, Closing, client
    <3> QED BY <3>1 DEF terminal, Lasting
  <2>2. CASE React \/ CallbackGoesOn
    <3>1. UNCHANGED <<client, terminal, handled>>  BY <2>2 DEF React, CallbackGoesOn
    <3>2. callback' = callback \/ callback.at \in {"query", "resuming"}
      BY <2>2, GoesOnResuming DEF React
    <3> QED BY <3>1, <3>2 DEF client, terminal, Lasting, CallbackEnded
  <2>3. CASE Finish \/ Abort
    <3>1. UNCHANGED callback /\ (failed => failed')  BY <2>3 DEF Finish, Abort
    <3>2. handled \subseteq handled'  BY <2>3 DEF Finish, Abort
    <3>3. \/ completion = "none" /\ state = "open" /\ state' # "open"
          \/ UNCHANGED terminal
      BY <1>1, <2>3 DEF Finish, Abort, CompletionOr
    <3> QED BY <3>1, <3>2, <3>3 DEF terminal, Lasting
  <2>4. CASE CommitIfAllSucceeded \/ RollbackAfterAll
    BY <2>4 DEF CommitIfAllSucceeded, RollbackAfterAll, client, Lasting, Stages
  <2> QED BY <1>3, <2>1, <2>2, <2>3, <2>4 DEF RunsJob
<1>4. CASE Answers
  <2>1. CASE Prepares
    <3>1. UNCHANGED <<terminal, handled>> /\ (failed => failed')  BY <2>1 DEF Prepares
    <3>2. callback.at = "none"  BY <2>1 DEF Prepares, AfterAwait, Unstarted
    <3>3. callback' = callback \/ pc' = "callback"  BY <2>1 DEF Prepares, AfterAwait
    <3> QED BY <3>1, <3>2, <3>3 DEF terminal, Lasting, CallbackEnded
  <2>2. CASE CommitAnswered \/ UndoAnswered \/ RollbackAnswered
    <3>1. UNCHANGED <<client, handled, waits, decider>> /\ completion = "pending"
      BY <2>2 DEF CommitAnswered, UndoAnswered, RollbackAnswered, Stages
    <3>2. state # "open" /\ state' # "open"
      BY <2>2 DEF CommitAnswered, UndoAnswered, RollbackAnswered, Stages
    <3>3. callback' = callback \/ callback.at = "completion"
      BY <2>2 DEF CommitAnswered, UndoAnswered, RollbackAnswered, Completed
    <3> QED BY <3>1, <3>2, <3>3 DEF client, Lasting, CallbackEnded
  <2>3. CASE CloseAnswered \/ \E q, result : StatementSettles(q, result)
    BY <2>3 DEF CloseAnswered, StatementSettles, client, terminal, Lasting
  <2> QED BY <1>4, <2>1, <2>2, <2>3 DEF Answers
<1> QED BY <1>2, <1>3, <1>4 DEF Next

\* The pc and failed of transaction(), step by step.
ClientStep ==
  \/ UNCHANGED client
  \/ pc \in {"connecting", "options", "beginning"} /\ pc' \in {"options", "beginning"} /\ ~failed'
  \/ pc \in {"connecting", "options", "beginning"} /\ pc' \in {"closing", "done"} /\ failed'
       /\ callback' = callback /\ outcome' # "fulfilled"
  \/ pc = "beginning" /\ pc' = "callback" /\ ~failed' /\ callback'.at = "active"
  \/ pc = "callback" /\ pc' = "finishing" /\ ~failed' /\ CallbackEnded /\ state' # "open"
  \/ pc \in {"callback", "finishing"} /\ pc' = "aborting" /\ failed' /\ CallbackEnded /\ state' # "open"
       /\ rejectedQueries' \subseteq handled'
  \/ pc = "finishing" /\ pc' = "closing" /\ ~failed' /\ completion = "fulfilled"
  \/ pc = "aborting" /\ pc' = "closing" /\ failed'
  \/ pc = "closing" /\ pc' = "done" /\ failed' = failed /\ (outcome' = "fulfilled" => ~failed)

LEMMA ClientSteps ==
  ASSUME TypeOK, Stages, CallbackJobs, Unstarted, Progress, Next
  PROVE  ClientStep /\ (pc # "closing" => outcome' = outcome \/ outcome' # "fulfilled")
<1>o. ASSUME NEW what, NEW who, NEW running, CompletionOr(what, who, running)
      PROVE  state' # "open"
  BY <1>o DEF CompletionOr, Complete, terminal, Stages
<1>1. CASE Caller
  BY <1>1 DEF Caller, Track, CallerCompletes, AwaitQuery, AwaitCompletion, AwaitElsewhere,
              ElsewhereSettles, CallbackEnds, client, ClientStep
<1>2. CASE RunsJob
  <2>1. CASE Settle \/ Forget \/ Forgotten \/ React \/ CallbackGoesOn
             \/ CommitIfAllSucceeded \/ RollbackAfterAll
    BY <2>1 DEF Settle, Forget, Forgotten, React, CallbackGoesOn, CommitIfAllSucceeded,
                RollbackAfterAll, client, ClientStep
  <2>2. CASE Finish
    <3>1. pc = "callback" /\ pc' = "finishing" /\ CallbackEnded /\ UNCHANGED <<failed, outcome>>
      BY <2>2 DEF Finish, CallbackEnded
    <3>2. state' # "open"  BY <1>o, <2>2 DEF Finish
    <3> QED BY <3>1, <3>2 DEF ClientStep, Progress
  <2>3. CASE Abort
    <3>1. /\ pc \in {"callback", "finishing"} /\ pc' = "aborting" /\ CallbackEnded
          /\ failed' = TRUE /\ UNCHANGED <<outcome, rejectedQueries>>
      BY <2>3 DEF Abort, CallbackEnded, Progress, queries
    <3>2. state' # "open"  BY <1>o, <2>3 DEF Abort
    <3>3. rejectedQueries \subseteq handled'  BY <2>3 DEF Abort, AbortHandles
    <3> QED BY <3>1, <3>2, <3>3 DEF ClientStep
  <2>4. CASE Closing
    <3>1. /\ (pc = "finishing" /\ completion = "fulfilled") \/ pc = "aborting"
          /\ pc' = "closing" /\ UNCHANGED <<failed, outcome>>
      BY <2>4 DEF Closing
    <3> QED BY <3>1 DEF ClientStep, Progress
  <2> QED BY <1>2, <2>1, <2>2, <2>3, <2>4 DEF RunsJob
<1>3. CASE Answers
  <2>1. CASE Prepares
    <3>0. pc \in {"connecting", "options", "beginning"} /\ ~failed
      BY <2>1 DEF Prepares, AfterAwait, Unstarted
    <3>1. CASE pc' = AfterAwait[pc] /\ callback' = (IF pc = "beginning" THEN Active ELSE callback)
               /\ UNCHANGED <<failed, outcome>>
      BY <3>0, <3>1 DEF AfterAwait, Active, ClientStep
    <3>2. CASE /\ pc' \in {"closing", "done"} /\ failed' = TRUE /\ UNCHANGED callback
               /\ outcome' = outcome \/ outcome' = "rejected"
      <4>1. outcome' # "fulfilled"  BY <3>0, <3>2 DEF Progress
      <4> QED BY <3>0, <3>2, <4>1 DEF ClientStep
    <3> QED BY <2>1, <3>1, <3>2 DEF Prepares
  <2>2. CASE CloseAnswered
    <3>1. pc = "closing" /\ pc' = "done" /\ failed' = failed  BY <2>2 DEF CloseAnswered
    <3>2. outcome' = "fulfilled" => ~failed  BY <2>2 DEF CloseAnswered
    <3> QED BY <3>1, <3>2 DEF ClientStep
  <2>3. CASE CommitAnswered \/ UndoAnswered \/ RollbackAnswered
             \/ \E q, result : StatementSettles(q, result)
    BY <2>3 DEF CommitAnswered, UndoAnswered, RollbackAnswered, StatementSettles, client, ClientStep
  <2> QED BY <1>3, <2>1, <2>2, <2>3 DEF Answers
<1> QED BY <1>1, <1>2, <1>3 DEF Next


LEMMA UnstartedStep ==
  ASSUME TypeOK, Stages, CallbackJobs, Unstarted, Progress, Next
  PROVE  Unstarted'
<1>1. ClientStep /\ Lasting  BY ClientSteps, Lasts
<1>2. pc' \in {"connecting", "options", "beginning"} => callback.at = "none" /\ ~failed'
  BY <1>1 DEF ClientStep, client, Unstarted
<1>3. pc' \in {"connecting", "options", "beginning"} => callback'.at = "none"
  BY <1>1, <1>2 DEF Lasting
<1>4. callback'.at = "none" => callback.at = "none"
  <2>1. CASE UNCHANGED callback
    BY <2>1
  <2>2. ASSUME NEW at \in {"active", "query", "resuming", "completion", "elsewhere", "returned",
                          "threw"}, NEW q, callback' = [at |-> at, query |-> q]
        PROVE  callback'.at # "none"
    BY <2>2
  <2>3. CASE Caller
    BY <2>1, <2>2, <2>3
    DEF Caller, Track, CallerCompletes, AwaitQuery, AwaitCompletion, AwaitElsewhere,
        ElsewhereSettles, CallbackEnds
  <2>4. CASE RunsJob
    BY <2>1, <2>2, <2>4
    DEF RunsJob, Settle, Forget, Forgotten, React, CallbackGoesOn, Resumes, Active, Finish, Abort,
        Closing, CommitIfAllSucceeded, RollbackAfterAll
  <2>5. CASE Answers
    <3>1. UNCHANGED callback \/ callback' = Active \/ callback' = [at |-> "resuming", query |-> 0]
      BY <2>5
      DEF Answers, Prepares, CommitAnswered, UndoAnswered, RollbackAnswered, Completed,
          StatementSettles, CloseAnswered
    <3> QED BY <2>1, <2>2, <3>1 DEF Active
  <2> QED BY <2>3, <2>4, <2>5 DEF Next
<1>5. callback.at = "none" /\ callback'.at = "none" => state' = state /\ statement' = statement
  <2>1. ASSUME callback.at = "none"
        PROVE  completion = "none" /\ ending = "none" /\ Issued = {} /\ pc \notin {"finishing", "aborting"}
    BY <2>1, QueueTypes DEF Unstarted, Stages, Progress, CallbackEnded, Issued
  <2> QED
    BY <2>1
    DEF Next, Caller, RunsJob, Answers, Track, CallerCompletes, AwaitQuery, AwaitCompletion,
         AwaitElsewhere, ElsewhereSettles, CallbackEnds, Settle, Forget, Forgotten, React,
         CallbackGoesOn, Finish, Abort, Closing, CommitIfAllSucceeded, CallbackEnded, Begun,
         RollbackAfterAll, Prepares, CommitAnswered, UndoAnswered, RollbackAnswered,
         StatementSettles, CloseAnswered, terminal, queries
<1> QED BY <1>2, <1>3, <1>4, <1>5 DEF Unstarted


LEMMA ProgressStep ==
  ASSUME TypeOK, Stages, CallbackJobs, Unstarted, Progress, Next
  PROVE  Progress'
<1>1. ClientStep /\ Lasting  BY ClientSteps, Lasts
<1>2. pc # "closing" => outcome' = outcome \/ outcome' # "fulfilled"  BY ClientSteps
<1>3. CallbackEnded => CallbackEnded'  BY <1>1 DEF Lasting, CallbackEnded
<1> QED BY <1>1, <1>2, <1>3 DEF ClientStep, client, Lasting, Progress

\* What a step makes of a transaction somebody has completed.
LEMMA DecidersStep ==
  ASSUME TypeOK, Stages, CallbackJobs, Unstarted, Progress, Deciders, Next
  PROVE  Deciders'
<1>1. ClientStep /\ Lasting  BY ClientSteps, Lasts
<1>2. CASE state = "open"
  <2>1. decider = "nobody"  BY <1>2 DEF Stages
  <2>2. CASE UNCHANGED <<state, decider>>
    BY <1>2, <2>1, <2>2 DEF Deciders
  <2>3. ASSUME NEW what, NEW running, Complete(what, "caller", running)
        PROVE  Deciders'
    BY <2>3 DEF Complete, Deciders
  <2>4. CASE Finish
    <3>1. Complete("commit", "finish", runningQueries \cup justRejectedQueries)
      BY <1>2, <2>4 DEF Finish, CompletionOr, Stages
    <3>2. pc' = "finishing" /\ ~failed'  BY <2>4 DEF Finish, Progress
    <3> QED BY <3>1, <3>2 DEF Complete, Deciders
  <2>5. CASE Abort
    <3>1. Complete("rollback", "abort", runningQueries)
      BY <1>2, <2>5 DEF Abort, CompletionOr, Stages
    <3>2. failed'  BY <2>5 DEF Abort
    <3> QED BY <3>1, <3>2 DEF Complete, Deciders
  <2> QED
    BY <1>2, <2>2, <2>3, <2>4, <2>5
    DEF Next, Caller, RunsJob, Answers, Track, CallerCompletes, AwaitQuery, AwaitCompletion,
         AwaitElsewhere, ElsewhereSettles, CallbackEnds, Settle, Forget, Forgotten, React,
         CallbackGoesOn, Closing, CommitIfAllSucceeded,
         RollbackAfterAll, Prepares, CommitAnswered, UndoAnswered, RollbackAnswered,
         StatementSettles, CloseAnswered, terminal, Stages
<1>3. CASE state # "open"
  <2>1. state' # "open" /\ decider' = decider /\ decider # "nobody"
    BY <1>1, <1>3 DEF Lasting, Deciders
  <2>2. \/ UNCHANGED <<state, ending>>
        \/ CommitIfAllSucceeded \/ RollbackAfterAll
        \/ CommitAnswered \/ UndoAnswered \/ RollbackAnswered
    BY <1>3
    DEF Next, Caller, RunsJob, Answers, Track, CallerCompletes, AwaitQuery, AwaitCompletion,
         AwaitElsewhere, ElsewhereSettles, CallbackEnds, Settle, Forget, Forgotten, React,
         CallbackGoesOn, Closing, Finish, Abort, CompletionOr, Complete, Prepares,
         StatementSettles, CloseAnswered, terminal
  <2>3. decider = "abort" => failed'  BY <1>1 DEF Lasting, Deciders
  <2>4. decider = "abort" => ending' \notin {"settlingCommit", "committing"} /\ state' # "committed"
    BY <2>2 DEF CommitIfAllSucceeded, RollbackAfterAll, CommitAnswered, UndoAnswered,
                RollbackAnswered, Completed, Deciders
  <2>5. decider = "finish" =>
          ending' \notin {"settlingRollback", "rollingBack"} /\ state' # "rolledBack"
    BY <2>2 DEF CommitIfAllSucceeded, RollbackAfterAll, CommitAnswered, UndoAnswered,
                RollbackAnswered, Completed, Deciders
  <2>6. decider = "finish" => pc' \in {"finishing", "aborting", "closing", "done"}
    BY <1>1 DEF ClientStep, client, Deciders
  <2>7. ASSUME decider = "finish", failed'
        PROVE  completion' = "rejected"
    <3>1. CASE failed
      BY <1>1, <2>7, <3>1 DEF Lasting, Deciders
    <3>2. CASE ~failed
      <4>1. pc = "finishing" /\ pc' = "aborting"
        <5>0. pc # "aborting"  BY <3>2 DEF Progress
        <5>1. pc \in {"finishing", "closing", "done"}
          <6>1. decider = "finish"  BY <2>7
          <6> QED BY <5>0, <6>1 DEF Deciders
        <5>2. failed' # failed  BY <2>7, <3>2
        <5> QED BY <1>1, <2>7, <5>1, <5>2 DEF ClientStep, client
      <4>2. Abort
        BY <4>1 DEF Next, Caller, RunsJob, Answers, Track, CallerCompletes, AwaitQuery,
         AwaitCompletion, AwaitElsewhere, ElsewhereSettles, CallbackEnds, Settle, Forget, Forgotten,
         React, CallbackGoesOn, Closing, Finish, CommitIfAllSucceeded, RollbackAfterAll, Prepares,
         AfterAwait, CommitAnswered, UndoAnswered, RollbackAnswered, StatementSettles,
         CloseAnswered, client
      <4>3. completion = "rejected"  BY <4>1, <4>2 DEF Abort
      <4> QED BY <1>1, <4>3 DEF Lasting
    <3> QED BY <3>1, <3>2
  <2> QED BY <2>1, <2>3, <2>4, <2>5, <2>6, <2>7 DEF Deciders
<1> QED BY <1>2, <1>3


-----------------------------------------------------------------------------
(* Attended and Quieted are kept.                                           *)

\* A step that changes neither what the callback awaits nor what failed.
LEMMA AttendedKept ==
  ASSUME TypeOK, Attended, Lasting,
         UNCHANGED <<promise, callback, handled, seen, waits>>, state' = state, ending' = ending
  PROVE  Attended'
  BY DEF Attended, Awaited, Lasting

LEMMA CallerAttended ==
  ASSUME TypeOK, Stages, Attended, Lasting, Caller
  PROVE  Attended'
<1>0. /\ Len(statement) \in Nat /\ Len(promise) = Len(statement) /\ Issued = 1..Len(statement)
      /\ handled \subseteq Issued /\ waits \subseteq Issued /\ 0 \notin Issued
      /\ failed \in BOOLEAN
  BY QueueTypes DEF Issued, TypeOK
<1>1. CASE Track
  <2>1. /\ promise' = Append(promise, "pending")
        /\ UNCHANGED <<failed, callback, handled, seen, waits, ending, state>>
    BY <1>1 DEF Track, client, terminal
  <2>2. promise \in Seq(Promises) /\ "pending" \in Promises  BY DEF TypeOK, Promises
  <2>3. \A q \in Issued : promise'[q] = promise[q]  BY <1>0, <2>1, <2>2, AppendProperties
  <2>4. callback.query \in 0..Len(statement)  BY QueueTypes DEF CallbackSet
  <2>5. ~failed' => \A q \in handled' :
          q \in waits' \/ q \in seen' \/ promise'[q] = "fulfilled" \/ Awaited(q)'
    BY <1>0, <2>1, <2>3 DEF Attended, Awaited
  <2>6. callback'.at = "resuming" /\ callback'.query # 0 => promise'[callback'.query] # "pending"
    BY <1>0, <2>1, <2>3, <2>4 DEF Attended
  <2>7. ending' = "committing" \/ state' = "committed" => \A q \in waits' : promise'[q] = "fulfilled"
    BY <1>0, <2>1, <2>3 DEF Attended
  <2> QED BY <2>5, <2>6, <2>7 DEF Attended
<1>2. ASSUME NEW what \in {"commit", "rollback"}, CallerCompletes(what)
      PROVE  Attended'
  <2>1. /\ handled' = handled \cup runningQueries /\ waits' = runningQueries /\ waits = {}
        /\ ending' # "committing" /\ state' # "committed"
        /\ UNCHANGED <<promise, callback, seen, failed>>
    BY <1>2 DEF CallerCompletes, Complete, queries, history, client, Stages
  <2> QED BY <2>1 DEF Attended, Awaited
<1>3. ASSUME NEW q \in Queries, AwaitQuery(q)
      PROVE  Attended'
  <2>1. /\ q \in Issued /\ handled' = handled \cup {q}
        /\ UNCHANGED <<promise, failed, waits, seen, ending, state>>
        /\ callback.at = "active" /\ callback'.query = q /\ callback'.at \in {"query", "resuming"}
        /\ callback'.at = "resuming" => promise[q] # "pending"
    BY <1>3 DEF AwaitQuery, queries, history, client, terminal
  <2>2. ~failed' => \A r \in handled' :
          r \in waits' \/ r \in seen' \/ promise'[r] = "fulfilled" \/ Awaited(r)'
    BY <2>1 DEF Attended, Awaited
  <2> QED BY <2>1, <2>2 DEF Attended
<1>4. CASE \/ AwaitCompletion \/ AwaitElsewhere \/ ElsewhereSettles
           \/ \E how \in {"returned", "threw"} : CallbackEnds(how)
  <2>1. /\ UNCHANGED <<promise, failed, handled, waits, seen, ending, state>>
        /\ callback.at \in {"active", "elsewhere"} /\ callback'.query = 0
    BY <1>4 DEF AwaitCompletion, AwaitElsewhere, ElsewhereSettles, CallbackEnds, queries, history,
                client, terminal
  <2> QED BY <2>1 DEF Attended, Awaited
<1> QED BY <1>1, <1>2, <1>3, <1>4 DEF Caller

LEMMA JobAttended ==
  ASSUME TypeOK, Stages, JobsHold, CallbackJobs, Promised, Attended, Lasting, RunsJob
  PROVE  Attended'
<1>0. /\ DOMAIN promise = Issued /\ handled \subseteq Issued /\ waits \subseteq Issued
      /\ 0 \notin Issued /\ failed \in BOOLEAN /\ promise \in Seq(Promises)
      /\ callback.query \in 0..Len(statement) /\ Issued = 1..Len(statement)
  BY QueueTypes DEF Issued, TypeOK, CallbackSet
<1>h. jobs # <<>> => Head(jobs) \in GoodJobs  BY DEF JobsHold
<1>1. CASE Settle
  <2> DEFINE q == Head(jobs).query
  <2>1. q \in Issued /\ statement[q] # "pending"
    BY <1>h, <1>1 DEF Settle, NextJob, GoodJobs
  <2>2. promise' = [promise EXCEPT ![q] = statement[q]]  BY <1>1 DEF Settle
  <2>u. /\ failed' = failed /\ callback' = callback /\ handled' = handled /\ seen' = seen
        /\ waits' = waits /\ ending' = ending /\ state' = state
    BY <1>1 DEF Settle, client, terminal, history
  <2>3. \A r \in Issued : promise'[r] = IF r = q THEN statement[q] ELSE promise[r]
    BY <1>0, <2>1, <2>2
  <2>4. \A r \in Issued : promise[r] = "fulfilled" => promise'[r] = "fulfilled"
    BY <2>1, <2>3 DEF Promised
  <2>b. \A r \in Issued : promise[r] # "pending" => promise'[r] # "pending"
    BY <2>1, <2>3 DEF Promised
  <2> HIDE DEF q
  <2>a. /\ handled \subseteq Issued /\ waits \subseteq Issued
        /\ callback.query # 0 => callback.query \in Issued
    BY <1>0
  <2>5. ~failed' => \A r \in handled' :
          r \in waits' \/ r \in seen' \/ promise'[r] = "fulfilled" \/ Awaited(r)'
    BY <2>a, <2>u, <2>4 DEF Attended, Awaited
  <2>6. callback'.at = "resuming" /\ callback'.query # 0 => promise'[callback'.query] # "pending"
    BY <2>a, <2>u, <2>b DEF Attended
  <2>7. ending' = "committing" \/ state' = "committed" => \A r \in waits' : promise'[r] = "fulfilled"
    BY <2>a, <2>u, <2>4 DEF Attended
  <2> QED BY <2>5, <2>6, <2>7 DEF Attended
<1>2. CASE Forget \/ Forgotten
  BY <1>2, AttendedKept DEF Forget, Forgotten, queries, history, terminal
<1>3. CASE React \/ CallbackGoesOn
  <2>1. UNCHANGED <<promise, failed, handled, waits, ending, state>>
    BY <1>3 DEF React, CallbackGoesOn, queries, client, terminal
  <2>2. CASE UNCHANGED <<callback, seen>>
    BY <2>1, <2>2, AttendedKept
  <2>3. ASSUME NEW q, Resumes(q), callback.at \in {"query", "resuming"}, callback.query = q,
               q \in Issued => promise[q] # "pending"
        PROVE  Attended'
    <3>1. callback'.at = "active" /\ seen \subseteq seen'  BY <2>3 DEF Resumes, Active
    <3>2. \A r \in handled : Awaited(r) => promise[r] = "fulfilled" \/ r \in seen'
      BY <1>0, <2>3 DEF Awaited, Resumes, Promises
    <3> QED BY <2>1, <3>1, <3>2 DEF Attended
  <2>4. CASE React
    <3>1. Head(jobs).query \in Issued /\ promise[Head(jobs).query] # "pending"
      BY <1>h, <2>4 DEF React, NextJob, GoodJobs
    <3> QED BY <2>2, <2>3, <2>4, <3>1 DEF React
  <2>5. CASE CallbackGoesOn
    <3>1. callback.at = "resuming"  BY <2>5, GoesOnResuming
    <3>2. callback.query \in Issued => promise[callback.query] # "pending"
      BY <1>0, <3>1 DEF Attended
    <3> QED BY <2>3, <2>5, <3>1, <3>2 DEF CallbackGoesOn
  <2> QED BY <1>3, <2>4, <2>5
<1>4. CASE Finish
  <2> DEFINE running == runningQueries \cup justRejectedQueries
  <2>1. /\ CompletionOr("commit", "finish", running)
        /\ handled' = IF completion = "none" THEN handled \cup running ELSE handled
        /\ UNCHANGED <<promise, failed, callback, seen>>
    BY <1>4 DEF Finish, history
  <2>2. CASE completion = "none" /\ Complete("commit", "finish", running)
    <3>1. /\ waits' = running /\ waits = {} /\ ending' # "committing" /\ state' # "committed"
          /\ handled' = handled \cup running
      BY <2>1, <2>2 DEF Complete, Stages
    <3> QED BY <2>1, <3>1 DEF Attended, Awaited
  <2>3. CASE completion # "none" /\ UNCHANGED terminal
    BY <2>1, <2>3, AttendedKept DEF terminal
  <2> QED BY <2>1, <2>2, <2>3 DEF CompletionOr
<1>5. CASE Abort
  <2>1. /\ failed' /\ UNCHANGED <<promise, callback>>
        /\ CompletionOr("rollback", "abort", runningQueries)
    BY <1>5 DEF Abort, queries
  <2>2. CASE Complete("rollback", "abort", runningQueries)
    <3>1. ending' # "committing" /\ state' # "committed"  BY <2>2 DEF Complete
    <3> QED BY <2>1, <3>1 DEF Attended
  <2>3. CASE UNCHANGED terminal
    BY <2>1, <2>3 DEF terminal, Attended
  <2> QED BY <2>1, <2>2, <2>3 DEF CompletionOr
<1>6. CASE Closing
  BY <1>6, AttendedKept DEF Closing, queries, history, terminal
<1>7. CASE CommitIfAllSucceeded \/ RollbackAfterAll
  <2>1. /\ UNCHANGED <<promise, failed, callback, handled, seen, waits>>
        /\ state' # "committed" /\ state # "committed"
        /\ ending' = "committing" => \A q \in waits : promise[q] = "fulfilled"
    BY <1>7 DEF CommitIfAllSucceeded, RollbackAfterAll, client, queries, history, Stages
  <2> QED BY <2>1 DEF Attended, Awaited
<1> QED BY <1>1, <1>2, <1>3, <1>4, <1>5, <1>6, <1>7 DEF RunsJob

LEMMA AnswerAttended ==
  ASSUME TypeOK, Stages, Unstarted, Attended, Lasting, Answers
  PROVE  Attended'
<1>1. CASE Prepares
  <2>1. callback.at = "none"  BY <1>1 DEF Prepares, AfterAwait, Unstarted
  <2>2. UNCHANGED <<promise, handled, seen, waits, ending, state>>
    BY <1>1 DEF Prepares, queries, history, terminal
  <2>3. callback' = callback \/ callback'.at = "active"  BY <1>1 DEF Prepares, Active
  <2> QED BY <2>1, <2>2, <2>3 DEF Attended, Awaited, Lasting
<1>2. CASE CommitAnswered \/ UndoAnswered \/ RollbackAnswered
  <2>1. /\ UNCHANGED <<promise, failed, handled, seen, waits>>
        /\ \/ UNCHANGED callback
           \/ callback.at = "completion" /\ callback'.query = 0
    BY <1>2 DEF CommitAnswered, UndoAnswered, RollbackAnswered, Completed, client, queries, history
  <2>2. ending' = "committing" \/ state' = "committed" => ending = "committing" \/ state = "committed"
    BY <1>2 DEF CommitAnswered, UndoAnswered, RollbackAnswered, Completed
  <2> QED BY <2>1, <2>2 DEF Attended, Awaited
<1>3. CASE CloseAnswered
  BY <1>3, AttendedKept DEF CloseAnswered, queries, history, terminal
<1>4. CASE \E q, result : StatementSettles(q, result)
  BY <1>4, AttendedKept DEF StatementSettles, history, terminal
<1> QED BY <1>1, <1>2, <1>3, <1>4 DEF Answers

LEMMA QuietedStep ==
  ASSUME TypeOK, Stages, JobsHold, CallbackJobs, Unstarted, Promised, Progress, Quieted, Next
  PROVE  Quieted'
<1>1. ClientStep /\ Lasting  BY ClientSteps, Lasts
<1>2. SUFFICES ASSUME pc' \in {"aborting", "closing", "done"}, failed', callback'.at # "none"
               PROVE  state' # "open" /\ rejectedQueries' \subseteq handled'
  BY DEF Quieted
<1>3. CASE pc \in {"callback", "finishing"} /\ pc' = "aborting"
  BY <1>1, <1>2, <1>3 DEF ClientStep, client
<1>4. CASE pc \in {"aborting", "closing", "done"} /\ failed
  <2>1. callback.at # "none"  BY <1>1, <1>2 DEF Lasting
  <2>2. state # "open" /\ rejectedQueries \subseteq handled  BY <1>4, <2>1 DEF Quieted
  <2>3. CASE rejectedQueries' = rejectedQueries
    BY <1>1, <2>2, <2>3 DEF Lasting
  <2>4. CASE Settle
    <3> DEFINE q == Head(jobs).query
    <3>1. q \in Issued  BY <2>4 DEF Settle, NextJob, GoodJobs, JobsHold
    <3>2. /\ rejectedQueries' = rejectedQueries \cup (IF statement[q] = "rejected" THEN {q} ELSE {})
          /\ UNCHANGED handled
      BY <2>4 DEF Settle
    <3>3. statement[q] = "rejected" => q \in handled
      BY <2>2, <3>1 DEF Promised
    <3> QED BY <1>1, <2>2, <3>2, <3>3 DEF Lasting
  <2> QED BY <2>3, <2>4
    DEF Next, Caller, RunsJob, Answers, Track, CallerCompletes, AwaitQuery, AwaitCompletion,
         AwaitElsewhere, ElsewhereSettles, CallbackEnds, Forget, Forgotten, React,
         CallbackGoesOn, Finish, Abort, Closing, CommitIfAllSucceeded,
         RollbackAfterAll, Prepares, CommitAnswered, UndoAnswered, RollbackAnswered,
         StatementSettles, CloseAnswered, queries
<1>5. CASE pc \in {"connecting", "options", "beginning"} /\ callback' = callback
  BY <1>2, <1>5 DEF Unstarted
<1>6. \/ pc \in {"callback", "finishing"} /\ pc' = "aborting"
      \/ pc \in {"aborting", "closing", "done"} /\ failed
      \/ pc \in {"connecting", "options", "beginning"} /\ callback' = callback
  <2>1. pc \in {"aborting"} => failed  BY DEF Progress
  <2> QED BY <1>1, <1>2, <2>1 DEF ClientStep, client
<1> QED BY <1>3, <1>4, <1>5, <1>6

-----------------------------------------------------------------------------
(* The order of the jobs.                                                   *)

Places == 1..Len(jobs)

\* A rejection is remembered before its promise settles and forgotten two jobs later: when a
\* query's reaction has run its rejection is remembered at most until "forgotten" runs.
Orderly ==
  /\ \A i \in Places : jobs[i].what = "settle" => promise[jobs[i].query] = "pending"
  /\ \A i, j \in Places : jobs[i].what = "settle" /\ jobs[j] = jobs[i] => i = j
  /\ \A i \in Places : jobs[i].what = "forget" =>
       /\ promise[jobs[i].query] = "rejected"
       /\ i + 1 \in Places /\ jobs[i + 1] = Job("react", jobs[i].query)
  /\ \A i, j \in Places :
       jobs[i].what = "forget" /\ jobs[j] = Job("react", jobs[i].query) => j = i + 1
  /\ \A i \in Places : jobs[i].what = "forgotten" =>
       /\ promise[jobs[i].query] = "rejected"
       /\ \/ jobs[i].query \in known
          \/ BetweenJobs /\ jobs[1] = Job("react", jobs[i].query)

\* A rejection nobody was told of is remembered, and what is remembered will be forgotten.
Remembered ==
  /\ \A q \in Issued : promise[q] = "rejected" /\ q \notin known => q \in justRejectedQueries
  /\ \A q \in justRejectedQueries :
       \E i \in Places : jobs[i].query = q /\ jobs[i].what \in {"forget", "forgotten"}

\* What the callback was thrown has begun to be forgotten.
Told ==
  /\ \A q \in seen : promise[q] = "rejected"
  /\ \A i \in Places : jobs[i].what = "forget" => jobs[i].query \notin seen
  /\ \A i, k \in Places :
       /\ jobs[i].what = "forget" /\ jobs[k].what = "callback"
       /\ jobs[i].query = callback.query
       => i < k
  /\ \A i \in Places : jobs[i].what = "transaction" => CallbackEnded

\* The rejection of q is forgotten before transaction() goes on.
ForgottenFirst(q) ==
  \E i \in Places :
    jobs[i] = Job("forgotten", q) /\ \A j \in Places : jobs[j].what = "transaction" => i < j

\* Between the end of the callback and finish(), what it had no chance to see is still
\* remembered when finish() runs, and what it was thrown is forgotten by then.
AtTheEnd ==
  pc = "callback" /\ CallbackEnded =>
    \E j \in Places :
      /\ jobs[j].what = "transaction"
      /\ \A q \in late : promise[q] = "rejected" =>
           /\ q \in justRejectedQueries
           /\ \A i \in Places : jobs[i] = Job("forgotten", q) => j < i
      /\ \A q \in seen \cap justRejectedQueries : ForgottenFirst(q)

\* finish() waited for all the callback had no chance to see.
Waited ==
  decider = "finish" => CallbackEnded /\ \A q \in late : q \in waits \/ promise[q] = "fulfilled"

\* The first m jobs go, the others move up and k are added.
Shifts(m, k) ==
  /\ m \in {0, 1} /\ k \in {0, 1, 2} /\ m <= Len(jobs)
  /\ Len(jobs) \in Nat /\ Len(jobs') = Len(jobs) - m + k
  /\ \A i \in 1..(Len(jobs) - m) : jobs'[i] = jobs[i + m]

LEMMA JobIs ==
  ASSUME NEW n \in Nat, NEW j \in JobSet(n)
  PROVE  j = Job(j.what, j.query)
  BY DEF JobSet, Job

LEMMA HeadIs ==
  ASSUME TypeOK, jobs # <<>>
  PROVE  /\ Head(jobs) = jobs[1] /\ 1 \in Places
         /\ jobs[1] = Job(Head(jobs).what, Head(jobs).query)
<1>1. jobs \in Seq(JobSet(Len(statement))) /\ Len(statement) \in Nat  BY QueueTypes
<1>2. Head(jobs) = jobs[1] /\ 1 \in Places /\ jobs[1] \in JobSet(Len(statement))
  BY <1>1, HeadTailProperties DEF Places
<1> QED BY <1>1, <1>2, JobIs

LEMMA Stay ==
  ASSUME TypeOK, jobs' = jobs
  PROVE  Shifts(0, 0)
  BY QueueTypes DEF Shifts

LEMMA AddOne ==
  ASSUME TypeOK, NEW what \in Whats, NEW q \in 0..Len(statement), jobs' = Append(jobs, Job(what, q))
  PROVE  Shifts(0, 1) /\ jobs'[Len(jobs) + 1] = Job(what, q)
<1>1. Job(what, q) \in JobSet(Len(statement))  BY QueueTypes, JobInSet
<1>2. jobs \in Seq(JobSet(Len(statement))) /\ Len(jobs) \in Nat  BY QueueTypes
<1>3. /\ Len(jobs') = Len(jobs) + 1 /\ jobs'[Len(jobs) + 1] = Job(what, q)
      /\ \A i \in 1..Len(jobs) : jobs'[i] = jobs[i]
  BY <1>1, <1>2, AppendProperties
<1> QED BY <1>2, <1>3 DEF Shifts

LEMMA TailIs ==
  ASSUME TypeOK, jobs # <<>>
  PROVE  /\ Tail(jobs) \in Seq(JobSet(Len(statement))) /\ Len(Tail(jobs)) = Len(jobs) - 1
         /\ Len(jobs) \in Nat /\ Len(jobs) >= 1
         /\ \A i \in 1..(Len(jobs) - 1) : Tail(jobs)[i] = jobs[i + 1]
<1>1. jobs \in Seq(JobSet(Len(statement))) /\ Len(jobs) \in Nat  BY QueueTypes
<1> QED BY <1>1, HeadTailProperties

LEMMA TakeOne ==
  ASSUME TypeOK, jobs # <<>>, jobs' = Tail(jobs)
  PROVE  Shifts(1, 0)
  BY TailIs DEF Shifts

LEMMA TakeAddOne ==
  ASSUME TypeOK, jobs # <<>>, NEW what \in Whats, NEW q \in 0..Len(statement),
         jobs' = Append(Tail(jobs), Job(what, q))
  PROVE  Shifts(1, 1) /\ jobs'[Len(jobs)] = Job(what, q)
<1>1. Job(what, q) \in JobSet(Len(statement))  BY QueueTypes, JobInSet
<1>3. /\ Len(jobs') = Len(Tail(jobs)) + 1 /\ jobs'[Len(Tail(jobs)) + 1] = Job(what, q)
      /\ \A i \in 1..Len(Tail(jobs)) : jobs'[i] = Tail(jobs)[i]
  BY <1>1, TailIs, AppendProperties
<1> QED BY <1>3, TailIs DEF Shifts

LEMMA ConcatTwo ==
  ASSUME NEW S, NEW s \in Seq(S), NEW a \in S, NEW b \in S
  PROVE  /\ Len(s \o <<a, b>>) = Len(s) + 2
         /\ \A i \in 1..Len(s) : (s \o <<a, b>>)[i] = s[i]
         /\ (s \o <<a, b>>)[Len(s) + 1] = a /\ (s \o <<a, b>>)[Len(s) + 2] = b
  OBVIOUS

LEMMA TakeAddTwo ==
  ASSUME TypeOK, jobs # <<>>, NEW q \in 0..Len(statement),
         jobs' = Tail(jobs) \o <<Job("forget", q), Job("react", q)>>
  PROVE  Shifts(1, 2) /\ jobs'[Len(jobs)] = Job("forget", q) /\ jobs'[Len(jobs) + 1] = Job("react", q)
<1>1. Job("forget", q) \in JobSet(Len(statement)) /\ Job("react", q) \in JobSet(Len(statement))
  BY QueueTypes, JobInSet DEF Whats
<1>2. Tail(jobs) \in Seq(JobSet(Len(statement)))  BY TailIs
<1>3. /\ Len(jobs') = Len(Tail(jobs)) + 2
      /\ \A i \in 1..Len(Tail(jobs)) : jobs'[i] = Tail(jobs)[i]
      /\ jobs'[Len(Tail(jobs)) + 1] = Job("forget", q)
      /\ jobs'[Len(Tail(jobs)) + 2] = Job("react", q)
  BY <1>1, <1>2, ConcatTwo
<1> QED BY <1>3, TailIs DEF Shifts

LEMMA JobsAt ==
  ASSUME TypeOK, JobsHold, NEW i \in Places
  PROVE  /\ jobs[i].what \in {"settle", "forget", "forgotten", "react"} => jobs[i].query \in Issued
         /\ jobs[i].what = "settle" => statement[jobs[i].query] # "pending"
         /\ jobs[i].what = "react" => promise[jobs[i].query] # "pending"
         /\ jobs[i] = Job(jobs[i].what, jobs[i].query)
<1>1. jobs[i] \in GoodJobs  BY DEF JobsHold, Places
<1>2. Len(statement) \in Nat  BY QueueTypes
<1>3. jobs[i] = Job(jobs[i].what, jobs[i].query)  BY <1>1, <1>2, JobIs DEF GoodJobs
<1> QED BY <1>1, <1>3 DEF GoodJobs

\* A step that settles no promise and forgets no rejection, and what it adds to the queue.
Added == {"callback", "transaction", "settle"}
Passive(m, k) ==
  /\ Shifts(m, k)
  /\ \A i \in Places' : i > Len(jobs) - m =>
       /\ jobs'[i].what \in Added
       /\ jobs'[i].what = "settle" => /\ k = 1 /\ jobs'[i].query \in Issued
                                      /\ statement[jobs'[i].query] = "pending"
                                      /\ promise[jobs'[i].query] = "pending"
  /\ \A q \in Issued : promise'[q] = promise[q]
  /\ m = 1 => /\ jobs[1].what \notin {"settle", "forget"}
              /\ jobs[1].what = "react" => jobs[1].query \in known'
  /\ m = 0 /\ BetweenJobs /\ Issued # {} => BetweenJobs'
  /\ known \subseteq known'

LEMMA JobFields ==
  ASSUME NEW what, NEW q
  PROVE  Job(what, q).what = what /\ Job(what, q).query = q
  BY DEF Job

\* Where the jobs of a passive step come from and go to.
LEMMA PassivePlaces ==
  ASSUME TypeOK, NEW m, NEW k, Passive(m, k)
  PROVE  /\ m \in {0, 1} /\ k \in {0, 1, 2} /\ m <= Len(jobs) /\ Len(jobs) \in Nat
         /\ Len(jobs') = Len(jobs) - m + k
         /\ Places \subseteq Nat /\ Places' \subseteq Nat
         /\ \A i \in Places : i >= 1 /\ i <= Len(jobs)
         /\ \A i \in Places' : i >= 1 /\ i <= Len(jobs')
         /\ \A i \in Places' : jobs'[i].what \notin Added \/ i <= Len(jobs) - m =>
              i + m \in Places /\ jobs'[i] = jobs[i + m]
         /\ \A i \in Places : i > m => i - m \in Places' /\ jobs'[i - m] = jobs[i]
         /\ \A what \in {"forget", "react", "forgotten"} : what \notin Added
<1>0. /\ m \in {0, 1} /\ k \in {0, 1, 2} /\ m <= Len(jobs) /\ Len(jobs) \in Nat
      /\ Len(jobs') = Len(jobs) - m + k
      /\ \A i \in 1..(Len(jobs) - m) : jobs'[i] = jobs[i + m]
      /\ \A i \in Places' : i > Len(jobs) - m => jobs'[i].what \in Added
  BY DEF Passive, Shifts
<1> QED BY <1>0 DEF Places, Added

LEMMA OrderlyPassive ==
  ASSUME TypeOK, JobsHold, Orderly, NEW m, NEW k, Passive(m, k)
  PROVE  Orderly'
<1>0. /\ m \in {0, 1} /\ k \in {0, 1, 2} /\ m <= Len(jobs) /\ Len(jobs) \in Nat
      /\ Len(jobs') = Len(jobs) - m + k
  BY PassivePlaces
<1>1. /\ \A i \in Places' : jobs'[i].what \notin Added \/ i <= Len(jobs) - m =>
           i + m \in Places /\ jobs'[i] = jobs[i + m] /\ i \in Nat
      /\ \A what \in {"forget", "react", "forgotten"} : what \notin Added
      /\ \A i \in Places : i > m => i - m \in Places' /\ jobs'[i - m] = jobs[i]
      /\ Places \subseteq Nat
  BY PassivePlaces
<1>2. \A i \in Places : jobs[i].what \in {"settle", "forget", "forgotten"} =>
         /\ jobs[i].query \in Issued /\ promise'[jobs[i].query] = promise[jobs[i].query]
  BY JobsAt DEF Passive
<1>s. ASSUME NEW i \in Places', jobs'[i].what = "settle", i > Len(jobs) - m
      PROVE  /\ k = 1 /\ promise'[jobs'[i].query] = "pending"
             /\ \A j \in Places : jobs[j] # jobs'[i]
  BY <1>s, JobsAt DEF Passive
<1>3. ASSUME NEW i \in Places', jobs'[i].what = "settle"
      PROVE  promise'[jobs'[i].query] = "pending"
  <2>1. CASE i <= Len(jobs) - m
    <3>1. i + m \in Places /\ jobs'[i] = jobs[i + m]  BY <1>1, <2>1
    <3> QED BY <1>2, <1>3, <3>1 DEF Orderly
  <2>2. CASE i > Len(jobs) - m  BY <1>s, <1>3, <2>2
  <2> QED BY <1>0, <2>1, <2>2 DEF Places
<1>4. ASSUME NEW i \in Places', NEW j \in Places', jobs'[i].what = "settle", jobs'[j] = jobs'[i]
      PROVE  i = j
  <2>0. i \in Nat /\ j \in Nat /\ i <= Len(jobs) - m + k /\ j <= Len(jobs) - m + k
    BY <1>0 DEF Places
  <2>1. CASE i <= Len(jobs) - m /\ j <= Len(jobs) - m
    <3>1. i + m \in Places /\ jobs'[i] = jobs[i + m]  BY <1>1, <2>1
    <3>2. j + m \in Places /\ jobs'[j] = jobs[j + m]  BY <1>1, <2>1
    <3>3. i + m = j + m  BY <1>4, <3>1, <3>2 DEF Orderly
    <3> QED BY <1>0, <2>0, <3>3
  <2>2. CASE i > Len(jobs) - m /\ j <= Len(jobs) - m
    <3>1. j + m \in Places /\ jobs'[j] = jobs[j + m]  BY <1>1, <2>2
    <3> QED BY <1>s, <1>4, <2>2, <3>1
  <2>3. CASE i <= Len(jobs) - m /\ j > Len(jobs) - m
    <3>1. i + m \in Places /\ jobs'[i] = jobs[i + m]  BY <1>1, <2>3
    <3> QED BY <1>s, <1>4, <2>3, <3>1
  <2>4. CASE i > Len(jobs) - m /\ j > Len(jobs) - m
    <3>1. k = 1  BY <1>s, <1>4, <2>4
    <3> QED BY <1>0, <2>0, <2>4, <3>1
  <2> QED BY <1>0, <2>0, <2>1, <2>2, <2>3, <2>4
<1>5. ASSUME NEW i \in Places', jobs'[i].what = "forget"
      PROVE  /\ promise'[jobs'[i].query] = "rejected"
             /\ i + 1 \in Places' /\ jobs'[i + 1] = Job("react", jobs'[i].query)
  <2> DEFINE next == i + m + 1
  <2>1. /\ i + m \in Places /\ jobs'[i] = jobs[i + m] /\ i \in Nat
        /\ next \in Places /\ jobs[next] = Job("react", jobs[i + m].query)
    BY <1>1, <1>5 DEF Orderly
  <2>2. next - m = i + 1 /\ next > m  BY <1>0, <2>1
  <2> HIDE DEF next
  <2>3. next - m \in Places' /\ jobs'[next - m] = jobs[next]  BY <1>1, <2>1, <2>2
  <2> QED BY <1>2, <1>5, <2>1, <2>2, <2>3 DEF Orderly
<1>6. ASSUME NEW i \in Places', NEW j \in Places', jobs'[i].what = "forget",
             jobs'[j] = Job("react", jobs'[i].query)
      PROVE  j = i + 1
  <2>1. i + m \in Places /\ jobs'[i] = jobs[i + m] /\ i \in Nat  BY <1>1, <1>6
  <2>2. jobs'[j].what = "react"  BY <1>6, JobFields
  <2>3. j + m \in Places /\ jobs'[j] = jobs[j + m] /\ j \in Nat  BY <1>1, <2>2
  <2>4. j + m = i + m + 1  BY <1>6, <2>1, <2>3 DEF Orderly
  <2> QED BY <1>0, <2>1, <2>3, <2>4
<1>7. ASSUME NEW i \in Places', jobs'[i].what = "forgotten"
      PROVE  /\ promise'[jobs'[i].query] = "rejected"
             /\ \/ jobs'[i].query \in known'
                \/ BetweenJobs' /\ jobs'[1] = Job("react", jobs'[i].query)
  <2>1. i + m \in Places /\ jobs'[i] = jobs[i + m] /\ i \in Nat /\ i >= 1
    BY <1>1, <1>7 DEF Places
  <2>2. promise'[jobs'[i].query] = "rejected"  BY <1>2, <1>7, <2>1 DEF Orderly
  <2>3. CASE jobs'[i].query \in known  BY <2>2, <2>3 DEF Passive
  <2>4. CASE BetweenJobs /\ jobs[1] = Job("react", jobs'[i].query)
    <3>1. jobs[1].what = "react" /\ jobs[1].query = jobs'[i].query  BY <2>4, JobFields
    <3>2. CASE m = 1  BY <2>2, <3>1, <3>2 DEF Passive
    <3>3. CASE m = 0
      <4>1. Issued # {}  BY <1>2, <1>7, <2>1
      <4>2. BetweenJobs'  BY <2>4, <3>3, <4>1 DEF Passive
      <4>3. 1 \in Places  BY <1>0, <2>1 DEF Places
      <4>4. 1 > m /\ 1 - m = 1  BY <3>3
      <4>5. jobs'[1] = jobs[1]  BY <1>1, <4>3, <4>4
      <4> QED BY <2>2, <2>4, <4>2, <4>5
    <3> QED BY <1>0, <3>2, <3>3
  <2> QED BY <1>7, <2>1, <2>3, <2>4 DEF Orderly
<1> QED BY <1>3, <1>4, <1>5, <1>6, <1>7 DEF Orderly

\* settle() of track(): the rejection is remembered, its reactions and its forgetting queued.
LEMMA SettleFacts ==
  ASSUME TypeOK, JobsHold, Orderly, Promised, Settle, NEW q, q = Head(jobs).query
  PROVE  /\ q \in Issued /\ jobs[1] = Job("settle", q) /\ 1 \in Places
         /\ promise[q] = "pending" /\ statement[q] \in {"fulfilled", "rejected"}
         /\ \A r \in Issued : promise'[r] = IF r = q THEN statement[q] ELSE promise[r]
         /\ \A i \in Places : jobs[i] = Job("settle", q) => i = 1
         /\ \A i \in Places : jobs[i] # Job("forget", q) /\ jobs[i] # Job("react", q)
                              /\ jobs[i] # Job("forgotten", q)
<1>1. jobs # <<>> /\ Head(jobs).what = "settle"  BY DEF Settle, NextJob
<1>2. jobs[1] = Job("settle", q) /\ 1 \in Places  BY <1>1, HeadIs
<1>3. jobs[1].what = "settle" /\ jobs[1].query = q  BY <1>2, JobFields
<1>4. q \in Issued /\ statement[q] # "pending"  BY <1>2, <1>3, JobsAt
<1>5. statement[q] \in Promises /\ DOMAIN promise = Issued  BY <1>4, QueueTypes DEF TypeOK
<1>6. promise[q] = "pending"  BY <1>2, <1>3 DEF Orderly
<1>7. promise' = [promise EXCEPT ![q] = statement[q]]  BY DEF Settle
<1>8. \A i \in Places : jobs[i] = Job("settle", q) => i = 1  BY <1>2, <1>3 DEF Orderly
<1>9. ASSUME NEW i \in Places
      PROVE  jobs[i] # Job("forget", q) /\ jobs[i] # Job("react", q) /\ jobs[i] # Job("forgotten", q)
  <2>1. jobs[i].what = "forget" => promise[jobs[i].query] = "rejected"  BY DEF Orderly
  <2>2. jobs[i].what = "forgotten" => promise[jobs[i].query] = "rejected"  BY DEF Orderly
  <2>3. jobs[i].what = "react" => promise[jobs[i].query] # "pending"  BY JobsAt
  <2> QED BY <1>6, <2>1, <2>2, <2>3, JobFields
<1> QED BY <1>2, <1>4, <1>5, <1>6, <1>7, <1>8, <1>9 DEF Promises

\* What becomes of the queue when q settles.
LEMMA SettlePlaces ==
  ASSUME TypeOK, JobsHold, Orderly, Promised, Settle, NEW q, q = Head(jobs).query
  PROVE  /\ Len(jobs) \in Nat /\ Len(jobs) >= 1
         /\ \A i \in Places : i \in Nat /\ i >= 1 /\ i <= Len(jobs)
         /\ \A i \in Places' : i \in Nat /\ i >= 1 /\ i <= Len(jobs) + 1
         /\ \A i \in Places' : i < Len(jobs) => i + 1 \in Places /\ jobs'[i] = jobs[i + 1]
         /\ \A i \in Places : i > 1 => i - 1 \in Places' /\ jobs'[i - 1] = jobs[i]
         /\ Len(jobs) \in Places'
         /\ \/ /\ statement[q] = "rejected" /\ Len(jobs) + 1 \in Places'
               /\ jobs'[Len(jobs)] = Job("forget", q) /\ jobs'[Len(jobs) + 1] = Job("react", q)
            \/ /\ statement[q] # "rejected" /\ Len(jobs) + 1 \notin Places'
               /\ jobs'[Len(jobs)] = Job("react", q)
<1>1. jobs # <<>> /\ jobs' = Tail(jobs) \o Reactions(q)  BY DEF Settle, NextJob
<1>2. q \in Issued  BY SettleFacts
<1>3. q \in 0..Len(statement)  BY <1>2, QueueTypes DEF Issued
<1>4. CASE statement[q] = "rejected"
  <2>1. Shifts(1, 2) /\ jobs'[Len(jobs)] = Job("forget", q) /\ jobs'[Len(jobs) + 1] = Job("react", q)
    BY <1>1, <1>3, <1>4, TakeAddTwo DEF Reactions
  <2> QED BY <1>4, <2>1 DEF Shifts, Places
<1>5. CASE statement[q] # "rejected"
  <2>1. Job("react", q) \in JobSet(Len(statement)) /\ Tail(jobs) \in Seq(JobSet(Len(statement)))
    BY <1>1, <1>3, QueueTypes, JobInSet, TailIs DEF Whats
  <2>2. Tail(jobs) \o <<Job("react", q)>> = Append(Tail(jobs), Job("react", q))
    BY <2>1, AppendIsConcat
  <2>3. jobs' = Append(Tail(jobs), Job("react", q))  BY <1>1, <1>5, <2>2 DEF Reactions
  <2>4. Shifts(1, 1) /\ jobs'[Len(jobs)] = Job("react", q)
    BY <1>1, <1>3, <2>3, TakeAddOne DEF Whats
  <2> QED BY <1>5, <2>4 DEF Shifts, Places
<1> QED BY <1>4, <1>5

LEMMA OrderlySettle ==
  ASSUME TypeOK, JobsHold, Orderly, Promised, Settle
  PROVE  Orderly'
<1>0. PICK q : q = Head(jobs).query  OBVIOUS
<1>1. /\ q \in Issued /\ jobs[1] = Job("settle", q) /\ 1 \in Places
      /\ promise[q] = "pending" /\ statement[q] \in {"fulfilled", "rejected"}
      /\ \A r \in Issued : promise'[r] = IF r = q THEN statement[q] ELSE promise[r]
      /\ \A i \in Places : jobs[i] = Job("settle", q) => i = 1
      /\ \A i \in Places : jobs[i] # Job("forget", q) /\ jobs[i] # Job("react", q)
                           /\ jobs[i] # Job("forgotten", q)
  BY <1>0, SettleFacts
<1>2. /\ Len(jobs) \in Nat /\ Len(jobs) >= 1
      /\ \A i \in Places : i \in Nat /\ i >= 1 /\ i <= Len(jobs)
      /\ \A i \in Places' : i \in Nat /\ i >= 1 /\ i <= Len(jobs) + 1
      /\ \A i \in Places' : i < Len(jobs) => i + 1 \in Places /\ jobs'[i] = jobs[i + 1]
      /\ \A i \in Places : i > 1 => i - 1 \in Places' /\ jobs'[i - 1] = jobs[i]
      /\ Len(jobs) \in Places'
      /\ \/ /\ statement[q] = "rejected" /\ Len(jobs) + 1 \in Places'
            /\ jobs'[Len(jobs)] = Job("forget", q) /\ jobs'[Len(jobs) + 1] = Job("react", q)
         \/ /\ statement[q] # "rejected" /\ Len(jobs) + 1 \notin Places'
            /\ jobs'[Len(jobs)] = Job("react", q)
  BY <1>0, SettlePlaces
<1>3. ASSUME NEW i \in Places'
      PROVE  \/ i < Len(jobs) /\ i + 1 \in Places /\ jobs'[i] = jobs[i + 1]
             \/ i = Len(jobs) /\ jobs'[i] = Job("forget", q) /\ statement[q] = "rejected"
             \/ i = Len(jobs) /\ jobs'[i] = Job("react", q) /\ statement[q] # "rejected"
             \/ i = Len(jobs) + 1 /\ jobs'[i] = Job("react", q) /\ statement[q] = "rejected"
  BY <1>2
<1>4. \A w : Job(w, q).what = w /\ Job(w, q).query = q  BY JobFields
<1>5. \A i \in Places : jobs[i].what \in {"settle", "forget", "forgotten"} =>
        jobs[i].query \in Issued /\ jobs[i] = Job(jobs[i].what, jobs[i].query)
  BY JobsAt
<1>6. \A i \in Places : i # 1 /\ jobs[i].what \in {"settle", "forget", "forgotten"} =>
        jobs[i].query # q /\ promise'[jobs[i].query] = promise[jobs[i].query]
  BY <1>1, <1>5
<1>7. ASSUME NEW i \in Places', jobs'[i].what \in {"settle", "forgotten"}
      PROVE  i < Len(jobs) /\ i + 1 \in Places /\ jobs'[i] = jobs[i + 1] /\ i + 1 # 1
  BY <1>2, <1>3, <1>4, <1>7
<1>8. ASSUME NEW i \in Places', jobs'[i].what = "settle"
      PROVE  promise'[jobs'[i].query] = "pending"
  <2>1. i + 1 \in Places /\ jobs'[i] = jobs[i + 1] /\ i + 1 # 1  BY <1>7, <1>8
  <2> QED BY <1>6, <1>8, <2>1 DEF Orderly
<1>9. ASSUME NEW i \in Places', NEW j \in Places', jobs'[i].what = "settle", jobs'[j] = jobs'[i]
      PROVE  i = j
  <2>1. i + 1 \in Places /\ jobs'[i] = jobs[i + 1]  BY <1>7, <1>9
  <2>2. j + 1 \in Places /\ jobs'[j] = jobs[j + 1]  BY <1>7, <1>9
  <2>3. i + 1 = j + 1  BY <1>9, <2>1, <2>2 DEF Orderly
  <2> QED BY <1>2, <2>3
<1>10. ASSUME NEW i \in Places', jobs'[i].what = "forget"
       PROVE  /\ promise'[jobs'[i].query] = "rejected"
              /\ i + 1 \in Places' /\ jobs'[i + 1] = Job("react", jobs'[i].query)
  <2>1. CASE i < Len(jobs) /\ i + 1 \in Places /\ jobs'[i] = jobs[i + 1]
    <3> DEFINE next == (i + 1) + 1
    <3>1. i + 1 # 1 /\ next > 1 /\ next - 1 = i + 1  BY <1>2
    <3>2. /\ promise[jobs[i + 1].query] = "rejected" /\ next \in Places
          /\ jobs[next] = Job("react", jobs[i + 1].query)
      BY <1>10, <2>1 DEF Orderly
    <3> HIDE DEF next
    <3>3. next - 1 \in Places' /\ jobs'[next - 1] = jobs[next]  BY <1>2, <3>1, <3>2
    <3>4. promise'[jobs[i + 1].query] = promise[jobs[i + 1].query]  BY <1>6, <1>10, <2>1, <3>1
    <3> QED BY <2>1, <3>1, <3>2, <3>3, <3>4
  <2>2. CASE i = Len(jobs) /\ jobs'[i] = Job("forget", q) /\ statement[q] = "rejected"
    BY <1>1, <1>2, <1>4, <2>2
  <2> QED BY <1>3, <1>4, <1>10, <2>1, <2>2
<1>11. ASSUME NEW i \in Places', NEW j \in Places', jobs'[i].what = "forget",
              jobs'[j] = Job("react", jobs'[i].query)
       PROVE  j = i + 1
  <2>1. CASE i < Len(jobs) /\ i + 1 \in Places /\ jobs'[i] = jobs[i + 1]
    <3>1. jobs[i + 1].query # q  BY <1>2, <1>6, <1>11, <2>1
    <3>2. jobs'[j].query # q  BY <1>11, <2>1, <3>1, JobFields
    <3>3. j + 1 \in Places /\ jobs'[j] = jobs[j + 1]  BY <1>3, <1>4, <3>2
    <3>4. j + 1 = (i + 1) + 1  BY <1>11, <2>1, <3>3 DEF Orderly
    <3> QED BY <1>2, <3>4
  <2>2. CASE i = Len(jobs) /\ jobs'[i] = Job("forget", q) /\ statement[q] = "rejected"
    <3>1. jobs'[j] = Job("react", q)  BY <1>4, <1>11, <2>2
    <3>2. ~(j < Len(jobs) /\ j + 1 \in Places /\ jobs'[j] = jobs[j + 1])  BY <1>1, <3>1
    <3>3. jobs'[j].what = "react"  BY <1>4, <3>1
    <3> QED BY <1>3, <1>4, <2>2, <3>2, <3>3
  <2> QED BY <1>3, <1>4, <1>11, <2>1, <2>2
<1>12. ASSUME NEW i \in Places', jobs'[i].what = "forgotten"
       PROVE  promise'[jobs'[i].query] = "rejected" /\ jobs'[i].query \in known'
  <2>1. i + 1 \in Places /\ jobs'[i] = jobs[i + 1] /\ i + 1 # 1  BY <1>7, <1>12
  <2>2. promise'[jobs[i + 1].query] = promise[jobs[i + 1].query]  BY <1>6, <1>12, <2>1
  <2>3. jobs[1] # Job("react", jobs[i + 1].query)  BY <1>1, JobFields
  <2>4. known' = known  BY DEF Settle, history
  <2> QED BY <1>12, <2>1, <2>2, <2>3, <2>4 DEF Orderly
<1> QED BY <1>8, <1>9, <1>10, <1>11, <1>12 DEF Orderly

\* The outer microtask of rememberRejection().
LEMMA ForgetFacts ==
  ASSUME TypeOK, JobsHold, Orderly, Forget, NEW q, q = Head(jobs).query
  PROVE  /\ q \in Issued /\ jobs[1] = Job("forget", q) /\ 1 \in Places /\ promise[q] = "rejected"
         /\ 2 \in Places /\ jobs[2] = Job("react", q)
         /\ Len(jobs) \in Nat /\ Len(jobs) >= 2 /\ Len(jobs') = Len(jobs)
         /\ Places' = Places /\ Places \subseteq Nat
         /\ \A i \in Places : i >= 1 /\ i <= Len(jobs)
         /\ \A i \in Places : i < Len(jobs) => i + 1 \in Places /\ jobs'[i] = jobs[i + 1]
         /\ \A i \in Places : i > 1 => i - 1 \in Places /\ jobs'[i - 1] = jobs[i]
         /\ jobs'[Len(jobs)] = Job("forgotten", q)
         /\ Len(jobs) \in Places
         /\ \A r \in Issued : promise'[r] = promise[r]
         /\ \A i \in Places : jobs[i] = Job("forget", q) => i = 1
<1>1. jobs # <<>> /\ Head(jobs).what = "forget" /\ jobs' = Append(Tail(jobs), Job("forgotten", q))
      /\ promise' = promise
  BY DEF Forget, NextJob, queries
<1>2. jobs[1] = Job("forget", q) /\ 1 \in Places  BY <1>1, HeadIs
<1>3. jobs[1].what = "forget" /\ jobs[1].query = q  BY <1>2, JobFields
<1>4. q \in Issued  BY <1>2, <1>3, JobsAt
<1>5. q \in 0..Len(statement)  BY <1>4, QueueTypes DEF Issued
<1>6. Shifts(1, 1) /\ jobs'[Len(jobs)] = Job("forgotten", q)
  BY <1>1, <1>5, TakeAddOne DEF Whats
<1>7. /\ promise[q] = "rejected" /\ 1 + 1 \in Places /\ jobs[1 + 1] = Job("react", q)
  BY <1>2, <1>3 DEF Orderly
<1>8. 1 + 1 = 2  OBVIOUS
<1>9. ASSUME NEW i \in Places, jobs[i] = Job("forget", q)
      PROVE  i = 1
  <2>1. jobs[i].what = "forget" /\ jobs[i].query = q  BY <1>9, JobFields
  <2>2. 2 = i + 1  BY <1>7, <1>8, <2>1 DEF Orderly
  <2> QED BY <1>6, <2>2 DEF Places, Shifts
<1>10. /\ Len(jobs) \in Nat /\ Len(jobs) >= 2 /\ Len(jobs') = Len(jobs) /\ 2 \in Places
       /\ jobs[2] = Job("react", q)
       /\ \A i \in 1..(Len(jobs) - 1) : jobs'[i] = jobs[i + 1]
  BY <1>6, <1>7, <1>8 DEF Shifts, Places
<1>11. /\ Places' = Places /\ Places \subseteq Nat /\ Len(jobs) \in Places
       /\ \A i \in Places : i >= 1 /\ i <= Len(jobs)
       /\ \A i \in Places : i < Len(jobs) => i + 1 \in Places /\ jobs'[i] = jobs[i + 1]
  BY <1>10 DEF Places
<1>12. ASSUME NEW i \in Places, i > 1
       PROVE  i - 1 \in Places /\ jobs'[i - 1] = jobs[i]
  <2>1. i - 1 \in 1..(Len(jobs) - 1) /\ (i - 1) + 1 = i /\ i - 1 \in Places
    BY <1>10, <1>12 DEF Places
  <2> QED BY <1>10, <2>1
<1> QED BY <1>1, <1>2, <1>4, <1>6, <1>7, <1>9, <1>10, <1>11, <1>12

LEMMA OrderlyForget ==
  ASSUME TypeOK, JobsHold, Orderly, Forget
  PROVE  Orderly'
<1>0. PICK q : q = Head(jobs).query  OBVIOUS
<1>1. /\ q \in Issued /\ jobs[1] = Job("forget", q) /\ 1 \in Places /\ promise[q] = "rejected"
      /\ 2 \in Places /\ jobs[2] = Job("react", q)
      /\ Len(jobs) \in Nat /\ Len(jobs) >= 2
      /\ Places' = Places /\ Places \subseteq Nat
      /\ \A i \in Places : i >= 1 /\ i <= Len(jobs)
      /\ \A i \in Places : i < Len(jobs) => i + 1 \in Places /\ jobs'[i] = jobs[i + 1]
      /\ \A i \in Places : i > 1 => i - 1 \in Places /\ jobs'[i - 1] = jobs[i]
      /\ jobs'[Len(jobs)] = Job("forgotten", q)
      /\ \A r \in Issued : promise'[r] = promise[r]
      /\ \A i \in Places : jobs[i] = Job("forget", q) => i = 1
  BY <1>0, ForgetFacts
<1>2. \A w : Job(w, q).what = w /\ Job(w, q).query = q  BY JobFields
<1>3. ASSUME NEW i \in Places, jobs'[i].what # "forgotten"
      PROVE  i \in Nat /\ i + 1 \in Places /\ jobs'[i] = jobs[i + 1]
  BY <1>1, <1>2, <1>3
<1>4. \A i \in Places : jobs[i].what \in {"settle", "forget", "forgotten"} =>
        jobs[i].query \in Issued /\ promise'[jobs[i].query] = promise[jobs[i].query]
  BY <1>1, JobsAt
<1>5. ASSUME NEW i \in Places, jobs'[i].what = "settle"
      PROVE  promise'[jobs'[i].query] = "pending"
  BY <1>3, <1>4, <1>5 DEF Orderly
<1>6. ASSUME NEW i \in Places, NEW j \in Places, jobs'[i].what = "settle", jobs'[j] = jobs'[i]
      PROVE  i = j
  <2>1. i \in Nat /\ i + 1 \in Places /\ jobs'[i] = jobs[i + 1]  BY <1>3, <1>6
  <2>2. j \in Nat /\ j + 1 \in Places /\ jobs'[j] = jobs[j + 1]  BY <1>3, <1>6
  <2>3. i + 1 = j + 1  BY <1>6, <2>1, <2>2 DEF Orderly
  <2> QED BY <2>1, <2>2, <2>3
<1>7. ASSUME NEW i \in Places, jobs'[i].what = "forget"
      PROVE  /\ promise'[jobs'[i].query] = "rejected"
             /\ i + 1 \in Places /\ jobs'[i + 1] = Job("react", jobs'[i].query)
  <2> DEFINE next == (i + 1) + 1
  <2>1. i \in Nat /\ i + 1 \in Places /\ jobs'[i] = jobs[i + 1]  BY <1>3, <1>7
  <2>2. /\ promise[jobs[i + 1].query] = "rejected" /\ next \in Places
        /\ jobs[next] = Job("react", jobs[i + 1].query)
    BY <1>7, <2>1 DEF Orderly
  <2>3. next > 1 /\ next - 1 = i + 1  BY <2>1
  <2> HIDE DEF next
  <2>4. next - 1 \in Places /\ jobs'[next - 1] = jobs[next]  BY <1>1, <2>2, <2>3
  <2> QED BY <1>4, <1>7, <2>1, <2>2, <2>3, <2>4
<1>8. ASSUME NEW i \in Places, NEW j \in Places, jobs'[i].what = "forget",
             jobs'[j] = Job("react", jobs'[i].query)
      PROVE  j = i + 1
  <2>1. i \in Nat /\ i + 1 \in Places /\ jobs'[i] = jobs[i + 1]  BY <1>3, <1>8
  <2>2. jobs'[j].what = "react"  BY <1>8, JobFields
  <2>3. j \in Nat /\ j + 1 \in Places /\ jobs'[j] = jobs[j + 1]  BY <1>3, <2>2
  <2>4. j + 1 = (i + 1) + 1  BY <1>8, <2>1, <2>3 DEF Orderly
  <2> QED BY <2>1, <2>3, <2>4
<1>9. BetweenJobs' /\ jobs'[1] = Job("react", q) /\ known' = known
  <2>1. BetweenJobs /\ UNCHANGED <<callback, known>>  BY DEF Forget, NextJob, history
  <2>2. 1 < Len(jobs) /\ 1 + 1 = 2  BY <1>1
  <2> QED BY <1>1, <2>1, <2>2 DEF BetweenJobs
<1>10. ASSUME NEW i \in Places, jobs'[i].what = "forgotten"
       PROVE  /\ promise'[jobs'[i].query] = "rejected"
              /\ jobs'[i].query \in known' \/ jobs'[1] = Job("react", jobs'[i].query)
  <2>1. CASE i = Len(jobs)
    BY <1>1, <1>2, <1>9, <2>1
  <2>2. CASE i < Len(jobs)
    <3>1. i + 1 \in Places /\ jobs'[i] = jobs[i + 1]  BY <1>1, <2>2
    <3>2. jobs[1].what = "forget"  BY <1>1, <1>2
    <3>3. jobs[1] # Job("react", jobs[i + 1].query)  BY <3>2, JobFields
    <3> QED BY <1>4, <1>9, <1>10, <3>1, <3>3 DEF Orderly
  <2> QED BY <1>1, <2>1, <2>2
<1> QED BY <1>1, <1>5, <1>6, <1>7, <1>8, <1>9, <1>10 DEF Orderly

-----------------------------------------------------------------------------
(* What is remembered.                                                      *)

LEMMA RememberedPassive ==
  ASSUME TypeOK, JobsHold, Orderly, Remembered, NEW m, NEW k, Passive(m, k),
         \A q \in Issued' \ Issued : promise'[q] = "pending",
         justRejectedQueries' =
           IF m = 1 /\ jobs[1].what = "forgotten" THEN justRejectedQueries \ {jobs[1].query}
           ELSE justRejectedQueries
  PROVE  Remembered'
<1>0. /\ m \in {0, 1} /\ m <= Len(jobs) /\ Len(jobs) \in Nat
      /\ Places \subseteq Nat
      /\ \A i \in Places : i >= 1 /\ i <= Len(jobs)
      /\ \A i \in Places : i > m => i - m \in Places' /\ jobs'[i - m] = jobs[i]
  BY PassivePlaces
<1>1. ASSUME NEW q \in Issued', promise'[q] = "rejected", q \notin known'
      PROVE  q \in justRejectedQueries'
  <2>1. q \in Issued /\ promise[q] = "rejected" /\ q \notin known  BY <1>1 DEF Passive
  <2>2. q \in justRejectedQueries  BY <2>1 DEF Remembered
  <2>3. ASSUME m = 1, jobs[1].what = "forgotten", jobs[1].query = q
        PROVE  FALSE
    <3>1. 1 \in Places  BY <1>0, <2>3 DEF Places
    <3>2. jobs[1] # Job("react", q)  BY <2>3, JobFields
    <3> QED BY <2>1, <2>3, <3>1, <3>2 DEF Orderly
  <2> QED BY <2>2, <2>3
<1>2. ASSUME NEW q \in justRejectedQueries'
      PROVE  \E i \in Places' : jobs'[i].query = q /\ jobs'[i].what \in {"forget", "forgotten"}
  <2>1. q \in justRejectedQueries  BY <1>2
  <2>2. PICK i \in Places : jobs[i].query = q /\ jobs[i].what \in {"forget", "forgotten"}
    BY <2>1 DEF Remembered
  <2>3. CASE i > m
    <3>1. i - m \in Places' /\ jobs'[i - m] = jobs[i]  BY <1>0, <2>3
    <3> QED BY <2>2, <3>1
  <2>4. CASE i <= m
    <3>1. m = 1 /\ i = 1  BY <1>0, <2>4
    <3>2. jobs[1].what # "forget"  BY <3>1 DEF Passive
    <3>3. jobs[1].what = "forgotten" /\ jobs[1].query = q  BY <2>2, <3>1, <3>2
    <3> QED BY <1>2, <3>1, <3>3
  <2> QED BY <1>0, <2>3, <2>4
<1> QED BY <1>1, <1>2 DEF Remembered

LEMMA RememberedSettle ==
  ASSUME TypeOK, JobsHold, Orderly, Promised, Remembered, Settle
  PROVE  Remembered'
<1>0. PICK q : q = Head(jobs).query  OBVIOUS
<1>1. /\ q \in Issued /\ jobs[1] = Job("settle", q) /\ 1 \in Places
      /\ statement[q] \in {"fulfilled", "rejected"}
      /\ \A r \in Issued : promise'[r] = IF r = q THEN statement[q] ELSE promise[r]
  BY <1>0, SettleFacts
<1>2. /\ Len(jobs) \in Nat /\ Len(jobs) >= 1 /\ Places \subseteq Nat
      /\ \A i \in Places : i >= 1
      /\ \A i \in Places : i > 1 => i - 1 \in Places' /\ jobs'[i - 1] = jobs[i]
      /\ Len(jobs) \in Places'
      /\ statement[q] = "rejected" => jobs'[Len(jobs)] = Job("forget", q)
  BY <1>0, SettlePlaces
<1>3. justRejectedQueries' = justRejectedQueries \cup (IF statement[q] = "rejected" THEN {q} ELSE {})
      /\ known' = known /\ Issued' = Issued
  BY <1>0 DEF Settle, history, Issued
<1>4. ASSUME NEW r \in Issued, promise'[r] = "rejected", r \notin known
      PROVE  r \in justRejectedQueries'
  BY <1>1, <1>3, <1>4 DEF Remembered
<1>5. ASSUME NEW r \in justRejectedQueries'
      PROVE  \E i \in Places' : jobs'[i].query = r /\ jobs'[i].what \in {"forget", "forgotten"}
  <2>1. CASE r = q /\ statement[q] = "rejected"
    <3>1. jobs'[Len(jobs)].what = "forget" /\ jobs'[Len(jobs)].query = q  BY <1>2, <2>1, JobFields
    <3> QED BY <1>2, <2>1, <3>1
  <2>2. CASE r \in justRejectedQueries
    <3>1. PICK i \in Places : jobs[i].query = r /\ jobs[i].what \in {"forget", "forgotten"}
      BY <2>2 DEF Remembered
    <3>2. jobs[1].what = "settle"  BY <1>1, JobFields
    <3>3. i > 1  BY <1>2, <3>1, <3>2
    <3>4. i - 1 \in Places' /\ jobs'[i - 1] = jobs[i]  BY <1>2, <3>3
    <3> QED BY <3>1, <3>4
  <2> QED BY <1>3, <1>5, <2>1, <2>2
<1> QED BY <1>3, <1>4, <1>5 DEF Remembered

LEMMA RememberedForget ==
  ASSUME TypeOK, JobsHold, Orderly, Remembered, Forget
  PROVE  Remembered'
<1>0. PICK q : q = Head(jobs).query  OBVIOUS
<1>1. /\ jobs[1] = Job("forget", q) /\ 1 \in Places /\ Len(jobs) \in Places
      /\ Places' = Places /\ Places \subseteq Nat
      /\ \A i \in Places : i >= 1
      /\ \A i \in Places : i > 1 => i - 1 \in Places /\ jobs'[i - 1] = jobs[i]
      /\ jobs'[Len(jobs)] = Job("forgotten", q)
  BY <1>0, ForgetFacts
<1>2. UNCHANGED <<promise, known, justRejectedQueries>> /\ Issued' = Issued
  BY DEF Forget, queries, history, Issued
<1>3. ASSUME NEW r \in justRejectedQueries
      PROVE  \E i \in Places : jobs'[i].query = r /\ jobs'[i].what \in {"forget", "forgotten"}
  <2>1. PICK i \in Places : jobs[i].query = r /\ jobs[i].what \in {"forget", "forgotten"}
    BY <1>3 DEF Remembered
  <2>2. CASE i > 1
    <3>1. i - 1 \in Places /\ jobs'[i - 1] = jobs[i]  BY <1>1, <2>2
    <3> QED BY <2>1, <3>1
  <2>3. CASE i = 1
    <3>1. r = q  BY <1>1, <2>1, <2>3, JobFields
    <3>2. jobs'[Len(jobs)].what = "forgotten" /\ jobs'[Len(jobs)].query = q  BY <1>1, JobFields
    <3> QED BY <1>1, <3>1, <3>2
  <2> QED BY <1>1, <2>2, <2>3
<1> QED BY <1>1, <1>2, <1>3 DEF Remembered

-----------------------------------------------------------------------------
(* What the callback has been told when it ends.                            *)

\* What a passive step does to the callback and to what is remembered.
Tells(m, k) ==
  /\ CallbackEnded => CallbackEnded' /\ seen' = seen
  /\ \A i \in Places' : i > Len(jobs) - m /\ jobs'[i].what = "transaction" => CallbackEnded'
  /\ callback'.query \in {callback.query, 0} \/ callback.at # "resuming"
  /\ \/ seen' = seen
     \/ /\ m = 1
        /\ \E q \in Issued : /\ seen' = seen \cup {q} /\ promise[q] = "rejected"
                             /\ \/ jobs[1] = Job("react", q)
                                \/ jobs[1].what = "callback" /\ callback.query = q
  /\ \A q \in Issued' \ Issued : promise'[q] = "pending"
  /\ justRejectedQueries' =
       IF m = 1 /\ jobs[1].what = "forgotten" THEN justRejectedQueries \ {jobs[1].query}
       ELSE justRejectedQueries
  /\ m = 1 /\ jobs[1].what = "transaction" => pc' # "callback"
  /\ pc # "callback" => pc' # "callback" \/ ~CallbackEnded'
  /\ \/ ~CallbackEnded /\ ~CallbackEnded'
     \/ CallbackEnded /\ \A q \in late' : q \in late \/ q \in Issued' \ Issued
     \/ /\ ~BetweenJobs /\ m = 0 /\ k = 1 /\ jobs'[Len(jobs) + 1] = TransactionResumes
        /\ late' = Issued \ known /\ seen' = seen /\ Issued' = Issued

LEMMA ToldPassive ==
  ASSUME TypeOK, JobsHold, CallbackJobs, Orderly, Told, NEW m, NEW k, Passive(m, k), Tells(m, k)
  PROVE  Told'
<1>0. /\ m \in {0, 1} /\ m <= Len(jobs) /\ Len(jobs) \in Nat /\ Places \subseteq Nat
      /\ Places' \subseteq Nat
      /\ \A i \in Places : i >= 1 /\ i <= Len(jobs)
      /\ \A i \in Places' : i >= 1
      /\ \A i \in Places' : jobs'[i].what \notin Added \/ i <= Len(jobs) - m =>
           i + m \in Places /\ jobs'[i] = jobs[i + m]
      /\ "forget" \notin Added
  BY PassivePlaces
<1>1. \A q \in seen' : promise'[q] = "rejected"
  <2>1. seen \subseteq Issued  BY DEF TypeOK
  <2> QED BY <2>1 DEF Passive, Tells, Told
<1>2. ASSUME NEW i \in Places', jobs'[i].what = "forget", jobs'[i].query \in seen'
      PROVE  FALSE
  <2>1. i + m \in Places /\ jobs'[i] = jobs[i + m] /\ i \in Nat /\ i >= 1  BY <1>0, <1>2
  <2>2. jobs[i + m].query \notin seen  BY <1>2, <2>1 DEF Told
  <2>3. /\ m = 1
        /\ \/ jobs[1] = Job("react", jobs[i + m].query)
           \/ jobs[1].what = "callback" /\ callback.query = jobs[i + m].query
    BY <1>2, <2>1, <2>2 DEF Tells
  <2>4. 1 \in Places  BY <1>0, <2>3 DEF Places
  <2>5. CASE jobs[1] = Job("react", jobs[i + m].query)
    <3>1. 1 = i + m + 1  BY <1>2, <2>1, <2>4, <2>5 DEF Orderly
    <3> QED BY <2>1, <2>3, <3>1
  <2>6. CASE jobs[1].what = "callback" /\ callback.query = jobs[i + m].query
    <3>1. i + m < 1  BY <1>2, <2>1, <2>4, <2>6 DEF Told
    <3> QED BY <2>1, <2>3, <3>1
  <2> QED BY <2>3, <2>5, <2>6
<1>3. ASSUME NEW i \in Places', NEW j \in Places', jobs'[i].what = "forget",
             jobs'[j].what = "callback", jobs'[i].query = callback'.query
      PROVE  i < j
  <2>1. i + m \in Places /\ jobs'[i] = jobs[i + m] /\ i \in Nat /\ j \in Nat  BY <1>0, <1>3
  <2>2. CASE j > Len(jobs) - m
    <3>1. i + m <= Len(jobs)  BY <1>0, <2>1
    <3> QED BY <1>0, <2>1, <2>2, <3>1
  <2>3. CASE j <= Len(jobs) - m
    <3>1. j + m \in Places /\ jobs'[j] = jobs[j + m]  BY <1>0, <2>3
    <3>2. callback.at = "resuming"  BY <1>3, <3>1 DEF CallbackJobs, Places
    <3>3. jobs[i + m].query \in Issued  BY <1>3, <2>1, JobsAt
    <3>4. jobs[i + m].query # 0  BY <3>3, QueueTypes DEF Issued
    <3>5. jobs[i + m].query = callback.query  BY <1>3, <2>1, <3>2, <3>4 DEF Tells
    <3>6. i + m < j + m  BY <1>3, <2>1, <3>1, <3>5 DEF Told
    <3> QED BY <1>0, <2>1, <3>6
  <2> QED BY <1>0, <2>1, <2>2, <2>3
<1>4. ASSUME NEW i \in Places', jobs'[i].what = "transaction"
      PROVE  CallbackEnded'
  <2>1. CASE i > Len(jobs) - m  BY <1>4, <2>1 DEF Tells
  <2>2. CASE i <= Len(jobs) - m
    <3>1. i + m \in Places /\ jobs'[i] = jobs[i + m]  BY <1>0, <2>2
    <3>2. CallbackEnded  BY <1>4, <3>1 DEF Told
    <3> QED BY <3>2 DEF Tells
  <2> QED BY <1>0, <2>1, <2>2
<1> QED BY <1>1, <1>2, <1>3, <1>4 DEF Told

LEMMA ToldSettle ==
  ASSUME TypeOK, JobsHold, CallbackJobs, Orderly, Promised, Attended, Told, Settle
  PROVE  Told'
<1>0. PICK q : q = Head(jobs).query  OBVIOUS
<1>1. /\ q \in Issued /\ promise[q] = "pending"
      /\ \A r \in Issued : promise'[r] = IF r = q THEN statement[q] ELSE promise[r]
  BY <1>0, SettleFacts
<1>2. /\ Len(jobs) \in Nat /\ Places' \subseteq Nat /\ Places \subseteq Nat
      /\ \A i \in Places' : i < Len(jobs) => i + 1 \in Places /\ jobs'[i] = jobs[i + 1]
      /\ \A i \in Places' : i >= Len(jobs) => jobs'[i] \in {Job("forget", q), Job("react", q)}
  BY <1>0, SettlePlaces
<1>3. UNCHANGED <<callback, seen>>  BY DEF Settle, history
<1>4. seen \subseteq Issued  BY DEF TypeOK
<1>5. q \notin seen  BY <1>1 DEF Told
<1>6. \A r \in seen' : promise'[r] = "rejected"  BY <1>1, <1>3, <1>4, <1>5 DEF Told
<1>7. ASSUME NEW i \in Places', jobs'[i].what = "forget"
      PROVE  jobs'[i].query \notin seen'
  <2>1. CASE i < Len(jobs)  BY <1>2, <1>3, <1>7, <2>1 DEF Told
  <2>2. CASE i >= Len(jobs)  BY <1>2, <1>3, <1>5, <2>2, JobFields
  <2> QED BY <1>2, <2>1, <2>2
<1>8. ASSUME NEW i \in Places', NEW j \in Places', jobs'[i].what = "forget",
             jobs'[j].what = "callback", jobs'[i].query = callback'.query
      PROVE  i < j
  <2>1. j < Len(jobs) /\ j \in Nat /\ i \in Nat  BY <1>2, <1>8, JobFields
  <2>2. j + 1 \in Places /\ jobs'[j] = jobs[j + 1]  BY <1>2, <2>1
  <2>3. CASE i < Len(jobs)
    <3>1. i + 1 \in Places /\ jobs'[i] = jobs[i + 1]  BY <1>2, <2>3
    <3>2. i + 1 < j + 1  BY <1>3, <1>8, <2>2, <3>1 DEF Told
    <3> QED BY <2>1, <3>2
  <2>4. CASE i >= Len(jobs)
    <3>1. callback.query = q  BY <1>2, <1>3, <1>8, <2>4, JobFields
    <3>2. callback.at = "resuming"  BY <1>8, <2>2 DEF CallbackJobs, Places
    <3>3. callback.query # 0  BY <1>1, <3>1, QueueTypes DEF Issued
    <3> QED BY <1>1, <3>1, <3>2, <3>3 DEF Attended
  <2> QED BY <1>2, <2>1, <2>3, <2>4
<1>9. ASSUME NEW i \in Places', jobs'[i].what = "transaction"
      PROVE  CallbackEnded'
  <2>1. i < Len(jobs)  BY <1>2, <1>9, JobFields
  <2>2. i + 1 \in Places /\ jobs'[i] = jobs[i + 1]  BY <1>2, <2>1
  <2> QED BY <1>3, <1>9, <2>2 DEF Told, CallbackEnded
<1> QED BY <1>6, <1>7, <1>8, <1>9 DEF Told

LEMMA ToldForget ==
  ASSUME TypeOK, JobsHold, Orderly, Told, Forget
  PROVE  Told'
<1>0. PICK q : q = Head(jobs).query  OBVIOUS
<1>1. /\ Places' = Places /\ Places \subseteq Nat /\ Len(jobs) \in Nat
      /\ \A i \in Places : i <= Len(jobs)
      /\ \A i \in Places : i < Len(jobs) => i + 1 \in Places /\ jobs'[i] = jobs[i + 1]
      /\ jobs'[Len(jobs)] = Job("forgotten", q)
  BY <1>0, ForgetFacts
<1>2. UNCHANGED <<callback, seen, promise>>  BY DEF Forget, history, queries
<1>3. ASSUME NEW i \in Places, jobs'[i].what # "forgotten"
      PROVE  i \in Nat /\ i + 1 \in Places /\ jobs'[i] = jobs[i + 1]
  BY <1>1, <1>3, JobFields
<1>4. \A i \in Places : jobs'[i].what = "forget" => jobs'[i].query \notin seen
  BY <1>3 DEF Told
<1>5. ASSUME NEW i \in Places, NEW j \in Places, jobs'[i].what = "forget",
             jobs'[j].what = "callback", jobs'[i].query = callback.query
      PROVE  i < j
  <2>1. i \in Nat /\ i + 1 \in Places /\ jobs'[i] = jobs[i + 1]  BY <1>3, <1>5
  <2>2. j \in Nat /\ j + 1 \in Places /\ jobs'[j] = jobs[j + 1]  BY <1>3, <1>5
  <2>3. i + 1 < j + 1  BY <1>5, <2>1, <2>2 DEF Told
  <2> QED BY <2>1, <2>2, <2>3
<1>6. \A i \in Places : jobs'[i].what = "transaction" => CallbackEnded  BY <1>3 DEF Told
<1> QED BY <1>1, <1>2, <1>4, <1>5, <1>6 DEF Told, CallbackEnded

LEMMA AtTheEndPassive ==
  ASSUME TypeOK, JobsHold, Orderly, Remembered, Told, AtTheEnd,
         NEW m, NEW k, Passive(m, k), Tells(m, k)
  PROVE  AtTheEnd'
<1>0. /\ m \in {0, 1} /\ k \in {0, 1, 2} /\ m <= Len(jobs) /\ Len(jobs) \in Nat
      /\ Len(jobs') = Len(jobs) - m + k
      /\ Places \subseteq Nat /\ Places' \subseteq Nat
      /\ \A i \in Places : i >= 1 /\ i <= Len(jobs)
      /\ \A i \in Places' : i >= 1 /\ i <= Len(jobs')
      /\ \A i \in Places' : jobs'[i].what \notin Added \/ i <= Len(jobs) - m =>
           i + m \in Places /\ jobs'[i] = jobs[i + m]
      /\ \A i \in Places : i > m => i - m \in Places' /\ jobs'[i - m] = jobs[i]
      /\ "forgotten" \notin Added
  BY PassivePlaces
<1>1. SUFFICES ASSUME pc' = "callback", CallbackEnded'
               PROVE \E j \in Places' :
                 /\ jobs'[j].what = "transaction"
                 /\ \A q \in late' : promise'[q] = "rejected" =>
                      /\ q \in justRejectedQueries'
                      /\ \A i \in Places' : jobs'[i] = Job("forgotten", q) => j < i
                 /\ \A q \in seen' \cap justRejectedQueries' : ForgottenFirst(q)'
  BY DEF AtTheEnd
<1>2. pc = "callback"  BY <1>1 DEF Tells
<1>p. \A q \in Issued : promise'[q] = promise[q]  BY DEF Passive
<1>3. CASE CallbackEnded /\ \A q \in late' : q \in late \/ q \in Issued' \ Issued
  <2>1. PICK j \in Places :
          /\ jobs[j].what = "transaction"
          /\ \A q \in late : promise[q] = "rejected" =>
               /\ q \in justRejectedQueries
               /\ \A i \in Places : jobs[i] = Job("forgotten", q) => j < i
          /\ \A q \in seen \cap justRejectedQueries : ForgottenFirst(q)
    BY <1>2, <1>3 DEF AtTheEnd
  <2>2. j > m
    <3>1. m = 1 => jobs[1].what # "transaction"  BY <1>1 DEF Tells
    <3> QED BY <1>0, <2>1, <3>1
  <2>3. j - m \in Places' /\ jobs'[j - m] = jobs[j] /\ j \in Nat  BY <1>0, <2>2
  <2>4. ASSUME NEW q \in late', promise'[q] = "rejected"
        PROVE  /\ q \in justRejectedQueries'
               /\ \A i \in Places' : jobs'[i] = Job("forgotten", q) => j - m < i
    <3>1. q \in late /\ q \in Issued  BY <1>3, <2>4 DEF Tells, TypeOK
    <3>2. /\ q \in justRejectedQueries
          /\ \A i \in Places : jobs[i] = Job("forgotten", q) => j < i
      BY <1>p, <2>1, <2>4, <3>1
    <3>3. q \in justRejectedQueries'
      <4>1. ASSUME m = 1, jobs[1].what = "forgotten", jobs[1].query = q
            PROVE  FALSE
        <5>1. 1 \in Places  BY <1>0, <4>1 DEF Places
        <5>2. jobs[1] = Job("forgotten", q)  BY <4>1, <5>1, JobsAt
        <5>3. j < 1  BY <3>2, <5>1, <5>2
        <5> QED BY <2>2, <2>3, <4>1, <5>3
      <4> QED BY <3>2, <4>1 DEF Tells
    <3>4. ASSUME NEW i \in Places', jobs'[i] = Job("forgotten", q)
          PROVE  j - m < i
      <4>1. jobs'[i].what = "forgotten"  BY <3>4, JobFields
      <4>2. i + m \in Places /\ jobs'[i] = jobs[i + m] /\ i \in Nat  BY <1>0, <4>1
      <4>3. j < i + m  BY <3>2, <3>4, <4>2
      <4> QED BY <1>0, <2>3, <4>2, <4>3
    <3> QED BY <3>3, <3>4
  <2>5. ASSUME NEW q \in seen' \cap justRejectedQueries'
        PROVE  ForgottenFirst(q)'
    <3>1. q \in seen \cap justRejectedQueries  BY <1>3, <2>5 DEF Tells
    <3>2. PICK i \in Places : /\ jobs[i] = Job("forgotten", q)
                              /\ \A l \in Places : jobs[l].what = "transaction" => i < l
      BY <2>1, <3>1 DEF ForgottenFirst
    <3>3. i > m
      <4>1. CASE m = 1 /\ i = 1
        <5>1. jobs[1].what = "forgotten" /\ jobs[1].query = q  BY <3>2, <4>1, JobFields
        <5> QED BY <2>5, <4>1, <5>1 DEF Tells
      <4>2. i \in Nat /\ i >= 1  BY <1>0
      <4> QED BY <1>0, <4>1, <4>2
    <3>4. i - m \in Places' /\ jobs'[i - m] = jobs[i] /\ i \in Nat /\ i <= Len(jobs)  BY <1>0, <3>3
    <3>5. ASSUME NEW l \in Places', jobs'[l].what = "transaction"
          PROVE  i - m < l
      <4>1. CASE l <= Len(jobs) - m
        <5>1. l + m \in Places /\ jobs'[l] = jobs[l + m] /\ l \in Nat  BY <1>0, <4>1
        <5>2. i < l + m  BY <3>2, <3>5, <5>1
        <5> QED BY <1>0, <3>4, <5>1, <5>2
      <4>2. CASE l > Len(jobs) - m  BY <1>0, <3>4, <4>2
      <4>3. l \in Nat  BY <1>0
      <4> QED BY <1>0, <4>1, <4>2, <4>3
    <3> QED BY <3>2, <3>4, <3>5 DEF ForgottenFirst
  <2> QED BY <2>1, <2>3, <2>4, <2>5
<1>4. CASE /\ ~BetweenJobs /\ m = 0 /\ k = 1 /\ jobs'[Len(jobs) + 1] = TransactionResumes
           /\ late' = Issued \ known /\ seen' = seen
  <2> DEFINE last == Len(jobs) + 1
  <2>1. last \in Places' /\ last \in Nat  BY <1>0, <1>4 DEF Places
  <2>2. jobs'[last].what = "transaction"  BY <1>4, JobFields DEF TransactionResumes
  <2>3. justRejectedQueries' = justRejectedQueries  BY <1>4 DEF Tells
  <2>4. \A i \in Places : i \in Places' /\ jobs'[i] = jobs[i]
    <3>1. SUFFICES ASSUME NEW i \in Places PROVE i \in Places' /\ jobs'[i] = jobs[i]
      OBVIOUS
    <3>2. i \in Nat /\ i >= 1  BY <1>0
    <3>3. i > m /\ i - m = i  BY <1>4, <3>2
    <3>4. i - m \in Places' /\ jobs'[i - m] = jobs[i]  BY <1>0, <3>3
    <3> QED BY <3>3, <3>4
  <2>5. ASSUME NEW q \in late', promise'[q] = "rejected"
        PROVE  /\ q \in justRejectedQueries'
               /\ \A i \in Places' : jobs'[i] = Job("forgotten", q) => last < i
    <3>1. q \in Issued /\ q \notin known /\ promise[q] = "rejected"  BY <1>p, <1>4, <2>5
    <3>2. q \in justRejectedQueries  BY <3>1 DEF Remembered
    <3>3. ASSUME NEW i \in Places', jobs'[i] = Job("forgotten", q)
          PROVE  FALSE
      <4>1. jobs'[i].what = "forgotten" /\ jobs'[i].query = q  BY <3>3, JobFields
      <4>2. i + m \in Places /\ jobs'[i] = jobs[i + m]  BY <1>0, <4>1
      <4> QED BY <1>4, <3>1, <4>1, <4>2 DEF Orderly
    <3> QED BY <2>3, <3>2, <3>3
  <2>6. ASSUME NEW q \in seen' \cap justRejectedQueries'
        PROVE  ForgottenFirst(q)'
    <3>1. q \in seen /\ q \in justRejectedQueries  BY <1>4, <2>3, <2>6
    <3>2. PICK i \in Places : jobs[i].query = q /\ jobs[i].what \in {"forget", "forgotten"}
      BY <3>1 DEF Remembered
    <3>3. jobs[i].what = "forgotten"  BY <3>1, <3>2 DEF Told
    <3>4. jobs'[i] = Job("forgotten", q) /\ i \in Places'  BY <2>4, <3>2, <3>3, JobsAt
    <3>5. ASSUME NEW l \in Places', jobs'[l].what = "transaction"
          PROVE  i < l
      <4>0. i \in Nat /\ l \in Nat /\ i <= Len(jobs)  BY <1>0
      <4>1. CASE l <= Len(jobs) - m
        <5>1. l + m \in Places /\ jobs'[l] = jobs[l + m]  BY <1>0, <4>1
        <5>2. CallbackEnded  BY <3>5, <5>1 DEF Told
        <5> QED BY <1>4, <5>2 DEF CallbackEnded, BetweenJobs
      <4> QED BY <1>0, <1>4, <4>0, <4>1
    <3> QED BY <3>4, <3>5 DEF ForgottenFirst
  <2> HIDE DEF last
  <2> QED BY <2>1, <2>2, <2>5, <2>6
<1> QED BY <1>1, <1>3, <1>4 DEF Tells

\* The jobs of a settling query are put after the end of the callback.
LEMMA AtTheEndSettle ==
  ASSUME TypeOK, JobsHold, Orderly, Promised, Remembered, Told, AtTheEnd, Settle
  PROVE  AtTheEnd'
<1>0. PICK q : q = Head(jobs).query  OBVIOUS
<1>1. /\ q \in Issued /\ jobs[1] = Job("settle", q)
      /\ promise[q] = "pending" /\ statement[q] \in {"fulfilled", "rejected"}
      /\ \A r \in Issued : promise'[r] = IF r = q THEN statement[q] ELSE promise[r]
      /\ \A i \in Places : jobs[i] # Job("forgotten", q)
  BY <1>0, SettleFacts
<1>2. /\ Places' \subseteq Nat /\ Places \subseteq Nat /\ Len(jobs) \in Nat
      /\ \A i \in Places : i >= 1
      /\ \A i \in Places' : i < Len(jobs) => i + 1 \in Places /\ jobs'[i] = jobs[i + 1]
      /\ \A i \in Places' : i >= Len(jobs) => jobs'[i] \in {Job("forget", q), Job("react", q)}
      /\ \A i \in Places : i > 1 => i - 1 \in Places' /\ jobs'[i - 1] = jobs[i]
  BY <1>0, SettlePlaces
<1>3. /\ UNCHANGED <<pc, callback, seen, late>>
      /\ justRejectedQueries' = justRejectedQueries \cup (IF statement[q] = "rejected" THEN {q} ELSE {})
  BY <1>0 DEF Settle, history, client
<1>4. q \notin seen /\ seen \subseteq Issued /\ late \subseteq Issued  BY <1>1 DEF Told, TypeOK
<1>5. SUFFICES ASSUME pc = "callback", CallbackEnded
               PROVE \E j \in Places' :
                 /\ jobs'[j].what = "transaction"
                 /\ \A r \in late' : promise'[r] = "rejected" =>
                      /\ r \in justRejectedQueries'
                      /\ \A i \in Places' : jobs'[i] = Job("forgotten", r) => j < i
                 /\ \A r \in seen' \cap justRejectedQueries' : ForgottenFirst(r)'
  BY <1>3 DEF AtTheEnd, CallbackEnded
<1>6. PICK j \in Places :
        /\ jobs[j].what = "transaction"
        /\ \A r \in late : promise[r] = "rejected" =>
             /\ r \in justRejectedQueries
             /\ \A i \in Places : jobs[i] = Job("forgotten", r) => j < i
        /\ \A r \in seen \cap justRejectedQueries : ForgottenFirst(r)
  BY <1>5 DEF AtTheEnd
<1>7. j > 1 /\ j \in Nat
  <2>1. jobs[1].what = "settle"  BY <1>1, JobFields
  <2> QED BY <1>2, <1>6, <2>1
<1>8. j - 1 \in Places' /\ jobs'[j - 1] = jobs[j]  BY <1>2, <1>7
<1>9. ASSUME NEW r, NEW i \in Places', jobs'[i] = Job("forgotten", r)
      PROVE  i \in Nat /\ i + 1 \in Places /\ jobs[i + 1] = Job("forgotten", r) /\ r # q
  <2>1. jobs'[i].what = "forgotten"  BY <1>9, JobFields
  <2>2. i < Len(jobs)  BY <1>2, <2>1, JobFields
  <2>3. i + 1 \in Places /\ jobs'[i] = jobs[i + 1]  BY <1>2, <2>2
  <2> QED BY <1>1, <1>2, <1>9, <2>3
<1>10. ASSUME NEW r \in late, promise'[r] = "rejected"
       PROVE  /\ r \in justRejectedQueries'
              /\ \A i \in Places' : jobs'[i] = Job("forgotten", r) => j - 1 < i
  <2>1. r \in justRejectedQueries'  BY <1>1, <1>3, <1>4, <1>6, <1>10
  <2>2. ASSUME NEW i \in Places', jobs'[i] = Job("forgotten", r)
        PROVE  j - 1 < i
    <3>1. i \in Nat /\ i + 1 \in Places /\ jobs[i + 1] = Job("forgotten", r) /\ r # q  BY <1>9, <2>2
    <3>2. promise[r] = "rejected"  BY <1>1, <1>4, <1>10, <3>1
    <3>3. j < i + 1  BY <1>6, <3>1, <3>2
    <3> QED BY <1>7, <3>1, <3>3
  <2> QED BY <2>1, <2>2
<1>11. ASSUME NEW r \in seen \cap justRejectedQueries'
       PROVE  ForgottenFirst(r)'
  <2>1. r \in seen \cap justRejectedQueries  BY <1>3, <1>4, <1>11
  <2>2. PICK i \in Places : /\ jobs[i] = Job("forgotten", r)
                            /\ \A l \in Places : jobs[l].what = "transaction" => i < l
    BY <1>6, <2>1 DEF ForgottenFirst
  <2>3. i > 1
    <3>1. jobs[1].what = "settle" /\ jobs[i].what = "forgotten"  BY <1>1, <2>2, JobFields
    <3> QED BY <1>2, <3>1
  <2>4. i - 1 \in Places' /\ jobs'[i - 1] = jobs[i] /\ i \in Nat  BY <1>2, <2>3
  <2>5. ASSUME NEW l \in Places', jobs'[l].what = "transaction"
        PROVE  i - 1 < l
    <3>1. l < Len(jobs) /\ l \in Nat  BY <1>2, <2>5, JobFields
    <3>2. l + 1 \in Places /\ jobs'[l] = jobs[l + 1]  BY <1>2, <3>1
    <3>3. i < l + 1  BY <2>2, <2>5, <3>2
    <3> QED BY <2>4, <3>1, <3>3
  <2> QED BY <2>2, <2>4, <2>5 DEF ForgottenFirst
<1> QED BY <1>3, <1>6, <1>8, <1>10, <1>11

LEMMA AtTheEndForget ==
  ASSUME TypeOK, JobsHold, Orderly, Remembered, Told, AtTheEnd, Forget
  PROVE  AtTheEnd'
<1>0. PICK q : q = Head(jobs).query  OBVIOUS
<1>1. /\ jobs[1] = Job("forget", q) /\ 1 \in Places
      /\ Places' = Places /\ Places \subseteq Nat /\ Len(jobs) \in Nat
      /\ \A i \in Places : i >= 1 /\ i <= Len(jobs)
      /\ \A i \in Places : i < Len(jobs) => i + 1 \in Places /\ jobs'[i] = jobs[i + 1]
      /\ \A i \in Places : i > 1 => i - 1 \in Places /\ jobs'[i - 1] = jobs[i]
      /\ jobs'[Len(jobs)] = Job("forgotten", q)
  BY <1>0, ForgetFacts
<1>2. UNCHANGED <<pc, callback, seen, late, promise, justRejectedQueries>>
  BY DEF Forget, history, client, queries
<1>3. SUFFICES ASSUME pc = "callback", CallbackEnded
               PROVE \E j \in Places :
                 /\ jobs'[j].what = "transaction"
                 /\ \A r \in late : promise[r] = "rejected" =>
                      /\ r \in justRejectedQueries
                      /\ \A i \in Places : jobs'[i] = Job("forgotten", r) => j < i
                 /\ \A r \in seen \cap justRejectedQueries : ForgottenFirst(r)'
  BY <1>1, <1>2 DEF AtTheEnd, CallbackEnded
<1>4. PICK j \in Places :
        /\ jobs[j].what = "transaction"
        /\ \A r \in late : promise[r] = "rejected" =>
             /\ r \in justRejectedQueries
             /\ \A i \in Places : jobs[i] = Job("forgotten", r) => j < i
        /\ \A r \in seen \cap justRejectedQueries : ForgottenFirst(r)
  BY <1>3 DEF AtTheEnd
<1>5. jobs[1].what = "forget"  BY <1>1, JobFields
<1>6. j > 1 /\ j \in Nat /\ j <= Len(jobs)  BY <1>1, <1>4, <1>5
<1>7. j - 1 \in Places /\ jobs'[j - 1] = jobs[j]  BY <1>1, <1>6
<1>8. ASSUME NEW r \in late, promise[r] = "rejected"
      PROVE  /\ r \in justRejectedQueries
             /\ \A i \in Places : jobs'[i] = Job("forgotten", r) => j - 1 < i
  <2>1. /\ r \in justRejectedQueries
        /\ \A i \in Places : jobs[i] = Job("forgotten", r) => j < i
    BY <1>4, <1>8
  <2>2. ASSUME NEW i \in Places, jobs'[i] = Job("forgotten", r)
        PROVE  j - 1 < i
    <3>1. CASE i = Len(jobs)  BY <1>1, <1>6, <3>1
    <3>2. CASE i < Len(jobs)
      <4>1. i \in Nat /\ i + 1 \in Places /\ jobs'[i] = jobs[i + 1]  BY <1>1, <3>2
      <4>2. j < i + 1  BY <2>1, <2>2, <4>1
      <4> QED BY <1>6, <4>1, <4>2
    <3> QED BY <1>1, <3>1, <3>2
  <2> QED BY <2>1, <2>2
<1>9. ASSUME NEW r \in seen \cap justRejectedQueries
      PROVE  ForgottenFirst(r)'
  <2>1. PICK i \in Places : /\ jobs[i] = Job("forgotten", r)
                            /\ \A l \in Places : jobs[l].what = "transaction" => i < l
    BY <1>4, <1>9 DEF ForgottenFirst
  <2>2. jobs[i].what = "forgotten"  BY <2>1, JobFields
  <2>3. i > 1  BY <1>1, <1>5, <2>2
  <2>4. i - 1 \in Places' /\ jobs'[i - 1] = jobs[i] /\ i \in Nat  BY <1>1, <2>3
  <2>5. ASSUME NEW l \in Places', jobs'[l].what = "transaction"
        PROVE  i - 1 < l
    <3>1. l < Len(jobs) /\ l \in Nat  BY <1>1, <2>5, JobFields
    <3>2. l + 1 \in Places /\ jobs'[l] = jobs[l + 1]  BY <1>1, <3>1
    <3>3. i < l + 1  BY <2>1, <2>5, <3>2
    <3> QED BY <2>4, <3>1, <3>3
  <2> QED BY <2>1, <2>4, <2>5 DEF ForgottenFirst
<1> QED BY <1>4, <1>7, <1>8, <1>9

-----------------------------------------------------------------------------
(* Every step but settle() and the forgetting is a passive one.             *)

Calm(m) ==
  /\ \A q \in Issued : promise'[q] = promise[q]
  /\ m = 0 /\ BetweenJobs /\ Issued # {} => BetweenJobs'
  /\ known \subseteq known'

LEMMA PassiveKeep ==
  ASSUME TypeOK, jobs' = jobs, Calm(0)
  PROVE  Passive(0, 0) /\ \A i \in Places' : ~(i > Len(jobs) - 0)
<1>1. Shifts(0, 0)  BY Stay
<1>2. \A i \in Places' : ~(i > Len(jobs) - 0)  BY <1>1 DEF Shifts, Places
<1> QED BY <1>1, <1>2 DEF Passive, Calm

\* The parts of a passive step.
LEMMA PassiveOf ==
  ASSUME NEW m, NEW k, Shifts(m, k), Calm(m),
         \A i \in Places' : i > Len(jobs) - m =>
           /\ jobs'[i].what \in Added
           /\ jobs'[i].what = "settle" => /\ k = 1 /\ jobs'[i].query \in Issued
                                          /\ statement[jobs'[i].query] = "pending"
                                          /\ promise[jobs'[i].query] = "pending",
         m = 1 => /\ jobs[1].what \notin {"settle", "forget"}
                  /\ jobs[1].what = "react" => jobs[1].query \in known'
  PROVE  Passive(m, k)
  BY DEF Passive, Calm

LEMMA OneAdded ==
  ASSUME NEW m, Shifts(m, 1)
  PROVE  \A i \in Places' : i > Len(jobs) - m => i = Len(jobs) - m + 1
  BY DEF Shifts, Places

LEMMA PassiveAdd ==
  ASSUME TypeOK, NEW what \in Added, NEW q \in 0..Len(statement), jobs' = Append(jobs, Job(what, q)),
         what = "settle" => q \in Issued /\ statement[q] = "pending" /\ promise[q] = "pending",
         Calm(0)
  PROVE  /\ Passive(0, 1) /\ jobs'[Len(jobs) + 1] = Job(what, q)
         /\ \A i \in Places' : i > Len(jobs) - 0 => jobs'[i].what = what
<1>1. Shifts(0, 1) /\ jobs'[Len(jobs) + 1] = Job(what, q)  BY AddOne DEF Added, Whats
<1>2. Len(jobs) - 0 + 1 = Len(jobs) + 1  BY QueueTypes
<1>3. \A i \in Places' : i > Len(jobs) - 0 => jobs'[i].what = what /\ jobs'[i].query = q
  BY <1>1, <1>2, OneAdded, JobFields
<1>4. \A i \in Places' : i > Len(jobs) - 0 =>
        /\ jobs'[i].what \in Added
        /\ jobs'[i].what = "settle" => /\ 1 = 1 /\ jobs'[i].query \in Issued
                                       /\ statement[jobs'[i].query] = "pending"
                                       /\ promise[jobs'[i].query] = "pending"
  BY <1>3
<1>5. 0 = 1 => /\ jobs[1].what \notin {"settle", "forget"}
               /\ jobs[1].what = "react" => jobs[1].query \in known'
  OBVIOUS
<1>6. Passive(0, 1)  BY <1>1, <1>4, <1>5, PassiveOf
<1> QED BY <1>1, <1>3, <1>6

LEMMA PassiveTake ==
  ASSUME TypeOK, jobs # <<>>, jobs' = Tail(jobs), Head(jobs).what \notin {"settle", "forget"},
         Head(jobs).what = "react" => Head(jobs).query \in known', Calm(1)
  PROVE  /\ Passive(1, 0) /\ jobs[1] = Head(jobs) /\ \A i \in Places' : ~(i > Len(jobs) - 1)
<1>1. Shifts(1, 0)  BY TakeOne
<1>2. \A i \in Places' : ~(i > Len(jobs) - 1)  BY <1>1 DEF Shifts, Places
<1>3. jobs[1] = Head(jobs)  BY HeadIs
<1> QED BY <1>1, <1>2, <1>3 DEF Passive, Calm

LEMMA PassiveTakeAdd ==
  ASSUME TypeOK, jobs # <<>>, jobs' = Append(Tail(jobs), TransactionResumes),
         Head(jobs).what = "transaction", Calm(1)
  PROVE  /\ Passive(1, 1) /\ jobs[1] = Head(jobs)
<1>1. Shifts(1, 1) /\ jobs'[Len(jobs)] = Job("transaction", 0)
  BY TakeAddOne, QueueTypes DEF TransactionResumes, Whats
<1>0. Len(jobs) - 1 + 1 = Len(jobs)  BY QueueTypes
<1>2. \A i \in Places' : i > Len(jobs) - 1 => i = Len(jobs)  BY <1>0, <1>1, OneAdded
<1>3. \A i \in Places' : i > Len(jobs) - 1 => jobs'[i].what = "transaction"
  BY <1>1, <1>2, JobFields
<1>4. jobs[1] = Head(jobs)  BY HeadIs
<1> QED BY <1>1, <1>3, <1>4 DEF Passive, Calm, Added

\* What a step that changes neither history nor what is remembered tells.
LEMMA TellsPlain ==
  ASSUME TypeOK, NEW m, NEW k, UNCHANGED <<seen, late, justRejectedQueries>>,
         \A q \in Issued' \ Issued : promise'[q] = "pending",
         CallbackEnded' <=> CallbackEnded,
         \A i \in Places' : i > Len(jobs) - m /\ jobs'[i].what = "transaction" => CallbackEnded',
         callback'.query \in {callback.query, 0} \/ callback.at # "resuming",
         m = 1 => jobs[1].what # "forgotten",
         m = 1 /\ jobs[1].what = "transaction" => pc' # "callback",
         pc # "callback" => pc' # "callback" \/ ~CallbackEnded'
  PROVE  Tells(m, k)
  BY DEF Tells

LEMMA CallerPassive ==
  ASSUME TypeOK, Stages, Unstarted, Lasting, Caller
  PROVE  \E m, k : Passive(m, k) /\ Tells(m, k)
<1>q. /\ Len(statement) \in Nat /\ 0 \in 0..Len(statement) /\ Issued = 1..Len(statement)
  BY QueueTypes DEF Issued
<1>1. CASE Track
  <2>1. UNCHANGED <<jobs, callback, known, seen, justRejectedQueries, pc>>
    BY <1>1 DEF Track, client
  <2>2. /\ Len(statement') = Len(statement) + 1
        /\ \A q \in Issued : promise'[q] = promise[q]
        /\ promise'[Len(statement) + 1] = "pending"
    <3>1. statement \in Seq(Promises) /\ promise \in Seq(Promises) /\ "pending" \in Promises
          /\ Len(promise) = Len(statement)
      BY DEF TypeOK, Promises
    <3>2. statement' = Append(statement, "pending") /\ promise' = Append(promise, "pending")
      BY <1>1 DEF Track
    <3> QED BY <1>q, <3>1, <3>2, AppendProperties
  <2>3. Issued' = Issued \cup {Len(statement) + 1} /\ Len(statement) + 1 \notin Issued
    BY <1>q, <2>2 DEF Issued
  <2>4. late' \in {late, late \cup {Len(statement) + 1}} /\ (~CallbackEnded => late' = late)
    BY <1>1 DEF Track
  <2>5. Passive(0, 0) /\ \A i \in Places' : ~(i > Len(jobs) - 0)
    BY <2>1, <2>2, PassiveKeep DEF Calm, BetweenJobs
  <2>6. Tells(0, 0)
    BY <2>1, <2>2, <2>3, <2>4, <2>5 DEF Tells, CallbackEnded
  <2> QED BY <2>5, <2>6
<1>2. ASSUME NEW what, CallerCompletes(what)
      PROVE  \E m, k : Passive(m, k) /\ Tells(m, k)
  <2>1. UNCHANGED <<jobs, callback, known, seen, late, justRejectedQueries, pc, promise, statement>>
    BY <1>2 DEF CallerCompletes, client, queries, history
  <2>2. Passive(0, 0) /\ \A i \in Places' : ~(i > Len(jobs) - 0)
    BY <2>1, PassiveKeep DEF Calm, BetweenJobs
  <2>3. Tells(0, 0)  BY <2>1, <2>2, TellsPlain DEF CallbackEnded, Issued
  <2> QED BY <2>2, <2>3
<1>3. CASE \/ \E q \in Queries : AwaitQuery(q)
           \/ AwaitCompletion \/ AwaitElsewhere \/ ElsewhereSettles
  <2>1. /\ UNCHANGED <<known, seen, late, justRejectedQueries, pc, promise, statement>>
        /\ callback.at \in {"active", "elsewhere"}
        /\ callback'.at \in {"query", "resuming", "completion", "elsewhere"}
        /\ jobs' = jobs \/ jobs' = Append(jobs, CallbackResumes)
    BY <1>3 DEF AwaitQuery, AwaitCompletion, AwaitElsewhere, ElsewhereSettles, client, queries,
                history
  <2>2. Issued' = Issued /\ ~CallbackEnded /\ ~CallbackEnded' /\ Calm(0)
    BY <2>1 DEF Issued, CallbackEnded, Calm, BetweenJobs
  <2>3. CASE jobs' = jobs
    <3>1. Passive(0, 0) /\ \A i \in Places' : ~(i > Len(jobs) - 0)  BY <2>2, <2>3, PassiveKeep
    <3>2. Tells(0, 0)  BY <2>1, <2>2, <3>1, TellsPlain
    <3> QED BY <3>1, <3>2
  <2>4. CASE jobs' = Append(jobs, CallbackResumes)
    <3>1. /\ Passive(0, 1)
          /\ \A i \in Places' : i > Len(jobs) - 0 => jobs'[i].what = "callback"
      BY <1>q, <2>2, <2>4, PassiveAdd DEF CallbackResumes, Added
    <3>2. Tells(0, 1)  BY <2>1, <2>2, <3>1, TellsPlain
    <3> QED BY <3>1, <3>2
  <2> QED BY <2>1, <2>3, <2>4
<1>4. ASSUME NEW how \in {"returned", "threw"}, CallbackEnds(how)
      PROVE  \E m, k : Passive(m, k) /\ Tells(m, k)
  <2>1. /\ UNCHANGED <<known, seen, justRejectedQueries, pc, promise, statement>>
        /\ callback.at = "active" /\ callback' = [at |-> how, query |-> 0]
        /\ late' = Issued \ known /\ jobs' = Append(jobs, TransactionResumes)
    BY <1>4 DEF CallbackEnds, client, queries
  <2>2. callback'.at = how /\ callback'.query = 0  BY <2>1
  <2>3. Issued' = Issued /\ ~CallbackEnded /\ CallbackEnded' /\ Calm(0) /\ ~BetweenJobs
    BY <2>1, <2>2 DEF Issued, CallbackEnded, Calm, BetweenJobs
  <2>4. /\ Passive(0, 1) /\ jobs'[Len(jobs) + 1] = TransactionResumes
    BY <1>q, <2>1, <2>3, PassiveAdd DEF TransactionResumes, Added
  <2>5. Tells(0, 1)  BY <2>1, <2>2, <2>3, <2>4 DEF Tells
  <2> QED BY <2>4, <2>5
<1> QED BY <1>1, <1>2, <1>3, <1>4 DEF Caller

LEMMA JobPassive ==
  ASSUME TypeOK, Stages, JobsHold, CallbackJobs, Unstarted, Progress, Orderly, Attended, Lasting,
         RunsJob, ~Settle, ~Forget
  PROVE  \E m, k : Passive(m, k) /\ Tells(m, k)
<1>q. /\ Len(statement) \in Nat /\ 0 \in 0..Len(statement) /\ Issued = 1..Len(statement)
      /\ DOMAIN promise = Issued
  BY QueueTypes DEF Issued
<1>h. jobs # <<>> => /\ Head(jobs) = jobs[1] /\ 1 \in Places
                     /\ jobs[1] = Job(Head(jobs).what, Head(jobs).query)
  BY HeadIs
<1>1. CASE Forgotten
  <2>1. /\ jobs # <<>> /\ Head(jobs).what = "forgotten" /\ jobs' = Tail(jobs)
        /\ justRejectedQueries' = justRejectedQueries \ {Head(jobs).query}
        /\ UNCHANGED <<pc, callback, known, seen, late, promise, statement>>
    BY <1>1 DEF Forgotten, NextJob, client, history
  <2>2. Passive(1, 0) /\ jobs[1] = Head(jobs) /\ \A i \in Places' : ~(i > Len(jobs) - 1)
    BY <2>1, PassiveTake DEF Calm
  <2>3. Tells(1, 0)  BY <2>1, <2>2 DEF Tells, CallbackEnded, Issued
  <2> QED BY <2>2, <2>3
<1>2. ASSUME React \/ CallbackGoesOn
      PROVE  \E m, k : Passive(m, k) /\ Tells(m, k)
  <2>1. /\ jobs # <<>> /\ Head(jobs).what \in {"react", "callback"} /\ jobs' = Tail(jobs)
        /\ Head(jobs).what = "react" => Head(jobs).query \in known'
        /\ known \subseteq known'
        /\ UNCHANGED <<pc, late, promise, statement, justRejectedQueries>>
    BY <1>2 DEF React, CallbackGoesOn, NextJob, client, queries
  <2>2. Passive(1, 0) /\ jobs[1] = Head(jobs) /\ \A i \in Places' : ~(i > Len(jobs) - 1)
    BY <2>1, PassiveTake DEF Calm
  <2>3. CASE UNCHANGED <<callback, seen>>
    <3>1. Tells(1, 0)  BY <2>1, <2>2, <2>3, TellsPlain DEF CallbackEnded, Issued
    <3> QED BY <2>2, <3>1
  <2>4. ASSUME NEW q, Resumes(q), callback.at \in {"query", "resuming"},
               \/ jobs[1] = Job("react", q)
               \/ jobs[1].what = "callback" /\ callback.query = q
        PROVE  Tells(1, 0)
    <3>1. callback' = Active /\ callback'.at = "active" /\ callback'.query = 0
      BY <2>4 DEF Resumes, Active
    <3>2. ~CallbackEnded /\ ~CallbackEnded'  BY <2>4, <3>1 DEF CallbackEnded
    <3>3. \/ seen' = seen
          \/ q \in Issued /\ seen' = seen \cup {q} /\ promise[q] = "rejected"
      BY <2>4 DEF Resumes
    <3> QED BY <2>1, <2>2, <2>4, <3>1, <3>2, <3>3 DEF Tells, Issued
  <2>5. CASE React
    <3>1. jobs[1] = Job("react", Head(jobs).query)  BY <1>h, <2>1, <2>5 DEF React, NextJob
    <3> QED BY <2>2, <2>3, <2>4, <2>5, <3>1 DEF React
  <2>6. CASE CallbackGoesOn
    <3>1. callback.at = "resuming"  BY <2>6, GoesOnResuming
    <3>2. jobs[1].what = "callback"  BY <2>2, <2>6 DEF CallbackGoesOn, NextJob
    <3>3. Resumes(callback.query)  BY <2>6 DEF CallbackGoesOn
    <3> QED BY <2>2, <2>4, <3>1, <3>2, <3>3
  <2> QED BY <1>2, <2>5, <2>6
<1>3. CASE Finish \/ Abort \/ Closing
  <2>1. /\ jobs # <<>> /\ Head(jobs).what = "transaction"
        /\ UNCHANGED <<callback, known, seen, late, promise, statement, justRejectedQueries>>
        /\ pc' # "callback"
    BY <1>3 DEF Finish, Abort, Closing, NextJob, history, queries
  <2>2. pc \in {"callback", "finishing", "aborting"}  BY <1>3 DEF Finish, Abort, Closing
  <2>3. \/ jobs' = Tail(jobs)
        \/ jobs' = Append(Tail(jobs), TransactionResumes) /\ CallbackEnded
    BY <1>3 DEF Finish, Abort, Closing, CompletionOr, CallbackEnded, Progress
  <2>4. Calm(1)  BY <2>1 DEF Calm
  <2>5. CASE jobs' = Tail(jobs)
    <3>1. Passive(1, 0) /\ jobs[1] = Head(jobs) /\ \A i \in Places' : ~(i > Len(jobs) - 1)
      BY <2>1, <2>4, <2>5, PassiveTake
    <3>2. Tells(1, 0)  BY <2>1, <3>1, TellsPlain DEF CallbackEnded, Issued
    <3> QED BY <3>1, <3>2
  <2>6. CASE jobs' = Append(Tail(jobs), TransactionResumes) /\ CallbackEnded
    <3>1. Passive(1, 1) /\ jobs[1] = Head(jobs)  BY <2>1, <2>4, <2>6, PassiveTakeAdd
    <3>2. Tells(1, 1)  BY <2>1, <2>6, <3>1, TellsPlain DEF CallbackEnded, Issued
    <3> QED BY <3>1, <3>2
  <2> QED BY <2>3, <2>5, <2>6
<1>4. CASE CommitIfAllSucceeded \/ RollbackAfterAll
  <2>1. UNCHANGED <<jobs, callback, known, seen, late, justRejectedQueries, pc, promise, statement>>
    BY <1>4 DEF CommitIfAllSucceeded, RollbackAfterAll, client, queries, history
  <2>2. Passive(0, 0) /\ \A i \in Places' : ~(i > Len(jobs) - 0)
    BY <2>1, PassiveKeep DEF Calm, BetweenJobs
  <2>3. Tells(0, 0)  BY <2>1, <2>2, TellsPlain DEF CallbackEnded, Issued
  <2> QED BY <2>2, <2>3
<1> QED BY <1>1, <1>2, <1>3, <1>4 DEF RunsJob

LEMMA AnswerPassive ==
  ASSUME TypeOK, Stages, Unstarted, Progress, Promised, Lasting, Answers
  PROVE  \E m, k : Passive(m, k) /\ Tells(m, k)
<1>q. /\ Len(statement) \in Nat /\ 0 \in 0..Len(statement) /\ Issued = 1..Len(statement)
      /\ DOMAIN promise = Issued
  BY QueueTypes DEF Issued
<1>1. CASE Prepares
  <2>1. /\ UNCHANGED <<jobs, known, seen, late, justRejectedQueries, promise, statement>>
        /\ callback' \in {callback, Active}
    BY <1>1 DEF Prepares, queries, history
  <2>2. callback.at = "none" /\ Issued = {}
    BY <1>1, <1>q DEF Prepares, AfterAwait, Unstarted
  <2>3. callback'.query \in {callback.query, 0} /\ ~CallbackEnded' /\ ~CallbackEnded
    BY <2>1, <2>2 DEF Active, CallbackEnded
  <2>4. Passive(0, 0) /\ \A i \in Places' : ~(i > Len(jobs) - 0)
    BY <2>1, <2>2, PassiveKeep DEF Calm
  <2>5. Tells(0, 0)  BY <2>1, <2>3, <2>4, TellsPlain DEF Issued
  <2> QED BY <2>4, <2>5
<1>2. CASE CommitAnswered \/ UndoAnswered \/ RollbackAnswered
  <2>1. UNCHANGED <<pc, known, seen, late, justRejectedQueries, promise, statement>>
    BY <1>2 DEF CommitAnswered, UndoAnswered, RollbackAnswered, client, queries, history
  <2>2. \/ UNCHANGED callback /\ jobs' = jobs
        \/ /\ callback.at = "completion" /\ jobs' = Append(jobs, CallbackResumes)
           /\ callback' = [at |-> "resuming", query |-> 0]
        \/ /\ pc \in {"finishing", "aborting"} /\ jobs' = Append(jobs, TransactionResumes)
           /\ UNCHANGED callback
    BY <1>2 DEF CommitAnswered, UndoAnswered, RollbackAnswered, Completed
  <2>3. /\ callback'.query \in {callback.query, 0} /\ (CallbackEnded' <=> CallbackEnded)
        /\ Issued' = Issued /\ Calm(0)
    BY <2>1, <2>2 DEF CallbackEnded, Issued, Calm, BetweenJobs
  <2>4. CASE jobs' = jobs
    <3>1. Passive(0, 0) /\ \A i \in Places' : ~(i > Len(jobs) - 0)  BY <2>3, <2>4, PassiveKeep
    <3>2. Tells(0, 0)  BY <2>1, <2>3, <3>1, TellsPlain
    <3> QED BY <3>1, <3>2
  <2>5. CASE jobs' = Append(jobs, CallbackResumes)
    <3>1. /\ Passive(0, 1)
          /\ \A i \in Places' : i > Len(jobs) - 0 => jobs'[i].what = "callback"
      BY <1>q, <2>3, <2>5, PassiveAdd DEF CallbackResumes, Added
    <3>2. Tells(0, 1)  BY <2>1, <2>3, <3>1, TellsPlain
    <3> QED BY <3>1, <3>2
  <2>6. CASE pc \in {"finishing", "aborting"} /\ jobs' = Append(jobs, TransactionResumes)
    <3>1. Passive(0, 1)  BY <1>q, <2>3, <2>6, PassiveAdd DEF TransactionResumes, Added
    <3>2. CallbackEnded'  BY <2>3, <2>6 DEF Progress
    <3>3. Tells(0, 1)  BY <2>1, <2>3, <2>6, <3>1, <3>2, TellsPlain
    <3> QED BY <3>1, <3>3
  <2> QED BY <2>2, <2>4, <2>5, <2>6
<1>3. CASE CloseAnswered
  <2>1. UNCHANGED <<jobs, callback, known, seen, late, justRejectedQueries, promise, statement>>
        /\ pc' = "done"
    BY <1>3 DEF CloseAnswered, queries, history
  <2>2. Passive(0, 0) /\ \A i \in Places' : ~(i > Len(jobs) - 0)
    BY <2>1, PassiveKeep DEF Calm, BetweenJobs
  <2>3. Tells(0, 0)  BY <2>1, <2>2, TellsPlain DEF CallbackEnded, Issued
  <2> QED BY <2>2, <2>3
<1>4. ASSUME NEW q \in Queries, NEW result, StatementSettles(q, result)
      PROVE  \E m, k : Passive(m, k) /\ Tells(m, k)
  <2>c. UNCHANGED <<pc, callback, known, seen, late, justRejectedQueries, promise>>
    BY <1>4 DEF StatementSettles, client, history
  <2>1. /\ q \in Issued /\ statement[q] = "pending"
        /\ jobs' = Append(jobs, Job("settle", q))
        /\ statement' = [statement EXCEPT ![q] = result]
    BY <1>4 DEF StatementSettles, client, history
  <2>2. promise[q] = "pending"  BY <2>1 DEF Promised
  <2>3. Issued' = Issued /\ Calm(0) /\ q \in 0..Len(statement)
    <3>1. Len(statement') = Len(statement)  BY <1>q, <2>1 DEF TypeOK
    <3> QED BY <1>q, <2>c, <2>1, <3>1 DEF Issued, Calm, BetweenJobs
  <2>4. /\ Passive(0, 1)
        /\ \A i \in Places' : i > Len(jobs) - 0 => jobs'[i].what = "settle"
    BY <2>1, <2>2, <2>3, PassiveAdd DEF Added
  <2>5. Tells(0, 1)
    <3>1. CallbackEnded' <=> CallbackEnded  BY <2>c DEF CallbackEnded
    <3>2. \A i \in Places' : ~(i > Len(jobs) - 0 /\ jobs'[i].what = "transaction")  BY <2>4
    <3> QED BY <2>c, <2>3, <3>1, <3>2, TellsPlain
  <2> QED BY <2>4, <2>5
<1> QED BY <1>1, <1>2, <1>3, <1>4 DEF Answers

-----------------------------------------------------------------------------
(* What finish() waits for.                                                 *)

\* Before it completes the transaction, what was late has settled well or is among the queries
\* finish() takes; what the callback saw fail is not.
LEMMA FinishTakes ==
  ASSUME TypeOK, JobsHold, Promised, Told, AtTheEnd, Finish
  PROVE  /\ \A q \in late : \/ q \in runningQueries \cup justRejectedQueries
                            \/ promise[q] = "fulfilled"
         /\ seen \cap justRejectedQueries = {}
<1>1. pc = "callback" /\ CallbackEnded /\ jobs # <<>> /\ Head(jobs).what = "transaction"
  BY DEF Finish, NextJob, CallbackEnded
<1>2. jobs[1].what = "transaction" /\ 1 \in Places /\ Places \subseteq Nat /\ \A i \in Places : i >= 1
  BY <1>1, HeadIs, QueueTypes DEF Places
<1>3. PICK j \in Places :
        /\ jobs[j].what = "transaction"
        /\ \A q \in late : promise[q] = "rejected" =>
             /\ q \in justRejectedQueries
             /\ \A i \in Places : jobs[i] = Job("forgotten", q) => j < i
        /\ \A q \in seen \cap justRejectedQueries : ForgottenFirst(q)
  BY <1>1 DEF AtTheEnd
<1>4. late \subseteq Issued /\ \A q \in Issued : promise[q] \in Promises
  BY QueueTypes DEF TypeOK
<1>5. ASSUME NEW q \in seen \cap justRejectedQueries
      PROVE  FALSE
  <2>1. PICK i \in Places : \A l \in Places : jobs[l].what = "transaction" => i < l
    BY <1>3, <1>5 DEF ForgottenFirst
  <2>2. i < 1 /\ i >= 1 /\ i \in Nat  BY <1>2, <2>1
  <2> QED BY <2>2
<1> QED BY <1>3, <1>4, <1>5 DEF Promised, Promises

\* While the transaction is open the running queries are those that are pending.
Running == state = "open" => \A q \in runningQueries : promise[q] = "pending"

LEMMA RunningStep ==
  ASSUME TypeOK, Stages, CallbackJobs, Unstarted, Running, Lasting, Next
  PROVE  Running'
<1>0. /\ Len(statement) \in Nat /\ Len(promise) = Len(statement) /\ Issued = 1..Len(statement)
      /\ DOMAIN promise = Issued /\ runningQueries \subseteq Issued
  BY QueueTypes DEF Issued, TypeOK
<1>1. CASE Track
  <2>1. promise' = Append(promise, "pending") /\ runningQueries' = runningQueries \cup {Len(statement) + 1}
        /\ state = "open"
    BY <1>1 DEF Track
  <2>2. promise \in Seq(Promises) /\ "pending" \in Promises  BY DEF TypeOK, Promises
  <2>3. /\ \A q \in Issued : promise'[q] = promise[q]
        /\ promise'[Len(statement) + 1] = "pending"
    BY <1>0, <2>1, <2>2, AppendProperties
  <2> QED BY <1>0, <2>1, <2>3 DEF Running
<1>2. CASE Settle
  <2> DEFINE q == Head(jobs).query
  <2>1. /\ promise' = [promise EXCEPT ![q] = statement[q]]
        /\ runningQueries' = runningQueries \ {q} /\ state' = state
    BY <1>2 DEF Settle, terminal
  <2>2. \A r \in Issued : r # q => promise'[r] = promise[r]  BY <1>0, <2>1
  <2> QED BY <1>0, <2>1, <2>2 DEF Running
<1>3. CASE UNCHANGED <<promise, runningQueries>>
  BY <1>3 DEF Running, Lasting
<1>4. CASE Finish
  <2>1. state' # "open"  BY <1>4 DEF Finish, CompletionOr, Complete, terminal, Stages
  <2> QED BY <2>1 DEF Running
<1> QED BY <1>1, <1>2, <1>3, <1>4
  DEF Next, Caller, RunsJob, Answers, CallerCompletes, AwaitQuery, AwaitCompletion,
      AwaitElsewhere, ElsewhereSettles, CallbackEnds, Forget, Forgotten, React,
      CallbackGoesOn, Abort, Closing, CommitIfAllSucceeded,
      RollbackAfterAll, Prepares, CommitAnswered, UndoAnswered, RollbackAnswered,
      StatementSettles, CloseAnswered, queries

LEMMA WaitedStep ==
  ASSUME TypeOK, Stages, JobsHold, Promised, Orderly, Told, AtTheEnd, Waited, Lasting, Next
  PROVE  Waited'
<1>0. /\ Len(statement) \in Nat /\ Len(promise) = Len(statement) /\ Issued = 1..Len(statement)
      /\ DOMAIN promise = Issued /\ late \subseteq Issued
  BY QueueTypes DEF Issued, TypeOK
<1>1. CASE decider = "finish"
  <2>1. state # "open"  BY <1>1 DEF Stages
  <2>2. CallbackEnded' /\ waits' = waits /\ CallbackEnded  BY <1>1, <2>1 DEF Lasting, CallbackEnded, Waited
  <2>3. late' = late
    BY <2>1, <2>2 DEF CallbackEnded,
      Next, Caller, RunsJob, Answers, Track, CallerCompletes, AwaitQuery, AwaitCompletion,
      AwaitElsewhere, ElsewhereSettles, CallbackEnds, Settle, Forget, Forgotten, React,
      CallbackGoesOn, Finish, Abort, Closing, CommitIfAllSucceeded,
      RollbackAfterAll, Prepares, CommitAnswered, UndoAnswered, RollbackAnswered,
      StatementSettles, CloseAnswered, history
  <2>4. \A q \in late : promise[q] = "fulfilled" => promise'[q] = "fulfilled"
    <3>1. CASE Settle
      <4>1. PICK q : q = Head(jobs).query  OBVIOUS
      <4>2. promise[q] = "pending" /\ \A r \in Issued : r # q => promise'[r] = promise[r]
        BY <4>1, <3>1, SettleFacts
      <4> QED BY <1>0, <4>2
    <3>2. CASE UNCHANGED promise  BY <3>2
    <3> QED
      BY <2>1, <3>1, <3>2
      DEF Next, Caller, RunsJob, Answers, Track, CallerCompletes, AwaitQuery, AwaitCompletion,
        AwaitElsewhere, ElsewhereSettles, CallbackEnds, Forget, Forgotten, React,
        CallbackGoesOn, Finish, Abort, Closing, CommitIfAllSucceeded,
        RollbackAfterAll, Prepares, CommitAnswered, UndoAnswered, RollbackAnswered,
        StatementSettles, CloseAnswered, queries
  <2> QED BY <1>1, <2>2, <2>3, <2>4 DEF Waited
<1>2. CASE decider # "finish" /\ decider' = "finish"
  <2>1. Finish /\ Complete("commit", "finish", runningQueries \cup justRejectedQueries)
    BY <1>2
    DEF Next, Caller, RunsJob, Answers, Track, CallerCompletes, AwaitQuery, AwaitCompletion,
        AwaitElsewhere, ElsewhereSettles, CallbackEnds, Settle, Forget, Forgotten, React,
        CallbackGoesOn, Finish, Abort, Closing, CommitIfAllSucceeded, Complete, CompletionOr,
        RollbackAfterAll, Prepares, CommitAnswered, UndoAnswered, RollbackAnswered,
        StatementSettles, CloseAnswered, terminal
  <2>2. /\ waits' = runningQueries \cup justRejectedQueries
        /\ UNCHANGED <<promise, callback, late>> /\ CallbackEnded
    BY <2>1 DEF Finish, Complete, history, CallbackEnded
  <2>3. \A q \in late : q \in waits' \/ promise[q] = "fulfilled"  BY <2>1, <2>2, FinishTakes
  <2> QED BY <2>2, <2>3 DEF Waited, CallbackEnded
<1>3. CASE decider' # "finish"  BY <1>3 DEF Waited
<1> QED BY <1>1, <1>2, <1>3

\* What each step takes into account is neither lost nor too much.
Forgiving == Orderly /\ Remembered /\ Told /\ AtTheEnd /\ Waited /\ Running

LEMMA ForgivingStep ==
  ASSUME TypeOK, Stages, JobsHold, CallbackJobs, Unstarted, Promised, Progress, Attended,
         Lasting, Forgiving, Next
  PROVE  Forgiving'
<1>i. Orderly /\ Remembered /\ Told /\ AtTheEnd /\ Waited /\ Running  BY DEF Forgiving
<1>1. Waited' /\ Running'  BY <1>i, WaitedStep, RunningStep
<1>2. CASE Settle
  <2>1. Orderly' /\ Remembered'  BY <1>i, <1>2, OrderlySettle, RememberedSettle
  <2>2. Told' /\ AtTheEnd'  BY <1>i, <1>2, ToldSettle, AtTheEndSettle
  <2> QED BY <1>1, <2>1, <2>2 DEF Forgiving
<1>3. CASE Forget
  <2>1. Orderly' /\ Remembered'  BY <1>i, <1>3, OrderlyForget, RememberedForget
  <2>2. Told' /\ AtTheEnd'  BY <1>i, <1>3, ToldForget, AtTheEndForget
  <2> QED BY <1>1, <2>1, <2>2 DEF Forgiving
<1>4. CASE ~Settle /\ ~Forget
  <2>1. PICK m, k : Passive(m, k) /\ Tells(m, k)
    BY <1>i, <1>4, CallerPassive, JobPassive, AnswerPassive DEF Next
  <2>2. Orderly'  BY <1>i, <2>1, OrderlyPassive
  <2>3. Remembered'
    <3>1. /\ \A q \in Issued' \ Issued : promise'[q] = "pending"
          /\ justRejectedQueries' =
               IF m = 1 /\ jobs[1].what = "forgotten" THEN justRejectedQueries \ {jobs[1].query}
               ELSE justRejectedQueries
      BY <2>1 DEF Tells
    <3> QED BY <1>i, <2>1, <3>1, RememberedPassive
  <2>4. Told'  BY <1>i, <2>1, ToldPassive
  <2>5. AtTheEnd'  BY <1>i, <2>1, AtTheEndPassive
  <2> QED BY <1>1, <2>2, <2>3, <2>4, <2>5 DEF Forgiving
<1> QED BY <1>2, <1>3, <1>4

\* Only a completion changes what is waited for, and takes what still runs; finish() takes
\* more.
LEMMA WaitsStep ==
  ASSUME TypeOK, Stages, JobsHold, Promised, Forgiving, Next, waits' # waits
  PROVE  waits' \cap seen = {}
<1>i. Told /\ AtTheEnd /\ Running  BY DEF Forgiving
<1>1. state = "open" => runningQueries \cap seen = {}  BY <1>i DEF Running, Told
<1>2. \/ \E what, who : Complete(what, who, runningQueries)
      \/ Finish /\ Complete("commit", "finish", runningQueries \cup justRejectedQueries)
  BY DEF Next, Caller, RunsJob, Answers, Track, CallerCompletes, AwaitQuery, AwaitCompletion,
        AwaitElsewhere, ElsewhereSettles, CallbackEnds, Settle, Forget, Forgotten, React,
        CallbackGoesOn, Finish, Abort, Closing, CommitIfAllSucceeded, CompletionOr,
        RollbackAfterAll, Prepares, CommitAnswered, UndoAnswered, RollbackAnswered,
        StatementSettles, CloseAnswered, terminal
<1>3. CASE \E what, who : Complete(what, who, runningQueries)
  BY <1>1, <1>3 DEF Complete
<1>4. CASE Finish /\ Complete("commit", "finish", runningQueries \cup justRejectedQueries)
  <2>1. state = "open" /\ waits' = runningQueries \cup justRejectedQueries  BY <1>4 DEF Complete
  <2>2. seen \cap justRejectedQueries = {}  BY <1>i, <1>4, FinishTakes
  <2> QED BY <1>1, <2>1, <2>2
<1> QED BY <1>2, <1>3, <1>4

-----------------------------------------------------------------------------
(* The theorems.                                                            *)

IInv ==
  /\ TypeOK /\ Stages /\ JobsHold /\ CallbackJobs /\ Unstarted
  /\ Promised /\ Progress /\ Deciders /\ Attended /\ Quieted /\ Forgiving

LEMMA InitIInv == Init => IInv
<1> SUFFICES ASSUME Init PROVE IInv  OBVIOUS
<1>0. Len(<<>>) = 0 /\ \A S : <<>> \in Seq(S)  OBVIOUS
<1>1. /\ statement = <<>> /\ promise = <<>> /\ jobs = <<>> /\ sent = <<>>
      /\ Len(statement) = 0 /\ Len(promise) = 0 /\ Len(jobs) = 0 /\ Issued = {}
      /\ callback = [at |-> "none", query |-> 0]
  BY <1>0 DEF Init, Issued
<1>2. TypeOK
  <2>1. Len(statement) <= MaxQueries  BY <1>1, MaxQueriesAssumption
  <2>2. callback \in CallbackSet(Len(statement))  BY <1>1 DEF CallbackSet
  <2>3. callback \in [at : {"none", "active", "query", "resuming", "completion", "elsewhere",
                            "returned", "threw"}, query : 0..Len(statement)]
    BY <2>2 DEF CallbackSet
  <2> QED BY <1>0, <1>1, <2>1, <2>3 DEF Init, TypeOK, Promises
<1>3. Stages  BY <1>1 DEF Init, Stages
<1>4. JobsHold /\ CallbackJobs  BY <1>0, <1>1 DEF JobsHold, CallbackJobs
<1>5. Unstarted /\ Progress /\ Deciders  BY <1>1 DEF Init, Unstarted, Progress, Deciders
<1>6. Promised /\ Attended /\ Quieted  BY <1>1 DEF Init, Promised, Attended, Quieted
<1>7. Orderly /\ Remembered /\ Told /\ AtTheEnd /\ Waited /\ Running
  BY <1>1 DEF Init, Orderly, Remembered, Told, AtTheEnd, Waited, Running, Places
<1> QED BY <1>2, <1>3, <1>4, <1>5, <1>6, <1>7 DEF IInv, Forgiving

LEMMA Step == IInv /\ [Next]_vars => IInv'
<1> SUFFICES ASSUME IInv, [Next]_vars PROVE IInv'  OBVIOUS
<1>i. /\ TypeOK /\ Stages /\ JobsHold /\ CallbackJobs /\ Unstarted
      /\ Promised /\ Progress /\ Deciders /\ Attended /\ Quieted /\ Forgiving
  BY DEF IInv
<1>1. CASE Next
  <2>1. TypeOK' /\ Stages'
    BY <1>1, <1>i, CallerTypes, JobTypes, AnswerTypes DEF Next
  <2>2. QueueStep /\ CallbackStep /\ SettledStay  BY <1>1, <1>i, QueueSteps
  <2>3. JobsHold' /\ CallbackJobs'  BY <1>i, <2>1, <2>2, JobsHoldStep, CallbackJobsStep
  <2>4. Lasting  BY <1>1, <1>i, Lasts
  <2>5. Unstarted' /\ Progress' /\ Deciders'
    BY <1>1, <1>i, UnstartedStep, ProgressStep, DecidersStep
  <2>6. Promised'  BY <1>1, <1>i, CallerPromised, JobPromised, AnswerPromised DEF Next
  <2>7. Attended'  BY <1>1, <1>i, <2>4, CallerAttended, JobAttended, AnswerAttended DEF Next
  <2>8. Quieted'  BY <1>1, <1>i, QuietedStep
  <2>9. Forgiving'  BY <1>1, <1>i, <2>4, ForgivingStep
  <2> QED BY <2>1, <2>3, <2>5, <2>6, <2>7, <2>8, <2>9 DEF IInv
<1>2. CASE UNCHANGED vars
  <2>1. UNCHANGED <<pc, failed, outcome, state, completion, ending, waits, rollbackFailure, decider,
                    sent, statement, promise, runningQueries, justRejectedQueries, rejectedQueries,
                    handled, callback, jobs, known, seen, late>>
    BY <1>2 DEF vars, client, terminal, queries, history
  <2>2. TypeOK' /\ Stages'  BY <1>i, <2>1 DEF TypeOK, Stages, Issued
  <2>3. JobsHold' /\ CallbackJobs'
    BY <1>i, <2>1 DEF JobsHold, GoodJobs, CallbackJobs, Issued
  <2>4. Unstarted' /\ Progress' /\ Deciders'
    BY <1>i, <2>1 DEF Unstarted, Progress, Deciders, CallbackEnded
  <2>5. Promised'  BY <1>i, <2>1 DEF Promised, Issued
  <2>6. Attended'  BY <1>i, <2>1 DEF Attended, Awaited
  <2>7. Quieted'  BY <1>i, <2>1 DEF Quieted
  <2>8. Orderly' /\ Remembered'
    BY <1>i, <2>1 DEF Forgiving, Orderly, Remembered, Places, Issued, BetweenJobs
  <2>9. Told' /\ AtTheEnd'
    BY <1>i, <2>1 DEF Forgiving, Told, AtTheEnd, ForgottenFirst, Places, CallbackEnded
  <2>10. Waited' /\ Running'  BY <1>i, <2>1 DEF Forgiving, Waited, Running, CallbackEnded
  <2> QED BY <2>2, <2>3, <2>4, <2>5, <2>6, <2>7, <2>8, <2>9, <2>10 DEF IInv, Forgiving
<1> QED BY <1>1, <1>2

LEMMA Inductive == Spec => []IInv
  BY InitIInv, Step, PTL DEF Spec

\* Type correctness of transaction() and the transaction it hands out.
THEOREM TypeCorrect == Spec => []TypeOK
<1>1. IInv => TypeOK  BY DEF IInv
<1> QED BY <1>1, Inductive, PTL

\* However many statements there are, no END_TRAN is asked for while one is
\* unanswered, and none starts after it: a completion waits for every promise that is
\* pending, and one that has settled has the result of its statement.
THEOREM EndsLast == Spec => []EndsAfterStatements
<1>1. IInv => EndsAfterStatements
  <2> SUFFICES ASSUME IInv, sent # <<>>, NEW q \in Issued PROVE statement[q] # "pending"
    BY DEF EndsAfterStatements
  <2>1. promise[q] # "pending" /\ promise[q] = statement[q]  BY DEF IInv, Promised
  <2> QED BY <2>1
<1> QED BY <1>1, Inductive, PTL

\* What transaction() reports is what became of the work, whoever completed it and in
\* whatever order statements, completion and callback settled.
THEOREM OutcomeTrue == Spec => []OutcomeIsTrue
<1>1. IInv => OutcomeIsTrue
  <2> SUFFICES ASSUME IInv PROVE OutcomeIsTrue  OBVIOUS
  <2>i. Stages /\ Progress /\ Deciders /\ Attended /\ TypeOK  BY DEF IInv
  <2>1. ASSUME outcome = "fulfilled"
        PROVE  pc = "done" /\ ~failed /\ completion = "fulfilled" /\ CallbackEnded
    BY <2>i, <2>1 DEF Progress
  <2>2. decider \in {"nobody", "caller", "finish", "abort"} /\ handled \subseteq Issued
    BY <2>i DEF TypeOK
  <2>3. outcome = "fulfilled" => state = "committed" \/ (state = "rolledBack" /\ decider = "caller")
    BY <2>i, <2>1, <2>2 DEF Stages, Deciders
  <2>4. state = "committed" /\ failed => decider = "caller"
    BY <2>i, <2>2 DEF Stages, Deciders
  <2>5. ASSUME outcome = "fulfilled", state = "committed", NEW q \in Issued, promise[q] = "rejected",
               q \in handled
        PROVE  q \in seen
    BY <2>i, <2>1, <2>5 DEF Attended, Awaited, CallbackEnded
  <2> QED BY <2>3, <2>4, <2>5 DEF OutcomeIsTrue
<1> QED BY <1>1, Inductive, PTL

\* A failed transaction leaves no rejection unhandled: abort() listens to those there
\* are, and a completion to every promise that is still to settle.
THEOREM OneFailure == Spec => []OneFailureReported
<1>1. IInv => OneFailureReported
  <2> SUFFICES ASSUME IInv, pc \in {"aborting", "closing", "done"}, failed, callback.at # "none",
                      NEW q \in Issued, promise[q] # "fulfilled"
               PROVE  q \in handled
    BY DEF OneFailureReported
  <2>i. Quieted /\ Promised /\ TypeOK  BY DEF IInv
  <2>1. state # "open" /\ rejectedQueries \subseteq handled  BY <2>i DEF Quieted
  <2>2. promise[q] \in {"pending", "rejected"}
    BY <2>i, QueueTypes DEF TypeOK, Promises
  <2>3. waits \subseteq handled /\ (promise[q] = "pending" => q \in waits)
        /\ (promise[q] = "rejected" => q \in rejectedQueries)
    BY <2>i, <2>1 DEF Promised
  <2> QED BY <2>1, <2>2, <2>3
<1> QED BY <1>1, Inductive, PTL

\* What the client commits for the callback, it commits only over failures the callback could
\* have seen: whatever had not reached it when it returned is still running or only just
\* rejected when finish() asks, because a rejection is forgotten two jobs after its reactions
\* were queued, and the end of the callback queues finish() later still.
THEOREM FailuresSeen == Spec => []NoUnseenFailureCommitted
<1>1. IInv => NoUnseenFailureCommitted
  <2> SUFFICES ASSUME IInv, state = "committed", decider = "finish", NEW q \in late
               PROVE  promise[q] # "rejected"
    BY DEF NoUnseenFailureCommitted
  <2>1. Waited /\ Attended  BY DEF IInv, Forgiving
  <2>2. q \in waits \/ promise[q] = "fulfilled"  BY <2>1 DEF Waited
  <2>3. \A r \in waits : promise[r] = "fulfilled"  BY <2>1 DEF Attended
  <2> QED BY <2>2, <2>3
<1> QED BY <1>1, Inductive, PTL

\* And no commit is held back by a failure the callback was thrown: its rejection is forgotten
\* before finish() runs.
THEOREM SeenForgiven == Spec => SeenFailuresForgiven
<1>1. IInv /\ [Next]_vars => [waits' # waits => waits' \cap seen = {}]_vars
  <2> SUFFICES ASSUME IInv, Next, waits' # waits PROVE waits' \cap seen = {}
    BY DEF vars, terminal
  <2> QED BY WaitsStep DEF IInv
<1> QED BY <1>1, Inductive, PTL DEF Spec, SeenFailuresForgiven

=============================================================================
