------------------------------- MODULE Session -------------------------------
(***************************************************************************)
(* A CASConnection (src/src/protocol/connection.ts) as the adapter above   *)
(* it sees it: every operation is one step, because the adapter awaits it  *)
(* and shares the connection with nobody.  CASConnection.tla has the steps *)
(* an operation is made of.                                                *)
(*                                                                         *)
(* A session is a record: the fields of the class the adapter depends on,  *)
(* and the far end, which is external: whether the CAS is up, whether it   *)
(* has a transaction open, the statements whose changes that transaction   *)
(* holds, and the last AUTO_INCREMENT value generated, with its author.    *)
(* An operation is the set of its outcomes: the session afterwards, what   *)
(* the caller is told, the statements it made durable, whether the request *)
(* ran, whether the client was left not knowing, and how many faults it    *)
(* takes.                                                                  *)
(***************************************************************************)
EXTENDS Integers

CONSTANTS
  Ids,         \* AUTO_INCREMENT values, positive; two tables may generate the same
  EndsUnasked  \* BOOLEAN: a reply may say that the caller's transaction is over

NewSession ==
  [connected |-> FALSE, generation |-> 0, outOfTransaction |-> FALSE, casVerified |-> FALSE,
   failedExchanges |-> 0, outOfTransactionReplies |-> 0,
   up |-> FALSE, open |-> FALSE, work |-> {}, lastId |-> 0, author |-> 0]

Outcome(s, reply, durable, ran) ==
  [session |-> s, reply |-> reply, durable |-> durable, ran |-> ran,
   unknown |-> FALSE, cost |-> 0]

\* How a request is to be taken by the CAS: with its autocommit byte set, in a
\* transaction the adapter ends itself after one statement, or in the caller's.
Modes == {"autocommit", "deferred", "transaction"}

Request(fn, mode) == [fn |-> fn, mode |-> mode, id |-> 0, writes |-> FALSE]

Executing == {"PREPARE_AND_EXECUTE", "EXECUTE"}

-----------------------------------------------------------------------------
(* External: what a CAS does with a request.                               *)

Opened(s) == [s EXCEPT !.open = TRUE]
Ended(s) == [s EXCEPT !.open = FALSE, !.work = {}]
Committed(s, ran) == Outcome(Ended(s), "ok", s.work, ran)

\* The values a statement that writes may leave behind, also when it fails.
Generates(s, r) ==
  {s} \cup {[s EXCEPT !.lastId = v, !.author = r.id] : v \in IF r.writes THEN Ids ELSE {}}

Ran(s, r) ==
  {Opened([t EXCEPT !.work = @ \cup IF r.writes THEN {r.id} ELSE {}]) : t \in Generates(s, r)}

\* It does what was asked.  A SELECT may have more rows than its first reply.
Accepted(s, r) ==
  CASE r.fn \in Executing ->
         {IF r.mode = "autocommit" THEN Committed(t, TRUE) ELSE Outcome(t, "ok", {}, TRUE)
            : t \in Ran(s, r)}
         \cup {Outcome(t, "more", {}, TRUE) : t \in IF r.writes THEN {} ELSE Ran(s, r)}
    [] r.fn = "FETCH" ->
         {IF r.mode = "autocommit" THEN Committed(s, TRUE) ELSE Outcome(s, "ok", {}, TRUE),
          Outcome(s, "more", {}, TRUE)}
    [] r.fn = "GET_DB_VERSION" /\ r.mode = "autocommit" -> {Committed(s, TRUE)}
    [] r.fn = "PREPARE" -> {Outcome(Opened(s), "ok", {}, TRUE)}
    [] r.fn = "COMMIT" -> {Committed(s, TRUE)}
    [] r.fn = "ROLLBACK" -> {Outcome(Ended(s), "ok", {}, TRUE)}
    [] OTHER -> {Outcome(s, "ok", {}, TRUE)}

\* An ordinary error undoes the statement alone, unless it was autocommitted.
\* A COMMIT that is refused leaves the transaction open; a ROLLBACK never is.
Refused(s, r) ==
  {Outcome(t, "error", {}, TRUE) :
     t \in CASE r.fn = "ROLLBACK" -> {}
             [] r.fn \in Executing \cup {"FETCH"} /\ r.mode = "autocommit" ->
                  {Ended(u) : u \in Generates(s, r)}
             [] r.fn \in Executing /\ r.mode # "autocommit" ->
                  {Opened(u) : u \in Generates(s, r)}
             [] r.fn = "PREPARE" -> {Opened(s)}
             [] OTHER -> {s}}

\* The server rolls back the whole transaction (-72) and still says IN_TRAN.
Aborted(s, r) ==
  IF r.mode # "autocommit" /\ r.fn \in Executing \cup {"PREPARE", "FETCH", "COMMIT"}
    THEN {[Outcome([s EXCEPT !.open = TRUE, !.work = {}], "abort", {}, TRUE) EXCEPT !.cost = 1]}
    ELSE {}

\* The caller's transaction turns out to be over: its work is gone, and the
\* reply says OUT_TRAN but is otherwise ordinary.  CUBRID 10.2 to 11.4 never do it.
Vanished(s, r) ==
  IF EndsUnasked /\ r.mode = "transaction" /\ s.open /\ r.fn \notin {"COMMIT", "ROLLBACK", "CHECK_CAS"}
    THEN {[Outcome(Ended(s), "ok", {}, TRUE) EXCEPT !.cost = 1]}
    ELSE {}

\* A reply that cannot be trusted, or one with a value that cannot be decoded.
Damaged(s, r) ==
  IF r.fn \in Executing \cup {"PREPARE", "FETCH", "GET_LAST_INSERT_ID"}
    THEN {[o EXCEPT !.reply = "malformed", !.cost = 1] : o \in Accepted(s, r)}
    ELSE {}

Undecodable(s, r) ==
  IF r.fn \in Executing \cup {"FETCH"} /\ ~r.writes
    THEN {[o EXCEPT !.reply = "undecodable"] : o \in Accepted(s, r)}
    ELSE {}

Replies(s, r) ==
  Accepted(s, r) \cup Refused(s, r) \cup Aborted(s, r) \cup Damaged(s, r) \cup Undecodable(s, r)

\* The OUT_TRAN statuses of a reply.  A CHECK_CAS holds the CAS, and makes it say
\* IN_TRAN, until the next statement ends.
Statuses(fn, open) ==
  CASE open \/ fn = "CHECK_CAS" -> {FALSE}
    [] ~open /\ fn \in Executing \cup {"FETCH", "COMMIT", "ROLLBACK"} -> {TRUE}
    [] OTHER -> BOOLEAN

\* Out of transaction and not held it may go to another client; it may crash.
Leaves(s) ==
  IF s.connected /\ s.up /\ s.outOfTransaction /\ ~s.casVerified
    THEN {[Ended(s) EXCEPT !.up = FALSE]} ELSE {}

Crashes(s) ==
  IF s.connected /\ s.up THEN {[Ended(s) EXCEPT !.up = FALSE]} ELSE {}

-----------------------------------------------------------------------------
(* The operations of the connection.                                       *)

RetireSocket(s) == [Ended(s) EXCEPT !.connected = FALSE, !.up = FALSE]

DiscardSession(s) == [RetireSocket(s) EXCEPT !.failedExchanges = @ + 1]

\* connectUnlocked(): a new session, or none and an error.
Connect(s) ==
  IF s.connected
    THEN {Outcome(s, "ok", {}, FALSE)}
    ELSE {Outcome([s EXCEPT !.connected = TRUE, !.generation = @ + 1, !.up = TRUE,
                            !.outOfTransaction = FALSE, !.casVerified = FALSE,
                            !.lastId = 0, !.author = 0], "ok", {}, FALSE),
          [Outcome(s, "lost", {}, FALSE) EXCEPT !.cost = 1]}

\* verifySessionUnlocked(): a failed probe replaces the session.
VerifySession(s) ==
  IF ~(s.connected /\ s.outOfTransaction /\ ~s.casVerified)
    THEN {Outcome(s, "ok", {}, FALSE)}
    ELSE IF s.up THEN {Outcome([s EXCEPT !.casVerified = TRUE], "ok", {}, FALSE)}
                 ELSE Connect(RetireSocket(s))

After(o, next) == {[p EXCEPT !.cost = @ + o.cost] : p \in next}

EnsureSession(s) ==
  UNION {IF o.reply = "ok" THEN After(o, Connect(o.session)) ELSE {o} : o \in VerifySession(s)}

Lost(s, counted) ==
  [RetireSocket(s) EXCEPT !.failedExchanges = @ + IF counted THEN 1 ELSE 0]

\* The peer had gone: the request never ran.
NotServed(s, counted) == {Outcome(Lost(s, counted), "lost", {}, FALSE)}

\* No reply came in time or ever: the request may have run.
Unanswered(s, r, counted) ==
  {[Outcome(Lost(s, counted), "lost", o.durable, o.ran) EXCEPT !.cost = 1, !.unknown = counted]
     : o \in Accepted(s, r) \cup {Outcome(s, "ok", {}, FALSE)}}

\* The fields a reply updates.
Read(o, fn, statuses) ==
  {[o EXCEPT !.session.outOfTransaction = out,
             !.session.casVerified = FALSE,
             !.session.outOfTransactionReplies =
                 @ + IF out /\ fn \notin {"COMMIT", "ROLLBACK"} THEN 1 ELSE 0]
     : out \in statuses}

Exchange(s, r, counted) ==
  IF s.connected /\ s.up
    THEN (UNION {Read(o, r.fn, Statuses(r.fn, o.session.open)) : o \in Replies(s, r)})
         \cup (UNION {Read(o, r.fn, {TRUE}) : o \in Vanished(s, r)})
         \cup Unanswered(s, r, counted)
    ELSE NotServed(s, counted)

SendAndRecv(s, r) ==
  UNION {IF o.reply = "ok" THEN After(o, Exchange(o.session, r, TRUE)) ELSE {o}
           : o \in VerifySession(s)}

OnSession(s, generation, r, counted) ==
  IF s.connected /\ s.generation = generation
    THEN Exchange(s, r, counted)
    ELSE {Outcome(s, "absent", {}, FALSE)}

\* setSessionParameters(): a session opened by the verification has them already.
Applied(s) ==
  {Outcome([s EXCEPT !.outOfTransaction = FALSE, !.casVerified = TRUE], "ok", {}, FALSE),
   [Outcome(RetireSocket(s), "lost", {}, FALSE) EXCEPT !.cost = 1]}

SetSessionParameters(s) ==
  UNION {IF o.reply = "lost" \/ ~o.session.connected \/ o.session.generation # s.generation
           THEN {o}
           ELSE IF o.session.up THEN Applied(o.session)
                ELSE {Outcome(RetireSocket(o.session), "lost", {}, FALSE)}
           : o \in VerifySession(s)}

SendAndRecvOnSession(s, generation, r) == OnSession(s, generation, r, TRUE)
ReleaseOnSession(s, generation, r) == OnSession(s, generation, r, FALSE)

=============================================================================
