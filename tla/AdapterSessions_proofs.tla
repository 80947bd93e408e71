----------------------- MODULE AdapterSessions_proofs -----------------------
(***************************************************************************)
(* What the adapter takes from a session belongs to the session in use:    *)
(* the last insert id it reports, the transaction its statements run in    *)
(* and the backslash mode their text is escaped for (native.ts), for any   *)
(* calls, any number of faults and any order in which sessions come and go.*)
(* The last section is about when changes on it become durable.            *)
(***************************************************************************)
EXTENDS Adapter_proofs

-----------------------------------------------------------------------------
(* The invariant behind the generated ids.                                 *)

\* The running statement may have generated a value that was not asked for yet.
Generating ==
  queue # <<>> /\ Running.sql # "select" /\ (pc \in {"execute", "lastId"} \/ failure # "none")

\* The last value is the one remembered, or may be another, or is the running statement's.
Heard ==
  /\ insertIdGeneration \leq session.generation
  /\ Baseline(session) \in {Unseen, session.lastId} \/ (Generating /\ session.author = id)
  /\ TrueInsertId

\* Session t has the value of s, or is a new one that has none.
Remembers(s, t) ==
  \/ t.generation = s.generation /\ t.lastId = s.lastId /\ t.author = s.author
  \/ s.generation < t.generation /\ t.lastId = 0

\* No id is reported.
SameIds ==
  \A i \in Numbers' :
    told'[i].insertId # None =>
      i \in Numbers /\ told'[i].insertId = told[i].insertId /\ told'[i].author = told[i].author

\* The statement that may have generated a value still runs.
Carries == Generating' /\ id' = id

LEMMA IdsStay ==
  ASSUME Heard, SameIds
  PROVE  TrueInsertId'
BY DEF Heard, SameIds, TrueInsertId

LEMMA KeepsHeard ==
  ASSUME Typed, Typed', Heard, UNCHANGED baseline, Remembers(session, session'), SameIds,
         Generating => Carries
  PROVE  Heard'
<1>1. TrueInsertId' BY IdsStay
<1>3. /\ insertIdGeneration' = insertIdGeneration /\ insertIdBaseline' = insertIdBaseline
      /\ insertIdGeneration \in Nat /\ session.generation \in Nat /\ session'.generation \in Nat
  BY SaneNow DEF baseline, Typed, OthersTyped, Sane, SessionSet
<1>4. CASE /\ session'.generation = session.generation /\ session'.lastId = session.lastId
           /\ session'.author = session.author
  <2>1. Baseline(session)' = Baseline(session) BY <1>3, <1>4 DEF Baseline
  <2> QED BY <1>1, <1>3, <1>4, <2>1 DEF Heard, Carries
<1>5. CASE session.generation < session'.generation /\ session'.lastId = 0
  <2>1. insertIdGeneration \leq session.generation BY DEF Heard
  <2>2. insertIdGeneration' # session'.generation /\ insertIdGeneration' \leq session'.generation
    BY <1>3, <1>5, <2>1
  <2>3. Baseline(session)' = None BY <2>2 DEF Baseline
  <2> QED BY <1>1, <1>5, <2>2, <2>3 DEF Heard, None
<1> QED BY <1>4, <1>5 DEF Remembers

\* The session was asked for its value, or it is unseen from now on.
LEMMA AsksHeard ==
  ASSUME insertIdGeneration' = session'.generation, session'.generation \in Nat,
         insertIdBaseline' \in {Unseen, session'.lastId}, TrueInsertId'
  PROVE  Heard'
<1>1. Baseline(session)' = insertIdBaseline' BY DEF Baseline
<1> QED BY <1>1 DEF Heard

\* The running statement wrote, and its value was not asked for yet.
LEMMA WritesHeard ==
  ASSUME Typed, Typed', Heard, UNCHANGED baseline, SameIds, Carries,
         session.generation \leq session'.generation,
         Remembers(session, session') \/ session'.author = id
  PROVE  Heard'
<1>1. CASE Remembers(session, session') BY <1>1, KeepsHeard
<1>2. CASE session'.author = id
  <2>1. TrueInsertId' BY IdsStay
  <2>2. insertIdGeneration' \leq session'.generation
    <3>1. insertIdGeneration' = insertIdGeneration BY DEF baseline
    <3>2. insertIdGeneration \leq session.generation BY DEF Heard
    <3>3. insertIdGeneration \in Nat /\ session.generation \in Nat BY SaneNow DEF OthersTyped
    <3>4. session'.generation \in Nat BY DEF Typed, Sane, SessionSet
    <3> QED BY <3>1, <3>2, <3>3, <3>4
  <2> QED BY <1>2, <2>1, <2>2 DEF Heard, Carries
<1> QED BY <1>1, <1>2

LEMMA SameRemembered ==
  ASSUME NEW s
  PROVE  Remembers(s, s)
BY DEF Remembers

LEMMA OpensRemembered ==
  ASSUME Typed, NEW o, Opens(Len(told), session, o) \/ Applies(Len(told), session, o)
  PROVE  Remembers(session, o.session)
BY SaneNow DEF Opens, Applies, Same, Fresh, Remembers

\* A request that writes nothing generates nothing.
LEMMA SentRemembered ==
  ASSUME Typed, NEW n, NEW r, ~r.writes, NEW o,
         Sent(n, session, r, o) \/ Exchanged(n, session, r, o)
  PROVE  Remembers(session, o.session)
BY SaneNow DEF Sent, Exchanged, Later, Authored, Remembers

LEMMA DiscardRemembered ==
  ASSUME NEW n \in Nat, NEW s, NEW t \in SessionSet(n), Remembers(s, t)
  PROVE  Remembers(s, S!DiscardSession(t))
<1>1. Dropped(n, t, S!DiscardSession(t), 1) BY DiscardedIs
<1> QED BY <1>1 DEF Dropped, Remembers

\* A statement's own request leaves what was there, or a value of its own.
LEMMA StatementRemembered ==
  ASSUME Typed, NEW n, NEW r, r.id = id, NEW o,
         Sent(n, session, r, o) \/ Exchanged(n, session, r, o)
  PROVE  /\ session.generation \leq o.session.generation
         /\ Remembers(session, o.session) \/ (r.writes /\ o.session.author = id)
BY SaneNow DEF Sent, Exchanged, Later, Authored, Remembers

LEMMA TellSameIds ==
  ASSUME Typed, queue # <<>>, NEW status \in {"done", "failed"}, Tell(status)
  PROVE  SameIds
<1>1. id \in Numbers /\ told \in Seq(ToldSet) /\ told[id] \in ToldSet BY RunningIs DEF Typed
<1> DEFINE r == [told[id] EXCEPT !.status = status]
<1>2. r \in ToldSet /\ r.insertId = told[id].insertId /\ r.author = told[id].author
  BY <1>1 DEF ToldSet
<1>3. told' = [told EXCEPT ![id] = r] BY DEF Tell
<1> HIDE DEF r
<1>4. Revised(told', id, r) BY <1>1, <1>2, <1>3, ToldOnce, Zenon
<1> QED BY <1>2, <1>4 DEF Revised, SameIds, Numbers

LEMMA UntoldSameIds ==
  ASSUME UNCHANGED told
  PROVE  SameIds
BY DEF SameIds, Numbers

\* A statement that fails leaves the value unseen.
LEMMA FailsHeard ==
  ASSUME Typed, Heard, queue # <<>>, NEW s, session' = s, Sane(Len(told), s), NEW error,
         StatementFails(s, error)
  PROVE  Heard'
<1>1. Tell("failed") /\ insertIdGeneration' = s.generation /\ insertIdBaseline' = Unseen
  BY DEF StatementFails, ForgetInsertId, Follow
<1>2. TrueInsertId' BY <1>1, TellSameIds, IdsStay
<1>3. session'.generation \in Nat BY DEF Sane, SessionSet
<1> QED BY <1>1, <1>2, <1>3, AsksHeard

LEMMA AtRest ==
  ASSUME Sound, pc \notin {"execute", "lastId", "release", "undo", "releaseProbe"}
  PROVE  ~Generating
BY DEF Sound, Known, Generating

\* A call is settled with the value left as it was.
LEMMA TellsHeard ==
  ASSUME Typed, Typed', Heard, queue # <<>>, NEW status \in {"done", "failed"}, Tell(status), ~Generating,
         UNCHANGED baseline, Remembers(session, session')
  PROVE  Heard'
BY TellSameIds, KeepsHeard

-----------------------------------------------------------------------------
(* It is kept: from the start of a statement to sending it.                *)

\* The session of an outcome, or what is left of it, has its value.
LEMMA LeftRemembered ==
  ASSUME Typed, NEW o \in OutcomeSet(Len(told)), Remembers(session, o.session),
         session' = o.session \/ session' = S!DiscardSession(o.session)
  PROVE  Remembers(session, session')
<1>1. Len(told) \in Nat /\ o.session \in SessionSet(Len(told)) BY SaneNow DEF OutcomeSet
<1> QED BY <1>1, DiscardRemembered

\* A request that is none of the statement's own.
LEMMA QuietRemembered ==
  ASSUME Typed, NEW fn \in Functions, NEW mode \in S!Modes,
         NEW o \in S!SendAndRecv(session, S!Request(fn, mode)), Takes(o),
         session' = o.session \/ session' = S!DiscardSession(o.session)
  PROVE  /\ Remembers(session, o.session) /\ Remembers(session, session')
         /\ o \in OutcomeSet(Len(told)) /\ Sane(Len(told), o.session)
<1> DEFINE r == S!Request(fn, mode)
<1>1. r \in RequestSet(Len(told)) /\ r.writes = FALSE BY SaneNow, RequestIs
<1>2. o \in S!SendAndRecv(session, r) OBVIOUS
<1> HIDE DEF r
<1>3. Sent(Len(told), session, r, o) /\ o \in OutcomeSet(Len(told)) BY <1>1, <1>2, SentStep
<1>4. Remembers(session, o.session) BY <1>1, <1>3, SentRemembered
<1> QED BY <1>3, <1>4, LeftRemembered DEF Sent

LEMMA QuietOnSession ==
  ASSUME Typed, NEW fn \in Functions, NEW g, NEW counted \in BOOLEAN,
         NEW o \in S!OnSession(session, g, S!Request(fn, Mode), counted), Takes(o),
         session' = o.session \/ session' = S!DiscardSession(o.session)
  PROVE  Remembers(session, session') /\ o \in OutcomeSet(Len(told))
<1> DEFINE r == S!Request(fn, Mode)
<1>1. r \in RequestSet(Len(told)) /\ r.writes = FALSE BY SaneNow, ModeIs, RequestIs
<1>2. o \in S!OnSession(session, g, r, counted) OBVIOUS
<1> HIDE DEF r
<1>3. /\ o \in OutcomeSet(Len(told))
      /\ Absent(Len(told), session, g, o) \/ Exchanged(Len(told), session, r, o)
  BY <1>1, <1>2, OnSessionStep
<1>4. Remembers(session, o.session)
  <2>1. CASE Absent(Len(told), session, g, o) BY <2>1, SameRemembered DEF Absent
  <2>2. CASE Exchanged(Len(told), session, r, o) BY <1>1, <2>2, SentRemembered
  <2> QED BY <1>3, <2>1, <2>2
<1> QED BY <1>3, <1>4, LeftRemembered

\* Nobody is told anything, and no value is waiting to be asked for.
LEMMA QuietHeard ==
  ASSUME Typed, Typed', Heard, UNCHANGED <<baseline, told>>, Remembers(session, session'), ~Generating
  PROVE  Heard'
BY UntoldSameIds, KeepsHeard

LEMMA BeginExecuteHeard ==
  ASSUME Typed, Typed', Sound, Heard, BeginExecute
  PROVE  Heard'
<1>1. /\ pc = "idle" /\ session' = session /\ UNCHANGED told
      /\ insertIdGeneration' = session.generation /\ insertIdBaseline' = Baseline(session)
  BY DEF BeginExecute, Turn, Follow
<1>2. ~Generating BY <1>1, AtRest
<1>3. Baseline(session) \in {Unseen, session.lastId} BY <1>2 DEF Heard
<1>4. TrueInsertId' BY <1>1, UntoldSameIds, IdsStay
<1> QED BY <1>1, <1>3, <1>4, SaneNow, AsksHeard

LEMMA BaselineRefusedHeard ==
  ASSUME Typed, Typed', Sound, Heard, BaselineRefused
  PROVE  Heard'
<1>1. session' = session /\ StatementFails(session, "lost") /\ queue # <<>>
  BY PcRuns DEF BaselineRefused
<1> QED BY <1>1, SaneNow, FailsHeard

LEMMA BaselineUnreadHeard ==
  ASSUME Typed, Typed', Sound, Heard, BaselineUnread
  PROVE  Heard'
<1>1. pc = "baseline" /\ session' = session /\ UNCHANGED <<baseline, told>>
  BY DEF BaselineUnread, connection
<1> QED BY <1>1, AtRest, SameRemembered, QuietHeard

LEMMA ReadBaselineHeard ==
  ASSUME Typed, Typed', Sound, Heard, ReadBaseline
  PROVE  Heard'
<1>1. PICK o \in S!SendAndRecv(session, S!Request("GET_LAST_INSERT_ID", Mode)) :
        /\ Takes(o)
        /\ IF o.reply = "ok"
             THEN /\ session' = o.session
                  /\ Follow(o.session) /\ insertIdBaseline' = o.session.lastId
                  /\ UNCHANGED told
             ELSE /\ session' = IF o.reply = "malformed" THEN S!DiscardSession(o.session)
                                                         ELSE o.session
                  /\ StatementFails(session', o.reply)
  BY DEF ReadBaseline
<1>2. queue # <<>> BY PcRuns DEF ReadBaseline
<1>3. session'.generation \in Nat /\ Len(told') = Len(told)
  <2>1. session'.generation \in Nat BY DEF Typed, Sane, SessionSet
  <2>2. Len(told') = Len(told)
    <3>1. CASE UNCHANGED told BY <3>1
    <3>2. CASE Tell("failed") BY <1>2, <3>2, TellIs DEF Settles
    <3> QED BY <1>1, <3>1, <3>2 DEF StatementFails
  <2> QED BY <2>1, <2>2
<1>4. CASE o.reply = "ok"
  <2>1. TrueInsertId' BY <1>1, <1>4, UntoldSameIds, IdsStay
  <2> QED BY <1>1, <1>3, <1>4, <2>1, AsksHeard DEF Follow
<1>5. CASE o.reply # "ok"
  <2>1. StatementFails(session', o.reply) BY <1>1, <1>5
  <2>2. Sane(Len(told), session') BY <1>3 DEF Typed
  <2> QED BY <1>2, <2>1, <2>2, FailsHeard
<1> QED BY <1>4, <1>5

LEMMA StartRefusedHeard ==
  ASSUME Typed, Typed', Sound, Heard, StartRefused
  PROVE  Heard'
<1>1. session' = DropIfEnded(session) /\ StatementFails(session', "lost") /\ queue # <<>>
  BY AtStartIs DEF StartRefused
<1>2. Sane(Len(told), session') BY <1>1, DropIs
<1> QED BY <1>1, <1>2, FailsHeard

LEMMA EnsureSessionHeard ==
  ASSUME Typed, Typed', Sound, Heard, EnsureSession
  PROVE  Heard'
<1>1. PICK o \in S!EnsureSession(session) :
        /\ Takes(o) /\ session' = o.session
        /\ IF o.reply = "ok" THEN UNCHANGED <<baseline, told>> ELSE StatementFails(o.session, "lost")
  BY DEF EnsureSession
<1>2. AtStart /\ queue # <<>> BY AtStartIs DEF EnsureSession
<1>3. Opens(Len(told), session, o) BY SaneNow, EnsureIs, Zenon
<1>4. Remembers(session, session') /\ Sane(Len(told), session')
  BY <1>1, <1>3, OpensRemembered DEF Opens
<1>5. CASE o.reply = "ok"
  <2>1. ~Generating BY <1>2, AtRest DEF AtStart, Turn
  <2> QED BY <1>1, <1>4, <1>5, <2>1, QuietHeard
<1>6. CASE o.reply # "ok"
  <2>1. StatementFails(session', "lost") BY <1>1, <1>6
  <2> QED BY <1>2, <1>4, <2>1, FailsHeard
<1> QED BY <1>5, <1>6

LEMMA ProbeModeHeard ==
  ASSUME Typed, Typed', Sound, Heard, ProbeMode
  PROVE  Heard'
<1> DEFINE mode == IF autoCommit THEN "deferred" ELSE Mode
<1>1. PICK o \in S!SendAndRecv(session, S!Request("PREPARE_AND_EXECUTE", mode)) :
        /\ Takes(o)
        /\ session' = IF o.reply = "malformed" THEN S!DiscardSession(o.session) ELSE o.session
  BY DEF ProbeMode
<1>2. pc = "mode" /\ UNCHANGED <<baseline, told>> BY DEF ProbeMode
<1>3. "PREPARE_AND_EXECUTE" \in Functions /\ mode \in S!Modes BY ModeIs DEF Functions
<1>4. session' = o.session \/ session' = S!DiscardSession(o.session) BY <1>1
<1>5. Takes(o) /\ o \in S!SendAndRecv(session, S!Request("PREPARE_AND_EXECUTE", mode)) BY <1>1
<1> HIDE DEF mode
<1>6. Remembers(session, session') BY <1>3, <1>4, <1>5, QuietRemembered
<1> QED BY <1>2, <1>6, AtRest, QuietHeard

LEMMA ReleaseProbeHeard ==
  ASSUME Typed, Typed', Sound, Heard, ReleaseProbe
  PROVE  Heard'
<1>1. queue # <<>> /\ pc = "releaseProbe" BY PcRuns DEF ReleaseProbe
<1>2. PICK o \in S!OnSession(session, handle, S!Request("CLOSE_REQ_HANDLE", Mode), FALSE) :
        Takes(o) /\ session' = o.session
  BY DEF ReleaseProbe, CloseQueryHandle, S!ReleaseOnSession
<1>3. "CLOSE_REQ_HANDLE" \in Functions BY DEF Functions
<1>4. Remembers(session, session') BY <1>2, <1>3, QuietOnSession
<1>5. CASE failure = "none"
  <2>1. UNCHANGED <<baseline, told>> BY <1>5 DEF ReleaseProbe
  <2>2. ~Generating BY <1>1, <1>5 DEF Generating
  <2> QED BY <1>4, <2>1, <2>2, QuietHeard
<1>6. CASE failure # "none"
  <2>1. StatementFails(session', failure) BY <1>6 DEF ReleaseProbe
  <2>2. Len(told') = Len(told) BY <1>1, <2>1, TellIs DEF StatementFails, Settles
  <2>3. Sane(Len(told), session') BY <2>2 DEF Typed
  <2> QED BY <1>1, <2>1, <2>3, FailsHeard
<1> QED BY <1>5, <1>6

-----------------------------------------------------------------------------
(* It is kept: from sending the statement on.                              *)

\* The running statement, or its session, may have generated a value.
LEMMA CarriesOn ==
  ASSUME queue # <<>>, queue' = queue, Running.sql # "select",
         pc' \in {"execute", "lastId"} \/ failure' # "none"
  PROVE  Carries
BY DEF Carries, Generating, Running, id

LEMMA MarkersMismatchHeard ==
  ASSUME Typed, Typed', Sound, Heard, MarkersMismatch
  PROVE  Heard'
<1>1. /\ session' = session /\ failure' = "error" /\ queue # <<>>
      /\ UNCHANGED <<queue, told, baseline>>
  BY PcRuns DEF MarkersMismatch, Throw
<1>2. Generating => Carries BY <1>1, CarriesOn DEF Generating
<1> QED BY <1>1, <1>2, SameRemembered, UntoldSameIds, KeepsHeard

LEMMA FetchWindowHeard ==
  ASSUME Typed, Typed', Sound, Heard, FetchWindow
  PROVE  Heard'
<1> DEFINE r == S!Request("FETCH", Mode)
           counted == TRUE
<1>1. PICK o \in S!SendAndRecvOnSession(session, handle, r) :
        /\ Takes(o)
        /\ CASE o.reply = "ok" -> session' = o.session /\ Finish /\ UNCHANGED <<failure, baseline>>
             [] o.reply = "more" -> session' = o.session /\ UNCHANGED <<pc, failure, baseline>>
             [] OTHER -> Throw(o.session, o.reply)
  BY DEF FetchWindow
<1>2. pc = "fetch" /\ UNCHANGED told BY DEF FetchWindow
<1>3. o \in S!OnSession(session, handle, r, counted) /\ counted \in BOOLEAN
  BY <1>1 DEF S!SendAndRecvOnSession
<1>4. "FETCH" \in Functions BY DEF Functions
<1> HIDE DEF r
<1>5. (session' = o.session /\ UNCHANGED baseline) \/ Throw(o.session, o.reply) BY <1>1, Zenon
<1>6. UNCHANGED baseline /\ (session' = o.session \/ session' = S!DiscardSession(o.session))
  BY <1>5 DEF Throw
<1> HIDE DEF counted
<1>7. Remembers(session, session')
  <2>1. Takes(o) BY <1>1
  <2> QED BY <1>3, <1>4, <1>6, <2>1, QuietOnSession DEF r
<1> QED BY <1>2, <1>6, <1>7, AtRest, QuietHeard

LEMMA CommitStatementHeard ==
  ASSUME Typed, Typed', Sound, Heard, CommitStatement
  PROVE  Heard'
<1> DEFINE counted == TRUE
<1>1. PICK o \in S!OnSession(session, generation, S!Request("COMMIT", Mode), counted) :
        /\ Takes(o) /\ UNCHANGED baseline
        /\ session' = o.session \/ session' = S!DiscardSession(o.session)
  BY DEF CommitStatement, Throw, S!SendAndRecvOnSession
<1>2. pc = "commit" /\ UNCHANGED told BY DEF CommitStatement
<1>3. "COMMIT" \in Functions /\ counted \in BOOLEAN BY DEF Functions
<1> HIDE DEF counted
<1>4. Remembers(session, session') BY <1>1, <1>3, QuietOnSession
<1> QED BY <1>1, <1>2, <1>4, AtRest, QuietHeard

LEMMA ReleaseHandleHeard ==
  ASSUME Typed, Typed', Sound, Heard, ReleaseHandle
  PROVE  Heard'
<1>1. PICK o \in S!OnSession(session, handle, S!Request("CLOSE_REQ_HANDLE", Mode), FALSE) :
       /\ Takes(o)
       /\ IF failure = "none" /\ ~TransactionEnded(o.session)
            THEN session' = o.session /\ Tell("done")
            ELSE /\ session' = IF failure = "none" THEN S!DiscardSession(o.session) ELSE o.session
                 /\ failure' = IF failure = "none" THEN "lost" ELSE failure
                 /\ UNCHANGED <<queue, told>>
  BY DEF ReleaseHandle, S!ReleaseOnSession
<1>2. queue # <<>> /\ pc = "release" /\ UNCHANGED baseline BY PcRuns DEF ReleaseHandle
<1>3. session' = o.session \/ session' = S!DiscardSession(o.session) BY <1>1
<1>4. "CLOSE_REQ_HANDLE" \in Functions BY DEF Functions
<1>5. Remembers(session, session') BY <1>1, <1>3, <1>4, QuietOnSession
<1>6. CASE failure = "none" /\ ~TransactionEnded(o.session)
  <2>1. Tell("done") /\ ~Generating BY <1>1, <1>2, <1>6 DEF Generating
  <2> QED BY <1>2, <1>5, <2>1, TellsHeard
<1>7. CASE ~(failure = "none" /\ ~TransactionEnded(o.session))
  <2>1. UNCHANGED <<queue, told>> /\ failure' # "none" BY <1>1, <1>7
  <2>2. Generating => Carries BY <1>2, <2>1, CarriesOn DEF Generating
  <2> QED BY <1>2, <1>5, <2>1, <2>2, UntoldSameIds, KeepsHeard
<1> QED BY <1>6, <1>7

LEMMA UndoStatementHeard ==
  ASSUME Typed, Typed', Sound, Heard, UndoStatement
  PROVE  Heard'
<1>1. StatementFails(session', failure) /\ queue # <<>>
  BY PcRuns DEF UndoStatement
<1>2. Len(told') = Len(told) BY <1>1, TellIs DEF StatementFails, Settles
<1>3. Sane(Len(told), session') BY <1>2 DEF Typed
<1> QED BY <1>1, <1>3, FailsHeard

LEMMA ReadInsertIdHeard ==
  ASSUME Typed, Typed', Sound, Heard, ReadInsertId
  PROVE  Heard'
<1> DEFINE value(o) == IF Baseline(o.session) \in {Unseen, o.session.lastId}
                         THEN None ELSE o.session.lastId
<1>1. PICK o \in S!SendAndRecv(session, S!Request("GET_LAST_INSERT_ID", Mode)) :
       /\ Takes(o)
       /\ IF o.reply = "ok"
            THEN /\ session' = o.session
                 /\ Follow(o.session) /\ insertIdBaseline' = o.session.lastId
                 /\ told' = [told EXCEPT ![id].insertId = value(o), ![id].author = o.session.author]
            ELSE Throw(o.session, o.reply) /\ UNCHANGED told
  BY DEF ReadInsertId
<1>2. queue # <<>> /\ pc = "lastId" /\ queue' = queue BY PcRuns DEF ReadInsertId
<1>3. session' = o.session \/ session' = S!DiscardSession(o.session) BY <1>1 DEF Throw
<1>4. "GET_LAST_INSERT_ID" \in Functions BY DEF Functions
<1>5. /\ Remembers(session, o.session) /\ Remembers(session, session')
      /\ o \in OutcomeSet(Len(told)) /\ Sane(Len(told), o.session)
  BY <1>1, <1>3, <1>4, ModeIs, QuietRemembered
<1>6. id \in Numbers /\ told[id] \in ToldSet /\ told \in Seq(ToldSet)
  BY <1>2, RunningIs DEF Typed
<1>7. CASE o.reply = "ok"
  <2> DEFINE v == value(o)
             a == o.session.author
             t == [told[id] EXCEPT !.insertId = v, !.author = a]
  <2>1. told' = [told EXCEPT ![id].insertId = v, ![id].author = a] BY <1>1, <1>7
  <2>2. v \in Ids \cup {None} /\ a \in Nat
    BY <1>5, SaneNow DEF OutcomeSet, SessionSet, None
  <2>3. v # None => a = id
    <3> SUFFICES ASSUME v # None PROVE a = id
      OBVIOUS
    <3>1. o.session.lastId # 0 /\ Baseline(o.session) \notin {Unseen, o.session.lastId} BY DEF None
    <3>2. /\ o.session.generation = session.generation /\ o.session.lastId = session.lastId
          /\ o.session.author = session.author
      BY <1>5, <3>1 DEF Remembers
    <3>3. Baseline(o.session) = Baseline(session) BY <3>2 DEF Baseline
    <3> QED BY <3>1, <3>2, <3>3 DEF Heard
  <2> HIDE DEF v, a, value
  <2>4. t \in ToldSet /\ t.insertId = v /\ t.author = a BY <1>6, <2>2 DEF ToldSet
  <2>5. told' = [told EXCEPT ![id] = t] BY <1>6, <2>1 DEF ToldSet
  <2> HIDE DEF t
  <2>6. Revised(told', id, t) BY <1>6, <2>4, <2>5, ToldOnce
  <2>7. TrueInsertId'
    <3>1. Numbers' = Numbers BY <2>6 DEF Revised, Numbers
    <3> QED BY <2>3, <2>4, <2>6, <3>1 DEF Revised, TrueInsertId, Heard
  <2>8. session'.generation \in Nat BY SaneNow DEF Typed, Sane, SessionSet
  <2> QED BY <1>1, <1>7, <2>7, <2>8, AsksHeard DEF Follow
<1>8. CASE o.reply # "ok"
  <2>1. Throw(o.session, o.reply) /\ UNCHANGED <<told, baseline>> BY <1>1, <1>8 DEF Throw
  <2>2. failure' # "none" BY <1>5, <2>1 DEF Throw, OutcomeSet, Replied
  <2>3. Generating => Carries BY <1>2, <2>2, CarriesOn DEF Generating
  <2> QED BY <1>5, <2>1, <2>3, UntoldSameIds, KeepsHeard
<1> QED BY <1>7, <1>8

\* What the session may have of a statement that was sent: its value, or that before it.
Yields(o) ==
  /\ session.generation \leq o.session.generation
  /\ Remembers(session, o.session) \/ (Running.sql # "select" /\ o.session.author = id)

\* A value that may have been generated is asked for later, or forgotten.
StatementHears(o) ==
  \/ UNCHANGED baseline /\ (pc' \in {"execute", "lastId"} \/ failure' # "none")
  \/ UNCHANGED baseline /\ Running.sql = "select"
  \/ session' = o.session /\ ForgetInsertId(o.session)

LEMMA StatementHeard ==
  ASSUME Typed, Typed', Heard, queue # <<>>, queue' = queue, SameIds,
         NEW o \in OutcomeSet(Len(told)), Yields(o), StatementHears(o),
         session' = o.session \/ session' = S!DiscardSession(o.session)
  PROVE  Heard'
<1>1. Dropped(Len(told), o.session, S!DiscardSession(o.session), 1)
  BY SaneNow, DiscardedIs DEF OutcomeSet
<1>2. session'.author = o.session.author /\ session'.generation = o.session.generation
  BY <1>1 DEF Dropped
<1>3. CASE Running.sql = "select" /\ UNCHANGED baseline
  <2>0. Remembers(session, o.session) BY <1>3 DEF Yields
  <2>1. Remembers(session, session') BY <2>0, LeftRemembered
  <2>2. ~Generating BY <1>3 DEF Generating
  <2> QED BY <1>3, <2>1, <2>2, KeepsHeard
<1>4. CASE /\ Running.sql # "select" /\ UNCHANGED baseline
           /\ pc' \in {"execute", "lastId"} \/ failure' # "none"
  <2>1. Carries BY <1>4, CarriesOn
  <2>2. Remembers(session, session') \/ session'.author = id
    BY <1>2, LeftRemembered DEF Yields
  <2> QED BY <1>2, <1>4, <2>1, <2>2, WritesHeard DEF Yields
<1>5. CASE session' = o.session /\ ForgetInsertId(o.session)
  <2>1. TrueInsertId' BY IdsStay
  <2>2. session'.generation \in Nat BY DEF Typed, Sane, SessionSet
  <2> QED BY <1>5, <2>1, <2>2, AsksHeard DEF ForgetInsertId, Follow
<1> QED BY <1>3, <1>4, <1>5 DEF StatementHears

LEMMA RevisedSameIds ==
  ASSUME Typed, queue # <<>>, NEW t, Revised(told', id, t), t.insertId = told[id].insertId,
         t.author = told[id].author
  PROVE  SameIds
BY RunningIs DEF Revised, SameIds, Numbers

LEMMA ThrowHears ==
  ASSUME NEW o \in OutcomeSet(Len(told)), NEW s, Throw(s, o.reply) \/ Throw(s, "lost")
  PROVE  StatementHears(o)
<1>1. o.reply \in Replied BY DEF OutcomeSet
<1> QED BY <1>1 DEF Throw, StatementHears, Replied

LEMMA ResultHears ==
  ASSUME NEW o, UseResult(o.session, o.reply)
  PROVE  StatementHears(o)
BY DEF UseResult, StatementHears

LEMMA ExecuteHandleHeard ==
  ASSUME Typed, Typed', Sound, Heard, ExecuteHandle
  PROVE  Heard'
<1> DEFINE fn == "EXECUTE"
           r == Statement(fn)
<1>1. queue # <<>> /\ queue' = queue BY PcRuns DEF ExecuteHandle
<1>2. id \in Numbers /\ told[id] \in ToldSet /\ told \in Seq(ToldSet) BY <1>1, RunningIs DEF Typed
<1>3. fn \in Functions BY DEF Functions
<1> HIDE DEF fn
<1>4. r \in RequestSet(Len(told)) /\ r.id = id /\ (r.writes <=> Running.sql # "select")
  BY <1>1, <1>3, StatementIs, Zenon
<1>5. PICK o \in S!SendAndRecvOnSession(session, generation, r) :
       /\ Takes(o)
       /\ told' = [told EXCEPT ![id].ranOn = Place(o)]
       /\ IF o.reply \in {"ok", "more"} THEN UseResult(o.session, o.reply)
                                        ELSE Throw(o.session, o.reply)
  BY DEF ExecuteHandle, fn
<1> HIDE DEF r
<1>6. o \in S!OnSession(session, generation, r, TRUE) BY <1>5 DEF S!SendAndRecvOnSession
<1>7. session' = o.session \/ session' = S!DiscardSession(o.session)
  BY <1>5 DEF Throw, UseResult
<1>8. /\ o \in OutcomeSet(Len(told))
      /\ Absent(Len(told), session, generation, o) \/ Exchanged(Len(told), session, r, o)
  BY <1>4, <1>5, <1>6, <1>7, OnSessionStep
<1>9. Yields(o)
  <2>1. CASE Absent(Len(told), session, generation, o)
    BY <2>1, SaneNow, SameRemembered DEF Absent, Yields
  <2>2. CASE Exchanged(Len(told), session, r, o)
    BY <1>4, <2>2, StatementRemembered DEF Yields
  <2> QED BY <1>8, <2>1, <2>2
<1>10. StatementHears(o) BY <1>5, <1>8, ThrowHears, ResultHears
<1> DEFINE p == Place(o)
           t == [told[id] EXCEPT !.ranOn = p]
<1>11. p \in Nat \X Nat /\ told' = [told EXCEPT ![id].ranOn = p] BY <1>5, <1>8, PlaceIs
<1> HIDE DEF p
<1>12. told' = [told EXCEPT ![id] = t] BY <1>11
<1>13. t \in ToldSet /\ t.insertId = told[id].insertId /\ t.author = told[id].author
  BY <1>2, <1>11 DEF ToldSet
<1> HIDE DEF t
<1>14. Revised(told', id, t) BY <1>2, <1>12, <1>13, ToldOnce
<1>15. SameIds BY <1>1, <1>13, <1>14, RevisedSameIds
<1> QED BY <1>1, <1>7, <1>8, <1>9, <1>10, <1>15, StatementHeard

LEMMA SendStatementHeard ==
  ASSUME Typed, Typed', Sound, Heard, SendStatement
  PROVE  Heard'
<1> DEFINE fn == IF Running.binds THEN "PREPARE" ELSE "PREPARE_AND_EXECUTE"
           r == Statement(fn)
           ran(o) == IF Running.binds THEN told[id].ranOn ELSE Place(o)
           escaped == IF Running.escapes /\ ~Running.binds
                        THEN <<cas, backslashModeGeneration>> ELSE told[id].boundOn
<1>1. queue # <<>> /\ queue' = queue BY PcRuns DEF SendStatement
<1>2. id \in Numbers /\ told[id] \in ToldSet /\ told \in Seq(ToldSet) BY <1>1, RunningIs DEF Typed
<1>3. fn \in Functions BY DEF Functions
<1>4. r \in RequestSet(Len(told)) /\ r.id = id /\ (r.writes <=> Running.sql # "select")
  BY <1>1, <1>3, StatementIs, Zenon
<1>5. PICK o \in S!SendAndRecv(session, r) :
        /\ Takes(o)
        /\ told' = [told EXCEPT ![id].within = Transaction, ![id].ranOn = ran(o), ![id].boundOn = escaped]
        /\ CASE o.reply = "lost" -> Throw(o.session, "lost")
             [] o.reply # "lost" /\ (\/ SessionLost(o.session, transactionGeneration')
                                     \/ Ended(o.session, transactionEndReplies'))
                  -> Throw(S!DiscardSession(o.session), "lost")
             [] OTHER ->
                  IF o.reply \notin {"ok", "more"} THEN Throw(o.session, o.reply)
                  ELSE IF Running.binds
                         THEN session' = o.session /\ pc' = "execute" /\ UNCHANGED baseline
                         ELSE UseResult(o.session, o.reply)
  BY DEF SendStatement
<1>6. \/ Throw(o.session, "lost") \/ Throw(S!DiscardSession(o.session), "lost")
      \/ Throw(o.session, o.reply)
      \/ session' = o.session /\ pc' = "execute" /\ UNCHANGED baseline
      \/ UseResult(o.session, o.reply)
  <2> HIDE DEF r, ran, escaped
  <2> QED BY <1>5, Zenon
<1>7. session' = o.session \/ session' = S!DiscardSession(o.session)
  BY <1>6 DEF Throw, UseResult
<1> HIDE DEF fn, r
<1>8. Sent(Len(told), session, r, o) /\ o \in OutcomeSet(Len(told)) BY <1>4, <1>5, <1>7, SentStep
<1>9. Yields(o) BY <1>4, <1>8, StatementRemembered DEF Yields
<1>10. StatementHears(o)
  <2>1. CASE session' = o.session /\ pc' = "execute" /\ UNCHANGED baseline
    BY <2>1 DEF StatementHears
  <2> QED BY <1>6, <1>8, <2>1, ThrowHears, ResultHears
<1> DEFINE w == Transaction
           p == ran(o)
           b == escaped
           t == [told[id] EXCEPT !.within = w, !.ranOn = p, !.boundOn = b]
<1>11. w \in Nat BY WaysAre DEF Transaction
<1>12. p \in Nat \X Nat /\ b \in Nat \X Nat
  BY <1>2, <1>8, PlaceIs DEF ToldSet, Typed, OthersTyped
<1>13. told' = [told EXCEPT ![id].within = w, ![id].ranOn = p, ![id].boundOn = b] BY <1>5
<1> HIDE DEF w, p, b, ran, escaped
<1>14. told' = [told EXCEPT ![id] = t] BY <1>2, <1>13 DEF ToldSet
<1>15. t \in ToldSet /\ t.insertId = told[id].insertId /\ t.author = told[id].author
  BY <1>2, <1>11, <1>12 DEF ToldSet
<1> HIDE DEF t
<1>16. Revised(told', id, t) BY <1>2, <1>14, <1>15, ToldOnce
<1>17. SameIds BY <1>1, <1>15, <1>16, RevisedSameIds
<1> QED BY <1>1, <1>7, <1>8, <1>9, <1>10, <1>17, StatementHeard

-----------------------------------------------------------------------------
(* It is kept by the other calls.                                          *)

LEMMA TurnRuns ==
  ASSUME Typed, Sound, NEW call \in CallNames, Turn(call)
  PROVE  queue # <<>> /\ ~Generating
<1>1. pc = "idle" BY DEF Turn
<1> QED BY <1>1, PcRuns, AtRest

LEMMA BeginRefusedHeard ==
  ASSUME Typed, Typed', Sound, Heard, BeginRefused
  PROVE  Heard'
<1>1. Turn("beginTransaction") /\ session' = session /\ Tell("failed") /\ UNCHANGED baseline
  BY DEF BeginRefused, connection
<1>2. queue # <<>> /\ ~Generating BY <1>1, TurnRuns DEF CallNames
<1> QED BY <1>1, <1>2, SameRemembered, TellsHeard

LEMMA BeginTransactionHeard ==
  ASSUME Typed, Typed', Sound, Heard, BeginTransaction
  PROVE  Heard'
<1>1. PICK o \in S!Connect(session) :
        session' = o.session /\ (Tell("done") \/ Tell("failed"))
  BY DEF BeginTransaction
<1>2. Turn("beginTransaction") /\ UNCHANGED baseline BY DEF BeginTransaction
<1>3. queue # <<>> /\ ~Generating BY <1>2, TurnRuns DEF CallNames
<1>4. Remembers(session, session')
  <2>1. Opens(Len(told), session, o) BY SaneNow, ConnectIs, Zenon
  <2> QED BY <1>1, <2>1, OpensRemembered
<1> QED BY <1>1, <1>2, <1>3, <1>4, TellsHeard

\* A transaction that could not be ended.
LEMMA TransactionFailsHeard ==
  ASSUME Typed, Typed', Heard, queue # <<>>, ~Generating, UNCHANGED baseline,
         NEW s, NEW error, TransactionFails(s, error), Remembers(session, s)
  PROVE  Heard'
<1>1. session' = s /\ Tell("failed") BY DEF TransactionFails
<1> QED BY <1>1, TellsHeard

LEMMA CommitRefusedHeard ==
  ASSUME Typed, Typed', Sound, Heard, CommitRefused
  PROVE  Heard'
<1> DEFINE s == DropIfEnded(session)
<1>1. Turn("commit") /\ TransactionFails(s, "lost") /\ UNCHANGED baseline BY DEF CommitRefused
<1>2. queue # <<>> /\ ~Generating BY <1>1, TurnRuns DEF CallNames
<1>3. Remembers(session, s)
  BY SaneNow, SameRemembered, DiscardRemembered DEF DropIfEnded
<1> HIDE DEF s
<1> QED BY <1>1, <1>2, <1>3, TransactionFailsHeard

LEMMA RollbackRefusedHeard ==
  ASSUME Typed, Typed', Sound, Heard, RollbackRefused
  PROVE  Heard'
<1>1. Turn("rollback") /\ TransactionFails(session, "lost") /\ UNCHANGED baseline
  BY DEF RollbackRefused
<1>2. queue # <<>> /\ ~Generating BY <1>1, TurnRuns DEF CallNames
<1> QED BY <1>1, <1>2, SameRemembered, TransactionFailsHeard

\* The request that ends a transaction, and what is told then.
LEMMA EndsHeard ==
  ASSUME Typed, Typed', Sound, Heard, NEW call \in CallNames, Turn(call), UNCHANGED baseline,
         NEW fn \in Functions, NEW o \in S!SendAndRecv(session, S!Request(fn, Mode)), Takes(o),
         \/ session' = o.session /\ Tell("done")
         \/ TransactionFails(o.session, o.reply)
  PROVE  Heard'
<1>1. queue # <<>> /\ ~Generating BY TurnRuns
<1>2. session' = o.session /\ (Tell("done") \/ Tell("failed")) BY DEF TransactionFails
<1>3. Remembers(session, session') BY <1>2, ModeIs, QuietRemembered
<1> QED BY <1>1, <1>2, <1>3, TellsHeard

LEMMA CommitHeard ==
  ASSUME Typed, Typed', Sound, Heard, Commit
  PROVE  Heard'
<1>1. PICK o \in S!SendAndRecv(session, S!Request("COMMIT", Mode)) :
        /\ Takes(o)
        /\ \/ session' = o.session /\ Tell("done")
           \/ TransactionFails(o.session, o.reply)
  BY DEF Commit
<1>2. Turn("commit") /\ UNCHANGED baseline BY DEF Commit
<1>3. "commit" \in CallNames /\ "COMMIT" \in Functions BY DEF CallNames, Functions
<1> QED BY <1>1, <1>2, <1>3, EndsHeard

LEMMA RollbackHeard ==
  ASSUME Typed, Typed', Sound, Heard, Rollback
  PROVE  Heard'
<1>1. PICK o \in S!SendAndRecv(session, S!Request("ROLLBACK", Mode)) :
        /\ Takes(o)
        /\ \/ session' = o.session /\ Tell("done")
           \/ TransactionFails(o.session, o.reply)
  BY DEF Rollback
<1>2. Turn("rollback") /\ UNCHANGED baseline BY DEF Rollback
<1>3. "rollback" \in CallNames /\ "ROLLBACK" \in Functions BY DEF CallNames, Functions
<1> QED BY <1>1, <1>2, <1>3, EndsHeard

LEMMA CloseHeard ==
  ASSUME Typed, Typed', Sound, Heard, Close
  PROVE  Heard'
<1>1. /\ Turn("close") /\ session' = S!NewSession /\ Tell("done")
      /\ insertIdBaseline' = None /\ insertIdGeneration' = 0
  BY DEF Close
<1>2. queue # <<>> BY <1>1, TurnRuns DEF CallNames
<1>3. TrueInsertId' BY <1>1, <1>2, TellSameIds, IdsStay
<1>4. session'.generation = 0 /\ session'.lastId = 0 BY <1>1, SaneNow, NewSessionIs
<1> QED BY <1>1, <1>3, <1>4, AsksHeard DEF None

\* The operations of the connection and nothing else.
LEMMA OnlyHeard ==
  ASSUME Typed, Typed', Heard, queue # <<>>, ~Generating,
         NEW outcomes, NEW next, Only(outcomes, next),
         \A o \in outcomes : Takes(o) /\ session' = o.session => Remembers(session, session')
  PROVE  Heard'
<1>1. PICK o \in outcomes :
        /\ Takes(o) /\ session' = o.session
        /\ UNCHANGED told \/ Tell("done") \/ Tell("failed")
  BY DEF Only
<1>2. UNCHANGED baseline /\ Remembers(session, session') BY <1>1 DEF Only
<1>3. CASE UNCHANGED told BY <1>2, <1>3, QuietHeard
<1>4. CASE Tell("done") \/ Tell("failed") BY <1>2, <1>4, TellsHeard
<1> QED BY <1>1, <1>3, <1>4

LEMMA ConnectsHeard ==
  ASSUME Typed, NEW o \in S!Connect(session)
  PROVE  Remembers(session, o.session)
<1>1. Opens(Len(told), session, o) BY SaneNow, ConnectIs, Zenon
<1> QED BY <1>1, OpensRemembered

LEMMA ConnectNowHeard ==
  ASSUME Typed, Typed', Sound, Heard, ConnectNow
  PROVE  Heard'
<1>1. Turn("connect") /\ Only(S!Connect(session), "idle") BY DEF ConnectNow
<1>2. queue # <<>> /\ ~Generating BY <1>1, TurnRuns DEF CallNames
<1>3. \A o \in S!Connect(session) : Takes(o) /\ session' = o.session => Remembers(session, session')
  BY ConnectsHeard
<1> QED BY <1>1, <1>2, <1>3, OnlyHeard

LEMMA PingConnectsHeard ==
  ASSUME Typed, Typed', Sound, Heard, PingConnects
  PROVE  Heard'
<1> DEFINE next == IF autoCommit THEN "version" ELSE "checkCas"
<1>1. Turn("ping") /\ Only(S!Connect(session), next) BY DEF PingConnects
<1>2. queue # <<>> /\ ~Generating BY <1>1, TurnRuns DEF CallNames
<1>3. \A o \in S!Connect(session) : Takes(o) /\ session' = o.session => Remembers(session, session')
  BY ConnectsHeard
<1> HIDE DEF next
<1> QED BY <1>1, <1>2, <1>3, OnlyHeard

LEMMA PingHeard ==
  ASSUME Typed, Typed', Sound, Heard, PingChecksCas \/ PingReadsVersion
  PROVE  Heard'
<1>1. PICK fn \in Functions, next \in {"idle", "version"} :
        Only(S!SendAndRecv(session, S!Request(fn, Mode)), next)
  BY DEF PingChecksCas, PingReadsVersion, Functions
<1>2. pc \in {"checkCas", "version"} BY DEF PingChecksCas, PingReadsVersion
<1>3. queue # <<>> /\ ~Generating BY <1>2, PcRuns, AtRest
<1> DEFINE outcomes == S!SendAndRecv(session, S!Request(fn, Mode))
<1>4. \A o \in outcomes : Takes(o) /\ session' = o.session => Remembers(session, session')
  BY ModeIs, QuietRemembered
<1>5. Only(outcomes, next) BY <1>1
<1> HIDE DEF outcomes
<1> QED BY <1>3, <1>4, <1>5, OnlyHeard

LEMMA SetTransactionOptionsHeard ==
  ASSUME Typed, Typed', Sound, Heard, SetTransactionOptions
  PROVE  Heard'
<1> DEFINE outcomes == IF ~autoCommit THEN {S!Outcome(session, "lost", {}, FALSE)}
                       ELSE IF cas = 0 THEN {S!Outcome(session, "ok", {}, FALSE)}
                       ELSE S!SetSessionParameters(session)
<1>1. Turn("setTransactionOptions") /\ Only(outcomes, "idle") BY DEF SetTransactionOptions
<1>2. queue # <<>> /\ ~Generating BY <1>1, TurnRuns DEF CallNames
<1>3. ASSUME NEW o \in outcomes PROVE Remembers(session, o.session)
  <2>1. CASE \E reply \in {"lost", "ok"} : o = S!Outcome(session, reply, {}, FALSE)
    <3>1. o.session = session BY <2>1 DEF S!Outcome
    <3> QED BY <3>1, SameRemembered
  <2>2. CASE o \in S!SetSessionParameters(session)
    <3>1. Applies(Len(told), session, o) BY <2>2, SaneNow, SetParametersIs, Zenon
    <3> QED BY <3>1, OpensRemembered
  <2> QED BY <1>3, <2>1, <2>2
<1>4. \A o \in outcomes : Takes(o) /\ session' = o.session => Remembers(session, session')
  BY <1>3
<1> HIDE DEF outcomes
<1> QED BY <1>1, <1>2, <1>4, OnlyHeard

LEMMA CasGoesHeard ==
  ASSUME Typed, Typed', Heard, CasGoes
  PROVE  Heard'
<1>1. /\ session' \in S!Leaves(session) \cup S!Crashes(session)
      /\ UNCHANGED <<baseline, queue, pc, failure, told>>
  BY DEF CasGoes, locals
<1>2. Goes(Len(told), session, session') BY <1>1, SaneNow, GoesIs, Zenon
<1>3. Remembers(session, session') BY <1>2 DEF Goes, Remembers
<1>4. Generating => Carries BY <1>1 DEF Carries, Generating, Running, id
<1> QED BY <1>1, <1>3, <1>4, UntoldSameIds, KeepsHeard

LEMMA CallHeard ==
  ASSUME Typed, Typed', Heard, NEW c \in workload.calls, Call(c)
  PROVE  Heard'
<1>0. Queues BY CallQueues
<1>1. SameIds BY <1>0, CallIs DEF Queues, SameIds
<1>2. UNCHANGED baseline BY DEF Call
<1>3. session' = session /\ pc' = pc /\ failure' = failure BY <1>0 DEF Queues, locals
<1>4. queue # <<>> => queue' # <<>> /\ id' = id /\ Running' = Running
  <2>1. Len(queue') # 0 BY CallIs
  <2>2. queue' # <<>> BY <2>1, EmptySeq
  <2> QED BY <1>0, <2>2 DEF Queues
<1>5. Generating => Carries BY <1>3, <1>4 DEF Carries, Generating
<1> QED BY <1>1, <1>2, <1>3, <1>5, SameRemembered, KeepsHeard

-----------------------------------------------------------------------------
(* The theorem about generated ids.                                        *)

LEMMA EveryStepHeard ==
  ASSUME Typed, Typed', Sound, Heard, Prepares \/ Runs \/ EndsOrBegins \/ Other \/ CasGoes
  PROVE  Heard'
<1>1. CASE Prepares
  BY <1>1, BeginExecuteHeard, BaselineRefusedHeard, BaselineUnreadHeard, ReadBaselineHeard,
     StartRefusedHeard, EnsureSessionHeard, ProbeModeHeard, ReleaseProbeHeard DEF Prepares
<1>2. CASE Runs
  BY <1>2, SendStatementHeard, MarkersMismatchHeard, ExecuteHandleHeard, FetchWindowHeard,
     ReadInsertIdHeard, CommitStatementHeard, ReleaseHandleHeard, UndoStatementHeard DEF Runs
<1>3. CASE EndsOrBegins
  BY <1>3, BeginRefusedHeard, BeginTransactionHeard, CommitRefusedHeard, CommitHeard,
     RollbackRefusedHeard, RollbackHeard DEF EndsOrBegins
<1>4. CASE Other
  BY <1>4, CloseHeard, ConnectNowHeard, PingConnectsHeard, PingHeard, SetTransactionOptionsHeard
     DEF Other
<1> QED BY <1>1, <1>2, <1>3, <1>4, CasGoesHeard

LEMMA InitHeard ==
  ASSUME Init
  PROVE  Heard
<1>1. /\ session = S!NewSession /\ insertIdBaseline = None /\ insertIdGeneration = 0 /\ told = <<>>
  BY DEF Init
<1>2. session.generation = 0 /\ session.lastId = 0 BY <1>1, NewSessionIs
<1>3. Numbers = {} BY <1>1 DEF Numbers
<1> QED BY <1>1, <1>2, <1>3 DEF Heard, Baseline, None, TrueInsertId

LEMMA NextHeard ==
  ASSUME Typed, Typed', Sound, Heard, [Next]_vars
  PROVE  Heard'
<1>1. CASE UNCHANGED vars
  <2>1. UNCHANGED <<session, baseline, queue, pc, failure, told>>
    BY <1>1 DEF vars, connection, locals
  <2>2. Generating => Carries BY <2>1 DEF Carries, Generating, Running, id
  <2> QED BY <2>1, <2>2, SameRemembered, UntoldSameIds, KeepsHeard
<1>2. CASE Next
  <2>1. CASE \E c \in workload.calls : Call(c) BY <2>1, CallHeard
  <2>2. CASE Prepares \/ Runs \/ EndsOrBegins \/ Other \/ CasGoes BY <2>2, EveryStepHeard
  <2> QED BY <1>2, <2>1, <2>2 DEF Next
<1> QED BY <1>1, <1>2

(* An id that execute() reports was generated by the statement it is         *)
(* reported for, whatever ran on the session before, whatever replies were   *)
(* lost and however often the session was replaced: the value remembered is  *)
(* always the session's last one, unless the running statement made another  *)
(* (readExecuteResult, forgetInsertId, followInsertIdSession in native.ts).  *)
THEOREM InsertIdsAreTrue == Spec => []TrueInsertId
<1>1. Init => Typed /\ Behind /\ Sound /\ Heard BY InitTyped, InitSound, InitHeard
<1>2. (Typed /\ Behind /\ Sound /\ Heard) /\ [Next]_vars => (Typed /\ Behind /\ Sound /\ Heard)'
  <2> SUFFICES ASSUME Typed, Behind, Sound, Heard, [Next]_vars
               PROVE  (Typed /\ Behind /\ Sound /\ Heard)'
    OBVIOUS
  <2>1. Typed' /\ Behind' BY NextTyped
  <2> QED BY <2>1, NextSound, NextHeard
<1>3. Heard => TrueInsertId BY DEF Heard
<1> QED BY <1>1, <1>2, <1>3, PTL DEF Spec

-----------------------------------------------------------------------------
(* The invariant behind where statements run.                              *)

Transacts == \E c \in workload.calls : c.call = "beginTransaction"
Probes == \E c \in workload.calls : c.escapes

\* A statement that was not sent ran nowhere.
Untouched == \A i \in Unsent : told[i].ranOn = Nowhere /\ told[i].boundOn = Nowhere

\* Only what the workload has is asked for.
Called ==
  /\ \A k \in 1..Len(queue) :
       /\ queue[k].escapes => Probes
       /\ queue[k].call = "beginTransaction" => Transacts
  /\ ~autoCommit => Transacts

\* The session was verified for the statement that is about to be sent: no request
\* up to the statement's own replaces it.
Checked == pc \in {"mode", "send"} \/ (pc = "releaseProbe" /\ failure = "none")
Ready ==
  Checked =>
    /\ Verified(session)
    /\ ~autoCommit /\ bound # 0 => session.generation = bound
    /\ pc # "send" => Running.escapes /\ ~Running.binds
    /\ pc = "releaseProbe" => generation = session.generation /\ (session.up => session.open)
    /\ pc = "send" /\ Running.escapes /\ ~Running.binds =>
         backslashModeGeneration = session.generation

\* A verification has no reason to replace the session.
Inside(s) == ~s.outOfTransaction /\ (s.up => s.open)

\* The session of a transaction that has not ended is inside of it.
StillIn ==
  /\ ~autoCommit /\ bound # 0 /\ session.connected /\ session.generation = bound
  /\ session.outOfTransactionReplies = endReplies
  => Inside(session)

\* The answer of the first statement was lost, and its transaction is not bound yet.
Unbound ==
  /\ bound = 0 /\ queue # <<>> /\ pc \in {"release", "undo"} /\ failure # "none"
  /\ ~session.connected /\ session.generation # 0

\* What ran in the open transaction ran on its session.
Placed ==
  ~autoCommit =>
    \A i \in Numbers : told[i].within = Transaction /\ told[i].ranOn # Nowhere =>
      \/ bound # 0 /\ told[i].ranOn = <<cas, bound>>
      \/ Unbound /\ i = id /\ told[i].ranOn = <<cas, session.generation>>

\* A statement that is prepared with markers has no escaped text.
ToBind == pc = "execute" => told[id].boundOn = Nowhere

Located ==
  /\ Untouched /\ Called /\ Ready /\ StillIn /\ Placed /\ ToBind
  /\ OneSession /\ EscapedForItsSession

-----------------------------------------------------------------------------
(* A step that runs no statement.                                          *)

\* If t is still session s, in the same transaction, a transaction is as open there.
Keeps(s, t) ==
  /\ s.generation \leq t.generation /\ s.outOfTransactionReplies \leq t.outOfTransactionReplies
  /\ /\ t.connected /\ t.generation = s.generation
     /\ t.outOfTransactionReplies = s.outOfTransactionReplies
     => s.connected /\ (Inside(s) => Inside(t))

\* The calls in the queue, and the histories of where statements ran.
InPlace ==
  /\ UNCHANGED workload
  /\ \/ queue' = queue /\ (pc' \in Late <=> pc \in Late)
     \/ queue # <<>> /\ queue' = Tail(queue) /\ pc' = "idle"
  /\ pc' = "execute" => pc = "execute"
  /\ Len(told') = Len(told)
  /\ \A i \in Numbers :
       /\ told'[i].within = told[i].within /\ told'[i].ranOn = told[i].ranOn
       /\ told'[i].boundOn = told[i].boundOn

\* An open transaction is as it was, or is bound to the session it lost.
Proceeds ==
  /\ ~autoCommit /\ Len(transactions') = Len(transactions)
  /\ cas' = cas /\ endReplies' = endReplies
  /\ Keeps(session, session')
  /\ bound # 0 => bound' = bound
  /\ bound' # bound => ~session'.connected
  /\ Unbound =>
       \/ bound' = session.generation
       \/ Unbound' /\ queue' = queue /\ session'.generation = session.generation

LEMMA InPlaceIs ==
  ASSUME Typed, InPlace
  PROVE  /\ Numbers' = Numbers /\ Unsent' \subseteq Unsent /\ Unsent \subseteq Numbers
         /\ \A k \in 1..Len(queue') : \E j \in 1..Len(queue) : queue'[k] = queue[j]
         /\ pc' # "idle" => queue' = queue /\ id' = id /\ Running' = Running
<1>1. Numbers' = Numbers BY DEF InPlace, Numbers
<1>2. \A i \in 1..Len(queue) : queue[i].id \in Numbers BY DEF Typed, InOrder, Numbers
<1>3. Len(queue) \in Nat BY DEF Typed
<1>4. Waiting \subseteq Pending /\ Pending \subseteq Numbers BY <1>2, <1>3 DEF Waiting, Pending
<1>5. CASE queue' = queue /\ (pc' \in Late <=> pc \in Late)
  <2>1. Waiting' = Waiting /\ Pending' = Pending BY <1>5 DEF Waiting, Pending
  <2> QED BY <1>1, <1>4, <1>5, <2>1 DEF Unsent, id, Running
<1>6. CASE queue # <<>> /\ queue' = Tail(queue) /\ pc' = "idle"
  <2>1. /\ Len(queue') = Len(queue) - 1
        /\ \A i \in 1..Len(queue') : queue'[i] = queue[i + 1] /\ i + 1 \in 1..Len(queue)
    BY <1>6, TailIs
  <2>2. Unsent' = {queue'[i].id : i \in 1..Len(queue')} BY <1>6 DEF Unsent, Pending, Late
  <2>3. ASSUME NEW i \in 1..Len(queue') PROVE queue'[i].id \in Waiting
    <3>1. i + 1 \in 2..Len(queue) BY <1>3, <2>1
    <3> QED BY <2>1, <3>1 DEF Waiting
  <2> QED BY <1>1, <1>4, <1>6, <2>1, <2>2, <2>3 DEF Unsent
<1> QED BY <1>5, <1>6 DEF InPlace

LEMMA RestsPlaced ==
  ASSUME Typed, Typed', Sound, Located, InPlace, Proceeds, ~autoCommit'
  PROVE  StillIn' /\ Placed'
<1>1. Numbers' = Numbers /\ Transaction' = Transaction
  BY InPlaceIs DEF Proceeds, Transaction
<1>2. /\ ~autoCommit /\ bound \leq session.generation /\ endReplies \leq session.outOfTransactionReplies
      /\ bound \in Nat /\ endReplies \in Nat \cup {-1}
      /\ session.generation \in Nat /\ session.outOfTransactionReplies \in Nat
  BY SaneNow DEF Sound, Known, bound, endReplies, Proceeds, TransactionTyped
<1>3. session'.generation \in Nat /\ session'.outOfTransactionReplies \in Nat
  BY DEF Typed, Sane, SessionSet
<1>4. StillIn'
  <2> SUFFICES ASSUME bound' # 0, session'.connected, session'.generation = bound',
                      session'.outOfTransactionReplies = endReplies'
               PROVE  Inside(session')
    BY DEF StillIn
  <2>1. bound' = bound /\ endReplies' = endReplies BY DEF Proceeds
  <2>2. /\ session'.generation = session.generation
        /\ session'.outOfTransactionReplies = session.outOfTransactionReplies
    BY <1>2, <1>3, <2>1 DEF Proceeds, Keeps
  <2> QED BY <1>2, <2>1, <2>2 DEF Proceeds, Keeps, Located, StillIn
<1>5. ASSUME NEW i \in Numbers, told[i].within = Transaction, told[i].ranOn # Nowhere
      PROVE  \/ bound' # 0 /\ told[i].ranOn = <<cas, bound'>>
             \/ Unbound' /\ i = id' /\ told[i].ranOn = <<cas, session'.generation>>
  <2>1. CASE bound # 0 /\ told[i].ranOn = <<cas, bound>> BY <2>1 DEF Proceeds
  <2>2. CASE Unbound /\ i = id /\ told[i].ranOn = <<cas, session.generation>>
    <3>1. session.generation # 0 BY <2>2 DEF Unbound
    <3>2. queue' = queue => id' = id BY DEF id, Running
    <3> QED BY <2>2, <3>1, <3>2 DEF Proceeds
  <2> QED BY <1>2, <1>5, <2>1, <2>2 DEF Located, Placed
<1>6. Placed'
  BY <1>1, <1>5 DEF Placed, InPlace, Proceeds
<1> QED BY <1>4, <1>6

\* Where statements ran, and what they were escaped for, stays.
LEMMA InPlaceStays ==
  ASSUME Typed, Located, InPlace
  PROVE  Untouched' /\ ToBind' /\ OneSession' /\ EscapedForItsSession'
<1>1. /\ Numbers' = Numbers /\ Unsent' \subseteq Unsent /\ Unsent \subseteq Numbers
      /\ pc' # "idle" => queue' = queue /\ id' = id /\ Running' = Running
      /\ \A i \in Numbers :
           /\ told'[i].within = told[i].within /\ told'[i].ranOn = told[i].ranOn
           /\ told'[i].boundOn = told[i].boundOn
  BY InPlaceIs DEF InPlace
<1>2. Untouched' BY <1>1 DEF Located, Untouched
<1>3. ToBind'
  <2> SUFFICES ASSUME pc' = "execute" PROVE told'[id'].boundOn = Nowhere
    BY DEF ToBind
  <2>1. pc = "execute" /\ id' = id BY <1>1 DEF InPlace
  <2>2. id \in Numbers BY <2>1, PcRuns, RunningIs
  <2> QED BY <1>1, <2>1, <2>2 DEF Located, ToBind
<1>4. OneSession'
  <2> SUFFICES ASSUME NEW i \in Numbers, NEW j \in Numbers,
                      told'[i].within # 0, told'[i].within = told'[j].within,
                      told'[i].ranOn # Nowhere, told'[j].ranOn # Nowhere
               PROVE  told'[i].ranOn = told'[j].ranOn
    BY <1>1, Zenon DEF OneSession, Nowhere
  <2>1. /\ told[i].within # 0 /\ told[i].within = told[j].within
        /\ told[i].ranOn # Nowhere /\ told[j].ranOn # Nowhere
    BY <1>1, Zenon
  <2>2. told[i].ranOn = told[j].ranOn BY <2>1, Zenon DEF Located, OneSession
  <2> QED BY <1>1, <2>2, Zenon
<1>5. EscapedForItsSession' BY <1>1, Zenon DEF Located, EscapedForItsSession, Nowhere
<1> QED BY <1>2, <1>3, <1>4, <1>5

LEMMA RestsLocated ==
  ASSUME Typed, Typed', Sound, Located, InPlace, ~autoCommit' => Proceeds, Ready'
  PROVE  Located'
<1>1. Untouched' /\ ToBind' /\ OneSession' /\ EscapedForItsSession' BY InPlaceStays
<1>2. Called'
  <2>1. \A k \in 1..Len(queue') : \E j \in 1..Len(queue) : queue'[k] = queue[j] BY InPlaceIs
  <2>2. Transacts' = Transacts /\ Probes' = Probes BY DEF Transacts, Probes, InPlace
  <2> QED BY <2>1, <2>2 DEF Located, Called, Proceeds
<1>3. StillIn' /\ Placed'
  <2>1. CASE autoCommit' BY <2>1 DEF StillIn, Placed
  <2>2. CASE ~autoCommit' BY <2>2, RestsPlaced
  <2> QED BY <2>1, <2>2
<1> QED BY <1>1, <1>2, <1>3 DEF Located

\* The operations of the connection, but the end of a transaction.
LEMMA KeepsSame ==
  ASSUME NEW n, NEW s \in SessionSet(n)
  PROVE  Keeps(s, s)
BY DEF Keeps, SessionSet

LEMMA KeepsDiscarded ==
  ASSUME NEW n \in Nat, NEW s, NEW t \in SessionSet(n), Keeps(s, t)
  PROVE  Keeps(s, S!DiscardSession(t))
BY DiscardedIs DEF Keeps, Dropped

LEMMA LeftKeeps ==
  ASSUME Typed, NEW o \in OutcomeSet(Len(told)), Keeps(session, o.session),
         session' = o.session \/ session' = S!DiscardSession(o.session)
  PROVE  Keeps(session, session')
<1>1. Len(told) \in Nat /\ o.session \in SessionSet(Len(told)) BY SaneNow DEF OutcomeSet
<1> QED BY <1>1, KeepsDiscarded

LEMMA OpensKeeps ==
  ASSUME Typed, NEW o, Opens(Len(told), session, o)
  PROVE  Keeps(session, o.session)
BY SaneNow DEF Opens, Same, Fresh, Keeps, Inside

LEMMA GoesKeeps ==
  ASSUME Typed, Goes(Len(told), session, session')
  PROVE  Keeps(session, session')
BY SaneNow DEF Goes, Keeps, Inside

\* A reply to a request in a transaction leaves a transaction open, or says that it is over.
LEMMA AnsweredKeeps ==
  ASSUME Typed, NEW r, r.mode = "transaction", r.fn \notin {"COMMIT", "ROLLBACK"}, NEW o,
         Answered(session, r, o), Sane(Len(told), o.session), session.up, Inside(session),
         o.session.outOfTransactionReplies = session.outOfTransactionReplies
  PROVE  Inside(o.session)
<1>1. ~Gone(session, r, o) BY SaneNow DEF Gone
<1>2. Works(session, r, o) BY <1>1 DEF Answered, Effect
<1> QED BY <1>2 DEF Works, Inside, Sane

LEMMA SentKeeps ==
  ASSUME Typed, NEW r, r.mode = "transaction", r.fn \notin {"COMMIT", "ROLLBACK"}, NEW g, NEW o,
         \/ Sent(Len(told), session, r, o)
         \/ Absent(Len(told), session, g, o)
         \/ Exchanged(Len(told), session, r, o) /\ session.connected
  PROVE  Keeps(session, o.session)
<1>1. CASE Absent(Len(told), session, g, o) BY <1>1, SaneNow, KeepsSame DEF Absent
<1>2. CASE \/ Sent(Len(told), session, r, o)
           \/ Exchanged(Len(told), session, r, o) /\ session.connected
  <2>1. /\ session.generation \leq o.session.generation
        /\ session.outOfTransactionReplies \leq o.session.outOfTransactionReplies
        /\ Sane(Len(told), o.session)
        /\ Answered(session, r, o) \/ Unread(session, r, o)
        /\ o.ran => session.connected /\ (o.session.generation = session.generation => session.up)
    BY <1>2, SaneNow DEF Sent, Exchanged, Later
  <2>2. CASE Unread(session, r, o) BY <2>1, <2>2 DEF Unread, Keeps
  <2>3. CASE Answered(session, r, o)
    <3>1. o.ran BY <2>3 DEF Answered
    <3> QED BY <2>1, <2>3, <3>1, AnsweredKeeps DEF Keeps
  <2> QED BY <2>1, <2>2, <2>3
<1> QED BY <1>1, <1>2

LEMMA RequestKeeps ==
  ASSUME Typed, ~autoCommit, NEW fn \in Functions \ {"COMMIT", "ROLLBACK"},
         NEW o \in S!SendAndRecv(session, S!Request(fn, Mode)), Takes(o),
         session' = o.session \/ session' = S!DiscardSession(o.session)
  PROVE  Keeps(session, session')
<1> DEFINE r == S!Request(fn, Mode)
<1>1. r \in RequestSet(Len(told)) /\ r.fn = fn /\ r.mode = "transaction"
  BY SaneNow, ModeIs, RequestIs
<1>2. o \in S!SendAndRecv(session, r) OBVIOUS
<1> HIDE DEF r
<1>3. Sent(Len(told), session, r, o) /\ o \in OutcomeSet(Len(told)) BY <1>1, <1>2, SentStep
<1>4. Keeps(session, o.session) BY <1>1, <1>3, SentKeeps
<1> QED BY <1>3, <1>4, LeftKeeps

LEMMA OnSessionKeeps ==
  ASSUME Typed, ~autoCommit, NEW fn \in Functions \ {"COMMIT", "ROLLBACK"}, NEW g,
         NEW counted \in BOOLEAN,
         NEW o \in S!OnSession(session, g, S!Request(fn, Mode), counted), Takes(o),
         session' = o.session \/ session' = S!DiscardSession(o.session)
  PROVE  Keeps(session, session')
<1> DEFINE r == S!Request(fn, Mode)
<1>1. r \in RequestSet(Len(told)) /\ r.fn = fn /\ r.mode = "transaction"
  BY SaneNow, ModeIs, RequestIs
<1>2. o \in S!OnSession(session, g, r, counted) OBVIOUS
<1> HIDE DEF r
<1>3. /\ o \in OutcomeSet(Len(told))
      /\ \/ Absent(Len(told), session, g, o)
         \/ Exchanged(Len(told), session, r, o) /\ session.connected
  BY <1>1, <1>2, OnSessionStep
<1>4. Keeps(session, o.session) BY <1>1, <1>3, SentKeeps
<1> QED BY <1>3, <1>4, LeftKeeps

-----------------------------------------------------------------------------
(* What the actions are made of, as the invariant needs it.                *)

LEMMA TellPlaces ==
  ASSUME Typed, queue # <<>>, NEW status \in {"done", "failed"}, Tell(status), UNCHANGED workload
  PROVE  InPlace /\ pc' = "idle"
<1> DEFINE t == [told[id] EXCEPT !.status = status]
<1>1. id \in Numbers /\ told[id] \in ToldSet /\ told \in Seq(ToldSet) BY RunningIs DEF Typed
<1>2. /\ t \in ToldSet /\ t.within = told[id].within /\ t.ranOn = told[id].ranOn
      /\ t.boundOn = told[id].boundOn
  BY <1>1 DEF ToldSet
<1>3. told' = [told EXCEPT ![id] = t] BY <1>1 DEF Tell, ToldSet
<1> HIDE DEF t
<1>4. Revised(told', id, t) BY <1>1, <1>2, <1>3, ToldOnce
<1> QED BY <1>2, <1>4 DEF Tell, InPlace, Revised

LEMMA UntoldPlaces ==
  ASSUME Typed, UNCHANGED <<workload, queue, told>>, pc' \in Late <=> pc \in Late,
         pc' = "execute" => pc = "execute"
  PROVE  InPlace
BY DEF InPlace

\* The connection object in use stays.
LEMMA CasSame ==
  ASSUME Sound, GetOrCreateCAS \/ UNCHANGED <<cas, created>>
  PROVE  ~autoCommit => cas' = cas
BY DEF Sound, Known, GetOrCreateCAS

LEMMA NotChecked ==
  ASSUME ~Checked'
  PROVE  Ready'
BY DEF Ready

\* The transaction is the same, and the answer of its first statement was not lost.
LEMMA SameProceeds ==
  ASSUME ~autoCommit, UNCHANGED <<transaction, transactions>>, cas' = cas, Keeps(session, session'),
         Unbound => queue' = queue /\ pc' \in {"release", "undo"} /\ failure' # "none"
                    /\ session' = session
  PROVE  Proceeds
BY DEF Proceeds, transaction, bound, endReplies, Unbound

\* A step that leaves the transaction alone.
LEMMA QuietlyLocated ==
  ASSUME Typed, Typed', Sound, Located, InPlace, UNCHANGED <<transaction, transactions>>,
         GetOrCreateCAS \/ UNCHANGED <<cas, created>>,
         ~autoCommit => Keeps(session, session'), ~Unbound, Ready'
  PROVE  Located'
<1>1. ~autoCommit' => Proceeds BY CasSame, SameProceeds DEF transaction
<1> QED BY <1>1, RestsLocated

\* A statement fails: a transaction that lost its first answer is bound to that session.
LEMMA FailsLocated ==
  ASSUME Typed, Typed', Sound, Located, UNCHANGED <<workload, transactions>>, queue # <<>>,
         GetOrCreateCAS \/ UNCHANGED <<cas, created>>,
         NEW error, StatementFails(session', error),
         ~autoCommit => Keeps(session, session'), ~autoCommit /\ Unbound => session' = session
  PROVE  Located'
<1>1. InPlace /\ pc' = "idle" BY TellPlaces DEF StatementFails
<1>2. Ready' BY <1>1, NotChecked DEF Checked
<1>3. ASSUME ~autoCommit' PROVE Proceeds
  <2>1. /\ autoCommit' = autoCommit /\ endReplies' = endReplies
        /\ bound' = IF ~autoCommit /\ bound = 0 /\ ~session'.connected THEN session'.generation
                                                                       ELSE bound
    BY DEF StatementFails, BindLostSession, bound, endReplies
  <2>2. cas' = cas BY <1>3, <2>1, CasSame
  <2> QED BY <1>3, <2>1, <2>2 DEF Proceeds, Unbound
<1> QED BY <1>1, <1>2, <1>3, RestsLocated

-----------------------------------------------------------------------------
(* It is kept: from the start of a statement to sending it.                *)

LEMMA BeginExecuteLocated ==
  ASSUME Typed, Typed', Sound, Located, UNCHANGED workload, BeginExecute
  PROVE  Located'
<1>1. /\ pc = "idle" /\ pc' \in {"baseline", "start"} /\ session' = session
      /\ UNCHANGED <<queue, told, transaction, transactions>> /\ GetOrCreateCAS
  BY DEF BeginExecute, Turn
<1>2. InPlace BY <1>1, UntoldPlaces DEF Late
<1>3. ~Unbound /\ Ready' BY <1>1, NotChecked DEF Unbound, Checked
<1> QED BY <1>1, <1>2, <1>3, SaneNow, KeepsSame, QuietlyLocated

LEMMA BaselineRefusedLocated ==
  ASSUME Typed, Typed', Sound, Located, UNCHANGED workload, BaselineRefused
  PROVE  Located'
<1>1. /\ session' = session /\ StatementFails(session, "lost") /\ queue # <<>>
      /\ UNCHANGED <<cas, created, transactions>>
  BY PcRuns DEF BaselineRefused
<1> QED BY <1>1, SaneNow, KeepsSame, FailsLocated

LEMMA BaselineUnreadLocated ==
  ASSUME Typed, Typed', Sound, Located, UNCHANGED workload, BaselineUnread
  PROVE  Located'
<1>1. /\ pc = "baseline" /\ pc' = "start" /\ session' = session
      /\ UNCHANGED <<cas, created, queue, told, transaction, transactions>>
  BY DEF BaselineUnread, connection
<1>2. InPlace BY <1>1, UntoldPlaces DEF Late
<1>3. ~Unbound /\ Ready' BY <1>1, NotChecked DEF Unbound, Checked
<1> QED BY <1>1, <1>2, <1>3, SaneNow, KeepsSame, QuietlyLocated

LEMMA ReadBaselineLocated ==
  ASSUME Typed, Typed', Sound, Located, UNCHANGED workload, ReadBaseline
  PROVE  Located'
<1>1. PICK o \in S!SendAndRecv(session, S!Request("GET_LAST_INSERT_ID", Mode)) :
        /\ Takes(o)
        /\ IF o.reply = "ok"
             THEN /\ session' = o.session
                  /\ pc' = "start" /\ UNCHANGED <<transaction, queue, told>>
             ELSE /\ session' = IF o.reply = "malformed" THEN S!DiscardSession(o.session)
                                                         ELSE o.session
                  /\ StatementFails(session', o.reply)
  BY DEF ReadBaseline
<1>2. pc = "baseline" /\ queue # <<>> /\ UNCHANGED <<cas, created, transactions>>
  BY PcRuns DEF ReadBaseline
<1>3. ~Unbound BY <1>2 DEF Unbound
<1>4. session' = o.session \/ session' = S!DiscardSession(o.session) BY <1>1
<1>5. "GET_LAST_INSERT_ID" \in Functions \ {"COMMIT", "ROLLBACK"} BY DEF Functions
<1>6. ~autoCommit => Keeps(session, session') BY <1>1, <1>4, <1>5, RequestKeeps
<1>7. CASE o.reply = "ok"
  <2>1. pc' = "start" /\ UNCHANGED <<transaction, queue, told>> BY <1>1, <1>7
  <2>2. InPlace /\ Ready' BY <1>2, <2>1, UntoldPlaces, NotChecked DEF Late, Checked
  <2> QED BY <1>2, <1>3, <1>6, <2>1, <2>2, QuietlyLocated
<1>8. CASE o.reply # "ok"
  <2>1. StatementFails(session', o.reply) BY <1>1, <1>8
  <2> QED BY <1>2, <1>3, <1>6, <2>1, FailsLocated
<1> QED BY <1>7, <1>8

LEMMA DropKeeps ==
  ASSUME Typed
  PROVE  Keeps(session, DropIfEnded(session))
BY SaneNow, KeepsSame, KeepsDiscarded DEF DropIfEnded

LEMMA StartRefusedLocated ==
  ASSUME Typed, Typed', Sound, Located, UNCHANGED workload, StartRefused
  PROVE  Located'
<1>1. /\ AtStart /\ session' = DropIfEnded(session) /\ StatementFails(session', "lost")
      /\ GetOrCreateCAS /\ UNCHANGED transactions
  BY DEF StartRefused
<1>2. queue # <<>> /\ ~Unbound BY <1>1, AtStartIs DEF AtStart, Turn, Unbound
<1> QED BY <1>1, <1>2, DropKeeps, FailsLocated

\* A statement that is let through has the session of its transaction, still inside of it.
LEMMA LetThrough ==
  ASSUME Typed, Sound, Located, DropIfEnded(session) = session, ~autoCommit, bound # 0,
         ~SessionLost(session, transactionGeneration)
  PROVE  session.connected /\ session.generation = bound /\ ~session.outOfTransaction
<1>1. session.connected /\ session.generation = bound BY DEF SessionLost, bound
<1>2. ~TransactionEnded(session)
  <2>1. ~S!DiscardSession(session).connected BY SaneNow, DiscardedIs DEF Dropped
  <2> QED BY <1>1, <2>1 DEF DropIfEnded
<1>3. endReplies # -1 BY <1>1 DEF Sound, Known
<1>4. session.outOfTransactionReplies = endReplies
  BY <1>2, <1>3 DEF TransactionEnded, Ended, endReplies
<1> QED BY <1>1, <1>4 DEF Located, StillIn, Inside

LEMMA EnsureSessionLocated ==
  ASSUME Typed, Typed', Sound, Located, UNCHANGED workload, EnsureSession
  PROVE  Located'
<1>1. PICK o \in S!EnsureSession(session) :
        /\ Takes(o) /\ session' = o.session
        /\ IF o.reply = "ok"
             THEN /\ pc' = IF ~Running.binds /\ Running.escapes
                              /\ backslashModeGeneration # o.session.generation
                             THEN "mode" ELSE "send"
                  /\ UNCHANGED <<transaction, queue, told>>
             ELSE StatementFails(o.session, "lost")
  BY DEF EnsureSession
<1>2. /\ AtStart /\ queue # <<>> /\ pc \notin Late /\ GetOrCreateCAS
      /\ UNCHANGED <<backslashModeGeneration, transactions>>
      /\ DropIfEnded(session) = session /\ ~SessionLost(session, transactionGeneration)
  BY AtStartIs DEF EnsureSession
<1>3. ~Unbound BY <1>2 DEF AtStart, Turn, Unbound
<1>4. /\ Opens(Len(told), session, o)
      /\ o.reply = "ok" => o.session.connected /\ Verified(o.session)
  BY SaneNow, EnsureIs, Zenon
<1>5. Keeps(session, session') BY <1>1, <1>4, OpensKeeps
<1>6. CASE o.reply = "ok"
  <2>1. /\ pc' = IF ~Running.binds /\ Running.escapes
                    /\ backslashModeGeneration # o.session.generation
                   THEN "mode" ELSE "send"
        /\ UNCHANGED <<transaction, queue, told>>
    BY <1>1, <1>6
  <2>2. Running' = Running BY <2>1 DEF Running
  <2>3. InPlace
    <3>1. pc' \notin Late BY <2>1 DEF Late
    <3> QED BY <1>2, <2>1, <3>1, UntoldPlaces DEF Late
  <2>4. ~autoCommit /\ bound # 0 => session'.generation = bound
    <3> SUFFICES ASSUME ~autoCommit, bound # 0 PROVE session'.generation = bound
      OBVIOUS
    <3>1. session.connected /\ session.generation = bound /\ ~session.outOfTransaction
      BY <1>2, LetThrough
    <3> QED BY <1>1, <1>4, <3>1 DEF Opens, Same, Fresh
  <2>5. Ready'
    <3>1. Verified(session') BY <1>1, <1>4, <1>6
    <3>2. autoCommit' = autoCommit /\ bound' = bound BY <2>1 DEF transaction, bound
    <3>3. pc' # "send" => pc' = "mode" /\ Running.escapes /\ ~Running.binds BY <2>1
    <3>4. /\ pc' = "send" /\ Running.escapes /\ ~Running.binds
          => backslashModeGeneration' = session'.generation
      BY <1>1, <1>2, <2>1
    <3> QED BY <2>2, <2>4, <3>1, <3>2, <3>3, <3>4 DEF Ready
  <2> QED BY <1>2, <1>3, <1>5, <2>1, <2>3, <2>5, QuietlyLocated
<1>7. CASE o.reply # "ok"
  <2>1. StatementFails(session', "lost") BY <1>1, <1>7
  <2> QED BY <1>2, <1>3, <1>5, <2>1, FailsLocated
<1> QED BY <1>6, <1>7

\* The probe is none of a transaction that a server may end unasked.
LEMMA ProbeStays ==
  ASSUME ProbesEndNothing, Typed, Located, queue # <<>>, Running.escapes, ~autoCommit,
         NEW r, NEW o
  PROVE  ~Gone(session, r, o)
<1>1. Running = queue[1] /\ 1 \in 1..Len(queue) BY RunningIs
<1>2. Probes /\ Transacts BY <1>1 DEF Located, Called
<1>3. workload \in Workloads BY DEF Typed
<1>4. ~EndsUnasked BY <1>2, <1>3 DEF ProbesEndNothing, Probes, Transacts
<1> QED BY <1>4 DEF Gone

LEMMA ProbeModeLocated ==
  ASSUME ProbesEndNothing, Typed, Typed', Sound, Located, UNCHANGED workload, ProbeMode
  PROVE  Located'
<1> DEFINE mode == IF autoCommit THEN "deferred" ELSE Mode
           r == S!Request("PREPARE_AND_EXECUTE", mode)
<1>1. PICK o \in S!SendAndRecv(session, r) :
        /\ Takes(o)
        /\ session' = IF o.reply = "malformed" THEN S!DiscardSession(o.session) ELSE o.session
        /\ failure' \in IF o.reply \in {"ok", "more"} THEN {"none", "error"} ELSE {o.reply}
  BY DEF ProbeMode
<1>2. /\ pc = "mode" /\ pc' = "releaseProbe" /\ queue # <<>> /\ generation' = session.generation
      /\ UNCHANGED <<cas, created, queue, told, transaction, transactions>>
  BY PcRuns DEF ProbeMode
<1>3. ~Unbound /\ InPlace BY <1>2, UntoldPlaces DEF Unbound, Late
<1>4. "PREPARE_AND_EXECUTE" \in Functions \ {"COMMIT", "ROLLBACK"} /\ mode \in S!Modes
  BY ModeIs DEF Functions
<1>5. r \in RequestSet(Len(told)) /\ r.fn = "PREPARE_AND_EXECUTE" /\ r.mode = mode
  <2>1. "PREPARE_AND_EXECUTE" \in Functions /\ Len(told) \in Nat BY <1>4, SaneNow
  <2> HIDE DEF mode
  <2> QED BY <1>4, <2>1, RequestIs, Zenon
<1>6. mode # "autocommit" /\ (mode = "transaction" => ~autoCommit)
  BY ModeIs
<1>7. session' = o.session \/ session' = S!DiscardSession(o.session) BY <1>1
<1>8. ~autoCommit => Keeps(session, session')
  <2>1. ~autoCommit => r = S!Request("PREPARE_AND_EXECUTE", Mode) OBVIOUS
  <2> QED BY <1>1, <1>4, <1>7, <2>1, RequestKeeps
<1> HIDE DEF r, mode
<1>9. Sent(Len(told), session, r, o) /\ o \in OutcomeSet(Len(told)) BY <1>1, <1>5, <1>7, SentStep
<1>10. /\ Verified(session) /\ Running.escapes /\ ~Running.binds
       /\ ~autoCommit /\ bound # 0 => session.generation = bound
  BY <1>2 DEF Located, Ready, Checked
<1>11. Ready'
  <2> SUFFICES ASSUME failure' = "none" PROVE Ready'
    BY <1>2, NotChecked DEF Checked
  <2>1. o.reply \in {"ok", "more"} /\ session' = o.session
    BY <1>1, <1>9 DEF OutcomeSet, Replied
  <2>2. session'.generation = session.generation
    BY <1>9, <1>10, <2>1 DEF Sent, Later, Verified
  <2>3. ~Gone(session, r, o) 
    <3>1. CASE ~autoCommit BY <1>2, <1>10, <3>1, ProbeStays
    <3>2. CASE autoCommit BY <1>5, <1>6, <3>2 DEF Gone
    <3> QED BY <3>1, <3>2
  <2>4. Works(session, r, o)
    BY <1>5, <1>6, <1>9, <2>1, <2>3 DEF Sent, Answered, Unread, Effect
  <2>5. session'.open /\ ~session'.outOfTransaction
    BY <1>5, <1>9, <2>1, <2>4 DEF Works, S!Executing, Sent, Sane
  <2>6. Running' = Running /\ autoCommit' = autoCommit /\ bound' = bound
    BY <1>2 DEF Running, transaction, bound
  <2> QED BY <1>2, <1>10, <2>2, <2>5, <2>6 DEF Ready, Verified
<1> QED BY <1>2, <1>3, <1>8, <1>11, QuietlyLocated

LEMMA ReleaseProbeLocated ==
  ASSUME ProbesEndNothing, Typed, Typed', Sound, Located, UNCHANGED workload, ReleaseProbe
  PROVE  Located'
<1> DEFINE r == S!Request("CLOSE_REQ_HANDLE", Mode)
<1>1. PICK o \in S!OnSession(session, handle, r, FALSE) : Takes(o) /\ session' = o.session
  BY DEF ReleaseProbe, CloseQueryHandle, S!ReleaseOnSession
<1>2. pc = "releaseProbe" /\ queue # <<>> /\ UNCHANGED <<cas, created, transactions>>
  BY PcRuns DEF ReleaseProbe, CloseQueryHandle
<1>3. ~Unbound BY <1>2 DEF Unbound
<1>4. "CLOSE_REQ_HANDLE" \in Functions \ {"COMMIT", "ROLLBACK"} BY DEF Functions
<1>5. ~autoCommit => Keeps(session, session') BY <1>1, <1>4, OnSessionKeeps
<1>6. r \in RequestSet(Len(told)) /\ r.fn = "CLOSE_REQ_HANDLE" /\ r.mode = Mode
  <2>1. "CLOSE_REQ_HANDLE" \in Functions /\ Len(told) \in Nat /\ Mode \in S!Modes
    BY <1>4, SaneNow, ModeIs
  <2> QED BY <2>1, RequestIs, Zenon
<1> HIDE DEF r
<1>7. /\ o \in OutcomeSet(Len(told))
      /\ \/ Absent(Len(told), session, handle, o)
         \/ Exchanged(Len(told), session, r, o) /\ session.connected
  BY <1>1, <1>6, OnSessionStep
<1>8. CASE failure # "none"
  <2>1. StatementFails(session', failure) BY <1>8 DEF ReleaseProbe
  <2> QED BY <1>2, <1>3, <1>5, <2>1, FailsLocated
<1>9. CASE failure = "none"
  <2>1. /\ backslashModeGeneration' = generation /\ pc' = "send"
        /\ UNCHANGED <<transaction, queue, told>>
    BY <1>9 DEF ReleaseProbe
  <2>2. InPlace BY <1>2, <2>1, UntoldPlaces DEF Late
  <2>3. /\ Verified(session) /\ Running.escapes /\ ~Running.binds
        /\ generation = session.generation /\ (session.up => session.open)
        /\ ~autoCommit /\ bound # 0 => session.generation = bound
    BY <1>2, <1>9 DEF Located, Ready, Checked
  <2>4. session'.generation = session.generation BY <1>1, <1>7 DEF Absent, Exchanged
  <2>5. Verified(session')
    <3>1. CASE Absent(Len(told), session, handle, o) BY <1>1, <2>3, <3>1 DEF Absent
    <3>2. CASE Exchanged(Len(told), session, r, o)
      <4>1. CASE Unread(session, r, o) BY <1>1, <4>1 DEF Unread, Verified
      <4>2. CASE Answered(session, r, o)
        <5>1. session.open BY <2>3, <3>2, <4>2 DEF Answered, Exchanged
        <5>2. ~Gone(session, r, o)
          <6>1. CASE ~autoCommit BY <1>2, <2>3, <6>1, ProbeStays
          <6>2. CASE autoCommit BY <1>6, <6>2, ModeIs DEF Gone
          <6> QED BY <6>1, <6>2
        <5>3. o.session.open BY <1>6, <4>2, <5>1, <5>2 DEF Answered, Effect
        <5> QED BY <1>1, <3>2, <5>3 DEF Exchanged, Sane, Verified
      <4> QED BY <3>2, <4>1, <4>2 DEF Exchanged
    <3> QED BY <1>7, <3>1, <3>2
  <2>6. Running' = Running /\ autoCommit' = autoCommit /\ bound' = bound
    BY <2>1 DEF Running, transaction, bound
  <2>7. Ready' BY <2>1, <2>3, <2>4, <2>5, <2>6 DEF Ready
  <2> QED BY <1>2, <1>3, <1>5, <2>1, <2>2, <2>7, QuietlyLocated
<1> QED BY <1>8, <1>9

-----------------------------------------------------------------------------
(* It is kept: after the statement was sent.                               *)

LEMMA MarkersMismatchLocated ==
  ASSUME Typed, Typed', Sound, Located, UNCHANGED workload, MarkersMismatch
  PROVE  Located'
<1>1. /\ pc = "execute" /\ pc' = "release" /\ session' = session
      /\ UNCHANGED <<cas, created, queue, told, transaction, transactions>>
  BY DEF MarkersMismatch, Throw
<1>2. InPlace BY <1>1, UntoldPlaces DEF Late
<1>3. ~Unbound /\ Ready' BY <1>1, NotChecked DEF Unbound, Checked
<1> QED BY <1>1, <1>2, <1>3, SaneNow, KeepsSame, QuietlyLocated

LEMMA FetchWindowLocated ==
  ASSUME Typed, Typed', Sound, Located, UNCHANGED workload, FetchWindow
  PROVE  Located'
<1> DEFINE r == S!Request("FETCH", Mode)
           counted == TRUE
<1>1. PICK o \in S!SendAndRecvOnSession(session, handle, r) :
        /\ Takes(o)
        /\ CASE o.reply = "ok" -> session' = o.session /\ Finish /\ UNCHANGED <<failure, baseline>>
             [] o.reply = "more" -> session' = o.session /\ UNCHANGED <<pc, failure, baseline>>
             [] OTHER -> Throw(o.session, o.reply)
  BY DEF FetchWindow
<1>2. pc = "fetch" /\ UNCHANGED <<cas, created, queue, told, transaction, transactions>>
  BY DEF FetchWindow
<1>3. o \in S!OnSession(session, handle, r, counted) /\ counted \in BOOLEAN
  BY <1>1 DEF S!SendAndRecvOnSession
<1>4. "FETCH" \in Functions \ {"COMMIT", "ROLLBACK"} BY DEF Functions
<1> HIDE DEF r
<1>5. \/ session' = o.session /\ (Finish \/ UNCHANGED pc)
      \/ Throw(o.session, o.reply)
  BY <1>1, Zenon
<1>6. session' = o.session \/ session' = S!DiscardSession(o.session) BY <1>5 DEF Throw
<1>7. pc' \in {"fetch", "commit", "release"} BY <1>2, <1>5 DEF Throw, Finish
<1> HIDE DEF counted
<1>8. ~autoCommit => Keeps(session, session')
  <2>1. Takes(o) BY <1>1
  <2> QED BY <1>3, <1>4, <1>6, <2>1, OnSessionKeeps DEF r
<1>9. InPlace BY <1>2, <1>7, UntoldPlaces DEF Late
<1>10. ~Unbound /\ Ready' BY <1>2, <1>7, NotChecked DEF Unbound, Checked
<1> QED BY <1>2, <1>8, <1>9, <1>10, QuietlyLocated

LEMMA ReadInsertIdLocated ==
  ASSUME Typed, Typed', Sound, Located, UNCHANGED workload, ReadInsertId
  PROVE  Located'
<1> DEFINE value(o) == IF Baseline(o.session) \in {Unseen, o.session.lastId}
                         THEN None ELSE o.session.lastId
<1>1. PICK o \in S!SendAndRecv(session, S!Request("GET_LAST_INSERT_ID", Mode)) :
       /\ Takes(o)
       /\ IF o.reply = "ok"
            THEN /\ session' = o.session
                 /\ told' = [told EXCEPT ![id].insertId = value(o), ![id].author = o.session.author]
                 /\ Finish
            ELSE Throw(o.session, o.reply) /\ UNCHANGED told
  BY DEF ReadInsertId
<1>2. /\ pc = "lastId" /\ queue # <<>>
      /\ UNCHANGED <<cas, created, queue, transaction, transactions>>
  BY PcRuns DEF ReadInsertId
<1>3. session' = o.session \/ session' = S!DiscardSession(o.session) BY <1>1 DEF Throw
<1>4. "GET_LAST_INSERT_ID" \in Functions \ {"COMMIT", "ROLLBACK"} BY DEF Functions
<1>5. ~autoCommit => Keeps(session, session') BY <1>1, <1>3, <1>4, RequestKeeps
<1>6. pc' \in {"commit", "release"} BY <1>1 DEF Throw, Finish
<1>7. id \in Numbers /\ told[id] \in ToldSet /\ told \in Seq(ToldSet)
  BY <1>2, RunningIs DEF Typed
<1>8. InPlace
  <2>1. CASE UNCHANGED told BY <1>2, <1>6, <2>1, UntoldPlaces DEF Late
  <2>2. CASE told' = [told EXCEPT ![id].insertId = value(o), ![id].author = o.session.author]
    <3> DEFINE v == value(o)
               a == o.session.author
               t == [told[id] EXCEPT !.insertId = v, !.author = a]
    <3>1. told' = [told EXCEPT ![id].insertId = v, ![id].author = a] BY <2>2
    <3>2. "GET_LAST_INSERT_ID" \in Functions BY DEF Functions
    <3>3. o \in OutcomeSet(Len(told)) BY <1>1, <1>3, <3>2, ModeIs, QuietRemembered
    <3>4. v \in Ids \cup {None} /\ a \in Nat
      BY <3>3, SaneNow DEF OutcomeSet, SessionSet, None
    <3> HIDE DEF v, a, value
    <3>5. /\ t \in ToldSet /\ t.within = told[id].within /\ t.ranOn = told[id].ranOn
          /\ t.boundOn = told[id].boundOn
      BY <1>7, <3>4 DEF ToldSet
    <3>6. told' = [told EXCEPT ![id] = t] BY <1>7, <3>1 DEF ToldSet
    <3> HIDE DEF t
    <3>7. Revised(told', id, t) BY <1>7, <3>5, <3>6, ToldOnce
    <3> QED BY <1>2, <1>6, <3>5, <3>7 DEF InPlace, Late, Revised
  <2> QED BY <1>1, <2>1, <2>2
<1>9. ~Unbound /\ Ready' BY <1>2, <1>6, NotChecked DEF Unbound, Checked
<1> QED BY <1>2, <1>5, <1>8, <1>9, QuietlyLocated

LEMMA CommitStatementLocated ==
  ASSUME Typed, Typed', Sound, Located, UNCHANGED workload, CommitStatement
  PROVE  Located'
<1>1. /\ pc = "commit" /\ pc' = "release"
      /\ UNCHANGED <<cas, created, queue, told, transaction, transactions>>
  BY DEF CommitStatement, Throw
<1>2. autoCommit BY <1>1 DEF Sound, Known, Deferred
<1>3. InPlace BY <1>1, UntoldPlaces DEF Late
<1>4. ~Unbound /\ Ready' BY <1>1, NotChecked DEF Unbound, Checked
<1> QED BY <1>1, <1>2, <1>3, <1>4, QuietlyLocated

\* The release of a handle leaves a transaction unbound that lost its first answer.
LEMMA ReleaseHandleLocated ==
  ASSUME Typed, Typed', Sound, Located, UNCHANGED workload, ReleaseHandle
  PROVE  Located'
<1>1. PICK o \in S!OnSession(session, handle, S!Request("CLOSE_REQ_HANDLE", Mode), FALSE) :
       /\ Takes(o)
       /\ IF failure = "none" /\ ~TransactionEnded(o.session)
            THEN session' = o.session /\ Tell("done")
            ELSE /\ session' = IF failure = "none" THEN S!DiscardSession(o.session) ELSE o.session
                 /\ failure' = IF failure = "none" THEN "lost" ELSE failure
                 /\ pc' = "undo"
                 /\ UNCHANGED <<queue, told>>
  BY DEF ReleaseHandle, S!ReleaseOnSession
<1>2. /\ pc = "release" /\ queue # <<>>
      /\ UNCHANGED <<cas, created, transaction, transactions>>
  BY PcRuns DEF ReleaseHandle
<1>3. session' = o.session \/ session' = S!DiscardSession(o.session) BY <1>1
<1>4. "CLOSE_REQ_HANDLE" \in Functions \ {"COMMIT", "ROLLBACK"} BY DEF Functions
<1>5. ~autoCommit => Keeps(session, session') BY <1>1, <1>3, <1>4, OnSessionKeeps
<1>6. CASE failure = "none" /\ ~TransactionEnded(o.session)
  <2>1. Tell("done") BY <1>1, <1>6
  <2>2. InPlace /\ pc' = "idle" BY <1>2, <2>1, TellPlaces
  <2>3. ~Unbound /\ Ready' BY <1>6, <2>2, NotChecked DEF Unbound, Checked
  <2> QED BY <1>2, <1>5, <2>2, <2>3, QuietlyLocated
<1>7. CASE ~(failure = "none" /\ ~TransactionEnded(o.session))
  <2>1. /\ pc' = "undo" /\ UNCHANGED <<queue, told>> /\ failure' # "none"
        /\ failure # "none" => session' = o.session
    BY <1>1, <1>7
  <2>2. InPlace /\ Ready' BY <1>2, <2>1, UntoldPlaces, NotChecked DEF Late, Checked
  <2>3. Unbound => session' = session
    <3> SUFFICES ASSUME Unbound PROVE session' = session
      OBVIOUS
    <3> DEFINE r == S!Request("CLOSE_REQ_HANDLE", Mode)
    <3>1. r \in RequestSet(Len(told))
      <4>1. "CLOSE_REQ_HANDLE" \in Functions /\ Len(told) \in Nat /\ Mode \in S!Modes
        BY <1>4, SaneNow, ModeIs
      <4> QED BY <4>1, RequestIs, Zenon
    <3>2. o \in S!OnSession(session, handle, r, FALSE) /\ Takes(o) BY <1>1
    <3> HIDE DEF r
    <3>3. Absent(Len(told), session, handle, o) \/ session.connected
      BY <1>3, <3>1, <3>2, OnSessionStep
    <3> QED BY <2>1, <3>3 DEF Absent, Unbound
  <2>4. ~autoCommit' => Proceeds
    <3> SUFFICES ASSUME ~autoCommit PROVE Proceeds
      BY <1>2 DEF transaction
    <3> QED BY <1>2, <1>5, <2>1, <2>3, SameProceeds
  <2> QED BY <2>2, <2>4, RestsLocated
<1> QED BY <1>6, <1>7

LEMMA UndoStatementLocated ==
  ASSUME Typed, Typed', Sound, Located, UNCHANGED workload, UndoStatement
  PROVE  Located'
<1>1. /\ StatementFails(session', failure) /\ queue # <<>>
      /\ UNCHANGED <<cas, created, transactions>>
  BY PcRuns DEF UndoStatement
<1>2. ~autoCommit => session' = session
  <2> SUFFICES ASSUME ~autoCommit PROVE session' = session
    OBVIOUS
  <2>1. ~Deferred BY DEF Deferred
  <2>2. PICK o \in {S!Outcome(session, "absent", {}, FALSE)} : session' = o.session
    BY <2>1 DEF UndoStatement
  <2> QED BY <2>2 DEF S!Outcome
<1> QED BY <1>1, <1>2, SaneNow, KeepsSame, FailsLocated

\* The same transaction on a session that keeps it is still inside of it.
LEMMA KeepsStillIn ==
  ASSUME Typed, Typed', Sound, Located, bound' = bound, endReplies' = endReplies,
         autoCommit' = autoCommit, ~autoCommit => Keeps(session, session')
  PROVE  StillIn'
<1> SUFFICES ASSUME ~autoCommit, bound # 0, session'.connected, session'.generation = bound,
                    session'.outOfTransactionReplies = endReplies
             PROVE  Inside(session')
  BY DEF StillIn
<1>1. /\ bound \leq session.generation /\ endReplies \leq session.outOfTransactionReplies
      /\ bound \in Nat /\ endReplies \in Nat \cup {-1}
      /\ session.generation \in Nat /\ session.outOfTransactionReplies \in Nat
  BY SaneNow DEF Sound, Known, bound, endReplies, TransactionTyped
<1>2. /\ session'.generation = session.generation
      /\ session'.outOfTransactionReplies = session.outOfTransactionReplies
  BY <1>1 DEF Keeps
<1> QED BY <1>1, <1>2 DEF Keeps, Located, StillIn

\* The running statement was sent, or was executed with its handle.
Issues ==
  /\ UNCHANGED <<workload, cas, autoCommit, queue, transactions>>
  /\ queue # <<>> /\ pc \in {"send", "execute"} /\ pc' \in Late
  /\ Len(told') = Len(told)
  /\ \A i \in Numbers : i # id => told'[i] = told[i]
  /\ told'[id].within = Transaction
  /\ pc' = "execute" => told'[id].boundOn = Nowhere
  /\ told'[id].boundOn # Nowhere /\ told'[id].ranOn # Nowhere => told'[id].ranOn = told'[id].boundOn

LEMMA IssuesOneSession ==
  ASSUME Typed, Located, Issues, Placed'
  PROVE  OneSession'
<1>1. Numbers' = Numbers /\ Transaction' = Transaction /\ id' = id
  BY DEF Issues, Numbers, Transaction, id, Running
<1> SUFFICES ASSUME NEW i \in Numbers, NEW j \in Numbers,
                    told'[i].within # 0, told'[i].within = told'[j].within,
                    told'[i].ranOn # Nowhere, told'[j].ranOn # Nowhere
             PROVE  told'[i].ranOn = told'[j].ranOn
  BY <1>1, Zenon DEF OneSession, Nowhere
<1>2. CASE told'[i].within = Transaction
  <2>1. ~autoCommit' BY <1>2 DEF Issues, Transaction
  <2>2. \A k \in {i, j} : \/ bound' # 0 /\ told'[k].ranOn = <<cas', bound'>>
                          \/ bound' = 0 /\ k = id
    BY <1>1, <1>2, <2>1 DEF Placed, Unbound, Nowhere
  <2> QED BY <2>2
<1>3. CASE told'[i].within # Transaction
  <2>1. i # id /\ j # id BY <1>3 DEF Issues
  <2>2. told'[i] = told[i] /\ told'[j] = told[j] BY <2>1 DEF Issues
  <2> QED BY <2>2, Zenon DEF Located, OneSession
<1> QED BY <1>2, <1>3

LEMMA IssuesLocated ==
  ASSUME Typed, Typed', Located, Issues, Placed', StillIn'
  PROVE  Located'
<1>1. Numbers' = Numbers /\ id' = id BY DEF Issues, Numbers, id, Running
<1>2. id \in Numbers BY RunningIs DEF Issues
<1>3. Untouched'
  <2>1. Unsent' = Waiting BY DEF Issues, Unsent, Waiting
  <2>2. \A i \in Waiting : i \in Unsent /\ i \in Numbers /\ i # id
    <3>1. Waiting \subseteq Pending BY DEF Waiting, Pending
    <3>2. \A i \in Waiting : i # id /\ i \in Numbers BY WaitingOthers DEF Issues
    <3> QED BY <3>1, <3>2 DEF Unsent
  <2> QED BY <2>1, <2>2 DEF Untouched, Located, Issues, Nowhere
<1>4. Called' BY DEF Located, Called, Issues, Transacts, Probes
<1>5. Ready' BY NotChecked DEF Issues, Late, Checked
<1>6. ToBind' BY <1>1 DEF ToBind, Issues, Nowhere
<1>7. OneSession' BY IssuesOneSession
<1>8. EscapedForItsSession'
  <2> SUFFICES ASSUME NEW i \in Numbers, told'[i].boundOn # Nowhere, told'[i].ranOn # Nowhere
               PROVE  told'[i].ranOn = told'[i].boundOn
    BY <1>1, Zenon DEF EscapedForItsSession, Nowhere
  <2>1. CASE i = id BY <2>1 DEF Issues
  <2>2. CASE i # id
    <3>1. told'[i] = told[i] BY <2>2 DEF Issues
    <3> QED BY <3>1, Zenon DEF Located, EscapedForItsSession
  <2> QED BY <2>1, <2>2
<1> QED BY <1>3, <1>4, <1>5, <1>6, <1>7, <1>8 DEF Located

LEMMA ExecuteHandleLocated ==
  ASSUME Typed, Typed', Sound, Located, UNCHANGED workload, ExecuteHandle
  PROVE  Located'
<1> DEFINE fn == "EXECUTE"
           r == Statement(fn)
           counted == TRUE
<1>1. /\ pc = "execute"
      /\ UNCHANGED <<cas, transaction, queue, generation, transactions>>
  BY DEF ExecuteHandle
<1>2. queue # <<>> BY <1>1, SendingIs
<1>3. id \in Numbers /\ told[id] \in ToldSet /\ told \in Seq(ToldSet) BY <1>2, RunningIs DEF Typed
<1>4. fn \in Functions \ {"COMMIT", "ROLLBACK"} BY DEF Functions
<1> HIDE DEF fn
<1>5. r \in RequestSet(Len(told)) /\ r.fn = fn /\ r.mode = Mode BY <1>2, <1>4, StatementIs, Zenon
<1>6. PICK o \in S!SendAndRecvOnSession(session, generation, r) :
       /\ Takes(o)
       /\ told' = [told EXCEPT ![id].ranOn = Place(o)]
       /\ IF o.reply \in {"ok", "more"} THEN UseResult(o.session, o.reply)
                                        ELSE Throw(o.session, o.reply)
  BY DEF ExecuteHandle, fn
<1> HIDE DEF r
<1>7. o \in S!OnSession(session, generation, r, counted) /\ counted \in BOOLEAN
  BY <1>6 DEF S!SendAndRecvOnSession
<1> HIDE DEF counted
<1>8. session' = o.session \/ session' = S!DiscardSession(o.session)
  BY <1>6 DEF Throw, UseResult
<1>9. /\ o \in OutcomeSet(Len(told))
      /\ \/ Absent(Len(told), session, generation, o)
         \/ Exchanged(Len(told), session, r, o) /\ session.connected /\ session.generation = generation
  BY <1>5, <1>6, <1>7, <1>8, OnSessionStep
<1>10. /\ autoCommit' = autoCommit /\ bound' = bound /\ endReplies' = endReplies
       /\ queue' = queue /\ cas' = cas
  BY <1>1 DEF transaction, bound, endReplies
<1>11. ~autoCommit => Keeps(session, session')
  <2> SUFFICES ASSUME ~autoCommit PROVE Keeps(session, session')
    OBVIOUS
  <2>1. r.mode = "transaction" BY <1>5, ModeIs
  <2>2. Keeps(session, o.session) BY <1>4, <1>5, <1>9, <2>1, SentKeeps
  <2> QED BY <1>8, <1>9, <2>2, LeftKeeps
<1>12. StillIn' BY <1>10, <1>11, KeepsStillIn
<1> DEFINE p == Place(o)
           t == [told[id] EXCEPT !.ranOn = p]
<1>13. p \in Nat \X Nat /\ told' = [told EXCEPT ![id].ranOn = p] BY <1>6, <1>9, PlaceIs
<1>14. p # Nowhere => o.ran /\ p = <<cas, o.session.generation>> BY DEF Place
<1> HIDE DEF p
<1>15. told' = [told EXCEPT ![id] = t] BY <1>13
<1>16. t \in ToldSet /\ t.within = told[id].within /\ t.ranOn = p /\ t.boundOn = told[id].boundOn
  BY <1>3, <1>13 DEF ToldSet
<1> HIDE DEF t
<1>17. Revised(told', id, t) BY <1>3, <1>15, <1>16, ToldOnce
<1>18. ~autoCommit => bound # 0 /\ generation = bound BY <1>1 DEF Sound, Known
<1>19. p # Nowhere /\ ~autoCommit => p = <<cas, bound>>
  <2> SUFFICES ASSUME p # Nowhere, ~autoCommit PROVE p = <<cas, bound>>
    OBVIOUS
  <2>1. Exchanged(Len(told), session, r, o) /\ session.generation = generation
    BY <1>9, <1>14 DEF Absent
  <2>2. o.session.generation = bound BY <1>18, <2>1 DEF Exchanged
  <2> QED BY <1>14, <2>2
<1>20. Numbers' = Numbers /\ Transaction' = Transaction /\ id' = id
  BY <1>1, <1>10, <1>17 DEF Revised, Numbers, Transaction, id, Running
<1>21. Placed'
  <2> SUFFICES ASSUME ~autoCommit, NEW i \in Numbers, told'[i].within = Transaction,
                      told'[i].ranOn # Nowhere
               PROVE  bound' # 0 /\ told'[i].ranOn = <<cas', bound'>>
    BY <1>10, <1>20 DEF Placed, Nowhere
  <2>1. CASE i = id BY <1>10, <1>16, <1>17, <1>18, <1>19, <2>1 DEF Revised
  <2>2. CASE i # id
    <3>1. told'[i] = told[i] BY <1>17, <2>2 DEF Revised
    <3>2. told[i].ranOn = <<cas, bound>> BY <1>18, <3>1 DEF Located, Placed, Unbound
    <3> QED BY <1>10, <1>18, <3>1, <3>2
  <2> QED BY <2>1, <2>2
<1>22. Issues
  <2>1. told[id].within = Transaction BY <1>1 DEF Sound, Listed, Late
  <2>2. told[id].boundOn = Nowhere BY <1>1 DEF Located, ToBind
  <2>3. pc' \in Late
    <3>1. o.session \in SessionSet(Len(told)) /\ o.reply \in Replied BY <1>9 DEF OutcomeSet
    <3>2. CASE UseResult(o.session, o.reply) BY <3>1, <3>2, UseResultIs DEF Late
    <3>3. CASE Throw(o.session, o.reply) BY <3>3 DEF Throw, Late
    <3> QED BY <1>6, <3>2, <3>3
  <2> QED BY <1>1, <1>2, <1>10, <1>16, <1>17, <2>1, <2>2, <2>3 DEF Issues, Revised
<1> QED BY <1>12, <1>21, <1>22, IssuesLocated

LEMMA SendStatementLocated ==
  ASSUME Typed, Typed', Sound, Located, UNCHANGED workload, SendStatement
  PROVE  Located'
<1> DEFINE first == ~autoCommit /\ transactionGeneration = 0
           fn == IF Running.binds THEN "PREPARE" ELSE "PREPARE_AND_EXECUTE"
           r == Statement(fn)
           ran(o) == IF Running.binds THEN told[id].ranOn ELSE Place(o)
           escaped == IF Running.escapes /\ ~Running.binds
                        THEN <<cas, backslashModeGeneration>> ELSE told[id].boundOn
<1>1. pc = "send" BY DEF SendStatement
<1>2. queue # <<>> BY <1>1, SendingIs
<1>3. id \in Numbers /\ told[id] \in ToldSet /\ told \in Seq(ToldSet) BY <1>2, RunningIs DEF Typed
<1>4. fn \in Functions \ {"COMMIT", "ROLLBACK"} /\ fn \in S!Executing \cup {"PREPARE"}
  BY DEF Functions, S!Executing
<1>5. r \in RequestSet(Len(told)) /\ r.fn = fn /\ r.mode = Mode
  <2> HIDE DEF fn
  <2> QED BY <1>2, <1>4, StatementIs, Zenon
<1>6. /\ UNCHANGED <<cas, autoCommit, queue, transactions>>
      /\ endReplies' = IF first THEN session.outOfTransactionReplies ELSE endReplies
  BY DEF SendStatement, endReplies
<1>7. PICK o \in S!SendAndRecv(session, r) :
        /\ Takes(o)
        /\ told' = [told EXCEPT ![id].within = Transaction, ![id].ranOn = ran(o), ![id].boundOn = escaped]
        /\ bound' = IF first /\ o.reply # "lost" THEN o.session.generation ELSE bound
        /\ CASE o.reply = "lost" -> Throw(o.session, "lost")
             [] o.reply # "lost" /\ (\/ SessionLost(o.session, bound') \/ Ended(o.session, endReplies'))
                  -> Throw(S!DiscardSession(o.session), "lost")
             [] OTHER ->
                  IF o.reply \notin {"ok", "more"} THEN Throw(o.session, o.reply)
                  ELSE IF Running.binds
                         THEN session' = o.session /\ pc' = "execute" /\ UNCHANGED failure
                         ELSE UseResult(o.session, o.reply)
  BY DEF SendStatement, bound, endReplies
<1>8. /\ \/ Throw(o.session, "lost") \/ Throw(S!DiscardSession(o.session), "lost")
         \/ Throw(o.session, o.reply)
         \/ Running.binds /\ session' = o.session /\ pc' = "execute"
         \/ UseResult(o.session, o.reply)
      /\ o.reply = "lost" => Throw(o.session, "lost")
  <2> HIDE DEF r, ran, escaped
  <2> QED BY <1>7, Zenon
<1>9. session' = o.session \/ session' = S!DiscardSession(o.session)
  BY <1>8 DEF Throw, UseResult
<1> HIDE DEF fn, r
<1>10. Sent(Len(told), session, r, o) /\ o \in OutcomeSet(Len(told)) BY <1>5, <1>7, <1>9, SentStep
<1>11. /\ Sane(Len(told), o.session) /\ (Answered(session, r, o) \/ Unread(session, r, o))
       /\ o.ran => session.connected
       /\ o.session.generation \in Nat /\ session.generation \in Nat
       /\ o.session.outOfTransactionReplies \in Nat /\ session.outOfTransactionReplies \in Nat
       /\ session.outOfTransactionReplies \leq o.session.outOfTransactionReplies
       /\ o.session \in SessionSet(Len(told)) /\ Len(told) \in Nat /\ o.reply \in Replied
  BY <1>10, SaneNow DEF Sent, OutcomeSet, SessionSet
<1>12. /\ Verified(session)
       /\ ~autoCommit /\ bound # 0 => session.generation = bound
       /\ Running.escapes /\ ~Running.binds => backslashModeGeneration = session.generation
  BY <1>1 DEF Located, Ready, Checked
<1>13. o.session.generation = session.generation BY <1>10, <1>12 DEF Sent, Later, Verified
<1>14. told[id].ranOn = Nowhere /\ told[id].boundOn = Nowhere
  <2>1. id \in Pending
    <3>1. 1 \in 1..Len(queue) /\ id = queue[1].id BY <1>2, RunningIs
    <3> QED BY <3>1 DEF Pending
  <2>2. Unsent = Pending BY <1>1 DEF Unsent, Late
  <2> QED BY <2>1, <2>2 DEF Located, Untouched
<1>15. pc' \in Late /\ (pc' = "execute" => Running.binds)
  <2>1. CASE \/ Throw(o.session, "lost") \/ Throw(S!DiscardSession(o.session), "lost")
             \/ Throw(o.session, o.reply)
    BY <2>1 DEF Throw, Late
  <2>2. CASE Running.binds /\ pc' = "execute" BY <2>2 DEF Late
  <2>3. CASE UseResult(o.session, o.reply) BY <1>11, <2>3, UseResultIs DEF Late
  <2> QED BY <1>8, <2>1, <2>2, <2>3
<1> DEFINE w == Transaction
           p == ran(o)
           b == escaped
           t == [told[id] EXCEPT !.within = w, !.ranOn = p, !.boundOn = b]
<1>16. w \in Nat /\ w = Transaction BY WaysAre DEF Transaction
<1>17. p \in Nat \X Nat /\ b \in Nat \X Nat
  BY <1>3, <1>10, PlaceIs DEF ToldSet, Typed, OthersTyped
<1>18. told' = [told EXCEPT ![id].within = w, ![id].ranOn = p, ![id].boundOn = b] BY <1>7
<1>19. p # Nowhere => o.ran /\ p = <<cas, session.generation>> BY <1>13, <1>14 DEF Place
<1>20. b # Nowhere => b = <<cas, session.generation>> /\ ~Running.binds BY <1>12, <1>14
<1> HIDE DEF w, p, b, ran, escaped
<1>21. told' = [told EXCEPT ![id] = t] BY <1>3, <1>18 DEF ToldSet
<1>22. t \in ToldSet /\ t.within = w /\ t.ranOn = p /\ t.boundOn = b BY <1>3, <1>16, <1>17 DEF ToldSet
<1> HIDE DEF t
<1>23. Revised(told', id, t) BY <1>3, <1>21, <1>22, ToldOnce
<1>24. Numbers' = Numbers /\ Transaction' = Transaction /\ id' = id
  BY <1>6, <1>23 DEF Revised, Numbers, Transaction, id, Running
<1>25. Issues
  <2>1. pc' = "execute" => told'[id].boundOn = Nowhere BY <1>15, <1>20, <1>22, <1>23 DEF Revised
  <2>2. told'[id].boundOn # Nowhere /\ told'[id].ranOn # Nowhere => told'[id].ranOn = told'[id].boundOn
    BY <1>19, <1>20, <1>22, <1>23 DEF Revised
  <2> QED BY <1>1, <1>2, <1>6, <1>15, <1>16, <1>22, <1>23, <2>1, <2>2 DEF Issues, Revised
<1>26. Placed'
  <2> SUFFICES ASSUME ~autoCommit, NEW i \in Numbers, told'[i].within = Transaction,
                      told'[i].ranOn # Nowhere
               PROVE  \/ bound' # 0 /\ told'[i].ranOn = <<cas', bound'>>
                      \/ Unbound' /\ i = id /\ told'[i].ranOn = <<cas', session'.generation>>
    BY <1>6, <1>24 DEF Placed, Nowhere
  <2>1. bound # 0 => bound' = bound BY <1>7 DEF bound
  <2>2. CASE i # id
    <3>1. told'[i] = told[i] BY <1>23, <2>2 DEF Revised
    <3>2. bound # 0 /\ told[i].ranOn = <<cas, bound>>
      BY <1>1, <3>1 DEF Located, Placed, Unbound
    <3> QED BY <1>6, <2>1, <3>1, <3>2
  <2>3. CASE i = id
    <3>1. told'[i].ranOn = <<cas, session.generation>> /\ session.connected
      BY <1>11, <1>19, <1>22, <1>23, <2>3 DEF Revised
    <3>2. session.generation # 0 BY <3>1, SaneNow DEF Sane
    <3>3. CASE bound # 0 BY <1>6, <1>12, <2>1, <3>1, <3>3
    <3>4. CASE bound = 0 /\ o.reply # "lost"
      <4>1. bound' = session.generation BY <1>7, <1>13, <3>4 DEF bound
      <4> QED BY <1>6, <3>1, <3>2, <4>1
    <3>5. CASE bound = 0 /\ o.reply = "lost"
      <4>1. session' = o.session /\ failure' = "lost" /\ pc' = "release"
        BY <1>8, <3>5 DEF Throw
      <4>2. ~session'.connected BY <1>11, <3>5, <4>1 DEF Answered, Unread
      <4>3. bound' = 0 BY <1>7, <3>5
      <4>4. Unbound' BY <1>2, <1>6, <1>13, <3>2, <4>1, <4>2, <4>3 DEF Unbound
      <4> QED BY <1>6, <1>13, <2>3, <3>1, <4>1, <4>4
    <3> QED BY <3>3, <3>4, <3>5
  <2> QED BY <2>2, <2>3
<1>27. StillIn'
  <2> SUFFICES ASSUME ~autoCommit, session'.connected, session'.outOfTransactionReplies = endReplies'
               PROVE  Inside(session')
    BY <1>6 DEF StillIn
  <2>1. session' = o.session
    <3>1. ~S!DiscardSession(o.session).connected BY <1>11, DiscardedIs DEF Dropped
    <3> QED BY <1>9, <3>1
  <2>2. Answered(session, r, o) BY <1>11, <2>1 DEF Unread
  <2>3. endReplies' \leq session.outOfTransactionReplies
    <3>1. endReplies \leq session.outOfTransactionReplies BY <1>1, SendingIs
    <3> QED BY <1>6, <1>11, <3>1
  <2>4. o.session.outOfTransactionReplies = session.outOfTransactionReplies
    BY <1>11, <2>1, <2>3
  <2>5. ~Gone(session, r, o) BY <1>11, <2>4 DEF Gone
  <2>6. r.mode = "transaction" BY <1>5, ModeIs
  <2>7. Works(session, r, o)
    <3>1. Effect(session, r, o) BY <2>2, <2>5 DEF Answered
    <3> QED BY <1>4, <1>5, <2>6, <3>1 DEF Effect
  <2>8. o.session.open BY <1>4, <1>5, <2>7 DEF Works
  <2> QED BY <1>11, <2>1, <2>8 DEF Inside, Sane
<1> QED BY <1>25, <1>26, <1>27, IssuesLocated

-----------------------------------------------------------------------------
(* It is kept: the calls that are no statements.                           *)

\* A call is settled, and a transaction that is still open is the same.
LEMMA TellsLocated ==
  ASSUME Typed, Typed', Sound, Located, UNCHANGED workload, queue # <<>>, pc \notin Late,
         NEW status \in {"done", "failed"}, Tell(status),
         GetOrCreateCAS \/ UNCHANGED <<cas, created>>,
         ~autoCommit' => UNCHANGED <<transaction, transactions>> /\ Keeps(session, session')
  PROVE  Located'
<1>1. InPlace /\ pc' = "idle" BY TellPlaces
<1>2. Ready' BY <1>1, NotChecked DEF Checked
<1>3. ASSUME ~autoCommit' PROVE Proceeds
  <2>1. UNCHANGED <<transaction, transactions>> /\ Keeps(session, session') BY <1>3
  <2>2. ~autoCommit BY <1>3, <2>1 DEF transaction
  <2>3. ~Unbound BY DEF Unbound, Late
  <2> QED BY <2>1, <2>2, <2>3, CasSame, SameProceeds
<1> QED BY <1>1, <1>2, <1>3, RestsLocated

LEMMA BeginRefusedLocated ==
  ASSUME Typed, Typed', Sound, Located, UNCHANGED workload, BeginRefused
  PROVE  Located'
<1>1. /\ Turn("beginTransaction") /\ Tell("failed") /\ UNCHANGED <<transaction, transactions>>
      /\ session' = session /\ UNCHANGED <<cas, created>>
  BY DEF BeginRefused, connection
<1>2. queue # <<>> /\ pc \notin Late
  <2>1. "beginTransaction" \in CallNames \ Statements BY DEF CallNames, Statements
  <2> QED BY <1>1, <2>1, TurnIs
<1> QED BY <1>1, <1>2, SaneNow, KeepsSame, TellsLocated

\* Nothing has run in a transaction that begins.
LEMMA BeginsLocated ==
  ASSUME Typed, Sound, Located, UNCHANGED workload, Begins, Turn("beginTransaction")
  PROVE  Located'
<1>1. queue # <<>> /\ Tell("done") BY DEF Begins, Passes
<1>2. InPlace /\ pc' = "idle" BY <1>1, TellPlaces
<1>3. Untouched' /\ ToBind' /\ OneSession' /\ EscapedForItsSession' BY <1>2, InPlaceStays
<1>4. Called'
  <2>1. \A k \in 1..Len(queue') : \E j \in 1..Len(queue) : queue'[k] = queue[j]
    BY <1>2, InPlaceIs
  <2>2. Transacts' = Transacts /\ Probes' = Probes BY DEF Transacts, Probes
  <2>3. Running = queue[1] /\ 1 \in 1..Len(queue) BY <1>1, RunningIs
  <2>4. Transacts BY <2>3 DEF Turn, Located, Called
  <2> QED BY <2>1, <2>2, <2>4 DEF Located, Called
<1>5. Ready' BY <1>2, NotChecked DEF Checked
<1>6. bound' = 0 BY DEF Begins, Sound, Known, bound
<1>7. StillIn' BY <1>6 DEF StillIn
<1>8. Placed'
  <2>1. /\ Len(transactions) \in Nat /\ Len(transactions') = Len(transactions) + 1 /\ ~autoCommit'
    BY BeginsWays DEF Begins
  <2>2. Transaction' = Len(transactions) + 1 BY <2>1 DEF Transaction
  <2>3. \A i \in Numbers : told'[i].within \in 0..Len(transactions)
    BY <1>2 DEF InPlace, Sound, Listed
  <2>4. Numbers' = Numbers BY <1>2, InPlaceIs
  <2>5. \A i \in Numbers' : told'[i].within # Transaction' BY <2>1, <2>2, <2>3, <2>4
  <2> QED BY <2>5 DEF Placed
<1> QED BY <1>3, <1>4, <1>5, <1>7, <1>8 DEF Located

LEMMA BeginTransactionLocated ==
  ASSUME Typed, Typed', Sound, Located, UNCHANGED workload, BeginTransaction
  PROVE  Located'
<1>1. Turn("beginTransaction") /\ GetOrCreateCAS
      /\ UNCHANGED <<transactionGeneration, transactionEndReplies, transactionAbort>>
  BY DEF BeginTransaction
<1>2. "beginTransaction" \in CallNames \ Statements BY DEF CallNames, Statements
<1>3. /\ queue # <<>> /\ pc = "idle" /\ pc \notin Late /\ ~told[id].writes
      /\ autoCommit => session.work = {}
  BY <1>1, <1>2, TurnIs
<1>4. PICK o \in S!Connect(session) :
        /\ Takes(o) /\ session' = o.session
        /\ IF o.reply = "ok"
             THEN /\ autoCommit' = FALSE
                  /\ transactions' = IF autoCommit THEN Append(transactions, "open") ELSE transactions
                  /\ Tell("done")
             ELSE UNCHANGED <<autoCommit, transactions>> /\ Tell("failed")
  BY DEF BeginTransaction
<1>5. Opens(Len(told), session, o) BY SaneNow, ConnectIs, Zenon
<1>6. CASE o.reply = "ok" /\ autoCommit
  <2>1. durable' = durable /\ session'.work = {}
    BY <1>3, <1>4, <1>5, <1>6, OpensSpares, TakesNothing DEF Spares
  <2>2. Tell("done") /\ ~autoCommit' /\ transactions' = Append(transactions, "open")
    BY <1>4, <1>6
  <2>3. Passes("done") BY <1>3, <2>2 DEF Passes
  <2>4. cas' # 0 BY <1>1, CasThere
  <2>5. Begins BY <1>1, <1>6, <2>1, <2>2, <2>3, <2>4 DEF Begins
  <2> QED BY <1>1, <2>5, BeginsLocated
<1>7. CASE ~(o.reply = "ok" /\ autoCommit)
  <2>1. autoCommit \in BOOLEAN BY WorkIsHeld
  <2>2. PICK status \in {"done", "failed"} : Tell(status) BY <1>4
  <2>3. UNCHANGED <<transaction, transactions>> BY <1>1, <1>4, <1>7, <2>1 DEF transaction
  <2>4. Keeps(session, session') BY <1>4, <1>5, OpensKeeps
  <2> QED BY <1>1, <1>3, <2>2, <2>3, <2>4, TellsLocated
<1> QED BY <1>6, <1>7

\* A transaction is ended, or its end failed on a session that has it still.
LEMMA TransactionFailsLocated ==
  ASSUME Typed, Typed', Sound, Located, UNCHANGED workload, queue # <<>>, pc \notin Late,
         GetOrCreateCAS \/ UNCHANGED <<cas, created>>, NEW error, TransactionFails(session', error),
         ~autoCommit /\ session'.connected /\ error # "abort" => Keeps(session, session')
  PROVE  Located'
<1>1. Tell("failed") BY DEF TransactionFails
<1>2. ASSUME ~autoCommit' PROVE UNCHANGED <<transaction, transactions>> /\ Keeps(session, session')
  <2>1. /\ ~(SessionLost(session', transactionGeneration) \/ (~autoCommit /\ error = "abort"))
        /\ UNCHANGED <<transaction, transactions>>
    BY <1>2 DEF TransactionFails, EndTransaction
  <2>2. ~autoCommit BY <1>2, <2>1 DEF transaction
  <2>3. session'.connected BY <2>1, <2>2 DEF SessionLost
  <2> QED BY <2>1, <2>2, <2>3
<1> QED BY <1>1, <1>2, TellsLocated

LEMMA CommitRefusedLocated ==
  ASSUME Typed, Typed', Sound, Located, UNCHANGED workload, CommitRefused
  PROVE  Located'
<1>1. Turn("commit") /\ GetOrCreateCAS /\ TransactionFails(DropIfEnded(session), "lost")
  BY DEF CommitRefused
<1>2. session' = DropIfEnded(session) BY <1>1 DEF TransactionFails
<1>3. "commit" \in CallNames \ Statements BY DEF CallNames, Statements
<1>4. queue # <<>> /\ pc \notin Late BY <1>1, <1>3, TurnIs
<1>5. TransactionFails(session', "lost") BY <1>1, <1>2
<1> QED BY <1>1, <1>2, <1>4, <1>5, DropKeeps, TransactionFailsLocated

LEMMA RollbackRefusedLocated ==
  ASSUME Typed, Typed', Sound, Located, UNCHANGED workload, RollbackRefused
  PROVE  Located'
<1>1. Turn("rollback") /\ GetOrCreateCAS /\ TransactionFails(session, "lost")
  BY DEF RollbackRefused
<1>2. session' = session BY <1>1 DEF TransactionFails
<1>3. "rollback" \in CallNames \ Statements BY DEF CallNames, Statements
<1>4. queue # <<>> /\ pc \notin Late BY <1>1, <1>3, TurnIs
<1>5. TransactionFails(session', "lost") BY <1>1, <1>2
<1> QED BY <1>1, <1>2, <1>4, <1>5, SaneNow, KeepsSame, TransactionFailsLocated

\* A COMMIT that is refused leaves the transaction open.
LEMMA RefusedKeeps ==
  ASSUME Typed, NEW fn \in {"COMMIT", "ROLLBACK"},
         NEW o \in S!SendAndRecv(session, S!Request(fn, Mode)), Takes(o), session' = o.session,
         session'.connected, o.reply \notin {"ok", "abort"}
  PROVE  Keeps(session, session')
<1> DEFINE r == S!Request(fn, Mode)
<1>1. fn \in Functions BY DEF Functions
<1>2. r \in RequestSet(Len(told)) /\ r.fn = fn
  <2>1. Len(told) \in Nat /\ Mode \in S!Modes BY SaneNow, ModeIs
  <2> QED BY <1>1, <2>1, RequestIs, Zenon
<1>3. o \in S!SendAndRecv(session, r) OBVIOUS
<1> HIDE DEF r
<1>4. Sent(Len(told), session, r, o) BY <1>2, <1>3, SentStep
<1>5. /\ session.outOfTransactionReplies \leq o.session.outOfTransactionReplies
      /\ session.generation \leq o.session.generation
      /\ o.ran => session.connected /\ (o.session.generation = session.generation => session.up)
      /\ Sane(Len(told), o.session)
  BY <1>4, SaneNow DEF Sent, Later
<1>6. Answered(session, r, o) BY <1>4 DEF Sent, Unread
<1>7. o.ran /\ Effect(session, r, o) BY <1>2, <1>6 DEF Answered, Gone
<1>8. session.open => o.session.open BY <1>2, <1>7 DEF Effect, Commits, RollsBack
<1> QED BY <1>5, <1>7, <1>8 DEF Keeps, Inside, Sane

LEMMA CommitLocated ==
  ASSUME Typed, Typed', Sound, Located, UNCHANGED workload, Commit
  PROVE  Located'
<1>1. PICK o \in S!SendAndRecv(session, S!Request("COMMIT", Mode)) :
        /\ Takes(o)
        /\ IF o.reply = "ok" /\ ~SessionLost(o.session, transactionGeneration)
             THEN session' = o.session /\ EndTransaction /\ Tell("done")
             ELSE TransactionFails(o.session, o.reply)
  BY DEF Commit
<1>2. Turn("commit") /\ UNCHANGED <<cas, created>> BY DEF Commit
<1>3. "commit" \in CallNames \ Statements BY DEF CallNames, Statements
<1>4. queue # <<>> /\ pc \notin Late BY <1>2, <1>3, TurnIs
<1>5. session' = o.session BY <1>1 DEF TransactionFails
<1>6. CASE o.reply = "ok" /\ ~SessionLost(o.session, transactionGeneration)
  <2>1. EndTransaction /\ Tell("done") BY <1>1, <1>6
  <2>2. autoCommit' BY <2>1 DEF EndTransaction
  <2> QED BY <1>2, <1>4, <2>1, <2>2, TellsLocated
<1>7. CASE SessionLost(o.session, transactionGeneration)
  <2>1. TransactionFails(session', o.reply) BY <1>1, <1>5, <1>7
  <2>2. Tell("failed") /\ autoCommit' BY <1>5, <1>7, <2>1 DEF TransactionFails, EndTransaction
  <2> QED BY <1>2, <1>4, <2>2, TellsLocated
<1>8. CASE o.reply # "ok"
  <2>1. TransactionFails(session', o.reply) BY <1>1, <1>5, <1>8
  <2>2. session'.connected /\ o.reply # "abort" => Keeps(session, session')
    BY <1>1, <1>5, <1>8, RefusedKeeps
  <2> QED BY <1>2, <1>4, <2>1, <2>2, TransactionFailsLocated
<1> QED BY <1>6, <1>7, <1>8

LEMMA RollbackLocated ==
  ASSUME Typed, Typed', Sound, Located, UNCHANGED workload, Rollback
  PROVE  Located'
<1>1. PICK o \in S!SendAndRecv(session, S!Request("ROLLBACK", Mode)) :
        /\ Takes(o)
        /\ IF o.reply = "ok" THEN session' = o.session /\ EndTransaction /\ Tell("done")
                             ELSE TransactionFails(o.session, o.reply)
  BY DEF Rollback
<1>2. Turn("rollback") /\ UNCHANGED <<cas, created>> BY DEF Rollback
<1>3. "rollback" \in CallNames \ Statements BY DEF CallNames, Statements
<1>4. queue # <<>> /\ pc \notin Late BY <1>2, <1>3, TurnIs
<1>5. session' = o.session BY <1>1 DEF TransactionFails
<1>6. CASE o.reply = "ok"
  <2>1. EndTransaction /\ Tell("done") BY <1>1, <1>6
  <2>2. autoCommit' BY <2>1 DEF EndTransaction
  <2> QED BY <1>2, <1>4, <2>1, <2>2, TellsLocated
<1>7. CASE o.reply # "ok"
  <2>1. TransactionFails(session', o.reply) BY <1>1, <1>5, <1>7
  <2>2. session'.connected /\ o.reply # "abort" => Keeps(session, session')
    BY <1>1, <1>5, <1>7, RefusedKeeps
  <2> QED BY <1>2, <1>4, <2>1, <2>2, TransactionFailsLocated
<1> QED BY <1>6, <1>7

\* close() ends the transaction, if there is one.
LEMMA CloseLocated ==
  ASSUME Typed, Typed', Sound, Located, UNCHANGED workload, Close
  PROVE  Located'
<1>1. Turn("close") /\ Tell("done") BY DEF Close
<1>2. "close" \in CallNames \ Statements BY DEF CallNames, Statements
<1>3. queue # <<>> /\ pc \notin Late BY <1>1, <1>2, TurnIs
<1>4. autoCommit'
  <2>1. CASE cas # 0 BY <2>1 DEF Close, EndTransaction
  <2>2. CASE cas = 0 BY <2>2 DEF Close, Sound, Known, transaction
  <2> QED BY <2>1, <2>2
<1>5. InPlace /\ pc' = "idle" BY <1>1, <1>3, TellPlaces
<1>6. Ready' BY <1>5, NotChecked DEF Checked
<1> QED BY <1>4, <1>5, <1>6, RestsLocated

\* The operations of the connection and nothing else.
LEMMA OnlyLocated ==
  ASSUME Typed, Typed', Sound, Located, UNCHANGED workload, queue # <<>>, pc \notin Late,
         GetOrCreateCAS \/ UNCHANGED <<cas, created>>,
         NEW outcomes, NEW next \in {"idle", "version", "checkCas"}, Only(outcomes, next),
         \A o \in outcomes : Takes(o) /\ session' = o.session /\ ~autoCommit => Keeps(session, session')
  PROVE  Located'
<1>1. PICK o \in outcomes :
        /\ Takes(o) /\ session' = o.session
        /\ \/ pc' = next /\ next # "idle" /\ UNCHANGED <<queue, told>>
           \/ \E status \in {"done", "failed"} : Tell(status)
  BY DEF Only
<1>2. UNCHANGED <<transaction, transactions>> BY DEF Only
<1>3. ~autoCommit => Keeps(session, session') BY <1>1
<1>4. CASE \E status \in {"done", "failed"} : Tell(status)
  <2>1. PICK status \in {"done", "failed"} : Tell(status) BY <1>4
  <2>2. autoCommit' = autoCommit BY <1>2 DEF transaction
  <2> QED BY <1>2, <1>3, <2>1, <2>2, TellsLocated
<1>5. CASE pc' = next /\ next # "idle" /\ UNCHANGED <<queue, told>>
  <2>1. pc' \in {"version", "checkCas"} BY <1>5
  <2>2. InPlace
    <3>1. pc' \notin Late /\ pc' # "execute" BY <2>1 DEF Late
    <3> QED BY <1>5, <3>1, UntoldPlaces
  <2>3. ~Unbound /\ Ready' BY <2>1, NotChecked DEF Unbound, Late, Checked
  <2> QED BY <1>2, <1>3, <2>2, <2>3, QuietlyLocated
<1> QED BY <1>1, <1>4, <1>5

LEMMA ConnectsKeep ==
  ASSUME Typed, NEW o \in S!Connect(session)
  PROVE  Keeps(session, o.session)
<1>1. Opens(Len(told), session, o) BY SaneNow, ConnectIs, Zenon
<1> QED BY <1>1, OpensKeeps

LEMMA ConnectNowLocated ==
  ASSUME Typed, Typed', Sound, Located, UNCHANGED workload, ConnectNow
  PROVE  Located'
<1>1. Turn("connect") /\ GetOrCreateCAS /\ Only(S!Connect(session), "idle") BY DEF ConnectNow
<1>2. "connect" \in CallNames \ Statements BY DEF CallNames, Statements
<1>3. queue # <<>> /\ pc \notin Late BY <1>1, <1>2, TurnIs
<1>4. \A o \in S!Connect(session) :
        Takes(o) /\ session' = o.session /\ ~autoCommit => Keeps(session, session')
  BY ConnectsKeep
<1> QED BY <1>1, <1>3, <1>4, OnlyLocated

LEMMA PingConnectsLocated ==
  ASSUME Typed, Typed', Sound, Located, UNCHANGED workload, PingConnects
  PROVE  Located'
<1> DEFINE next == IF autoCommit THEN "version" ELSE "checkCas"
<1>1. Turn("ping") /\ GetOrCreateCAS /\ Only(S!Connect(session), next) BY DEF PingConnects
<1>2. "ping" \in CallNames \ Statements BY DEF CallNames, Statements
<1>3. queue # <<>> /\ pc \notin Late BY <1>1, <1>2, TurnIs
<1>4. \A o \in S!Connect(session) :
        Takes(o) /\ session' = o.session /\ ~autoCommit => Keeps(session, session')
  BY ConnectsKeep
<1>5. next \in {"idle", "version", "checkCas"} OBVIOUS
<1> HIDE DEF next
<1> QED BY <1>1, <1>3, <1>4, <1>5, OnlyLocated

LEMMA PingLocated ==
  ASSUME Typed, Typed', Sound, Located, UNCHANGED workload, PingChecksCas \/ PingReadsVersion
  PROVE  Located'
<1>1. PICK fn \in Functions \ {"COMMIT", "ROLLBACK"}, next \in {"idle", "version"} :
        Only(S!SendAndRecv(session, S!Request(fn, Mode)), next)
  BY DEF PingChecksCas, PingReadsVersion, Functions
<1>2. pc \in {"checkCas", "version"} /\ UNCHANGED <<cas, created>>
  BY DEF PingChecksCas, PingReadsVersion
<1>3. queue # <<>> /\ pc \notin Late BY <1>2, PcRuns DEF Late
<1> DEFINE outcomes == S!SendAndRecv(session, S!Request(fn, Mode))
<1>4. \A o \in outcomes : Takes(o) /\ session' = o.session /\ ~autoCommit => Keeps(session, session')
  BY RequestKeeps
<1>5. Only(outcomes, next) /\ next \in {"idle", "version", "checkCas"} BY <1>1
<1> HIDE DEF outcomes
<1> QED BY <1>2, <1>3, <1>4, <1>5, OnlyLocated

LEMMA SetTransactionOptionsLocated ==
  ASSUME Typed, Typed', Sound, Located, UNCHANGED workload, SetTransactionOptions
  PROVE  Located'
<1> DEFINE outcomes == IF ~autoCommit THEN {S!Outcome(session, "lost", {}, FALSE)}
                       ELSE IF cas = 0 THEN {S!Outcome(session, "ok", {}, FALSE)}
                       ELSE S!SetSessionParameters(session)
<1>1. Turn("setTransactionOptions") /\ UNCHANGED <<cas, created>> /\ Only(outcomes, "idle")
  BY DEF SetTransactionOptions
<1>2. "setTransactionOptions" \in CallNames \ Statements BY DEF CallNames, Statements
<1>3. queue # <<>> /\ pc \notin Late BY <1>1, <1>2, TurnIs
<1>4. ASSUME NEW o \in outcomes, session' = o.session, ~autoCommit
      PROVE  Keeps(session, session')
  <2>1. o = S!Outcome(session, "lost", {}, FALSE) BY <1>4
  <2>2. session' = session BY <1>4, <2>1 DEF S!Outcome
  <2> QED BY <2>2, SaneNow, KeepsSame
<1>5. \A o \in outcomes : Takes(o) /\ session' = o.session /\ ~autoCommit => Keeps(session, session')
  BY <1>4
<1> HIDE DEF outcomes
<1> QED BY <1>1, <1>3, <1>5, OnlyLocated

\* A CAS that is held for a statement does not leave, and one that crashes is not replaced yet.
LEMMA GoesVerified ==
  ASSUME Typed, session' \in S!Leaves(session) \cup S!Crashes(session), Verified(session)
  PROVE  Verified(session') /\ session'.generation = session.generation /\ ~session'.up
<1>1. Goes(Len(told), session, session') /\ session.connected BY SaneNow, GoesIs, Zenon
<1>2. session' \in S!Crashes(session) BY <1>1, Zenon DEF S!Leaves, Verified
<1> DEFINE u == S!Ended(session)
<1>3. session' = [u EXCEPT !.up = FALSE] BY <1>2, Zenon DEF S!Crashes
<1>4. u.casVerified = session.casVerified /\ "casVerified" \in DOMAIN u
  BY SaneNow DEF S!Ended, SessionSet
<1> HIDE DEF u
<1>5. session'.casVerified = session.casVerified BY <1>3, <1>4
<1> QED BY <1>1, <1>5 DEF Goes, Verified

LEMMA CasGoesLocated ==
  ASSUME Typed, Typed', Sound, Located, UNCHANGED workload, CasGoes
  PROVE  Located'
<1>1. /\ session' \in S!Leaves(session) \cup S!Crashes(session)
      /\ UNCHANGED <<cas, created, transaction, backslashModeGeneration, queue, pc, locals, told, transactions>>
  BY DEF CasGoes
<1>2. Goes(Len(told), session, session') /\ session.connected BY <1>1, SaneNow, GoesIs, Zenon
<1>3. Keeps(session, session') BY <1>2, GoesKeeps
<1>4. InPlace BY <1>1, UntoldPlaces
<1>5. ~Unbound BY <1>2 DEF Unbound
<1>6. Ready'
  <2> SUFFICES ASSUME Checked' PROVE Ready'
    BY NotChecked
  <2>1. /\ pc' = pc /\ failure' = failure /\ generation' = generation /\ queue' = queue
        /\ autoCommit' = autoCommit /\ bound' = bound
        /\ backslashModeGeneration' = backslashModeGeneration
    BY <1>1 DEF locals, transaction, bound
  <2>2. Checked BY <2>1 DEF Checked
  <2>3. Verified(session) BY <2>2 DEF Located, Ready
  <2>4. Verified(session') /\ session'.generation = session.generation /\ ~session'.up
    BY <1>1, <2>3, GoesVerified
  <2>5. Running' = Running BY <2>1 DEF Running
  <2> QED BY <2>1, <2>2, <2>4, <2>5 DEF Located, Ready
<1> QED BY <1>1, <1>3, <1>4, <1>5, <1>6, QuietlyLocated

\* A statement that is called has not run.
LEMMA CallLocated ==
  ASSUME Typed, Typed', Sound, Located, UNCHANGED workload, NEW c \in workload.calls, Call(c)
  PROVE  Located'
<1> DEFINE last == Len(told) + 1
           m == Len(queue)
<1>1. Queues BY CallQueues
<1>2. /\ m \in Nat /\ Len(queue') = m + 1 /\ \A k \in 1..m : queue'[k] = queue[k]
      /\ queue'[m + 1].call = c.call /\ queue'[m + 1].escapes = c.escapes
      /\ told'[last].within = 0 /\ told'[last].ranOn = Nowhere /\ told'[last].boundOn = Nowhere
  BY CallIs
<1>3. /\ pc' = pc /\ session' = session /\ generation' = generation /\ failure' = failure
      /\ autoCommit' = autoCommit /\ bound' = bound /\ endReplies' = endReplies
      /\ Transaction' = Transaction
      /\ backslashModeGeneration' = backslashModeGeneration
  BY <1>1 DEF Queues, locals, transaction, bound, endReplies, Transaction, Call
<1>4. /\ last \notin Numbers /\ Numbers' = Numbers \cup {last}
      /\ \A i \in Numbers : told'[i] = told[i]
      /\ queue = <<>> => pc = "idle"
      /\ queue # <<>> => queue' # <<>> /\ id' = id /\ Running' = Running /\ id \in Numbers
  <2>1. Len(queue') # 0 BY <1>2
  <2>2. queue' # <<>> BY <2>1, EmptySeq
  <2> QED BY <1>1, <2>2 DEF Queues
<1>5. GetOrCreateCAS \/ UNCHANGED <<cas, created>> BY DEF Call
<1>6. ~autoCommit => cas' = cas BY <1>5, CasSame
<1>7. Untouched'
  <2>1. Unsent' = Unsent \cup {last} /\ Unsent \subseteq Numbers BY <1>1, <1>3 DEF Queues, Unsent
  <2> QED BY <1>2, <1>4, <2>1 DEF Located, Untouched, Nowhere
<1>8. Called'
  <2>1. Transacts' = Transacts /\ Probes' = Probes BY DEF Transacts, Probes
  <2>2. \A k \in 1..(m + 1) : k \in 1..m \/ k = m + 1 BY <1>2
  <2>3. c.escapes => Probes BY DEF Probes
  <2>4. c.call = "beginTransaction" => Transacts BY DEF Transacts
  <2> QED BY <1>2, <1>3, <2>1, <2>2, <2>3, <2>4 DEF Located, Called
<1>9. Ready'
  <2> SUFFICES ASSUME Checked' PROVE Ready'
    BY NotChecked
  <2>1. Checked BY <1>3 DEF Checked
  <2>2. Running' = Running BY <1>4, <2>1 DEF Checked
  <2> QED BY <1>3, <2>1, <2>2 DEF Located, Ready
<1>10. StillIn' BY <1>3 DEF Located, StillIn
<1>11. Placed'
  <2> SUFFICES ASSUME ~autoCommit, NEW i \in Numbers', told'[i].within = Transaction,
                      told'[i].ranOn # Nowhere
               PROVE  \/ bound # 0 /\ told'[i].ranOn = <<cas, bound>>
                      \/ Unbound' /\ i = id' /\ told'[i].ranOn = <<cas, session.generation>>
    BY <1>3, <1>6 DEF Placed, Nowhere
  <2>1. i \in Numbers /\ told'[i] = told[i] BY <1>2, <1>4
  <2>2. Unbound => Unbound' /\ id' = id BY <1>3, <1>4 DEF Unbound
  <2> QED BY <2>1, <2>2 DEF Located, Placed
<1>12. ToBind' BY <1>3, <1>4 DEF Located, ToBind, Nowhere
<1>13. \A i \in Numbers' : told'[i].ranOn # Nowhere => i \in Numbers /\ told'[i] = told[i]
  BY <1>2, <1>4
<1>14. OneSession'
  <2> SUFFICES ASSUME NEW i \in Numbers', NEW j \in Numbers',
                      told'[i].within # 0, told'[i].within = told'[j].within,
                      told'[i].ranOn # Nowhere, told'[j].ranOn # Nowhere
               PROVE  told'[i].ranOn = told'[j].ranOn
    BY Zenon DEF OneSession, Nowhere
  <2>1. /\ i \in Numbers /\ told'[i] = told[i]
        /\ j \in Numbers /\ told'[j] = told[j]
    BY <1>13
  <2> QED BY <2>1, Zenon DEF Located, OneSession
<1>15. EscapedForItsSession'
  BY <1>13, Zenon DEF Located, EscapedForItsSession, Nowhere
<1> QED BY <1>7, <1>8, <1>9, <1>10, <1>11, <1>12, <1>14, <1>15 DEF Located

-----------------------------------------------------------------------------
(* The theorems about where statements run.                                *)

LEMMA EveryStepLocated ==
  ASSUME ProbesEndNothing, Typed, Typed', Sound, Located, UNCHANGED workload,
         Prepares \/ Runs \/ EndsOrBegins \/ Other \/ CasGoes
  PROVE  Located'
<1>1. CASE Prepares
  BY <1>1, BeginExecuteLocated, BaselineRefusedLocated, BaselineUnreadLocated,
     ReadBaselineLocated, StartRefusedLocated, EnsureSessionLocated, ProbeModeLocated,
     ReleaseProbeLocated DEF Prepares
<1>2. CASE Runs
  BY <1>2, SendStatementLocated, MarkersMismatchLocated, ExecuteHandleLocated,
     FetchWindowLocated, ReadInsertIdLocated, CommitStatementLocated, ReleaseHandleLocated,
     UndoStatementLocated DEF Runs
<1>3. CASE EndsOrBegins
  BY <1>3, BeginRefusedLocated, BeginTransactionLocated, CommitRefusedLocated, CommitLocated,
     RollbackRefusedLocated, RollbackLocated DEF EndsOrBegins
<1>4. CASE Other
  BY <1>4, CloseLocated, ConnectNowLocated, PingConnectsLocated, PingLocated,
     SetTransactionOptionsLocated DEF Other
<1> QED BY <1>1, <1>2, <1>3, <1>4, CasGoesLocated

LEMMA InitLocated ==
  ASSUME Init
  PROVE  Located
<1>1. autoCommit = TRUE /\ queue = <<>> /\ pc = "idle" /\ told = <<>> BY DEF Init
<1>2. Numbers = {} /\ 1..Len(queue) = {} BY <1>1 DEF Numbers
<1>3. Unsent = {} BY <1>1, <1>2 DEF Unsent, Pending, Late
<1>4. Untouched /\ Called /\ StillIn /\ Placed /\ ToBind
  BY <1>1, <1>2, <1>3 DEF Untouched, Called, StillIn, Placed, ToBind
<1>5. Ready BY <1>1 DEF Ready, Checked
<1>6. OneSession /\ EscapedForItsSession BY <1>2 DEF OneSession, EscapedForItsSession
<1> QED BY <1>4, <1>5, <1>6 DEF Located

LEMMA NextLocated ==
  ASSUME ProbesEndNothing, Typed, Typed', Sound, Located, [Next]_vars
  PROVE  Located'
<1>1. CASE UNCHANGED vars
  <2>1. UNCHANGED <<workload, session, cas, created, transaction, queue, pc, told, transactions>>
    BY <1>1 DEF vars, connection
  <2>2. UNCHANGED <<backslashModeGeneration, generation, failure, bound, autoCommit>>
    BY <1>1 DEF vars, locals, transaction, bound
  <2>3. InPlace BY <2>1, UntoldPlaces
  <2>4. Ready' BY <2>1, <2>2 DEF Located, Ready, Checked, Running, Verified
  <2>5. ~autoCommit' => Proceeds
    BY <2>1, <2>2, SaneNow, KeepsSame DEF Proceeds, Unbound, transaction, bound, endReplies
  <2> QED BY <2>3, <2>4, <2>5, RestsLocated
<1>2. CASE Next
  <2>1. UNCHANGED workload BY <1>2 DEF Next
  <2>2. CASE \E c \in workload.calls : Call(c) BY <2>1, <2>2, CallLocated
  <2>3. CASE Prepares \/ Runs \/ EndsOrBegins \/ Other \/ CasGoes
    BY <2>1, <2>3, EveryStepLocated
  <2> QED BY <1>2, <2>2, <2>3 DEF Next
<1> QED BY <1>1, <1>2

LEMMA AlwaysLocated ==
  ASSUME ProbesEndNothing
  PROVE  Spec => []Located
<1>1. Init => Typed /\ Behind /\ Sound /\ Located BY InitTyped, InitSound, InitLocated
<1>2. (Typed /\ Behind /\ Sound /\ Located) /\ [Next]_vars => (Typed /\ Behind /\ Sound /\ Located)'
  <2> SUFFICES ASSUME Typed, Behind, Sound, Located, [Next]_vars
               PROVE  (Typed /\ Behind /\ Sound /\ Located)'
    OBVIOUS
  <2>1. Typed' /\ Behind' BY NextTyped
  <2> QED BY <2>1, NextSound, NextLocated
<1> QED BY <1>1, <1>2, PTL DEF Spec

(* The statements of a transaction run on one session, the first one also if *)
(* its answer was lost: whatever goes, is replaced or is rolled back, no     *)
(* later one starts the transaction over on another session                  *)
(* (transactionGeneration, assertTransactionSession and                      *)
(* bindSessionLostByFirstStatement in native.ts).                            *)
THEOREM OneSessionHolds ==
  ASSUME ProbesEndNothing
  PROVE  Spec => []OneSession
<1>1. Located => OneSession BY DEF Located
<1> QED BY <1>1, AlwaysLocated, PTL

(* Escaped text runs only on the session whose backslash mode it was escaped *)
(* for: nothing between the measurement and the statement replaces the       *)
(* session (ensureSession, ensureBackslashMode in native.ts).                *)
THEOREM EscapedWhereMeasured ==
  ASSUME ProbesEndNothing
  PROVE  Spec => []EscapedForItsSession
<1>1. Located => EscapedForItsSession BY DEF Located
<1> QED BY <1>1, AlwaysLocated, PTL

-----------------------------------------------------------------------------
(* Changes become durable only while a call that asks for it runs.         *)

\* What a step may make durable: nothing, the running statement's own changes, or what
\* the session holds of the open transaction, in the caller's commit().
OwnChange ==
  /\ queue # <<>> /\ told'[id].within = 0
  /\ durable' \subseteq durable \cup {id}
ByCommit ==
  /\ queue # <<>> /\ Running.call = "commit" /\ ~autoCommit
  /\ durable' \subseteq durable \cup session.work
  /\ \A i \in Numbers : told'[i].within = told[i].within
Makes == durable' \subseteq durable \/ OwnChange \/ ByCommit

LEMMA PreparesMakes ==
  ASSUME Typed, Sound, Prepares
  PROVE  Makes
<1>1. CASE BeginExecute \/ BaselineUnread
  BY <1>1 DEF BeginExecute, BaselineUnread, Makes
<1>2. CASE BaselineRefused \/ StartRefused
  BY <1>2 DEF BaselineRefused, StartRefused, NothingAwaited, Makes
<1>3. CASE ReadBaseline
  <2>1. PICK o \in S!SendAndRecv(session, S!Request("GET_LAST_INSERT_ID", Mode)) :
          Takes(o) /\ (session' = o.session \/ session' = S!DiscardSession(o.session))
    BY <1>3 DEF ReadBaseline
  <2>2. "GET_LAST_INSERT_ID" \in Functions \ {"COMMIT", "ROLLBACK"} BY DEF Functions
  <2>3. durable' = durable BY <2>1, <2>2, SentLeaves, ModeIs
  <2> QED BY <2>3 DEF Makes
<1>4. CASE EnsureSession
  <2>1. PICK o \in S!EnsureSession(session) : Takes(o) BY <1>4 DEF EnsureSession
  <2>2. Opens(Len(told), session, o) BY SaneNow, EnsureIs, Zenon
  <2>3. durable' = durable BY <2>1, <2>2, OpensSpares, TakesNothing
  <2> QED BY <2>3 DEF Makes
<1>5. CASE ProbeMode
  <2> DEFINE mode == IF autoCommit THEN "deferred" ELSE Mode
  <2>1. PICK o \in S!SendAndRecv(session, S!Request("PREPARE_AND_EXECUTE", mode)) :
          Takes(o) /\ (session' = o.session \/ session' = S!DiscardSession(o.session))
    BY <1>5 DEF ProbeMode
  <2>2. "PREPARE_AND_EXECUTE" \in Functions \ {"COMMIT", "ROLLBACK"} /\ mode \in S!Modes
    BY ModeIs DEF Functions
  <2>3. durable' = durable BY <2>1, <2>2, SentLeaves
  <2> QED BY <2>3 DEF Makes
<1>6. CASE ReleaseProbe
  <2>1. PICK o \in S!ReleaseOnSession(session, handle, S!Request("CLOSE_REQ_HANDLE", Mode)) :
          Takes(o) /\ session' = o.session
    BY <1>6 DEF ReleaseProbe, CloseQueryHandle
  <2>2. "CLOSE_REQ_HANDLE" \in Functions \ {"COMMIT", "ROLLBACK"} BY DEF Functions
  <2>3. durable' = durable BY <2>1, <2>2, OnSessionLeaves DEF S!ReleaseOnSession
  <2> QED BY <2>3 DEF Makes
<1> QED BY <1>1, <1>2, <1>3, <1>4, <1>5, <1>6 DEF Prepares

\* A statement commits its own changes or, in a transaction, nothing.
LEMMA SendStatementMakes ==
  ASSUME Typed, Sound, SendStatement
  PROVE  Makes
<1> DEFINE fn == IF Running.binds THEN "PREPARE" ELSE "PREPARE_AND_EXECUTE"
           r == Statement(fn)
<1>1. pc = "send" BY DEF SendStatement
<1>2. queue # <<>> /\ (autoCommit /\ ~Deferred => session.work = {}) BY <1>1, SendingIs
<1>3. id \in Numbers /\ told[id] \in ToldSet /\ told \in Seq(ToldSet)
  BY <1>2, RunningIs DEF Typed
<1>4. fn \in Sending /\ fn \in Functions BY DEF Sending, Functions
<1>5. r \in RequestSet(Len(told)) BY <1>2, <1>4, StatementIs, Zenon
<1> DEFINE ran(o) == IF Running.binds THEN told[id].ranOn ELSE Place(o)
           escaped == IF Running.escapes /\ ~Running.binds
                        THEN <<cas, backslashModeGeneration>> ELSE told[id].boundOn
           Reported(o) ==
             \/ Throw(o.session, "lost") \/ Throw(S!DiscardSession(o.session), "lost")
             \/ Throw(o.session, o.reply) \/ session' = o.session \/ UseResult(o.session, o.reply)
<1>6. PICK o \in S!SendAndRecv(session, r) :
        /\ Takes(o) /\ Reported(o)
        /\ told' = [told EXCEPT ![id].within = Transaction, ![id].ranOn = ran(o),
                                ![id].boundOn = escaped]
  BY DEF SendStatement
<1>7. session' = o.session \/ session' = S!DiscardSession(o.session)
  BY <1>6 DEF Throw, UseResult
<1>8. told'[id].within = Transaction
  <2> HIDE DEF ran, escaped
  <2> QED BY <1>3, <1>6 DEF ToldSet, Numbers
<1> HIDE DEF r
<1>9. Sent(Len(told), session, r, o) /\ o \in OutcomeSet(Len(told)) BY <1>5, <1>6, <1>7, SentStep
<1>10. Held(o.session) /\ (Answered(session, r, o) \/ Unread(session, r, o))
  BY <1>9 DEF Sent, Sane
<1> HIDE DEF fn
<1>11. Did(fn, o) BY <1>2, <1>4, <1>9, <1>10, StatementDid DEF r
<1>12. durable' = durable \cup o.durable BY <1>6 DEF Takes
<1>13. autoCommit => Transaction = 0 BY DEF Transaction
<1> QED BY <1>2, <1>8, <1>11, <1>12, <1>13 DEF Did, Makes, OwnChange

LEMMA ExecuteHandleMakes ==
  ASSUME Typed, Sound, ExecuteHandle
  PROVE  Makes
<1> DEFINE fn == "EXECUTE"
           r == Statement(fn)
<1>1. pc = "execute" BY DEF ExecuteHandle
<1>2. queue # <<>> /\ (autoCommit /\ ~Deferred => session.work = {}) BY <1>1, SendingIs
<1>3. id \in Numbers /\ told[id] \in ToldSet /\ told \in Seq(ToldSet)
  BY <1>2, RunningIs DEF Typed
<1>4. fn \in Sending /\ fn \in Functions BY DEF Sending, Functions
<1> HIDE DEF fn
<1>5. r \in RequestSet(Len(told)) BY <1>2, <1>4, StatementIs, Zenon
<1>6. PICK o \in S!SendAndRecvOnSession(session, generation, r) :
       /\ Takes(o)
       /\ told' = [told EXCEPT ![id].ranOn = Place(o)]
       /\ UseResult(o.session, o.reply) \/ Throw(o.session, o.reply)
  BY DEF ExecuteHandle, fn
<1> HIDE DEF r
<1>7. o \in S!OnSession(session, generation, r, TRUE) BY <1>6 DEF S!SendAndRecvOnSession
<1>8. session' = o.session \/ session' = S!DiscardSession(o.session)
  BY <1>6 DEF Throw, UseResult
<1>9. /\ o \in OutcomeSet(Len(told))
      /\ Absent(Len(told), session, generation, o) \/ Exchanged(Len(told), session, r, o)
  BY <1>5, <1>6, <1>7, <1>8, OnSessionStep
<1>10. told'[id].within = told[id].within BY <1>3, <1>6 DEF ToldSet, Numbers
<1>11. told[id].within = Transaction BY <1>1 DEF Sound, Listed, Late
<1>12. autoCommit => Transaction = 0 BY DEF Transaction
<1>13. durable' = durable \cup o.durable BY <1>6 DEF Takes
<1>14. o.durable \subseteq {id} /\ (~autoCommit => o.durable = {})
  <2>1. CASE Absent(Len(told), session, generation, o) BY <2>1 DEF Absent
  <2>2. CASE Exchanged(Len(told), session, r, o)
    <3>1. Held(o.session) /\ (Answered(session, r, o) \/ Unread(session, r, o))
      BY <2>2 DEF Exchanged, Sane
    <3>2. Did(fn, o) BY <1>2, <1>4, <1>9, <3>1, StatementDid DEF r
    <3> QED BY <3>2 DEF Did
  <2> QED BY <1>9, <2>1, <2>2
<1> QED BY <1>2, <1>10, <1>11, <1>12, <1>13, <1>14 DEF Makes, OwnChange

\* Its own COMMIT finds no other statement's changes in the session.
LEMMA CommitStatementMakes ==
  ASSUME Typed, Sound, CommitStatement
  PROVE  Makes
<1> DEFINE r == S!Request("COMMIT", Mode)
<1>1. PICK o \in S!SendAndRecvOnSession(session, generation, r) :
        Takes(o) /\ (session' = o.session \/ Throw(o.session, o.reply))
  BY DEF CommitStatement
<1>2. pc = "commit" /\ told' = told BY DEF CommitStatement
<1>3. queue # <<>> /\ Deferred /\ autoCommit
  BY <1>2, PcRuns DEF Sound, Known, Deferred
<1>4. session.work \subseteq {id} BY <1>2, <1>3 DEF Sound, Uncommitted, Alone, Late
<1>5. told[id].within = 0 BY <1>2, <1>3 DEF Sound, Listed, Late, Transaction
<1>6. r \in RequestSet(Len(told)) /\ r.fn = "COMMIT"
  <2>1. "COMMIT" \in Functions /\ Mode \in S!Modes /\ Len(told) \in Nat
    BY ModeIs, SaneNow DEF Functions
  <2> QED BY <2>1, RequestIs
<1> HIDE DEF r
<1>7. o \in S!OnSession(session, generation, r, TRUE) BY <1>1 DEF S!SendAndRecvOnSession
<1>8. session' = o.session \/ session' = S!DiscardSession(o.session) BY <1>1 DEF Throw
<1>9. Absent(Len(told), session, generation, o) \/ Exchanged(Len(told), session, r, o)
  BY <1>1, <1>6, <1>7, <1>8, OnSessionStep
<1>10. o.durable \subseteq session.work
  BY <1>6, <1>9
     DEF Absent, Exchanged, Answered, Unread, Unheard, Gone, Effect, Commits
<1>11. durable' = durable \cup o.durable BY <1>1 DEF Takes
<1> QED BY <1>2, <1>3, <1>4, <1>5, <1>10, <1>11 DEF Makes, OwnChange

\* Fetching, asking for the id, releasing the handle and rolling back commit nothing.
LEMMA RunsMakes ==
  ASSUME Typed, Sound, Runs
  PROVE  Makes
<1>1. CASE MarkersMismatch BY <1>1 DEF MarkersMismatch, NothingAwaited, Makes
<1>2. CASE FetchWindow
  <2>1. PICK o \in S!SendAndRecvOnSession(session, handle, S!Request("FETCH", Mode)) :
          Takes(o) /\ (session' = o.session \/ Throw(o.session, o.reply))
    <3> DEFINE r == S!Request("FETCH", Mode)
    <3> HIDE DEF r
    <3>1. PICK o \in S!SendAndRecvOnSession(session, handle, r) :
            /\ Takes(o)
            /\ CASE o.reply = "ok" -> session' = o.session /\ Finish /\ UNCHANGED <<failure, baseline>>
                 [] o.reply = "more" -> session' = o.session /\ UNCHANGED <<pc, failure, baseline>>
                 [] OTHER -> Throw(o.session, o.reply)
      BY <1>2 DEF FetchWindow, r
    <3>2. session' = o.session \/ Throw(o.session, o.reply) BY <3>1, Zenon
    <3> QED BY <3>1, <3>2 DEF r
  <2>2. "FETCH" \in Functions \ {"COMMIT", "ROLLBACK"} BY DEF Functions
  <2>3. session' = o.session \/ session' = S!DiscardSession(o.session) BY <2>1 DEF Throw
  <2>4. durable' = durable BY <2>1, <2>2, <2>3, OnSessionLeaves DEF S!SendAndRecvOnSession
  <2> QED BY <2>4 DEF Makes
<1>3. CASE ReadInsertId
  <2>1. PICK o \in S!SendAndRecv(session, S!Request("GET_LAST_INSERT_ID", Mode)) :
          Takes(o) /\ (session' = o.session \/ Throw(o.session, o.reply))
    BY <1>3 DEF ReadInsertId
  <2>2. "GET_LAST_INSERT_ID" \in Functions \ {"COMMIT", "ROLLBACK"} BY DEF Functions
  <2>3. session' = o.session \/ session' = S!DiscardSession(o.session) BY <2>1 DEF Throw
  <2>4. durable' = durable BY <2>1, <2>2, <2>3, SentLeaves, ModeIs
  <2> QED BY <2>4 DEF Makes
<1>4. CASE ReleaseHandle
  <2>1. PICK o \in S!ReleaseOnSession(session, handle, S!Request("CLOSE_REQ_HANDLE", Mode)) :
          Takes(o) /\ (session' = o.session \/ session' = S!DiscardSession(o.session))
    BY <1>4 DEF ReleaseHandle
  <2>2. "CLOSE_REQ_HANDLE" \in Functions \ {"COMMIT", "ROLLBACK"} BY DEF Functions
  <2>3. durable' = durable BY <2>1, <2>2, OnSessionLeaves DEF S!ReleaseOnSession
  <2> QED BY <2>3 DEF Makes
<1>5. CASE UndoStatement
  <2>1. PICK o \in IF Deferred
                     THEN S!SendAndRecvOnSession(session, generation, S!Request("ROLLBACK", Mode))
                     ELSE {S!Outcome(session, "absent", {}, FALSE)} : Takes(o)
    BY <1>5 DEF UndoStatement
  <2>2. pc = "undo" BY <1>5 DEF UndoStatement
  <2>3. o.durable = {}
    <3>1. CASE Deferred BY <2>1, <2>2, <3>1, UndoLeaves
    <3>2. CASE ~Deferred BY <2>1, <3>2 DEF S!Outcome
    <3> QED BY <3>1, <3>2
  <2> QED BY <2>1, <2>3, TakesNothing DEF Makes
<1> QED BY <1>1, <1>2, <1>3, <1>4, <1>5, SendStatementMakes, ExecuteHandleMakes,
           CommitStatementMakes DEF Runs

\* COMMIT commits what the open transaction did; without one there is nothing.
LEMMA EndsOrBeginsMakes ==
  ASSUME Typed, Sound, EndsOrBegins
  PROVE  Makes
<1>1. CASE BeginRefused BY <1>1 DEF BeginRefused, Makes
<1>2. CASE BeginTransaction
  <2>1. PICK o \in S!Connect(session) : Takes(o) /\ session' = o.session
    BY <1>2 DEF BeginTransaction
  <2> QED BY <2>1, OpensQuietly DEF Makes
<1>3. CASE CommitRefused \/ RollbackRefused
  BY <1>3 DEF CommitRefused, RollbackRefused, NothingAwaited, Makes
<1>4. CASE Commit
  <2>1. PICK o \in S!SendAndRecv(session, S!Request("COMMIT", Mode)) :
          /\ Takes(o) /\ session' = o.session
          /\ \E status \in {"done", "failed"} : Tell(status)
    BY <1>4 DEF Commit, TransactionFails
  <2>2. Turn("commit") /\ "commit" \in CallNames \ Statements
    BY <1>4 DEF Commit, CallNames, Statements
  <2>3. queue # <<>> /\ Running.call = "commit" /\ (autoCommit => session.work = {})
    BY <2>2, TurnIs DEF Turn
  <2>4. Ending("COMMIT", o) BY <2>1, EndingIs
  <2>5. durable' \subseteq durable \cup session.work BY <2>4 DEF Ending
  <2>6. \A i \in Numbers : told'[i].within = told[i].within BY <2>1, <2>3, TellConcludes
  <2> QED BY <2>3, <2>5, <2>6 DEF Makes, ByCommit
<1>5. CASE Rollback
  <2>1. PICK o \in S!SendAndRecv(session, S!Request("ROLLBACK", Mode)) :
          Takes(o) /\ session' = o.session
    BY <1>5 DEF Rollback, TransactionFails
  <2>2. Ending("ROLLBACK", o) BY <2>1, EndingIs
  <2> QED BY <2>2 DEF Ending, Makes
<1> QED BY <1>1, <1>2, <1>3, <1>4, <1>5 DEF EndsOrBegins

\* The other calls, and the CAS that goes, commit nothing.
LEMMA OtherMakes ==
  ASSUME Typed, Sound, Other \/ CasGoes
  PROVE  Makes
<1>1. CASE Close \/ CasGoes BY <1>1 DEF Close, CasGoes, Makes
<1>2. CASE ConnectNow \/ PingConnects
  <2>1. PICK o \in S!Connect(session) : Takes(o) /\ session' = o.session
    BY <1>2 DEF ConnectNow, PingConnects, Only
  <2> QED BY <2>1, OpensQuietly DEF Makes
<1>3. CASE PingChecksCas \/ PingReadsVersion
  <2>1. PICK fn \in {"CHECK_CAS", "GET_DB_VERSION"} :
          \E o \in S!SendAndRecv(session, S!Request(fn, Mode)) : Takes(o) /\ session' = o.session
    BY <1>3 DEF PingChecksCas, PingReadsVersion, Only
  <2> QED BY <2>1, SendsQuietly DEF Makes
<1>4. CASE SetTransactionOptions
  <2> DEFINE outcomes == IF ~autoCommit THEN {S!Outcome(session, "lost", {}, FALSE)}
                         ELSE IF cas = 0 THEN {S!Outcome(session, "ok", {}, FALSE)}
                         ELSE S!SetSessionParameters(session)
  <2>1. PICK o \in outcomes : Takes(o)
    BY <1>4 DEF SetTransactionOptions, Only
  <2>2. o.durable = {}
    <3>1. CASE o \in S!SetSessionParameters(session)
      <4>1. Applies(Len(told), session, o) BY <3>1, SaneNow, SetParametersIs, Zenon
      <4> QED BY <4>1 DEF Applies
    <3> QED BY <3>1 DEF S!Outcome
  <2> QED BY <2>1, <2>2, TakesNothing DEF Makes
<1> QED BY <1>1, <1>2, <1>3, <1>4 DEF Other

LEMMA NextMakes ==
  ASSUME Typed, Sound, [Next]_vars
  PROVE  Makes
<1>1. CASE UNCHANGED vars BY <1>1 DEF vars, Makes
<1>2. CASE \E c \in workload.calls : Call(c) BY <1>2 DEF Call, Makes
<1> QED BY <1>1, <1>2, PreparesMakes, RunsMakes, EndsOrBeginsMakes, OtherMakes DEF Next

(* No change becomes durable but by the statement that made it, while it is  *)
(* running outside of a transaction, or by the commit() of the transaction   *)
(* it is part of, while that is open: never later by a ping, another         *)
(* statement or another commit (runStatement, endStatementTransaction,       *)
(* discardSession, endTransactionIfSessionLost in native.ts).                *)
THEOREM CommittedOnlyAsAsked == Spec => CommittedAsAsked
<1> DEFINE Asked(i) ==
      /\ queue # <<>>
      /\ IF told'[i].within = 0 THEN Running.id = i
         ELSE Running.call = "commit" /\ ~autoCommit /\ told[i].within = Transaction
<1>1. Typed /\ Sound /\ [Next]_vars => [\A i \in durable' \ durable : Asked(i)]_vars
  <2> SUFFICES ASSUME Typed, Sound, [Next]_vars, NEW i \in durable' \ durable
               PROVE  Asked(i)
    OBVIOUS
  <2>1. Makes BY NextMakes
  <2>2. CASE OwnChange BY <2>2 DEF OwnChange, id
  <2>3. CASE ByCommit
    <3>1. i \in session.work /\ session.work \subseteq Numbers BY <2>3, SaneNow DEF ByCommit, SessionSet, Numbers
    <3>2. told[i].within = Transaction /\ Transaction # 0
      BY <2>3, <3>1, OpenIs DEF ByCommit, Sound, Uncommitted
    <3> QED BY <2>3, <3>1, <3>2 DEF ByCommit
  <2> QED BY <2>1, <2>2, <2>3 DEF Makes
<1> HIDE DEF Asked
<1> QED BY <1>1, AlwaysSound, PTL DEF Spec, CommittedAsAsked, Asked

=============================================================================
