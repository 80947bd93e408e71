---------------------------- MODULE Adapter_proofs ----------------------------
(***************************************************************************)
(* What a statement and a transaction can rely on (native.ts), for any     *)
(* calls, any number of faults and any order in which sessions come and    *)
(* go.  First what each operation of the connection may do to its session, *)
(* then what each action of the adapter does with it.                      *)
(***************************************************************************)
EXTENDS Adapter, SequenceTheorems, TLAPS

Replied == {"ok", "more", "error", "abort", "malformed", "undecodable", "lost", "absent"}

SessionSet(n) ==
  [connected : BOOLEAN, generation : Nat, outOfTransaction : BOOLEAN, casVerified : BOOLEAN,
   failedExchanges : Nat, outOfTransactionReplies : Nat, up : BOOLEAN, open : BOOLEAN,
   work : SUBSET (1..n), lastId : Ids \cup {0}, author : 0..n]

OutcomeSet(n) ==
  [session : SessionSet(n), reply : Replied, durable : SUBSET (1..n), ran : BOOLEAN,
   unknown : BOOLEAN, cost : Nat]

\* The functions that are requested.
Functions ==
  {"PREPARE", "EXECUTE", "PREPARE_AND_EXECUTE", "FETCH", "GET_LAST_INSERT_ID", "GET_DB_VERSION",
   "CHECK_CAS", "COMMIT", "ROLLBACK", "CLOSE_REQ_HANDLE"}

\* Requests of the n statements called so far: one that writes is one of them.
RequestSet(n) ==
  {r \in [fn : Functions, mode : S!Modes, id : 0..n, writes : BOOLEAN] : r.writes => r.id \in 1..n}

\* The statement whose changes a request makes, if any.
Changes(r) == IF r.fn \in S!Executing /\ r.writes THEN {r.id} ELSE {}

\* Only an open transaction of a CAS that is there holds work.
Held(s) == (s.up => s.connected) /\ (s.open => s.up) /\ (s.work # {} => s.open)

\* Between two operations the client knows of the transaction that is open.
Sane(n, s) ==
  /\ s \in SessionSet(n) /\ Held(s)
  /\ s.open => ~s.outOfTransaction
  /\ s.connected => s.generation # 0

\* Who wrote the last AUTO_INCREMENT value.
Authored(s, r, t) ==
  (t.lastId = s.lastId /\ t.author = s.author) \/ (r.writes /\ t.author = r.id)

\* What the CAS does to the session leaves the client's side of it alone.
Kept(n, s, r, t) ==
  /\ t \in SessionSet(n) /\ Held(t) /\ Authored(s, r, t)
  /\ t.connected = s.connected /\ t.up = s.up /\ t.generation = s.generation
  /\ t.failedExchanges = s.failedExchanges
  /\ t.outOfTransactionReplies = s.outOfTransactionReplies

\* What becomes of the work, by how the request is to be taken.
Commits(s, o) ==
  \/ o.reply = "ok" /\ o.durable = s.work /\ o.session.work = {}
  \/ /\ o.reply = "error" /\ o.durable = {} /\ o.session.work = s.work
     /\ s.open => o.session.open
  \/ o.reply = "abort" /\ o.durable = {} /\ o.session.work = {}

RollsBack(o) == o.reply = "ok" /\ o.durable = {} /\ o.session.work = {}

Autocommits(s, r, o) ==
  /\ o.durable \subseteq s.work \cup Changes(r) /\ o.session.work \subseteq s.work
  /\ o.reply = "ok" => Changes(r) \subseteq o.durable
  /\ o.reply = "more" => Changes(r) = {}
  /\ o.reply # "abort"

Works(s, r, o) ==
  /\ o.durable = {}
  /\ s.open \/ r.fn \in S!Executing \cup {"PREPARE"} => o.session.open
  /\ \/ o.reply \notin {"error", "abort"} /\ o.session.work = s.work \cup Changes(r)
     \/ o.reply = "error" /\ o.session.work = s.work
     \/ /\ o.reply = "abort" /\ o.session.work = {}
        /\ r.fn \in S!Executing \cup {"PREPARE", "FETCH"}

Effect(s, r, o) ==
  /\ r.fn = "COMMIT" => Commits(s, o)
  /\ r.fn = "ROLLBACK" => RollsBack(o)
  /\ r.fn \notin {"COMMIT", "ROLLBACK"} /\ r.mode = "autocommit" => Autocommits(s, r, o)
  /\ r.fn \notin {"COMMIT", "ROLLBACK"} /\ r.mode # "autocommit" => Works(s, r, o)
  /\ r.fn = "CLOSE_REQ_HANDLE" /\ s.open => o.session.open

\* What a CAS does with a request, before the client has read the reply.
Served(n, s, r, o) ==
  /\ o \in OutcomeSet(n) /\ ~o.unknown /\ o.ran /\ o.reply \notin {"lost", "absent"}
  /\ Kept(n, s, r, o.session) /\ Effect(s, r, o)

-----------------------------------------------------------------------------
(* What a CAS does with a request.                                         *)

\* Outcome o leaves session t, with this reply and these changes durable.
Leaving(n, o, t, reply, d) ==
  /\ o \in OutcomeSet(n) /\ o.session = t /\ o.reply = reply /\ o.durable = d
  /\ ~o.unknown /\ o.ran

LEMMA OutcomeIs ==
  ASSUME NEW n \in Nat, NEW t \in SessionSet(n), NEW reply \in Replied, NEW d \in SUBSET (1..n),
         NEW o, o = S!Outcome(t, reply, d, TRUE)
  PROVE  Leaving(n, o, t, reply, d)
BY DEF S!Outcome, OutcomeSet, Leaving

LEMMA OpenedIs ==
  ASSUME NEW n \in Nat, NEW s \in SessionSet(n), Held(s), s.up, NEW r
  PROVE  /\ Kept(n, s, r, S!Opened(s)) /\ S!Opened(s).open /\ S!Opened(s).work = s.work
         /\ Kept(n, s, r, S!Ended(s)) /\ ~S!Ended(s).open /\ S!Ended(s).work = {}
         /\ Kept(n, s, r, s)
BY DEF S!Opened, S!Ended, SessionSet, Kept, Held, Authored

LEMMA KeptTwice ==
  ASSUME NEW n, NEW s, NEW r, NEW t, NEW u, Kept(n, s, r, t), Kept(n, t, r, u)
  PROVE  Kept(n, s, r, u)
BY DEF Kept, Authored

LEMMA GeneratesIs ==
  ASSUME NEW n \in Nat, NEW s \in SessionSet(n), Held(s), NEW r \in RequestSet(n),
         NEW t \in S!Generates(s, r)
  PROVE  Kept(n, s, r, t) /\ t.open = s.open /\ t.work = s.work
<1>1. CASE t = s BY <1>1 DEF Kept, Authored
<1>2. CASE r.writes /\ \E v \in Ids : t = [s EXCEPT !.lastId = v, !.author = r.id]
  BY <1>2 DEF SessionSet, RequestSet, Kept, Authored, Held
<1> QED BY <1>1, <1>2 DEF S!Generates

LEMMA RanIs ==
  ASSUME NEW n \in Nat, NEW s \in SessionSet(n), Held(s), s.up, NEW r \in RequestSet(n),
         r.fn \in S!Executing, NEW t \in S!Ran(s, r)
  PROVE  Kept(n, s, r, t) /\ t.open /\ t.work = s.work \cup Changes(r)
<1>1. PICK u \in S!Generates(s, r) :
        t = S!Opened([u EXCEPT !.work = @ \cup IF r.writes THEN {r.id} ELSE {}])
  BY DEF S!Ran
<1>2. Kept(n, s, r, u) /\ u.work = s.work BY GeneratesIs, Zenon
<1> DEFINE w == u.work \cup IF r.writes THEN {r.id} ELSE {}
<1>3. w \in SUBSET (1..n) BY <1>2 DEF RequestSet, SessionSet, Kept
<1>4. w = s.work \cup Changes(r) BY <1>2 DEF Changes
<1>5. t = S!Opened([u EXCEPT !.work = w]) BY <1>1, <1>2 DEF SessionSet, Kept
<1> HIDE DEF w
<1>6. t = [u EXCEPT !.work = w, !.open = TRUE] BY <1>2, <1>5 DEF SessionSet, Kept, S!Opened
<1>7. /\ t \in SessionSet(n) /\ t.work = w /\ t.open
      /\ t.lastId = u.lastId /\ t.author = u.author
      /\ t.connected = u.connected /\ t.up = u.up /\ t.generation = u.generation
      /\ t.failedExchanges = u.failedExchanges
      /\ t.outOfTransactionReplies = u.outOfTransactionReplies
  BY <1>2, <1>3, <1>6 DEF SessionSet, Kept
<1> QED BY <1>2, <1>4, <1>7 DEF Kept, Authored, Held

\* The outcomes of a statement that the server executes: t is the session it ran in.
Executed(r, t, o) ==
  \/ r.mode = "autocommit" /\ o = S!Outcome(S!Ended(t), "ok", t.work, TRUE)
  \/ r.mode # "autocommit" /\ o = S!Outcome(t, "ok", {}, TRUE)
  \/ ~r.writes /\ o = S!Outcome(t, "more", {}, TRUE)

LEMMA AcceptedExecuting ==
  ASSUME NEW s, NEW r, NEW o \in S!Accepted(s, r), r.fn \in S!Executing
  PROVE  \E t \in S!Ran(s, r) : Executed(r, t, o)
<1>1. \/ o \in {IF r.mode = "autocommit" THEN S!Committed(t, TRUE) ELSE S!Outcome(t, "ok", {}, TRUE)
                : t \in S!Ran(s, r)}
      \/ o \in {S!Outcome(t, "more", {}, TRUE) : t \in IF r.writes THEN {} ELSE S!Ran(s, r)}
  BY Zenon DEF S!Accepted, S!Executing
<1>2. CASE o \in {IF r.mode = "autocommit" THEN S!Committed(t, TRUE) ELSE S!Outcome(t, "ok", {}, TRUE)
                    : t \in S!Ran(s, r)}
  <2>1. PICK t \in S!Ran(s, r) :
          o = IF r.mode = "autocommit" THEN S!Committed(t, TRUE) ELSE S!Outcome(t, "ok", {}, TRUE)
    BY <1>2, Zenon
  <2> QED BY <2>1, Zenon DEF S!Committed, Executed
<1>3. CASE o \in {S!Outcome(t, "more", {}, TRUE) : t \in IF r.writes THEN {} ELSE S!Ran(s, r)}
  BY <1>3, Zenon DEF Executed
<1> QED BY <1>1, <1>2, <1>3, Zenon

\* The outcomes of every other request that it serves.
LEMMA AcceptedOther ==
  ASSUME NEW s, NEW r, NEW o \in S!Accepted(s, r), r.fn \notin S!Executing
  PROVE  \/ /\ r.fn = "COMMIT" \/ (r.mode = "autocommit" /\ r.fn \in {"FETCH", "GET_DB_VERSION"})
            /\ o = S!Outcome(S!Ended(s), "ok", s.work, TRUE)
         \/ /\ r.fn \notin {"COMMIT", "ROLLBACK", "PREPARE"}
            /\ o = S!Outcome(s, "ok", {}, TRUE) \/ o = S!Outcome(s, "more", {}, TRUE)
         \/ r.fn = "PREPARE" /\ o = S!Outcome(S!Opened(s), "ok", {}, TRUE)
         \/ r.fn = "ROLLBACK" /\ o = S!Outcome(S!Ended(s), "ok", {}, TRUE)
<1>1. CASE r.fn = "FETCH" BY <1>1, Zenon DEF S!Accepted, S!Committed, S!Executing
<1>2. CASE r.fn # "FETCH" BY <1>2, Zenon DEF S!Accepted, S!Committed, S!Executing
<1> QED BY <1>1, <1>2, Zenon

\* The server does what it is asked.
LEMMA AcceptedServed ==
  ASSUME NEW n \in Nat, NEW s \in SessionSet(n), Held(s), s.up, NEW r \in RequestSet(n),
         NEW o \in S!Accepted(s, r)
  PROVE  Served(n, s, r, o) /\ o.reply \in {"ok", "more"}
<1>1. /\ "ok" \in Replied /\ "more" \in Replied /\ {} \in SUBSET (1..n) /\ s.work \in SUBSET (1..n)
      /\ s \in SessionSet(n)
  BY DEF Replied, SessionSet
<1>2. CASE r.fn \in S!Executing
  <2>1. PICK t \in S!Ran(s, r) : Executed(r, t, o)
    BY <1>2, AcceptedExecuting, Zenon
  <2>2. Kept(n, s, r, t) /\ t.open /\ t.work = s.work \cup Changes(r) BY <1>2, RanIs, Zenon
  <2>3. t \in SessionSet(n) /\ Held(t) /\ t.up BY <2>2 DEF Kept
  <2>4. t.work \in SUBSET (1..n) BY <2>3 DEF SessionSet
  <2>5. Kept(n, s, r, S!Ended(t)) /\ S!Ended(t).work = {} /\ S!Ended(t) \in SessionSet(n)
    <3>1. Kept(n, t, r, S!Ended(t)) /\ S!Ended(t).work = {} BY <2>3, OpenedIs, Zenon
    <3> QED BY <2>2, <3>1, KeptTwice, Zenon DEF Kept
  <2>6. r.fn # "COMMIT" /\ r.fn # "ROLLBACK" /\ r.fn # "CLOSE_REQ_HANDLE" BY <1>2 DEF S!Executing
  <2>7. CASE r.mode = "autocommit" /\ o = S!Outcome(S!Ended(t), "ok", t.work, TRUE)
    <3>1. Leaving(n, o, S!Ended(t), "ok", t.work)
      BY <1>1, <2>4, <2>5, <2>7, OutcomeIs, Zenon
    <3>2. Effect(s, r, o) BY <2>2, <2>5, <2>6, <2>7, <3>1 DEF Effect, Leaving, Autocommits
    <3> QED BY <2>5, <3>1, <3>2 DEF Served, Leaving
  <2>8. CASE r.mode # "autocommit" /\ o = S!Outcome(t, "ok", {}, TRUE)
    <3>1. Leaving(n, o, t, "ok", {})
      BY <1>1, <2>3, <2>8, OutcomeIs, Zenon
    <3>2. Effect(s, r, o) BY <2>2, <2>6, <2>8, <3>1 DEF Effect, Leaving, Works
    <3> QED BY <2>2, <3>1, <3>2 DEF Served, Leaving
  <2>9. CASE ~r.writes /\ o = S!Outcome(t, "more", {}, TRUE)
    <3>1. Leaving(n, o, t, "more", {})
      BY <1>1, <2>3, <2>9, OutcomeIs, Zenon
    <3>2. Changes(r) = {} BY <2>9 DEF Changes
    <3>3. Effect(s, r, o) BY <2>2, <2>6, <3>1, <3>2 DEF Effect, Leaving, Works, Autocommits
    <3> QED BY <2>2, <3>1, <3>3 DEF Served, Leaving
  <2> QED BY <2>1, <2>7, <2>8, <2>9, Zenon DEF Executed
<1>3. CASE r.fn \notin S!Executing
  <2>1. Changes(r) = {} BY <1>3 DEF Changes
  <2>2. CASE /\ r.fn = "COMMIT" \/ (r.mode = "autocommit" /\ r.fn \in {"FETCH", "GET_DB_VERSION"})
             /\ o = S!Outcome(S!Ended(s), "ok", s.work, TRUE)
    <3>1. Kept(n, s, r, S!Ended(s)) /\ S!Ended(s).work = {} /\ S!Ended(s) \in SessionSet(n)
      BY OpenedIs, Zenon DEF Kept
    <3>2. Leaving(n, o, S!Ended(s), "ok", s.work)
      BY <1>1, <2>2, <3>1, OutcomeIs, Zenon
    <3>3. Effect(s, r, o) BY <2>1, <2>2, <3>1, <3>2 DEF Effect, Leaving, Commits, Autocommits
    <3> QED BY <3>1, <3>2, <3>3 DEF Served, Leaving
  <2>3. CASE /\ r.fn \notin {"COMMIT", "ROLLBACK", "PREPARE"}
             /\ o = S!Outcome(s, "ok", {}, TRUE) \/ o = S!Outcome(s, "more", {}, TRUE)
    <3>1. Leaving(n, o, s, "ok", {}) \/ Leaving(n, o, s, "more", {})
      <4>1. CASE o = S!Outcome(s, "ok", {}, TRUE) BY <1>1, <4>1, OutcomeIs, Zenon
      <4>2. CASE o = S!Outcome(s, "more", {}, TRUE) BY <1>1, <4>2, OutcomeIs, Zenon
      <4> QED BY <2>3, <4>1, <4>2, Zenon
    <3>2. Kept(n, s, r, s) BY OpenedIs, Zenon
    <3>3. Effect(s, r, o) BY <1>3, <2>1, <2>3, <3>1 DEF Effect, Leaving, Works, Autocommits
    <3> QED BY <3>1, <3>2, <3>3 DEF Served, Leaving
  <2>4. CASE r.fn = "PREPARE" /\ o = S!Outcome(S!Opened(s), "ok", {}, TRUE)
    <3>1. /\ Kept(n, s, r, S!Opened(s)) /\ S!Opened(s).work = s.work /\ S!Opened(s).open
          /\ S!Opened(s) \in SessionSet(n)
      BY OpenedIs, Zenon DEF Kept
    <3>2. Leaving(n, o, S!Opened(s), "ok", {})
      BY <1>1, <2>4, <3>1, OutcomeIs, Zenon
    <3>3. Effect(s, r, o) BY <2>1, <2>4, <3>1, <3>2 DEF Effect, Leaving, Works, Autocommits
    <3> QED BY <3>1, <3>2, <3>3 DEF Served, Leaving
  <2>5. CASE r.fn = "ROLLBACK" /\ o = S!Outcome(S!Ended(s), "ok", {}, TRUE)
    <3>1. Kept(n, s, r, S!Ended(s)) /\ S!Ended(s).work = {} /\ S!Ended(s) \in SessionSet(n)
      BY OpenedIs, Zenon DEF Kept
    <3>2. Leaving(n, o, S!Ended(s), "ok", {})
      BY <1>1, <2>5, <3>1, OutcomeIs, Zenon
    <3>3. Effect(s, r, o) BY <2>5, <3>1, <3>2 DEF Effect, Leaving, RollsBack
    <3> QED BY <3>1, <3>2, <3>3 DEF Served, Leaving
  <2> QED BY <1>3, <2>2, <2>3, <2>4, <2>5, AcceptedOther, Zenon
<1> QED BY <1>2, <1>3, Zenon

\* The session that a refused request leaves: the statement is undone, or everything.
Undone(s, r, t) ==
  /\ r.fn # "ROLLBACK"
  /\ \/ /\ r.fn \in S!Executing \cup {"FETCH"} /\ r.mode = "autocommit"
        /\ \E u \in S!Generates(s, r) : t = S!Ended(u)
     \/ r.fn \in S!Executing /\ \E u \in S!Generates(s, r) : t = S!Opened(u)
     \/ r.fn = "PREPARE" /\ t = S!Opened(s)
     \/ r.fn \notin S!Executing \cup {"PREPARE"} /\ t = s

RefusedAs(s, r, t, o) == Undone(s, r, t) /\ o = S!Outcome(t, "error", {}, TRUE)

LEMMA RefusedIs ==
  ASSUME NEW s, NEW r, NEW o \in S!Refused(s, r)
  PROVE  \E t : RefusedAs(s, r, t, o)
<1>1. PICK t \in CASE r.fn = "ROLLBACK" -> {}
                   [] r.fn \in S!Executing \cup {"FETCH"} /\ r.mode = "autocommit" ->
                        {S!Ended(u) : u \in S!Generates(s, r)}
                   [] r.fn \in S!Executing /\ r.mode # "autocommit" ->
                        {S!Opened(u) : u \in S!Generates(s, r)}
                   [] r.fn = "PREPARE" -> {S!Opened(s)}
                   [] OTHER -> {s} : o = S!Outcome(t, "error", {}, TRUE)
  BY Zenon DEF S!Refused
<1>2. Undone(s, r, t)
  <2>1. CASE r.fn = "ROLLBACK" BY <1>1, <2>1, Zenon DEF S!Executing
  <2>2. CASE r.fn \in S!Executing \cup {"FETCH"} /\ r.mode = "autocommit" /\ r.fn # "ROLLBACK"
    BY <1>1, <2>2, Zenon DEF S!Executing, Undone
  <2>3. CASE r.fn \in S!Executing /\ r.mode # "autocommit" /\ r.fn # "ROLLBACK"
    BY <1>1, <2>3, Zenon DEF S!Executing, Undone
  <2>4. CASE r.fn \notin S!Executing /\ r.fn # "ROLLBACK" /\ ~(r.fn = "FETCH" /\ r.mode = "autocommit")
    BY <1>1, <2>4, Zenon DEF S!Executing, Undone
  <2> QED BY <2>1, <2>2, <2>3, <2>4, Zenon
<1> QED BY <1>1, <1>2, Zenon DEF RefusedAs

\* It refuses, and undoes the statement or the whole transaction.
LEMMA RefusedServed ==
  ASSUME NEW n \in Nat, NEW s \in SessionSet(n), Held(s), s.up, NEW r \in RequestSet(n),
         NEW o \in S!Refused(s, r)
  PROVE  Served(n, s, r, o)
<1>0. PICK t : RefusedAs(s, r, t, o) BY RefusedIs, Zenon
<1>1. Undone(s, r, t) /\ o = S!Outcome(t, "error", {}, TRUE) BY <1>0, Zenon DEF RefusedAs
<1>2. /\ Kept(n, s, r, t)
      /\ \/ r.fn \in S!Executing \cup {"FETCH"} /\ r.mode = "autocommit" /\ t.work = {}
         \/ t.open /\ t.work = s.work
         \/ r.fn \notin S!Executing \cup {"PREPARE"} /\ t = s
  <2>1. CASE /\ r.fn \in S!Executing \cup {"FETCH"} /\ r.mode = "autocommit"
             /\ \E u \in S!Generates(s, r) : t = S!Ended(u)
    <3>1. PICK u \in S!Generates(s, r) : t = S!Ended(u) BY <2>1
    <3>2. Kept(n, s, r, u) BY GeneratesIs, Zenon
    <3>3. u \in SessionSet(n) /\ Held(u) /\ u.up BY <3>2 DEF Kept
    <3>4. Kept(n, u, r, t) /\ t.work = {} BY <3>1, <3>3, OpenedIs, Zenon
    <3> QED BY <2>1, <3>2, <3>4, KeptTwice, Zenon
  <2>2. CASE \E u \in S!Generates(s, r) : t = S!Opened(u)
    <3>1. PICK u \in S!Generates(s, r) : t = S!Opened(u) BY <2>2
    <3>2. Kept(n, s, r, u) /\ u.work = s.work BY GeneratesIs, Zenon
    <3>3. u \in SessionSet(n) /\ Held(u) /\ u.up BY <3>2 DEF Kept
    <3>4. Kept(n, u, r, t) /\ t.open /\ t.work = u.work BY <3>1, <3>3, OpenedIs, Zenon
    <3>5. t.work = s.work BY <3>2, <3>4
    <3> QED BY <3>2, <3>4, <3>5, KeptTwice, Zenon
  <2>3. CASE t = S!Opened(s) BY <2>3, OpenedIs, Zenon
  <2>4. CASE r.fn \notin S!Executing \cup {"PREPARE"} /\ t = s BY <2>4, OpenedIs, Zenon
  <2> QED BY <1>1, <2>1, <2>2, <2>3, <2>4, Zenon DEF Undone
<1>3. t \in SessionSet(n) /\ "error" \in Replied /\ {} \in SUBSET (1..n)
  BY <1>2 DEF Kept, Replied
<1>4. Leaving(n, o, t, "error", {}) BY <1>1, <1>3, OutcomeIs, Zenon
<1>5. r.fn # "ROLLBACK" BY <1>1 DEF Undone
<1>6. Effect(s, r, o)
  BY <1>2, <1>4, <1>5 DEF Effect, Leaving, Commits, Autocommits, Works, S!Executing
<1> QED BY <1>2, <1>4, <1>6 DEF Served, Leaving

LEMMA AbortedServed ==
  ASSUME NEW n \in Nat, NEW s \in SessionSet(n), Held(s), s.up, NEW r \in RequestSet(n),
         NEW o \in S!Aborted(s, r)
  PROVE  Served(n, s, r, o)
<1> DEFINE t == [s EXCEPT !.open = TRUE, !.work = {}]
<1>1. /\ o = [S!Outcome(t, "abort", {}, TRUE) EXCEPT !.cost = 1]
      /\ r.mode # "autocommit" /\ r.fn # "ROLLBACK"
      /\ r.fn \in S!Executing \cup {"PREPARE", "FETCH", "COMMIT"}
  BY Zenon DEF S!Aborted, S!Executing
<1>2. Kept(n, s, r, t) /\ t.open /\ t.work = {} BY DEF SessionSet, Kept, Held, Authored
<1> HIDE DEF t
<1>3. t \in SessionSet(n) /\ "abort" \in Replied /\ {} \in SUBSET (1..n)
  BY <1>2 DEF Kept, Replied
<1>4. Leaving(n, S!Outcome(t, "abort", {}, TRUE), t, "abort", {}) BY <1>3, OutcomeIs, Zenon
<1>5. Leaving(n, o, t, "abort", {}) BY <1>1, <1>4 DEF Leaving, OutcomeSet
<1>6. Effect(s, r, o) BY <1>1, <1>2, <1>5 DEF Effect, Leaving, Commits, Works
<1> QED BY <1>2, <1>5, <1>6 DEF Served, Leaving

\* The caller's transaction turns out to be over.
LEMMA VanishedIs ==
  ASSUME NEW n \in Nat, NEW s \in SessionSet(n), Held(s), s.up, NEW r \in RequestSet(n),
         NEW o \in S!Vanished(s, r)
  PROVE  /\ EndsUnasked /\ r.mode = "transaction" /\ s.open
         /\ r.fn \notin {"COMMIT", "ROLLBACK", "CHECK_CAS"}
         /\ Leaving(n, o, S!Ended(s), "ok", {})
<1>1. /\ o = [S!Outcome(S!Ended(s), "ok", {}, TRUE) EXCEPT !.cost = 1]
      /\ EndsUnasked /\ r.mode = "transaction" /\ s.open
      /\ r.fn \notin {"COMMIT", "ROLLBACK", "CHECK_CAS"}
  BY Zenon DEF S!Vanished
<1>2. S!Ended(s) \in SessionSet(n) /\ "ok" \in Replied /\ {} \in SUBSET (1..n)
  BY OpenedIs DEF Kept, Replied
<1>3. Leaving(n, S!Outcome(S!Ended(s), "ok", {}, TRUE), S!Ended(s), "ok", {})
  BY <1>2, OutcomeIs, Zenon
<1>4. Leaving(n, o, S!Ended(s), "ok", {}) BY <1>1, <1>3 DEF Leaving, OutcomeSet
<1> QED BY <1>1, <1>4

\* A reply that is damaged or undecodable, to the same effect.
LEMMA ReplyServed ==
  ASSUME NEW n, NEW s, NEW r, NEW p, Served(n, s, r, p), p.reply \in {"ok", "more"},
         r.fn \notin {"COMMIT", "ROLLBACK"}, NEW reply \in {"malformed", "undecodable"},
         NEW o \in OutcomeSet(n), o.session = p.session, o.reply = reply, o.durable = p.durable,
         o.unknown = p.unknown, o.ran = p.ran
  PROVE  Served(n, s, r, o)
BY DEF Served, Effect, Autocommits, Works

LEMMA RepliesServed ==
  ASSUME NEW n \in Nat, NEW s \in SessionSet(n), Held(s), s.up, NEW r \in RequestSet(n),
         NEW o \in S!Replies(s, r)
  PROVE  Served(n, s, r, o)
<1>1. CASE o \in S!Damaged(s, r)
  <2>1. PICK p \in S!Accepted(s, r) : o = [p EXCEPT !.reply = "malformed", !.cost = 1]
    BY <1>1, Zenon DEF S!Damaged
  <2>2. r.fn \notin {"COMMIT", "ROLLBACK"} BY <1>1, Zenon DEF S!Damaged, S!Executing
  <2>3. Served(n, s, r, p) /\ p.reply \in {"ok", "more"} BY AcceptedServed, Zenon
  <2>4. /\ o \in OutcomeSet(n) /\ o.session = p.session /\ o.reply = "malformed"
        /\ o.durable = p.durable /\ o.unknown = p.unknown /\ o.ran = p.ran
    BY <2>1, <2>3 DEF Served, OutcomeSet, Replied
  <2> QED BY <2>2, <2>3, <2>4, ReplyServed
<1>2. CASE o \in S!Undecodable(s, r)
  <2>1. PICK p \in S!Accepted(s, r) : o = [p EXCEPT !.reply = "undecodable"]
    BY <1>2, Zenon DEF S!Undecodable
  <2>2. r.fn \notin {"COMMIT", "ROLLBACK"} BY <1>2, Zenon DEF S!Undecodable, S!Executing
  <2>3. Served(n, s, r, p) /\ p.reply \in {"ok", "more"} BY AcceptedServed, Zenon
  <2>4. /\ o \in OutcomeSet(n) /\ o.session = p.session /\ o.reply = "undecodable"
        /\ o.durable = p.durable /\ o.unknown = p.unknown /\ o.ran = p.ran
    BY <2>1, <2>3 DEF Served, OutcomeSet, Replied
  <2> QED BY <2>2, <2>3, <2>4, ReplyServed
<1>3. \/ o \in S!Accepted(s, r) \/ o \in S!Refused(s, r) \/ o \in S!Aborted(s, r)
      \/ o \in S!Damaged(s, r) \/ o \in S!Undecodable(s, r)
  BY Zenon DEF S!Replies
<1> QED BY <1>1, <1>2, <1>3, AcceptedServed, RefusedServed, AbortedServed, Zenon

-----------------------------------------------------------------------------
(* A request and its reply, on the session there is.                       *)

\* What a request that was not answered may have made durable.
Unheard(s, r, o) ==
  \/ o.durable = {}
  \/ r.fn = "COMMIT" /\ o.durable = s.work
  \/ r.fn \notin {"COMMIT", "ROLLBACK"} /\ r.mode = "autocommit" /\ o.durable \subseteq s.work \cup Changes(r)

\* The reply says that the caller's transaction is over, and is otherwise ordinary.
Gone(s, r, o) ==
  /\ EndsUnasked /\ r.mode = "transaction" /\ s.open /\ r.fn \notin {"COMMIT", "ROLLBACK", "CHECK_CAS"}
  /\ o.reply = "ok" /\ o.durable = {} /\ o.session.work = {} /\ ~o.session.open
  /\ o.session.outOfTransactionReplies = s.outOfTransactionReplies + 1

\* A reply was read: the session is the one that sent the request.
Answered(s, r, o) ==
  /\ o.reply \notin {"lost", "absent"} /\ ~o.unknown /\ o.ran
  /\ o.session.connected /\ o.session.up
  /\ o.session.failedExchanges = s.failedExchanges
  /\ Effect(s, r, o) \/ Gone(s, r, o)

\* No reply was read: the session is dropped.
Unread(s, r, o) ==
  /\ o.reply = "lost" /\ ~o.session.connected /\ Unheard(s, r, o)
  /\ s.failedExchanges \leq o.session.failedExchanges
  /\ o.unknown => s.failedExchanges < o.session.failedExchanges

Exchanged(n, s, r, o) ==
  /\ o \in OutcomeSet(n) /\ Sane(n, o.session)
  /\ o.session.generation = s.generation
  /\ s.outOfTransactionReplies \leq o.session.outOfTransactionReplies
  /\ o.session.open => o.session.outOfTransactionReplies = s.outOfTransactionReplies
  /\ Authored(s, r, o.session)
  /\ o.ran => s.up
  /\ Answered(s, r, o) \/ Unread(s, r, o)

\* The fields of an outcome after its reply was read with status out.
ReadIs(n, p, o, out, more) ==
  /\ o \in OutcomeSet(n)
  /\ o.reply = p.reply /\ o.durable = p.durable /\ o.ran = p.ran /\ o.unknown = p.unknown
  /\ o.session.outOfTransaction = out
  /\ o.session.outOfTransactionReplies = p.session.outOfTransactionReplies + more
  /\ o.session.connected = p.session.connected /\ o.session.up = p.session.up
  /\ o.session.open = p.session.open /\ o.session.work = p.session.work
  /\ o.session.generation = p.session.generation
  /\ o.session.failedExchanges = p.session.failedExchanges
  /\ o.session.lastId = p.session.lastId /\ o.session.author = p.session.author

LEMMA ReadOnce ==
  ASSUME NEW n \in Nat, NEW p \in OutcomeSet(n), NEW out \in BOOLEAN, NEW more \in Nat,
         NEW o,
         o = [p EXCEPT !.session.outOfTransaction = out,
                       !.session.casVerified = FALSE,
                       !.session.outOfTransactionReplies = @ + more]
  PROVE  ReadIs(n, p, o, out, more)
<1> DEFINE t == [p.session EXCEPT !.outOfTransaction = out, !.casVerified = FALSE,
                                  !.outOfTransactionReplies = @ + more]
<1>1. o = [p EXCEPT !.session = t] BY DEF OutcomeSet, SessionSet
<1>2. /\ t \in SessionSet(n)
      /\ t.outOfTransaction = out
      /\ t.outOfTransactionReplies = p.session.outOfTransactionReplies + more
      /\ t.connected = p.session.connected /\ t.up = p.session.up
      /\ t.open = p.session.open /\ t.work = p.session.work
      /\ t.generation = p.session.generation
      /\ t.failedExchanges = p.session.failedExchanges
      /\ t.lastId = p.session.lastId /\ t.author = p.session.author
  <2> DEFINE u == p.session
  <2>1. u \in SessionSet(n) BY DEF OutcomeSet
  <2> HIDE DEF u
  <2>2. [u EXCEPT !.outOfTransaction = out, !.casVerified = FALSE,
                  !.outOfTransactionReplies = @ + more] =
        [u EXCEPT !.outOfTransaction = out, !.casVerified = FALSE,
                  !.outOfTransactionReplies = u.outOfTransactionReplies + more]
    BY <2>1 DEF SessionSet
  <2>3. u.outOfTransactionReplies + more \in Nat BY <2>1 DEF SessionSet
  <2>4. t = [u EXCEPT !.outOfTransaction = out, !.casVerified = FALSE,
                      !.outOfTransactionReplies = u.outOfTransactionReplies + more]
    BY <2>2 DEF u
  <2>5. /\ t \in SessionSet(n)
        /\ t.outOfTransaction = out
        /\ t.outOfTransactionReplies = u.outOfTransactionReplies + more
        /\ t.connected = u.connected /\ t.up = u.up
        /\ t.open = u.open /\ t.work = u.work
        /\ t.generation = u.generation
        /\ t.failedExchanges = u.failedExchanges
        /\ t.lastId = u.lastId /\ t.author = u.author
    <3> HIDE DEF t
    <3> QED BY <2>1, <2>3, <2>4 DEF SessionSet
  <2> QED BY <2>5 DEF u
<1> HIDE DEF t
<1>3. /\ o \in OutcomeSet(n) /\ o.session = t
      /\ o.reply = p.reply /\ o.durable = p.durable /\ o.ran = p.ran /\ o.unknown = p.unknown
  BY <1>1, <1>2 DEF OutcomeSet
<1> QED BY <1>2, <1>3 DEF ReadIs

\* How many OUT_TRAN replies a status counts for.
Counts(fn, out) == IF out /\ fn \notin {"COMMIT", "ROLLBACK"} THEN 1 ELSE 0

LEMMA ReadReply ==
  ASSUME NEW n \in Nat, NEW p \in OutcomeSet(n), NEW fn, NEW statuses \in SUBSET BOOLEAN,
         NEW o \in S!Read(p, fn, statuses)
  PROVE  \E out \in statuses : ReadIs(n, p, o, out, Counts(fn, out))
<1>1. PICK out \in statuses :
        o = [p EXCEPT !.session.outOfTransaction = out,
                      !.session.casVerified = FALSE,
                      !.session.outOfTransactionReplies = @ + Counts(fn, out)]
  BY Zenon DEF S!Read, Counts
<1>2. Counts(fn, out) \in Nat BY DEF Counts
<1>3. out \in BOOLEAN BY <1>1, Zenon
<1>4. ReadIs(n, p, o, out, Counts(fn, out)) BY <1>1, <1>2, <1>3, ReadOnce, Zenon
<1> QED BY <1>4, Zenon

LEMMA StatusesAre ==
  ASSUME NEW fn, NEW open
  PROVE  S!Statuses(fn, open) \in SUBSET BOOLEAN /\ (open => S!Statuses(fn, open) = {FALSE})
<1>1. CASE open \/ fn = "CHECK_CAS"
  <2>1. S!Statuses(fn, open) = {FALSE} BY <1>1, Zenon DEF S!Statuses, S!Executing
  <2> QED BY <2>1
<1>2. CASE ~(open \/ fn = "CHECK_CAS")
  <2>1. S!Statuses(fn, open) = {TRUE} \/ S!Statuses(fn, open) = BOOLEAN
    BY <1>2, Zenon DEF S!Statuses
  <2> QED BY <1>2, <2>1
<1> QED BY <1>1, <1>2, Zenon

LEMMA Gentle ==
  ASSUME NEW n \in Nat, NEW p \in OutcomeSet(n)
  PROVE  p.session \in SessionSet(n)
BY DEF OutcomeSet

\* A reply to a request that was served.
LEMMA ServedRead ==
  ASSUME NEW n \in Nat, NEW s, Sane(n, s), s.up, NEW r, NEW p, Served(n, s, r, p),
         NEW o \in S!Read(p, r.fn, S!Statuses(r.fn, p.session.open))
  PROVE  Exchanged(n, s, r, o) /\ Answered(s, r, o)
<1> DEFINE statuses == S!Statuses(r.fn, p.session.open)
<1>1. statuses \in SUBSET BOOLEAN /\ (p.session.open => statuses = {FALSE})
  BY StatusesAre, Zenon
<1> HIDE DEF statuses
<1>2. p \in OutcomeSet(n) BY Zenon DEF Served
<1>3. \E out \in statuses : ReadIs(n, p, o, out, Counts(r.fn, out))
  BY <1>1, <1>2, ReadReply, Zenon DEF statuses
<1>4. PICK out \in statuses : ReadIs(n, p, o, out, Counts(r.fn, out)) BY <1>3, Zenon
<1>5. out \in BOOLEAN /\ (p.session.open => ~out) BY <1>1, <1>4
<1>6. Counts(r.fn, out) \in {0, 1} /\ (~out => Counts(r.fn, out) = 0) BY <1>5 DEF Counts
<1> DEFINE more == Counts(r.fn, out)
<1>7. ReadIs(n, p, o, out, more) /\ more \in {0, 1} /\ (~out => more = 0) BY <1>4, <1>6
<1> HIDE DEF more
<1>8. o \in OutcomeSet(n) /\ o.session \in SessionSet(n) /\ p.session \in SessionSet(n)
  BY <1>2, <1>7, Gentle, Zenon DEF ReadIs
<1>9. Kept(n, s, r, p.session) /\ Sane(n, s) /\ s \in SessionSet(n) BY DEF Served, Sane
<1>10. Sane(n, o.session)
  BY <1>5, <1>7, <1>8, <1>9 DEF ReadIs, Kept, Sane, Held
<1>11. Authored(s, r, o.session) BY <1>7, <1>9 DEF ReadIs, Kept, Authored
<1>12. /\ s.outOfTransactionReplies \leq o.session.outOfTransactionReplies
       /\ o.session.open => o.session.outOfTransactionReplies = s.outOfTransactionReplies
       /\ o.session.generation = s.generation
       /\ o.session.failedExchanges = s.failedExchanges
       /\ o.session.connected /\ o.session.up
  <2>1. s.outOfTransactionReplies \in Nat /\ s.connected
    BY <1>9 DEF SessionSet, Sane, Held
  <2> QED BY <1>5, <1>7, <1>9, <2>1 DEF ReadIs, Kept
<1>13. Effect(s, r, o)
  BY <1>7 DEF ReadIs, Served, Effect, Commits, RollsBack, Autocommits, Works
<1>14. Answered(s, r, o) BY <1>7, <1>12, <1>13 DEF Answered, ReadIs, Served
<1> QED BY <1>8, <1>10, <1>11, <1>12, <1>14 DEF Exchanged

LEMMA VanishedRead ==
  ASSUME NEW n \in Nat, NEW s, Sane(n, s), s.up, NEW r \in RequestSet(n),
         NEW p \in S!Vanished(s, r), NEW o \in S!Read(p, r.fn, {TRUE})
  PROVE  Exchanged(n, s, r, o)
<1>1. Held(s) /\ s \in SessionSet(n) BY DEF Sane
<1>2. /\ EndsUnasked /\ r.mode = "transaction" /\ s.open
      /\ r.fn \notin {"COMMIT", "ROLLBACK", "CHECK_CAS"}
      /\ Leaving(n, p, S!Ended(s), "ok", {})
  BY <1>1, VanishedIs, Zenon
<1>3. p \in OutcomeSet(n) /\ {TRUE} \in SUBSET BOOLEAN BY <1>2 DEF Leaving
<1>4. PICK out \in {TRUE} : ReadIs(n, p, o, out, Counts(r.fn, out)) BY <1>3, ReadReply, Zenon
<1>5. ReadIs(n, p, o, TRUE, 1)
  <2>1. Counts(r.fn, out) = 1 /\ out = TRUE BY <1>2, <1>4 DEF Counts
  <2> QED BY <1>4, <2>1
<1>6. o \in OutcomeSet(n) /\ o.session \in SessionSet(n) /\ p.session = S!Ended(s)
  BY <1>2, <1>5 DEF ReadIs, Leaving, OutcomeSet
<1>7. Kept(n, s, r, p.session) /\ ~p.session.open /\ p.session.work = {}
  <2>1. Kept(n, s, r, S!Ended(s)) /\ ~S!Ended(s).open /\ S!Ended(s).work = {}
    BY <1>1, OpenedIs, Zenon
  <2> QED BY <1>6, <2>1
<1>8. Sane(n, o.session)
  BY <1>5, <1>6, <1>7 DEF ReadIs, Kept, Sane, Held
<1>9. Authored(s, r, o.session) BY <1>5, <1>7 DEF ReadIs, Kept, Authored
<1>10. s.outOfTransactionReplies \in Nat /\ s.connected BY <1>1 DEF SessionSet, Held
<1>11. Gone(s, r, o) BY <1>2, <1>5, <1>7, <1>10 DEF Gone, ReadIs, Kept, Leaving
<1>12. Answered(s, r, o) BY <1>2, <1>5, <1>7, <1>10, <1>11 DEF Answered, ReadIs, Kept, Leaving
<1> QED BY <1>5, <1>6, <1>7, <1>8, <1>9, <1>10, <1>12 DEF Exchanged, ReadIs, Kept

\* The socket is dropped, with the session behind it.
LEMMA RetiredIs ==
  ASSUME NEW n \in Nat, NEW s \in SessionSet(n)
  PROVE  LET t == S!RetireSocket(s)
         IN  /\ Sane(n, t) /\ ~t.connected /\ ~t.open /\ t.work = {} /\ t.generation = s.generation
             /\ t.failedExchanges = s.failedExchanges
             /\ t.outOfTransactionReplies = s.outOfTransactionReplies
             /\ t.lastId = s.lastId /\ t.author = s.author
             /\ t.outOfTransaction = s.outOfTransaction
BY DEF S!RetireSocket, S!Ended, SessionSet, Sane, Held

Dropped(n, s, t, more) ==
  /\ Sane(n, t) /\ ~t.connected /\ ~t.open /\ t.work = {} /\ t.generation = s.generation
  /\ t.failedExchanges = s.failedExchanges + more
  /\ t.outOfTransactionReplies = s.outOfTransactionReplies
  /\ t.lastId = s.lastId /\ t.author = s.author

LEMMA DiscardedIs ==
  ASSUME NEW n \in Nat, NEW s \in SessionSet(n)
  PROVE  Dropped(n, s, S!RetireSocket(s), 0) /\ Dropped(n, s, S!DiscardSession(s), 1)
<1> DEFINE t == S!RetireSocket(s)
<1>1. /\ Sane(n, t) /\ ~t.connected /\ ~t.open /\ t.work = {} /\ t.generation = s.generation
      /\ t.failedExchanges = s.failedExchanges
      /\ t.outOfTransactionReplies = s.outOfTransactionReplies
      /\ t.lastId = s.lastId /\ t.author = s.author
  BY RetiredIs
<1>2. t \in SessionSet(n) /\ S!DiscardSession(s) = [t EXCEPT !.failedExchanges = @ + 1]
  BY <1>1 DEF S!DiscardSession, Sane
<1> HIDE DEF t
<1>3. S!DiscardSession(s) = [t EXCEPT !.failedExchanges = t.failedExchanges + 1]
  BY <1>2 DEF SessionSet
<1>4. t.failedExchanges + 1 \in Nat BY <1>2 DEF SessionSet
<1>5. Dropped(n, s, S!DiscardSession(s), 1)
  BY <1>1, <1>2, <1>3, <1>4 DEF Dropped, Sane, SessionSet, Held
<1>6. s.failedExchanges \in Nat BY DEF SessionSet
<1> QED BY <1>1, <1>5, <1>6 DEF Dropped, t

LEMMA LostIs ==
  ASSUME NEW n \in Nat, NEW s \in SessionSet(n), NEW counted \in BOOLEAN
  PROVE  Dropped(n, s, S!Lost(s, counted), IF counted THEN 1 ELSE 0)
<1> DEFINE t == S!RetireSocket(s)
           more == IF counted THEN 1 ELSE 0
<1>1. Dropped(n, s, t, 0) /\ more \in Nat BY DiscardedIs
<1>2. t \in SessionSet(n) BY <1>1 DEF Dropped, Sane
<1>3. S!Lost(s, counted) = [t EXCEPT !.failedExchanges = @ + more] BY DEF S!Lost
<1> HIDE DEF t, more
<1>4. S!Lost(s, counted) = [t EXCEPT !.failedExchanges = t.failedExchanges + more]
  BY <1>2, <1>3 DEF SessionSet
<1>5. t.failedExchanges + more \in Nat BY <1>1, <1>2 DEF SessionSet
<1>6. s.failedExchanges \in Nat BY DEF SessionSet
<1>7. Dropped(n, s, S!Lost(s, counted), more)
  BY <1>1, <1>2, <1>4, <1>5, <1>6 DEF Dropped, Sane, SessionSet, Held
<1> QED BY <1>7 DEF more

LEMMA NotServedIs ==
  ASSUME NEW n \in Nat, NEW s, Sane(n, s), NEW r, NEW counted \in BOOLEAN,
         NEW o \in S!NotServed(s, counted)
  PROVE  Exchanged(n, s, r, o)
<1> DEFINE more == IF counted THEN 1 ELSE 0
<1>1. s \in SessionSet(n) BY DEF Sane
<1>2. Dropped(n, s, S!Lost(s, counted), more) /\ more \in Nat BY <1>1, LostIs
<1>3. o = S!Outcome(S!Lost(s, counted), "lost", {}, FALSE) BY DEF S!NotServed
<1> HIDE DEF more
<1>4. /\ o \in OutcomeSet(n) /\ o.session = S!Lost(s, counted) /\ o.reply = "lost"
      /\ o.durable = {} /\ ~o.unknown /\ ~o.ran
  BY <1>2, <1>3 DEF S!Outcome, OutcomeSet, Replied, Dropped, Sane
<1>5. s.failedExchanges \in Nat /\ s.outOfTransactionReplies \in Nat BY <1>1 DEF SessionSet
<1>6. Unread(s, r, o) BY <1>2, <1>4, <1>5 DEF Unread, Unheard, Dropped
<1> QED BY <1>2, <1>4, <1>5, <1>6 DEF Exchanged, Dropped, Authored

LEMMA UnansweredIs ==
  ASSUME NEW n \in Nat, NEW s, Sane(n, s), s.up, NEW r \in RequestSet(n), NEW counted \in BOOLEAN,
         NEW o \in S!Unanswered(s, r, counted)
  PROVE  Exchanged(n, s, r, o)
<1> DEFINE more == IF counted THEN 1 ELSE 0
           t == S!Lost(s, counted)
<1>1. s \in SessionSet(n) /\ Held(s) BY DEF Sane
<1>2. Dropped(n, s, t, more) /\ more \in Nat /\ (counted => more = 1) BY <1>1, LostIs
<1>3. PICK p \in S!Accepted(s, r) \cup {S!Outcome(s, "ok", {}, FALSE)} :
        o = [S!Outcome(t, "lost", p.durable, p.ran) EXCEPT !.cost = 1, !.unknown = counted]
  BY Zenon DEF S!Unanswered
<1> HIDE DEF more, t
<1>4. p.durable \in SUBSET (1..n) /\ p.ran \in BOOLEAN /\ Unheard(s, r, p)
  <2>1. CASE p \in S!Accepted(s, r)
    <3>1. Served(n, s, r, p) /\ p.reply \in {"ok", "more"} BY <1>1, <2>1, AcceptedServed, Zenon
    <3> QED BY <3>1 DEF Served, OutcomeSet, Unheard, Effect, Commits, RollsBack, Autocommits, Works
  <2>2. CASE p = S!Outcome(s, "ok", {}, FALSE)
    <3>1. p.durable = {} /\ p.ran = FALSE BY <2>2 DEF S!Outcome
    <3> QED BY <3>1 DEF Unheard
  <2> QED BY <1>3, <2>1, <2>2
<1>5. t \in SessionSet(n) BY <1>2 DEF Dropped, Sane
<1>6. /\ o \in OutcomeSet(n) /\ o.session = t /\ o.reply = "lost"
      /\ o.durable = p.durable /\ o.unknown = counted
  BY <1>3, <1>4, <1>5 DEF S!Outcome, OutcomeSet, Replied
<1>7. s.failedExchanges \in Nat /\ s.outOfTransactionReplies \in Nat BY <1>1 DEF SessionSet
<1>8. Unheard(s, r, o) BY <1>4, <1>6 DEF Unheard
<1>9. Unread(s, r, o) BY <1>2, <1>6, <1>7, <1>8 DEF Unread, Dropped
<1> QED BY <1>2, <1>6, <1>7, <1>9 DEF Exchanged, Dropped, Authored

LEMMA ExchangeIs ==
  ASSUME NEW n \in Nat, NEW s, Sane(n, s), NEW r \in RequestSet(n), NEW counted \in BOOLEAN,
         NEW o \in S!Exchange(s, r, counted)
  PROVE  Exchanged(n, s, r, o)
<1>1. CASE s.connected /\ s.up
  <2>1. \/ \E p \in S!Replies(s, r) : o \in S!Read(p, r.fn, S!Statuses(r.fn, p.session.open))
        \/ \E p \in S!Vanished(s, r) : o \in S!Read(p, r.fn, {TRUE})
        \/ o \in S!Unanswered(s, r, counted)
    <3> DEFINE A == {S!Read(p, r.fn, S!Statuses(r.fn, p.session.open)) : p \in S!Replies(s, r)}
               B == {S!Read(p, r.fn, {TRUE}) : p \in S!Vanished(s, r)}
    <3>1. o \in UNION A \/ o \in UNION B \/ o \in S!Unanswered(s, r, counted)
      <4>1. S!Exchange(s, r, counted) = (UNION A) \cup (UNION B) \cup S!Unanswered(s, r, counted)
        BY <1>1, Zenon DEF S!Exchange
      <4> HIDE DEF A, B
      <4> QED BY <4>1, Zenon
    <3>2. CASE o \in UNION A
      <4>1. PICK X \in A : o \in X BY <3>2, Zenon
      <4> QED BY <4>1, Zenon
    <3>3. CASE o \in UNION B
      <4>1. PICK X \in B : o \in X BY <3>3, Zenon
      <4> QED BY <4>1, Zenon
    <3> QED BY <3>1, <3>2, <3>3, Zenon
  <2>2. CASE \E p \in S!Replies(s, r) : o \in S!Read(p, r.fn, S!Statuses(r.fn, p.session.open))
    <3>1. PICK p \in S!Replies(s, r) : o \in S!Read(p, r.fn, S!Statuses(r.fn, p.session.open))
      BY <2>2, Zenon
    <3>2. s \in SessionSet(n) /\ Held(s) BY DEF Sane
    <3>3. Served(n, s, r, p) BY <1>1, <3>1, <3>2, RepliesServed, Zenon
    <3> QED BY <1>1, <3>1, <3>3, ServedRead, Zenon
  <2>3. CASE \E p \in S!Vanished(s, r) : o \in S!Read(p, r.fn, {TRUE})
    <3>1. PICK p \in S!Vanished(s, r) : o \in S!Read(p, r.fn, {TRUE}) BY <2>3, Zenon
    <3> QED BY <1>1, <3>1, VanishedRead, Zenon
  <2>4. CASE o \in S!Unanswered(s, r, counted) BY <1>1, <2>4, UnansweredIs, Zenon
  <2> QED BY <2>1, <2>2, <2>3, <2>4, Zenon
<1>2. CASE ~(s.connected /\ s.up)
  <2>1. o \in S!NotServed(s, counted) BY <1>2, Zenon DEF S!Exchange
  <2> QED BY <2>1, NotServedIs, Zenon
<1> QED BY <1>1, <1>2, Zenon

-----------------------------------------------------------------------------
(* Opening a session, or replacing one that may have gone to another client. *)

\* t is the session s, or what is left of it.
Same(s, t) ==
  /\ t.generation = s.generation /\ t.lastId = s.lastId /\ t.author = s.author
  /\ t.connected => /\ s.connected /\ t.up = s.up /\ t.open = s.open
                    /\ t.outOfTransaction => s.outOfTransaction

\* t is a new session, in the place of s.
Fresh(s, t) ==
  /\ t.generation = s.generation + 1 /\ t.lastId = 0 /\ t.author = 0
  /\ s.connected => s.outOfTransaction /\ ~s.casVerified
  /\ t.connected /\ t.up /\ ~t.open /\ ~t.outOfTransaction

Opens(n, s, o) ==
  /\ o \in OutcomeSet(n) /\ Sane(n, o.session)
  /\ o.durable = {} /\ ~o.ran /\ ~o.unknown /\ o.reply \in {"ok", "lost"}
  /\ o.session.failedExchanges = s.failedExchanges
  /\ o.session.outOfTransactionReplies = s.outOfTransactionReplies
  /\ o.session.work = s.work
  /\ Same(s, o.session) \/ Fresh(s, o.session)
  /\ o.reply = "lost" => ~o.session.connected

LEMMA OpensNothing ==
  ASSUME NEW n \in Nat, NEW s, Sane(n, s), NEW o, o = S!Outcome(s, "ok", {}, FALSE)
  PROVE  Opens(n, s, o) /\ o.session = s /\ o.reply = "ok"
<1>1. s \in SessionSet(n) BY DEF Sane
<1>2. /\ o \in OutcomeSet(n) /\ o.session = s /\ o.reply = "ok" /\ o.durable = {}
      /\ ~o.unknown /\ ~o.ran
  BY <1>1 DEF S!Outcome, OutcomeSet, Replied
<1> QED BY <1>2 DEF Opens, Same

\* t is session s connected to a CAS of its own, as generation g.
Connected(s, t, g) ==
  /\ t.connected /\ t.up /\ ~t.outOfTransaction
  /\ t.generation = g /\ t.lastId = 0 /\ t.author = 0
  /\ t.failedExchanges = s.failedExchanges
  /\ t.outOfTransactionReplies = s.outOfTransactionReplies
  /\ t.open = s.open /\ t.work = s.work

LEMMA ConnectedIs ==
  ASSUME NEW n \in Nat, NEW s \in SessionSet(n), NEW g \in Nat, NEW t,
         t = [s EXCEPT !.connected = TRUE, !.generation = g, !.up = TRUE,
                       !.outOfTransaction = FALSE, !.casVerified = FALSE,
                       !.lastId = 0, !.author = 0]
  PROVE  Connected(s, t, g) /\ t \in SessionSet(n)
<1> DEFINE u == [s EXCEPT !.connected = TRUE, !.generation = g, !.up = TRUE]
<1>1. t = [u EXCEPT !.outOfTransaction = FALSE, !.casVerified = FALSE, !.lastId = 0, !.author = 0]
  OBVIOUS
<1>2. /\ u \in SessionSet(n) /\ u.connected /\ u.up /\ u.generation = g
      /\ u.failedExchanges = s.failedExchanges
      /\ u.outOfTransactionReplies = s.outOfTransactionReplies
      /\ u.open = s.open /\ u.work = s.work
  BY DEF SessionSet
<1> HIDE DEF u
<1> DEFINE v == [u EXCEPT !.outOfTransaction = FALSE, !.casVerified = FALSE]
<1>3. t = [v EXCEPT !.lastId = 0, !.author = 0] BY <1>1
<1>4. /\ v \in SessionSet(n) /\ v.connected = u.connected /\ v.up = u.up
      /\ v.generation = u.generation /\ ~v.outOfTransaction
      /\ v.failedExchanges = u.failedExchanges
      /\ v.outOfTransactionReplies = u.outOfTransactionReplies
      /\ v.open = u.open /\ v.work = u.work
  BY <1>2 DEF SessionSet
<1> HIDE DEF v
<1>5. /\ t \in SessionSet(n) /\ t.connected = v.connected /\ t.up = v.up
      /\ t.generation = v.generation /\ t.outOfTransaction = v.outOfTransaction
      /\ t.lastId = 0 /\ t.author = 0
      /\ t.failedExchanges = v.failedExchanges
      /\ t.outOfTransactionReplies = v.outOfTransactionReplies
      /\ t.open = v.open /\ t.work = v.work
  <2>1. 0 \in Ids \cup {0} /\ 0 \in 0..n OBVIOUS
  <2> QED BY <1>3, <1>4, <2>1 DEF SessionSet
<1> QED BY <1>2, <1>4, <1>5 DEF Connected

LEMMA ConnectIs ==
  ASSUME NEW n \in Nat, NEW s, Sane(n, s), NEW o \in S!Connect(s)
  PROVE  Opens(n, s, o) /\ (o.reply = "ok" => o.session.connected)
<1>1. s \in SessionSet(n) /\ Held(s) BY DEF Sane
<1>2. CASE s.connected
  <2>1. o = S!Outcome(s, "ok", {}, FALSE) BY <1>2, Zenon DEF S!Connect
  <2>2. Opens(n, s, o) /\ o.session = s BY <2>1, OpensNothing, Zenon
  <2> QED BY <1>2, <2>2
<1>3. CASE ~s.connected
  <2> DEFINE t == [s EXCEPT !.connected = TRUE, !.generation = @ + 1, !.up = TRUE,
                            !.outOfTransaction = FALSE, !.casVerified = FALSE,
                            !.lastId = 0, !.author = 0]
  <2>1. o = S!Outcome(t, "ok", {}, FALSE) \/ o = [S!Outcome(s, "lost", {}, FALSE) EXCEPT !.cost = 1]
    BY <1>3, Zenon DEF S!Connect
  <2>2. t = [s EXCEPT !.connected = TRUE, !.generation = s.generation + 1, !.up = TRUE,
                      !.outOfTransaction = FALSE, !.casVerified = FALSE,
                      !.lastId = 0, !.author = 0]
    BY <1>1 DEF SessionSet
  <2>3. s.generation \in Nat /\ s.generation + 1 \in Nat /\ s.generation + 1 # 0 BY <1>1 DEF SessionSet
  <2>4. s.open = FALSE /\ s.work = {} BY <1>1, <1>3 DEF Held, SessionSet
  <2> HIDE DEF t
  <2>5. Connected(s, t, s.generation + 1) /\ t \in SessionSet(n)
    BY <1>1, <2>2, <2>3, ConnectedIs, Zenon
  <2>6. Sane(n, t) /\ Fresh(s, t) BY <1>3, <2>3, <2>4, <2>5 DEF Sane, Held, Fresh, Connected
  <2>7. CASE o = S!Outcome(t, "ok", {}, FALSE)
    <3>1. /\ o \in OutcomeSet(n) /\ o.session = t /\ o.reply = "ok" /\ o.durable = {}
          /\ ~o.unknown /\ ~o.ran
      BY <2>5, <2>7 DEF S!Outcome, OutcomeSet, Replied
    <3> QED BY <2>5, <2>6, <3>1 DEF Opens, Connected
  <2>8. CASE o = [S!Outcome(s, "lost", {}, FALSE) EXCEPT !.cost = 1]
    <3>1. /\ o \in OutcomeSet(n) /\ o.session = s /\ o.reply = "lost" /\ o.durable = {}
          /\ ~o.unknown /\ ~o.ran
      BY <1>1, <2>8 DEF S!Outcome, OutcomeSet, Replied
    <3> QED BY <1>3, <3>1 DEF Opens, Same
  <2> QED BY <2>1, <2>7, <2>8
<1> QED BY <1>2, <1>3

\* No verification is due.
Verified(s) == s.connected => ~s.outOfTransaction \/ s.casVerified

\* A verification never connects one that is not connected.
LEMMA VerifyIs ==
  ASSUME NEW n \in Nat, NEW s, Sane(n, s), NEW o \in S!VerifySession(s)
  PROVE  /\ Opens(n, s, o)
         /\ ~s.connected => o.session = s
         /\ o.reply = "ok" => o.session.connected = s.connected /\ Verified(o.session)
<1>1. s \in SessionSet(n) /\ Held(s) BY DEF Sane
<1>2. CASE ~(s.connected /\ s.outOfTransaction /\ ~s.casVerified)
  <2>1. o = S!Outcome(s, "ok", {}, FALSE) BY <1>2, Zenon DEF S!VerifySession
  <2>2. Opens(n, s, o) /\ o.session = s BY <2>1, OpensNothing, Zenon
  <2> QED BY <1>2, <2>2 DEF Verified
<1>3. CASE s.connected /\ s.outOfTransaction /\ ~s.casVerified /\ s.up
  <2> DEFINE t == [s EXCEPT !.casVerified = TRUE]
  <2>1. o = S!Outcome(t, "ok", {}, FALSE) BY <1>3, Zenon DEF S!VerifySession
  <2>2. /\ t \in SessionSet(n) /\ t.connected = s.connected /\ t.up = s.up /\ t.open = s.open
        /\ t.outOfTransaction = s.outOfTransaction /\ t.generation = s.generation
        /\ t.failedExchanges = s.failedExchanges
        /\ t.outOfTransactionReplies = s.outOfTransactionReplies
        /\ t.work = s.work /\ t.lastId = s.lastId /\ t.author = s.author /\ t.casVerified
    BY <1>1 DEF SessionSet
  <2> HIDE DEF t
  <2>3. /\ o \in OutcomeSet(n) /\ o.session = t /\ o.reply = "ok" /\ o.durable = {}
        /\ ~o.unknown /\ ~o.ran
    BY <2>1, <2>2 DEF S!Outcome, OutcomeSet, Replied
  <2>4. Sane(n, t) BY <2>2 DEF Sane, Held
  <2> QED BY <1>3, <2>2, <2>3, <2>4 DEF Opens, Same, Verified
<1>4. CASE s.connected /\ s.outOfTransaction /\ ~s.casVerified /\ ~s.up
  <2> DEFINE t == S!RetireSocket(s)
  <2>1. o \in S!Connect(t) BY <1>4, Zenon DEF S!VerifySession
  <2>2. Dropped(n, s, t, 0) BY <1>1, DiscardedIs
  <2> HIDE DEF t
  <2>3. Sane(n, t) BY <2>2 DEF Dropped
  <2>4. Opens(n, t, o) /\ (o.reply = "ok" => o.session.connected) BY <2>1, <2>3, ConnectIs, Zenon
  <2>5. s.work = {} /\ s.failedExchanges \in Nat BY <1>1, <1>4 DEF Held, SessionSet
  <2> QED BY <1>4, <2>2, <2>4, <2>5 DEF Opens, Dropped, Same, Fresh, Verified
<1> QED BY <1>2, <1>3, <1>4

-----------------------------------------------------------------------------
(* The operations of the connection, as the adapter awaits them.           *)

AfterIs(n, p, o) ==
  /\ o \in OutcomeSet(n) /\ o.session = p.session /\ o.reply = p.reply
  /\ o.durable = p.durable /\ o.ran = p.ran /\ o.unknown = p.unknown

LEMMA AfterOnce ==
  ASSUME NEW n \in Nat, NEW p \in OutcomeSet(n), NEW next, \A q \in next : q \in OutcomeSet(n),
         NEW o \in S!After(p, next)
  PROVE  \E q \in next : AfterIs(n, q, o)
<1>1. PICK q \in next : o = [q EXCEPT !.cost = @ + p.cost] BY Zenon DEF S!After
<1>2. q \in OutcomeSet(n) /\ p.cost \in Nat BY <1>1 DEF OutcomeSet
<1>3. o = [q EXCEPT !.cost = q.cost + p.cost] /\ q.cost + p.cost \in Nat BY <1>1, <1>2 DEF OutcomeSet
<1>4. AfterIs(n, q, o) BY <1>2, <1>3 DEF AfterIs, OutcomeSet
<1> QED BY <1>4, Zenon

LEMMA EnsureIs ==
  ASSUME NEW n \in Nat, NEW s, Sane(n, s), NEW o \in S!EnsureSession(s)
  PROVE  Opens(n, s, o) /\ (o.reply = "ok" => o.session.connected /\ Verified(o.session))
<1>1. PICK p \in S!VerifySession(s) :
        o \in IF p.reply = "ok" THEN S!After(p, S!Connect(p.session)) ELSE {p}
  <2> DEFINE A == {IF p.reply = "ok" THEN S!After(p, S!Connect(p.session)) ELSE {p}
                     : p \in S!VerifySession(s)}
  <2>1. o \in UNION A BY Zenon DEF S!EnsureSession
  <2>2. PICK X \in A : o \in X BY <2>1, Zenon
  <2> QED BY <2>2, Zenon
<1>2. Opens(n, s, p) /\ (p.reply = "ok" => p.session.connected = s.connected /\ Verified(p.session))
      /\ (~s.connected => p.session = s)
  BY VerifyIs, Zenon
<1>3. CASE p.reply = "ok"
  <2>1. o \in S!After(p, S!Connect(p.session)) BY <1>1, <1>3, Zenon
  <2>2. p \in OutcomeSet(n) /\ Sane(n, p.session) BY <1>2 DEF Opens
  <2>3. \A q \in S!Connect(p.session) :
          Opens(n, p.session, q) /\ (q.reply = "ok" => q.session.connected)
    BY <2>2, ConnectIs, Zenon
  <2>4. \A q \in S!Connect(p.session) : q \in OutcomeSet(n) BY <2>3, Zenon DEF Opens
  <2>5. PICK q \in S!Connect(p.session) : AfterIs(n, q, o)
    BY <2>1, <2>2, <2>4, AfterOnce, Zenon
  <2>6. Opens(n, p.session, q) /\ (q.reply = "ok" => q.session.connected) BY <2>3, <2>5, Zenon
  <2>7. CASE p.session.connected
    <3>1. q = S!Outcome(p.session, "ok", {}, FALSE) BY <2>5, <2>7, Zenon DEF S!Connect
    <3>2. q.session = p.session /\ q.reply = "ok" /\ q.durable = {} /\ q.unknown = FALSE /\ q.ran = FALSE
      BY <3>1 DEF S!Outcome
    <3> QED BY <1>2, <1>3, <2>5, <2>7, <3>2 DEF Opens, AfterIs
  <2>8. CASE ~p.session.connected
    <3>1. p.session = s BY <1>2, <1>3, <2>8
    <3> QED BY <2>5, <2>6, <2>8, <3>1 DEF Opens, AfterIs, Same, Fresh, Verified
  <2> QED BY <2>7, <2>8
<1>4. CASE p.reply # "ok"
  <2>1. o = p BY <1>1, <1>4, Zenon
  <2> QED BY <1>2, <1>4, <2>1
<1> QED BY <1>3, <1>4

\* The session after a request that may have replaced it first.
Later(s, r, t) ==
  \/ t.generation = s.generation /\ Authored(s, r, t)
  \/ /\ t.generation = s.generation + 1 /\ s.connected /\ s.outOfTransaction /\ ~s.casVerified
     /\ t.lastId = 0 \/ (r.writes /\ t.author = r.id)

\* A request sent on a session that is verified first, and replaced if need be.
Sent(n, s, r, o) ==
  /\ o \in OutcomeSet(n) /\ Sane(n, o.session)
  /\ s.outOfTransactionReplies \leq o.session.outOfTransactionReplies
  /\ o.session.open => o.session.outOfTransactionReplies = s.outOfTransactionReplies
  /\ Later(s, r, o.session)
  /\ o.ran => s.connected /\ (o.session.generation = s.generation => s.up)
  /\ Answered(s, r, o) \/ Unread(s, r, o)

\* An effect is that on the work and the transaction of the session.
LEMMA EffectAgrees ==
  ASSUME NEW s, NEW t, NEW r, NEW o, t.work = s.work, t.open = s.open
  PROVE  Effect(t, r, o) => Effect(s, r, o)
BY DEF Effect, Commits, RollsBack, Autocommits, Works

LEMMA SendIs ==
  ASSUME NEW n \in Nat, NEW s, Sane(n, s), NEW r \in RequestSet(n), NEW o \in S!SendAndRecv(s, r)
  PROVE  Sent(n, s, r, o)
<1>1. PICK p \in S!VerifySession(s) :
        o \in IF p.reply = "ok" THEN S!After(p, S!Exchange(p.session, r, TRUE)) ELSE {p}
  <2> DEFINE A == {IF p.reply = "ok" THEN S!After(p, S!Exchange(p.session, r, TRUE)) ELSE {p}
                     : p \in S!VerifySession(s)}
  <2>1. o \in UNION A BY Zenon DEF S!SendAndRecv
  <2>2. PICK X \in A : o \in X BY <2>1, Zenon
  <2> QED BY <2>2, Zenon
<1> DEFINE t == p.session
<1>2. Opens(n, s, p) /\ (p.reply = "ok" => t.connected = s.connected)
      /\ (~s.connected => t = s)
  BY VerifyIs, Zenon
<1>3. /\ s \in SessionSet(n) /\ t \in SessionSet(n) /\ Sane(n, t) /\ p \in OutcomeSet(n)
      /\ Held(s) /\ Held(t)
  BY <1>2 DEF Opens, Sane
<1>4. s.outOfTransactionReplies \in Nat /\ s.failedExchanges \in Nat /\ s.generation \in Nat
  BY <1>3 DEF SessionSet
<1> HIDE DEF t
<1>5. CASE p.reply = "ok"
  <2>1. o \in S!After(p, S!Exchange(t, r, TRUE)) BY <1>1, <1>5, Zenon DEF t
  <2>2. \A q \in S!Exchange(t, r, TRUE) : Exchanged(n, t, r, q) BY <1>3, ExchangeIs, Zenon
  <2>3. \A q \in S!Exchange(t, r, TRUE) : q \in OutcomeSet(n) BY <2>2, Zenon DEF Exchanged
  <2>4. PICK q \in S!Exchange(t, r, TRUE) : AfterIs(n, q, o) BY <1>3, <2>1, <2>3, AfterOnce, Zenon
  <2>5. Exchanged(n, t, r, q) BY <2>2, <2>4, Zenon
  <2>6. /\ t.failedExchanges = s.failedExchanges
        /\ t.outOfTransactionReplies = s.outOfTransactionReplies
        /\ t.work = s.work /\ t.connected = s.connected
        /\ Same(s, t) \/ (Fresh(s, t) /\ s.connected)
    BY <1>2, <1>5 DEF Opens, t, Fresh
  <2>7. s.connected => t.open = s.open
    BY <1>3, <2>6 DEF Same, Fresh, Sane, SessionSet
  <2>8. Exchanged(n, t, r, o)
    BY <2>4, <2>5 DEF AfterIs, Exchanged, Answered, Unread, Effect, Commits, RollsBack, Autocommits,
                      Works, Gone, Unheard
  <2>9. Later(s, r, o.session)
    BY <2>6, <2>8 DEF Exchanged, Same, Fresh, Later, Authored
  <2>10. o.ran => s.connected /\ (o.session.generation = s.generation => s.up)
    BY <1>3, <1>4, <2>6, <2>8 DEF Exchanged, Held, Same, Fresh
  <2>11. CASE Answered(t, r, o)
    <3>1. o.ran BY <2>11 DEF Answered
    <3>2. t.open = s.open BY <2>7, <2>10, <3>1
    <3>3. Effect(t, r, o) => Effect(s, r, o) BY <2>6, <3>2, EffectAgrees
    <3>4. Gone(t, r, o) => Gone(s, r, o) BY <2>6, <3>2 DEF Gone
    <3>5. Answered(s, r, o) BY <2>6, <2>11, <3>3, <3>4 DEF Answered
    <3> QED BY <2>6, <2>8, <2>9, <2>10, <3>5 DEF Sent, Exchanged
  <2>12. CASE Unread(t, r, o)
    <3>1. Unread(s, r, o) BY <2>6, <2>12 DEF Unread, Unheard
    <3> QED BY <2>6, <2>8, <2>9, <2>10, <3>1 DEF Sent, Exchanged
  <2> QED BY <2>8, <2>11, <2>12 DEF Exchanged
<1>6. CASE p.reply # "ok"
  <2>1. o = p BY <1>1, <1>6, Zenon
  <2>2. /\ o.reply = "lost" /\ ~o.session.connected /\ o.durable = {} /\ ~o.ran /\ ~o.unknown
        /\ o.session = t
    BY <1>2, <1>6, <2>1 DEF Opens, t
  <2>3. Same(s, t) BY <1>2, <2>2 DEF Opens, Fresh, t
  <2>4. Unread(s, r, o) BY <1>2, <1>4, <2>1, <2>2 DEF Unread, Unheard, Opens
  <2> QED BY <1>2, <1>4, <2>1, <2>2, <2>3, <2>4 DEF Sent, Opens, Same, Later, Authored
<1> QED BY <1>5, <1>6

\* A request for a session that is gone is not sent.
Absent(n, s, generation_, o) ==
  /\ o \in OutcomeSet(n) /\ o.session = s /\ o.reply = "absent" /\ o.durable = {}
  /\ ~o.ran /\ ~o.unknown
  /\ ~(s.connected /\ s.generation = generation_)

LEMMA OnSessionIs ==
  ASSUME NEW n \in Nat, NEW s, Sane(n, s), NEW g, NEW r \in RequestSet(n), NEW counted \in BOOLEAN,
         NEW o \in S!OnSession(s, g, r, counted)
  PROVE  Absent(n, s, g, o) \/ (Exchanged(n, s, r, o) /\ s.connected /\ s.generation = g)
<1>1. CASE s.connected /\ s.generation = g
  <2>1. o \in S!Exchange(s, r, counted) BY <1>1, Zenon DEF S!OnSession
  <2> QED BY <1>1, <2>1, ExchangeIs, Zenon
<1>2. CASE ~(s.connected /\ s.generation = g)
  <2>1. o = S!Outcome(s, "absent", {}, FALSE) BY <1>2, Zenon DEF S!OnSession
  <2>2. s \in SessionSet(n) BY DEF Sane
  <2> QED BY <1>2, <2>1, <2>2 DEF S!Outcome, OutcomeSet, Replied, Absent
<1> QED BY <1>1, <1>2, Zenon

\* Applying the parameters runs no statement; it may drop the session.
Applies(n, s, o) ==
  /\ o \in OutcomeSet(n) /\ Sane(n, o.session)
  /\ o.durable = {} /\ ~o.ran /\ ~o.unknown /\ o.reply \in {"ok", "lost"}
  /\ o.session.failedExchanges = s.failedExchanges
  /\ o.session.outOfTransactionReplies = s.outOfTransactionReplies
  /\ o.session.work \subseteq s.work
  /\ Same(s, o.session) \/ Fresh(s, o.session)

LEMMA SetParametersIs ==
  ASSUME NEW n \in Nat, NEW s, Sane(n, s), NEW o \in S!SetSessionParameters(s)
  PROVE  Applies(n, s, o)
<1>1. PICK p \in S!VerifySession(s) :
        o \in IF p.reply = "lost" \/ ~p.session.connected \/ p.session.generation # s.generation
                THEN {p}
                ELSE IF p.session.up THEN S!Applied(p.session)
                     ELSE {S!Outcome(S!RetireSocket(p.session), "lost", {}, FALSE)}
  <2> DEFINE A == {IF p.reply = "lost" \/ ~p.session.connected \/ p.session.generation # s.generation
                     THEN {p}
                     ELSE IF p.session.up THEN S!Applied(p.session)
                          ELSE {S!Outcome(S!RetireSocket(p.session), "lost", {}, FALSE)}
                     : p \in S!VerifySession(s)}
  <2>1. o \in UNION A BY Zenon DEF S!SetSessionParameters
  <2>2. PICK X \in A : o \in X BY <2>1, Zenon
  <2> QED BY <2>2, Zenon
<1> DEFINE t == p.session
           u == S!RetireSocket(t)
           v == [t EXCEPT !.outOfTransaction = FALSE, !.casVerified = TRUE]
<1>2. Opens(n, s, p) BY VerifyIs, Zenon
<1>3. CASE p.reply = "lost" \/ ~t.connected \/ t.generation # s.generation
  <2>1. o = p BY <1>1, <1>3, Zenon
  <2> QED BY <1>2, <2>1 DEF Opens, Applies
<1>4. CASE ~(p.reply = "lost" \/ ~t.connected \/ t.generation # s.generation)
  <2>1. \/ o = S!Outcome(v, "ok", {}, FALSE)
        \/ o = [S!Outcome(u, "lost", {}, FALSE) EXCEPT !.cost = 1]
        \/ o = S!Outcome(u, "lost", {}, FALSE)
    <3>1. CASE t.up
      <4>1. o \in S!Applied(t) BY <1>1, <1>4, <3>1, Zenon
      <4> QED BY <4>1, Zenon DEF S!Applied
    <3>2. CASE ~t.up BY <1>1, <1>4, <3>2, Zenon
    <3> QED BY <3>1, <3>2
  <2>2. Sane(n, t) /\ t \in SessionSet(n) /\ Same(s, t) /\ s.work = t.work
        /\ t.failedExchanges = s.failedExchanges
        /\ t.outOfTransactionReplies = s.outOfTransactionReplies
    <3>1. s.generation \in Nat \/ t.generation = s.generation BY <1>4
    <3>2. Sane(n, t) /\ (Same(s, t) \/ Fresh(s, t)) BY <1>2 DEF Opens
    <3>3. t \in SessionSet(n) /\ t.generation \in Nat BY <3>2 DEF Sane, SessionSet
    <3>4. t.generation # s.generation + 1 BY <1>4, <3>3
    <3> QED BY <1>2, <3>2, <3>3, <3>4 DEF Opens, Fresh
  <2> HIDE DEF t
  <2>3. Dropped(n, t, u, 0) BY <2>2, DiscardedIs
  <2>4. /\ Sane(n, v) /\ v \in SessionSet(n) /\ v.generation = t.generation
        /\ v.lastId = t.lastId /\ v.author = t.author
        /\ v.connected = t.connected /\ v.up = t.up /\ v.open = t.open /\ ~v.outOfTransaction
        /\ v.failedExchanges = t.failedExchanges /\ v.work = t.work
        /\ v.outOfTransactionReplies = t.outOfTransactionReplies
    BY <2>2 DEF Sane, SessionSet, Held
  <2> HIDE DEF u, v
  <2>5. CASE o = S!Outcome(v, "ok", {}, FALSE)
    <3>1. /\ o \in OutcomeSet(n) /\ o.session = v /\ o.reply = "ok" /\ o.durable = {}
          /\ ~o.unknown /\ ~o.ran
      BY <2>4, <2>5 DEF S!Outcome, OutcomeSet, Replied
    <3> QED BY <2>2, <2>4, <3>1 DEF Applies, Same
  <2>6. CASE \/ o = [S!Outcome(u, "lost", {}, FALSE) EXCEPT !.cost = 1]
             \/ o = S!Outcome(u, "lost", {}, FALSE)
    <3>1. u \in SessionSet(n) BY <2>3 DEF Dropped, Sane
    <3>2. /\ o \in OutcomeSet(n) /\ o.session = u /\ o.reply = "lost" /\ o.durable = {}
          /\ ~o.unknown /\ ~o.ran
      <4>1. CASE o = [S!Outcome(u, "lost", {}, FALSE) EXCEPT !.cost = 1]
        BY <3>1, <4>1 DEF S!Outcome, OutcomeSet, Replied
      <4>2. CASE o = S!Outcome(u, "lost", {}, FALSE)
        BY <3>1, <4>2 DEF S!Outcome, OutcomeSet, Replied
      <4> QED BY <2>6, <4>1, <4>2
    <3>3. u.failedExchanges = t.failedExchanges
      BY <2>2, <2>3 DEF Dropped, SessionSet
    <3> QED BY <2>2, <2>3, <3>2, <3>3 DEF Applies, Same, Dropped
  <2> QED BY <2>1, <2>5, <2>6
<1> QED BY <1>3, <1>4

\* The CAS goes, and the client does not notice: only what was there is lost.
Goes(n, s, t) ==
  /\ Sane(n, t) /\ t.work = {} /\ ~t.open /\ ~t.up
  /\ t.connected = s.connected /\ t.generation = s.generation
  /\ t.outOfTransaction = s.outOfTransaction
  /\ t.failedExchanges = s.failedExchanges
  /\ t.outOfTransactionReplies = s.outOfTransactionReplies
  /\ t.lastId = s.lastId /\ t.author = s.author

LEMMA GoesIs ==
  ASSUME NEW n \in Nat, NEW s, Sane(n, s), NEW t \in S!Leaves(s) \cup S!Crashes(s)
  PROVE  Goes(n, s, t) /\ s.connected
<1>1. s \in SessionSet(n) BY DEF Sane
<1> DEFINE u == S!Ended(s)
<1>2. t = [u EXCEPT !.up = FALSE] /\ s.connected BY Zenon DEF S!Leaves, S!Crashes
<1>3. u = [s EXCEPT !.open = FALSE, !.work = {}] BY DEF S!Ended
<1> HIDE DEF u
<1>4. t = [s EXCEPT !.open = FALSE, !.work = {}, !.up = FALSE] BY <1>2, <1>3
<1> QED BY <1>1, <1>2, <1>4 DEF Goes, Sane, Held, SessionSet

LEMMA NewSessionIs ==
  ASSUME NEW n \in Nat
  PROVE  /\ Sane(n, S!NewSession) /\ ~S!NewSession.connected /\ S!NewSession.work = {}
         /\ S!NewSession.failedExchanges = 0 /\ S!NewSession.outOfTransactionReplies = 0
         /\ S!NewSession.generation = 0 /\ S!NewSession.lastId = 0
BY DEF S!NewSession, Sane, Held, SessionSet

\* More statements were called: the session is as sane as before.
LEMMA SaneGrows ==
  ASSUME NEW n \in Nat, NEW s, Sane(n, s)
  PROVE  Sane(n + 1, s)
BY DEF Sane, SessionSet

-----------------------------------------------------------------------------
(* The adapter: what its state is made of.                                 *)

CallSet ==
  [call : CallNames, sql : Sql, binds : BOOLEAN, escapes : BOOLEAN, id : Nat, cas : Nat,
   failedExchanges : Nat]

ToldSet ==
  [status : {"waiting", "done", "failed"}, writes : BOOLEAN, calledOn : Nat, within : Nat,
   ranOn : Nat \X Nat, boundOn : Nat \X Nat, insertId : Ids \cup {None}, author : Nat]

\* Where a statement is that was found fit to run.
Past == {"mode", "releaseProbe", "send", "execute", "fetch", "lastId", "commit", "release", "undo"}
Points == Past \cup {"idle", "baseline", "start", "checkCas", "version"}

\* The calls that are not settled are the last ones that were made, in their order.
InOrder ==
  /\ Len(queue) \leq Len(told)
  /\ \A i \in 1..Len(queue) : queue[i].id = Len(told) - Len(queue) + i
  /\ pc # "idle" => queue # <<>>

OthersTyped ==
  /\ TransactionTyped
  /\ backslashModeGeneration \in Nat /\ insertIdGeneration \in Nat
  /\ insertIdBaseline \in Ids \cup {None, Unseen}
  /\ generation \in Nat /\ handle \in Nat /\ failure \in Replied \cup {"none"}
  /\ pc \in Points

Typed ==
  /\ workload \in Workloads
  /\ Sane(Len(told), session)
  /\ cas \in Nat /\ created \in Nat /\ cas \leq created
  /\ faults \in 0..workload.maxFaults
  /\ durable \subseteq Numbers /\ doomed \subseteq Numbers
  /\ queue \in Seq(CallSet) /\ told \in Seq(ToldSet)
  /\ InOrder /\ OthersTyped

-----------------------------------------------------------------------------
(* The invariant behind NotBehindUnknown.                                  *)

\* What a call noted when it was made is what the history says of it, and the
\* failures it noted are those of its connection, or fewer once it is doomed.
Noted(i) ==
  LET c == queue[i]
      current == cas # 0 /\ c.cas = cas
  IN  /\ c.cas = told[c.id].calledOn /\ c.cas \leq created
      /\ current => c.failedExchanges \leq session.failedExchanges
      /\ current /\ c.id \in doomed /\ (i > 1 \/ pc \notin Past)
           => c.failedExchanges < session.failedExchanges
      /\ i > 1 => told[c.id].ranOn = Nowhere

\* The statement that runs is not doomed on the connection it runs on.
Fit == pc \in Past => cas # 0 /\ (queue[1].id \in doomed => queue[1].cas # cas)

Behind == (\A i \in 1..Len(queue) : Noted(i)) /\ Fit /\ NotBehindUnknown

-----------------------------------------------------------------------------
(* What a step does, as the invariants need it.                            *)

Waiting == {queue[i].id : i \in 2..Len(queue)}

\* The session and the histories of what was made durable and of who is doomed.
SessionStep ==
  /\ Sane(Len(told), session')
  /\ session.failedExchanges \leq session'.failedExchanges
  /\ faults' \in 0..workload.maxFaults
  /\ durable' \subseteq Numbers
  /\ doomed \subseteq doomed' /\ doomed' \subseteq doomed \cup Waiting
  /\ doomed' # doomed => session.failedExchanges < session'.failedExchanges

\* The connection object is the same, or the first after none.
ConnectionStep ==
  \/ cas' = cas /\ created' = created
  \/ cas = 0 /\ cas' = created + 1 /\ created' = created + 1

\* The statement at the head of the queue goes on.
Continues ==
  /\ queue' = queue /\ queue # <<>>
  /\ told' \in Seq(ToldSet) /\ Len(told') = Len(told)
  /\ \A j \in Numbers : j # id => told'[j] = told[j]
  /\ told'[id].calledOn = told[id].calledOn
  /\ \/ told'[id].ranOn = told[id].ranOn
     \/ pc \in Past /\ (told'[id].ranOn = Nowhere \/ told'[id].ranOn[1] = cas)
  /\ pc \in Past => pc' \in Past
  /\ pc' \in Past => pc \in Past \/ (cas' # 0 /\ (id \in doomed => Running.cas # cas'))

\* The call at the head of the queue is settled.
Settles ==
  /\ queue # <<>> /\ queue' = Tail(queue) /\ pc' = "idle"
  /\ told' \in Seq(ToldSet) /\ Len(told') = Len(told)
  /\ \A j \in Numbers : j # id => told'[j] = told[j]
  /\ told'[id].calledOn = told[id].calledOn /\ told'[id].ranOn = told[id].ranOn

Stepping ==
  /\ SessionStep /\ ConnectionStep /\ OthersTyped' /\ UNCHANGED workload
  /\ Continues \/ Settles

LEMMA RunningIs ==
  ASSUME Typed, queue # <<>>
  PROVE  /\ Running = queue[1] /\ Running \in CallSet /\ Len(queue) \in Nat /\ Len(queue) > 0
         /\ id = queue[1].id /\ id \in Numbers /\ id \in Nat /\ Len(told) \in Nat
         /\ id = Len(told) - Len(queue) + 1
         /\ told[id] \in ToldSet
<1>1. queue \in Seq(CallSet) /\ told \in Seq(ToldSet) /\ InOrder BY DEF Typed
<1>2. Len(queue) \in Nat /\ Len(queue) > 0 /\ Len(told) \in Nat BY <1>1
<1>3. Running = queue[1] /\ queue[1] \in CallSet BY <1>1, <1>2 DEF Running
<1>4. id = queue[1].id BY <1>3 DEF id
<1>5. id = Len(told) - Len(queue) + 1 /\ Len(queue) \leq Len(told)
  BY <1>1, <1>2, <1>4 DEF InOrder
<1>6. id \in 1..Len(told) BY <1>2, <1>5
<1>7. told[id] \in ToldSet BY <1>1, <1>6
<1> QED BY <1>2, <1>3, <1>4, <1>5, <1>6, <1>7 DEF Numbers

\* One entry of the history is replaced.
Revised(t, i, r) ==
  /\ t \in Seq(ToldSet) /\ Len(t) = Len(told) /\ t[i] = r
  /\ \A j \in Numbers : j # i => t[j] = told[j]

LEMMA ToldOnce ==
  ASSUME NEW i \in Numbers, told \in Seq(ToldSet), NEW r \in ToldSet, NEW t, t = [told EXCEPT ![i] = r]
  PROVE  Revised(t, i, r)
BY DEF Numbers, Revised

LEMMA TellIs ==
  ASSUME Typed, queue # <<>>, NEW status \in {"done", "failed"}, Tell(status)
  PROVE  Settles /\ generation' = 0 /\ handle' = 0 /\ failure' = "none"
<1>1. id \in Numbers /\ told[id] \in ToldSet /\ told \in Seq(ToldSet) BY RunningIs DEF Typed
<1> DEFINE r == [told[id] EXCEPT !.status = status]
<1>2. r \in ToldSet /\ r.calledOn = told[id].calledOn /\ r.ranOn = told[id].ranOn
  BY <1>1 DEF ToldSet
<1>3. told' = [told EXCEPT ![id] = r] BY DEF Tell
<1> HIDE DEF r
<1>4. Revised(told', id, r) BY <1>1, <1>2, <1>3, ToldOnce, Zenon
<1> QED BY <1>2, <1>4 DEF Tell, Settles, Revised

LEMMA TakesIs ==
  ASSUME Typed, NEW o \in OutcomeSet(Len(told)), Takes(o)
  PROVE  /\ faults' \in 0..workload.maxFaults
         /\ durable' \subseteq Numbers
         /\ doomed \subseteq doomed' /\ doomed' \subseteq doomed \cup Waiting
         /\ ~o.unknown => doomed' = doomed
<1>1. faults \in 0..workload.maxFaults /\ o.cost \in Nat /\ o.durable \subseteq Numbers
      /\ durable \subseteq Numbers
  BY DEF Typed, OutcomeSet, Numbers
<1>2. workload.maxFaults \in Nat BY WorkloadsAssumption DEF Typed, Workload
<1>3. faults' = faults + o.cost /\ faults + o.cost \leq workload.maxFaults BY DEF Takes
<1>4. faults' \in 0..workload.maxFaults BY <1>1, <1>2, <1>3
<1>5. durable' \subseteq Numbers BY <1>1 DEF Takes
<1>6. doomed' = IF o.unknown THEN doomed \cup Waiting ELSE doomed BY DEF Takes, Waiting
<1> QED BY <1>4, <1>5, <1>6

\* An operation of the connection that leaves session t.
LEMMA OperationIs ==
  ASSUME Typed, NEW o \in OutcomeSet(Len(told)), Takes(o), Sane(Len(told), session'),
         session.failedExchanges \leq session'.failedExchanges,
         o.unknown => session.failedExchanges < session'.failedExchanges
  PROVE  SessionStep
BY TakesIs DEF SessionStep

LEMMA NothingIs ==
  ASSUME Typed, NothingAwaited, Sane(Len(told), session'),
         session.failedExchanges \leq session'.failedExchanges
  PROVE  SessionStep
BY DEF SessionStep, NothingAwaited, Typed

LEMMA CreateIs ==
  ASSUME GetOrCreateCAS \/ UNCHANGED <<cas, created>>
  PROVE  ConnectionStep /\ (GetOrCreateCAS /\ cas \in Nat /\ created \in Nat => cas' # 0)
BY DEF GetOrCreateCAS, ConnectionStep

-----------------------------------------------------------------------------
(* Type correctness: a step that goes on, or settles the call at the head.  *)

LEMMA TailIs ==
  ASSUME Typed, queue # <<>>, queue' = Tail(queue)
  PROVE  /\ queue' \in Seq(CallSet) /\ Len(queue') = Len(queue) - 1 /\ Len(queue') \in Nat
         /\ \A i \in 1..Len(queue') : queue'[i] = queue[i + 1] /\ i + 1 \in 1..Len(queue)
BY DEF Typed

\* The calls still in the queue keep consecutive numbers when its head leaves.
LEMMA OrderKept ==
  ASSUME Typed, queue # <<>>, queue' = Tail(queue), NEW i \in 1..Len(queue')
  PROVE  queue'[i].id = Len(told) - Len(queue') + i
<1>1. queue'[i] = queue[i + 1] /\ i + 1 \in 1..Len(queue)
  BY TailIs
<1>2. queue[i + 1].id = Len(told) - Len(queue) + (i + 1)
  BY <1>1 DEF Typed, InOrder
<1>3. Len(queue) \in Nat /\ Len(told) \in Nat /\ i \in Int
  BY DEF Typed
<1>4. Len(queue') = Len(queue) - 1
  BY TailIs
<1> DEFINE q == Len(queue)
           t == Len(told)
           r == Len(queue')
<1>5. q \in Nat /\ t \in Nat /\ i \in Int /\ r = q - 1
  BY <1>3, <1>4
<1> HIDE DEF q, t, r
<1>6. t - q + (i + 1) = t - r + i
  BY <1>5
<1> QED BY <1>1, <1>2, <1>6 DEF q, t, r

LEMMA StepTyped ==
  ASSUME Typed, Stepping
  PROVE  Typed'
<1>1. CASE Continues
  <2>1. Len(told') = Len(told) /\ queue' = queue /\ queue # <<>> /\ told' \in Seq(ToldSet)
    BY <1>1 DEF Continues
  <2>2. InOrder' BY <2>1 DEF Typed, InOrder
  <2>3. cas' \in Nat /\ created' \in Nat /\ cas' \leq created'
    BY DEF Typed, Stepping, ConnectionStep
  <2>4. Sane(Len(told'), session') BY <2>1 DEF Stepping, SessionStep
  <2>5. durable' \subseteq 1..Len(told') /\ doomed' \subseteq 1..Len(told')
    <3>1. Waiting \subseteq Numbers BY DEF Waiting, Typed, InOrder, Numbers
    <3> QED BY <2>1, <3>1 DEF Stepping, SessionStep, Typed, Numbers
  <2> QED BY <2>1, <2>2, <2>3, <2>4, <2>5 DEF Typed, Stepping, SessionStep, Numbers
<1>2. CASE Settles
  <2>1. Len(told') = Len(told) /\ queue' = Tail(queue) /\ queue # <<>> /\ told' \in Seq(ToldSet)
        /\ pc' = "idle"
    BY <1>2 DEF Settles
  <2>2. /\ queue' \in Seq(CallSet) /\ Len(queue') = Len(queue) - 1 /\ Len(queue') \in Nat
        /\ \A i \in 1..Len(queue') : queue'[i] = queue[i + 1] /\ i + 1 \in 1..Len(queue)
    BY <2>1, TailIs
  <2>3. InOrder'
    <3>1. Len(queue) \in Nat /\ Len(told) \in Nat BY DEF Typed
    <3>2. \A i \in 1..Len(queue') : queue'[i].id = Len(told) - Len(queue') + i
      BY <2>1, OrderKept
    <3> QED BY <2>1, <2>2, <3>1, <3>2 DEF Typed, InOrder
  <2>4. cas' \in Nat /\ created' \in Nat /\ cas' \leq created'
    BY DEF Typed, Stepping, ConnectionStep
  <2>5. Sane(Len(told'), session') BY <2>1 DEF Stepping, SessionStep
  <2>6. durable' \subseteq 1..Len(told') /\ doomed' \subseteq 1..Len(told')
    <3>1. Waiting \subseteq Numbers BY DEF Waiting, Typed, InOrder, Numbers
    <3> QED BY <2>1, <3>1 DEF Stepping, SessionStep, Typed, Numbers
  <2> QED BY <2>1, <2>2, <2>3, <2>4, <2>5, <2>6 DEF Typed, Stepping, SessionStep, Numbers
<1> QED BY <1>1, <1>2 DEF Stepping

-----------------------------------------------------------------------------
(* Nobody who waited behind an unknown outcome runs on that connection.    *)

\* The calls that wait are others than the one that runs.
LEMMA WaitingOthers ==
  ASSUME Typed, queue # <<>>
  PROVE  /\ id \notin Waiting /\ Waiting \subseteq Numbers
         /\ \A i \in 1..Len(queue) : queue[i].id \in Numbers /\ (i > 1 => queue[i].id # id)
         /\ \A i \in 1..Len(queue) : queue[i] \in CallSet
<1>1. /\ queue \in Seq(CallSet) /\ Len(queue) \in Nat /\ Len(told) \in Nat
      /\ id = Len(told) - Len(queue) + 1
  BY RunningIs DEF Typed
<1>2. Len(queue) \leq Len(told) /\ \A i \in 1..Len(queue) : queue[i].id = Len(told) - Len(queue) + i
  BY DEF Typed, InOrder
<1>3. \A i \in 1..Len(queue) : queue[i] \in CallSet BY <1>1
<1>4. \A i \in 1..Len(queue) : queue[i].id \in Numbers /\ (i > 1 => queue[i].id # id)
  BY <1>1, <1>2 DEF Numbers
<1>5. \A i \in 2..Len(queue) : i \in 1..Len(queue) /\ i > 1 BY <1>1
<1>6. \A i \in 2..Len(queue) : queue[i].id \in Numbers /\ queue[i].id # id BY <1>4, <1>5
<1>7. id \notin Waiting /\ Waiting \subseteq Numbers BY <1>6 DEF Waiting
<1> QED BY <1>3, <1>4, <1>7

\* What is noted of a call stays true when the connection and its failures go on.
LEMMA NotedStays ==
  ASSUME Typed, NEW c \in CallSet, c.cas \leq created, SessionStep, ConnectionStep,
         NEW d, NEW late \in BOOLEAN,
         cas # 0 /\ c.cas = cas => c.failedExchanges \leq session.failedExchanges,
         cas # 0 /\ c.cas = cas /\ d \in doomed /\ late => c.failedExchanges < session.failedExchanges
  PROVE  /\ c.cas \leq created'
         /\ cas' # 0 /\ c.cas = cas' => c.failedExchanges \leq session'.failedExchanges
         /\ cas' # 0 /\ c.cas = cas' /\ d \in doomed' /\ late
              => c.failedExchanges < session'.failedExchanges
<1>1. /\ c.cas \in Nat /\ c.failedExchanges \in Nat /\ created \in Nat /\ cas \in Nat
      /\ session.failedExchanges \in Nat /\ session'.failedExchanges \in Nat
  BY DEF CallSet, Typed, SessionStep, Sane, SessionSet
<1>2. cas' # 0 /\ c.cas = cas' => cas' = cas BY <1>1 DEF ConnectionStep
<1>3. c.cas \leq created' BY <1>1 DEF ConnectionStep
<1>4. /\ session.failedExchanges \leq session'.failedExchanges
      /\ d \in doomed' /\ d \notin doomed => session.failedExchanges < session'.failedExchanges
  BY DEF SessionStep
<1> QED BY <1>1, <1>2, <1>3, <1>4

LEMMA BehindContinues ==
  ASSUME Typed, Behind, Stepping, Continues
  PROVE  Behind'
<1>1. queue # <<>> /\ queue' = queue /\ SessionStep /\ ConnectionStep
  BY DEF Continues, Stepping
<1>2. /\ id \notin Waiting /\ Waiting \subseteq Numbers
      /\ \A i \in 1..Len(queue) : queue[i].id \in Numbers /\ (i > 1 => queue[i].id # id)
      /\ \A i \in 1..Len(queue) : queue[i] \in CallSet
  BY <1>1, WaitingOthers, Zenon
<1>3. /\ Running = queue[1] /\ id = queue[1].id /\ id \in Numbers
      /\ Len(queue) \in Nat /\ Len(queue) > 0
  BY <1>1, RunningIs
<1>4. doomed' \subseteq doomed \cup Waiting BY DEF Stepping, SessionStep
<1>5. ASSUME NEW i \in 1..Len(queue') PROVE Noted(i)'
  <2>1. i \in 1..Len(queue) /\ Noted(i) /\ queue[i] \in CallSet /\ queue'[i] = queue[i]
    BY <1>1, <1>2 DEF Behind
  <2> DEFINE c == queue[i]
             late == i > 1 \/ pc' \notin Past
  <2>2. /\ c \in CallSet /\ c.cas = told[c.id].calledOn /\ c.cas \leq created
        /\ cas # 0 /\ c.cas = cas => c.failedExchanges \leq session.failedExchanges
        /\ cas # 0 /\ c.cas = cas /\ c.id \in doomed /\ (i > 1 \/ pc \notin Past)
             => c.failedExchanges < session.failedExchanges
        /\ i > 1 => told[c.id].ranOn = Nowhere
    BY <2>1 DEF Noted
  <2>3. late => i > 1 \/ pc \notin Past BY DEF Continues
  <2>4. late \in BOOLEAN OBVIOUS
  <2>5. c.id \in Numbers /\ (i > 1 => c.id # id) BY <1>2, <2>1
  <2> HIDE DEF c, late
  <2>6. /\ c.cas \leq created'
        /\ cas' # 0 /\ c.cas = cas' => c.failedExchanges \leq session'.failedExchanges
        /\ cas' # 0 /\ c.cas = cas' /\ c.id \in doomed' /\ late
             => c.failedExchanges < session'.failedExchanges
    <3>1. cas # 0 /\ c.cas = cas /\ c.id \in doomed /\ late
            => c.failedExchanges < session.failedExchanges
      BY <2>2, <2>3
    <3> QED BY <1>1, <2>2, <2>4, <3>1, NotedStays
  <2>7. told'[c.id].calledOn = told[c.id].calledOn /\ (i > 1 => told'[c.id].ranOn = told[c.id].ranOn)
    BY <2>5 DEF Continues
  <2> QED BY <2>1, <2>2, <2>6, <2>7 DEF Noted, c, late
<1>6. Fit'
  <2>1. pc \in Past => cas # 0 /\ (id \in doomed => Running.cas # cas) BY <1>3 DEF Behind, Fit
  <2>2. pc' \in Past => cas' # 0 /\ (id \in doomed => Running.cas # cas')
    BY <1>1, <2>1 DEF Continues, ConnectionStep
  <2>3. id \in doomed' => id \in doomed BY <1>2, <1>4
  <2> QED BY <1>1, <1>3, <2>2, <2>3 DEF Fit
<1>7. NotBehindUnknown'
  <2> SUFFICES ASSUME NEW j \in doomed', told'[j].ranOn # Nowhere
               PROVE  told'[j].ranOn[1] # told'[j].calledOn
    BY DEF NotBehindUnknown, Nowhere
  <2>1. j \in Numbers BY <1>2, <1>4 DEF Typed
  <2>2. CASE j \in Waiting
    <3>1. PICK i \in 2..Len(queue) : j = queue[i].id BY <2>2 DEF Waiting
    <3>2. told[j].ranOn = Nowhere BY <1>3, <3>1 DEF Behind, Noted
    <3>3. j # id BY <1>2, <2>2
    <3> QED BY <2>1, <3>2, <3>3 DEF Continues
  <2>3. CASE j \in doomed /\ j # id
    BY <2>1, <2>3 DEF Continues, Behind, NotBehindUnknown
  <2>4. CASE j \in doomed /\ j = id
    <3>1. CASE told'[id].ranOn = told[id].ranOn
      BY <2>4, <3>1 DEF Continues, Behind, NotBehindUnknown
    <3>2. CASE pc \in Past /\ told'[id].ranOn[1] = cas
      <4>1. queue[1].cas # cas BY <1>3, <2>4, <3>2 DEF Behind, Fit
      <4>2. queue[1].cas = told[id].calledOn BY <1>3 DEF Behind, Noted
      <4> QED BY <2>4, <3>2, <4>1, <4>2 DEF Continues
    <3> QED BY <2>4, <3>1, <3>2 DEF Continues
  <2> QED BY <1>4, <2>2, <2>3, <2>4
<1> QED BY <1>5, <1>6, <1>7 DEF Behind

LEMMA BehindSettles ==
  ASSUME Typed, Behind, Stepping, Settles
  PROVE  Behind'
<1>1. queue # <<>> /\ queue' = Tail(queue) /\ pc' = "idle" /\ SessionStep /\ ConnectionStep
  BY DEF Settles, Stepping
<1>2. /\ id \notin Waiting /\ Waiting \subseteq Numbers
      /\ \A i \in 1..Len(queue) : queue[i].id \in Numbers /\ (i > 1 => queue[i].id # id)
      /\ \A i \in 1..Len(queue) : queue[i] \in CallSet
  BY <1>1, WaitingOthers, Zenon
<1>3. /\ Len(queue') \in Nat
      /\ \A i \in 1..Len(queue') : queue'[i] = queue[i + 1] /\ i + 1 \in 1..Len(queue)
  BY <1>1, TailIs
<1>4. doomed' \subseteq doomed \cup Waiting BY DEF Stepping, SessionStep
<1>5. ASSUME NEW i \in 1..Len(queue') PROVE Noted(i)'
  <2>1. i + 1 \in 1..Len(queue) /\ i + 1 > 1 /\ queue'[i] = queue[i + 1] BY <1>3
  <2> DEFINE k == i + 1
             c == queue[k]
  <2>2. k \in 1..Len(queue) /\ k > 1 /\ queue'[i] = c BY <2>1
  <2> HIDE DEF k
  <2>3. c \in CallSet /\ c.id \in Numbers /\ c.id # id BY <1>2, <2>2
  <2>4. /\ c.cas = told[c.id].calledOn /\ c.cas \leq created
        /\ cas # 0 /\ c.cas = cas => c.failedExchanges \leq session.failedExchanges
        /\ cas # 0 /\ c.cas = cas /\ c.id \in doomed => c.failedExchanges < session.failedExchanges
        /\ told[c.id].ranOn = Nowhere
    BY <2>2 DEF Behind, Noted
  <2> HIDE DEF c
  <2>5. /\ c.cas \leq created'
        /\ cas' # 0 /\ c.cas = cas' => c.failedExchanges \leq session'.failedExchanges
        /\ cas' # 0 /\ c.cas = cas' /\ c.id \in doomed' /\ TRUE
             => c.failedExchanges < session'.failedExchanges
    <3>1. cas # 0 /\ c.cas = cas /\ c.id \in doomed /\ TRUE
            => c.failedExchanges < session.failedExchanges
      BY <2>4
    <3> QED BY <1>1, <2>3, <2>4, <3>1, NotedStays
  <2>6. told'[c.id] = told[c.id] BY <2>3 DEF Settles
  <2> QED BY <2>2, <2>4, <2>5, <2>6 DEF Noted
<1>6. Fit' BY <1>1 DEF Fit, Past
<1>7. NotBehindUnknown'
  <2> SUFFICES ASSUME NEW j \in doomed', told'[j].ranOn # Nowhere
               PROVE  told'[j].ranOn[1] # told'[j].calledOn
    BY DEF NotBehindUnknown, Nowhere
  <2>1. j \in Numbers BY <1>2, <1>4 DEF Typed
  <2>2. CASE j \in Waiting
    <3>1. PICK i \in 2..Len(queue) : j = queue[i].id BY <2>2 DEF Waiting
    <3>2. told[j].ranOn = Nowhere BY <3>1 DEF Behind, Noted, Typed
    <3>3. j # id BY <1>2, <2>2
    <3> QED BY <2>1, <3>2, <3>3 DEF Settles
  <2>3. CASE j \in doomed /\ j # id
    BY <2>1, <2>3 DEF Settles, Behind, NotBehindUnknown
  <2>4. CASE j \in doomed /\ j = id
    BY <2>4 DEF Settles, Behind, NotBehindUnknown
  <2> QED BY <1>4, <2>2, <2>3, <2>4
<1> QED BY <1>5, <1>6, <1>7 DEF Behind

LEMMA BehindStep ==
  ASSUME Typed, Behind, Stepping
  PROVE  Behind'
BY BehindContinues, BehindSettles DEF Stepping

-----------------------------------------------------------------------------
(* What the actions are made of.                                           *)

LEMMA SaneNow ==
  ASSUME Typed
  PROVE  /\ Len(told) \in Nat /\ Sane(Len(told), session) /\ session \in SessionSet(Len(told))
         /\ session.failedExchanges \in Nat /\ session.generation \in Nat
         /\ session.outOfTransactionReplies \in Nat
         /\ OthersTyped /\ TransactionTyped /\ cas \in Nat /\ created \in Nat
BY DEF Typed, Sane, SessionSet, OthersTyped

LEMMA RequestIs ==
  ASSUME NEW n \in Nat, NEW fn \in Functions, NEW mode \in S!Modes
  PROVE  /\ S!Request(fn, mode) \in RequestSet(n)
         /\ S!Request(fn, mode).fn = fn /\ S!Request(fn, mode).mode = mode
         /\ S!Request(fn, mode).writes = FALSE
BY DEF S!Request, RequestSet

LEMMA ModeIs ==
  /\ Mode \in S!Modes
  /\ ~autoCommit => Mode = "transaction"
  /\ autoCommit /\ Deferred => Mode = "deferred"
  /\ autoCommit /\ ~Deferred => Mode = "autocommit"
  /\ ~autoCommit => ~Deferred
  /\ (IF autoCommit THEN "deferred" ELSE Mode) \in S!Modes
BY DEF Mode, S!Modes, Deferred

LEMMA StatementIs ==
  ASSUME Typed, queue # <<>>, NEW fn \in Functions
  PROVE  /\ Statement(fn) \in RequestSet(Len(told))
         /\ Statement(fn).fn = fn /\ Statement(fn).mode = Mode /\ Statement(fn).id = id
         /\ Statement(fn).writes <=> Running.sql # "select"
<1> DEFINE w == Running.sql # "select"
<1>1. w \in BOOLEAN OBVIOUS
<1>2. Statement(fn) = [[fn |-> fn, mode |-> Mode, id |-> 0, writes |-> FALSE]
                         EXCEPT !.id = id, !.writes = w]
  BY DEF Statement, S!Request
<1>3. Running.sql # "select" <=> w OBVIOUS
<1> HIDE DEF w
<1>4. Statement(fn) = [fn |-> fn, mode |-> Mode, id |-> id, writes |-> w] BY <1>2
<1>5. id \in 1..Len(told) /\ Len(told) \in Nat BY RunningIs DEF Numbers
<1>6. Mode \in S!Modes BY ModeIs
<1> QED BY <1>1, <1>3, <1>4, <1>5, <1>6 DEF RequestSet

\* A request over the session, which may then be discarded.
LEMMA SentStep ==
  ASSUME Typed, NEW r \in RequestSet(Len(told)), NEW o \in S!SendAndRecv(session, r), Takes(o),
         session' = o.session \/ session' = S!DiscardSession(o.session)
  PROVE  SessionStep /\ Sent(Len(told), session, r, o) /\ o \in OutcomeSet(Len(told))
<1>1. Sane(Len(told), session) /\ Len(told) \in Nat /\ session.failedExchanges \in Nat BY SaneNow
<1>2. Sent(Len(told), session, r, o) BY <1>1, SendIs, Zenon
<1>3. /\ o \in OutcomeSet(Len(told)) /\ Sane(Len(told), o.session)
      /\ session.failedExchanges \leq o.session.failedExchanges
      /\ o.unknown => session.failedExchanges < o.session.failedExchanges
  BY <1>1, <1>2 DEF Sent, Answered, Unread
<1>4. o.session \in SessionSet(Len(told)) /\ o.session.failedExchanges \in Nat
  BY <1>3 DEF Sane, SessionSet
<1>5. CASE session' = o.session BY <1>2, <1>3, <1>5, OperationIs
<1>6. CASE session' = S!DiscardSession(o.session)
  <2>1. Dropped(Len(told), o.session, session', 1) BY <1>1, <1>4, <1>6, DiscardedIs
  <2> QED BY <1>1, <1>2, <1>3, <1>4, <2>1, OperationIs DEF Dropped
<1> QED BY <1>5, <1>6

\* A request for one session only, which may then be discarded.
LEMMA OnSessionStep ==
  ASSUME Typed, NEW g, NEW r \in RequestSet(Len(told)), NEW counted \in BOOLEAN,
         NEW o \in S!OnSession(session, g, r, counted), Takes(o),
         session' = o.session \/ session' = S!DiscardSession(o.session)
  PROVE  /\ SessionStep /\ o \in OutcomeSet(Len(told))
         /\ \/ Absent(Len(told), session, g, o)
            \/ Exchanged(Len(told), session, r, o) /\ session.connected /\ session.generation = g
<1>1. Sane(Len(told), session) /\ Len(told) \in Nat /\ session.failedExchanges \in Nat BY SaneNow
<1>2. \/ Absent(Len(told), session, g, o)
      \/ Exchanged(Len(told), session, r, o) /\ session.connected /\ session.generation = g
  BY <1>1, OnSessionIs, Zenon
<1>3. /\ o \in OutcomeSet(Len(told)) /\ Sane(Len(told), o.session)
      /\ session.failedExchanges \leq o.session.failedExchanges
      /\ o.unknown => session.failedExchanges < o.session.failedExchanges
  BY <1>1, <1>2 DEF Exchanged, Absent, Answered, Unread
<1>4. o.session \in SessionSet(Len(told)) /\ o.session.failedExchanges \in Nat
  BY <1>3 DEF Sane, SessionSet
<1>5. CASE session' = o.session BY <1>2, <1>3, <1>5, OperationIs
<1>6. CASE session' = S!DiscardSession(o.session)
  <2>1. Dropped(Len(told), o.session, session', 1) BY <1>1, <1>4, <1>6, DiscardedIs
  <2> QED BY <1>1, <1>2, <1>3, <1>4, <2>1, OperationIs DEF Dropped
<1> QED BY <1>5, <1>6

\* The session is opened, or its parameters are set.
LEMMA OpensStep ==
  ASSUME Typed, NEW o, Opens(Len(told), session, o) \/ Applies(Len(told), session, o),
         Takes(o), session' = o.session
  PROVE  SessionStep /\ o \in OutcomeSet(Len(told))
<1>1. session.failedExchanges \in Nat BY SaneNow
<1>2. /\ o \in OutcomeSet(Len(told)) /\ Sane(Len(told), o.session) /\ ~o.unknown
      /\ o.session.failedExchanges = session.failedExchanges
  BY DEF Opens, Applies
<1> QED BY <1>1, <1>2, OperationIs

\* A transaction that ended, or a connection that is left, is dropped for good.
LEMMA DropIs ==
  ASSUME Typed, session' = DropIfEnded(session)
  PROVE  /\ Sane(Len(told), session') /\ session.failedExchanges \leq session'.failedExchanges
         /\ session' = session \/ Dropped(Len(told), session, session', 1)
<1>1. session.failedExchanges \in Nat /\ session \in SessionSet(Len(told)) /\ Len(told) \in Nat
      /\ Sane(Len(told), session)
  BY SaneNow
<1>2. CASE session' = session BY <1>1, <1>2
<1>3. CASE session' = S!DiscardSession(session)
  <2>1. Dropped(Len(told), session, session', 1) BY <1>1, <1>3, DiscardedIs
  <2> QED BY <1>1, <2>1 DEF Dropped
<1> QED BY <1>2, <1>3 DEF DropIfEnded

LEMMA FollowIs ==
  ASSUME Typed, NEW s \in SessionSet(Len(told))
  PROVE  s.generation \in Nat /\ Baseline(s) \in Ids \cup {None, Unseen}
         /\ s.lastId \in Ids \cup {None} /\ s.author \in Nat
BY DEF Typed, OthersTyped, Baseline, SessionSet, None, Unseen

LEMMA StatementFailsIs ==
  ASSUME Typed, queue # <<>>, NEW s, Sane(Len(told), s), NEW error, StatementFails(s, error),
         UNCHANGED transactions, backslashModeGeneration' \in Nat
  PROVE  Settles /\ OthersTyped'
<1>1. Settles /\ generation' = 0 /\ handle' = 0 /\ failure' = "none"
  BY TellIs DEF StatementFails
<1>2. s \in SessionSet(Len(told)) /\ s.generation \in Nat BY FollowIs DEF Sane
<1>3. /\ autoCommit' = autoCommit /\ transactionEndReplies' = transactionEndReplies
      /\ transactionAbort' \in BOOLEAN /\ transactionGeneration' \in Nat
      /\ insertIdGeneration' \in Nat /\ insertIdBaseline' = Unseen
  BY <1>2 DEF StatementFails, ForgetInsertId, Follow, BindLostSession, RecordAbort, Typed,
              OthersTyped, TransactionTyped
<1>4. TransactionTyped' BY <1>3 DEF Typed, OthersTyped, TransactionTyped
<1> QED BY <1>1, <1>3, <1>4 DEF OthersTyped, Points, Settles

\* The statement goes on: its history, if it changes, is typed.
LEMMA UntoldContinues ==
  ASSUME Typed, queue # <<>>, UNCHANGED <<queue, told>>, pc \in Past => pc' \in Past,
         pc' \in Past => pc \in Past \/ (cas' # 0 /\ (id \in doomed => Running.cas # cas'))
  PROVE  Continues
BY DEF Continues, Typed

LEMMA PcRuns ==
  ASSUME Typed, pc # "idle" \/ AtStart \/ \E call \in CallNames : Turn(call)
  PROVE  queue # <<>>
BY DEF Typed, InOrder, AtStart, Turn

\* An operation that ends the call, or only moves it on, and leaves the transaction alone.
LEMMA MovesOn ==
  ASSUME Typed, UNCHANGED workload, SessionStep, ConnectionStep, queue # <<>>,
         UNCHANGED <<queue, told, transaction, transactions>>,
         pc \in Past => pc' \in Past,
         pc' \in Past => pc \in Past \/ (cas' # 0 /\ (id \in doomed => Running.cas # cas')),
         backslashModeGeneration' \in Nat, insertIdGeneration' \in Nat,
         insertIdBaseline' \in Ids \cup {None, Unseen},
         generation' \in Nat, handle' \in Nat, failure' \in Replied \cup {"none"},
         pc' \in Points
  PROVE  Stepping
<1>1. Continues BY UntoldContinues
<1>2. TransactionTyped' BY DEF Typed, OthersTyped, TransactionTyped, transaction
<1> QED BY <1>1, <1>2 DEF Stepping, OthersTyped

LEMMA FailsOn ==
  ASSUME Typed, UNCHANGED workload, SessionStep, ConnectionStep, queue # <<>>, NEW error,
         NEW s, Sane(Len(told), s), StatementFails(s, error), UNCHANGED transactions,
         backslashModeGeneration' \in Nat
  PROVE  Stepping
<1>1. Settles /\ OthersTyped' BY StatementFailsIs
<1> QED BY <1>1 DEF Stepping

\* The call is settled, and what the adapter knows is left alone.
LEMMA TellsOn ==
  ASSUME Typed, UNCHANGED workload, SessionStep, ConnectionStep, queue # <<>>,
         NEW status \in {"done", "failed"}, Tell(status), TransactionTyped',
         UNCHANGED <<backslashModeGeneration, baseline>>
  PROVE  Stepping
<1>1. Settles /\ generation' = 0 /\ handle' = 0 /\ failure' = "none" BY TellIs
<1> QED BY <1>1 DEF Stepping, OthersTyped, Typed, Points, Settles, baseline

\* A request that changes nothing of its own.
LEMMA RequestNow ==
  ASSUME Typed, NEW fn \in Functions
  PROVE  S!Request(fn, Mode) \in RequestSet(Len(told))
<1>1. Len(told) \in Nat /\ Mode \in S!Modes BY SaneNow, ModeIs
<1> QED BY <1>1, RequestIs

\* The connection is the one that was in use, or a new one.
LEMMA CasThere ==
  ASSUME Typed, GetOrCreateCAS
  PROVE  ConnectionStep /\ cas' # 0 /\ (cas # 0 => cas' = cas)
BY SaneNow DEF GetOrCreateCAS, ConnectionStep

-----------------------------------------------------------------------------
(* executeNow() and queryNow(), up to sending the statement.               *)

LEMMA StepsBeginExecute ==
  ASSUME Typed, UNCHANGED workload, BeginExecute
  PROVE  Stepping
<1>1. queue # <<>> BY PcRuns DEF BeginExecute, CallNames, Statements
<1>2. ConnectionStep BY CasThere DEF BeginExecute
<1>3. /\ session' = session /\ NothingAwaited /\ pc = "idle" /\ pc' \in {"baseline", "start"}
      /\ UNCHANGED <<queue, told, transaction, transactions, locals, backslashModeGeneration>>
      /\ insertIdGeneration' = session.generation /\ insertIdBaseline' = Baseline(session)
  BY DEF BeginExecute, Turn, NothingAwaited, Follow
<1>4. SessionStep BY <1>3, SaneNow, NothingIs
<1>5. insertIdGeneration' \in Nat /\ insertIdBaseline' \in Ids \cup {None, Unseen}
  BY <1>3, SaneNow, FollowIs
<1>6. /\ backslashModeGeneration' \in Nat /\ generation' \in Nat /\ handle' \in Nat
      /\ failure' \in Replied \cup {"none"}
  BY <1>3 DEF Typed, OthersTyped, locals
<1>7. pc \notin Past /\ pc' \notin Past /\ pc' \in Points BY <1>3 DEF Past, Points
<1> QED BY <1>1, <1>2, <1>3, <1>4, <1>5, <1>6, <1>7, MovesOn

LEMMA StepsBaselineRefused ==
  ASSUME Typed, UNCHANGED workload, BaselineRefused
  PROVE  Stepping
<1>1. queue # <<>> BY PcRuns DEF BaselineRefused
<1>2. ConnectionStep BY CreateIs DEF BaselineRefused
<1>3. /\ session' = session /\ NothingAwaited /\ StatementFails(session, "lost")
      /\ UNCHANGED <<backslashModeGeneration, transactions>>
  BY DEF BaselineRefused
<1>4. SessionStep /\ Sane(Len(told), session) BY <1>3, SaneNow, NothingIs
<1>5. backslashModeGeneration' \in Nat BY <1>3 DEF Typed, OthersTyped
<1> QED BY <1>1, <1>2, <1>3, <1>4, <1>5, FailsOn

LEMMA StepsBaselineUnread ==
  ASSUME Typed, UNCHANGED workload, BaselineUnread
  PROVE  Stepping
<1>1. queue # <<>> BY PcRuns DEF BaselineUnread
<1>2. ConnectionStep BY CreateIs DEF BaselineUnread, connection
<1>3. /\ session' = session /\ NothingAwaited /\ pc = "baseline" /\ pc' = "start"
      /\ UNCHANGED <<queue, told, transaction, transactions, locals, backslashModeGeneration, baseline>>
  BY DEF BaselineUnread, NothingAwaited, connection
<1>4. SessionStep BY <1>3, SaneNow, NothingIs
<1>5. /\ insertIdGeneration' \in Nat /\ insertIdBaseline' \in Ids \cup {None, Unseen}
      /\ backslashModeGeneration' \in Nat /\ generation' \in Nat /\ handle' \in Nat
      /\ failure' \in Replied \cup {"none"}
  BY <1>3 DEF Typed, OthersTyped, locals, baseline
<1>6. pc \notin Past /\ pc' \notin Past /\ pc' \in Points BY <1>3 DEF Past, Points
<1> QED BY <1>1, <1>2, <1>3, <1>4, <1>5, <1>6, MovesOn

LEMMA StepsReadBaseline ==
  ASSUME Typed, UNCHANGED workload, ReadBaseline
  PROVE  Stepping
<1> DEFINE r == S!Request("GET_LAST_INSERT_ID", Mode)
<1>1. queue # <<>> BY PcRuns DEF ReadBaseline
<1>2. ConnectionStep BY CreateIs DEF ReadBaseline
<1>3. r \in RequestSet(Len(told))
  <2>1. "GET_LAST_INSERT_ID" \in Functions BY DEF Functions
  <2> QED BY <2>1, RequestNow, Zenon
<1>4. PICK o \in S!SendAndRecv(session, r) :
        /\ Takes(o)
        /\ IF o.reply = "ok"
             THEN /\ session' = o.session
                  /\ Follow(o.session) /\ insertIdBaseline' = o.session.lastId
                  /\ pc' = "start"
                  /\ UNCHANGED <<transaction, queue, locals, told>>
             ELSE /\ session' = IF o.reply = "malformed" THEN S!DiscardSession(o.session)
                                                         ELSE o.session
                  /\ StatementFails(session', o.reply)
  BY DEF ReadBaseline
<1>5. pc = "baseline" /\ UNCHANGED <<backslashModeGeneration, transactions>> BY DEF ReadBaseline
<1>6. session' = o.session \/ session' = S!DiscardSession(o.session) BY <1>4
<1> HIDE DEF r
<1>7. SessionStep /\ o \in OutcomeSet(Len(told)) BY <1>3, <1>4, <1>6, SentStep
<1>8. Sane(Len(told), session') /\ o.session \in SessionSet(Len(told))
  BY <1>7 DEF SessionStep, OutcomeSet
<1>9. backslashModeGeneration' \in Nat BY <1>5 DEF Typed, OthersTyped
<1>10. CASE o.reply = "ok"
  <2>1. /\ insertIdGeneration' = o.session.generation /\ insertIdBaseline' = o.session.lastId
        /\ pc' = "start" /\ UNCHANGED <<transaction, queue, locals, told>>
    BY <1>4, <1>10 DEF Follow
  <2>2. insertIdGeneration' \in Nat /\ insertIdBaseline' \in Ids \cup {None, Unseen}
    BY <1>8, <2>1, FollowIs
  <2>3. /\ generation' \in Nat /\ handle' \in Nat /\ failure' \in Replied \cup {"none"}
    BY <2>1 DEF Typed, OthersTyped, locals
  <2>4. pc \notin Past /\ pc' \notin Past /\ pc' \in Points BY <1>5, <2>1 DEF Past, Points
  <2> QED BY <1>1, <1>2, <1>5, <1>7, <1>9, <2>1, <2>2, <2>3, <2>4, MovesOn
<1>11. CASE o.reply # "ok"
  <2>1. StatementFails(session', o.reply) BY <1>4, <1>11
  <2> QED BY <1>1, <1>2, <1>5, <1>7, <1>8, <1>9, <2>1, FailsOn
<1> QED BY <1>10, <1>11

LEMMA StepsStartRefused ==
  ASSUME Typed, UNCHANGED workload, StartRefused
  PROVE  Stepping
<1>1. queue # <<>> BY PcRuns DEF StartRefused
<1>2. ConnectionStep BY CasThere DEF StartRefused
<1>3. /\ session' = DropIfEnded(session) /\ NothingAwaited /\ StatementFails(session', "lost")
      /\ UNCHANGED <<backslashModeGeneration, transactions>>
  BY DEF StartRefused
<1>4. SessionStep /\ Sane(Len(told), session') BY <1>3, DropIs, NothingIs
<1>5. backslashModeGeneration' \in Nat BY <1>3 DEF Typed, OthersTyped
<1> QED BY <1>1, <1>2, <1>3, <1>4, <1>5, FailsOn

\* A statement that the check of the count let through is not doomed here.
LEMMA FitToRun ==
  ASSUME Typed, Behind, AtStart, ~StaleCall, GetOrCreateCAS
  PROVE  id \in doomed => Running.cas # cas'
<1>1. queue # <<>> BY PcRuns
<1>2. /\ Running = queue[1] /\ id = queue[1].id /\ Len(queue) \in Nat /\ Len(queue) > 0
      /\ Running \in CallSet
  BY <1>1, RunningIs
<1>3. Noted(1) BY <1>2 DEF Behind
<1>4. pc \notin Past BY DEF AtStart, Turn, Past
<1>5. cas \in Nat /\ created \in Nat /\ session.failedExchanges \in Nat /\ Running.cas \in Nat
      /\ Running.failedExchanges \in Nat
  BY <1>2, SaneNow DEF CallSet
<1>6. CASE cas = 0
  <2>1. cas' = created + 1 /\ Running.cas \leq created
    BY <1>2, <1>3, <1>6 DEF Noted, GetOrCreateCAS
  <2> QED BY <1>5, <2>1
<1>7. CASE cas # 0
  <2>1. cas' = cas BY <1>7 DEF GetOrCreateCAS
  <2>2. Running.cas = cas => session.failedExchanges = Running.failedExchanges BY DEF StaleCall
  <2>3. Running.cas = cas /\ id \in doomed => Running.failedExchanges < session.failedExchanges
    BY <1>2, <1>3, <1>4, <1>7 DEF Noted
  <2> QED BY <1>5, <2>1, <2>2, <2>3
<1> QED BY <1>6, <1>7

LEMMA StepsEnsureSession ==
  ASSUME Typed, Behind, UNCHANGED workload, EnsureSession
  PROVE  Stepping
<1>1. queue # <<>> BY PcRuns DEF EnsureSession
<1>2. ConnectionStep /\ cas' # 0 BY CasThere DEF EnsureSession
<1>3. id \in doomed => Running.cas # cas' BY FitToRun DEF EnsureSession
<1>4. PICK o \in S!EnsureSession(session) :
        /\ Takes(o) /\ session' = o.session
        /\ IF o.reply = "ok"
             THEN pc' \in {"mode", "send"} /\ UNCHANGED <<transaction, baseline, queue, locals, told>>
             ELSE StatementFails(o.session, "lost")
  BY DEF EnsureSession
<1>5. AtStart /\ UNCHANGED <<backslashModeGeneration, transactions>> BY DEF EnsureSession
<1>6. Opens(Len(told), session, o) BY SaneNow, EnsureIs, Zenon
<1>7. SessionStep /\ o \in OutcomeSet(Len(told)) BY <1>4, <1>6, OpensStep
<1>8. Sane(Len(told), o.session) BY <1>4, <1>7 DEF SessionStep
<1>9. backslashModeGeneration' \in Nat BY <1>5 DEF Typed, OthersTyped
<1>10. CASE o.reply = "ok"
  <2>1. pc' \in {"mode", "send"} /\ UNCHANGED <<transaction, baseline, queue, locals, told>>
    BY <1>4, <1>10
  <2>2. /\ insertIdGeneration' \in Nat /\ insertIdBaseline' \in Ids \cup {None, Unseen}
        /\ generation' \in Nat /\ handle' \in Nat /\ failure' \in Replied \cup {"none"}
    BY <2>1 DEF Typed, OthersTyped, locals, baseline
  <2>3. pc' \in Past /\ pc' \in Points BY <2>1 DEF Past, Points
  <2> QED BY <1>1, <1>2, <1>3, <1>5, <1>7, <1>9, <2>1, <2>2, <2>3, MovesOn
<1>11. CASE o.reply # "ok"
  <2>1. StatementFails(o.session, "lost") BY <1>4, <1>11
  <2> QED BY <1>1, <1>2, <1>5, <1>7, <1>8, <1>9, <2>1, FailsOn
<1> QED BY <1>10, <1>11

\* The release of a handle is a request of its session, and its outcome is not counted.
LEMMA ClosesHandle ==
  ASSUME Typed, CloseQueryHandle
  PROVE  SessionStep /\ ConnectionStep
<1> DEFINE r == S!Request("CLOSE_REQ_HANDLE", Mode)
<1>1. r \in RequestSet(Len(told))
  <2>1. "CLOSE_REQ_HANDLE" \in Functions BY DEF Functions
  <2> QED BY <2>1, RequestNow, Zenon
<1>2. PICK o \in S!ReleaseOnSession(session, handle, r) : Takes(o) /\ session' = o.session
  BY DEF CloseQueryHandle
<1> HIDE DEF r
<1>3. o \in S!OnSession(session, handle, r, FALSE) BY <1>2 DEF S!ReleaseOnSession
<1>4. SessionStep BY <1>1, <1>2, <1>3, OnSessionStep
<1> QED BY <1>4, CreateIs DEF CloseQueryHandle

LEMMA StepsProbeMode ==
  ASSUME Typed, UNCHANGED workload, ProbeMode
  PROVE  Stepping
<1> DEFINE mode == IF autoCommit THEN "deferred" ELSE Mode
           r == S!Request("PREPARE_AND_EXECUTE", mode)
<1>1. queue # <<>> BY PcRuns DEF ProbeMode
<1>2. ConnectionStep BY CreateIs DEF ProbeMode
<1>3. r \in RequestSet(Len(told))
  <2>1. "PREPARE_AND_EXECUTE" \in Functions BY DEF Functions
  <2>2. mode \in S!Modes /\ Len(told) \in Nat BY ModeIs, SaneNow
  <2> QED BY <2>1, <2>2, RequestIs, Zenon
<1>4. PICK o \in S!SendAndRecv(session, r) :
        /\ Takes(o)
        /\ session' = IF o.reply = "malformed" THEN S!DiscardSession(o.session) ELSE o.session
        /\ handle' = IF o.reply \in Handles THEN o.session.generation ELSE 0
        /\ failure' \in IF o.reply \in {"ok", "more"} THEN {"none", "error"} ELSE {o.reply}
  BY DEF ProbeMode
<1>5. /\ pc = "mode" /\ pc' = "releaseProbe" /\ generation' = session.generation
      /\ UNCHANGED <<transaction, backslashModeGeneration, baseline, queue, told, transactions>>
  BY DEF ProbeMode
<1>6. session' = o.session \/ session' = S!DiscardSession(o.session) BY <1>4
<1> HIDE DEF r
<1>7. SessionStep /\ o \in OutcomeSet(Len(told)) BY <1>3, <1>4, <1>6, SentStep
<1>8. handle' \in Nat /\ failure' \in Replied \cup {"none"} /\ generation' \in Nat
  <2>1. o.session \in SessionSet(Len(told)) /\ o.reply \in Replied BY <1>7 DEF OutcomeSet
  <2>2. o.session.generation \in Nat /\ session.generation \in Nat BY <2>1, SaneNow DEF SessionSet
  <2> QED BY <1>4, <1>5, <2>1, <2>2 DEF Replied
<1>9. /\ insertIdGeneration' \in Nat /\ insertIdBaseline' \in Ids \cup {None, Unseen}
      /\ backslashModeGeneration' \in Nat
  BY <1>5 DEF Typed, OthersTyped, baseline
<1>10. pc \in Past /\ pc' \in Past /\ pc' \in Points BY <1>5 DEF Past, Points
<1> QED BY <1>1, <1>2, <1>5, <1>7, <1>8, <1>9, <1>10, MovesOn

LEMMA StepsReleaseProbe ==
  ASSUME Typed, UNCHANGED workload, ReleaseProbe
  PROVE  Stepping
<1>1. queue # <<>> /\ pc = "releaseProbe" /\ UNCHANGED transactions BY PcRuns DEF ReleaseProbe
<1>2. SessionStep /\ ConnectionStep BY ClosesHandle DEF ReleaseProbe
<1>3. Sane(Len(told), session') BY <1>2 DEF SessionStep
<1>4. CASE failure = "none"
  <2>1. /\ backslashModeGeneration' = generation /\ handle' = 0 /\ pc' = "send"
        /\ UNCHANGED <<transaction, baseline, queue, generation, failure, told>>
    BY <1>4 DEF ReleaseProbe
  <2>2. /\ insertIdGeneration' \in Nat /\ insertIdBaseline' \in Ids \cup {None, Unseen}
        /\ backslashModeGeneration' \in Nat /\ generation' \in Nat /\ handle' \in Nat
        /\ failure' \in Replied \cup {"none"}
    BY <2>1 DEF Typed, OthersTyped, baseline
  <2>3. pc \in Past /\ pc' \in Past /\ pc' \in Points BY <1>1, <2>1 DEF Past, Points
  <2> QED BY <1>1, <1>2, <2>1, <2>2, <2>3, MovesOn
<1>5. CASE failure # "none"
  <2>1. StatementFails(session', failure) /\ UNCHANGED backslashModeGeneration
    BY <1>5 DEF ReleaseProbe
  <2>2. backslashModeGeneration' \in Nat BY <2>1 DEF Typed, OthersTyped
  <2> QED BY <1>1, <1>2, <1>3, <2>1, <2>2, FailsOn
<1> QED BY <1>4, <1>5

-----------------------------------------------------------------------------
(* runStatement(), from sending the statement on.                          *)

LEMMA ThrowIs ==
  ASSUME NEW s, NEW error \in Replied, Throw(s, error)
  PROVE  /\ session' = s \/ session' = S!DiscardSession(s)
         /\ error # "malformed" => session' = s
         /\ failure' \in Replied /\ pc' = "release" /\ UNCHANGED baseline
BY DEF Throw, Replied

LEMMA FinishIs ==
  ASSUME Finish
  PROVE  pc' \in {"commit", "release"}
BY DEF Finish

LEMMA UseResultIs ==
  ASSUME Typed, NEW s \in SessionSet(Len(told)), NEW reply, UseResult(s, reply)
  PROVE  /\ session' = s /\ UNCHANGED failure
         /\ pc' \in {"fetch", "lastId", "commit", "release"}
         /\ insertIdGeneration' \in Nat /\ insertIdBaseline' \in Ids \cup {None, Unseen}
<1>1. session' = s /\ UNCHANGED failure BY DEF UseResult
<1>2. insertIdGeneration' \in Nat /\ insertIdBaseline' \in Ids \cup {None, Unseen}
  <2>1. UNCHANGED baseline \/ ForgetInsertId(s) BY DEF UseResult
  <2>2. s.generation \in Nat BY DEF SessionSet
  <2> QED BY <2>1, <2>2 DEF Typed, OthersTyped, ForgetInsertId, Follow, baseline
<1>3. pc' \in {"fetch", "lastId", "commit", "release"}
  <2> DEFINE A == Running.call = "query" /\ reply = "more"
             B == Running.call = "execute" /\ Running.sql = "insert"
  <2>1. CASE A
    <3>1. pc' = "fetch" BY <2>1, Zenon DEF UseResult
    <3> QED BY <3>1
  <2>2. CASE B
    <3>1. ~A BY <2>2
    <3>2. pc' = "lastId" BY <2>2, <3>1, Zenon DEF UseResult
    <3> QED BY <3>2
  <2>3. CASE ~A /\ ~B
    <3>1. Finish BY <2>3, Zenon DEF UseResult
    <3> QED BY <3>1, FinishIs
  <2> QED BY <2>1, <2>2, <2>3
<1> QED BY <1>1, <1>2, <1>3

\* The running statement moves on, and what the history says of it may change.
LEMMA RunsOn ==
  ASSUME Typed, UNCHANGED workload, SessionStep, ConnectionStep, queue # <<>>, UNCHANGED queue,
         pc \in Past, pc' \in Past, NEW r, Revised(told', id, r),
         r.calledOn = told[id].calledOn,
         r.ranOn = told[id].ranOn \/ r.ranOn = Nowhere \/ r.ranOn[1] = cas,
         TransactionTyped', UNCHANGED backslashModeGeneration,
         insertIdGeneration' \in Nat, insertIdBaseline' \in Ids \cup {None, Unseen},
         generation' \in Nat, handle' \in Nat, failure' \in Replied \cup {"none"}
  PROVE  Stepping
<1>1. Continues BY DEF Continues, Revised
<1>2. pc' \in Points /\ backslashModeGeneration' \in Nat BY DEF Points, Typed, OthersTyped
<1> QED BY <1>1, <1>2 DEF Stepping, OthersTyped

LEMMA StepsMarkersMismatch ==
  ASSUME Typed, UNCHANGED workload, MarkersMismatch
  PROVE  Stepping
<1>1. queue # <<>> BY PcRuns DEF MarkersMismatch
<1>2. ConnectionStep BY CreateIs DEF MarkersMismatch
<1>3. /\ pc = "execute" /\ Throw(session, "error") /\ NothingAwaited
      /\ UNCHANGED <<transaction, backslashModeGeneration, queue, generation, handle, told, transactions>>
  BY DEF MarkersMismatch
<1>4. session' = session /\ failure' \in Replied /\ pc' = "release" /\ UNCHANGED baseline
  BY <1>3, ThrowIs DEF Replied
<1>5. SessionStep BY <1>3, <1>4, SaneNow, NothingIs
<1>6. /\ insertIdGeneration' \in Nat /\ insertIdBaseline' \in Ids \cup {None, Unseen}
      /\ backslashModeGeneration' \in Nat /\ generation' \in Nat /\ handle' \in Nat
  BY <1>3, <1>4 DEF Typed, OthersTyped, baseline
<1>7. pc \in Past /\ pc' \in Past /\ pc' \in Points BY <1>3, <1>4 DEF Past, Points
<1> QED BY <1>1, <1>2, <1>3, <1>4, <1>5, <1>6, <1>7, MovesOn

LEMMA StepsFetchWindow ==
  ASSUME Typed, UNCHANGED workload, FetchWindow
  PROVE  Stepping
<1> DEFINE r == S!Request("FETCH", Mode)
<1>1. queue # <<>> BY PcRuns DEF FetchWindow
<1>2. ConnectionStep BY CreateIs DEF FetchWindow
<1>3. r \in RequestSet(Len(told))
  <2>1. "FETCH" \in Functions BY DEF Functions
  <2> QED BY <2>1, RequestNow, Zenon
<1>4. PICK o \in S!SendAndRecvOnSession(session, handle, r) :
        /\ Takes(o)
        /\ CASE o.reply = "ok" -> session' = o.session /\ Finish /\ UNCHANGED <<failure, baseline>>
             [] o.reply = "more" -> session' = o.session /\ UNCHANGED <<pc, failure, baseline>>
             [] OTHER -> Throw(o.session, o.reply)
  BY DEF FetchWindow
<1>5. /\ pc = "fetch"
      /\ UNCHANGED <<transaction, backslashModeGeneration, queue, generation, handle, told, transactions>>
  BY DEF FetchWindow
<1> HIDE DEF r
<1>6. o \in S!OnSession(session, handle, r, TRUE) BY <1>4 DEF S!SendAndRecvOnSession
<1>7. \/ session' = o.session /\ Finish /\ UNCHANGED <<failure, baseline>>
      \/ session' = o.session /\ UNCHANGED <<pc, failure, baseline>>
      \/ Throw(o.session, o.reply)
  BY <1>4, Zenon
<1>8. session' = o.session \/ session' = S!DiscardSession(o.session) BY <1>7 DEF Throw
<1>9. SessionStep /\ o \in OutcomeSet(Len(told)) BY <1>3, <1>4, <1>6, <1>8, OnSessionStep
<1>10. UNCHANGED baseline /\ failure' \in Replied \cup {"none"} /\ pc' \in {"fetch", "commit", "release"}
  <2>1. o.reply \in Replied BY <1>9 DEF OutcomeSet
  <2>2. failure \in Replied \cup {"none"} BY DEF Typed, OthersTyped
  <2>3. CASE Throw(o.session, o.reply) BY <2>1, <2>3, ThrowIs
  <2> QED BY <1>5, <1>7, <2>2, <2>3, FinishIs
<1>11. /\ insertIdGeneration' \in Nat /\ insertIdBaseline' \in Ids \cup {None, Unseen}
       /\ backslashModeGeneration' \in Nat /\ generation' \in Nat /\ handle' \in Nat
  BY <1>5, <1>10 DEF Typed, OthersTyped, baseline
<1>12. pc \in Past /\ pc' \in Past /\ pc' \in Points BY <1>5, <1>10 DEF Past, Points
<1> QED BY <1>1, <1>2, <1>5, <1>9, <1>10, <1>11, <1>12, MovesOn

LEMMA StepsCommitStatement ==
  ASSUME Typed, UNCHANGED workload, CommitStatement
  PROVE  Stepping
<1> DEFINE r == S!Request("COMMIT", Mode)
<1>1. queue # <<>> BY PcRuns DEF CommitStatement
<1>2. ConnectionStep BY CreateIs DEF CommitStatement
<1>3. r \in RequestSet(Len(told))
  <2>1. "COMMIT" \in Functions BY DEF Functions
  <2> QED BY <2>1, RequestNow, Zenon
<1>4. PICK o \in S!SendAndRecvOnSession(session, generation, r) :
        /\ Takes(o)
        /\ IF o.reply = "ok" THEN /\ session' = o.session /\ pc' = "release"
                                  /\ UNCHANGED <<failure, baseline>>
                             ELSE Throw(o.session, o.reply)
  BY DEF CommitStatement
<1>5. /\ pc = "commit"
      /\ UNCHANGED <<transaction, backslashModeGeneration, queue, generation, handle, told, transactions>>
  BY DEF CommitStatement
<1> HIDE DEF r
<1>6. o \in S!OnSession(session, generation, r, TRUE) BY <1>4 DEF S!SendAndRecvOnSession
<1>7. \/ session' = o.session /\ pc' = "release" /\ UNCHANGED <<failure, baseline>>
      \/ Throw(o.session, o.reply)
  BY <1>4
<1>8. session' = o.session \/ session' = S!DiscardSession(o.session) BY <1>7 DEF Throw
<1>9. SessionStep /\ o \in OutcomeSet(Len(told)) BY <1>3, <1>4, <1>6, <1>8, OnSessionStep
<1>10. UNCHANGED baseline /\ failure' \in Replied \cup {"none"} /\ pc' = "release"
  <2>1. o.reply \in Replied BY <1>9 DEF OutcomeSet
  <2>2. failure \in Replied \cup {"none"} BY DEF Typed, OthersTyped
  <2>3. CASE Throw(o.session, o.reply) BY <2>1, <2>3, ThrowIs
  <2> QED BY <1>7, <2>2, <2>3
<1>11. /\ insertIdGeneration' \in Nat /\ insertIdBaseline' \in Ids \cup {None, Unseen}
       /\ backslashModeGeneration' \in Nat /\ generation' \in Nat /\ handle' \in Nat
  BY <1>5, <1>10 DEF Typed, OthersTyped, baseline
<1>12. pc \in Past /\ pc' \in Past /\ pc' \in Points BY <1>5, <1>10 DEF Past, Points
<1> QED BY <1>1, <1>2, <1>5, <1>9, <1>10, <1>11, <1>12, MovesOn

LEMMA StepsReleaseHandle ==
  ASSUME Typed, UNCHANGED workload, ReleaseHandle
  PROVE  Stepping
<1> DEFINE r == S!Request("CLOSE_REQ_HANDLE", Mode)
<1>1. queue # <<>> BY PcRuns DEF ReleaseHandle
<1>2. ConnectionStep BY CreateIs DEF ReleaseHandle
<1>3. r \in RequestSet(Len(told))
  <2>1. "CLOSE_REQ_HANDLE" \in Functions BY DEF Functions
  <2> QED BY <2>1, RequestNow, Zenon
<1>4. PICK o \in S!ReleaseOnSession(session, handle, r) :
       /\ Takes(o)
       /\ IF failure = "none" /\ ~TransactionEnded(o.session)
            THEN /\ session' = o.session
                 /\ Tell("done")
            ELSE /\ session' = IF failure = "none" THEN S!DiscardSession(o.session) ELSE o.session
                 /\ failure' = IF failure = "none" THEN "lost" ELSE failure
                 /\ pc' = "undo"
                 /\ UNCHANGED <<queue, generation, handle, told>>
  BY DEF ReleaseHandle
<1>5. pc = "release" /\ UNCHANGED <<transaction, backslashModeGeneration, baseline, transactions>>
  BY DEF ReleaseHandle
<1> HIDE DEF r
<1>6. o \in S!OnSession(session, handle, r, FALSE) BY <1>4 DEF S!ReleaseOnSession
<1>7. session' = o.session \/ session' = S!DiscardSession(o.session) BY <1>4
<1>8. SessionStep BY <1>3, <1>4, <1>6, <1>7, OnSessionStep
<1>9. CASE failure = "none" /\ ~TransactionEnded(o.session)
  <2>1. Tell("done") BY <1>4, <1>9
  <2>2. TransactionTyped' BY <1>5 DEF Typed, OthersTyped, TransactionTyped, transaction
  <2> QED BY <1>1, <1>2, <1>5, <1>8, <2>1, <2>2, TellsOn
<1>10. CASE ~(failure = "none" /\ ~TransactionEnded(o.session))
  <2>1. /\ failure' = (IF failure = "none" THEN "lost" ELSE failure)
        /\ pc' = "undo" /\ UNCHANGED <<queue, generation, handle, told>>
    BY <1>4, <1>10
  <2>2. /\ insertIdGeneration' \in Nat /\ insertIdBaseline' \in Ids \cup {None, Unseen}
        /\ backslashModeGeneration' \in Nat /\ generation' \in Nat /\ handle' \in Nat
        /\ failure' \in Replied \cup {"none"}
    BY <1>5, <2>1 DEF Typed, OthersTyped, baseline, Replied
  <2>3. pc \in Past /\ pc' \in Past /\ pc' \in Points BY <1>5, <2>1 DEF Past, Points
  <2> QED BY <1>1, <1>2, <1>5, <1>8, <2>1, <2>2, <2>3, MovesOn
<1> QED BY <1>9, <1>10

LEMMA StepsUndoStatement ==
  ASSUME Typed, UNCHANGED workload, UndoStatement
  PROVE  Stepping
<1> DEFINE r == S!Request("ROLLBACK", Mode)
           lost == S!Outcome(session, "absent", {}, FALSE)
<1>1. queue # <<>> BY PcRuns DEF UndoStatement
<1>2. ConnectionStep BY CreateIs DEF UndoStatement
<1>3. r \in RequestSet(Len(told))
  <2>1. "ROLLBACK" \in Functions BY DEF Functions
  <2> QED BY <2>1, RequestNow, Zenon
<1>4. PICK o \in IF Deferred THEN S!SendAndRecvOnSession(session, generation, r) ELSE {lost} :
        Takes(o) /\ session' = o.session /\ StatementFails(o.session, failure)
  BY DEF UndoStatement
<1>5. UNCHANGED <<backslashModeGeneration, transactions>> BY DEF UndoStatement
<1> HIDE DEF r
<1>6. SessionStep
  <2>1. CASE Deferred
    <3>1. o \in S!OnSession(session, generation, r, TRUE) BY <1>4, <2>1 DEF S!SendAndRecvOnSession
    <3> QED BY <1>3, <1>4, <3>1, OnSessionStep
  <2>2. CASE ~Deferred
    <3>1. o = lost BY <1>4, <2>2
    <3>2. o \in OutcomeSet(Len(told)) /\ o.session = session /\ ~o.unknown
      BY <3>1, SaneNow DEF S!Outcome, OutcomeSet, Replied
    <3>3. session' = session BY <1>4, <3>2
    <3> QED BY <1>4, <3>2, <3>3, SaneNow, OperationIs
  <2> QED BY <2>1, <2>2
<1>7. Sane(Len(told), o.session) BY <1>4, <1>6 DEF SessionStep
<1>8. backslashModeGeneration' \in Nat BY <1>5 DEF Typed, OthersTyped
<1> QED BY <1>1, <1>2, <1>4, <1>5, <1>6, <1>7, <1>8, FailsOn

\* Where an outcome puts the statement.
LEMMA PlaceIs ==
  ASSUME Typed, NEW o \in OutcomeSet(Len(told))
  PROVE  Place(o) \in Nat \X Nat /\ (Place(o) = Nowhere \/ Place(o)[1] = cas)
<1>1. o.session.generation \in Nat /\ cas \in Nat BY DEF OutcomeSet, SessionSet, Typed
<1> QED BY <1>1 DEF Place, Nowhere

LEMMA StepsReadInsertId ==
  ASSUME Typed, UNCHANGED workload, ReadInsertId
  PROVE  Stepping
<1> DEFINE r == S!Request("GET_LAST_INSERT_ID", Mode)
           value(o) == IF Baseline(o.session) \in {Unseen, o.session.lastId}
                         THEN None ELSE o.session.lastId
<1>1. queue # <<>> BY PcRuns DEF ReadInsertId
<1>2. ConnectionStep BY CreateIs DEF ReadInsertId
<1>3. r \in RequestSet(Len(told))
  <2>1. "GET_LAST_INSERT_ID" \in Functions BY DEF Functions
  <2> QED BY <2>1, RequestNow, Zenon
<1>4. PICK o \in S!SendAndRecv(session, r) :
       /\ Takes(o)
       /\ IF o.reply = "ok"
            THEN /\ session' = o.session
                 /\ Follow(o.session) /\ insertIdBaseline' = o.session.lastId
                 /\ told' = [told EXCEPT ![id].insertId = value(o), ![id].author = o.session.author]
                 /\ Finish
                 /\ UNCHANGED failure
            ELSE Throw(o.session, o.reply) /\ UNCHANGED told
  BY DEF ReadInsertId
<1>5. /\ pc = "lastId"
      /\ UNCHANGED <<transaction, backslashModeGeneration, queue, generation, handle, transactions>>
  BY DEF ReadInsertId
<1> HIDE DEF r
<1>6. session' = o.session \/ session' = S!DiscardSession(o.session) BY <1>4 DEF Throw
<1>7. SessionStep /\ o \in OutcomeSet(Len(told)) BY <1>3, <1>4, <1>6, SentStep
<1>8. o.session \in SessionSet(Len(told)) /\ o.reply \in Replied BY <1>7 DEF OutcomeSet
<1>9. /\ backslashModeGeneration' \in Nat /\ generation' \in Nat /\ handle' \in Nat
      /\ TransactionTyped' /\ failure \in Replied \cup {"none"} /\ pc \in Past
  BY <1>5 DEF Typed, OthersTyped, TransactionTyped, transaction, Past
<1>10. id \in Numbers /\ told[id] \in ToldSet /\ told \in Seq(ToldSet) BY <1>1, RunningIs DEF Typed
<1>11. CASE o.reply = "ok"
  <2> DEFINE v == value(o)
             a == o.session.author
             t == [told[id] EXCEPT !.insertId = v, !.author = a]
  <2>1. told' = [told EXCEPT ![id].insertId = v, ![id].author = a] BY <1>4, <1>11
  <2>2. v \in Ids \cup {None} /\ a \in Nat /\ o.session.lastId \in Ids \cup {None}
        /\ o.session.generation \in Nat
    BY <1>8, SaneNow DEF SessionSet, None
  <2>3. insertIdGeneration' = o.session.generation /\ insertIdBaseline' = o.session.lastId
        /\ pc' \in {"commit", "release"} /\ UNCHANGED failure
    BY <1>4, <1>11, FinishIs DEF Follow
  <2> HIDE DEF v, a, value
  <2>4. /\ t \in ToldSet /\ t.calledOn = told[id].calledOn /\ t.ranOn = told[id].ranOn
    BY <1>10, <2>2 DEF ToldSet
  <2>5. told' = [told EXCEPT ![id] = t] BY <1>10, <2>1 DEF ToldSet
  <2> HIDE DEF t
  <2>6. Revised(told', id, t) BY <1>10, <2>4, <2>5, ToldOnce
  <2>7. pc' \in Past BY <2>3 DEF Past
  <2> QED BY <1>1, <1>2, <1>5, <1>7, <1>9, <2>2, <2>3, <2>4, <2>6, <2>7, RunsOn
<1>12. CASE o.reply # "ok"
  <2>1. Throw(o.session, o.reply) /\ UNCHANGED told BY <1>4, <1>12
  <2>2. failure' \in Replied /\ pc' = "release" /\ UNCHANGED baseline BY <1>8, <2>1, ThrowIs
  <2>3. insertIdGeneration' \in Nat /\ insertIdBaseline' \in Ids \cup {None, Unseen}
    BY <2>2 DEF Typed, OthersTyped, baseline
  <2>4. pc' \in Past /\ pc' \in Points BY <2>2 DEF Past, Points
  <2> QED BY <1>1, <1>2, <1>5, <1>7, <1>9, <2>1, <2>2, <2>3, <2>4, MovesOn
<1> QED BY <1>11, <1>12

LEMMA StepsExecuteHandle ==
  ASSUME Typed, UNCHANGED workload, ExecuteHandle
  PROVE  Stepping
<1> DEFINE r == Statement("EXECUTE")
<1>1. queue # <<>> BY PcRuns DEF ExecuteHandle
<1>2. ConnectionStep BY CreateIs DEF ExecuteHandle
<1>3. r \in RequestSet(Len(told))
  <2>1. "EXECUTE" \in Functions BY DEF Functions
  <2> QED BY <1>1, <2>1, StatementIs, Zenon
<1>4. PICK o \in S!SendAndRecvOnSession(session, generation, r) :
       /\ Takes(o)
       /\ told' = [told EXCEPT ![id].ranOn = Place(o)]
       /\ IF o.reply \in {"ok", "more"} THEN UseResult(o.session, o.reply)
                                        ELSE Throw(o.session, o.reply)
  BY DEF ExecuteHandle
<1>5. /\ pc = "execute"
      /\ UNCHANGED <<transaction, backslashModeGeneration, queue, generation, handle, transactions>>
  BY DEF ExecuteHandle
<1> HIDE DEF r
<1>6. o \in S!OnSession(session, generation, r, TRUE) BY <1>4 DEF S!SendAndRecvOnSession
<1>7. UseResult(o.session, o.reply) \/ Throw(o.session, o.reply) BY <1>4
<1>8. session' = o.session \/ session' = S!DiscardSession(o.session) BY <1>7 DEF Throw, UseResult
<1>9. SessionStep /\ o \in OutcomeSet(Len(told)) BY <1>3, <1>4, <1>6, <1>8, OnSessionStep
<1>10. o.session \in SessionSet(Len(told)) /\ o.reply \in Replied BY <1>9 DEF OutcomeSet
<1>11. /\ backslashModeGeneration' \in Nat /\ generation' \in Nat /\ handle' \in Nat
       /\ TransactionTyped' /\ failure \in Replied \cup {"none"} /\ pc \in Past
  BY <1>5 DEF Typed, OthersTyped, TransactionTyped, transaction, Past
<1>12. /\ failure' \in Replied \cup {"none"} /\ pc' \in Past
       /\ insertIdGeneration' \in Nat /\ insertIdBaseline' \in Ids \cup {None, Unseen}
  <2>1. CASE UseResult(o.session, o.reply)
    <3>1. /\ UNCHANGED failure
          /\ pc' \in {"fetch", "lastId", "commit", "release"}
          /\ insertIdGeneration' \in Nat /\ insertIdBaseline' \in Ids \cup {None, Unseen}
      BY <1>10, <2>1, UseResultIs
    <3> QED BY <1>11, <3>1 DEF Past
  <2>2. CASE Throw(o.session, o.reply)
    <3>1. failure' \in Replied /\ pc' = "release" /\ UNCHANGED baseline BY <1>10, <2>2, ThrowIs
    <3> QED BY <3>1 DEF Typed, OthersTyped, baseline, Past
  <2> QED BY <1>7, <2>1, <2>2
<1>13. id \in Numbers /\ told[id] \in ToldSet /\ told \in Seq(ToldSet) BY <1>1, RunningIs DEF Typed
<1> DEFINE p == Place(o)
           t == [told[id] EXCEPT !.ranOn = p]
<1>14. p \in Nat \X Nat /\ (p = Nowhere \/ p[1] = cas) /\ told' = [told EXCEPT ![id].ranOn = p]
  BY <1>4, <1>9, PlaceIs
<1> HIDE DEF p
<1>15. told' = [told EXCEPT ![id] = t] BY <1>14
<1>16. t \in ToldSet /\ t.calledOn = told[id].calledOn /\ t.ranOn = p BY <1>13, <1>14 DEF ToldSet
<1> HIDE DEF t
<1>17. Revised(told', id, t) BY <1>13, <1>15, <1>16, ToldOnce
<1> QED BY <1>1, <1>2, <1>5, <1>9, <1>11, <1>12, <1>14, <1>16, <1>17, RunsOn

LEMMA StepsSendStatement ==
  ASSUME Typed, UNCHANGED workload, SendStatement
  PROVE  Stepping
<1> DEFINE first == ~autoCommit /\ transactionGeneration = 0
           fn == IF Running.binds THEN "PREPARE" ELSE "PREPARE_AND_EXECUTE"
           r == Statement(fn)
           ran(o) == IF Running.binds THEN told[id].ranOn ELSE Place(o)
           bound == IF Running.escapes /\ ~Running.binds
                      THEN <<cas, backslashModeGeneration>> ELSE told[id].boundOn
<1>1. queue # <<>> BY PcRuns DEF SendStatement
<1>2. ConnectionStep BY CreateIs DEF SendStatement
<1>3. id \in Numbers /\ told[id] \in ToldSet /\ told \in Seq(ToldSet) BY <1>1, RunningIs DEF Typed
<1>4. r \in RequestSet(Len(told))
  <2>1. fn \in Functions BY DEF Functions
  <2> QED BY <1>1, <2>1, StatementIs, Zenon
<1>5. /\ pc = "send"
      /\ UNCHANGED <<autoCommit, transactionAbort, backslashModeGeneration, queue, transactions>>
      /\ transactionEndReplies' = IF first THEN session.outOfTransactionReplies
                                           ELSE transactionEndReplies
  BY DEF SendStatement
<1>6. PICK o \in S!SendAndRecv(session, r) :
        /\ Takes(o)
        /\ told' = [told EXCEPT ![id].within = Transaction, ![id].ranOn = ran(o), ![id].boundOn = bound]
        /\ handle' = IF o.reply \in Handles THEN o.session.generation ELSE 0
        /\ generation' = IF o.reply = "lost" THEN session.generation ELSE o.session.generation
        /\ transactionGeneration' = IF first /\ o.reply # "lost" THEN o.session.generation
                                                                 ELSE transactionGeneration
        /\ \/ \E error \in {"lost", o.reply} :
                 Throw(o.session, error) \/ Throw(S!DiscardSession(o.session), "lost")
           \/ session' = o.session /\ pc' = "execute" /\ UNCHANGED <<baseline, failure>>
           \/ UseResult(o.session, o.reply)
  BY DEF SendStatement
<1> HIDE DEF r
<1>7. session' = o.session \/ session' = S!DiscardSession(o.session)
  BY <1>6 DEF Throw, UseResult
<1>8. SessionStep /\ o \in OutcomeSet(Len(told)) BY <1>4, <1>6, <1>7, SentStep
<1>9. /\ o.session \in SessionSet(Len(told)) /\ o.reply \in Replied
      /\ o.session.generation \in Nat /\ session.generation \in Nat
      /\ session.outOfTransactionReplies \in Nat
  BY <1>8, SaneNow DEF OutcomeSet, SessionSet
<1>10. /\ handle' \in Nat /\ generation' \in Nat /\ pc \in Past
       /\ TransactionTyped' /\ failure \in Replied \cup {"none"}
  BY <1>5, <1>6, <1>9 DEF Typed, OthersTyped, TransactionTyped, Past
<1>11. /\ failure' \in Replied \cup {"none"} /\ pc' \in Past
       /\ insertIdGeneration' \in Nat /\ insertIdBaseline' \in Ids \cup {None, Unseen}
  <2>1. CASE UseResult(o.session, o.reply)
    <3>1. /\ UNCHANGED failure
          /\ pc' \in {"fetch", "lastId", "commit", "release"}
          /\ insertIdGeneration' \in Nat /\ insertIdBaseline' \in Ids \cup {None, Unseen}
      BY <1>9, <2>1, UseResultIs
    <3> QED BY <1>10, <3>1 DEF Past
  <2>2. CASE \E error \in {"lost", o.reply} :
               Throw(o.session, error) \/ Throw(S!DiscardSession(o.session), "lost")
    <3>1. failure' \in Replied /\ pc' = "release" /\ UNCHANGED baseline
      BY <1>9, <2>2 DEF Throw, Replied
    <3> QED BY <3>1 DEF Typed, OthersTyped, baseline, Past
  <2>3. CASE pc' = "execute" /\ UNCHANGED <<baseline, failure>>
    BY <1>10, <2>3 DEF Typed, OthersTyped, baseline, Past
  <2> QED BY <1>6, <2>1, <2>2, <2>3
<1> DEFINE w == Transaction
           p == ran(o)
           b == bound
           t == [told[id] EXCEPT !.within = w, !.ranOn = p, !.boundOn = b]
<1>12. w \in Nat
  <2>1. transactions \in Seq({"open", "committed", "rolled back", "failed"})
    BY DEF Typed, OthersTyped, TransactionTyped
  <2>2. Len(transactions) \in Nat BY <2>1, LenProperties, Zenon
  <2> QED BY <2>2 DEF Transaction
<1>13. p \in Nat \X Nat /\ (p = told[id].ranOn \/ p = Nowhere \/ p[1] = cas)
  BY <1>3, <1>8, PlaceIs DEF ToldSet
<1>14. b \in Nat \X Nat BY <1>3 DEF ToldSet, Typed, OthersTyped
<1>15. told' = [told EXCEPT ![id].within = w, ![id].ranOn = p, ![id].boundOn = b] BY <1>6
<1> HIDE DEF w, p, b, ran, bound
<1>16. told' = [told EXCEPT ![id] = t] BY <1>3, <1>15 DEF ToldSet
<1>17. t \in ToldSet /\ t.calledOn = told[id].calledOn /\ t.ranOn = p
  BY <1>3, <1>12, <1>13, <1>14 DEF ToldSet
<1> HIDE DEF t
<1>18. Revised(told', id, t) BY <1>3, <1>16, <1>17, ToldOnce
<1> QED BY <1>1, <1>2, <1>5, <1>8, <1>10, <1>11, <1>13, <1>17, <1>18, RunsOn

-----------------------------------------------------------------------------
(* The transaction calls.                                                  *)

Ways == {"open", "committed", "rolled back", "failed"}

LEMMA WaysAre ==
  ASSUME Typed
  PROVE  /\ transactions \in Seq(Ways) /\ Len(transactions) \in Nat
         /\ autoCommit \/ transactions # <<>>
         /\ autoCommit \in BOOLEAN /\ transactionAbort \in BOOLEAN
         /\ transactionGeneration \in Nat /\ transactionEndReplies \in Nat \cup {-1}
<1>1. transactions \in Seq(Ways) BY DEF Typed, OthersTyped, TransactionTyped, Ways
<1>2. Len(transactions) \in Nat BY <1>1, LenProperties, Zenon
<1> QED BY <1>1, <1>2 DEF Typed, OthersTyped, TransactionTyped

LEMMA EndedTyped ==
  ASSUME Typed, EndTransaction, NEW how \in Ways, TellTransaction(how)
  PROVE  TransactionTyped'
<1>1. transactions \in Seq(Ways) BY WaysAre
<1>2. transactions' \in Seq(Ways)
  <2>1. CASE autoCommit BY <1>1, <2>1 DEF TellTransaction
  <2>2. CASE ~autoCommit
    <3> DEFINE k == Transaction
    <3>1. transactions' = [transactions EXCEPT ![k] = how] BY <2>2 DEF TellTransaction
    <3>2. Len(transactions) \in Nat /\ transactions # <<>> BY <2>2, WaysAre
    <3>3. k = Len(transactions) BY <2>2 DEF Transaction
    <3> HIDE DEF k, Ways
    <3>4. k \in 1..Len(transactions) BY <1>1, <3>2, <3>3
    <3>5. [transactions EXCEPT ![k] = how] \in Seq(Ways) BY <1>1, <3>4, ExceptSeq
    <3> QED BY <3>1, <3>5
  <2> QED BY <2>1, <2>2
<1> QED BY <1>2 DEF EndTransaction, TransactionTyped, Ways

LEMMA BegunTyped ==
  ASSUME Typed, autoCommit' = FALSE,
         UNCHANGED <<transactionGeneration, transactionEndReplies, transactionAbort>>,
         transactions' = IF autoCommit THEN Append(transactions, "open") ELSE transactions
  PROVE  TransactionTyped'
<1>1. transactions \in Seq(Ways) /\ (autoCommit \/ transactions # <<>>) BY WaysAre
<1>2. "open" \in Ways BY DEF Ways
<1>3. transactions' \in Seq(Ways) /\ transactions' # <<>>
  <2> HIDE DEF Ways
  <2> DEFINE a == Append(transactions, "open")
  <2>1. a \in Seq(Ways) /\ a # <<>> BY <1>1, <1>2, AppendProperties
  <2> HIDE DEF a
  <2>2. transactions' = IF autoCommit THEN a ELSE transactions BY DEF a
  <2> QED BY <1>1, <2>1, <2>2
<1> QED BY <1>3, WaysAre DEF TransactionTyped, Ways

LEMMA SameTyped ==
  ASSUME Typed, UNCHANGED <<transaction, transactions>>
  PROVE  TransactionTyped'
BY DEF Typed, OthersTyped, TransactionTyped, transaction

LEMMA TransactionFailsIs ==
  ASSUME Typed, NEW s, NEW error, TransactionFails(s, error)
  PROVE  session' = s /\ Tell("failed") /\ TransactionTyped'
<1>1. session' = s /\ Tell("failed") BY DEF TransactionFails
<1>2. \/ EndTransaction /\ TellTransaction("failed")
      \/ UNCHANGED <<transaction, transactions>>
  BY DEF TransactionFails
<1>3. "failed" \in Ways BY DEF Ways
<1> QED BY <1>1, <1>2, <1>3, EndedTyped, SameTyped

LEMMA StepsBeginRefused ==
  ASSUME Typed, UNCHANGED workload, BeginRefused
  PROVE  Stepping
<1>1. queue # <<>> BY PcRuns DEF BeginRefused, CallNames
<1>2. ConnectionStep BY CreateIs DEF BeginRefused, connection
<1>3. /\ session' = session /\ NothingAwaited /\ Tell("failed")
      /\ UNCHANGED <<transaction, transactions, backslashModeGeneration, baseline>>
  BY DEF BeginRefused, connection, NothingAwaited
<1>4. SessionStep BY <1>3, SaneNow, NothingIs
<1>5. TransactionTyped' BY <1>3, SameTyped
<1> QED BY <1>1, <1>2, <1>3, <1>4, <1>5, TellsOn

LEMMA StepsBeginTransaction ==
  ASSUME Typed, UNCHANGED workload, BeginTransaction
  PROVE  Stepping
<1>1. queue # <<>> BY PcRuns DEF BeginTransaction, CallNames
<1>2. ConnectionStep BY CasThere DEF BeginTransaction
<1>3. PICK o \in S!Connect(session) :
        /\ Takes(o) /\ session' = o.session
        /\ IF o.reply = "ok"
             THEN /\ autoCommit' = FALSE
                  /\ transactions' = IF autoCommit THEN Append(transactions, "open") ELSE transactions
                  /\ Tell("done")
             ELSE UNCHANGED <<autoCommit, transactions>> /\ Tell("failed")
  BY DEF BeginTransaction
<1>4. UNCHANGED <<transactionGeneration, transactionEndReplies, transactionAbort,
                  backslashModeGeneration, baseline>>
  BY DEF BeginTransaction
<1>5. Opens(Len(told), session, o) BY SaneNow, ConnectIs, Zenon
<1>6. SessionStep BY <1>3, <1>5, OpensStep
<1>7. CASE o.reply = "ok"
  <2>1. /\ autoCommit' = FALSE /\ Tell("done")
        /\ transactions' = IF autoCommit THEN Append(transactions, "open") ELSE transactions
    BY <1>3, <1>7
  <2>2. TransactionTyped' BY <1>4, <2>1, BegunTyped, Zenon
  <2> QED BY <1>1, <1>2, <1>4, <1>6, <2>1, <2>2, TellsOn
<1>8. CASE o.reply # "ok"
  <2>1. UNCHANGED <<autoCommit, transactions>> /\ Tell("failed") BY <1>3, <1>8
  <2>2. TransactionTyped' BY <1>4, <2>1, SameTyped DEF transaction
  <2> QED BY <1>1, <1>2, <1>4, <1>6, <2>1, <2>2, TellsOn
<1> QED BY <1>7, <1>8

LEMMA StepsCommitRefused ==
  ASSUME Typed, UNCHANGED workload, CommitRefused
  PROVE  Stepping
<1> DEFINE s == DropIfEnded(session)
<1>1. queue # <<>> BY PcRuns DEF CommitRefused, CallNames
<1>2. ConnectionStep BY CasThere DEF CommitRefused
<1>3. TransactionFails(s, "lost") /\ NothingAwaited /\ UNCHANGED <<backslashModeGeneration, baseline>>
  BY DEF CommitRefused
<1>4. session' = s /\ Tell("failed") /\ TransactionTyped' BY <1>3, TransactionFailsIs
<1>5. SessionStep BY <1>3, <1>4, DropIs, NothingIs
<1> QED BY <1>1, <1>2, <1>3, <1>4, <1>5, TellsOn

LEMMA StepsRollbackRefused ==
  ASSUME Typed, UNCHANGED workload, RollbackRefused
  PROVE  Stepping
<1>1. queue # <<>> BY PcRuns DEF RollbackRefused, CallNames
<1>2. ConnectionStep BY CasThere DEF RollbackRefused
<1>3. TransactionFails(session, "lost") /\ NothingAwaited
      /\ UNCHANGED <<backslashModeGeneration, baseline>>
  BY DEF RollbackRefused
<1>4. session' = session /\ Tell("failed") /\ TransactionTyped' BY <1>3, TransactionFailsIs
<1>5. SessionStep BY <1>3, <1>4, SaneNow, NothingIs
<1> QED BY <1>1, <1>2, <1>3, <1>4, <1>5, TellsOn

\* Both ways of an end that was sent.
LEMMA EndSent ==
  ASSUME Typed, UNCHANGED workload, queue # <<>>, ConnectionStep,
         NEW fn \in Functions, NEW how \in Ways,
         NEW o \in S!SendAndRecv(session, S!Request(fn, Mode)), Takes(o),
         \/ /\ session' = o.session /\ EndTransaction /\ TellTransaction(how) /\ Tell("done")
         \/ TransactionFails(o.session, o.reply),
         UNCHANGED <<backslashModeGeneration, baseline>>
  PROVE  Stepping
<1> DEFINE r == S!Request(fn, Mode)
<1>1. r \in RequestSet(Len(told)) BY RequestNow
<1> HIDE DEF r
<1>2. session' = o.session BY TransactionFailsIs
<1>3. o \in S!SendAndRecv(session, r) BY DEF r
<1>4. SessionStep BY <1>1, <1>2, <1>3, SentStep
<1>5. TransactionTyped' /\ (Tell("done") \/ Tell("failed")) BY TransactionFailsIs, EndedTyped
<1> QED BY <1>4, <1>5, TellsOn

LEMMA StepsCommit ==
  ASSUME Typed, UNCHANGED workload, Commit
  PROVE  Stepping
<1>1. queue # <<>> BY PcRuns DEF Commit, CallNames
<1>2. ConnectionStep BY CreateIs DEF Commit
<1>3. PICK o \in S!SendAndRecv(session, S!Request("COMMIT", Mode)) :
        /\ Takes(o)
        /\ \/ /\ session' = o.session /\ EndTransaction /\ TellTransaction("committed")
              /\ Tell("done")
           \/ TransactionFails(o.session, o.reply)
  BY DEF Commit
<1>4. "COMMIT" \in Functions /\ "committed" \in Ways BY DEF Functions, Ways
<1>5. UNCHANGED <<backslashModeGeneration, baseline>> BY DEF Commit
<1> QED BY <1>1, <1>2, <1>3, <1>4, <1>5, EndSent, Zenon

LEMMA StepsRollback ==
  ASSUME Typed, UNCHANGED workload, Rollback
  PROVE  Stepping
<1>1. queue # <<>> BY PcRuns DEF Rollback, CallNames
<1>2. ConnectionStep BY CreateIs DEF Rollback
<1>3. PICK o \in S!SendAndRecv(session, S!Request("ROLLBACK", Mode)) :
        /\ Takes(o)
        /\ \/ /\ session' = o.session /\ EndTransaction /\ TellTransaction("rolled back")
              /\ Tell("done")
           \/ TransactionFails(o.session, o.reply)
  BY DEF Rollback
<1>4. "ROLLBACK" \in Functions /\ "rolled back" \in Ways BY DEF Functions, Ways
<1>5. UNCHANGED <<backslashModeGeneration, baseline>> BY DEF Rollback
<1> QED BY <1>1, <1>2, <1>3, <1>4, <1>5, EndSent, Zenon

-----------------------------------------------------------------------------
(* The other calls.                                                        *)

LEMMA OnlyIs ==
  ASSUME Typed, UNCHANGED workload, ConnectionStep, queue # <<>>, pc \notin Past,
         NEW outcomes, NEW next \in {"idle", "version", "checkCas"}, Only(outcomes, next),
         \A o \in outcomes : Takes(o) /\ session' = o.session => SessionStep
  PROVE  Stepping
<1>1. PICK o \in outcomes :
        /\ Takes(o) /\ session' = o.session
        /\ \/ pc' = next /\ next # "idle" /\ UNCHANGED <<queue, told, locals>>
           \/ Tell("done") \/ Tell("failed")
  BY DEF Only
<1>2. UNCHANGED <<transaction, backslashModeGeneration, baseline, transactions>> BY DEF Only
<1>3. SessionStep BY <1>1
<1>4. TransactionTyped' BY <1>2, SameTyped
<1>5. CASE Tell("done") \/ Tell("failed") BY <1>2, <1>3, <1>4, <1>5, TellsOn
<1>6. CASE pc' = next /\ next # "idle" /\ UNCHANGED <<queue, told, locals>>
  <2>1. /\ insertIdGeneration' \in Nat /\ insertIdBaseline' \in Ids \cup {None, Unseen}
        /\ backslashModeGeneration' \in Nat /\ generation' \in Nat /\ handle' \in Nat
        /\ failure' \in Replied \cup {"none"}
    BY <1>2, <1>6 DEF Typed, OthersTyped, baseline, locals
  <2>2. pc' \notin Past /\ pc' \in Points BY <1>6 DEF Past, Points
  <2> QED BY <1>2, <1>3, <1>6, <2>1, <2>2, MovesOn
<1> QED BY <1>1, <1>5, <1>6

LEMMA OpensOnly ==
  ASSUME Typed, NEW o \in S!Connect(session), Takes(o), session' = o.session
  PROVE  SessionStep
<1>1. Opens(Len(told), session, o) BY SaneNow, ConnectIs, Zenon
<1> QED BY <1>1, OpensStep

LEMMA SendsOnly ==
  ASSUME Typed, NEW fn \in Functions, NEW o \in S!SendAndRecv(session, S!Request(fn, Mode)),
         Takes(o), session' = o.session
  PROVE  SessionStep
<1> DEFINE r == S!Request(fn, Mode)
<1>1. r \in RequestSet(Len(told)) BY RequestNow
<1>2. o \in S!SendAndRecv(session, r) OBVIOUS
<1> HIDE DEF r
<1> QED BY <1>1, <1>2, SentStep

LEMMA StepsConnectNow ==
  ASSUME Typed, UNCHANGED workload, ConnectNow
  PROVE  Stepping
<1>1. queue # <<>> /\ pc \notin Past BY PcRuns DEF ConnectNow, CallNames, Turn, Past
<1>2. ConnectionStep BY CasThere DEF ConnectNow
<1>3. Only(S!Connect(session), "idle") BY DEF ConnectNow
<1>4. \A o \in S!Connect(session) : Takes(o) /\ session' = o.session => SessionStep
  BY OpensOnly, Zenon
<1> QED BY <1>1, <1>2, <1>3, <1>4, OnlyIs

LEMMA StepsPingConnects ==
  ASSUME Typed, UNCHANGED workload, PingConnects
  PROVE  Stepping
<1>1. queue # <<>> /\ pc \notin Past BY PcRuns DEF PingConnects, CallNames, Turn, Past
<1>2. ConnectionStep BY CasThere DEF PingConnects
<1>3. Only(S!Connect(session), IF autoCommit THEN "version" ELSE "checkCas") BY DEF PingConnects
<1>4. \A o \in S!Connect(session) : Takes(o) /\ session' = o.session => SessionStep
  BY OpensOnly, Zenon
<1> QED BY <1>1, <1>2, <1>3, <1>4, OnlyIs

LEMMA StepsPingChecksCas ==
  ASSUME Typed, UNCHANGED workload, PingChecksCas
  PROVE  Stepping
<1>1. queue # <<>> /\ pc \notin Past BY PcRuns DEF PingChecksCas, Past
<1>2. ConnectionStep BY CreateIs DEF PingChecksCas
<1> DEFINE outcomes == S!SendAndRecv(session, S!Request("CHECK_CAS", Mode))
<1>3. Only(outcomes, "version") BY DEF PingChecksCas
<1>4. \A o \in outcomes : Takes(o) /\ session' = o.session => SessionStep
  <2>1. "CHECK_CAS" \in Functions BY DEF Functions
  <2> QED BY <2>1, SendsOnly, Zenon
<1> HIDE DEF outcomes
<1> QED BY <1>1, <1>2, <1>3, <1>4, OnlyIs

LEMMA StepsPingReadsVersion ==
  ASSUME Typed, UNCHANGED workload, PingReadsVersion
  PROVE  Stepping
<1>1. queue # <<>> /\ pc \notin Past BY PcRuns DEF PingReadsVersion, Past
<1>2. ConnectionStep BY CreateIs DEF PingReadsVersion
<1> DEFINE outcomes == S!SendAndRecv(session, S!Request("GET_DB_VERSION", Mode))
<1>3. Only(outcomes, "idle") BY DEF PingReadsVersion
<1>4. \A o \in outcomes : Takes(o) /\ session' = o.session => SessionStep
  <2>1. "GET_DB_VERSION" \in Functions BY DEF Functions
  <2> QED BY <2>1, SendsOnly, Zenon
<1> HIDE DEF outcomes
<1> QED BY <1>1, <1>2, <1>3, <1>4, OnlyIs

LEMMA StepsSetTransactionOptions ==
  ASSUME Typed, UNCHANGED workload, SetTransactionOptions
  PROVE  Stepping
<1>1. queue # <<>> /\ pc \notin Past BY PcRuns DEF SetTransactionOptions, CallNames, Turn, Past
<1>2. ConnectionStep BY CreateIs DEF SetTransactionOptions
<1> DEFINE outcomes == IF ~autoCommit THEN {S!Outcome(session, "lost", {}, FALSE)}
                       ELSE IF cas = 0 THEN {S!Outcome(session, "ok", {}, FALSE)}
                       ELSE S!SetSessionParameters(session)
<1>3. Only(outcomes, "idle") BY DEF SetTransactionOptions
<1>4. ASSUME NEW o \in outcomes, Takes(o), session' = o.session PROVE SessionStep
  <2>1. CASE \E reply \in {"lost", "ok"} : o = S!Outcome(session, reply, {}, FALSE)
    <3>1. o \in OutcomeSet(Len(told)) /\ o.session = session /\ ~o.unknown
      BY <2>1, SaneNow DEF S!Outcome, OutcomeSet, Replied
    <3>2. session' = session BY <1>4, <3>1
    <3> QED BY <1>4, <3>1, <3>2, SaneNow, OperationIs
  <2>2. CASE o \in S!SetSessionParameters(session)
    <3>1. Applies(Len(told), session, o) BY <2>2, SaneNow, SetParametersIs, Zenon
    <3> QED BY <1>4, <3>1, OpensStep
  <2> QED BY <1>4, <2>1, <2>2
<1>5. \A o \in outcomes : Takes(o) /\ session' = o.session => SessionStep BY <1>4
<1> HIDE DEF outcomes
<1> QED BY <1>1, <1>2, <1>3, <1>5, OnlyIs

-----------------------------------------------------------------------------
(* A call is made, the connection is closed, the CAS goes.                 *)

\* The session alone changes: the CAS went.
LEMMA GoesTyped ==
  ASSUME Typed, Behind, UNCHANGED workload, CasGoes
  PROVE  Typed' /\ Behind'
<1>1. /\ session' \in S!Leaves(session) \cup S!Crashes(session)
      /\ UNCHANGED <<cas, created, transaction, backslashModeGeneration, baseline, queue, pc, locals,
                     told, transactions, durable, doomed>>
      /\ faults' = faults \/ (faults < workload.maxFaults /\ faults' = faults + 1)
  BY DEF CasGoes
<1>2. Goes(Len(told), session, session') BY <1>1, SaneNow, GoesIs, Zenon
<1>3. OthersTyped'
  BY <1>1 DEF Typed, OthersTyped, TransactionTyped, transaction, baseline, locals
<1>4. faults' \in 0..workload.maxFaults
  <2>1. workload.maxFaults \in Nat BY WorkloadsAssumption DEF Typed, Workload
  <2> QED BY <1>1, <2>1 DEF Typed
<1>5. Typed' BY <1>1, <1>2, <1>3, <1>4 DEF Typed, InOrder, Numbers, Goes
<1>6. Behind'
  BY <1>1, <1>2 DEF Behind, Noted, Fit, NotBehindUnknown, Goes
<1> QED BY <1>5, <1>6

LEMMA CloseTyped ==
  ASSUME Typed, Behind, UNCHANGED workload, Close
  PROVE  Typed' /\ Behind'
<1>1. queue # <<>> BY PcRuns DEF Close, CallNames
<1>2. /\ cas' = 0 /\ session' = S!NewSession
      /\ insertIdBaseline' = None /\ insertIdGeneration' = 0 /\ backslashModeGeneration' = 0
      /\ Tell("done") /\ UNCHANGED <<created, faults, durable, doomed>>
      /\ \/ UNCHANGED <<transaction, transactions>>
         \/ EndTransaction /\ TellTransaction("failed")
  BY DEF Close
<1>3. Settles /\ generation' = 0 /\ handle' = 0 /\ failure' = "none" BY <1>1, <1>2, TellIs
<1>4. TransactionTyped'
  <2>1. "failed" \in Ways BY DEF Ways
  <2> QED BY <1>2, <2>1, EndedTyped, SameTyped
<1>5. OthersTyped' BY <1>2, <1>3, <1>4 DEF OthersTyped, Settles, Points, None
<1>6. /\ Len(told') = Len(told) /\ queue' = Tail(queue) /\ told' \in Seq(ToldSet) /\ pc' = "idle"
      /\ \A j \in Numbers : j # id => told'[j] = told[j]
      /\ told'[id].calledOn = told[id].calledOn /\ told'[id].ranOn = told[id].ranOn
  BY <1>3 DEF Settles
<1>7. /\ queue' \in Seq(CallSet) /\ Len(queue') = Len(queue) - 1 /\ Len(queue') \in Nat
      /\ \A i \in 1..Len(queue') : queue'[i] = queue[i + 1] /\ i + 1 \in 1..Len(queue)
  BY <1>1, <1>6, TailIs
<1>8. Len(queue) \in Nat /\ Len(told) \in Nat /\ cas' \in Nat /\ created' \in Nat /\ cas' \leq created'
      /\ faults' \in 0..workload'.maxFaults
  BY <1>2 DEF Typed
<1>9. InOrder'
  <2>1. Len(queue) \in Nat /\ Len(told) \in Nat BY DEF Typed
  <2>2. \A i \in 1..Len(queue') : queue'[i].id = Len(told) - Len(queue') + i
    BY <1>1, <1>6, OrderKept
  <2> QED BY <1>6, <1>7, <2>1, <2>2 DEF Typed, InOrder
<1>10. Sane(Len(told'), session') BY <1>2, <1>6, <1>8, NewSessionIs
<1>11. Typed'
  BY <1>2, <1>5, <1>6, <1>7, <1>8, <1>9, <1>10 DEF Typed, Numbers
<1>12. ASSUME NEW i \in 1..Len(queue') PROVE Noted(i)'
  <2> DEFINE k == i + 1
             c == queue[k]
  <2>1. k \in 1..Len(queue) /\ k > 1 /\ queue'[i] = c BY <1>7
  <2> HIDE DEF k
  <2>2. c \in CallSet /\ c.id \in Numbers /\ c.id # id BY <1>1, <2>1, WaitingOthers
  <2>3. c.cas = told[c.id].calledOn /\ c.cas \leq created /\ told[c.id].ranOn = Nowhere
    BY <2>1 DEF Behind, Noted
  <2>4. told'[c.id] = told[c.id] BY <1>6, <2>2
  <2> HIDE DEF c
  <2> QED BY <1>2, <2>1, <2>3, <2>4 DEF Noted
<1>13. Fit' BY <1>6 DEF Fit, Past
<1>14. NotBehindUnknown'
  <2> SUFFICES ASSUME NEW j \in doomed, told'[j].ranOn # Nowhere
               PROVE  told'[j].ranOn[1] # told'[j].calledOn
    BY <1>2 DEF NotBehindUnknown, Nowhere
  <2>1. j \in Numbers BY DEF Typed
  <2> QED BY <1>6, <2>1 DEF Behind, NotBehindUnknown
<1> QED BY <1>11, <1>12, <1>13, <1>14 DEF Behind

\* The call that is made, and what the history says of it.
LEMMA CallTyped ==
  ASSUME Typed, Behind, UNCHANGED workload, NEW c \in workload.calls, Call(c)
  PROVE  Typed' /\ Behind'
<1> DEFINE n == Len(told)
           entry == [call |-> c.call, sql |-> c.sql, binds |-> c.binds, escapes |-> c.escapes,
                     id |-> n + 1, cas |-> cas', failedExchanges |-> session.failedExchanges]
           note == [status |-> "waiting", writes |-> c.sql # "select", calledOn |-> cas',
                    within |-> 0, ranOn |-> Nowhere, boundOn |-> Nowhere,
                    insertId |-> None, author |-> 0]
<1>1. /\ queue' = Append(queue, entry) /\ told' = Append(told, note)
      /\ GetOrCreateCAS \/ UNCHANGED <<cas, created>>
      /\ UNCHANGED <<session, faults, transaction, backslashModeGeneration, baseline, pc, locals,
                     transactions, durable, doomed>>
  BY DEF Call
<1>2. /\ n \in Nat /\ cas \in Nat /\ created \in Nat /\ cas \leq created
      /\ queue \in Seq(CallSet) /\ told \in Seq(ToldSet) /\ Len(queue) \in Nat
      /\ session.failedExchanges \in Nat /\ Sane(n, session)
  BY SaneNow DEF Typed
<1>3. /\ cas' \in Nat /\ created' \in Nat /\ cas' \leq created' /\ created \leq created'
      /\ cas # 0 => cas' = cas
      /\ cas = 0 /\ cas' # 0 => created < cas'
  BY <1>1, <1>2 DEF GetOrCreateCAS
<1>4. /\ entry \in CallSet /\ entry.id = n + 1 /\ entry.cas = cas'
      /\ entry.failedExchanges = session.failedExchanges
  <2>1. c \in [call : CallNames, sql : Sql, binds : BOOLEAN, escapes : BOOLEAN]
    BY WorkloadsAssumption DEF Typed, Workload
  <2> QED BY <1>2, <1>3, <2>1 DEF CallSet
<1>5. note \in ToldSet /\ note.calledOn = cas' /\ note.ranOn = Nowhere
  <2> DEFINE w == c.sql # "select"
  <2>1. w \in BOOLEAN OBVIOUS
  <2> HIDE DEF w
  <2> QED BY <1>3, <2>1 DEF ToldSet, Nowhere, None
<1> HIDE DEF entry, note
<1>6. /\ queue' \in Seq(CallSet) /\ Len(queue') = Len(queue) + 1 /\ queue'[Len(queue) + 1] = entry
      /\ \A i \in 1..Len(queue) : queue'[i] = queue[i]
  BY <1>1, <1>2, <1>4, AppendProperties
<1>7. /\ told' \in Seq(ToldSet) /\ Len(told') = n + 1 /\ told'[n + 1] = note
      /\ \A j \in Numbers : told'[j] = told[j]
  <2>1. \A j \in 1..n : Append(told, note)[j] = told[j] BY <1>2, <1>5, AppendProperties
  <2> QED BY <1>1, <1>2, <1>5, <2>1, AppendProperties DEF Numbers
<1> HIDE DEF n
<1>8. n = Len(told) BY DEF n
<1>9. queue' # <<>> BY <1>2, <1>6
<1>10. Len(queue) \leq n /\ \A i \in 1..Len(queue) : queue[i].id = n - Len(queue) + i /\ queue[i].id \in Numbers
  <2>1. Len(queue) \leq n /\ \A i \in 1..Len(queue) : queue[i].id = n - Len(queue) + i
    BY <1>8 DEF Typed, InOrder
  <2> QED BY <1>2, <1>8, <2>1 DEF Numbers
<1>11. InOrder'
  <2>1. ASSUME NEW i \in 1..Len(queue') PROVE queue'[i].id = Len(told') - Len(queue') + i
    <3>1. CASE i \in 1..Len(queue)
      <4>1. queue'[i].id = n - Len(queue) + i BY <1>6, <1>10, <3>1
      <4> QED BY <1>2, <1>6, <1>7, <4>1
    <3>2. CASE i = Len(queue) + 1
      <4>1. queue'[i].id = n + 1 BY <1>4, <1>6, <3>2
      <4> QED BY <1>2, <1>6, <1>7, <3>2, <4>1
    <3> QED BY <1>2, <1>6, <3>1, <3>2
  <2>2. Len(queue') \leq Len(told') BY <1>2, <1>6, <1>7, <1>10
  <2> QED BY <1>9, <2>1, <2>2 DEF InOrder
<1>12. OthersTyped'
  BY <1>1 DEF Typed, OthersTyped, TransactionTyped, transaction, baseline, locals
<1>13. Sane(Len(told'), session') BY <1>1, <1>2, <1>7, <1>8, SaneGrows
<1>14. durable' \subseteq 1..Len(told') /\ doomed' \subseteq 1..Len(told') /\ n + 1 \notin doomed
  BY <1>1, <1>2, <1>7, <1>8 DEF Typed, Numbers
<1>15. faults' \in 0..workload'.maxFaults /\ workload' \in Workloads BY <1>1 DEF Typed
<1>16. Typed' BY <1>3, <1>6, <1>7, <1>11, <1>12, <1>13, <1>14, <1>15 DEF Typed, Numbers
<1>17. ASSUME NEW i \in 1..Len(queue') PROVE Noted(i)'
  <2>1. CASE i \in 1..Len(queue)
    <3> DEFINE d == queue[i]
    <3>1. d = queue'[i] /\ d.id \in Numbers /\ told'[d.id] = told[d.id] BY <1>6, <1>7, <1>10, <2>1
    <3>2. /\ d.cas = told[d.id].calledOn /\ d.cas \leq created
          /\ cas # 0 /\ d.cas = cas => d.failedExchanges \leq session.failedExchanges
          /\ cas # 0 /\ d.cas = cas /\ d.id \in doomed /\ (i > 1 \/ pc \notin Past)
               => d.failedExchanges < session.failedExchanges
          /\ i > 1 => told[d.id].ranOn = Nowhere
      BY <2>1 DEF Behind, Noted
    <3>3. d.cas \in Nat
      <4>1. d \in CallSet BY <1>2, <2>1
      <4> QED BY <4>1 DEF CallSet
    <3> HIDE DEF d
    <3>4. d.cas \leq created' BY <1>2, <1>3, <3>2, <3>3
    <3>5. cas' # 0 /\ d.cas = cas' => cas # 0 /\ d.cas = cas BY <1>2, <1>3, <3>2, <3>3
    <3>6. session' = session /\ doomed' = doomed /\ pc' = pc BY <1>1
    <3> QED BY <3>1, <3>2, <3>4, <3>5, <3>6 DEF Noted
  <2>2. CASE i = Len(queue) + 1
    <3>1. queue'[i] = entry BY <1>6, <2>2
    <3>2. told'[entry.id] = note BY <1>4, <1>7
    <3>3. session' = session /\ doomed' = doomed BY <1>1
    <3> QED BY <1>2, <1>3, <1>4, <1>5, <1>14, <3>1, <3>2, <3>3 DEF Noted
  <2> QED BY <1>2, <1>6, <2>1, <2>2
<1>18. Fit'
  <2>1. pc' = pc /\ doomed' = doomed BY <1>1
  <2>2. CASE pc \in Past
    <3>1. queue # <<>> BY <2>2 DEF Typed, InOrder, Past
    <3>2. 1 \in 1..Len(queue) BY <1>2, <3>1
    <3>3. queue'[1] = queue[1] BY <1>6, <3>2
    <3>4. cas # 0 /\ (queue[1].id \in doomed => queue[1].cas # cas) BY <2>2 DEF Behind, Fit
    <3> QED BY <1>3, <2>1, <3>3, <3>4 DEF Fit
  <2> QED BY <2>1, <2>2 DEF Fit
<1>19. NotBehindUnknown'
  <2>1. doomed' = doomed /\ doomed \subseteq Numbers BY <1>1 DEF Typed
  <2>2. \A j \in doomed : told'[j] = told[j] BY <1>7, <2>1
  <2> QED BY <2>1, <2>2 DEF Behind, NotBehindUnknown, Nowhere
<1> QED BY <1>16, <1>17, <1>18, <1>19 DEF Behind

-----------------------------------------------------------------------------
(* The theorems.                                                           *)

LEMMA EveryStep ==
  ASSUME Typed, Behind, Prepares \/ Runs \/ EndsOrBegins \/ (Other /\ ~Close), UNCHANGED workload
  PROVE  Stepping
<1>1. CASE Prepares
  BY <1>1, StepsBeginExecute, StepsBaselineRefused, StepsBaselineUnread, StepsReadBaseline,
     StepsStartRefused, StepsEnsureSession, StepsProbeMode, StepsReleaseProbe DEF Prepares
<1>2. CASE Runs
  BY <1>2, StepsSendStatement, StepsMarkersMismatch, StepsExecuteHandle, StepsFetchWindow,
     StepsReadInsertId, StepsCommitStatement, StepsReleaseHandle, StepsUndoStatement DEF Runs
<1>3. CASE EndsOrBegins
  BY <1>3, StepsBeginRefused, StepsBeginTransaction, StepsCommitRefused, StepsCommit,
     StepsRollbackRefused, StepsRollback DEF EndsOrBegins
<1>4. CASE Other /\ ~Close
  BY <1>4, StepsConnectNow, StepsPingConnects, StepsPingChecksCas, StepsPingReadsVersion,
     StepsSetTransactionOptions DEF Other
<1> QED BY <1>1, <1>2, <1>3, <1>4

LEMMA InitTyped ==
  ASSUME Init
  PROVE  Typed /\ Behind
<1>1. /\ workload \in Workloads /\ cas = 0 /\ created = 0 /\ session = S!NewSession /\ faults = 0
      /\ queue = <<>> /\ told = <<>> /\ pc = "idle" /\ durable = {} /\ doomed = {}
  BY DEF Init
<1>2. Sane(Len(told), session) BY <1>1, NewSessionIs
<1>3. OthersTyped
  <2>1. transactions \in Seq({"open", "committed", "rolled back", "failed"}) BY DEF Init
  <2> QED BY <2>1 DEF Init, OthersTyped, TransactionTyped, Points, None, Unseen
<1>4. workload.maxFaults \in Nat BY <1>1, WorkloadsAssumption DEF Workload
<1>5. InOrder BY <1>1 DEF InOrder
<1>6. Typed BY <1>1, <1>2, <1>3, <1>4, <1>5 DEF Typed, Numbers
<1> QED BY <1>1, <1>6 DEF Behind, Noted, Fit, NotBehindUnknown, Past

LEMMA NextTyped ==
  ASSUME Typed, Behind, [Next]_vars
  PROVE  Typed' /\ Behind'
<1>1. CASE UNCHANGED vars
  BY <1>1 DEF vars, connection, transaction, baseline, locals, Typed, InOrder, OthersTyped,
              TransactionTyped, Numbers, Behind, Noted, Fit, NotBehindUnknown
<1>2. CASE Next
  <2>1. UNCHANGED workload BY <1>2 DEF Next
  <2>2. CASE \E c \in workload.calls : Call(c) BY <2>1, <2>2, CallTyped
  <2>3. CASE CasGoes BY <2>1, <2>3, GoesTyped
  <2>4. CASE Close BY <2>1, <2>4, CloseTyped
  <2>5. CASE Prepares \/ Runs \/ EndsOrBegins \/ (Other /\ ~Close)
    <3>1. Stepping BY <2>1, <2>5, EveryStep
    <3> QED BY <3>1, StepTyped, BehindStep
  <2> QED BY <1>2, <2>2, <2>3, <2>4, <2>5 DEF Next
<1> QED BY <1>1, <1>2

LEMMA TypedIsTyped ==
  ASSUME Typed
  PROVE  TypeOK
<1>1. SessionTyped BY SaneNow DEF SessionSet, SessionTyped, Numbers, None
<1>2. \A i \in 1..Len(queue) : queue[i].id \in Numbers BY DEF Typed, InOrder, Numbers
<1> QED BY <1>1, <1>2 DEF Typed, TypeOK, OthersTyped, InOrder

(* The adapter never leaves its domain: what it knows of its session, of its *)
(* transaction and of the last id, and the histories the properties read.    *)
THEOREM TypeCorrect == Spec => []TypeOK
<1>1. Init => Typed /\ Behind BY InitTyped
<1>2. Typed /\ Behind /\ [Next]_vars => Typed' /\ Behind' BY NextTyped
<1>3. Typed => TypeOK BY TypedIsTyped
<1> QED BY <1>1, <1>2, <1>3, PTL DEF Spec

(* No call that waited when an exchange was given up runs on that connection, *)
(* whatever becomes of the session: runStatement() compares the count of     *)
(* failed exchanges with the one the call noted (native.ts).                 *)
THEOREM DoomedNeverRun == Spec => []NotBehindUnknown
<1>1. Init => Typed /\ Behind BY InitTyped
<1>2. Typed /\ Behind /\ [Next]_vars => Typed' /\ Behind' BY NextTyped
<1>3. Behind => NotBehindUnknown BY DEF Behind
<1> QED BY <1>1, <1>2, <1>3, PTL DEF Spec

-----------------------------------------------------------------------------
(* The invariant behind what a transaction promises.                       *)

\* Where a statement was sent, and where it was answered with a result.
Late == {"execute", "fetch", "lastId", "commit", "release", "undo"}
Got == {"fetch", "lastId", "commit", "release"}

Pending == {queue[i].id : i \in 1..Len(queue)}
Unsent == IF pc \in Late THEN Waiting ELSE Pending

bound == transactionGeneration
endReplies == transactionEndReplies

\* The statement that runs is a transaction of its own.
Alone == pc \in Late /\ Deferred

\* A reply said that the server rolled back.
Aborting == transactionAbort \/ failure = "abort"

\* The transaction is still the one its session has.
Healthy ==
  session.up /\ session.generation = bound /\ session.outOfTransactionReplies = endReplies /\ ~Aborting

\* A statement with changes to keep that is on its way to be acknowledged, or was.
Good(i) ==
  told[i].writes /\ (told[i].status = "done" \/ (queue # <<>> /\ i = id /\ pc \in Got /\ failure = "none"))

\* What the history says of the calls still in the queue.
Listed ==
  /\ \A i \in Numbers : told[i].within \in 0..Len(transactions)
  /\ \A i \in Pending : told[i].status = "waiting"
  /\ \A i \in Unsent : told[i].within = 0 /\ i \notin session.work /\ i \notin durable
  /\ pc \in Late => told[id].within = Transaction
  /\ \A k \in 1..Len(queue) :
       /\ told[queue[k].id].writes <=> queue[k].sql # "select"
       /\ queue[k].call \in Statements \/ queue[k].sql = "select"
  /\ pc \in Past \cup {"baseline", "start"} => Running.call \in Statements
  /\ pc \in {"checkCas", "version"} => Running.call = "ping"

\* What the adapter knows of its transaction.
Known ==
  /\ autoCommit => bound = 0 /\ endReplies = -1 /\ ~transactionAbort
  /\ ~autoCommit => cas # 0
  /\ \A k \in 1..Len(transactions) :
       transactions[k] = "open" <=> ~autoCommit /\ k = Len(transactions)
  /\ bound \leq session.generation /\ endReplies \leq session.outOfTransactionReplies
  /\ ~autoCommit /\ bound # 0 =>
       /\ endReplies # -1 \/ ~session.connected \/ session.generation # bound
       /\ endReplies # -1 \/ pc \notin Past
  /\ ~autoCommit /\ pc \in {"execute", "fetch", "lastId"} =>
       bound # 0 /\ generation = bound /\ ~transactionAbort
  /\ pc = "commit" => Deferred
  /\ failure # "none" => pc \in {"releaseProbe", "release", "undo"}
  /\ pc \in Late => generation \leq session.generation

\* Whose changes the session holds, and that it is known to hold them.
Uncommitted ==
  /\ autoCommit /\ ~Alone => session.work = {}
  /\ Alone =>
       /\ session.work \subseteq {id}
       /\ session.work # {} => session.generation = generation
       /\ pc = "release" /\ failure = "none" => session.work = {}
  /\ ~autoCommit =>
       /\ \A i \in session.work : told[i].within = Transaction
       /\ session.work # {} => bound # 0 /\ session.generation = bound /\ ~Aborting

\* The open transaction has lost no change that it still would commit.
InSession ==
  \A i \in Numbers :
    ~autoCommit /\ told[i].within = Transaction /\ Good(i)
      => bound # 0 /\ endReplies # -1 /\ (Healthy => i \in session.work)

\* Outside of a transaction a change is durable, or its own COMMIT is still to come.
OnItsOwn ==
  \A i \in Numbers :
    told[i].within = 0 /\ Good(i)
      => \/ i \in durable
         \/ /\ Alone /\ i = id /\ pc \in {"fetch", "lastId", "commit"}
            /\ session.up /\ session.generation = generation => i \in session.work

Outcomes ==
  /\ \A i \in durable :
       told[i].within # 0 => transactions[told[i].within] \notin {"open", "rolled back"}
  /\ \A i \in Numbers :
       told[i].within # 0 /\ transactions[told[i].within] = "committed" /\ Acknowledged(i)
         => i \in durable
  /\ AllOrNothing

Sound == Listed /\ Known /\ Uncommitted /\ InSession /\ OnItsOwn /\ Outcomes

-----------------------------------------------------------------------------
(* Operations that commit nothing.                                         *)

\* Session t is s, what is left of it, or one in its place.
Spares(s, t) ==
  /\ t.work \subseteq s.work
  /\ s.generation \leq t.generation
  /\ s.outOfTransactionReplies \leq t.outOfTransactionReplies
  /\ t.work # {} => t.generation = s.generation
  /\ t.generation = s.generation => (t.connected => s.connected) /\ (t.up => s.up)

\* If t is still session s, with the same transaction, it has all of its work.
Intact(s, t) ==
  /\ t.up /\ t.generation = s.generation
  /\ autoCommit \/ t.outOfTransactionReplies = s.outOfTransactionReplies
  => t.work = s.work

Sparing(o) ==
  /\ o.durable = {} /\ Spares(session, o.session)
  /\ o.reply # "abort" => Intact(session, o.session)

LEMMA SparesDiscarded ==
  ASSUME NEW n \in Nat, NEW s \in SessionSet(n), NEW t \in SessionSet(n), Spares(s, t)
  PROVE  /\ Spares(s, S!DiscardSession(t)) /\ Intact(s, S!DiscardSession(t))
         /\ S!DiscardSession(t).work = {} /\ ~S!DiscardSession(t).connected
         /\ ~S!DiscardSession(t).up
         /\ S!DiscardSession(t).generation = t.generation
         /\ S!DiscardSession(t).outOfTransactionReplies = t.outOfTransactionReplies
<1>1. Dropped(n, t, S!DiscardSession(t), 1) BY DiscardedIs
<1> DEFINE u == S!DiscardSession(t)
<1>2. /\ u.work = {} /\ ~u.connected /\ ~u.up /\ u.generation = t.generation
      /\ u.outOfTransactionReplies = t.outOfTransactionReplies
  BY <1>1 DEF Dropped, Sane, Held
<1> HIDE DEF u
<1>3. Spares(s, u) /\ Intact(s, u) BY <1>2 DEF Spares, Intact
<1> QED BY <1>2, <1>3 DEF u

LEMMA SparesSame ==
  ASSUME NEW n, NEW s \in SessionSet(n)
  PROVE  Spares(s, s) /\ Intact(s, s)
BY DEF Spares, Intact, SessionSet

LEMMA OpensSpares ==
  ASSUME Typed, NEW o, Opens(Len(told), session, o)
  PROVE  o.durable = {} /\ Spares(session, o.session) /\ Intact(session, o.session)
<1>1. /\ session \in SessionSet(Len(told)) /\ o.session \in SessionSet(Len(told))
      /\ Held(session) /\ Held(o.session) /\ Sane(Len(told), session)
  BY SaneNow DEF Opens, Sane
<1>2. /\ session.generation \in Nat /\ session.outOfTransactionReplies \in Nat
      /\ session.generation + 1 # session.generation /\ session.generation \leq session.generation + 1
  BY <1>1 DEF SessionSet
<1>3. CASE Same(session, o.session)
  BY <1>1, <1>2, <1>3 DEF Opens, Same, Spares, Intact, Held
<1>4. CASE Fresh(session, o.session)
  BY <1>1, <1>2, <1>4 DEF Opens, Fresh, Spares, Intact, Held, Sane
<1> QED BY <1>3, <1>4 DEF Opens

\* Only outside of a transaction are the parameters applied.
LEMMA AppliesSpares ==
  ASSUME Typed, NEW o, Applies(Len(told), session, o), session.work = {}
  PROVE  o.durable = {} /\ Spares(session, o.session) /\ Intact(session, o.session)
<1>1. /\ session \in SessionSet(Len(told)) /\ o.session \in SessionSet(Len(told))
      /\ Held(session) /\ Held(o.session) /\ Sane(Len(told), session) /\ o.session.work = {}
  BY SaneNow DEF Applies, Sane
<1>2. /\ session.generation \in Nat /\ session.outOfTransactionReplies \in Nat
      /\ session.generation + 1 # session.generation /\ session.generation \leq session.generation + 1
  BY <1>1 DEF SessionSet
<1>3. CASE Same(session, o.session)
  BY <1>1, <1>2, <1>3 DEF Applies, Same, Spares, Intact, Held
<1>4. CASE Fresh(session, o.session)
  BY <1>1, <1>2, <1>4 DEF Applies, Fresh, Spares, Intact, Held, Sane
<1> QED BY <1>3, <1>4 DEF Applies
\* A request that changes nothing of its own, and can commit nothing of others.
Quiet(r) ==
  /\ r.fn \notin {"COMMIT", "ROLLBACK"} /\ Changes(r) = {}
  /\ r.mode = "autocommit" => session.work = {}
  /\ autoCommit => r.mode # "transaction"

\* Only these can meet the rollback of the whole transaction.
CanAbort(r) == r.fn \in S!Executing \cup {"PREPARE", "FETCH"}

LEMMA AnsweredSpares ==
  ASSUME Typed, NEW r, Quiet(r), NEW o, Answered(session, r, o),
         o.session.outOfTransactionReplies \in Nat
  PROVE  /\ o.durable = {} /\ o.session.work \subseteq session.work
         /\ o.reply = "abort" => o.session.work = {} /\ CanAbort(r)
         /\ o.reply # "abort" /\ (autoCommit \/ o.session.outOfTransactionReplies = session.outOfTransactionReplies)
              => o.session.work = session.work
<1>1. CASE Gone(session, r, o)
  <2>1. session.outOfTransactionReplies \in Nat BY SaneNow
  <2> QED BY <1>1, <2>1 DEF Gone, Quiet
<1>2. CASE Effect(session, r, o) /\ r.mode = "autocommit"
  BY <1>2 DEF Effect, Quiet, Autocommits
<1>3. CASE Effect(session, r, o) /\ r.mode # "autocommit"
  BY <1>3 DEF Effect, Quiet, Works, CanAbort
<1> QED BY <1>1, <1>2, <1>3 DEF Answered

LEMMA UnreadSpares ==
  ASSUME Typed, NEW r, Quiet(r), NEW o, Unread(session, r, o), Sane(Len(told), o.session)
  PROVE  o.durable = {} /\ o.session.work = {} /\ ~o.session.up /\ o.reply # "abort"
BY DEF Unread, Unheard, Quiet, Sane, Held

LEMMA SentSpares ==
  ASSUME Typed, NEW r, Quiet(r), NEW o, Sent(Len(told), session, r, o)
  PROVE  Sparing(o) /\ (o.reply = "abort" => o.session.work = {} /\ CanAbort(r))
<1>1. /\ session \in SessionSet(Len(told)) /\ o.session \in SessionSet(Len(told))
      /\ Held(session) /\ Held(o.session) /\ Sane(Len(told), o.session)
      /\ session.open => ~session.outOfTransaction
  BY SaneNow DEF Sent, Sane
<1>2. /\ session.generation \in Nat /\ o.session.outOfTransactionReplies \in Nat
      /\ session.generation + 1 # session.generation /\ session.generation \leq session.generation + 1
  BY <1>1 DEF SessionSet
<1>3. /\ session.outOfTransactionReplies \leq o.session.outOfTransactionReplies
      /\ o.ran => session.connected /\ (o.session.generation = session.generation => session.up)
      /\ \/ o.session.generation = session.generation
         \/ o.session.generation = session.generation + 1 /\ session.work = {}
  BY <1>1, <1>2 DEF Sent, Later, Held
<1>4. CASE Answered(session, r, o)
  <2>1. o.ran BY <1>4 DEF Answered
  <2>2. /\ o.durable = {} /\ o.session.work \subseteq session.work
        /\ o.reply = "abort" => o.session.work = {} /\ CanAbort(r)
        /\ o.reply # "abort" /\ (autoCommit \/ o.session.outOfTransactionReplies = session.outOfTransactionReplies)
             => o.session.work = session.work
    BY <1>2, <1>4, AnsweredSpares
  <2> QED BY <1>2, <1>3, <2>1, <2>2 DEF Sparing, Spares, Intact
<1>5. CASE Unread(session, r, o)
  <2>1. o.durable = {} /\ o.session.work = {} /\ ~o.session.up /\ o.reply # "abort"
        /\ ~o.session.connected
    BY <1>1, <1>5, UnreadSpares DEF Unread
  <2> QED BY <1>2, <1>3, <2>1 DEF Sparing, Spares, Intact
<1> QED BY <1>4, <1>5 DEF Sent

\* A request of one session only, which may not have been sent at all.
OnSessionOnly(g, r, o) ==
  \/ Absent(Len(told), session, g, o)
  \/ Exchanged(Len(told), session, r, o) /\ session.connected /\ session.generation = g

LEMMA OnSessionSpares ==
  ASSUME Typed, NEW r, Quiet(r), NEW g, NEW o, OnSessionOnly(g, r, o)
  PROVE  Sparing(o) /\ (o.reply = "abort" => o.session.work = {} /\ CanAbort(r))
<1>1. session \in SessionSet(Len(told)) /\ Held(session) BY SaneNow DEF Sane
<1>2. CASE Absent(Len(told), session, g, o)
  <2>1. Spares(session, session) /\ Intact(session, session) BY <1>1, SparesSame
  <2> QED BY <1>2, <2>1 DEF Absent, Sparing
<1>3. CASE Exchanged(Len(told), session, r, o)
  <2>1. /\ o.session \in SessionSet(Len(told)) /\ Held(o.session) /\ Sane(Len(told), o.session)
        /\ o.session.generation = session.generation /\ session.generation \in Nat
        /\ session.outOfTransactionReplies \leq o.session.outOfTransactionReplies
        /\ o.session.outOfTransactionReplies \in Nat
        /\ o.ran => session.up
    BY <1>1, <1>3 DEF Exchanged, Sane, SessionSet
  <2>2. CASE Answered(session, r, o)
    <3>1. o.ran /\ session.connected BY <1>1, <2>1, <2>2 DEF Answered, Held
    <3>2. /\ o.durable = {} /\ o.session.work \subseteq session.work
          /\ o.reply = "abort" => o.session.work = {} /\ CanAbort(r)
          /\ o.reply # "abort" /\ (autoCommit \/ o.session.outOfTransactionReplies = session.outOfTransactionReplies)
               => o.session.work = session.work
      BY <2>1, <2>2, AnsweredSpares
    <3> QED BY <2>1, <3>1, <3>2 DEF Sparing, Spares, Intact
  <2>3. CASE Unread(session, r, o)
    <3>1. o.durable = {} /\ o.session.work = {} /\ ~o.session.up /\ o.reply # "abort"
          /\ ~o.session.connected
      BY <2>1, <2>3, UnreadSpares DEF Unread
    <3> QED BY <2>1, <3>1 DEF Sparing, Spares, Intact
  <2> QED BY <1>3, <2>2, <2>3 DEF Exchanged
<1> QED BY <1>2, <1>3 DEF OnSessionOnly

LEMMA GoesSpares ==
  ASSUME Typed, Goes(Len(told), session, session')
  PROVE  Spares(session, session') /\ Intact(session, session')
BY SaneNow DEF Goes, Spares, Intact

\* What is told apart of a request that is none of the statement's own.
LEMMA QuietNow ==
  ASSUME Typed, NEW fn \in Functions \ {"COMMIT", "ROLLBACK"},
         Mode = "autocommit" => session.work = {}
  PROVE  Quiet(S!Request(fn, Mode))
<1>1. Len(told) \in Nat /\ Mode \in S!Modes /\ fn \in Functions BY SaneNow, ModeIs
<1>2. /\ S!Request(fn, Mode).fn = fn /\ S!Request(fn, Mode).mode = Mode
      /\ S!Request(fn, Mode).writes = FALSE
  BY DEF S!Request
<1>3. autoCommit => Mode # "transaction" BY DEF Mode
<1> QED BY <1>2, <1>3 DEF Quiet, Changes
-----------------------------------------------------------------------------
(* A step that commits nothing, and leaves the running call running.       *)

\* The calls in the queue and what is known of the transaction stay as they are.
Stays ==
  /\ queue' = queue /\ transactions' = transactions /\ UNCHANGED transaction
  /\ cas # 0 => cas' # 0
  /\ Len(told') = Len(told)
  /\ \A i \in Numbers :
       /\ told'[i].within = told[i].within /\ told'[i].writes = told[i].writes
       /\ told'[i].status = told[i].status

\* Where the running call gets to.
Advances ==
  /\ pc' \in Late <=> pc \in Late
  /\ pc \in Late => generation' = generation
  /\ pc' \in Got /\ failure' = "none" => pc \in Got /\ failure = "none"
  /\ pc' \in Past => pc \in Past \/ ~SessionLost(session, transactionGeneration)
  /\ pc' \in {"execute", "fetch", "lastId"} => pc \in {"execute", "fetch", "lastId"}
  /\ pc' = "commit" => Deferred
  /\ failure' # "none" => pc' \in {"releaseProbe", "release", "undo"}
  /\ Alone /\ pc' = "release" /\ failure' = "none" => pc = "release" /\ failure = "none"
  /\ failure = "abort" => failure' = "abort"
  /\ pc' \in Past \cup {"baseline", "start"} => Running.call \in Statements
  /\ pc' \in {"checkCas", "version"} => Running.call = "ping"

\* What becomes of the session, unless the running statement heard of an abort.
SparesSession ==
  /\ durable' = durable /\ Spares(session, session')
  /\ failure' = "abort" \/ Intact(session, session')
  /\ failure' = "abort" => failure = "abort" \/ session'.work = {}

LEMMA StaysListed ==
  ASSUME Typed, Sound, Stays, Advances, SparesSession
  PROVE  Listed' /\ Numbers' = Numbers /\ id' = id /\ Running' = Running /\ (Deferred' <=> Deferred)
         /\ Transaction' = Transaction /\ (Alone' <=> Alone)
<1>1. /\ id' = id /\ Running' = Running /\ Numbers' = Numbers /\ Transaction' = Transaction
      /\ Pending' = Pending /\ Waiting' = Waiting /\ (Deferred' <=> Deferred)
  BY DEF Stays, id, Running, Numbers, Transaction, Pending, Waiting, Deferred, transaction
<1>2. Unsent' = Unsent /\ (Alone' <=> Alone) BY <1>1 DEF Unsent, Alone, Advances
<1>3. /\ Pending \subseteq Numbers /\ Waiting \subseteq Numbers /\ Unsent \subseteq Numbers
      /\ pc \in Late => id \in Numbers
      /\ \A k \in 1..Len(queue) : queue[k].id \in Numbers
  <2>1. \A k \in 1..Len(queue) : queue[k].id \in Numbers
    BY DEF Typed, InOrder, Numbers
  <2>2. Pending \subseteq Numbers /\ Waiting \subseteq Pending BY <2>1 DEF Pending, Waiting
  <2>3. pc \in Late => id \in Numbers BY RunningIs DEF Late, Typed, InOrder
  <2> QED BY <2>1, <2>2, <2>3 DEF Unsent
<1>4. session'.work \subseteq session.work /\ durable' = durable
  BY DEF SparesSession, Spares
<1> USE DEF Sound, Listed
<1>5. \A i \in Numbers' : (told[i].within \in 0..Len(transactions))'
  BY <1>1 DEF Stays
<1>6. \A i \in Pending' : (told[i].status = "waiting")'
  BY <1>1, <1>3 DEF Stays
<1>7. \A i \in Unsent' : (told[i].within = 0 /\ i \notin session.work /\ i \notin durable)'
  BY <1>2, <1>3, <1>4 DEF Stays
<1>8. (pc \in Late => told[id].within = Transaction)'
  BY <1>1, <1>3 DEF Stays, Advances
<1>9. ASSUME NEW k \in (1..Len(queue))'
      PROVE  (/\ told[queue[k].id].writes <=> queue[k].sql # "select"
              /\ queue[k].call \in Statements \/ queue[k].sql = "select")'
  BY <1>3 DEF Stays
<1>10. (/\ pc \in Past \cup {"baseline", "start"} => Running.call \in Statements
        /\ pc \in {"checkCas", "version"} => Running.call = "ping")'
  BY <1>1 DEF Advances
<1>11. Listed' BY <1>5, <1>6, <1>7, <1>8, <1>9, <1>10
<1> QED BY <1>1, <1>2, <1>11

\* A session with work is connected, and nothing is known of one that is not.
LEMMA WorkIsHeld ==
  ASSUME Typed
  PROVE  /\ session.work # {} => session.open /\ session.up /\ session.connected
         /\ session.up => session.connected
         /\ session.open => ~session.outOfTransaction
         /\ transactionGeneration \in Nat /\ transactionEndReplies \in Nat \cup {-1}
         /\ session.generation \in Nat /\ session.outOfTransactionReplies \in Nat
         /\ autoCommit \in BOOLEAN /\ transactionAbort \in BOOLEAN /\ generation \in Nat
BY SaneNow DEF Sane, Held, OthersTyped, TransactionTyped, Typed

LEMMA StaysKnown ==
  ASSUME Typed, Typed', Sound, Stays, Advances, SparesSession, (Deferred' <=> Deferred)
  PROVE  Known'
<1>1. /\ autoCommit' = autoCommit /\ bound' = bound /\ endReplies' = endReplies
      /\ transactionAbort' = transactionAbort /\ transactions' = transactions
  BY DEF Stays, transaction, bound, endReplies
<1>2. /\ session.generation \in Nat /\ session'.generation \in Nat
      /\ session.outOfTransactionReplies \in Nat /\ session'.outOfTransactionReplies \in Nat
      /\ bound \in Nat /\ endReplies \in Nat \cup {-1} /\ generation \in Nat
  BY WorkIsHeld, SaneNow DEF Typed, Sane, SessionSet, bound, endReplies
<1>3. /\ session.generation \leq session'.generation
      /\ session.outOfTransactionReplies \leq session'.outOfTransactionReplies
      /\ session'.generation = session.generation /\ session'.connected => session.connected
  BY DEF SparesSession, Spares
<1> USE DEF Sound, Known
<1>4. bound' \leq session'.generation /\ endReplies' \leq session'.outOfTransactionReplies
  BY <1>1, <1>2, <1>3
<1>5. ASSUME ~autoCommit', bound' # 0
      PROVE  endReplies' # -1 \/ ~session'.connected \/ session'.generation # bound'
  BY <1>1, <1>2, <1>3, <1>5
<1>6. ASSUME ~autoCommit', bound' # 0, pc' \in Past
      PROVE  endReplies' # -1
  <2>1. CASE pc \in Past BY <1>1, <1>6, <2>1
  <2>2. CASE ~SessionLost(session, transactionGeneration)
    BY <1>1, <1>6, <2>2 DEF SessionLost, bound
  <2> QED BY <1>6, <2>1, <2>2 DEF Advances
<1>7. (~autoCommit /\ pc \in {"execute", "fetch", "lastId"} =>
         bound # 0 /\ generation = bound /\ ~transactionAbort)'
  BY <1>1 DEF Advances, Late
<1>8. (pc \in Late => generation \leq session.generation)'
  BY <1>2, <1>3 DEF Advances
<1>9. \A k \in (1..Len(transactions))' :
        (transactions[k] = "open" <=> ~autoCommit /\ k = Len(transactions))'
  BY <1>1
<1>10. (~autoCommit => cas # 0)' BY <1>1 DEF Stays
<1>11. (pc = "commit" => Deferred)' /\ (failure # "none" => pc \in {"releaseProbe", "release", "undo"})'
  BY DEF Advances
<1>12. (autoCommit => bound = 0 /\ endReplies = -1 /\ ~transactionAbort)' BY <1>1
<1> QED BY <1>4, <1>5, <1>6, <1>7, <1>8, <1>9, <1>10, <1>11, <1>12

LEMMA StaysUncommitted ==
  ASSUME Typed, Typed', Sound, Stays, Advances, SparesSession,
         id' = id, (Alone' <=> Alone), Transaction' = Transaction
  PROVE  Uncommitted'
<1>1. /\ autoCommit' = autoCommit /\ bound' = bound
      /\ transactionAbort' = transactionAbort
  BY DEF Stays, transaction, bound
<1>2. /\ session'.work \subseteq session.work
      /\ session'.work # {} => session'.generation = session.generation
  BY DEF SparesSession, Spares
<1>3. session.work \subseteq Numbers BY SaneNow DEF SessionSet, Numbers
<1> USE DEF Sound, Uncommitted
<1>4. (autoCommit /\ ~Alone => session.work = {})' BY <1>1, <1>2
<1>5. ASSUME Alone'
      PROVE  /\ session'.work \subseteq {id}
             /\ session'.work # {} => session'.generation = generation'
             /\ pc' = "release" /\ failure' = "none" => session'.work = {}
  <2>1. Alone /\ pc \in Late /\ generation' = generation BY <1>5 DEF Alone, Advances
  <2> QED BY <1>2, <2>1 DEF Advances
<1>6. ASSUME ~autoCommit'
      PROVE  /\ \A i \in session'.work : told'[i].within = Transaction
             /\ session'.work # {} => bound' # 0 /\ session'.generation = bound' /\ ~Aborting'
  <2>1. \A i \in session'.work : told'[i].within = Transaction
    BY <1>1, <1>2, <1>3, <1>6 DEF Stays
  <2>2. ASSUME session'.work # {} PROVE ~Aborting'
    <3>1. ~Aborting BY <1>1, <1>2, <1>6, <2>2
    <3> QED BY <1>1, <2>2, <3>1 DEF Aborting, SparesSession
  <2> QED BY <1>1, <1>2, <1>6, <2>1, <2>2
<1> QED BY <1>4, <1>5, <1>6
\* A statement that is good after the step was so before it.
LEMMA StaysGood ==
  ASSUME Stays, Advances, id' = id, NEW i \in Numbers
  PROVE  /\ Good(i)' => Good(i)
         /\ Acknowledged(i)' <=> Acknowledged(i)
BY DEF Stays, Advances, Good, Acknowledged

LEMMA StaysInSession ==
  ASSUME Typed, Typed', Sound, Stays, Advances, SparesSession,
         id' = id, Numbers' = Numbers, Transaction' = Transaction
  PROVE  InSession'
<1>1. /\ autoCommit' = autoCommit /\ bound' = bound /\ endReplies' = endReplies
      /\ transactionAbort' = transactionAbort
  BY DEF Stays, transaction, bound, endReplies
<1>2. /\ session.generation \in Nat /\ session'.generation \in Nat
      /\ session.outOfTransactionReplies \in Nat /\ session'.outOfTransactionReplies \in Nat
      /\ bound \in Nat /\ endReplies \in Nat \cup {-1}
  BY WorkIsHeld, SaneNow DEF Typed, Sane, SessionSet, bound, endReplies
<1>3. /\ session.generation \leq session'.generation
      /\ session.outOfTransactionReplies \leq session'.outOfTransactionReplies
      /\ session'.generation = session.generation /\ session'.up => session.up
      /\ failure' = "abort" \/ Intact(session, session')
      /\ failure = "abort" => failure' = "abort"
  BY DEF SparesSession, Spares, Advances
<1>4. bound \leq session.generation /\ endReplies \leq session.outOfTransactionReplies
  BY DEF Sound, Known
<1> SUFFICES ASSUME NEW i \in Numbers, ~autoCommit, told'[i].within = Transaction, Good(i)'
             PROVE  bound # 0 /\ endReplies # -1 /\ (Healthy' => i \in session'.work)
  BY <1>1 DEF InSession
<1>5. Good(i) /\ told[i].within = Transaction BY StaysGood DEF Stays
<1>6. bound # 0 /\ endReplies # -1 /\ (Healthy => i \in session.work) BY <1>5 DEF Sound, InSession
<1>7. ASSUME Healthy' PROVE i \in session'.work
  <2>1. /\ session'.up /\ session'.generation = bound
        /\ session'.outOfTransactionReplies = endReplies /\ ~transactionAbort /\ failure' # "abort"
    BY <1>1, <1>7 DEF Healthy, Aborting
  <2>2. session.generation = bound /\ session.outOfTransactionReplies = endReplies
    BY <1>2, <1>3, <1>4, <2>1
  <2>3. session.up /\ session'.work = session.work BY <1>3, <2>1, <2>2 DEF Intact
  <2>4. Healthy BY <1>3, <2>1, <2>2, <2>3 DEF Healthy, Aborting
  <2> QED BY <1>6, <2>3, <2>4
<1> QED BY <1>6, <1>7

LEMMA StaysOnItsOwn ==
  ASSUME Typed, Typed', Sound, Stays, Advances, SparesSession,
         id' = id, Numbers' = Numbers, (Alone' <=> Alone)
  PROVE  OnItsOwn'
<1>1. /\ session.generation \in Nat /\ session'.generation \in Nat /\ generation \in Nat
      /\ autoCommit \in BOOLEAN
  BY WorkIsHeld, SaneNow DEF Typed, Sane, SessionSet
<1>2. /\ session.generation \leq session'.generation
      /\ session'.generation = session.generation /\ session'.up => session.up
      /\ failure' = "abort" \/ Intact(session, session')
      /\ durable' = durable
  BY DEF SparesSession, Spares
<1> SUFFICES ASSUME NEW i \in Numbers, told'[i].within = 0, Good(i)', i \notin durable
             PROVE  /\ Alone /\ i = id /\ pc' \in {"fetch", "lastId", "commit"}
                    /\ session'.up /\ session'.generation = generation' => i \in session'.work
  BY <1>2 DEF OnItsOwn
<1>3. Good(i) /\ told[i].within = 0 BY StaysGood DEF Stays
<1>4. /\ Alone /\ i = id /\ pc \in {"fetch", "lastId", "commit"}
      /\ session.up /\ session.generation = generation => i \in session.work
  BY <1>3 DEF Sound, OnItsOwn
<1>5. told'[id].status = "waiting"
  <2>1. queue # <<>> BY <1>4 DEF Typed, InOrder
  <2>2. id \in Pending /\ id \in Numbers BY <2>1, RunningIs DEF Pending
  <2> QED BY <2>2 DEF Sound, Listed, Stays
<1>6. pc' \in Got /\ failure' = "none" BY <1>4, <1>5 DEF Good
<1>7. pc' \in {"fetch", "lastId", "commit"} BY <1>4, <1>6 DEF Advances, Got
<1>8. generation' = generation /\ generation \leq session.generation
  BY <1>4 DEF Advances, Late, Sound, Known
<1>9. autoCommit BY <1>4 DEF Alone, Deferred
<1>10. ASSUME session'.up, session'.generation = generation' PROVE i \in session'.work
  <2>1. session'.generation = session.generation BY <1>1, <1>2, <1>8, <1>10
  <2> QED BY <1>2, <1>4, <1>6, <1>8, <1>9, <1>10, <2>1 DEF Intact
<1> QED BY <1>4, <1>7, <1>10

LEMMA StaysOutcomes ==
  ASSUME Typed, Sound, Stays, Advances, SparesSession, id' = id, Numbers' = Numbers
  PROVE  Outcomes'
<1>1. durable' = durable /\ transactions' = transactions /\ durable \subseteq Numbers
  BY DEF SparesSession, Stays, Typed
<1>2. \A i \in Numbers : (Acknowledged(i)' <=> Acknowledged(i)) /\ told'[i].within = told[i].within
  BY StaysGood DEF Stays
<1>3. Outcomes BY DEF Sound
<1>4. AllOrNothing' BY <1>1, <1>2, <1>3 DEF AllOrNothing, Outcomes
<1> QED BY <1>1, <1>2, <1>3, <1>4 DEF Outcomes

LEMMA StaysSound ==
  ASSUME Typed, Typed', Sound, Stays, Advances, SparesSession
  PROVE  Sound'
BY StaysListed, StaysKnown, StaysUncommitted, StaysInSession, StaysOnItsOwn, StaysOutcomes DEF Sound
-----------------------------------------------------------------------------
(* A step that commits nothing, and settles the running call.              *)

\* A call that succeeds had nothing to keep, or all of it is done.
Concludes ==
  /\ queue # <<>> /\ queue' = Tail(queue) /\ pc' = "idle" /\ failure' = "none"
  /\ transactions' = transactions /\ UNCHANGED <<autoCommit, transactionEndReplies>>
  /\ cas # 0 => cas' # 0
  /\ Len(told') = Len(told)
  /\ \A i \in Numbers :
       /\ told'[i].within = told[i].within /\ told'[i].writes = told[i].writes
       /\ i # id => told'[i].status = told[i].status
  /\ \/ told'[id].status = "failed"
     \/ told'[id].status = "done" /\ (~told[id].writes \/ (pc = "release" /\ failure = "none"))

\* What the catch of a statement notes of its transaction.
Rebinds ==
  /\ \/ transactionGeneration' = transactionGeneration
     \/ /\ ~autoCommit /\ transactionGeneration = 0 /\ ~session'.connected
        /\ transactionGeneration' = session'.generation
  /\ autoCommit => transactionAbort' = transactionAbort
  /\ transactionAbort => transactionAbort'
  /\ ~autoCommit /\ failure = "abort" => transactionAbort'
  /\ transactionAbort' => transactionAbort \/ failure = "abort" \/ session'.work = {}

\* What becomes of the session: a statement of its own leaves nothing in it.
Vacates ==
  /\ durable' = durable /\ Spares(session, session')
  /\ ~autoCommit => transactionAbort' \/ Intact(session, session')
  /\ Alone => session'.work = {} \/ (pc = "release" /\ failure = "none")

LEMMA ConcludesListed ==
  ASSUME Typed, Sound, Concludes, Vacates
  PROVE  /\ Listed' /\ Numbers' = Numbers /\ Transaction' = Transaction
         /\ id \in Numbers /\ ~Alone'
<1>1. /\ id \in Numbers /\ id \notin Waiting /\ Waiting \subseteq Numbers
      /\ \A k \in 1..Len(queue) : queue[k].id \in Numbers
  BY RunningIs, WaitingOthers DEF Concludes
<1>2. /\ Len(queue') = Len(queue) - 1 /\ Len(queue') \in Nat
      /\ \A k \in 1..Len(queue') : queue'[k] = queue[k + 1] /\ k + 1 \in 1..Len(queue)
  BY TailIs DEF Concludes
<1>3. Len(queue) \in Nat BY DEF Typed
<1>4. Pending' \subseteq Waiting
  <2> SUFFICES ASSUME NEW k \in 1..Len(queue') PROVE queue'[k].id \in Waiting
    BY DEF Pending
  <2>1. k + 1 \in 2..Len(queue) /\ queue'[k] = queue[k + 1] BY <1>2, <1>3
  <2> QED BY <2>1 DEF Waiting
<1>5. Numbers' = Numbers /\ Transaction' = Transaction /\ pc' = "idle" /\ ~Alone'
  BY DEF Concludes, Numbers, Transaction, Alone, Late
<1>6. Unsent' = Pending' BY <1>5 DEF Unsent, Late
<1>7. Waiting \subseteq Unsent /\ Waiting \subseteq Pending
  BY <1>3 DEF Unsent, Waiting, Pending
<1>8. session'.work \subseteq session.work /\ durable' = durable
  BY DEF Vacates, Spares
<1> USE DEF Sound, Listed
<1>9. \A i \in Numbers' : (told[i].within \in 0..Len(transactions))'
  BY <1>5 DEF Concludes
<1>10. \A i \in Pending' : (told[i].status = "waiting")'
  BY <1>1, <1>4, <1>7 DEF Concludes
<1>11. \A i \in Unsent' : (told[i].within = 0 /\ i \notin session.work /\ i \notin durable)'
  BY <1>1, <1>4, <1>6, <1>7, <1>8 DEF Concludes
<1>12. ASSUME NEW k \in (1..Len(queue))'
      PROVE  (/\ told[queue[k].id].writes <=> queue[k].sql # "select"
              /\ queue[k].call \in Statements \/ queue[k].sql = "select")'
  <2>1. queue'[k] = queue[k + 1] /\ k + 1 \in 1..Len(queue) BY <1>2
  <2>2. queue'[k].id \in Numbers /\ told'[queue'[k].id].writes = told[queue'[k].id].writes
    BY <1>1, <2>1 DEF Concludes
  <2> QED BY <2>1, <2>2
<1>13. (/\ pc \in Late => told[id].within = Transaction
        /\ pc \in Past \cup {"baseline", "start"} => Running.call \in Statements
        /\ pc \in {"checkCas", "version"} => Running.call = "ping")'
  BY <1>5 DEF Past, Late
<1>14. Listed' BY <1>9, <1>10, <1>11, <1>12, <1>13
<1> QED BY <1>1, <1>5, <1>14

LEMMA ConcludesKnown ==
  ASSUME Typed, Typed', Sound, Concludes, Rebinds, Vacates
  PROVE  Known' /\ (transactionGeneration # 0 => transactionGeneration' = transactionGeneration)
<1>1. /\ autoCommit' = autoCommit /\ endReplies' = endReplies
      /\ transactions' = transactions
  BY DEF Concludes, endReplies
<1>2. /\ session.generation \in Nat /\ session'.generation \in Nat
      /\ session.outOfTransactionReplies \in Nat /\ session'.outOfTransactionReplies \in Nat
      /\ bound \in Nat /\ endReplies \in Nat \cup {-1}
  BY WorkIsHeld, SaneNow DEF Typed, Sane, SessionSet, bound, endReplies
<1>3. /\ session.generation \leq session'.generation
      /\ session.outOfTransactionReplies \leq session'.outOfTransactionReplies
      /\ session'.generation = session.generation /\ session'.connected => session.connected
  BY DEF Vacates, Spares
<1>4. \/ bound' = bound
      \/ ~autoCommit /\ bound = 0 /\ ~session'.connected /\ bound' = session'.generation
  BY DEF Rebinds, bound
<1> USE DEF Sound, Known
<1>5. bound' \leq session'.generation /\ endReplies' \leq session'.outOfTransactionReplies
  BY <1>1, <1>2, <1>3, <1>4
<1>6. ASSUME ~autoCommit', bound' # 0
      PROVE  endReplies' # -1 \/ ~session'.connected \/ session'.generation # bound'
  BY <1>1, <1>2, <1>3, <1>4, <1>6
<1>7. \A k \in (1..Len(transactions))' :
        (transactions[k] = "open" <=> ~autoCommit /\ k = Len(transactions))'
  BY <1>1
<1>8. (~autoCommit => cas # 0)' BY <1>1 DEF Concludes
<1>9. (autoCommit => bound = 0 /\ endReplies = -1 /\ ~transactionAbort)'
  BY <1>1, <1>4 DEF Rebinds
<1>10. pc' = "idle" /\ failure' = "none" BY DEF Concludes
<1>11. Known' BY <1>5, <1>6, <1>7, <1>8, <1>9, <1>10 DEF Past, Late
<1> QED BY <1>4, <1>11 DEF bound

LEMMA ConcludesUncommitted ==
  ASSUME Typed, Sound, Concludes, Rebinds, Vacates, Transaction' = Transaction, ~Alone',
         transactionGeneration # 0 => transactionGeneration' = transactionGeneration
  PROVE  Uncommitted'
<1>1. /\ session'.work \subseteq session.work
      /\ session'.work # {} => session'.generation = session.generation
  BY DEF Vacates, Spares
<1>2. session.work \subseteq Numbers BY SaneNow DEF SessionSet, Numbers
<1>3. autoCommit' = autoCommit BY DEF Concludes
<1> USE DEF Sound, Uncommitted
<1>4. autoCommit => session'.work = {} BY <1>1 DEF Vacates
<1>5. ASSUME ~autoCommit
      PROVE  /\ \A i \in session'.work : told'[i].within = Transaction
             /\ session'.work # {} => bound' # 0 /\ session'.generation = bound' /\ ~Aborting'
  <2>1. \A i \in session'.work : told'[i].within = Transaction
    BY <1>1, <1>2, <1>5 DEF Concludes
  <2>2. session'.work # {} => bound' # 0 /\ session'.generation = bound'
    BY <1>1, <1>5 DEF bound
  <2>3. session'.work # {} => ~Aborting'
    BY <1>1, <1>5 DEF Aborting, Rebinds, Concludes
  <2> QED BY <2>1, <2>2, <2>3
<1> QED BY <1>3, <1>4, <1>5

LEMMA ConcludesGood ==
  ASSUME Concludes, NEW i \in Numbers
  PROVE  /\ Good(i)' => Good(i) /\ told'[i].status = "done" /\ (i = id => pc = "release")
         /\ i # id => (Acknowledged(i)' <=> Acknowledged(i))
         /\ Acknowledged(i)' /\ i = id => pc = "release"
BY DEF Concludes, Good, Got, Acknowledged

LEMMA ConcludesInSession ==
  ASSUME Typed, Typed', Sound, Concludes, Rebinds, Vacates,
         Numbers' = Numbers, Transaction' = Transaction,
         transactionGeneration # 0 => transactionGeneration' = transactionGeneration
  PROVE  InSession'
<1>1. /\ autoCommit' = autoCommit /\ endReplies' = endReplies
      /\ bound # 0 => bound' = bound
  BY DEF Concludes, bound, endReplies
<1>2. /\ session.generation \in Nat /\ session'.generation \in Nat
      /\ session.outOfTransactionReplies \in Nat /\ session'.outOfTransactionReplies \in Nat
      /\ bound \in Nat /\ endReplies \in Nat \cup {-1}
  BY WorkIsHeld, SaneNow DEF Typed, Sane, SessionSet, bound, endReplies
<1>3. /\ session.generation \leq session'.generation
      /\ session.outOfTransactionReplies \leq session'.outOfTransactionReplies
      /\ session'.generation = session.generation /\ session'.up => session.up
      /\ ~autoCommit => transactionAbort' \/ Intact(session, session')
  BY DEF Vacates, Spares
<1>4. bound \leq session.generation /\ endReplies \leq session.outOfTransactionReplies
  BY DEF Sound, Known
<1> SUFFICES ASSUME NEW i \in Numbers, ~autoCommit, told'[i].within = Transaction, Good(i)'
             PROVE  bound' # 0 /\ endReplies # -1 /\ (Healthy' => i \in session'.work)
  BY <1>1 DEF InSession
<1>5. Good(i) /\ told[i].within = Transaction BY ConcludesGood DEF Concludes
<1>6. bound # 0 /\ endReplies # -1 /\ (Healthy => i \in session.work) BY <1>5 DEF Sound, InSession
<1>7. ASSUME Healthy' PROVE i \in session'.work
  <2>1. /\ session'.up /\ session'.generation = bound
        /\ session'.outOfTransactionReplies = endReplies /\ ~transactionAbort'
    BY <1>1, <1>6, <1>7 DEF Healthy, Aborting
  <2>2. session.generation = bound /\ session.outOfTransactionReplies = endReplies
    BY <1>2, <1>3, <1>4, <2>1
  <2>3. session.up /\ session'.work = session.work BY <1>3, <2>1, <2>2 DEF Intact
  <2>4. ~transactionAbort /\ failure # "abort" BY <2>1 DEF Rebinds
  <2>5. Healthy BY <2>2, <2>3, <2>4 DEF Healthy, Aborting
  <2> QED BY <1>6, <2>3, <2>5
<1> QED BY <1>1, <1>6, <1>7

LEMMA ConcludesOutcomes ==
  ASSUME Typed, Sound, Concludes, Vacates, Numbers' = Numbers, id \in Numbers
  PROVE  OnItsOwn' /\ Outcomes'
<1>1. durable' = durable /\ transactions' = transactions /\ durable \subseteq Numbers
      /\ \A i \in Numbers : told'[i].within = told[i].within
  BY DEF Vacates, Concludes, Typed
<1>2. ASSUME NEW i \in Numbers, told'[i].within = 0, Good(i)' PROVE i \in durable'
  <2>1. Good(i) /\ told[i].within = 0 /\ (i = id => pc = "release") BY <1>1, <1>2, ConcludesGood
  <2> QED BY <1>1, <2>1 DEF Sound, OnItsOwn
<1>3. OnItsOwn' BY <1>2 DEF OnItsOwn
<1>4. ASSUME NEW j \in Numbers, Acknowledged(j)', told[j].within # 0
      PROVE  Acknowledged(j) \/ transactions[told[j].within] = "open"
  <2>1. CASE j # id BY <1>4, <2>1, ConcludesGood
  <2>2. CASE j = id
    <3>1. pc \in Late BY <1>4, <2>2, ConcludesGood DEF Late
    <3>2. told[j].within = Transaction BY <2>2, <3>1 DEF Sound, Listed
    <3>3. ~autoCommit /\ told[j].within = Len(transactions) BY <1>4, <3>2 DEF Transaction
    <3>4. told[j].within \in 1..Len(transactions) BY <1>4, WaysAre DEF Sound, Listed
    <3> QED BY <3>3, <3>4 DEF Sound, Known
  <2> QED BY <2>1, <2>2
<1> DEFINE outcome(i) == transactions[told[i].within]
<1>5. \A i \in durable : told[i].within # 0 => outcome(i) \notin {"open", "rolled back"}
  BY DEF Sound, Outcomes
<1>6. \A i \in Numbers :
        told[i].within # 0 /\ outcome(i) = "committed" /\ Acknowledged(i) => i \in durable
  BY DEF Sound, Outcomes
<1>7. \A i \in durable, j \in Numbers :
        told[i].within # 0 /\ told[j].within = told[i].within /\ Acknowledged(j) => j \in durable
  BY DEF Sound, Outcomes, AllOrNothing
<1>8. \A i \in durable, j \in Numbers :
        told[i].within # 0 /\ told[j].within = told[i].within /\ Acknowledged(j)' => j \in durable
  BY <1>4, <1>5, <1>7
<1>9. \A i \in Numbers :
        told[i].within # 0 /\ outcome(i) = "committed" /\ Acknowledged(i)' => i \in durable
  BY <1>4, <1>6
<1>10. AllOrNothing' BY <1>1, <1>8 DEF AllOrNothing
<1> QED BY <1>1, <1>3, <1>5, <1>9, <1>10 DEF Outcomes

LEMMA ConcludesSound ==
  ASSUME Typed, Typed', Sound, Concludes, Rebinds, Vacates
  PROVE  Sound'
<1>1. /\ Listed' /\ Numbers' = Numbers /\ Transaction' = Transaction
      /\ id \in Numbers /\ ~Alone'
  BY ConcludesListed
<1>2. Known' /\ (transactionGeneration # 0 => transactionGeneration' = transactionGeneration)
  BY ConcludesKnown
<1> QED
  BY <1>1, <1>2, ConcludesUncommitted, ConcludesInSession, ConcludesOutcomes DEF Sound

-----------------------------------------------------------------------------
(* The invariant is kept: the steps up to sending the statement.           *)

LEMMA TellConcludes ==
  ASSUME Typed, queue # <<>>, NEW status \in {"done", "failed"}, Tell(status)
  PROVE  /\ queue' = Tail(queue) /\ pc' = "idle" /\ failure' = "none" /\ Len(told') = Len(told)
         /\ told'[id].status = status
         /\ \A i \in Numbers :
              /\ told'[i].within = told[i].within /\ told'[i].writes = told[i].writes
              /\ i # id => told'[i].status = told[i].status
<1>1. id \in Numbers /\ told[id] \in ToldSet /\ told \in Seq(ToldSet) BY RunningIs DEF Typed
<1> DEFINE r == [told[id] EXCEPT !.status = status]
<1>2. /\ r \in ToldSet /\ r.within = told[id].within /\ r.writes = told[id].writes
      /\ r.status = status
  BY <1>1 DEF ToldSet
<1>3. told' = [told EXCEPT ![id] = r] BY DEF Tell
<1> HIDE DEF r
<1>4. Revised(told', id, r) BY <1>1, <1>2, <1>3, ToldOnce, Zenon
<1> QED BY <1>2, <1>4 DEF Tell, Revised

\* A statement fails, and its transaction notes why.
LEMMA FailsSound ==
  ASSUME Typed, Typed', Sound, queue # <<>>, NEW error, StatementFails(session', error),
         UNCHANGED transactions, cas # 0 => cas' # 0,
         durable' = durable, Spares(session, session'),
         ~autoCommit => error = "abort" \/ Intact(session, session'),
         error = "abort" => failure = "abort" \/ session'.work = {},
         failure = "abort" => error = "abort",
         Alone => session'.work = {}
  PROVE  Sound'
<1>1. Tell("failed") /\ UNCHANGED <<autoCommit, transactionEndReplies>>
  BY DEF StatementFails
<1>2. Concludes BY <1>1, TellConcludes DEF Concludes
<1>3. transactionAbort' <=> transactionAbort \/ (~autoCommit /\ error = "abort")
  BY DEF StatementFails, RecordAbort
<1>4. transactionAbort \in BOOLEAN /\ transactionAbort' \in BOOLEAN
  BY WorkIsHeld DEF Typed, OthersTyped, TransactionTyped
<1>5. Rebinds BY <1>3, <1>4 DEF Rebinds, StatementFails, BindLostSession
<1>6. Vacates BY <1>3 DEF Vacates
<1> QED BY <1>2, <1>5, <1>6, ConcludesSound

\* A call is settled that has not run a statement.
LEMMA TellsSound ==
  ASSUME Typed, Typed', Sound, queue # <<>>, pc \notin Past,
         NEW status \in {"done", "failed"}, Tell(status), status = "done" => ~told[id].writes,
         UNCHANGED <<transaction, transactions>>, cas # 0 => cas' # 0,
         durable' = durable, Spares(session, session'), Intact(session, session')
  PROVE  Sound'
<1>1. failure = "none" /\ ~Alone BY DEF Sound, Known, Past, Alone, Late
<1>2. Concludes BY TellConcludes DEF Concludes, transaction
<1>3. Rebinds BY <1>1 DEF Rebinds, transaction
<1>4. Vacates BY <1>1 DEF Vacates
<1> QED BY <1>2, <1>3, <1>4, ConcludesSound

\* The running call goes on, before its statement is sent.
LEMMA MovesSound ==
  ASSUME Typed, Typed', Sound, UNCHANGED <<queue, told, transaction, transactions>>,
         cas # 0 => cas' # 0, pc \notin Late, pc' \notin Late,
         pc' \in Past => pc \in Past \/ ~SessionLost(session, transactionGeneration),
         failure' = failure \/ (failure = "none" /\ pc' = "releaseProbe"),
         failure' # "none" => pc' = "releaseProbe",
         pc' \in Past \cup {"baseline", "start"} => Running.call \in Statements,
         pc' \in {"checkCas", "version"} => Running.call = "ping",
         durable' = durable, Spares(session, session'),
         failure' = "abort" \/ Intact(session, session'),
         failure' = "abort" => failure = "abort" \/ session'.work = {}
  PROVE  Sound'
<1>1. Stays BY DEF Stays
<1>2. Advances BY DEF Advances, Late, Got, Alone
<1>3. SparesSession BY DEF SparesSession
<1> QED BY <1>1, <1>2, <1>3, StaysSound

\* Nothing is committed where nothing is held.
LEMMA NothingHeld ==
  ASSUME Sound
  PROVE  /\ Mode = "autocommit" => session.work = {}
         /\ pc \notin Late /\ autoCommit => session.work = {}
BY ModeIs DEF Sound, Uncommitted, Alone, Mode

\* What a request that is no statement's own does to the session.
LEMMA QuietIs ==
  ASSUME Typed, Sound, NEW fn \in Functions \ {"COMMIT", "ROLLBACK"}, NEW mode \in S!Modes,
         mode = Mode \/ mode = (IF autoCommit THEN "deferred" ELSE Mode)
  PROVE  Quiet(S!Request(fn, mode)) /\ S!Request(fn, mode).fn = fn
         /\ S!Request(fn, mode) \in RequestSet(Len(told))
<1>1. Len(told) \in Nat /\ fn \in Functions BY SaneNow
<1>2. /\ S!Request(fn, mode).fn = fn /\ S!Request(fn, mode).mode = mode
      /\ S!Request(fn, mode).writes = FALSE /\ S!Request(fn, mode) \in RequestSet(Len(told))
  <2>1. S!Request(fn, mode) \in RequestSet(Len(told)) BY <1>1, RequestIs, Zenon
  <2>2. /\ S!Request(fn, mode).fn = fn /\ S!Request(fn, mode).mode = mode
        /\ S!Request(fn, mode).writes = FALSE
    BY DEF S!Request
  <2> QED BY <2>1, <2>2
<1>3. mode = "autocommit" => session.work = {} BY NothingHeld, ModeIs
<1>4. autoCommit => mode # "transaction" BY DEF Mode
<1> QED BY <1>2, <1>3, <1>4 DEF Quiet, Changes

LEMMA TakesNothing ==
  ASSUME NEW o, Takes(o), o.durable = {}
  PROVE  durable' = durable
BY DEF Takes

LEMMA SameSession ==
  ASSUME Typed
  PROVE  Spares(session, session) /\ Intact(session, session)
BY SaneNow, SparesSame

\* A request over the session, and what is left when a damaged reply drops it.
LEMMA SentLeaves ==
  ASSUME Typed, Sound, NEW fn \in Functions \ {"COMMIT", "ROLLBACK"}, NEW mode \in S!Modes,
         mode = Mode \/ mode = (IF autoCommit THEN "deferred" ELSE Mode),
         NEW o \in S!SendAndRecv(session, S!Request(fn, mode)), Takes(o),
         session' = o.session \/ session' = S!DiscardSession(o.session)
  PROVE  /\ durable' = durable /\ Spares(session, session')
         /\ o.reply = "abort" \/ Intact(session, session')
         /\ o.reply = "abort" => session'.work = {} /\ fn \in S!Executing \cup {"PREPARE", "FETCH"}
         /\ o \in OutcomeSet(Len(told))
<1> DEFINE r == S!Request(fn, mode)
<1>1. Quiet(r) /\ r.fn = fn /\ r \in RequestSet(Len(told)) BY QuietIs
<1> HIDE DEF r
<1>2. o \in S!SendAndRecv(session, r) BY DEF r
<1>3. Sent(Len(told), session, r, o) /\ o \in OutcomeSet(Len(told)) BY <1>1, <1>2, SentStep
<1>4. Sparing(o) /\ (o.reply = "abort" => o.session.work = {} /\ CanAbort(r))
  BY <1>1, <1>3, SentSpares
<1>5. /\ Len(told) \in Nat /\ session \in SessionSet(Len(told)) /\ o.session \in SessionSet(Len(told))
  BY <1>3, SaneNow DEF Sent, Sane
<1>6. durable' = durable /\ Spares(session, o.session) BY <1>4, TakesNothing DEF Sparing
<1>7. CASE session' = o.session
  BY <1>1, <1>3, <1>4, <1>6, <1>7 DEF Sparing, CanAbort
<1>8. CASE session' = S!DiscardSession(o.session)
  <2>1. Spares(session, session') /\ Intact(session, session') /\ session'.work = {}
    BY <1>5, <1>6, <1>8, SparesDiscarded
  <2> QED BY <1>1, <1>3, <1>4, <1>6, <2>1 DEF CanAbort
<1> QED BY <1>7, <1>8

\* The same of a request for one session only.
LEMMA OnSessionLeaves ==
  ASSUME Typed, Sound, NEW fn \in Functions \ {"COMMIT", "ROLLBACK"}, NEW g, NEW counted \in BOOLEAN,
         NEW o \in S!OnSession(session, g, S!Request(fn, Mode), counted), Takes(o),
         session' = o.session \/ session' = S!DiscardSession(o.session)
  PROVE  /\ durable' = durable /\ Spares(session, session')
         /\ o.reply = "abort" \/ Intact(session, session')
         /\ o.reply = "abort" => session'.work = {} /\ fn \in S!Executing \cup {"PREPARE", "FETCH"}
         /\ o \in OutcomeSet(Len(told))
<1> DEFINE r == S!Request(fn, Mode)
<1>1. Quiet(r) /\ r.fn = fn /\ r \in RequestSet(Len(told)) BY QuietIs, ModeIs
<1> HIDE DEF r
<1>2. o \in S!OnSession(session, g, r, counted) BY DEF r
<1>3. OnSessionOnly(g, r, o) /\ o \in OutcomeSet(Len(told))
  BY <1>1, <1>2, OnSessionStep DEF OnSessionOnly
<1>4. Sparing(o) /\ (o.reply = "abort" => o.session.work = {} /\ CanAbort(r))
  BY <1>1, <1>3, OnSessionSpares
<1>5. Len(told) \in Nat /\ session \in SessionSet(Len(told)) /\ o.session \in SessionSet(Len(told))
  BY <1>3, SaneNow DEF OutcomeSet
<1>6. durable' = durable /\ Spares(session, o.session) BY <1>4, TakesNothing DEF Sparing
<1>7. CASE session' = o.session
  BY <1>1, <1>3, <1>4, <1>6, <1>7 DEF Sparing, CanAbort
<1>8. CASE session' = S!DiscardSession(o.session)
  <2>1. Spares(session, session') /\ Intact(session, session') /\ session'.work = {}
    BY <1>5, <1>6, <1>8, SparesDiscarded
  <2> QED BY <1>1, <1>3, <1>4, <1>6, <2>1 DEF CanAbort
<1> QED BY <1>7, <1>8

\* The connection object is never lost on the way.
LEMMA CasStays ==
  ASSUME GetOrCreateCAS \/ UNCHANGED <<cas, created>>
  PROVE  cas # 0 => cas' # 0
BY DEF GetOrCreateCAS

LEMMA AtStartIs ==
  ASSUME Typed, Sound, AtStart
  PROVE  /\ queue # <<>> /\ Running.call \in Statements
         /\ pc \notin Past /\ pc \notin Late /\ failure = "none" /\ ~Alone
<1>1. queue # <<>> BY PcRuns
<1>2. pc \in {"start", "idle"} BY DEF AtStart, Turn
<1>3. Running.call \in Statements BY <1>2 DEF AtStart, Turn, Statements, Sound, Listed
<1>4. failure = "none" BY <1>2 DEF Sound, Known
<1> QED BY <1>1, <1>2, <1>3, <1>4 DEF Past, Late, Alone

LEMMA BeginExecuteSound ==
  ASSUME Typed, Typed', Sound, BeginExecute
  PROVE  Sound'
<1>1. /\ pc = "idle" /\ pc' \in {"baseline", "start"} /\ Running.call \in Statements
      /\ UNCHANGED <<queue, told, transaction, transactions, session, durable, failure>>
  BY DEF BeginExecute, Turn, Statements, locals
<1>2. cas # 0 => cas' # 0 BY CasStays DEF BeginExecute
<1>3. failure = "none" BY <1>1 DEF Sound, Known
<1>4. Spares(session, session') /\ Intact(session, session') BY <1>1, SameSession
<1> QED BY <1>1, <1>2, <1>3, <1>4, MovesSound DEF Past, Late

LEMMA BaselineRefusedSound ==
  ASSUME Typed, Typed', Sound, BaselineRefused
  PROVE  Sound'
<1>1. queue # <<>> BY PcRuns DEF BaselineRefused
<1>2. /\ pc = "baseline" /\ session' = session /\ durable' = durable
      /\ StatementFails(session', "lost") /\ UNCHANGED transactions /\ cas' = cas
  BY DEF BaselineRefused, NothingAwaited
<1>3. failure = "none" /\ ~Alone BY <1>2 DEF Sound, Known, Alone, Late
<1>4. Spares(session, session') /\ Intact(session, session') BY <1>2, SameSession
<1> QED BY <1>1, <1>2, <1>3, <1>4, FailsSound

LEMMA BaselineUnreadSound ==
  ASSUME Typed, Typed', Sound, BaselineUnread
  PROVE  Sound'
<1>1. /\ pc = "baseline" /\ pc' = "start" /\ cas' = cas
      /\ UNCHANGED <<queue, told, transaction, transactions, session, durable, failure>>
  BY DEF BaselineUnread, connection, locals
<1>2. failure = "none" /\ Running.call \in Statements BY <1>1 DEF Sound, Known, Listed
<1>3. Spares(session, session') /\ Intact(session, session') BY <1>1, SameSession
<1> QED BY <1>1, <1>2, <1>3, MovesSound DEF Past, Late

LEMMA ReadBaselineSound ==
  ASSUME Typed, Typed', Sound, ReadBaseline
  PROVE  Sound'
<1>1. queue # <<>> BY PcRuns DEF ReadBaseline
<1>2. PICK o \in S!SendAndRecv(session, S!Request("GET_LAST_INSERT_ID", Mode)) :
        /\ Takes(o)
        /\ IF o.reply = "ok"
             THEN session' = o.session /\ pc' = "start" /\ UNCHANGED <<transaction, queue, locals, told>>
             ELSE /\ session' = IF o.reply = "malformed" THEN S!DiscardSession(o.session)
                                                         ELSE o.session
                  /\ StatementFails(session', o.reply)
  BY DEF ReadBaseline
<1>3. pc = "baseline" /\ UNCHANGED transactions /\ cas' = cas BY DEF ReadBaseline
<1>4. failure = "none" /\ ~Alone /\ Running.call \in Statements
  BY <1>3 DEF Sound, Known, Listed, Alone, Late
<1>5. "GET_LAST_INSERT_ID" \in Functions \ {"COMMIT", "ROLLBACK"}
      /\ "GET_LAST_INSERT_ID" \notin S!Executing \cup {"PREPARE", "FETCH"}
  BY DEF Functions, S!Executing
<1>6. session' = o.session \/ session' = S!DiscardSession(o.session) BY <1>2
<1>7. /\ durable' = durable /\ Spares(session, session') /\ Intact(session, session')
      /\ o.reply # "abort"
  BY <1>2, <1>5, <1>6, SentLeaves, ModeIs
<1>8. CASE o.reply = "ok"
  <2>1. pc' = "start" /\ UNCHANGED <<transaction, queue, failure, told>>
    BY <1>2, <1>8 DEF locals
  <2> QED BY <1>3, <1>4, <1>7, <2>1, MovesSound DEF Past, Late
<1>9. CASE o.reply # "ok"
  <2>1. StatementFails(session', o.reply) BY <1>2, <1>9
  <2> QED BY <1>1, <1>3, <1>4, <1>7, <2>1, FailsSound
<1> QED BY <1>8, <1>9

\* A transaction that ended is dropped with its session.
LEMMA DropSpares ==
  ASSUME Typed, session' = DropIfEnded(session)
  PROVE  Spares(session, session') /\ Intact(session, session')
<1>1. Len(told) \in Nat /\ session \in SessionSet(Len(told)) BY SaneNow
<1>2. Spares(session, session) /\ Intact(session, session) BY SameSession
<1>3. session' = session \/ session' = S!DiscardSession(session) BY DEF DropIfEnded
<1> QED BY <1>1, <1>2, <1>3, SparesDiscarded

LEMMA StartRefusedSound ==
  ASSUME Typed, Typed', Sound, StartRefused
  PROVE  Sound'
<1>1. /\ session' = DropIfEnded(session) /\ durable' = durable
      /\ StatementFails(session', "lost") /\ UNCHANGED transactions
  BY DEF StartRefused, NothingAwaited
<1>2. queue # <<>> /\ failure = "none" /\ ~Alone BY AtStartIs DEF StartRefused
<1>3. cas # 0 => cas' # 0 BY CasStays DEF StartRefused
<1>4. Spares(session, session') /\ Intact(session, session') BY <1>1, DropSpares
<1> QED BY <1>1, <1>2, <1>3, <1>4, FailsSound

LEMMA EnsureSessionSound ==
  ASSUME Typed, Typed', Sound, EnsureSession
  PROVE  Sound'
<1>1. PICK o \in S!EnsureSession(session) :
        /\ Takes(o) /\ session' = o.session
        /\ IF o.reply = "ok"
             THEN pc' \in {"mode", "send"} /\ UNCHANGED <<transaction, baseline, queue, locals, told>>
             ELSE StatementFails(o.session, "lost")
  BY DEF EnsureSession
<1>2. /\ AtStart /\ ~SessionLost(session, transactionGeneration) /\ UNCHANGED transactions
  BY DEF EnsureSession
<1>3. /\ queue # <<>> /\ Running.call \in Statements
      /\ pc \notin Past /\ pc \notin Late /\ failure = "none" /\ ~Alone
  BY <1>2, AtStartIs
<1>4. cas # 0 => cas' # 0 BY CasStays DEF EnsureSession
<1>5. Opens(Len(told), session, o) BY SaneNow, EnsureIs, Zenon
<1>6. durable' = durable /\ Spares(session, session') /\ Intact(session, session')
  BY <1>1, <1>5, OpensSpares, TakesNothing
<1>7. CASE o.reply = "ok"
  <2>1. pc' \in {"mode", "send"} /\ UNCHANGED <<transaction, queue, failure, told>>
    BY <1>1, <1>7 DEF locals
  <2> QED BY <1>2, <1>3, <1>4, <1>6, <2>1, MovesSound DEF Late
<1>8. CASE o.reply # "ok"
  <2>1. StatementFails(session', "lost") BY <1>1, <1>8
  <2> QED BY <1>2, <1>3, <1>4, <1>6, <2>1, FailsSound
<1> QED BY <1>7, <1>8

LEMMA ProbeModeSound ==
  ASSUME Typed, Typed', Sound, ProbeMode
  PROVE  Sound'
<1> DEFINE mode == IF autoCommit THEN "deferred" ELSE Mode
<1>1. PICK o \in S!SendAndRecv(session, S!Request("PREPARE_AND_EXECUTE", mode)) :
        /\ Takes(o)
        /\ session' = IF o.reply = "malformed" THEN S!DiscardSession(o.session) ELSE o.session
        /\ failure' \in IF o.reply \in {"ok", "more"} THEN {"none", "error"} ELSE {o.reply}
  BY DEF ProbeMode
<1>2. /\ pc = "mode" /\ pc' = "releaseProbe" /\ cas' = cas
      /\ UNCHANGED <<transaction, queue, told, transactions>>
  BY DEF ProbeMode
<1>3. "PREPARE_AND_EXECUTE" \in Functions \ {"COMMIT", "ROLLBACK"} /\ mode \in S!Modes
  BY ModeIs DEF Functions
<1>4. session' = o.session \/ session' = S!DiscardSession(o.session) BY <1>1
<1>5. /\ durable' = durable /\ Spares(session, session')
      /\ o.reply = "abort" \/ Intact(session, session')
      /\ o.reply = "abort" => session'.work = {}
  BY <1>1, <1>3, <1>4, SentLeaves
<1>6. failure' = "abort" <=> o.reply = "abort" BY <1>1
<1>7. failure = "none" /\ Running.call \in Statements BY <1>2 DEF Sound, Known, Listed, Past
<1> QED BY <1>2, <1>5, <1>6, <1>7, MovesSound DEF Past, Late

LEMMA ReleaseProbeSound ==
  ASSUME Typed, Typed', Sound, ReleaseProbe
  PROVE  Sound'
<1>1. queue # <<>> /\ pc = "releaseProbe" /\ UNCHANGED transactions BY PcRuns DEF ReleaseProbe
<1>2. PICK o \in S!ReleaseOnSession(session, handle, S!Request("CLOSE_REQ_HANDLE", Mode)) :
        Takes(o) /\ session' = o.session
  BY DEF ReleaseProbe, CloseQueryHandle
<1>3. cas' = cas BY DEF ReleaseProbe, CloseQueryHandle
<1>4. "CLOSE_REQ_HANDLE" \in Functions \ {"COMMIT", "ROLLBACK"}
      /\ "CLOSE_REQ_HANDLE" \notin S!Executing \cup {"PREPARE", "FETCH"}
  BY DEF Functions, S!Executing
<1>5. durable' = durable /\ Spares(session, session') /\ Intact(session, session')
  BY <1>2, <1>4, OnSessionLeaves DEF S!ReleaseOnSession
<1>6. Running.call \in Statements /\ ~Alone BY <1>1 DEF Sound, Listed, Past, Alone, Late
<1>7. CASE failure = "none"
  <2>1. pc' = "send" /\ UNCHANGED <<transaction, queue, failure, told>> BY <1>7 DEF ReleaseProbe
  <2> QED BY <1>1, <1>3, <1>5, <1>6, <1>7, <2>1, MovesSound DEF Past, Late
<1>8. CASE failure # "none"
  <2>1. StatementFails(session', failure) BY <1>8 DEF ReleaseProbe
  <2> QED BY <1>1, <1>3, <1>5, <1>6, <2>1, FailsSound
<1> QED BY <1>7, <1>8

-----------------------------------------------------------------------------
(* The invariant is kept: a statement that was sent.                       *)

\* What the history says of the order and the transaction of the calls stays.
Untold ==
  /\ Len(told') = Len(told)
  /\ \A i \in Numbers :
       /\ told'[i].within = told[i].within /\ told'[i].writes = told[i].writes
       /\ told'[i].status = told[i].status

\* A statement whose result was read goes on, or fails and releases its handle.
LEMMA ResultSound ==
  ASSUME Typed, Typed', Sound, pc \in {"execute", "fetch", "lastId"}, Untold,
         UNCHANGED <<queue, transaction, transactions, cas, generation>>,
         \/ failure' # "none" /\ pc' = "release"
         \/ pc # "execute" /\ UNCHANGED failure /\ (pc' = pc \/ Finish),
         durable' = durable, Spares(session, session'),
         failure' = "abort" \/ Intact(session, session'),
         failure' = "abort" => session'.work = {}
  PROVE  Sound'
<1>1. Stays BY DEF Stays, Untold
<1>2. failure = "none" BY DEF Sound, Known
<1>3. Running.call \in Statements BY DEF Sound, Listed, Past
<1>4. Advances BY <1>2, <1>3 DEF Advances, Late, Got, Past, Finish, Alone
<1>5. SparesSession BY DEF SparesSession
<1> QED BY <1>1, <1>4, <1>5, StaysSound

LEMMA MarkersMismatchSound ==
  ASSUME Typed, Typed', Sound, MarkersMismatch
  PROVE  Sound'
<1>1. /\ pc = "execute" /\ Throw(session, "error") /\ durable' = durable
      /\ UNCHANGED <<queue, transaction, transactions, cas, generation, told>>
  BY DEF MarkersMismatch, NothingAwaited
<1>2. session' = session /\ failure' = "error" /\ pc' = "release" BY <1>1 DEF Throw
<1>3. Spares(session, session') /\ Intact(session, session') BY <1>2, SameSession
<1>4. Untold BY <1>1 DEF Untold
<1> QED BY <1>1, <1>2, <1>3, <1>4, ResultSound

LEMMA FetchWindowSound ==
  ASSUME Typed, Typed', Sound, FetchWindow
  PROVE  Sound'
<1> DEFINE r == S!Request("FETCH", Mode)
<1>1. PICK o \in S!SendAndRecvOnSession(session, handle, r) :
        /\ Takes(o)
        /\ CASE o.reply = "ok" -> session' = o.session /\ Finish /\ UNCHANGED <<failure, baseline>>
             [] o.reply = "more" -> session' = o.session /\ UNCHANGED <<pc, failure, baseline>>
             [] OTHER -> Throw(o.session, o.reply)
  BY DEF FetchWindow
<1>2. /\ pc = "fetch" /\ UNCHANGED <<queue, transaction, transactions, cas, generation, told>>
  BY DEF FetchWindow
<1> HIDE DEF r
<1>3. \/ o.reply \in {"ok", "more"} /\ session' = o.session /\ (Finish \/ pc' = pc) /\ UNCHANGED failure
      \/ Throw(o.session, o.reply)
  BY <1>1, Zenon
<1>4. session' = o.session \/ session' = S!DiscardSession(o.session) BY <1>3 DEF Throw
<1> DEFINE counted == TRUE
<1>5. o \in S!OnSession(session, handle, r, counted) /\ counted \in BOOLEAN
  BY <1>1 DEF S!SendAndRecvOnSession
<1> HIDE DEF counted
<1>6. "FETCH" \in Functions \ {"COMMIT", "ROLLBACK"} BY DEF Functions
<1>7. /\ durable' = durable /\ Spares(session, session')
      /\ o.reply = "abort" \/ Intact(session, session')
      /\ o.reply = "abort" => session'.work = {}
      /\ o \in OutcomeSet(Len(told))
  <2>1. Takes(o) BY <1>1
  <2> QED BY <1>4, <1>5, <1>6, <2>1, OnSessionLeaves DEF r
<1>8. Untold BY <1>2 DEF Untold
<1>9. CASE Throw(o.session, o.reply)
  <2>1. pc' = "release" /\ (failure' = "abort" <=> o.reply = "abort") BY <1>9 DEF Throw
  <2>2. failure' # "none"
    <3>1. o.reply \in Replied BY <1>7 DEF OutcomeSet
    <3> QED BY <1>9, <3>1 DEF Throw, Replied
  <2> QED BY <1>2, <1>7, <1>8, <2>1, <2>2, ResultSound
<1>10. CASE o.reply \in {"ok", "more"} /\ (Finish \/ pc' = pc) /\ UNCHANGED failure
  <2>1. failure = "none" BY <1>2 DEF Sound, Known
  <2>2. Intact(session, session') BY <1>7, <1>10
  <2>3. failure' # "abort" BY <1>10, <2>1
  <2> QED BY <1>2, <1>7, <1>8, <1>10, <2>2, <2>3, ResultSound
<1> QED BY <1>3, <1>9, <1>10

LEMMA ReadInsertIdSound ==
  ASSUME Typed, Typed', Sound, ReadInsertId
  PROVE  Sound'
<1> DEFINE r == S!Request("GET_LAST_INSERT_ID", Mode)
           value(o) == IF Baseline(o.session) \in {Unseen, o.session.lastId}
                         THEN None ELSE o.session.lastId
<1>1. PICK o \in S!SendAndRecv(session, r) :
       /\ Takes(o)
       /\ IF o.reply = "ok"
            THEN /\ session' = o.session
                 /\ told' = [told EXCEPT ![id].insertId = value(o), ![id].author = o.session.author]
                 /\ Finish
                 /\ UNCHANGED failure
            ELSE Throw(o.session, o.reply) /\ UNCHANGED told
  BY DEF ReadInsertId
<1>2. /\ pc = "lastId" /\ UNCHANGED <<queue, transaction, transactions, cas, generation>>
  BY DEF ReadInsertId
<1>3. session' = o.session \/ session' = S!DiscardSession(o.session) BY <1>1 DEF Throw
<1>4. "GET_LAST_INSERT_ID" \in Functions \ {"COMMIT", "ROLLBACK"}
      /\ "GET_LAST_INSERT_ID" \notin S!Executing \cup {"PREPARE", "FETCH"}
  BY DEF Functions, S!Executing
<1>5. /\ durable' = durable /\ Spares(session, session') /\ Intact(session, session')
      /\ o.reply # "abort" /\ o \in OutcomeSet(Len(told))
  BY <1>1, <1>3, <1>4, SentLeaves, ModeIs
<1>7. id \in Numbers /\ told[id] \in ToldSet /\ told \in Seq(ToldSet)
  BY <1>2, PcRuns, RunningIs DEF Typed
<1>8. CASE o.reply = "ok"
  <2> DEFINE v == value(o)
             a == o.session.author
             t == [told[id] EXCEPT !.insertId = v, !.author = a]
  <2>1. told' = [told EXCEPT ![id].insertId = v, ![id].author = a] BY <1>1, <1>8
  <2>2. v \in Ids \cup {None} /\ a \in Nat
    BY <1>5, SaneNow DEF OutcomeSet, SessionSet, None
  <2>3. Finish /\ UNCHANGED failure BY <1>1, <1>8
  <2> HIDE DEF v, a, value
  <2>4. t \in ToldSet /\ t.within = told[id].within /\ t.writes = told[id].writes
        /\ t.status = told[id].status
    BY <1>7, <2>2 DEF ToldSet
  <2>5. told' = [told EXCEPT ![id] = t] BY <1>7, <2>1 DEF ToldSet
  <2> HIDE DEF t
  <2>6. Revised(told', id, t) BY <1>7, <2>4, <2>5, ToldOnce
  <2>7. Untold BY <2>4, <2>6 DEF Untold, Revised
  <2>8. failure = "none" BY <1>2 DEF Sound, Known
  <2> QED BY <1>2, <1>5, <2>3, <2>7, <2>8, ResultSound
<1>9. CASE o.reply # "ok"
  <2>1. Throw(o.session, o.reply) /\ UNCHANGED told BY <1>1, <1>9
  <2>2. o.reply \in Replied BY <1>5 DEF OutcomeSet
  <2>3. pc' = "release" /\ failure' # "none" /\ failure' # "abort" BY <1>5, <2>1, <2>2 DEF Throw, Replied
  <2>4. Untold BY <2>1 DEF Untold
  <2> QED BY <1>2, <1>5, <2>3, <2>4, ResultSound
<1> QED BY <1>8, <1>9

LEMMA ReleaseHandleSound ==
  ASSUME Typed, Typed', Sound, ReleaseHandle
  PROVE  Sound'
<1> DEFINE r == S!Request("CLOSE_REQ_HANDLE", Mode)
<1>1. PICK o \in S!ReleaseOnSession(session, handle, r) :
       /\ Takes(o)
       /\ IF failure = "none" /\ ~TransactionEnded(o.session)
            THEN session' = o.session /\ Tell("done")
            ELSE /\ session' = IF failure = "none" THEN S!DiscardSession(o.session) ELSE o.session
                 /\ failure' = IF failure = "none" THEN "lost" ELSE failure
                 /\ pc' = "undo"
                 /\ UNCHANGED <<queue, generation, handle, told>>
  BY DEF ReleaseHandle
<1>2. /\ queue # <<>> /\ pc = "release" /\ UNCHANGED <<transaction, transactions, cas>>
  BY PcRuns DEF ReleaseHandle
<1> HIDE DEF r
<1>3. session' = o.session \/ session' = S!DiscardSession(o.session) BY <1>1
<1>4. "CLOSE_REQ_HANDLE" \in Functions \ {"COMMIT", "ROLLBACK"}
      /\ "CLOSE_REQ_HANDLE" \notin S!Executing \cup {"PREPARE", "FETCH"}
  BY DEF Functions, S!Executing
<1>5. o \in S!OnSession(session, handle, r, FALSE) BY <1>1 DEF S!ReleaseOnSession
<1>6. durable' = durable /\ Spares(session, session') /\ Intact(session, session')
  BY <1>1, <1>3, <1>4, <1>5, OnSessionLeaves DEF r
<1>7. Running.call \in Statements BY <1>2 DEF Sound, Listed, Past
<1>8. CASE failure = "none" /\ ~TransactionEnded(o.session)
  <2>1. Tell("done") BY <1>1, <1>8
  <2>2. Concludes BY <1>2, <1>8, <2>1, TellConcludes DEF Concludes, transaction
  <2>3. Rebinds BY <1>2, <1>8 DEF Rebinds, transaction
  <2>4. Vacates BY <1>2, <1>6, <1>8 DEF Vacates
  <2> QED BY <2>2, <2>3, <2>4, ConcludesSound
<1>9. CASE ~(failure = "none" /\ ~TransactionEnded(o.session))
  <2>1. /\ failure' = (IF failure = "none" THEN "lost" ELSE failure) /\ pc' = "undo"
        /\ UNCHANGED <<queue, generation, told>>
    BY <1>1, <1>9
  <2>2. Stays BY <1>2, <2>1 DEF Stays
  <2>3. Advances BY <1>2, <1>7, <2>1 DEF Advances, Late, Got, Past
  <2>4. SparesSession BY <1>6, <2>1 DEF SparesSession
  <2> QED BY <2>2, <2>3, <2>4, StaysSound
<1> QED BY <1>8, <1>9

\* The transaction of a failed statement of its own is rolled back, or is gone.
LEMMA UndoLeaves ==
  ASSUME Typed, Sound, pc = "undo", Deferred,
         NEW o \in S!SendAndRecvOnSession(session, generation, S!Request("ROLLBACK", Mode))
  PROVE  o.durable = {} /\ Spares(session, o.session) /\ o.session.work = {}
<1> DEFINE r == S!Request("ROLLBACK", Mode)
<1>1. r \in RequestSet(Len(told)) /\ r.fn = "ROLLBACK" /\ Changes(r) = {}
  <2>1. "ROLLBACK" \in Functions BY DEF Functions
  <2>2. Mode \in S!Modes /\ Len(told) \in Nat BY ModeIs, SaneNow
  <2>3. r \in RequestSet(Len(told)) /\ r.fn = "ROLLBACK" /\ r.writes = FALSE
    BY <2>1, <2>2, RequestIs
  <2> QED BY <2>3 DEF Changes
<1>2. o \in S!OnSession(session, generation, r, TRUE) BY DEF S!SendAndRecvOnSession
<1> HIDE DEF r
<1>3. /\ session \in SessionSet(Len(told)) /\ Held(session) /\ session.generation \in Nat
      /\ session.outOfTransactionReplies \in Nat /\ Len(told) \in Nat /\ Sane(Len(told), session)
  BY SaneNow DEF Sane
<1>4. Alone BY DEF Alone, Late
<1>5. session.work # {} => session.generation = generation BY <1>4 DEF Sound, Uncommitted
<1>6. CASE Absent(Len(told), session, generation, o)
  <2>1. o.session = session /\ o.durable = {} BY <1>6 DEF Absent
  <2>2. session.work = {} BY <1>3, <1>5, <1>6 DEF Absent, Held
  <2> QED BY <2>1, <2>2, SameSession
<1>7. CASE Exchanged(Len(told), session, r, o)
  <2>1. /\ o.session \in SessionSet(Len(told)) /\ Held(o.session)
        /\ o.session.generation = session.generation
        /\ session.outOfTransactionReplies \leq o.session.outOfTransactionReplies
        /\ o.ran => session.up /\ session.connected
    BY <1>3, <1>7 DEF Exchanged, Sane, Held
  <2>2. CASE Answered(session, r, o)
    <3>1. o.durable = {} /\ o.session.work = {}
      BY <1>1, <2>2 DEF Answered, Effect, RollsBack, Gone
    <3> QED BY <1>3, <2>1, <2>2, <3>1 DEF Spares, Answered
  <2>3. CASE Unread(session, r, o)
    <3>1. o.durable = {} /\ o.session.work = {} /\ ~o.session.connected /\ ~o.session.up
      BY <1>1, <2>1, <2>3 DEF Unread, Unheard, Held
    <3> QED BY <1>3, <2>1, <3>1 DEF Spares
  <2> QED BY <1>7, <2>2, <2>3 DEF Exchanged
<1> QED BY <1>1, <1>2, <1>3, <1>6, <1>7, OnSessionIs

LEMMA UndoStatementSound ==
  ASSUME Typed, Typed', Sound, UndoStatement
  PROVE  Sound'
<1>1. PICK o \in IF Deferred THEN S!SendAndRecvOnSession(session, generation, S!Request("ROLLBACK", Mode))
                             ELSE {S!Outcome(session, "absent", {}, FALSE)} :
        Takes(o) /\ session' = o.session /\ StatementFails(o.session, failure)
  BY DEF UndoStatement
<1>2. /\ queue # <<>> /\ pc = "undo" /\ UNCHANGED <<transactions, cas>>
  BY PcRuns DEF UndoStatement
<1>3. /\ durable' = durable /\ Spares(session, session') /\ (Alone => session'.work = {})
      /\ ~autoCommit => Intact(session, session')
  <2>1. CASE Deferred
    <3>1. o.durable = {} /\ Spares(session, o.session) /\ o.session.work = {}
      BY <1>1, <1>2, <2>1, UndoLeaves
    <3> QED BY <1>1, <2>1, <3>1, TakesNothing DEF Deferred
  <2>2. CASE ~Deferred
    <3>1. o = S!Outcome(session, "absent", {}, FALSE) BY <1>1, <2>2
    <3>2. o.session = session /\ o.durable = {} BY <3>1 DEF S!Outcome
    <3> QED BY <1>1, <2>2, <3>2, TakesNothing, SameSession DEF Alone
  <2> QED BY <2>1, <2>2
<1>4. StatementFails(session', failure) BY <1>1
<1> QED BY <1>2, <1>3, <1>4, FailsSound

-----------------------------------------------------------------------------
(* The invariant is kept: a statement is prepared or executed.             *)

\* Where the statement gets to, and in which transaction it is.
Sends ==
  /\ pc \in {"send", "execute"} /\ pc' \in {"execute"} \cup Got
  /\ UNCHANGED <<queue, transactions, autoCommit, transactionAbort, cas>>
  /\ Len(told') = Len(told) /\ told'[id].within = Transaction
  /\ \A i \in Numbers :
       /\ told'[i].writes = told[i].writes /\ told'[i].status = told[i].status
       /\ i # id => told'[i].within = told[i].within
  /\ failure' # "none" => pc' = "release"
  /\ Deferred /\ failure' = "none" => pc' # "release"
  /\ pc' = "commit" => Deferred

\* What becomes of the session and of what is durable.
Alters ==
  /\ session'.work \subseteq session.work \cup {id}
  /\ session.generation \leq session'.generation
  /\ session.outOfTransactionReplies \leq session'.outOfTransactionReplies
  /\ session'.generation = session.generation /\ session'.up => session.up
  /\ durable \subseteq durable' /\ durable' \subseteq durable \cup {id}
  /\ ~autoCommit => durable' = durable
  /\ generation' \leq session'.generation
  /\ Deferred /\ session'.work # {} => session'.generation = generation'
  /\ autoCommit /\ ~Deferred => session'.work = {}

\* What the transaction notes of its session.
Binds ==
  /\ autoCommit => bound' = bound /\ endReplies' = endReplies
  /\ ~autoCommit =>
       /\ endReplies' # -1 /\ endReplies' \leq session'.outOfTransactionReplies
       /\ bound' \leq session'.generation
       /\ bound # 0 => bound' = bound /\ endReplies' = endReplies
       /\ failure' = "none" => bound' # 0 /\ generation' = bound' /\ ~transactionAbort
       /\ session'.work # {} =>
            bound' # 0 /\ session'.generation = bound' /\ ~transactionAbort /\ failure' # "abort"

\* The work of the transaction is kept, and with a result the statement's is in it.
Does ==
  /\ /\ ~autoCommit /\ session'.up /\ session'.generation = session.generation
     /\ session'.outOfTransactionReplies = session.outOfTransactionReplies /\ failure' # "abort"
     => session.work \subseteq session'.work
  /\ pc' \in Got /\ failure' = "none" /\ told[id].writes =>
       /\ autoCommit /\ ~Deferred => id \in durable'
       /\ Deferred => id \in session'.work
       /\ ~autoCommit /\ session'.outOfTransactionReplies = endReplies' => id \in session'.work

LEMMA SendsListed ==
  ASSUME Typed, Sound, Sends, Alters
  PROVE  /\ Listed' /\ Numbers' = Numbers /\ id' = id /\ (Deferred' <=> Deferred)
         /\ Transaction' = Transaction /\ (Alone' <=> Deferred)
         /\ id \in Numbers /\ queue # <<>> /\ told[id].status = "waiting"
         /\ failure = "none"
<1>1. queue # <<>> BY PcRuns DEF Sends
<1>2. /\ id \in Numbers /\ id \notin Waiting /\ Waiting \subseteq Numbers
      /\ \A k \in 1..Len(queue) : queue[k].id \in Numbers
      /\ Len(queue) \in Nat /\ Len(queue) > 0 /\ id = queue[1].id
  BY <1>1, RunningIs, WaitingOthers
<1>3. /\ id' = id /\ Running' = Running /\ Numbers' = Numbers /\ Transaction' = Transaction
      /\ Pending' = Pending /\ Waiting' = Waiting /\ (Deferred' <=> Deferred)
  BY DEF Sends, id, Running, Numbers, Transaction, Pending, Waiting, Deferred
<1>4. pc' \in Late /\ pc' \notin {"checkCas", "version"} BY DEF Sends, Late, Got
<1>5. Unsent' = Waiting /\ (Alone' <=> Deferred) BY <1>3, <1>4 DEF Unsent, Alone
<1>6. Pending \subseteq Numbers /\ Waiting \subseteq Pending /\ id \in Pending
      /\ Waiting \subseteq Unsent
  BY <1>2 DEF Pending, Waiting, Unsent
<1>7. Transaction \in 0..Len(transactions) BY WaysAre DEF Transaction
<1> USE DEF Sound, Listed
<1>8. \A i \in Numbers' : (told[i].within \in 0..Len(transactions))'
  BY <1>3, <1>7 DEF Sends
<1>9. \A i \in Pending' : (told[i].status = "waiting")' BY <1>3, <1>6 DEF Sends
<1>10. \A i \in Unsent' : (told[i].within = 0 /\ i \notin session.work /\ i \notin durable)'
  BY <1>2, <1>5, <1>6 DEF Sends, Alters
<1>11. (pc \in Late => told[id].within = Transaction)' BY <1>3 DEF Sends
<1>12. ASSUME NEW k \in (1..Len(queue))'
      PROVE  (/\ told[queue[k].id].writes <=> queue[k].sql # "select"
              /\ queue[k].call \in Statements \/ queue[k].sql = "select")'
  BY <1>2 DEF Sends
<1>13. (/\ pc \in Past \cup {"baseline", "start"} => Running.call \in Statements
        /\ pc \in {"checkCas", "version"} => Running.call = "ping")'
  BY <1>3, <1>4 DEF Sends, Past
<1>14. Listed' BY <1>8, <1>9, <1>10, <1>11, <1>12, <1>13
<1>15. told[id].status = "waiting" BY <1>6
<1>16. failure = "none" BY DEF Known, Sends
<1> QED BY <1>1, <1>2, <1>3, <1>5, <1>14, <1>15, <1>16

LEMMA SendsKnown ==
  ASSUME Typed, Typed', Sound, Sends, Alters, Binds, (Deferred' <=> Deferred)
  PROVE  Known'
<1>1. /\ autoCommit' = autoCommit /\ transactionAbort' = transactionAbort
      /\ transactions' = transactions /\ cas' = cas
      /\ pc' \in Late /\ pc' \in {"execute"} \cup Got
  BY DEF Sends, Late, Got
<1> USE DEF Sound, Known
<1>2. (autoCommit => bound = 0 /\ endReplies = -1 /\ ~transactionAbort)' BY <1>1 DEF Binds
<1>3. (~autoCommit => cas # 0)' BY <1>1
<1>4. (\A k \in 1..Len(transactions) :
         transactions[k] = "open" <=> ~autoCommit /\ k = Len(transactions))'
  BY <1>1
<1>5. bound' \leq session'.generation /\ endReplies' \leq session'.outOfTransactionReplies
  <2>1. session'.generation \in Nat /\ session'.outOfTransactionReplies \in Nat
    BY DEF Typed, Sane, SessionSet
  <2>2. CASE autoCommit
    <3>1. bound' = 0 /\ endReplies' = -1 BY <1>1, <1>2, <2>2
    <3> QED BY <2>1, <3>1
  <2>3. CASE ~autoCommit BY <2>3 DEF Binds
  <2> QED BY <2>2, <2>3
<1>6. (~autoCommit /\ bound # 0 =>
         /\ endReplies # -1 \/ ~session.connected \/ session.generation # bound
         /\ endReplies # -1 \/ pc \notin Past)'
  BY <1>1 DEF Binds
<1>7. (~autoCommit /\ pc \in {"execute", "fetch", "lastId"} =>
         bound # 0 /\ generation = bound /\ ~transactionAbort)'
  BY <1>1 DEF Binds, Sends
<1>8. (pc = "commit" => Deferred)' BY DEF Sends
<1>9. (failure # "none" => pc \in {"releaseProbe", "release", "undo"})' BY DEF Sends
<1>10. (pc \in Late => generation \leq session.generation)' BY DEF Alters
<1> QED BY <1>2, <1>3, <1>4, <1>5, <1>6, <1>7, <1>8, <1>9, <1>10

LEMMA SendsUncommitted ==
  ASSUME Typed, Sound, Sends, Alters, Binds, id' = id, (Deferred' <=> Deferred),
         Transaction' = Transaction, (Alone' <=> Deferred), id \in Numbers
  PROVE  Uncommitted'
<1>1. autoCommit' = autoCommit /\ transactionAbort' = transactionAbort BY DEF Sends
<1>2. session.work \subseteq Numbers BY SaneNow DEF SessionSet, Numbers
<1> USE DEF Sound, Uncommitted
<1>3. (autoCommit /\ ~Alone => session.work = {})' BY <1>1 DEF Alters
<1>4. ASSUME Alone'
      PROVE  /\ session'.work \subseteq {id}
             /\ session'.work # {} => session'.generation = generation'
             /\ pc' = "release" /\ failure' = "none" => session'.work = {}
  <2>1. Deferred /\ autoCommit BY <1>4 DEF Deferred
  <2>2. session.work \subseteq {id} BY <2>1 DEF Alone
  <2> QED BY <2>1, <2>2 DEF Alters, Sends
<1>5. ASSUME ~autoCommit
      PROVE  /\ \A i \in session'.work : told'[i].within = Transaction
             /\ session'.work # {} => bound' # 0 /\ session'.generation = bound' /\ ~Aborting'
  <2>1. \A i \in session'.work : told'[i].within = Transaction
    BY <1>2, <1>5 DEF Alters, Sends
  <2>2. session'.work # {} => bound' # 0 /\ session'.generation = bound' /\ ~Aborting'
    BY <1>1, <1>5 DEF Binds, Aborting
  <2> QED BY <2>1, <2>2
<1> QED BY <1>1, <1>3, <1>4, <1>5

\* Nobody but the running statement becomes good, and it is not told yet.
LEMMA SendsGood ==
  ASSUME Sends, id' = id, told[id].status = "waiting", NEW i \in Numbers, id \in Numbers
  PROVE  /\ Good(i)' /\ i # id => Good(i)
         /\ Good(i)' /\ i = id => pc' \in Got /\ failure' = "none" /\ told[id].writes
         /\ Acknowledged(i)' <=> Acknowledged(i)
         /\ Acknowledged(i)' => i # id
BY DEF Sends, Good, Acknowledged

LEMMA SendsInSession ==
  ASSUME Typed, Typed', Sound, Sends, Alters, Binds, Does, id' = id, Numbers' = Numbers,
         Transaction' = Transaction, id \in Numbers, told[id].status = "waiting", failure = "none"
  PROVE  InSession'
<1>1. autoCommit' = autoCommit /\ transactionAbort' = transactionAbort BY DEF Sends
<1>2. /\ session.generation \in Nat /\ session'.generation \in Nat
      /\ session.outOfTransactionReplies \in Nat /\ session'.outOfTransactionReplies \in Nat
      /\ bound \in Nat /\ endReplies \in Nat \cup {-1}
  BY WorkIsHeld, SaneNow DEF Typed, Sane, SessionSet, bound, endReplies
<1>3. bound \leq session.generation /\ endReplies \leq session.outOfTransactionReplies
  BY DEF Sound, Known
<1> SUFFICES ASSUME NEW i \in Numbers, ~autoCommit, told'[i].within = Transaction, Good(i)'
             PROVE  bound' # 0 /\ endReplies' # -1 /\ (Healthy' => i \in session'.work)
  BY <1>1 DEF InSession
<1>4. CASE i = id
  <2>1. pc' \in Got /\ failure' = "none" /\ told[id].writes BY <1>4, SendsGood
  <2>2. bound' # 0 /\ endReplies' # -1 BY <2>1 DEF Binds
  <2>3. ASSUME Healthy' PROVE id \in session'.work
    BY <2>1, <2>3 DEF Does, Healthy
  <2> QED BY <1>4, <2>2, <2>3
<1>5. CASE i # id
  <2>1. Good(i) /\ told[i].within = Transaction BY <1>5, SendsGood DEF Sends
  <2>2. bound # 0 /\ endReplies # -1 /\ (Healthy => i \in session.work)
    BY <2>1 DEF Sound, InSession
  <2>3. bound' = bound /\ endReplies' = endReplies BY <2>2 DEF Binds
  <2>4. ASSUME Healthy' PROVE i \in session'.work
    <3>1. /\ session'.up /\ session'.generation = bound
          /\ session'.outOfTransactionReplies = endReplies /\ ~transactionAbort /\ failure' # "abort"
      BY <1>1, <2>3, <2>4 DEF Healthy, Aborting
    <3>2. session.generation = bound /\ session.outOfTransactionReplies = endReplies
      BY <1>2, <1>3, <3>1 DEF Alters
    <3>3. session.up /\ session.work \subseteq session'.work BY <3>1, <3>2 DEF Does, Alters
    <3>4. Healthy BY <3>1, <3>2, <3>3 DEF Healthy, Aborting
    <3> QED BY <2>2, <3>3, <3>4
  <2> QED BY <2>2, <2>3, <2>4
<1> QED BY <1>4, <1>5

LEMMA SendsOutcomes ==
  ASSUME Typed, Sound, Sends, Alters, Binds, Does, id' = id, Numbers' = Numbers,
         (Alone' <=> Deferred), Transaction' = Transaction,
         id \in Numbers, told[id].status = "waiting", queue # <<>>
  PROVE  OnItsOwn' /\ Outcomes'
<1>1. /\ transactions' = transactions /\ durable \subseteq Numbers
      /\ durable \subseteq durable' /\ durable' \subseteq durable \cup {id}
      /\ \A i \in Numbers : i # id => told'[i].within = told[i].within
      /\ told'[id].within = Transaction
  BY DEF Alters, Sends, Typed
<1>2. Transaction = 0 <=> autoCommit BY WaysAre DEF Transaction
<1>3. ASSUME NEW i \in Numbers, told'[i].within = 0, Good(i)'
      PROVE  \/ i \in durable'
             \/ /\ Alone' /\ i = id /\ pc' \in {"fetch", "lastId", "commit"}
                /\ session'.up /\ session'.generation = generation' => i \in session'.work
  <2>1. CASE i = id
    <3>1. /\ pc' \in Got /\ failure' = "none" /\ told[id].writes /\ autoCommit
      BY <1>1, <1>2, <1>3, <2>1, SendsGood
    <3>2. CASE ~Deferred BY <2>1, <3>1, <3>2 DEF Does
    <3>3. CASE Deferred
      <4>1. pc' \in {"fetch", "lastId", "commit"} BY <3>1, <3>3 DEF Sends, Got
      <4>2. id \in session'.work BY <3>1, <3>3 DEF Does
      <4> QED BY <2>1, <3>3, <4>1, <4>2
    <3> QED BY <3>2, <3>3
  <2>2. CASE i # id
    <3>1. Good(i) /\ told[i].within = 0 BY <1>1, <1>3, <2>2, SendsGood
    <3> QED BY <1>1, <2>2, <3>1 DEF Sound, OnItsOwn
  <2> QED BY <2>1, <2>2
<1>4. OnItsOwn' BY <1>3 DEF OnItsOwn
<1> DEFINE outcome(i) == transactions[told[i].within]
           outcome2(i) == transactions[told'[i].within]
<1>5. \A i \in durable : told[i].within # 0 => outcome(i) \notin {"open", "rolled back"}
  BY DEF Sound, Outcomes
<1>6. ASSUME NEW i \in durable', told'[i].within # 0
      PROVE  i # id /\ i \in durable
  <2>1. CASE autoCommit BY <1>1, <1>2, <1>6, <2>1
  <2>2. CASE ~autoCommit
    <3>1. durable' = durable BY <2>2 DEF Alters
    <3>2. id \notin durable
      <4>1. CASE pc = "send"
        <5>1. id \in Pending BY RunningIs DEF Pending
        <5> QED BY <4>1, <5>1 DEF Sound, Listed, Unsent, Late
      <4>2. CASE pc = "execute"
        <5>1. told[id].within = Transaction BY <4>2 DEF Sound, Listed, Late
        <5>2. Transaction \in 1..Len(transactions) /\ Transaction = Len(transactions)
          BY <2>2, WaysAre DEF Transaction
        <5>3. transactions[Transaction] = "open" BY <2>2, <5>2 DEF Sound, Known
        <5>4. Transaction # 0 BY <1>2, <2>2
        <5>5. outcome(id) = "open" /\ told[id].within # 0 BY <5>1, <5>3, <5>4
        <5> HIDE DEF outcome
        <5> QED BY <1>5, <5>5
      <4> QED BY <4>1, <4>2 DEF Sends
    <3> QED BY <1>6, <3>1, <3>2
  <2> QED BY <2>1, <2>2
<1>7. \A i \in Numbers :
        told[i].within # 0 /\ outcome(i) = "committed" /\ Acknowledged(i) => i \in durable
  BY DEF Sound, Outcomes
<1>8. \A i \in durable, j \in Numbers :
        told[i].within # 0 /\ told[j].within = told[i].within /\ Acknowledged(j) => j \in durable
  BY DEF Sound, Outcomes, AllOrNothing
<1>9. \A i \in durable' : told'[i].within # 0 => outcome2(i) \notin {"open", "rolled back"}
  BY <1>1, <1>5, <1>6
<1>10. \A i \in Numbers :
        told'[i].within # 0 /\ outcome2(i) = "committed" /\ Acknowledged(i)' => i \in durable'
  BY <1>1, <1>7, SendsGood
<1>11. \A i \in durable', j \in Numbers :
        told'[i].within # 0 /\ told'[j].within = told'[i].within /\ Acknowledged(j)' => j \in durable'
  BY <1>1, <1>6, <1>8, SendsGood
<1>12. AllOrNothing' BY <1>11 DEF AllOrNothing, Numbers, Sends
<1> QED BY <1>1, <1>4, <1>9, <1>10, <1>12 DEF Outcomes

LEMMA SendsSound ==
  ASSUME Typed, Typed', Sound, Sends, Alters, Binds, Does
  PROVE  Sound'
<1>1. /\ Listed' /\ Numbers' = Numbers /\ id' = id /\ (Deferred' <=> Deferred)
      /\ Transaction' = Transaction /\ (Alone' <=> Deferred)
      /\ id \in Numbers /\ queue # <<>> /\ told[id].status = "waiting"
      /\ failure = "none"
  BY SendsListed
<1>2. Known' /\ Uncommitted' BY <1>1, SendsKnown, SendsUncommitted
<1>3. InSession' BY <1>1, SendsInSession
<1>4. OnItsOwn' /\ Outcomes' BY <1>1, SendsOutcomes
<1> QED BY <1>1, <1>2, <1>3, <1>4 DEF Sound

-----------------------------------------------------------------------------
(* Preparing and executing are such steps.                                 *)

Sending == {"PREPARE", "PREPARE_AND_EXECUTE", "EXECUTE"}

\* What the session and the server make of the statement.
Did(fn, o) ==
  /\ o.session.work \subseteq session.work \cup {id} /\ o.durable \subseteq {id}
  /\ ~autoCommit \/ Deferred => o.durable = {}
  /\ autoCommit /\ ~Deferred => o.session.work = {}
  /\ o.reply \in {"lost", "abort"} => o.session.work = {}
  /\ o.reply = "lost" => ~o.session.up
  /\ /\ ~autoCommit /\ o.session.up /\ o.reply # "abort"
     /\ o.session.outOfTransactionReplies = session.outOfTransactionReplies
     => session.work \subseteq o.session.work
  /\ o.reply \in {"ok", "more"} /\ Running.sql # "select" /\ fn \in S!Executing =>
       /\ autoCommit /\ ~Deferred => id \in o.durable
       /\ Deferred => id \in o.session.work
       /\ ~autoCommit /\ o.session.outOfTransactionReplies \leq session.outOfTransactionReplies
            => id \in o.session.work

LEMMA StatementDid ==
  ASSUME Typed, queue # <<>>, NEW fn \in Sending, autoCommit /\ ~Deferred => session.work = {},
         NEW o \in OutcomeSet(Len(told)), Held(o.session),
         \/ Answered(session, Statement(fn), o) \/ Unread(session, Statement(fn), o)
  PROVE  Did(fn, o)
<1> DEFINE r == Statement(fn)
<1>1. /\ r.fn = fn /\ r.mode = Mode /\ r.id = id /\ (r.writes <=> Running.sql # "select")
  BY StatementIs DEF Functions, Sending
<1> HIDE DEF r
<1>2. fn \notin {"COMMIT", "ROLLBACK"} BY DEF Sending
<1>3. /\ Changes(r) \subseteq {id}
      /\ Running.sql # "select" /\ fn \in S!Executing => Changes(r) = {id}
  BY <1>1 DEF Changes
<1>4. /\ Mode = "autocommit" <=> autoCommit /\ ~Deferred
      /\ Mode = "transaction" <=> ~autoCommit
      /\ Deferred => autoCommit
  BY DEF Mode, Deferred
<1>5. /\ session.outOfTransactionReplies \in Nat /\ o.session.outOfTransactionReplies \in Nat
  BY SaneNow DEF OutcomeSet, SessionSet
<1>6. CASE Answered(session, r, o) /\ Gone(session, r, o)
  BY <1>1, <1>4, <1>5, <1>6 DEF Gone, Did
<1>7. CASE Answered(session, r, o) /\ Effect(session, r, o)
  <2>1. o.reply # "lost" BY <1>7 DEF Answered
  <2>2. CASE Mode = "autocommit"
    <3>1. Autocommits(session, r, o) BY <1>1, <1>2, <1>7, <2>2 DEF Effect
    <3> QED BY <1>3, <1>4, <2>1, <2>2, <3>1 DEF Autocommits, Did
  <2>3. CASE Mode # "autocommit"
    <3>1. Works(session, r, o) BY <1>1, <1>2, <1>7, <2>3 DEF Effect
    <3> QED BY <1>3, <1>4, <2>1, <2>3, <3>1 DEF Works, Did
  <2> QED BY <2>2, <2>3
<1>8. CASE Unread(session, r, o)
  <2>1. o.reply = "lost" /\ o.session.work = {} /\ ~o.session.up BY <1>8 DEF Unread, Held
  <2>2. o.durable \subseteq {id} /\ (~autoCommit \/ Deferred => o.durable = {})
    BY <1>1, <1>2, <1>3, <1>4, <1>8 DEF Unread, Unheard
  <2> QED BY <1>4, <2>1, <2>2 DEF Did
<1> QED BY <1>6, <1>7, <1>8 DEF Answered, r

\* What the session is afterwards: that of the outcome, or what is left of it.
Leaves(o) ==
  \/ session' = o.session
  \/ /\ session'.work = {} /\ ~session'.up /\ ~session'.connected
     /\ session'.generation = o.session.generation
     /\ session'.outOfTransactionReplies = o.session.outOfTransactionReplies

LEMMA LeavesIs ==
  ASSUME Typed, NEW o \in OutcomeSet(Len(told)),
         session' = o.session \/ session' = S!DiscardSession(o.session)
  PROVE  Leaves(o)
<1>1. Len(told) \in Nat /\ o.session \in SessionSet(Len(told)) BY SaneNow DEF OutcomeSet
<1>2. Dropped(Len(told), o.session, S!DiscardSession(o.session), 1) BY <1>1, DiscardedIs
<1> DEFINE t == S!DiscardSession(o.session)
<1>3. /\ t.work = {} /\ ~t.up /\ ~t.connected /\ t.generation = o.session.generation
      /\ t.outOfTransactionReplies = o.session.outOfTransactionReplies
  BY <1>2 DEF Dropped, Sane, Held
<1> HIDE DEF t
<1> QED BY <1>3 DEF Leaves, t

\* The statement goes on with its handle, or with what was answered.
GoesOn(fn) ==
  \/ fn = "PREPARE" /\ pc' = "execute"
  \/ fn \in S!Executing /\ pc' \in {"fetch", "lastId", IF Deferred THEN "commit" ELSE "release"}

\* How the statement proceeds with outcome o.
TakesEffect(fn, o) ==
  /\ Leaves(o)
  /\ \/ /\ failure' = "none" /\ o.reply \in {"ok", "more"} /\ session' = o.session
        /\ GoesOn(fn)
     \/ /\ failure' # "none" /\ pc' = "release"
        /\ o.reply = "abort" => failure' = "abort" \/ ~session'.up
        /\ failure' = "abort" => o.reply = "abort"

LEMMA ThrowGoes ==
  ASSUME Typed, NEW fn, NEW o \in OutcomeSet(Len(told)),
         \/ Throw(o.session, o.reply) \/ (Throw(o.session, "lost") /\ o.reply = "lost")
         \/ Throw(S!DiscardSession(o.session), "lost")
  PROVE  TakesEffect(fn, o) /\ failure' # "none"
<1>1. o.reply \in Replied BY DEF OutcomeSet
<1>2. failure' # "none" /\ pc' = "release" BY <1>1 DEF Throw, Replied
<1>3. CASE Throw(S!DiscardSession(o.session), "lost")
  <2>1. session' = S!DiscardSession(o.session) /\ failure' = "lost" BY <1>3 DEF Throw
  <2>2. Leaves(o) BY <2>1, LeavesIs
  <2>3. ~session'.up
    <3>1. Len(told) \in Nat /\ o.session \in SessionSet(Len(told)) BY SaneNow DEF OutcomeSet
    <3> QED BY <2>1, <3>1, DiscardedIs DEF Dropped, Sane, Held
  <2> QED BY <1>2, <2>1, <2>2, <2>3 DEF TakesEffect
<1>4. CASE Throw(o.session, o.reply) \/ (Throw(o.session, "lost") /\ o.reply = "lost")
  <2>1. session' = o.session \/ session' = S!DiscardSession(o.session) BY <1>4 DEF Throw
  <2>2. o.reply = "abort" <=> failure' = "abort" BY <1>4 DEF Throw
  <2> QED BY <1>2, <2>1, <2>2, LeavesIs DEF TakesEffect
<1> QED BY <1>3, <1>4

LEMMA ResultGoes ==
  ASSUME Typed, failure = "none", NEW fn \in S!Executing, NEW o \in OutcomeSet(Len(told)),
         o.reply \in {"ok", "more"}, UseResult(o.session, o.reply)
  PROVE  TakesEffect(fn, o)
BY DEF UseResult, Finish, TakesEffect, GoesOn, Leaves

\* The session of the outcome follows the one there was.
Follows(o) ==
  /\ session.generation \leq o.session.generation
  /\ session.outOfTransactionReplies \leq o.session.outOfTransactionReplies
  /\ o.session.generation = session.generation /\ o.session.up => session.up
  /\ generation' \leq o.session.generation
  /\ Deferred /\ o.session.work # {} => o.session.generation = generation'

LEMMA EffectAlters ==
  ASSUME Typed, NEW fn, NEW o \in OutcomeSet(Len(told)), Did(fn, o), Takes(o), TakesEffect(fn, o),
         Follows(o)
  PROVE  Alters
<1>1. durable' = durable \cup o.durable BY DEF Takes
<1>2. /\ session'.work = o.session.work \/ session'.work = {}
      /\ session'.generation = o.session.generation
      /\ session'.outOfTransactionReplies = o.session.outOfTransactionReplies
      /\ session'.up => o.session.up
  BY DEF TakesEffect, Leaves
<1>3. Deferred => autoCommit BY DEF Deferred
<1>4. durable \subseteq durable' /\ durable' \subseteq durable \cup {id} /\ (~autoCommit => durable' = durable)
  BY <1>1 DEF Did
<1> QED BY <1>2, <1>3, <1>4 DEF Did, Follows, Alters

LEMMA EffectDoes ==
  ASSUME Typed, NEW fn \in Sending, NEW o \in OutcomeSet(Len(told)), Did(fn, o), Takes(o),
         TakesEffect(fn, o), Follows(o), told[id].writes <=> Running.sql # "select",
         endReplies' \leq session.outOfTransactionReplies
  PROVE  Does
<1>1. /\ session.outOfTransactionReplies \in Nat /\ o.session.outOfTransactionReplies \in Nat
  BY SaneNow DEF OutcomeSet, SessionSet
<1>2. durable' = durable \cup o.durable BY DEF Takes
<1>3. ASSUME ~autoCommit, session'.up, failure' # "abort",
             session'.outOfTransactionReplies = session.outOfTransactionReplies
      PROVE  session.work \subseteq session'.work
  <2>1. session' = o.session BY <1>3 DEF TakesEffect, Leaves
  <2>2. CASE o.reply # "abort" BY <1>3, <2>1, <2>2 DEF Did
  <2>3. CASE o.reply = "abort" BY <1>3, <2>3 DEF TakesEffect
  <2> QED BY <2>2, <2>3
<1>4. ASSUME pc' \in Got, failure' = "none", told[id].writes
      PROVE  /\ autoCommit /\ ~Deferred => id \in durable'
             /\ Deferred => id \in session'.work
             /\ ~autoCommit /\ session'.outOfTransactionReplies = endReplies' => id \in session'.work
  <2>1. o.reply \in {"ok", "more"} /\ session' = o.session /\ fn \in S!Executing
    BY <1>4 DEF TakesEffect, GoesOn, Got
  <2> QED BY <1>1, <1>2, <1>4, <2>1 DEF Did
<1> QED BY <1>3, <1>4 DEF Does

LEMMA EffectSends ==
  ASSUME Typed, queue # <<>>, pc \in {"send", "execute"}, NEW fn, NEW o, TakesEffect(fn, o),
         UNCHANGED <<queue, transactions, autoCommit, transactionAbort, cas>>,
         NEW t, Revised(told', id, t), t.within = Transaction, t.writes = told[id].writes,
         t.status = told[id].status
  PROVE  Sends
<1>1. id \in Numbers BY RunningIs
<1>2. /\ Len(told') = Len(told) /\ told'[id].within = Transaction
      /\ \A i \in Numbers :
           /\ told'[i].writes = told[i].writes /\ told'[i].status = told[i].status
           /\ i # id => told'[i].within = told[i].within
  BY <1>1 DEF Revised
<1>3. /\ pc' \in {"execute"} \cup Got
      /\ failure' # "none" => pc' = "release"
      /\ Deferred /\ failure' = "none" => pc' # "release"
      /\ pc' = "commit" => Deferred
  BY DEF TakesEffect, GoesOn, Got
<1> QED BY <1>2, <1>3 DEF Sends

\* What is known of the running statement when it is sent.
LEMMA SendingIs ==
  ASSUME Typed, Sound, pc \in {"send", "execute"}
  PROVE  /\ queue # <<>> /\ failure = "none" /\ (told[id].writes <=> Running.sql # "select")
         /\ autoCommit /\ ~Deferred => session.work = {}
         /\ autoCommit => bound = 0 /\ endReplies = -1
         /\ bound # 0 /\ ~autoCommit => endReplies # -1
         /\ bound \leq session.generation /\ endReplies \leq session.outOfTransactionReplies
<1>1. queue # <<>> BY PcRuns
<1>2. id = queue[1].id /\ Running = queue[1] /\ 1 \in 1..Len(queue) BY <1>1, RunningIs
<1>3. told[id].writes <=> Running.sql # "select" BY <1>2 DEF Sound, Listed
<1>4. autoCommit /\ ~Deferred => session.work = {} BY DEF Sound, Uncommitted, Alone
<1>5. failure = "none" BY DEF Sound, Known
<1> QED BY <1>1, <1>3, <1>4, <1>5 DEF Sound, Known, Past

LEMMA SendStatementSound ==
  ASSUME Typed, Typed', Sound, SendStatement
  PROVE  Sound'
<1> DEFINE first == ~autoCommit /\ transactionGeneration = 0
           fn == IF Running.binds THEN "PREPARE" ELSE "PREPARE_AND_EXECUTE"
           r == Statement(fn)
           ran(o) == IF Running.binds THEN told[id].ranOn ELSE Place(o)
           escaped == IF Running.escapes /\ ~Running.binds
                        THEN <<cas, backslashModeGeneration>> ELSE told[id].boundOn
<1>1. pc = "send" BY DEF SendStatement
<1>2. /\ queue # <<>> /\ failure = "none" /\ (told[id].writes <=> Running.sql # "select")
      /\ autoCommit /\ ~Deferred => session.work = {}
      /\ autoCommit => bound = 0 /\ endReplies = -1
      /\ bound # 0 /\ ~autoCommit => endReplies # -1
      /\ bound \leq session.generation /\ endReplies \leq session.outOfTransactionReplies
  BY <1>1, SendingIs
<1>3. id \in Numbers /\ told[id] \in ToldSet /\ told \in Seq(ToldSet) BY <1>2, RunningIs DEF Typed
<1>4. fn \in Sending /\ fn \in Functions /\ (fn = "PREPARE" \/ fn \in S!Executing)
      /\ (fn = "PREPARE" <=> Running.binds)
  BY DEF Sending, Functions, S!Executing
<1>5. r \in RequestSet(Len(told)) BY <1>2, <1>4, StatementIs, Zenon
<1>6. /\ UNCHANGED <<cas, autoCommit, transactionAbort, queue, transactions>>
      /\ endReplies' = IF first THEN session.outOfTransactionReplies ELSE endReplies
  BY DEF SendStatement, endReplies
<1>7. PICK o \in S!SendAndRecv(session, r) :
        /\ Takes(o)
        /\ told' = [told EXCEPT ![id].within = Transaction, ![id].ranOn = ran(o), ![id].boundOn = escaped]
        /\ generation' = IF o.reply = "lost" THEN session.generation ELSE o.session.generation
        /\ bound' = IF first /\ o.reply # "lost" THEN o.session.generation ELSE bound
        /\ CASE o.reply = "lost" -> Throw(o.session, "lost")
             [] o.reply # "lost" /\ (\/ SessionLost(o.session, bound') \/ Ended(o.session, endReplies'))
                  -> Throw(S!DiscardSession(o.session), "lost")
             [] OTHER ->
                  IF o.reply \notin {"ok", "more"} THEN Throw(o.session, o.reply)
                  ELSE IF Running.binds
                         THEN session' = o.session /\ pc' = "execute" /\ UNCHANGED failure
                         ELSE UseResult(o.session, o.reply)
  BY DEF SendStatement, bound, endReplies
<1> DEFINE Refuses == \/ Throw(o.session, o.reply) \/ (Throw(o.session, "lost") /\ o.reply = "lost")
                      \/ Throw(S!DiscardSession(o.session), "lost")
           Result == /\ o.reply \in {"ok", "more"}
                     /\ IF Running.binds THEN session' = o.session /\ pc' = "execute" /\ UNCHANGED failure
                                         ELSE UseResult(o.session, o.reply)
           Holds == /\ o.reply # "lost" /\ ~SessionLost(o.session, bound')
                    /\ ~Ended(o.session, endReplies')
<1>8. \/ Throw(o.session, "lost") /\ o.reply = "lost"
      \/ Throw(S!DiscardSession(o.session), "lost")
      \/ Holds /\ (Throw(o.session, o.reply) \/ Result)
  <2> HIDE DEF r, ran, escaped
  <2> QED BY <1>7, Zenon
<1>9. session' = o.session \/ session' = S!DiscardSession(o.session)
  BY <1>8 DEF Throw, UseResult
<1> HIDE DEF r
<1>10. Sent(Len(told), session, r, o) /\ o \in OutcomeSet(Len(told)) BY <1>5, <1>7, <1>9, SentStep
<1>11. TakesEffect(fn, o)
  <2>1. CASE Refuses BY <1>10, <2>1, ThrowGoes
  <2>2. CASE Result /\ ~Running.binds
    <3> HIDE DEF fn
    <3> QED BY <1>2, <1>4, <1>10, <2>2, ResultGoes
  <2>3. CASE Result /\ Running.binds BY <1>2, <2>3 DEF TakesEffect, GoesOn, Leaves
  <2> QED BY <1>8, <2>1, <2>2, <2>3
<1> HIDE DEF fn
<1>12. /\ o.session \in SessionSet(Len(told)) /\ Held(o.session) /\ o.session.generation \in Nat
       /\ o.session.outOfTransactionReplies \in Nat /\ Sane(Len(told), o.session)
       /\ session.generation \in Nat /\ session.outOfTransactionReplies \in Nat
       /\ Answered(session, r, o) \/ Unread(session, r, o)
  BY <1>10, SaneNow DEF Sent, Sane, OutcomeSet, SessionSet
<1>13. Did(fn, o) BY <1>2, <1>4, <1>10, <1>12, StatementDid DEF r
<1>14. o.reply = "lost" => o.session.work = {} BY <1>13 DEF Did
<1>15. Follows(o)
  <2>1. /\ session.outOfTransactionReplies \leq o.session.outOfTransactionReplies
        /\ session.generation \leq o.session.generation
    BY <1>10, <1>12 DEF Sent, Later
  <2>2. o.session.generation = session.generation /\ o.session.up => session.up
    BY <1>10, <1>13 DEF Sent, Answered, Unread, Did
  <2> QED BY <1>7, <1>12, <1>14, <2>1, <2>2 DEF Follows
<1>16. Alters BY <1>7, <1>10, <1>11, <1>13, <1>15, EffectAlters
<1>17. endReplies' \leq session.outOfTransactionReplies BY <1>2, <1>6, <1>12
<1>18. Does BY <1>2, <1>4, <1>7, <1>10, <1>11, <1>13, <1>15, <1>17, EffectDoes
<1>19. autoCommit => bound' = bound /\ endReplies' = endReplies BY <1>6, <1>7
<1>20. /\ session'.generation = o.session.generation
       /\ session'.outOfTransactionReplies = o.session.outOfTransactionReplies
       /\ session'.work # {} => session' = o.session
  BY <1>11 DEF TakesEffect, Leaves
<1>21. ASSUME ~autoCommit
       PROVE  /\ endReplies' # -1 /\ endReplies' \leq session'.outOfTransactionReplies
              /\ bound' \leq session'.generation
              /\ bound # 0 => bound' = bound /\ endReplies' = endReplies
              /\ o.reply # "lost" /\ o.session.connected => bound' # 0
  <2> DEFINE before == session.outOfTransactionReplies
             after == o.session.outOfTransactionReplies
             older == session.generation
             newer == o.session.generation
  <2>0. /\ bound \in Nat /\ endReplies \in Nat \cup {-1} /\ endReplies' \in Nat \cup {-1}
        /\ before \in Nat /\ after \in Nat /\ before \leq after
        /\ older \in Nat /\ newer \in Nat /\ older \leq newer
    BY <1>12, <1>15, WaysAre DEF Follows, bound, endReplies, Typed, OthersTyped, TransactionTyped
  <2>1. endReplies' # -1 /\ endReplies' \leq session'.outOfTransactionReplies
    <3>1. endReplies' # -1
      <4>1. CASE first BY <1>6, <2>0, <4>1
      <4>2. CASE ~first BY <1>2, <1>6, <1>21, <4>2 DEF bound
      <4> QED BY <4>1, <4>2
    <3>2. endReplies' \leq before BY <1>17
    <3> HIDE DEF before, after
    <3>3. endReplies' \leq after BY <2>0, <3>2
    <3> QED BY <1>20, <3>1, <3>3 DEF after
  <2>2. bound' \leq session'.generation
    <3>1. bound \leq older /\ (bound' = bound \/ bound' = newer) BY <1>2, <1>7
    <3> HIDE DEF older, newer
    <3>2. bound' \leq newer BY <2>0, <3>1
    <3> QED BY <1>20, <3>2 DEF newer
  <2>3. bound # 0 => bound' = bound /\ endReplies' = endReplies BY <1>6, <1>7 DEF bound
  <2>4. o.reply # "lost" /\ o.session.connected => bound' # 0
    BY <1>7, <1>12, <1>21 DEF bound, Sane
  <2> QED BY <2>1, <2>2, <2>3, <2>4
<1>22. Holds /\ ~autoCommit =>
         /\ o.session.connected /\ ~transactionAbort /\ (bound' # 0 => o.session.generation = bound')
         /\ generation' = o.session.generation
  BY <1>7 DEF SessionLost
<1>23. ASSUME ~autoCommit, failure' = "none"
       PROVE  bound' # 0 /\ generation' = bound' /\ ~transactionAbort
  <2>1. Holds
    <3>1. ~Refuses BY <1>10, <1>23, ThrowGoes
    <3> QED BY <1>8, <3>1
  <2> QED BY <1>21, <1>22, <1>23, <2>1
<1>24. ASSUME ~autoCommit, session'.work # {}
       PROVE  bound' # 0 /\ session'.generation = bound' /\ ~transactionAbort /\ failure' # "abort"
  <2>1. o.session.work # {} /\ session' = o.session BY <1>20, <1>24
  <2>2. o.reply # "lost" /\ o.reply # "abort" BY <1>13, <2>1 DEF Did
  <2>3. failure' # "abort"
    <3>1. CASE failure' = "none" BY <3>1
    <3>2. CASE failure' # "none"
      <4>1. failure' = "abort" => o.reply = "abort" BY <1>11, <3>2 DEF TakesEffect
      <4> QED BY <2>2, <4>1
    <3> QED BY <3>1, <3>2
  <2>4. ~Throw(S!DiscardSession(o.session), "lost")
    <3>1. Len(told) \in Nat BY SaneNow
    <3> QED BY <1>12, <1>24, <3>1, DiscardedIs DEF Throw, Dropped
  <2>5. Holds BY <1>8, <2>2, <2>4
  <2> QED BY <1>21, <1>22, <1>24, <2>1, <2>3, <2>5
<1>25. Binds BY <1>19, <1>21, <1>23, <1>24 DEF Binds
<1> DEFINE w == Transaction
           p == ran(o)
           b == escaped
           t == [told[id] EXCEPT !.within = w, !.ranOn = p, !.boundOn = b]
<1>26. w \in Nat BY WaysAre DEF Transaction
<1>27. p \in Nat \X Nat /\ b \in Nat \X Nat
  BY <1>3, <1>10, PlaceIs DEF ToldSet, Typed, OthersTyped
<1>28. told' = [told EXCEPT ![id].within = w, ![id].ranOn = p, ![id].boundOn = b] BY <1>7
<1>29. w = Transaction OBVIOUS
<1> HIDE DEF w, p, b, ran, escaped
<1>30. told' = [told EXCEPT ![id] = t] BY <1>3, <1>28 DEF ToldSet
<1>31. /\ t \in ToldSet /\ t.within = w /\ t.writes = told[id].writes
       /\ t.status = told[id].status
  BY <1>3, <1>26, <1>27 DEF ToldSet
<1> HIDE DEF t
<1>32. Revised(told', id, t) BY <1>3, <1>30, <1>31, ToldOnce
<1>33. Sends BY <1>1, <1>2, <1>6, <1>11, <1>29, <1>31, <1>32, EffectSends
<1> QED BY <1>16, <1>18, <1>25, <1>33, SendsSound

LEMMA ExecuteHandleSound ==
  ASSUME Typed, Typed', Sound, ExecuteHandle
  PROVE  Sound'
<1> DEFINE fn == "EXECUTE"
           r == Statement(fn)
<1>1. /\ pc = "execute"
      /\ UNCHANGED <<cas, transaction, queue, generation, transactions>>
  BY DEF ExecuteHandle
<1>2. /\ queue # <<>> /\ failure = "none" /\ (told[id].writes <=> Running.sql # "select")
      /\ autoCommit /\ ~Deferred => session.work = {}
      /\ bound # 0 /\ ~autoCommit => endReplies # -1
      /\ bound \leq session.generation /\ endReplies \leq session.outOfTransactionReplies
  BY <1>1, SendingIs
<1>3. id \in Numbers /\ told[id] \in ToldSet /\ told \in Seq(ToldSet) BY <1>2, RunningIs DEF Typed
<1>4. fn \in Sending /\ fn \in Functions /\ fn \in S!Executing
  BY DEF Sending, Functions, S!Executing
<1> HIDE DEF fn
<1>5. r \in RequestSet(Len(told)) BY <1>2, <1>4, StatementIs, Zenon
<1>6. PICK o \in S!SendAndRecvOnSession(session, generation, r) :
       /\ Takes(o)
       /\ told' = [told EXCEPT ![id].ranOn = Place(o)]
       /\ IF o.reply \in {"ok", "more"} THEN UseResult(o.session, o.reply)
                                        ELSE Throw(o.session, o.reply)
  BY DEF ExecuteHandle, fn
<1> HIDE DEF r
<1>7. o \in S!OnSession(session, generation, r, TRUE) BY <1>6 DEF S!SendAndRecvOnSession
<1>8. session' = o.session \/ session' = S!DiscardSession(o.session)
  BY <1>6 DEF Throw, UseResult
<1>9. /\ o \in OutcomeSet(Len(told))
      /\ \/ Absent(Len(told), session, generation, o)
         \/ Exchanged(Len(told), session, r, o) /\ session.connected /\ session.generation = generation
  BY <1>5, <1>6, <1>7, <1>8, OnSessionStep
<1>10. TakesEffect(fn, o)
  <2>1. CASE o.reply \in {"ok", "more"} BY <1>2, <1>4, <1>6, <1>9, <2>1, ResultGoes
  <2>2. CASE o.reply \notin {"ok", "more"} BY <1>6, <1>9, <2>2, ThrowGoes
  <2> QED BY <2>1, <2>2
<1>11. generation \leq session.generation BY <1>1 DEF Sound, Known, Late
<1>12. /\ session.generation \in Nat /\ session.outOfTransactionReplies \in Nat /\ Held(session)
       /\ generation \in Nat /\ bound \in Nat /\ endReplies \in Nat \cup {-1}
  BY SaneNow, WaysAre DEF Sane, OthersTyped, bound, endReplies
<1>13. session.work # {} => (Deferred \/ ~autoCommit) /\ session.generation = generation
  <2>1. CASE autoCommit BY <1>1, <1>2, <2>1 DEF Sound, Uncommitted, Alone, Late, Deferred
  <2>2. CASE ~autoCommit BY <1>1, <2>2 DEF Sound, Uncommitted, Known
  <2> QED BY <2>1, <2>2
<1>14. Did(fn, o) /\ Follows(o)
  <2>1. CASE Absent(Len(told), session, generation, o)
    <3>1. o.session = session /\ o.reply = "absent" /\ o.durable = {} BY <2>1 DEF Absent
    <3>2. session.work = {}
      BY <1>12, <1>13, <2>1 DEF Absent, Held
    <3> QED BY <1>1, <1>11, <1>12, <3>1, <3>2 DEF Did, Follows
  <2>2. CASE Exchanged(Len(told), session, r, o) /\ session.connected /\ session.generation = generation
    <3>1. /\ o.session.generation = session.generation /\ Held(o.session)
          /\ session.outOfTransactionReplies \leq o.session.outOfTransactionReplies
          /\ Answered(session, r, o) \/ Unread(session, r, o)
          /\ o.ran => session.up
      BY <2>2 DEF Exchanged, Sane
    <3>2. Did(fn, o) BY <1>2, <1>4, <1>9, <3>1, StatementDid DEF r
    <3>3. o.session.up => session.up BY <3>1, <3>2 DEF Answered, Unread, Did
    <3> QED BY <1>1, <1>11, <1>12, <2>2, <3>1, <3>2, <3>3 DEF Follows
  <2> QED BY <1>9, <2>1, <2>2
<1>15. Alters BY <1>6, <1>9, <1>10, <1>14, EffectAlters
<1>16. bound' = bound /\ endReplies' = endReplies /\ transactionAbort' = transactionAbort
       /\ autoCommit' = autoCommit
  BY <1>1 DEF transaction, bound, endReplies
<1>17. Does
  <2>1. endReplies' \leq session.outOfTransactionReplies BY <1>2, <1>16
  <2> QED BY <1>2, <1>4, <1>6, <1>9, <1>10, <1>14, <2>1, EffectDoes DEF Sending
<1>18. /\ session'.generation = o.session.generation
       /\ session'.outOfTransactionReplies = o.session.outOfTransactionReplies
       /\ session'.work # {} => session' = o.session
  BY <1>10 DEF TakesEffect, Leaves
<1>19. ~autoCommit => bound # 0 /\ generation = bound /\ ~transactionAbort
  BY <1>1 DEF Sound, Known
<1>20. ASSUME ~autoCommit
       PROVE  /\ endReplies # -1 /\ endReplies \leq session'.outOfTransactionReplies
              /\ bound \leq session'.generation
  <2>1. /\ session.outOfTransactionReplies \leq o.session.outOfTransactionReplies
        /\ session.generation \leq o.session.generation
        /\ o.session.generation \in Nat /\ o.session.outOfTransactionReplies \in Nat
    BY <1>9, <1>14 DEF Follows, OutcomeSet, SessionSet
  <2>2. session'.generation \in Nat /\ session'.outOfTransactionReplies \in Nat
    BY DEF Typed, Sane, SessionSet
  <2> QED BY <1>2, <1>12, <1>18, <1>19, <1>20, <2>1, <2>2
<1>21. ASSUME ~autoCommit, session'.work # {}
       PROVE  session'.generation = bound /\ failure' # "abort"
  <2>1. o.session.work # {} /\ session' = o.session BY <1>18, <1>21
  <2>2. o.reply # "abort" BY <1>14, <2>1 DEF Did
  <2>3. failure' # "abort" BY <1>10, <2>2 DEF TakesEffect
  <2>4. session'.generation = generation
    <3>1. CASE Absent(Len(told), session, generation, o)
      BY <1>12, <1>13, <2>1, <3>1 DEF Absent, Held
    <3>2. CASE Exchanged(Len(told), session, r, o) /\ session.generation = generation
      BY <2>1, <3>2 DEF Exchanged
    <3> QED BY <1>9, <3>1, <3>2
  <2> QED BY <1>19, <1>21, <2>3, <2>4
<1>22. Binds BY <1>1, <1>16, <1>19, <1>20, <1>21 DEF Binds
<1> DEFINE p == Place(o)
           t == [told[id] EXCEPT !.ranOn = p]
<1>23. p \in Nat \X Nat /\ told' = [told EXCEPT ![id].ranOn = p] BY <1>6, <1>9, PlaceIs
<1> HIDE DEF p
<1>24. told' = [told EXCEPT ![id] = t] BY <1>23
<1>25. /\ t \in ToldSet /\ t.within = told[id].within /\ t.writes = told[id].writes
       /\ t.status = told[id].status
  BY <1>3, <1>23 DEF ToldSet
<1> HIDE DEF t
<1>26. Revised(told', id, t) BY <1>3, <1>24, <1>25, ToldOnce
<1>27. told[id].within = Transaction BY <1>1 DEF Sound, Listed, Late
<1>28. Sends BY <1>1, <1>2, <1>10, <1>16, <1>25, <1>26, <1>27, EffectSends
<1> QED BY <1>15, <1>17, <1>22, <1>28, SendsSound

-----------------------------------------------------------------------------
(* The invariant is kept: the COMMIT of a statement on its own.            *)

\* The COMMIT is over: with an answer that it is, all of the work is durable.
Settled ==
  /\ pc = "commit" /\ pc' = "release" /\ generation' = generation
  /\ queue' = queue /\ told' = told /\ transactions' = transactions /\ UNCHANGED transaction
  /\ cas' = cas
  /\ durable \subseteq durable' /\ durable' \subseteq durable \cup session.work
  /\ session'.work \subseteq session.work /\ session'.generation = session.generation
  /\ failure' = "none" =>
       /\ session'.work = {} /\ durable' = durable \cup session.work
       /\ session.up /\ session.generation = generation

LEMMA SettledIs ==
  ASSUME Typed, Sound, Settled
  PROVE  /\ autoCommit /\ Deferred /\ Alone /\ queue # <<>> /\ failure = "none"
         /\ bound = 0 /\ endReplies = -1 /\ ~transactionAbort
         /\ session.work \subseteq {id}
         /\ session.work # {} => session.generation = generation
         /\ id \in Numbers /\ id \notin Waiting /\ told[id].within = 0
         /\ told[id].status = "waiting" /\ Waiting \subseteq Numbers
<1>1. Deferred /\ autoCommit /\ failure = "none" BY DEF Settled, Sound, Known, Deferred
<1>2. Alone BY <1>1 DEF Settled, Alone, Late
<1>3. queue # <<>> BY PcRuns DEF Settled
<1>4. /\ id \in Numbers /\ id \notin Waiting /\ Waiting \subseteq Numbers /\ id = queue[1].id
      /\ 1 \in 1..Len(queue)
  BY <1>3, RunningIs, WaitingOthers
<1>5. told[id].status = "waiting" BY <1>4 DEF Sound, Listed, Pending
<1>6. told[id].within = 0 BY <1>1 DEF Settled, Sound, Listed, Late, Transaction
<1>7. bound = 0 /\ endReplies = -1 /\ ~transactionAbort BY <1>1 DEF Sound, Known
<1>8. /\ session.work \subseteq {id}
      /\ session.work # {} => session.generation = generation
  BY <1>2 DEF Sound, Uncommitted
<1> QED BY <1>1, <1>2, <1>3, <1>4, <1>5, <1>6, <1>7, <1>8

LEMMA SettledListed ==
  ASSUME Typed, Sound, Settled
  PROVE  /\ Listed' /\ Numbers' = Numbers /\ id' = id /\ (Deferred' <=> Deferred)
         /\ Transaction' = Transaction /\ Alone' /\ Running' = Running
<1>1. /\ id' = id /\ Running' = Running /\ Numbers' = Numbers /\ Transaction' = Transaction
      /\ Pending' = Pending /\ Waiting' = Waiting /\ (Deferred' <=> Deferred)
  BY DEF Settled, id, Running, Numbers, Transaction, Pending, Waiting, Deferred, transaction
<1>2. Alone' /\ Unsent' = Unsent BY <1>1, SettledIs DEF Settled, Alone, Unsent, Late
<1>3. \A i \in Unsent : i \notin session'.work /\ i \notin durable'
  BY SettledIs DEF Sound, Listed, Settled, Unsent, Late
<1>4. (pc \in Past \cup {"baseline", "start"} => Running.call \in Statements)'
  BY <1>1 DEF Settled, Sound, Listed, Past
<1>5. pc' \in Late /\ pc \in Late /\ pc' \notin {"checkCas", "version"} BY DEF Settled, Late
<1>6. Listed' BY <1>1, <1>2, <1>3, <1>4, <1>5 DEF Settled, Sound, Listed
<1> QED BY <1>1, <1>2, <1>6

LEMMA SettledKnown ==
  ASSUME Typed, Typed', Sound, Settled, (Deferred' <=> Deferred)
  PROVE  Known'
<1>1. /\ autoCommit' = autoCommit /\ transactionAbort' = transactionAbort /\ cas' = cas
      /\ transactions' = transactions /\ bound' = bound /\ endReplies' = endReplies
      /\ pc' = "release" /\ generation' = generation /\ session'.generation = session.generation
  BY DEF Settled, transaction, bound, endReplies
<1>2. autoCommit /\ bound = 0 /\ endReplies = -1 BY SettledIs
<1>3. session'.generation \in Nat /\ session'.outOfTransactionReplies \in Nat
  BY DEF Typed, Sane, SessionSet
<1>4. bound' \leq session'.generation /\ endReplies' \leq session'.outOfTransactionReplies
  BY <1>1, <1>2, <1>3
<1>5. generation \leq session.generation BY DEF Settled, Sound, Known, Late
<1> QED BY <1>1, <1>2, <1>4, <1>5 DEF Sound, Known

LEMMA SettledOutcomes ==
  ASSUME Typed, Sound, Settled, id' = id, Numbers' = Numbers
  PROVE  OnItsOwn' /\ Outcomes'
<1>1. /\ told' = told /\ transactions' = transactions /\ queue' = queue
      /\ durable \subseteq durable' /\ durable' \subseteq durable \cup {id} /\ durable \subseteq Numbers
  BY SettledIs DEF Settled, Typed
<1>2. ASSUME NEW i \in Numbers, told[i].within = 0, Good(i)' PROVE i \in durable'
  <2>1. CASE i = id
    <3>1. failure' = "none" /\ told[id].writes BY <1>1, <1>2, <2>1, SettledIs DEF Good
    <3>2. Good(id) BY <3>1, SettledIs DEF Good, Settled, Got
    <3>3. id \in durable \/ id \in session.work
      BY <2>1, <3>1, <3>2, SettledIs DEF Sound, OnItsOwn, Settled
    <3> QED BY <2>1, <3>1, <3>3 DEF Settled
  <2>2. CASE i # id
    <3>1. Good(i) BY <1>1, <1>2, <2>2 DEF Good
    <3> QED BY <1>1, <1>2, <2>2, <3>1 DEF Sound, OnItsOwn
  <2> QED BY <2>1, <2>2
<1>3. OnItsOwn' BY <1>1, <1>2 DEF OnItsOwn
<1>4. \A i \in durable' : told[i].within # 0 => i \in durable BY <1>1, SettledIs
<1>5. \A i \in Numbers : Acknowledged(i)' <=> Acknowledged(i) BY <1>1 DEF Acknowledged
<1>6. AllOrNothing' BY <1>1, <1>4, <1>5 DEF Sound, Outcomes, AllOrNothing
<1> QED BY <1>1, <1>3, <1>4, <1>5, <1>6 DEF Sound, Outcomes

LEMMA SettledSound ==
  ASSUME Typed, Typed', Sound, Settled
  PROVE  Sound'
<1>1. /\ Listed' /\ Numbers' = Numbers /\ id' = id /\ (Deferred' <=> Deferred) /\ Alone'
  BY SettledListed
<1>2. autoCommit /\ autoCommit' BY SettledIs DEF Settled, transaction
<1>3. Known' BY <1>1, SettledKnown
<1>4. Uncommitted'
  <2>1. /\ session'.work \subseteq {id} /\ generation' = generation
        /\ session'.work # {} => session'.generation = generation
        /\ failure' = "none" => session'.work = {}
    BY SettledIs DEF Settled
  <2> QED BY <1>1, <1>2, <2>1 DEF Uncommitted
<1>5. InSession' BY <1>2 DEF InSession
<1>6. OnItsOwn' /\ Outcomes' BY <1>1, SettledOutcomes
<1> QED BY <1>1, <1>3, <1>4, <1>5, <1>6 DEF Sound

LEMMA CommitStatementSound ==
  ASSUME Typed, Typed', Sound, CommitStatement
  PROVE  Sound'
<1> DEFINE r == S!Request("COMMIT", Mode)
<1>1. PICK o \in S!SendAndRecvOnSession(session, generation, r) :
        /\ Takes(o)
        /\ IF o.reply = "ok" THEN session' = o.session /\ pc' = "release" /\ UNCHANGED failure
                             ELSE Throw(o.session, o.reply)
  BY DEF CommitStatement
<1>2. /\ pc = "commit" /\ UNCHANGED <<cas, transaction, queue, generation, told, transactions>>
  BY DEF CommitStatement
<1>3. r \in RequestSet(Len(told)) /\ r.fn = "COMMIT" /\ r.mode = Mode /\ Changes(r) = {}
  <2>1. "COMMIT" \in Functions /\ Mode \in S!Modes /\ Len(told) \in Nat BY ModeIs, SaneNow DEF Functions
  <2> QED BY <2>1, RequestIs DEF Changes
<1>4. Mode # "transaction" BY <1>2 DEF Sound, Known, Deferred, Mode
<1> HIDE DEF r
<1>5. o \in S!OnSession(session, generation, r, TRUE) BY <1>1 DEF S!SendAndRecvOnSession
<1>6. session' = o.session \/ session' = S!DiscardSession(o.session) BY <1>1 DEF Throw
<1>7. /\ o \in OutcomeSet(Len(told))
      /\ \/ Absent(Len(told), session, generation, o)
         \/ Exchanged(Len(told), session, r, o) /\ session.connected /\ session.generation = generation
  BY <1>1, <1>3, <1>5, <1>6, OnSessionStep
<1>8. /\ o.durable \subseteq session.work /\ o.session.work \subseteq session.work
      /\ o.session.generation = session.generation
      /\ o.reply = "ok" =>
           /\ o.session.work = {} /\ o.durable = session.work
           /\ session.up /\ session.generation = generation
  <2>1. CASE Absent(Len(told), session, generation, o) BY <2>1 DEF Absent
  <2>2. CASE Exchanged(Len(told), session, r, o) /\ session.generation = generation
    <3>1. CASE Answered(session, r, o)
      <4>1. Commits(session, o) BY <1>3, <1>4, <3>1 DEF Answered, Gone, Effect
      <4> QED BY <2>2, <3>1, <4>1 DEF Commits, Answered, Exchanged
    <3>2. CASE Unread(session, r, o)
      BY <1>3, <2>2, <3>2 DEF Unread, Unheard, Exchanged, Sane, Held
    <3> QED BY <2>2, <3>1, <3>2 DEF Exchanged
  <2> QED BY <1>7, <2>1, <2>2
<1>9. Leaves(o) BY <1>6, <1>7, LeavesIs
<1>10. failure' = "none" => o.reply = "ok" /\ session' = o.session
  <2>1. o.reply \in Replied BY <1>7 DEF OutcomeSet
  <2> QED BY <1>1, <2>1 DEF Throw, Replied
<1>11. pc' = "release" BY <1>1 DEF Throw
<1>12. durable' = durable \cup o.durable BY <1>1 DEF Takes
<1>13. Settled BY <1>2, <1>8, <1>9, <1>10, <1>11, <1>12 DEF Settled, Leaves
<1> QED BY <1>13, SettledSound

-----------------------------------------------------------------------------
(* The invariant is kept: the calls that begin and end a transaction.      *)

\* The call at the head of the queue is settled, and it was no statement.
Passes(status) ==
  /\ queue # <<>> /\ pc = "idle" /\ ~told[id].writes /\ Tell(status)

\* A call that is no statement has nothing to keep.
LEMMA NoStatement ==
  ASSUME Typed, Sound, queue # <<>>, Running.call \notin Statements
  PROVE  ~told[id].writes
<1>1. id = queue[1].id /\ Running = queue[1] /\ 1 \in 1..Len(queue) BY RunningIs
<1> QED BY <1>1 DEF Sound, Listed

LEMMA PassesIs ==
  ASSUME Typed, Sound, NEW status \in {"done", "failed"}, Passes(status)
  PROVE  /\ Numbers' = Numbers /\ pc' = "idle" /\ failure' = "none" /\ ~Alone' /\ ~Alone
         /\ failure = "none" /\ id \in Numbers /\ Len(told') = Len(told)
         /\ \A i \in Numbers :
              /\ told'[i].within = told[i].within /\ told'[i].writes = told[i].writes
              /\ i # id => told'[i].status = told[i].status
         /\ \A i \in Numbers : Good(i)' => Acknowledged(i)
         /\ \A i \in Numbers : Acknowledged(i)' => Acknowledged(i)
         /\ \A i \in Numbers : Acknowledged(i) => Good(i)
<1>1. /\ queue # <<>> /\ pc = "idle" /\ ~told[id].writes /\ Tell(status) BY DEF Passes
<1>2. /\ queue' = Tail(queue) /\ pc' = "idle" /\ failure' = "none" /\ Len(told') = Len(told)
      /\ told'[id].status = status
      /\ \A i \in Numbers :
           /\ told'[i].within = told[i].within /\ told'[i].writes = told[i].writes
           /\ i # id => told'[i].status = told[i].status
  BY <1>1, TellConcludes
<1>3. id \in Numbers BY <1>1, RunningIs
<1>4. failure = "none" /\ ~Alone /\ ~Alone' BY <1>1, <1>2 DEF Sound, Known, Alone, Late
<1>5. \A i \in Numbers : (Acknowledged(i)' => Acknowledged(i)) /\ (Acknowledged(i) => Good(i))
  BY <1>1, <1>2, <1>3 DEF Acknowledged, Good
<1>6. \A i \in Numbers : Good(i)' => Acknowledged(i)
  BY <1>1, <1>2, <1>3 DEF Acknowledged, Good, Got
<1> QED BY <1>2, <1>3, <1>4, <1>5, <1>6 DEF Numbers

LEMMA PassesListed ==
  ASSUME Typed, Sound, NEW status \in {"done", "failed"}, Passes(status),
         Len(transactions) \leq Len(transactions'), Len(transactions') \in Nat,
         session'.work \subseteq session.work, durable' \subseteq durable \cup session.work
  PROVE  Listed'
<1>1. /\ Numbers' = Numbers /\ pc' = "idle" /\ Len(told') = Len(told) /\ queue # <<>>
      /\ queue' = Tail(queue)
      /\ \A i \in Numbers :
           /\ told'[i].within = told[i].within /\ told'[i].writes = told[i].writes
           /\ i # id => told'[i].status = told[i].status
  BY PassesIs DEF Passes, Tell
<1>2. /\ id \in Numbers /\ id \notin Waiting /\ Waiting \subseteq Numbers
      /\ \A k \in 1..Len(queue) : queue[k].id \in Numbers
  BY <1>1, RunningIs, WaitingOthers
<1>3. /\ Len(queue') = Len(queue) - 1 /\ Len(queue') \in Nat /\ Len(queue) \in Nat
      /\ \A k \in 1..Len(queue') : queue'[k] = queue[k + 1] /\ k + 1 \in 1..Len(queue)
  BY <1>1, TailIs DEF Typed
<1>4. Pending' \subseteq Waiting
  <2> SUFFICES ASSUME NEW k \in 1..Len(queue') PROVE queue'[k].id \in Waiting
    BY DEF Pending
  <2>1. k + 1 \in 2..Len(queue) /\ queue'[k] = queue[k + 1] BY <1>3
  <2> QED BY <2>1 DEF Waiting
<1>5. Unsent' = Pending' BY <1>1 DEF Unsent, Late
<1>6. Waiting \subseteq Unsent /\ Waiting \subseteq Pending BY <1>3 DEF Unsent, Waiting, Pending
<1>7. Len(transactions) \in Nat BY WaysAre
<1> USE DEF Sound, Listed
<1>8. \A i \in Numbers' : (told[i].within \in 0..Len(transactions))' BY <1>1, <1>7
<1>9. \A i \in Pending' : (told[i].status = "waiting")' BY <1>1, <1>2, <1>4, <1>6
<1>10. \A i \in Unsent' : (told[i].within = 0 /\ i \notin session.work /\ i \notin durable)'
  BY <1>1, <1>2, <1>4, <1>5, <1>6
<1>11. ASSUME NEW k \in (1..Len(queue))'
       PROVE  (/\ told[queue[k].id].writes <=> queue[k].sql # "select"
               /\ queue[k].call \in Statements \/ queue[k].sql = "select")'
  <2>1. queue'[k] = queue[k + 1] /\ k + 1 \in 1..Len(queue) BY <1>3
  <2>2. queue'[k].id \in Numbers /\ told'[queue'[k].id].writes = told[queue'[k].id].writes
    BY <1>1, <1>2, <2>1
  <2> QED BY <2>1, <2>2
<1>12. (/\ pc \in Late => told[id].within = Transaction
        /\ pc \in Past \cup {"baseline", "start"} => Running.call \in Statements
        /\ pc \in {"checkCas", "version"} => Running.call = "ping")'
  BY <1>1 DEF Past, Late
<1> QED BY <1>8, <1>9, <1>10, <1>11, <1>12

\* Outside of a transaction everything acknowledged is durable.
LEMMA PassesOnItsOwn ==
  ASSUME Typed, Sound, NEW status \in {"done", "failed"}, Passes(status), durable \subseteq durable'
  PROVE  OnItsOwn'
<1>1. ASSUME NEW i \in Numbers, told'[i].within = 0, Good(i)' PROVE i \in durable'
  <2>1. Good(i) /\ told[i].within = 0 /\ ~Alone BY <1>1, PassesIs
  <2> QED BY <2>1 DEF Sound, OnItsOwn
<1> QED BY <1>1, PassesIs DEF OnItsOwn

\* How a transaction ends.
Ends == {"committed", "rolled back", "failed"}

\* The transaction is over, and its caller was told how: with all of its work, or none.
Over(how) ==
  /\ EndTransaction /\ TellTransaction(how) /\ session'.work = {}
  /\ durable \subseteq durable' /\ durable' \subseteq durable \cup session.work
  /\ how = "rolled back" => durable' = durable
  /\ ~autoCommit /\ (how = "committed" \/ durable' # durable) =>
       \A i \in Numbers : told[i].within = Transaction /\ Acknowledged(i) => i \in durable'

\* The open transaction is the last one.
LEMMA OpenIs ==
  ASSUME Typed, Sound
  PROVE  /\ Len(transactions) \in Nat /\ transactions \in Seq(Ways)
         /\ autoCommit => Transaction = 0
         /\ ~autoCommit => Transaction = Len(transactions) /\ Transaction \in 1..Len(transactions)
         /\ \A k \in 1..Len(transactions) : transactions[k] = "open" <=> k = Transaction
<1>1. /\ transactions \in Seq(Ways) /\ Len(transactions) \in Nat /\ autoCommit \in BOOLEAN
      /\ autoCommit \/ transactions # <<>>
  BY WaysAre
<1>2. \A k \in 1..Len(transactions) : transactions[k] = "open" <=> ~autoCommit /\ k = Len(transactions)
  BY DEF Sound, Known
<1>3. ~autoCommit => Len(transactions) # 0 BY <1>1, EmptySeq
<1>4. /\ autoCommit => Transaction = 0
      /\ ~autoCommit => Transaction = Len(transactions) /\ Transaction \in 1..Len(transactions)
  <2> HIDE DEF Ways
  <2>1. Len(transactions) \in Nat /\ (~autoCommit => Len(transactions) # 0) BY <1>1, <1>3
  <2> QED BY <2>1 DEF Transaction
<1>5. ASSUME NEW k \in 1..Len(transactions) PROVE transactions[k] = "open" <=> k = Transaction
  <2>1. k # 0 BY <1>1
  <2>2. transactions[k] = "open" <=> ~autoCommit /\ k = Len(transactions) BY <1>2
  <2> QED BY <1>4, <2>1, <2>2, Zenon
<1> QED BY <1>1, <1>4, <1>5

LEMMA OverWays ==
  ASSUME Typed, Sound, NEW how \in Ends, Over(how)
  PROVE  /\ Len(transactions') = Len(transactions) /\ Len(transactions) \in Nat
         /\ \A k \in 1..Len(transactions) :
              /\ k # Transaction => transactions'[k] = transactions[k] /\ transactions[k] # "open"
              /\ k = Transaction => transactions'[k] = how /\ transactions[k] = "open"
<1>0. transactions \in Seq(Ways) BY OpenIs
<1>1. /\ Len(transactions) \in Nat
      /\ autoCommit => Transaction = 0
      /\ ~autoCommit => Transaction \in 1..Len(transactions)
      /\ \A k \in 1..Len(transactions) : transactions[k] = "open" <=> k = Transaction
  BY OpenIs
<1>2. TellTransaction(how) BY DEF Over
<1>3. CASE autoCommit
  <2>1. transactions' = transactions BY <1>2, <1>3 DEF TellTransaction
  <2>2. \A k \in 1..Len(transactions) : k # Transaction BY <1>1, <1>3
  <2> QED BY <1>1, <2>1, <2>2, Zenon
<1>4. CASE ~autoCommit
  <2>1. transactions' = [transactions EXCEPT ![Transaction] = how]
    BY <1>2, <1>4 DEF TellTransaction
  <2>2. Transaction \in 1..Len(transactions) /\ how \in Ways BY <1>1, <1>4 DEF Ways, Ends
  <2> HIDE DEF Ways
  <2> DEFINE new == [transactions EXCEPT ![Transaction] = how]
  <2>3. /\ Len(new) = Len(transactions)
        /\ \A k \in 1..Len(transactions) : new[k] = IF k = Transaction THEN how ELSE transactions[k]
    BY <1>0, <2>2, ExceptSeq
  <2>5. transactions' = new BY <2>1
  <2> HIDE DEF new
  <2>4. \A k \in 1..Len(transactions) :
          /\ k # Transaction => transactions'[k] = transactions[k]
          /\ k = Transaction => transactions'[k] = how
    BY <2>3, <2>5
  <2> QED BY <1>1, <2>3, <2>4, <2>5, Zenon
<1> QED BY <1>3, <1>4

LEMMA OverOutcomes ==
  ASSUME Typed, Sound, NEW status \in {"done", "failed"}, Passes(status),
         NEW how \in Ends, Over(how)
  PROVE  Outcomes'
<1> DEFINE outcome(i) == transactions[told[i].within]
           outcome2(i) == transactions'[told[i].within]
<1>1. /\ Numbers' = Numbers /\ durable \subseteq Numbers /\ session.work \subseteq Numbers
      /\ \A i \in Numbers : told'[i].within = told[i].within
      /\ \A i \in Numbers : Acknowledged(i)' => Acknowledged(i)
  BY PassesIs, SaneNow DEF Typed, SessionSet, Numbers
<1>2. \A i \in Numbers : told[i].within # 0 =>
        /\ told[i].within # Transaction => outcome2(i) = outcome(i) /\ outcome(i) # "open"
        /\ told[i].within = Transaction => outcome2(i) = how /\ outcome(i) = "open"
  BY OverWays DEF Sound, Listed
<1>3. \A i \in durable : told[i].within # 0 => outcome(i) \notin {"open", "rolled back"}
  BY DEF Sound, Outcomes
<1>4. \A i \in Numbers :
        told[i].within # 0 /\ outcome(i) = "committed" /\ Acknowledged(i) => i \in durable
  BY DEF Sound, Outcomes
<1>5. \A i \in durable, j \in Numbers :
        told[i].within # 0 /\ told[j].within = told[i].within /\ Acknowledged(j) => j \in durable
  BY DEF Sound, Outcomes, AllOrNothing
<1>6. \A i \in durable' : i \notin durable =>
        /\ told[i].within = Transaction /\ ~autoCommit /\ durable' # durable /\ i \in Numbers
  <2>1. autoCommit => session.work = {}
    BY PassesIs DEF Sound, Uncommitted
  <2>2. ~autoCommit => \A i \in session.work : told[i].within = Transaction
    BY DEF Sound, Uncommitted
  <2> QED BY <1>1, <2>1, <2>2 DEF Over
<1>7. ~autoCommit /\ (how = "committed" \/ durable' # durable) =>
        \A i \in Numbers : told[i].within = Transaction /\ Acknowledged(i) => i \in durable'
  BY DEF Over
<1>8. durable \subseteq durable' /\ (how = "rolled back" => durable' = durable) BY DEF Over
<1>9. autoCommit => Transaction = 0 BY DEF Transaction
<1> HIDE DEF outcome, outcome2
<1>10. \A i \in durable' : told[i].within # 0 => outcome2(i) \notin {"open", "rolled back"}
  <2> DEFINE undone == "rolled back"
  <2>1. how # "open" /\ (how = undone => durable' = durable) BY <1>8 DEF Ends
  <2>2. \A i \in durable : told[i].within # 0 => outcome(i) # "open" /\ outcome(i) # undone
    BY <1>3
  <2> SUFFICES \A i \in durable' : told[i].within # 0 => outcome2(i) # "open" /\ outcome2(i) # undone
    OBVIOUS
  <2> HIDE DEF undone
  <2>3. \A i \in durable : told[i].within # 0 => outcome2(i) = outcome(i)
    BY <1>1, <1>2, <2>2
  <2>4. \A i \in durable' : i \notin durable /\ told[i].within # 0 =>
          durable' # durable /\ outcome2(i) = how
    BY <1>2, <1>6
  <2> QED BY <2>1, <2>2, <2>3, <2>4
<1>11. \A i \in Numbers :
         told[i].within # 0 /\ outcome2(i) = "committed" /\ Acknowledged(i)' => i \in durable'
  BY <1>1, <1>2, <1>4, <1>7, <1>8, <1>9
<1>12. \A i \in durable', j \in Numbers :
         told[i].within # 0 /\ told[j].within = told[i].within /\ Acknowledged(j)' => j \in durable'
  BY <1>1, <1>5, <1>6, <1>7, <1>8
<1>13. AllOrNothing' BY <1>1, <1>6, <1>12 DEF AllOrNothing
<1> QED BY <1>1, <1>6, <1>10, <1>11, <1>13 DEF Outcomes, outcome2

LEMMA OverSound ==
  ASSUME Typed, Typed', Sound, NEW status \in {"done", "failed"}, Passes(status),
         NEW how \in Ends, Over(how)
  PROVE  Sound'
<1>1. /\ autoCommit' = TRUE /\ bound' = 0 /\ endReplies' = -1 /\ transactionAbort' = FALSE
      /\ session'.work = {}
  BY DEF Over, EndTransaction, bound, endReplies
<1>2. pc' = "idle" /\ failure' = "none" /\ ~Alone' BY PassesIs
<1>3. Listed'
  <2>1. Len(transactions) \leq Len(transactions') /\ Len(transactions') \in Nat BY OverWays
  <2> QED BY <1>1, <2>1, PassesListed DEF Over
<1>4. session'.generation \in Nat /\ session'.outOfTransactionReplies \in Nat
  BY DEF Typed, Sane, SessionSet
<1>5. Known'
  <2>1. \A k \in (1..Len(transactions))' : transactions'[k] # "open"
    <3>1. how # "open" BY DEF Ends
    <3> QED BY <3>1, OverWays
  <2> QED BY <1>1, <1>2, <1>4, <2>1 DEF Known, Late, Past
<1>6. Uncommitted' BY <1>1, <1>2 DEF Uncommitted
<1>7. InSession' BY <1>1 DEF InSession
<1>8. OnItsOwn' BY PassesOnItsOwn DEF Over
<1> QED BY <1>3, <1>5, <1>6, <1>7, <1>8, OverOutcomes DEF Sound

-----------------------------------------------------------------------------
(* The invariant is kept: COMMIT and ROLLBACK.                             *)

LEMMA TurnIs ==
  ASSUME Typed, Sound, NEW call \in CallNames \ Statements, Turn(call)
  PROVE  /\ queue # <<>> /\ pc = "idle" /\ ~told[id].writes /\ failure = "none" /\ ~Alone
         /\ pc \notin Past /\ pc \notin Late
         /\ autoCommit => session.work = {}
<1>1. queue # <<>> BY PcRuns
<1>2. pc = "idle" /\ Running.call \notin Statements BY DEF Turn
<1>3. ~told[id].writes BY <1>1, <1>2, NoStatement
<1>4. failure = "none" /\ ~Alone BY <1>2 DEF Sound, Known, Alone, Late
<1>5. autoCommit => session.work = {} BY <1>4 DEF Sound, Uncommitted
<1> QED BY <1>1, <1>2, <1>3, <1>4, <1>5 DEF Past, Late

\* A transaction that lost its session has left nothing in the one there is.
LEMMA LostIsEmpty ==
  ASSUME Typed, Typed', Sound, Spares(session, session'), SessionLost(session', transactionGeneration)
  PROVE  session'.work = {}
<1> SUFFICES ASSUME session'.work # {} PROVE FALSE
  OBVIOUS
<1>1. session.work # {} /\ session'.generation = session.generation BY DEF Spares
<1>2. ~autoCommit BY DEF SessionLost
<1>3. bound # 0 /\ session.generation = bound /\ ~transactionAbort
  BY <1>1, <1>2 DEF Sound, Uncommitted, Aborting
<1>4. session'.connected BY DEF Typed, Sane, Held
<1> QED BY <1>1, <1>3, <1>4 DEF SessionLost, bound

\* What is acknowledged in a transaction that has not ended is in its session.
LEMMA AllInSession ==
  ASSUME Typed, Sound, ~autoCommit, failure = "none", bound # 0 => session.up,
         ~TransactionEnded(session), ~SessionLost(session, transactionGeneration)
  PROVE  \A i \in Numbers : told[i].within = Transaction /\ Acknowledged(i) => i \in session.work
<1> SUFFICES ASSUME NEW i \in Numbers, told[i].within = Transaction, Acknowledged(i)
             PROVE  i \in session.work
  OBVIOUS
<1>1. Good(i) BY DEF Good, Acknowledged
<1>2. bound # 0 /\ endReplies # -1 /\ (Healthy => i \in session.work)
  BY <1>1 DEF Sound, InSession
<1>3. session.generation = bound /\ ~transactionAbort BY <1>2 DEF SessionLost, bound
<1>4. session.outOfTransactionReplies = endReplies
  BY <1>2 DEF TransactionEnded, Ended, endReplies
<1> QED BY <1>2, <1>3, <1>4 DEF Healthy, Aborting

\* What the reply to a COMMIT or a ROLLBACK says, and what becomes of the session.
Ending(fn, o) ==
  /\ Spares(session, session')
  /\ durable' = durable \cup o.durable /\ o.durable \in {{}, session.work}
  /\ fn = "ROLLBACK" => o.durable = {}
  /\ o.reply \in {"ok", "error", "abort", "lost"}
  /\ o.reply = "ok" =>
       /\ session'.work = {}
       /\ fn = "COMMIT" => o.durable = session.work
       /\ session'.generation = session.generation => session.up
  /\ o.reply = "lost" => ~session'.connected /\ session'.work = {}
  /\ o.reply = "abort" => o.durable = {} /\ session'.work = {}
  /\ o.reply = "error" => o.durable = {} /\ session'.work = session.work

LEMMA EndingIs ==
  ASSUME Typed, NEW fn \in {"COMMIT", "ROLLBACK"},
         NEW o \in S!SendAndRecv(session, S!Request(fn, Mode)), Takes(o), session' = o.session
  PROVE  Ending(fn, o)
<1> DEFINE r == S!Request(fn, Mode)
<1>1. fn \in Functions BY DEF Functions
<1>2. r \in RequestSet(Len(told)) /\ r.fn = fn BY <1>1, SaneNow, ModeIs, RequestIs
<1>3. o \in S!SendAndRecv(session, r) OBVIOUS
<1> HIDE DEF r
<1>4. Sent(Len(told), session, r, o) BY <1>2, <1>3, SentStep
<1>5. durable' = durable \cup o.durable BY DEF Takes
<1>6. /\ session \in SessionSet(Len(told)) /\ o.session \in SessionSet(Len(told))
      /\ Held(session) /\ Held(o.session) /\ (session.open => ~session.outOfTransaction)
  BY <1>4, SaneNow DEF Sent, Sane
<1>7. /\ session.generation \in Nat
      /\ session.generation + 1 # session.generation /\ session.generation \leq session.generation + 1
  BY <1>6 DEF SessionSet
<1>8. /\ session.outOfTransactionReplies \leq o.session.outOfTransactionReplies
      /\ o.ran => session.connected /\ (o.session.generation = session.generation => session.up)
      /\ session.generation \leq o.session.generation
      /\ \/ o.session.generation = session.generation
         \/ o.session.generation = session.generation + 1 /\ session.work = {}
  BY <1>4, <1>6, <1>7 DEF Sent, Later, Held
<1>9. CASE Answered(session, r, o)
  <2>1. o.ran /\ Effect(session, r, o) BY <1>2, <1>9 DEF Answered, Gone
  <2>2. (fn = "COMMIT" /\ Commits(session, o)) \/ (fn = "ROLLBACK" /\ RollsBack(o))
    BY <1>2, <2>1 DEF Effect
  <2>3. o.session.work \subseteq session.work BY <2>2 DEF Commits, RollsBack
  <2>4. Spares(session, o.session) BY <1>8, <2>1, <2>3 DEF Spares
  <2> QED BY <1>5, <1>8, <2>1, <2>2, <2>4 DEF Commits, RollsBack, Ending
<1>10. CASE Unread(session, r, o)
  <2>1. /\ o.reply = "lost" /\ ~o.session.connected /\ ~o.session.up /\ o.session.work = {}
        /\ o.durable \in {{}, session.work} /\ (fn = "ROLLBACK" => o.durable = {})
    BY <1>2, <1>6, <1>10 DEF Unread, Unheard, Held
  <2>2. Spares(session, o.session) BY <1>8, <2>1 DEF Spares
  <2> QED BY <1>5, <2>1, <2>2 DEF Ending
<1> QED BY <1>4, <1>9, <1>10 DEF Sent

LEMMA EndsFailed ==
  ASSUME Typed, Typed', Sound, queue # <<>>, pc = "idle", ~told[id].writes,
         NEW status \in {"done", "failed"}, Tell(status), EndTransaction, TellTransaction("failed"),
         session'.work = {}, durable \subseteq durable', durable' \subseteq durable \cup session.work,
         ~autoCommit /\ durable' # durable =>
           \A i \in Numbers : told[i].within = Transaction /\ Acknowledged(i) => i \in durable'
  PROVE  Sound'
<1>1. Passes(status) BY DEF Passes
<1>2. Over("failed") BY DEF Over
<1>3. "failed" \in Ends BY DEF Ends
<1> QED BY <1>1, <1>2, <1>3, OverSound

\* A failed COMMIT or ROLLBACK: the transaction is lost with its session, or still open.
LEMMA TransactionFailsSound ==
  ASSUME Typed, Typed', Sound, NEW call \in CallNames \ Statements, Turn(call),
         NEW s, NEW error, TransactionFails(s, error), cas # 0 => cas' # 0,
         Spares(session, session'), error = "abort" => session'.work = {},
         durable \subseteq durable', durable' \subseteq durable \cup session.work,
         ~autoCommit /\ durable' # durable =>
           \A i \in Numbers : told[i].within = Transaction /\ Acknowledged(i) => i \in durable',
         ~autoCommit /\ ~SessionLost(session', transactionGeneration) /\ error # "abort" =>
           durable' = durable /\ Intact(session, session')
  PROVE  Sound'
<1>1. /\ queue # <<>> /\ pc = "idle" /\ ~told[id].writes /\ pc \notin Past
      /\ autoCommit => session.work = {}
  BY TurnIs
<1>2. session' = s /\ Tell("failed") BY DEF TransactionFails
<1>3. CASE SessionLost(s, transactionGeneration) \/ (~autoCommit /\ error = "abort")
  <2>1. EndTransaction /\ TellTransaction("failed") BY <1>3 DEF TransactionFails
  <2>2. session'.work = {} BY <1>2, <1>3, LostIsEmpty
  <2> QED BY <1>1, <1>2, <2>1, <2>2, EndsFailed
<1>4. CASE ~(SessionLost(s, transactionGeneration) \/ (~autoCommit /\ error = "abort"))
  <2>1. UNCHANGED <<transaction, transactions>> BY <1>4 DEF TransactionFails
  <2>2. durable' = durable /\ Intact(session, session')
    <3>1. CASE autoCommit
      <4>1. session.work = {} /\ session'.work = {} BY <1>1, <3>1 DEF Spares
      <4> QED BY <4>1 DEF Intact
    <3>2. CASE ~autoCommit BY <1>2, <1>4, <3>2
    <3> QED BY <3>1, <3>2
  <2> QED BY <1>1, <1>2, <2>1, <2>2, TellsSound
<1> QED BY <1>3, <1>4

LEMMA CommitRefusedSound ==
  ASSUME Typed, Typed', Sound, CommitRefused
  PROVE  Sound'
<1> DEFINE s == DropIfEnded(session)
<1>1. TransactionFails(s, "lost") /\ Turn("commit") /\ durable' = durable
  BY DEF CommitRefused, NothingAwaited
<1>2. session' = DropIfEnded(session) BY <1>1 DEF TransactionFails
<1>3. Spares(session, session') /\ Intact(session, session') BY <1>2, DropSpares
<1>4. cas # 0 => cas' # 0 BY CasStays DEF CommitRefused
<1>5. "commit" \in CallNames \ Statements BY DEF CallNames, Statements
<1> HIDE DEF s
<1> QED BY <1>1, <1>3, <1>4, <1>5, TransactionFailsSound

LEMMA RollbackRefusedSound ==
  ASSUME Typed, Typed', Sound, RollbackRefused
  PROVE  Sound'
<1>1. TransactionFails(session, "lost") /\ Turn("rollback") /\ durable' = durable
  BY DEF RollbackRefused, NothingAwaited
<1>2. session' = session BY <1>1 DEF TransactionFails
<1>3. Spares(session, session') /\ Intact(session, session') BY <1>2, SameSession
<1>4. cas # 0 => cas' # 0 BY CasStays DEF RollbackRefused
<1>5. "rollback" \in CallNames \ Statements BY DEF CallNames, Statements
<1> QED BY <1>1, <1>3, <1>4, <1>5, TransactionFailsSound

LEMMA CommitSound ==
  ASSUME Typed, Typed', Sound, Commit
  PROVE  Sound'
<1>1. /\ Turn("commit") /\ cas' = cas
      /\ DropIfEnded(session).connected /\ ~SessionLost(DropIfEnded(session), transactionGeneration)
  BY DEF Commit
<1>2. "commit" \in CallNames \ Statements BY DEF CallNames, Statements
<1>3. /\ queue # <<>> /\ pc = "idle" /\ ~told[id].writes /\ failure = "none"
      /\ autoCommit => session.work = {}
  BY <1>1, <1>2, TurnIs
<1>4. /\ session.connected /\ ~TransactionEnded(session)
      /\ ~SessionLost(session, transactionGeneration)
  <2>1. Len(told) \in Nat /\ session \in SessionSet(Len(told)) /\ Spares(session, session)
    BY SaneNow, SameSession
  <2>2. ~S!DiscardSession(session).connected BY <2>1, SparesDiscarded
  <2> QED BY <1>1, <2>2 DEF DropIfEnded
<1>5. PICK o \in S!SendAndRecv(session, S!Request("COMMIT", Mode)) :
        /\ Takes(o)
        /\ IF o.reply = "ok" /\ ~SessionLost(o.session, transactionGeneration)
             THEN /\ session' = o.session /\ EndTransaction /\ TellTransaction("committed")
                  /\ Tell("done")
             ELSE TransactionFails(o.session, o.reply)
  BY DEF Commit
<1>6. session' = o.session BY <1>5 DEF TransactionFails
<1>7. Ending("COMMIT", o) BY <1>5, <1>6, EndingIs
<1>8. durable \subseteq durable' /\ durable' \subseteq durable \cup session.work BY <1>7 DEF Ending
<1>9. o.reply = "ok" => durable' = durable \cup session.work BY <1>7 DEF Ending
<1>10. CASE o.reply = "ok" /\ ~SessionLost(o.session, transactionGeneration)
  <2>1. EndTransaction /\ TellTransaction("committed") /\ Tell("done") /\ session'.work = {}
    BY <1>5, <1>7, <1>10 DEF Ending
  <2>2. ASSUME ~autoCommit
        PROVE  \A i \in Numbers : told[i].within = Transaction /\ Acknowledged(i) => i \in durable'
    <3>1. bound # 0 => session.generation = bound /\ session'.generation = bound
      BY <1>4, <1>6, <1>10, <2>2 DEF SessionLost, bound
    <3>2. bound # 0 => session.up BY <1>7, <1>10, <3>1 DEF Ending
    <3> QED BY <1>3, <1>4, <1>9, <1>10, <2>2, <3>2, AllInSession
  <2>3. Over("committed") BY <1>8, <2>1, <2>2 DEF Over
  <2>4. Passes("done") BY <1>3, <2>1 DEF Passes
  <2>5. "committed" \in Ends BY DEF Ends
  <2> QED BY <2>3, <2>4, <2>5, OverSound
<1>11. CASE ~(o.reply = "ok" /\ ~SessionLost(o.session, transactionGeneration))
  <2>1. TransactionFails(o.session, o.reply) BY <1>5, <1>11
  <2>2. ASSUME ~autoCommit, durable' # durable
        PROVE  \A i \in Numbers : told[i].within = Transaction /\ Acknowledged(i) => i \in durable'
    <3>1. session.work # {} /\ durable' = durable \cup session.work BY <1>7, <2>2 DEF Ending
    <3>2. session.up BY <3>1, WorkIsHeld
    <3> QED BY <1>3, <1>4, <2>2, <3>1, <3>2, AllInSession
  <2>3. ASSUME ~autoCommit, ~SessionLost(session', transactionGeneration), o.reply # "abort"
        PROVE  durable' = durable /\ Intact(session, session')
    <3>1. session'.connected BY <2>3 DEF SessionLost
    <3>2. o.reply = "error" BY <1>6, <1>7, <1>11, <2>3, <3>1 DEF Ending
    <3> QED BY <1>7, <3>2 DEF Ending, Intact
  <2>4. Spares(session, session') /\ (o.reply = "abort" => session'.work = {}) BY <1>7 DEF Ending
  <2> QED BY <1>1, <1>2, <1>8, <2>1, <2>2, <2>3, <2>4, TransactionFailsSound
<1> QED BY <1>10, <1>11

LEMMA RollbackSound ==
  ASSUME Typed, Typed', Sound, Rollback
  PROVE  Sound'
<1>1. Turn("rollback") /\ cas' = cas BY DEF Rollback
<1>2. "rollback" \in CallNames \ Statements BY DEF CallNames, Statements
<1>3. queue # <<>> /\ pc = "idle" /\ ~told[id].writes BY <1>1, <1>2, TurnIs
<1>4. PICK o \in S!SendAndRecv(session, S!Request("ROLLBACK", Mode)) :
        /\ Takes(o)
        /\ IF o.reply = "ok"
             THEN /\ session' = o.session /\ EndTransaction /\ TellTransaction("rolled back")
                  /\ Tell("done")
             ELSE TransactionFails(o.session, o.reply)
  BY DEF Rollback
<1>5. session' = o.session BY <1>4 DEF TransactionFails
<1>6. Ending("ROLLBACK", o) BY <1>4, <1>5, EndingIs
<1>7. durable' = durable /\ Spares(session, session') BY <1>6 DEF Ending
<1>8. CASE o.reply = "ok"
  <2>1. EndTransaction /\ TellTransaction("rolled back") /\ Tell("done") BY <1>4, <1>8
  <2>2. session'.work = {} BY <1>6, <1>8 DEF Ending
  <2>3. Over("rolled back") BY <1>7, <2>1, <2>2 DEF Over
  <2>4. Passes("done") BY <1>3, <2>1 DEF Passes
  <2>5. "rolled back" \in Ends BY DEF Ends
  <2> QED BY <2>3, <2>4, <2>5, OverSound
<1>9. CASE o.reply # "ok"
  <2>1. TransactionFails(o.session, o.reply) BY <1>4, <1>9
  <2>2. ASSUME ~autoCommit, ~SessionLost(session', transactionGeneration), o.reply # "abort"
        PROVE  Intact(session, session')
    <3>1. session'.connected BY <2>2 DEF SessionLost
    <3>2. o.reply = "error" BY <1>6, <1>9, <2>2, <3>1 DEF Ending
    <3> QED BY <1>6, <3>2 DEF Ending, Intact
  <2>3. o.reply = "abort" => session'.work = {} BY <1>6 DEF Ending
  <2> QED BY <1>1, <1>2, <1>7, <2>1, <2>2, <2>3, TransactionFailsSound
<1> QED BY <1>8, <1>9

-----------------------------------------------------------------------------
(* The invariant is kept: the other calls that are no statements.          *)

LEMMA BeginRefusedSound ==
  ASSUME Typed, Typed', Sound, BeginRefused
  PROVE  Sound'
<1>1. /\ Turn("beginTransaction") /\ Tell("failed") /\ UNCHANGED <<transaction, transactions>>
      /\ session' = session /\ durable' = durable /\ cas' = cas
  BY DEF BeginRefused, connection
<1>2. "beginTransaction" \in CallNames \ Statements BY DEF CallNames, Statements
<1>3. queue # <<>> /\ pc \notin Past /\ ~told[id].writes BY <1>1, <1>2, TurnIs
<1>4. Spares(session, session') /\ Intact(session, session') BY <1>1, SameSession
<1> QED BY <1>1, <1>3, <1>4, TellsSound

\* A transaction is open from now on, and nothing was done in it.
Begins ==
  /\ Passes("done") /\ autoCommit /\ ~autoCommit' /\ cas' # 0
  /\ transactions' = Append(transactions, "open")
  /\ UNCHANGED <<transactionGeneration, transactionEndReplies, transactionAbort>>
  /\ session'.work = {} /\ durable' = durable

LEMMA BeginsWays ==
  ASSUME Typed, Begins
  PROVE  /\ Len(transactions) \in Nat /\ Len(transactions') = Len(transactions) + 1
         /\ transactions'[Len(transactions) + 1] = "open"
         /\ \A k \in 1..Len(transactions) : transactions'[k] = transactions[k]
<1>1. transactions \in Seq(Ways) /\ Len(transactions) \in Nat /\ "open" \in Ways
  BY WaysAre DEF Ways
<1> HIDE DEF Ways
<1> DEFINE new == Append(transactions, "open")
<1>2. /\ Len(new) = Len(transactions) + 1 /\ new[Len(transactions) + 1] = "open"
      /\ \A k \in 1..Len(transactions) : new[k] = transactions[k]
  BY <1>1, AppendProperties
<1>3. transactions' = new BY DEF Begins
<1> HIDE DEF new
<1> QED BY <1>1, <1>2, <1>3

LEMMA BeginsOutcomes ==
  ASSUME Typed, Sound, Begins
  PROVE  Outcomes'
<1> DEFINE outcome(i) == transactions[told[i].within]
           outcome2(i) == transactions'[told[i].within]
           undone == "rolled back"
<1>1. /\ Numbers' = Numbers /\ durable' = durable /\ durable \subseteq Numbers
      /\ \A i \in Numbers : told'[i].within = told[i].within
      /\ \A i \in Numbers : Acknowledged(i)' => Acknowledged(i)
  BY PassesIs DEF Begins, Typed
<1>2. \A i \in Numbers : told[i].within # 0 => outcome2(i) = outcome(i)
  <2>1. \A i \in Numbers : told[i].within \in 0..Len(transactions) BY DEF Sound, Listed
  <2>2. Len(transactions) \in Nat /\ \A k \in 1..Len(transactions) : transactions'[k] = transactions[k]
    BY BeginsWays
  <2>3. \A i \in Numbers : told[i].within # 0 => told[i].within \in 1..Len(transactions)
    BY <2>1, <2>2
  <2> QED BY <2>2, <2>3
<1>3. \A i \in durable : told[i].within # 0 => outcome(i) # "open" /\ outcome(i) # undone
  BY DEF Sound, Outcomes
<1>4. \A i \in Numbers :
        told[i].within # 0 /\ outcome(i) = "committed" /\ Acknowledged(i) => i \in durable
  BY DEF Sound, Outcomes
<1>5. \A i \in durable, j \in Numbers :
        told[i].within # 0 /\ told[j].within = told[i].within /\ Acknowledged(j) => j \in durable
  BY DEF Sound, Outcomes, AllOrNothing
<1>6. AllOrNothing' BY <1>1, <1>5 DEF AllOrNothing
<1>7. \A i \in durable : told[i].within # 0 => outcome2(i) # "open" /\ outcome2(i) # undone
  <2> HIDE DEF outcome, outcome2, undone
  <2> QED BY <1>1, <1>2, <1>3
<1>8. \A i \in Numbers :
        told[i].within # 0 /\ outcome2(i) = "committed" /\ Acknowledged(i)' => i \in durable
  <2> HIDE DEF outcome, outcome2, undone
  <2> QED BY <1>1, <1>2, <1>4
<1> QED BY <1>1, <1>6, <1>7, <1>8 DEF Outcomes

LEMMA BeginsSound ==
  ASSUME Typed, Typed', Sound, Begins
  PROVE  Sound'
<1>1. /\ Passes("done") /\ ~autoCommit' /\ cas' # 0 /\ session'.work = {} /\ durable' = durable
      /\ bound' = bound /\ endReplies' = endReplies /\ transactionAbort' = transactionAbort
  BY DEF Begins, bound, endReplies
<1>2. bound = 0 /\ endReplies = -1 BY DEF Begins, Sound, Known
<1>3. /\ pc' = "idle" /\ failure' = "none" /\ ~Alone' /\ Numbers' = Numbers
      /\ \A i \in Numbers : told'[i].within = told[i].within
  BY <1>1, PassesIs
<1>4. /\ Len(transactions) \in Nat /\ Len(transactions') = Len(transactions) + 1
      /\ transactions'[Len(transactions) + 1] = "open"
      /\ \A k \in 1..Len(transactions) : transactions'[k] = transactions[k]
  BY BeginsWays
<1>5. Listed'
  <2>1. Len(transactions) \leq Len(transactions') /\ Len(transactions') \in Nat BY <1>4
  <2> QED BY <1>1, <2>1, PassesListed
<1>6. Known'
  <2>1. session'.generation \in Nat /\ session'.outOfTransactionReplies \in Nat
    BY DEF Typed, Sane, SessionSet
  <2>2. ASSUME NEW k \in 1..Len(transactions')
        PROVE  transactions'[k] = "open" <=> k = Len(transactions')
    <3>1. CASE k = Len(transactions) + 1 BY <1>4, <3>1
    <3>2. CASE k # Len(transactions) + 1
      <4>1. k \in 1..Len(transactions) BY <1>4, <3>2
      <4>2. transactions[k] # "open" BY <4>1 DEF Begins, Sound, Known
      <4> QED BY <1>4, <3>2, <4>1, <4>2
    <3> QED BY <3>1, <3>2
  <2>3. bound' \leq session'.generation /\ endReplies' \leq session'.outOfTransactionReplies
    BY <1>1, <1>2, <2>1
  <2> QED BY <1>1, <1>2, <1>3, <2>2, <2>3 DEF Known, Late, Past
<1>7. Uncommitted' BY <1>1, <1>3 DEF Uncommitted
<1>8. InSession'
  <2>1. \A i \in Numbers : told[i].within # Len(transactions) + 1
    <3>1. \A i \in Numbers : told[i].within \in 0..Len(transactions) BY DEF Sound, Listed
    <3> QED BY <1>4, <3>1
  <2>2. Transaction' = Len(transactions) + 1 BY <1>1, <1>4 DEF Transaction
  <2> QED BY <1>3, <2>1, <2>2 DEF InSession
<1>9. OnItsOwn' BY <1>1, PassesOnItsOwn
<1> QED BY <1>5, <1>6, <1>7, <1>8, <1>9, BeginsOutcomes DEF Sound

LEMMA BeginTransactionSound ==
  ASSUME Typed, Typed', Sound, BeginTransaction
  PROVE  Sound'
<1>1. Turn("beginTransaction") /\ GetOrCreateCAS
      /\ UNCHANGED <<transactionGeneration, transactionEndReplies, transactionAbort>>
  BY DEF BeginTransaction
<1>2. "beginTransaction" \in CallNames \ Statements BY DEF CallNames, Statements
<1>3. /\ queue # <<>> /\ pc = "idle" /\ pc \notin Past /\ ~told[id].writes
      /\ autoCommit => session.work = {}
  BY <1>1, <1>2, TurnIs
<1>4. PICK o \in S!Connect(session) :
        /\ Takes(o) /\ session' = o.session
        /\ IF o.reply = "ok"
             THEN /\ autoCommit' = FALSE
                  /\ transactions' = IF autoCommit THEN Append(transactions, "open") ELSE transactions
                  /\ Tell("done")
             ELSE UNCHANGED <<autoCommit, transactions>> /\ Tell("failed")
  BY DEF BeginTransaction
<1>5. Opens(Len(told), session, o) BY SaneNow, ConnectIs, Zenon
<1>6. durable' = durable /\ Spares(session, session') /\ Intact(session, session')
  BY <1>4, <1>5, OpensSpares, TakesNothing
<1>7. cas' # 0 BY <1>1, CasThere
<1>8. CASE o.reply = "ok" /\ autoCommit
  <2>1. session'.work = {} BY <1>3, <1>6, <1>8 DEF Spares
  <2>2. Tell("done") /\ ~autoCommit' /\ transactions' = Append(transactions, "open")
    BY <1>4, <1>8
  <2>3. Passes("done") BY <1>3, <2>2 DEF Passes
  <2>4. Begins BY <1>1, <1>6, <1>7, <1>8, <2>1, <2>2, <2>3 DEF Begins
  <2> QED BY <2>4, BeginsSound
<1>9. CASE ~(o.reply = "ok" /\ autoCommit)
  <2>1. autoCommit \in BOOLEAN BY WorkIsHeld
  <2>2. PICK status \in {"done", "failed"} : Tell(status) BY <1>4
  <2>3. UNCHANGED <<transaction, transactions>> BY <1>1, <1>4, <1>9, <2>1 DEF transaction
  <2> QED BY <1>3, <1>6, <1>7, <2>2, <2>3, TellsSound
<1> QED BY <1>8, <1>9

LEMMA CloseSound ==
  ASSUME Typed, Typed', Sound, Close
  PROVE  Sound'
<1>1. Turn("close") /\ Tell("done") /\ session' = S!NewSession /\ durable' = durable
  BY DEF Close
<1>2. "close" \in CallNames \ Statements BY DEF CallNames, Statements
<1>3. queue # <<>> /\ pc = "idle" /\ ~told[id].writes BY <1>1, <1>2, TurnIs
<1>4. session'.work = {} BY <1>1, SaneNow, NewSessionIs
<1>5. EndTransaction /\ TellTransaction("failed")
  <2>1. CASE cas # 0 BY <2>1 DEF Close
  <2>2. CASE cas = 0
    <3>1. autoCommit \in BOOLEAN BY WorkIsHeld
    <3>2. autoCommit /\ bound = 0 /\ endReplies = -1 /\ ~transactionAbort
      BY <2>2, <3>1 DEF Sound, Known
    <3>3. UNCHANGED <<transaction, transactions>> BY <2>2 DEF Close
    <3>4. transactionAbort \in BOOLEAN BY WorkIsHeld
    <3> QED BY <3>1, <3>2, <3>3, <3>4
         DEF EndTransaction, TellTransaction, transaction, bound, endReplies
  <2> QED BY <2>1, <2>2
<1> QED BY <1>1, <1>3, <1>4, <1>5, EndsFailed

\* The operations of the connection that run no statement of the caller.
LEMMA OnlySound ==
  ASSUME Typed, Typed', Sound, queue # <<>>, pc \notin Past, pc \notin Late,
         ~told[id].writes, failure = "none", cas # 0 => cas' # 0,
         NEW outcomes, NEW next \in {"idle", "version", "checkCas"}, Only(outcomes, next),
         next # "idle" => Running.call = "ping",
         \A o \in outcomes : Takes(o) /\ session' = o.session =>
           durable' = durable /\ Spares(session, session') /\ Intact(session, session')
  PROVE  Sound'
<1>1. PICK o \in outcomes :
        /\ Takes(o) /\ session' = o.session
        /\ \/ pc' = next /\ next # "idle" /\ UNCHANGED <<queue, told, locals>>
           \/ \E status \in {"done", "failed"} : Tell(status)
  BY DEF Only
<1>2. UNCHANGED <<transaction, transactions>> BY DEF Only
<1>3. durable' = durable /\ Spares(session, session') /\ Intact(session, session') BY <1>1
<1>4. CASE \E status \in {"done", "failed"} : Tell(status)
  <2>1. PICK status \in {"done", "failed"} : Tell(status) BY <1>4
  <2> QED BY <1>2, <1>3, <2>1, TellsSound
<1>5. CASE pc' = next /\ next # "idle" /\ UNCHANGED <<queue, told, locals>>
  <2>1. pc' \in {"version", "checkCas"} /\ UNCHANGED <<queue, told, failure>> BY <1>5 DEF locals
  <2>2. pc' \notin Past \cup {"baseline", "start"} /\ pc' \notin Late BY <2>1 DEF Past, Late
  <2> QED BY <1>2, <1>3, <1>5, <2>1, <2>2, MovesSound
<1> QED BY <1>1, <1>4, <1>5

LEMMA OpensQuietly ==
  ASSUME Typed, NEW o \in S!Connect(session), Takes(o), session' = o.session
  PROVE  durable' = durable /\ Spares(session, session') /\ Intact(session, session')
<1>1. Opens(Len(told), session, o) BY SaneNow, ConnectIs, Zenon
<1> QED BY <1>1, OpensSpares, TakesNothing

LEMMA SendsQuietly ==
  ASSUME Typed, Sound, NEW fn \in {"CHECK_CAS", "GET_DB_VERSION"},
         NEW o \in S!SendAndRecv(session, S!Request(fn, Mode)), Takes(o), session' = o.session
  PROVE  durable' = durable /\ Spares(session, session') /\ Intact(session, session')
<1>1. fn \in Functions \ {"COMMIT", "ROLLBACK"} /\ fn \notin S!Executing \cup {"PREPARE", "FETCH"}
  BY DEF Functions, S!Executing
<1> QED BY <1>1, ModeIs, SentLeaves

LEMMA ConnectNowSound ==
  ASSUME Typed, Typed', Sound, ConnectNow
  PROVE  Sound'
<1>1. Turn("connect") /\ Only(S!Connect(session), "idle") BY DEF ConnectNow
<1>2. "connect" \in CallNames \ Statements BY DEF CallNames, Statements
<1>3. /\ queue # <<>> /\ pc \notin Past /\ pc \notin Late /\ ~told[id].writes /\ failure = "none"
  BY <1>1, <1>2, TurnIs
<1>4. cas # 0 => cas' # 0 BY CasStays DEF ConnectNow
<1>5. \A o \in S!Connect(session) : Takes(o) /\ session' = o.session =>
        durable' = durable /\ Spares(session, session') /\ Intact(session, session')
  BY OpensQuietly, Zenon
<1> QED BY <1>1, <1>3, <1>4, <1>5, OnlySound

LEMMA PingConnectsSound ==
  ASSUME Typed, Typed', Sound, PingConnects
  PROVE  Sound'
<1> DEFINE next == IF autoCommit THEN "version" ELSE "checkCas"
<1>1. Turn("ping") /\ Only(S!Connect(session), next) BY DEF PingConnects
<1>2. "ping" \in CallNames \ Statements BY DEF CallNames, Statements
<1>3. /\ queue # <<>> /\ pc \notin Past /\ pc \notin Late /\ ~told[id].writes /\ failure = "none"
  BY <1>1, <1>2, TurnIs
<1>4. cas # 0 => cas' # 0 BY CasStays DEF PingConnects
<1>5. \A o \in S!Connect(session) : Takes(o) /\ session' = o.session =>
        durable' = durable /\ Spares(session, session') /\ Intact(session, session')
  BY OpensQuietly, Zenon
<1>6. Running.call = "ping" BY <1>1 DEF Turn
<1>7. next \in {"idle", "version", "checkCas"} OBVIOUS
<1> HIDE DEF next
<1> QED BY <1>1, <1>3, <1>4, <1>5, <1>6, <1>7, OnlySound

LEMMA PingGoesOn ==
  ASSUME Typed, Typed', Sound, pc \in {"checkCas", "version"}, cas' = cas,
         NEW fn \in {"CHECK_CAS", "GET_DB_VERSION"}, NEW next \in {"idle", "version"},
         Only(S!SendAndRecv(session, S!Request(fn, Mode)), next)
  PROVE  Sound'
<1> DEFINE outcomes == S!SendAndRecv(session, S!Request(fn, Mode))
<1>1. queue # <<>> BY PcRuns
<1>2. Running.call = "ping" BY DEF Sound, Listed
<1>3. Running.call \notin Statements BY <1>2 DEF Statements
<1>4. ~told[id].writes BY <1>1, <1>3, NoStatement
<1>5. pc \notin Past /\ pc \notin Late /\ failure = "none" BY DEF Past, Late, Sound, Known
<1>6. \A o \in outcomes : Takes(o) /\ session' = o.session =>
        durable' = durable /\ Spares(session, session') /\ Intact(session, session')
  BY SendsQuietly, Zenon
<1>7. Only(outcomes, next) /\ next \in {"idle", "version", "checkCas"} OBVIOUS
<1> HIDE DEF outcomes
<1> QED BY <1>1, <1>2, <1>4, <1>5, <1>6, <1>7, OnlySound

LEMMA PingSound ==
  ASSUME Typed, Typed', Sound, PingChecksCas \/ PingReadsVersion
  PROVE  Sound'
<1>1. CASE PingChecksCas
  <2>1. /\ pc = "checkCas" /\ cas' = cas
        /\ Only(S!SendAndRecv(session, S!Request("CHECK_CAS", Mode)), "version")
    BY <1>1 DEF PingChecksCas
  <2> QED BY <2>1, PingGoesOn
<1>2. CASE PingReadsVersion
  <2>1. /\ pc = "version" /\ cas' = cas
        /\ Only(S!SendAndRecv(session, S!Request("GET_DB_VERSION", Mode)), "idle")
    BY <1>2 DEF PingReadsVersion
  <2> QED BY <2>1, PingGoesOn
<1> QED BY <1>1, <1>2

LEMMA SetTransactionOptionsSound ==
  ASSUME Typed, Typed', Sound, SetTransactionOptions
  PROVE  Sound'
<1> DEFINE outcomes == IF ~autoCommit THEN {S!Outcome(session, "lost", {}, FALSE)}
                       ELSE IF cas = 0 THEN {S!Outcome(session, "ok", {}, FALSE)}
                       ELSE S!SetSessionParameters(session)
<1>1. Turn("setTransactionOptions") /\ cas' = cas /\ Only(outcomes, "idle")
  BY DEF SetTransactionOptions
<1>2. "setTransactionOptions" \in CallNames \ Statements BY DEF CallNames, Statements
<1>3. /\ queue # <<>> /\ pc \notin Past /\ pc \notin Late /\ ~told[id].writes /\ failure = "none"
      /\ autoCommit => session.work = {}
  BY <1>1, <1>2, TurnIs
<1>4. ASSUME NEW o \in outcomes, Takes(o), session' = o.session
      PROVE  durable' = durable /\ Spares(session, session') /\ Intact(session, session')
  <2>1. CASE \E reply \in {"lost", "ok"} : o = S!Outcome(session, reply, {}, FALSE)
    <3>1. o.session = session /\ o.durable = {} BY <2>1 DEF S!Outcome
    <3> QED BY <1>4, <3>1, SameSession, TakesNothing
  <2>2. CASE o \in S!SetSessionParameters(session) /\ autoCommit
    <3>1. Applies(Len(told), session, o) BY <2>2, SaneNow, SetParametersIs, Zenon
    <3> QED BY <1>3, <1>4, <2>2, <3>1, AppliesSpares, TakesNothing
  <2> QED BY <1>4, <2>1, <2>2
<1>5. \A o \in outcomes : Takes(o) /\ session' = o.session =>
        durable' = durable /\ Spares(session, session') /\ Intact(session, session')
  BY <1>4
<1> HIDE DEF outcomes
<1> QED BY <1>1, <1>3, <1>5, OnlySound

LEMMA CasGoesSound ==
  ASSUME Typed, Typed', Sound, CasGoes
  PROVE  Sound'
<1>1. /\ session' \in S!Leaves(session) \cup S!Crashes(session)
      /\ UNCHANGED <<cas, transaction, queue, pc, locals, told, transactions, durable>>
  BY DEF CasGoes
<1>2. Goes(Len(told), session, session') BY <1>1, SaneNow, GoesIs, Zenon
<1>3. Spares(session, session') /\ Intact(session, session') /\ session'.work = {}
  BY <1>2, GoesSpares DEF Goes
<1>4. /\ UNCHANGED <<cas, transaction, queue, pc, told, transactions, durable>>
      /\ generation' = generation /\ failure' = failure
  BY <1>1 DEF locals
<1>5. Stays BY <1>4 DEF Stays
<1>6. Advances
  <2>1. failure # "none" => pc \in {"releaseProbe", "release", "undo"} BY DEF Sound, Known
  <2>2. /\ pc \in Past \cup {"baseline", "start"} => Running.call \in Statements
        /\ pc \in {"checkCas", "version"} => Running.call = "ping"
        /\ pc = "commit" => Deferred
    BY DEF Sound, Listed, Known
  <2> QED BY <1>4, <2>1, <2>2 DEF Advances
<1>7. SparesSession BY <1>3, <1>4 DEF SparesSession
<1> QED BY <1>5, <1>6, <1>7, StaysSound

\* What a call adds to the queue and to the history.
LEMMA CallIs ==
  ASSUME Typed, NEW c \in workload.calls, Call(c)
  PROVE  /\ Len(told) \in Nat /\ Len(queue) \in Nat
         /\ Len(told') = Len(told) + 1 /\ Len(queue') = Len(queue) + 1
         /\ \A i \in 1..Len(queue) : queue'[i] = queue[i]
         /\ \A i \in Numbers : told'[i] = told[i]
         /\ queue'[Len(queue) + 1].id = Len(told) + 1
         /\ queue'[Len(queue) + 1].sql = c.sql /\ queue'[Len(queue) + 1].call = c.call
         /\ queue'[Len(queue) + 1].escapes = c.escapes
         /\ told'[Len(told) + 1].status = "waiting" /\ told'[Len(told) + 1].within = 0
         /\ told'[Len(told) + 1].ranOn = Nowhere /\ told'[Len(told) + 1].boundOn = Nowhere
         /\ told'[Len(told) + 1].insertId = None
         /\ told'[Len(told) + 1].writes <=> c.sql # "select"
<1> DEFINE n == Len(told)
           w == c.sql # "select"
           entry == [call |-> c.call, sql |-> c.sql, binds |-> c.binds, escapes |-> c.escapes,
                     id |-> n + 1, cas |-> cas', failedExchanges |-> session.failedExchanges]
           note == [status |-> "waiting", writes |-> w, calledOn |-> cas',
                    within |-> 0, ranOn |-> Nowhere, boundOn |-> Nowhere,
                    insertId |-> None, author |-> 0]
<1>1. /\ queue' = Append(queue, entry) /\ told' = Append(told, note)
      /\ GetOrCreateCAS \/ UNCHANGED <<cas, created>>
  BY DEF Call
<1>2. /\ n \in Nat /\ queue \in Seq(CallSet) /\ told \in Seq(ToldSet) /\ Len(queue) \in Nat
      /\ session.failedExchanges \in Nat /\ cas \in Nat /\ created \in Nat
  BY SaneNow DEF Typed
<1>3. cas' \in Nat BY <1>1, <1>2 DEF GetOrCreateCAS
<1>4. /\ entry \in CallSet /\ entry.id = n + 1 /\ entry.sql = c.sql /\ entry.call = c.call
      /\ entry.escapes = c.escapes
  <2>1. c \in [call : CallNames, sql : Sql, binds : BOOLEAN, escapes : BOOLEAN]
    BY WorkloadsAssumption DEF Typed, Workload
  <2> QED BY <1>2, <1>3, <2>1 DEF CallSet
<1>5. w \in BOOLEAN /\ (w <=> c.sql # "select") OBVIOUS
<1> HIDE DEF w
<1>6. /\ note \in ToldSet /\ note.status = "waiting" /\ note.within = 0 /\ note.writes = w
      /\ note.ranOn = Nowhere /\ note.boundOn = Nowhere /\ note.insertId = None
  BY <1>3, <1>5 DEF ToldSet, Nowhere, None
<1> HIDE DEF entry, note
<1>7. /\ Len(queue') = Len(queue) + 1 /\ queue'[Len(queue) + 1] = entry
      /\ \A i \in 1..Len(queue) : queue'[i] = queue[i]
  BY <1>1, <1>2, <1>4, AppendProperties
<1>8. /\ Len(told') = n + 1 /\ told'[n + 1] = note
      /\ \A i \in Numbers : told'[i] = told[i]
  <2>1. \A i \in 1..n : Append(told, note)[i] = told[i] BY <1>2, <1>6, AppendProperties
  <2> QED BY <1>1, <1>2, <1>6, <2>1, AppendProperties DEF Numbers
<1> QED BY <1>2, <1>4, <1>5, <1>6, <1>7, <1>8

\* One more statement is known of, and it is the last of the queue.
Queues ==
  /\ UNCHANGED <<session, transaction, pc, locals, transactions, durable>>
  /\ cas # 0 => cas' # 0
  /\ Len(told) + 1 \notin Numbers /\ Numbers' = Numbers \cup {Len(told) + 1}
  /\ \A i \in Numbers : told'[i] = told[i]
  /\ told'[Len(told) + 1].status = "waiting" /\ told'[Len(told) + 1].within = 0
  /\ queue = <<>> => pc = "idle"
  /\ queue # <<>> => id' = id /\ Running' = Running /\ id \in Numbers
  /\ Pending' = Pending \cup {Len(told) + 1} /\ Pending \subseteq Numbers
  /\ pc \in Late => Waiting' = Waiting \cup {Len(told) + 1} /\ Waiting \subseteq Numbers
  /\ session.work \subseteq Numbers /\ durable \subseteq Numbers

LEMMA CallQueues ==
  ASSUME Typed, NEW c \in workload.calls, Call(c)
  PROVE  Queues
<1> DEFINE n == Len(told)
           m == Len(queue)
<1>1. /\ n \in Nat /\ m \in Nat /\ Len(told') = n + 1 /\ Len(queue') = m + 1
      /\ \A i \in 1..m : queue'[i] = queue[i]
      /\ queue'[m + 1].id = n + 1
  BY CallIs
<1>2. /\ \A i \in Numbers : told'[i] = told[i]
      /\ told'[n + 1].status = "waiting" /\ told'[n + 1].within = 0
  BY CallIs
<1>3. /\ UNCHANGED <<session, transaction, pc, locals, transactions, durable>>
      /\ cas # 0 => cas' # 0
  BY CasStays DEF Call
<1>4. /\ n + 1 \notin Numbers /\ Numbers' = Numbers \cup {n + 1} BY <1>1 DEF Numbers
<1>5. \A i \in 1..m : queue[i].id \in Numbers BY DEF Typed, InOrder, Numbers
<1>6. pc # "idle" => queue # <<>> BY DEF Typed, InOrder
<1>7. queue \in Seq(CallSet) BY DEF Typed
<1>8. queue # <<>> => m # 0 BY <1>7, EmptySeq
<1>9. queue' # <<>>
  <2>1. Len(queue') # 0 BY <1>1
  <2> QED BY <2>1, EmptySeq
<1>10. queue # <<>> => id' = id /\ Running' = Running /\ id \in Numbers
  <2> SUFFICES ASSUME queue # <<>> PROVE id' = id /\ Running' = Running /\ id \in Numbers
    OBVIOUS
  <2>1. Running = queue[1] /\ id \in Numbers BY RunningIs
  <2>2. queue' = Append(queue, queue'[m + 1]) BY <1>1 DEF Call
  <2>3. Running' = queue'[1] BY <1>9 DEF Running
  <2>4. queue'[1] = queue[1]
    <3>1. 1 \in 1..m BY <1>1, <1>8
    <3> QED BY <1>1, <3>1
  <2> QED BY <2>1, <2>3, <2>4 DEF id
<1>11. Pending' = Pending \cup {n + 1} /\ Pending \subseteq Numbers
  <2>1. 1..(m + 1) = (1..m) \cup {m + 1} /\ m + 1 \notin 1..m BY <1>1
  <2> HIDE DEF n, m
  <2>2. Pending = {queue[i].id : i \in 1..m} BY DEF Pending, m
  <2>3. Pending' = {queue'[i].id : i \in 1..(m + 1)} BY <1>1 DEF Pending
  <2>4. Pending' = {queue'[i].id : i \in 1..m} \cup {queue'[m + 1].id} BY <2>1, <2>3
  <2>5. {queue'[i].id : i \in 1..m} = {queue[i].id : i \in 1..m} BY <1>1
  <2> QED BY <1>1, <1>5, <2>2, <2>4, <2>5
<1>12. pc \in Late => Waiting' = Waiting \cup {n + 1} /\ Waiting \subseteq Numbers
  <2> SUFFICES ASSUME pc \in Late PROVE Waiting' = Waiting \cup {n + 1} /\ Waiting \subseteq Numbers
    OBVIOUS
  <2>0. m # 0 BY <1>6, <1>8 DEF Late
  <2>1. 2..(m + 1) = (2..m) \cup {m + 1} /\ m + 1 \notin 2..m /\ 2..m \subseteq 1..m BY <1>1, <2>0
  <2> HIDE DEF n, m
  <2>2. Waiting = {queue[i].id : i \in 2..m} BY DEF Waiting, m
  <2>3. Waiting' = {queue'[i].id : i \in 2..(m + 1)} BY <1>1 DEF Waiting
  <2>4. Waiting' = {queue'[i].id : i \in 2..m} \cup {queue'[m + 1].id} BY <2>1, <2>3
  <2>5. {queue'[i].id : i \in 2..m} = {queue[i].id : i \in 2..m} BY <1>1, <2>1
  <2> QED BY <1>1, <1>5, <2>1, <2>2, <2>4, <2>5
<1>13. session.work \subseteq Numbers /\ durable \subseteq Numbers
  BY SaneNow DEF Typed, SessionSet, Numbers
<1> QED BY <1>2, <1>3, <1>4, <1>6, <1>10, <1>11, <1>12, <1>13 DEF Queues

LEMMA CallListed ==
  ASSUME Typed, Sound, NEW c \in workload.calls, Call(c), Queues
  PROVE  Listed'
<1> DEFINE last == Len(told) + 1
<1>1. /\ pc' = pc /\ session' = session /\ durable' = durable /\ transactions' = transactions
      /\ autoCommit' = autoCommit /\ Transaction' = Transaction
  BY DEF Queues, transaction, Transaction
<1>2. /\ last \notin Numbers /\ Numbers' = Numbers \cup {last}
      /\ \A i \in Numbers : told'[i] = told[i]
      /\ told'[last].status = "waiting" /\ told'[last].within = 0
      /\ Pending' = Pending \cup {last} /\ Pending \subseteq Numbers
      /\ pc \in Late => Waiting' = Waiting \cup {last} /\ Waiting \subseteq Numbers
      /\ session.work \subseteq Numbers /\ durable \subseteq Numbers
  BY DEF Queues
<1>3. Len(transactions) \in Nat BY WaysAre
<1>4. /\ Len(queue) \in Nat /\ Len(queue') = Len(queue) + 1
      /\ \A i \in 1..Len(queue) : queue'[i] = queue[i] /\ queue[i].id \in Numbers
      /\ queue'[Len(queue) + 1].id = last
      /\ queue'[Len(queue) + 1].sql = c.sql /\ queue'[Len(queue) + 1].call = c.call
      /\ told'[last].writes <=> c.sql # "select"
  <2>1. /\ Len(queue) \in Nat /\ Len(queue') = Len(queue) + 1 /\ Len(told) \in Nat
        /\ \A i \in 1..Len(queue) : queue'[i] = queue[i]
        /\ queue'[Len(queue) + 1].id = last
        /\ queue'[Len(queue) + 1].sql = c.sql /\ queue'[Len(queue) + 1].call = c.call
        /\ told'[last].writes <=> c.sql # "select"
    BY CallIs
  <2>2. Len(queue) \leq Len(told) /\ \A i \in 1..Len(queue) : queue[i].id = Len(told) - Len(queue) + i
    BY DEF Typed, InOrder
  <2>3. \A i \in 1..Len(queue) : queue[i].id \in Numbers BY <2>1, <2>2 DEF Numbers
  <2> QED BY <2>1, <2>3
<1>5. c.call \in Statements \/ c.sql = "select" BY WorkloadsAssumption DEF Typed, Workload
<1> HIDE DEF last
<1> USE DEF Sound, Listed
<1>6. \A i \in Numbers' : (told[i].within \in 0..Len(transactions))' BY <1>1, <1>2, <1>3
<1>7. \A i \in Pending' : (told[i].status = "waiting")' BY <1>2
<1>8. Unsent' = Unsent \cup {last} /\ Unsent \subseteq Numbers BY <1>1, <1>2 DEF Unsent
<1>9. \A i \in Unsent' : (told[i].within = 0 /\ i \notin session.work /\ i \notin durable)'
  BY <1>1, <1>2, <1>8
<1>10. ASSUME NEW k \in (1..Len(queue))'
       PROVE  (/\ told[queue[k].id].writes <=> queue[k].sql # "select"
               /\ queue[k].call \in Statements \/ queue[k].sql = "select")'
  <2>1. CASE k = Len(queue) + 1 BY <1>4, <1>5, <2>1
  <2>2. CASE k # Len(queue) + 1
    <3>1. k \in 1..Len(queue) BY <1>4, <2>2
    <3> QED BY <1>2, <1>4, <3>1
  <2> QED BY <2>1, <2>2
<1>11. (/\ pc \in Late => told[id].within = Transaction
        /\ pc \in Past \cup {"baseline", "start"} => Running.call \in Statements
        /\ pc \in {"checkCas", "version"} => Running.call = "ping")'
  BY <1>1, <1>2 DEF Queues, Past, Late
<1> QED BY <1>6, <1>7, <1>9, <1>10, <1>11

LEMMA CallSound ==
  ASSUME Typed, Typed', Sound, NEW c \in workload.calls, Call(c)
  PROVE  Sound'
<1> DEFINE last == Len(told) + 1
<1>1. Queues BY CallQueues
<1>2. Listed' BY <1>1, CallListed
<1>3. /\ pc' = pc /\ session' = session /\ durable' = durable /\ transactions' = transactions
      /\ autoCommit' = autoCommit /\ Transaction' = Transaction /\ bound' = bound
      /\ endReplies' = endReplies /\ transactionAbort' = transactionAbort
      /\ failure' = failure /\ generation' = generation /\ (cas # 0 => cas' # 0)
  BY <1>1 DEF Queues, transaction, locals, Transaction, bound, endReplies
<1>4. /\ last \notin Numbers /\ Numbers' = Numbers \cup {last}
      /\ \A i \in Numbers : told'[i] = told[i]
      /\ told'[last].status = "waiting" /\ told'[last].within = 0
      /\ session.work \subseteq Numbers /\ durable \subseteq Numbers
      /\ queue = <<>> => pc = "idle"
      /\ queue # <<>> => id' = id /\ Running' = Running /\ id \in Numbers
  BY <1>1 DEF Queues
<1> HIDE DEF last
<1>5. pc # "idle" => (Deferred' <=> Deferred) BY <1>3, <1>4 DEF Deferred
<1>6. Alone' <=> Alone BY <1>3, <1>5 DEF Alone, Late
<1>16. /\ pc \in Got => queue # <<>> /\ id' = id /\ id \in Numbers
       /\ pc' = pc /\ failure' = failure
  BY <1>3, <1>4 DEF Got
<1>7. \A i \in Numbers' : i \notin Numbers => ~Good(i)' /\ ~Acknowledged(i)'
  <2> SUFFICES ASSUME NEW i \in Numbers', i \notin Numbers PROVE ~Good(i)' /\ ~Acknowledged(i)'
    OBVIOUS
  <2>1. told'[i].status = "waiting" BY <1>4
  <2> QED BY <1>16, <2>1 DEF Good, Acknowledged
<1>8. \A i \in Numbers : (Good(i)' => Good(i)) /\ (Acknowledged(i)' <=> Acknowledged(i))
  <2> TAKE i \in Numbers
  <2>1. told'[i] = told[i] BY <1>4
  <2> QED BY <1>16, <2>1 DEF Good, Acknowledged
<1>10. Known' BY <1>3, <1>5 DEF Sound, Known, Past, Late
<1>11. Uncommitted'
  <2>1. Alone => id' = id BY <1>4 DEF Alone, Late
  <2>2. Uncommitted BY DEF Sound
  <2>3. \A i \in session.work : told'[i] = told[i] BY <1>4
  <2> QED BY <1>3, <1>6, <2>1, <2>2, <2>3 DEF Uncommitted, Aborting
<1>12. InSession'
  <2> SUFFICES ASSUME NEW i \in Numbers', ~autoCommit, told'[i].within = Transaction, Good(i)'
               PROVE  bound # 0 /\ endReplies # -1 /\ (Healthy' => i \in session.work)
    BY <1>3 DEF InSession
  <2>1. i \in Numbers /\ Good(i) /\ told[i].within = Transaction BY <1>4, <1>7, <1>8
  <2>2. Healthy' <=> Healthy BY <1>3 DEF Healthy, Aborting
  <2> QED BY <2>1, <2>2 DEF Sound, InSession
<1>13. OnItsOwn'
  <2>1. Alone => id' = id BY <1>4 DEF Alone, Late
  <2> SUFFICES ASSUME NEW i \in Numbers', told'[i].within = 0, Good(i)'
               PROVE  \/ i \in durable
                      \/ /\ Alone /\ i = id /\ pc \in {"fetch", "lastId", "commit"}
                         /\ session.up /\ session.generation = generation => i \in session.work
    BY <1>3, <1>6, <2>1 DEF OnItsOwn
  <2>2. i \in Numbers /\ Good(i) /\ told[i].within = 0 BY <1>4, <1>7, <1>8
  <2> QED BY <2>2 DEF Sound, OnItsOwn
<1>14. AllOrNothing'
  <2> SUFFICES ASSUME NEW i \in durable, NEW j \in Numbers', told'[i].within # 0,
                      told'[j].within = told'[i].within, Acknowledged(j)'
               PROVE  j \in durable
    BY <1>3 DEF AllOrNothing
  <2>1. told'[i] = told[i] BY <1>4
  <2>2. j \in Numbers /\ Acknowledged(j) BY <1>7, <1>8
  <2>3. told'[j] = told[j] BY <1>4, <2>2
  <2>4. AllOrNothing BY DEF Sound, Outcomes
  <2> QED BY <2>1, <2>2, <2>3, <2>4 DEF AllOrNothing
<1>15. Outcomes' BY <1>3, <1>4, <1>7, <1>8, <1>14 DEF Sound, Outcomes
<1> QED BY <1>2, <1>10, <1>11, <1>12, <1>13, <1>15 DEF Sound

-----------------------------------------------------------------------------
(* The theorems about transactions.                                        *)

LEMMA EveryStepSound ==
  ASSUME Typed, Typed', Sound, Prepares \/ Runs \/ EndsOrBegins \/ Other \/ CasGoes
  PROVE  Sound'
<1>1. CASE Prepares
  BY <1>1, BeginExecuteSound, BaselineRefusedSound, BaselineUnreadSound, ReadBaselineSound,
     StartRefusedSound, EnsureSessionSound, ProbeModeSound, ReleaseProbeSound DEF Prepares
<1>2. CASE Runs
  BY <1>2, SendStatementSound, MarkersMismatchSound, ExecuteHandleSound, FetchWindowSound,
     ReadInsertIdSound, CommitStatementSound, ReleaseHandleSound, UndoStatementSound DEF Runs
<1>3. CASE EndsOrBegins
  BY <1>3, BeginRefusedSound, BeginTransactionSound, CommitRefusedSound, CommitSound,
     RollbackRefusedSound, RollbackSound DEF EndsOrBegins
<1>4. CASE Other
  BY <1>4, CloseSound, ConnectNowSound, PingConnectsSound, PingSound, SetTransactionOptionsSound
     DEF Other
<1> QED BY <1>1, <1>2, <1>3, <1>4, CasGoesSound

LEMMA InitSound ==
  ASSUME Init
  PROVE  Sound
<1>1. /\ session = S!NewSession /\ autoCommit = TRUE /\ bound = 0 /\ endReplies = -1
      /\ transactionAbort = FALSE /\ queue = <<>> /\ pc = "idle" /\ failure = "none"
      /\ told = <<>> /\ transactions = <<>> /\ durable = {}
  BY DEF Init, bound, endReplies
<1>2. /\ session.work = {} /\ session.generation = 0 /\ session.outOfTransactionReplies = 0
  BY <1>1, NewSessionIs
<1>3. Numbers = {} /\ Len(transactions) = 0 /\ Len(queue) = 0 BY <1>1 DEF Numbers
<1>4. 1..Len(transactions) = {} /\ 1..Len(queue) = {} BY <1>3
<1>5. Pending = {} /\ Unsent = {} BY <1>1, <1>4 DEF Pending, Unsent, Late
<1>6. Listed BY <1>1, <1>3, <1>4, <1>5 DEF Listed, Past, Late
<1>7. Known BY <1>1, <1>2, <1>4 DEF Known, Past, Late
<1>8. Uncommitted BY <1>1, <1>2 DEF Uncommitted, Alone, Late
<1>9. InSession /\ OnItsOwn BY <1>3 DEF InSession, OnItsOwn
<1>10. Outcomes BY <1>1, <1>3 DEF Outcomes, AllOrNothing
<1> QED BY <1>6, <1>7, <1>8, <1>9, <1>10 DEF Sound

LEMMA NextSound ==
  ASSUME Typed, Typed', Sound, [Next]_vars
  PROVE  Sound'
<1>1. CASE UNCHANGED vars
  <2>1. UNCHANGED <<session, cas, transaction, queue, pc, generation, failure, told, transactions, durable>>
    BY <1>1 DEF vars, connection, locals
  <2>2. Stays BY <2>1 DEF Stays
  <2>3. Advances
    BY <2>1 DEF Advances, Sound, Known, Listed
  <2>4. SparesSession BY <2>1, SameSession DEF SparesSession
  <2> QED BY <2>2, <2>3, <2>4, StaysSound
<1>2. CASE Next
  <2>1. CASE \E c \in workload.calls : Call(c) BY <2>1, CallSound
  <2>2. CASE Prepares \/ Runs \/ EndsOrBegins \/ Other \/ CasGoes BY <2>2, EveryStepSound
  <2> QED BY <1>2, <2>1, <2>2 DEF Next
<1> QED BY <1>1, <1>2

LEMMA AlwaysSound == Spec => [](Typed /\ Sound)
<1> DEFINE Inv == Typed /\ Behind /\ Sound
<1>1. Init => Inv BY InitTyped, InitSound
<1>2. Inv /\ [Next]_vars => Inv'
  <2> SUFFICES ASSUME Inv, [Next]_vars PROVE Inv'
    OBVIOUS
  <2>1. Typed' /\ Behind' BY NextTyped
  <2> QED BY <2>1, NextSound
<1>3. Inv => Typed /\ Sound OBVIOUS
<1> HIDE DEF Inv
<1> QED BY <1>1, <1>2, <1>3, PTL DEF Spec

(* All or nothing, for every number of statements, sessions and faults: once *)
(* one change of a transaction is durable, so is every other that the caller *)
(* was told of.  Losing the session, a rollback by the server or an end that *)
(* nobody asked for never leaves a part of it to be committed                *)
(* (assertTransactionSession, transactionEnded, commitNow in native.ts).     *)
THEOREM AllOrNothingHolds == Spec => []AllOrNothing
<1>1. Sound => AllOrNothing BY DEF Sound, Outcomes
<1> QED BY <1>1, AlwaysSound, PTL

(* What commit() and rollback() tell of the transaction is so: after the one *)
(* all that was acknowledged is durable, after the other nothing is          *)
(* (commitNow, rollbackNow, endTransactionIfSessionLost).                    *)
THEOREM OutcomesAreTrue == Spec => []OutcomeIsTrue
<1>1. Typed /\ Sound => OutcomeIsTrue
  <2> SUFFICES ASSUME Typed, Sound, NEW i \in Numbers, told[i].within # 0
               PROVE  /\ transactions[told[i].within] = "committed" /\ Acknowledged(i) => i \in durable
                      /\ transactions[told[i].within] = "rolled back" => i \notin durable
    BY DEF OutcomeIsTrue
  <2> QED BY DEF Sound, Outcomes
<1> QED BY <1>1, AlwaysSound, PTL

(* A statement acknowledged outside of a transaction is durable, whether its *)
(* reply committed it or a COMMIT of its own that could have been lost with  *)
(* the session (runStatement, endStatementTransaction).                      *)
THEOREM AcknowledgedIsDurable == Spec => []AutocommitIsDurable
<1>1. Typed /\ Sound => AutocommitIsDurable
  <2> SUFFICES ASSUME Typed, Sound, NEW i \in Numbers, Acknowledged(i), told[i].within = 0
               PROVE  i \in durable
    BY DEF AutocommitIsDurable
  <2>1. Good(i) BY DEF Good, Acknowledged
  <2>2. CASE Alone /\ i = id
    <3>1. pc # "idle" BY <2>2 DEF Alone, Late
    <3>2. queue # <<>> BY <3>1, PcRuns
    <3>3. id \in Pending BY <3>2, RunningIs DEF Pending
    <3>4. told[id].status = "waiting" BY <3>3 DEF Sound, Listed
    <3> QED BY <2>2, <3>4 DEF Acknowledged
  <2> QED BY <2>1, <2>2 DEF Sound, OnItsOwn
<1> QED BY <1>1, AlwaysSound, PTL

\* Nothing is left that the next call could commit without anybody asking for it.
NoStrayWork == pc = "idle" /\ autoCommit => session.work = {}

(* Between two calls in autocommit mode the session holds no uncommitted     *)
(* work, so the COMMIT that the next call sends, or lets the server do,      *)
(* makes nothing durable but that call's own (runStatement, discardSession). *)
THEOREM NothingStrays == Spec => []NoStrayWork
<1>1. Sound => NoStrayWork BY DEF Sound, Uncommitted, NoStrayWork, Alone, Late
<1> QED BY <1>1, AlwaysSound, PTL

=============================================================================
