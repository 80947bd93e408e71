----------------------------- MODULE Client_proofs -----------------------------
(***************************************************************************)
(* What Client guarantees for every number of calls: the calls share one   *)
(* connection, and a close() that succeeds leaves nothing open and nothing *)
(* undecided.  Both rest on the order of the lists of a connection: a      *)
(* close() stands behind everything that was called before it, and the     *)
(* lookups, which come back to the list of operations, are over before it  *)
(* joins.                                                                  *)
(***************************************************************************)
EXTENDS Client, Functions, TLAPS

Stages == {"lookups", "shared", "asked", "answered", "fulfilled", "rejected"}
CallSet ==
  [name : DOMAIN Statements \cup {"close"}, at : Stages, on : Nat, left : Nat, waits : SUBSET Nat]
ConnectionSet ==
  [at : {"connecting", "preparing", "discarding", "ready", "failed"},
   waiters : Seq(Nat), operations : Seq(Nat), open : BOOLEAN]

Typed ==
  /\ closed \in BOOLEAN
  /\ connections \in Seq(ConnectionSet) /\ shared \in 0..Len(connections)
  /\ calls \in Seq(CallSet)

(* The calls at one stage, and the close() calls. *)
AtStage(stage) == {d \in Numbers : calls[d].at = stage}
Closes == {d \in Numbers : calls[d].name = "close"}

(* A list without duplicates; and one in which nothing follows a member of C but others. *)
Once(s) == \A i, j \in DOMAIN s : s[i] = s[j] => i = j
Ordered(s, C) == \A i, j \in DOMAIN s : i < j /\ s[i] \in C => s[j] \in C

(* A call is in one list, the one its stage says. *)
Listed ==
  \A n \in DOMAIN connections :
    /\ Range(connections[n].waiters) \subseteq AtStage("shared")
    /\ Range(connections[n].operations) \subseteq AtStage("asked")

ListedOnce ==
  \A n \in DOMAIN connections :
    /\ Once(connections[n].waiters) /\ Once(connections[n].operations)
    /\ \A m \in DOMAIN connections \ {n} :
         /\ Range(connections[m].waiters) \cap Range(connections[n].waiters) = {}
         /\ Range(connections[m].operations) \cap Range(connections[n].operations) = {}

Found ==
  /\ \A d \in AtStage("shared") : \E n \in DOMAIN connections : d \in Range(connections[n].waiters)
  /\ \A d \in AtStage("asked") : \E n \in DOMAIN connections : d \in Range(connections[n].operations)

(* Only a lookup has statements to come, and only a close() waits for lookups. *)
Stepping ==
  \A d \in Numbers :
    /\ calls[d].at = "lookups" => calls[d].name = "close"
    /\ calls[d].left > 0 => calls[d].name \in Lookups
    /\ calls[d].at \in {"asked", "answered"} =>
         calls[d].on \in DOMAIN connections /\ connections[calls[d].on].at = "ready"

(* A close() stands behind everything that was called before it. *)
ClosesLast ==
  \A n \in DOMAIN connections :
    /\ Ordered(connections[n].waiters, Closes) /\ Ordered(connections[n].operations, Closes)
    /\ \/ Range(connections[n].operations) \cap Closes = {}
       \/ Range(connections[n].waiters) \subseteq Closes

LookupsFirst ==
  \A c \in Closes :
    /\ closed
    /\ \A d \in Numbers : calls[d].name \in Lookups =>
         Settled(d) \/ (calls[c].at = "lookups" /\ d \in calls[c].waits)

(* A close() has succeeded. *)
Over == \E c \in Closes : calls[c].at \in {"answered", "fulfilled"}

OneShared ==
  /\ \A n \in DOMAIN connections :
       /\ connections[n].at # "ready" => connections[n].operations = <<>>
       /\ connections[n].at \in {"connecting", "preparing", "failed"} => ~connections[n].open
  /\ ~Over => \A n \in DOMAIN connections : n # shared => connections[n].at = "failed"

NothingLeft ==
  Over => \A n \in DOMAIN connections :
    /\ connections[n].at \in {"ready", "failed"} /\ ~connections[n].open
    /\ Range(connections[n].operations) \subseteq Closes
    /\ connections[n].at = "ready" => Range(connections[n].waiters) \subseteq Closes

IInv ==
  /\ Typed /\ Listed /\ ListedOnce /\ Found /\ Stepping
  /\ ClosesLast /\ LookupsFirst /\ OneShared /\ NothingLeft

-----------------------------------------------------------------------------
(* Lists.                                                                  *)

LEMMA Appended ==
  ASSUME NEW S, NEW s \in Seq(S), NEW e \in S
  PROVE  /\ Append(s, e) \in Seq(S) /\ Len(Append(s, e)) = Len(s) + 1
         /\ DOMAIN Append(s, e) = 1..(Len(s) + 1) /\ DOMAIN s = 1..Len(s) /\ Len(s) \in Nat
         /\ \A i \in 1..Len(s) : Append(s, e)[i] = s[i]
         /\ Append(s, e)[Len(s) + 1] = e
OBVIOUS

LEMMA AppendList ==
  ASSUME NEW s \in Seq(Nat), NEW d \in Nat
  PROVE  /\ Append(s, d) \in Seq(Nat)
         /\ Range(Append(s, d)) = Range(s) \cup {d}
         /\ Once(s) /\ d \notin Range(s) => Once(Append(s, d))
         /\ \A C : Ordered(s, C) /\ (d \in C \/ Range(s) \cap C = {}) => Ordered(Append(s, d), C)
<1> DEFINE t == Append(s, d)
<1>1. /\ t \in Seq(Nat) /\ DOMAIN t = 1..(Len(s) + 1) /\ DOMAIN s = 1..Len(s) /\ Len(s) \in Nat
      /\ \A i \in 1..Len(s) : t[i] = s[i]
      /\ t[Len(s) + 1] = d
  BY Appended
<1> HIDE DEF t
<1>2. Range(t) = Range(s) \cup {d}
  <2>1. \A i \in DOMAIN t : i = Len(s) + 1 \/ (i \in DOMAIN s /\ t[i] = s[i]) BY <1>1
  <2>2. Range(t) \subseteq Range(s) \cup {d} BY <1>1, <2>1 DEF Range
  <2>3. \A i \in DOMAIN s : i \in DOMAIN t /\ t[i] = s[i] BY <1>1
  <2>4. Len(s) + 1 \in DOMAIN t BY <1>1
  <2>5. Range(s) \subseteq Range(t) BY <2>3 DEF Range
  <2>6. d \in Range(t) BY <1>1, <2>4 DEF Range
  <2> QED BY <2>2, <2>5, <2>6
<1>3. Once(s) /\ d \notin Range(s) => Once(t)
  <2> SUFFICES ASSUME Once(s), d \notin Range(s), NEW i \in DOMAIN t, NEW j \in DOMAIN t, t[i] = t[j]
               PROVE  i = j
    BY DEF Once
  <2>1. \A k \in DOMAIN t : k = Len(s) + 1 \/ (k \in DOMAIN s /\ t[k] = s[k]) BY <1>1
  <2>2. \A k \in DOMAIN s : s[k] # d BY DEF Range
  <2> QED BY <1>1, <2>1, <2>2 DEF Once
<1>4. ASSUME NEW C, Ordered(s, C), d \in C \/ Range(s) \cap C = {} PROVE Ordered(t, C)
  <2> SUFFICES ASSUME NEW i \in DOMAIN t, NEW j \in DOMAIN t, i < j, t[i] \in C PROVE t[j] \in C
    BY DEF Ordered
  <2>1. i \in DOMAIN s /\ t[i] = s[i] /\ s[i] \in Range(s) BY <1>1 DEF Range
  <2>2. CASE j = Len(s) + 1 BY <1>1, <1>4, <2>1, <2>2
  <2>3. CASE j # Len(s) + 1 
    <3>1. j \in DOMAIN s /\ t[j] = s[j] BY <1>1, <2>3
    <3> QED BY <1>4, <2>1, <3>1 DEF Ordered
  <2> QED BY <2>2, <2>3
<1>5. \A C : Ordered(s, C) /\ (d \in C \/ Range(s) \cap C = {}) => Ordered(t, C) BY <1>4
<1>6. t \in Seq(Nat) BY <1>1
<1> QED BY <1>2, <1>3, <1>5, <1>6, Zenon DEF t

LEMMA TailList ==
  ASSUME NEW s \in Seq(Nat), s # <<>>
  PROVE  /\ Tail(s) \in Seq(Nat) /\ Head(s) \in Range(s) /\ Head(s) \in Nat
         /\ Range(s) = Range(Tail(s)) \cup {Head(s)}
         /\ Once(s) => Once(Tail(s)) /\ Head(s) \notin Range(Tail(s))
         /\ \A C : Ordered(s, C) => Ordered(Tail(s), C)
         /\ \A C : Ordered(s, C) /\ Head(s) \in C => Range(s) \subseteq C
<1> DEFINE t == Tail(s)
<1>1. /\ t \in Seq(Nat) /\ DOMAIN t = 1..(Len(s) - 1) /\ DOMAIN s = 1..Len(s) /\ Len(s) \in Nat \ {0}
      /\ \A i \in 1..(Len(s) - 1) : t[i] = s[i + 1]
      /\ Head(s) = s[1] /\ s[1] \in Nat
  OBVIOUS
<1> HIDE DEF t
<1>2. ASSUME NEW i \in DOMAIN s, i # 1 PROVE i - 1 \in DOMAIN t /\ s[i] = t[i - 1]
  <2>1. i - 1 \in 1..(Len(s) - 1) /\ (i - 1) + 1 = i BY <1>1, <1>2
  <2> QED BY <1>1, <2>1
<1>3. \A i \in DOMAIN t : i + 1 \in DOMAIN s /\ t[i] = s[i + 1] BY <1>1
<1>4. 1 \in DOMAIN s BY <1>1
<1>5. Range(s) = Range(t) \cup {Head(s)}
  <2>1. ASSUME NEW i \in DOMAIN s PROVE s[i] \in Range(t) \cup {Head(s)}
    BY <1>1, <1>2 DEF Range
  <2>2. Range(t) \subseteq Range(s) /\ Head(s) \in Range(s) BY <1>1, <1>3, <1>4 DEF Range
  <2>3. Range(s) \subseteq Range(t) \cup {Head(s)} BY <2>1 DEF Range
  <2> QED BY <2>2, <2>3
<1>6. Once(s) => Once(t) /\ Head(s) \notin Range(t)
  <2> SUFFICES ASSUME Once(s) PROVE Once(t) /\ Head(s) \notin Range(t) OBVIOUS
  <2>1. Once(t)
    <3> SUFFICES ASSUME NEW i \in DOMAIN t, NEW j \in DOMAIN t, t[i] = t[j] PROVE i = j BY DEF Once
    <3>1. i + 1 = j + 1 BY <1>3 DEF Once
    <3> QED BY <1>1, <3>1
  <2>2. ASSUME NEW i \in DOMAIN t, t[i] = s[1] PROVE FALSE
    <3>1. i + 1 = 1 BY <1>3, <1>4, <2>2 DEF Once
    <3> QED BY <1>1, <3>1
  <2> QED BY <1>1, <2>1, <2>2 DEF Range
<1>7. ASSUME NEW C, Ordered(s, C) PROVE Ordered(t, C)
  <2> SUFFICES ASSUME NEW i \in DOMAIN t, NEW j \in DOMAIN t, i < j, t[i] \in C PROVE t[j] \in C
    BY DEF Ordered
  <2>1. i + 1 < j + 1 BY <1>1
  <2> QED BY <1>3, <1>7, <2>1 DEF Ordered
<1>8. ASSUME NEW C, Ordered(s, C), Head(s) \in C PROVE Range(s) \subseteq C
  <2>1. ASSUME NEW i \in DOMAIN s PROVE s[i] \in C
    <3>1. i = 1 \/ 1 < i BY <1>1
    <3> QED BY <1>1, <1>4, <1>8, <3>1 DEF Ordered
  <2> QED BY <2>1 DEF Range
<1> QED BY <1>1, <1>4, <1>5, <1>6, <1>7, <1>8 DEF t, Range

\* Whether a list is ordered depends on its members only.
LEMMA OrderKept ==
  ASSUME NEW s, NEW C, NEW D, Range(s) \cap C = Range(s) \cap D, Ordered(s, C)
  PROVE  Ordered(s, D)
BY DEF Ordered, Range

LEMMA EmptyList ==
  /\ Range(<<>>) = {} /\ Once(<<>>) /\ \A C : Ordered(<<>>, C)
  /\ \A d : Range(<<d>>) = {d} /\ Once(<<d>>) /\ \A C : Ordered(<<d>>, C)
BY DEF Range, Once, Ordered

-----------------------------------------------------------------------------
(* What a step changes in the lists of a connection, and in its calls.     *)

\* The record of one connection, or of one call, is replaced.
LEMMA Replaced ==
  ASSUME NEW S, NEW s \in Seq(S), NEW n \in DOMAIN s, NEW r \in S
  PROVE  /\ [s EXCEPT ![n] = r] \in Seq(S) /\ Len([s EXCEPT ![n] = r]) = Len(s)
         /\ DOMAIN [s EXCEPT ![n] = r] = DOMAIN s
         /\ \A m \in DOMAIN s : [s EXCEPT ![n] = r][m] = IF m = n THEN r ELSE s[m]
OBVIOUS

LEMMA ConnectionFields ==
  ASSUME NEW r \in ConnectionSet
  PROVE  /\ r.at \in {"connecting", "preparing", "discarding", "ready", "failed"}
         /\ r.waiters \in Seq(Nat) /\ r.operations \in Seq(Nat) /\ r.open \in BOOLEAN
BY DEF ConnectionSet

LEMMA CallFields ==
  ASSUME NEW r \in CallSet
  PROVE  /\ r.name \in DOMAIN Statements \cup {"close"} /\ r.at \in Stages
         /\ r.on \in Nat /\ r.left \in Nat /\ r.waits \in SUBSET Nat
BY DEF CallSet

\* Call d joins those that await the promise of connection n.
LEMMA Awaits ==
  ASSUME Typed, NEW n \in DOMAIN connections, NEW d \in Nat, Await(n, d)
  PROVE  /\ connections' \in Seq(ConnectionSet) /\ Len(connections') = Len(connections)
         /\ DOMAIN connections' = DOMAIN connections
         /\ \A m \in DOMAIN connections :
              /\ connections'[m].at = connections[m].at
              /\ connections'[m].open = connections[m].open
              /\ connections'[m].operations = connections[m].operations
              /\ m # n => connections'[m].waiters = connections[m].waiters
         /\ connections'[n].waiters = Append(connections[n].waiters, d)
<1> DEFINE r == [connections[n] EXCEPT !.waiters = Append(@, d)]
<1>1. connections[n] \in ConnectionSet /\ connections \in Seq(ConnectionSet) BY DEF Typed
<1>2. connections[n].waiters \in Seq(Nat) BY <1>1, ConnectionFields
<1>3. Append(connections[n].waiters, d) \in Seq(Nat) BY <1>2
<1>4. /\ r \in ConnectionSet /\ r.at = connections[n].at /\ r.open = connections[n].open
      /\ r.operations = connections[n].operations
      /\ r.waiters = Append(connections[n].waiters, d)
  BY <1>1, <1>3 DEF ConnectionSet
<1>5. connections' = [connections EXCEPT ![n] = r] BY DEF Await
<1> HIDE DEF r
<1> QED BY <1>1, <1>4, <1>5, Replaced

\* The record of connection n is replaced.
LEMMA ConnectionReplaced ==
  ASSUME Typed, NEW n \in DOMAIN connections, NEW r \in ConnectionSet,
         connections' = [connections EXCEPT ![n] = r]
  PROVE  /\ connections' \in Seq(ConnectionSet) /\ Len(connections') = Len(connections)
         /\ DOMAIN connections' = DOMAIN connections
         /\ connections'[n] = r
         /\ \A m \in DOMAIN connections : m # n => connections'[m] = connections[m]
<1>1. connections \in Seq(ConnectionSet) BY DEF Typed
<1> QED BY <1>1, Replaced

\* The record of call c is replaced; the others keep theirs.
LEMMA CallReplaced ==
  ASSUME Typed, NEW c \in Numbers, NEW r \in CallSet, calls' = [calls EXCEPT ![c] = r]
  PROVE  /\ calls' \in Seq(CallSet) /\ Len(calls') = Len(calls) /\ Numbers' = Numbers
         /\ calls'[c] = r
         /\ \A d \in Numbers : d # c => calls'[d] = calls[d]
<1>1. calls \in Seq(CallSet) /\ c \in DOMAIN calls /\ DOMAIN calls = Numbers BY DEF Typed, Numbers
<1>2. /\ calls' \in Seq(CallSet) /\ Len(calls') = Len(calls)
      /\ \A d \in DOMAIN calls : calls'[d] = IF d = c THEN r ELSE calls[d]
  BY <1>1, Replaced
<1> QED BY <1>1, <1>2 DEF Numbers

\* A new call.
LEMMA CallMade ==
  ASSUME Typed, NEW name \in DOMAIN Statements \cup {"close"}, NEW at \in Stages,
         NEW waits \in SUBSET Nat, calls' = Append(calls, Call(name, at, waits))
  PROVE  LET c == Len(calls) + 1
         IN  /\ calls' \in Seq(CallSet) /\ Len(calls') = c /\ Numbers' = Numbers \cup {c}
             /\ c \in Nat /\ c \notin Numbers
             /\ calls'[c].name = name /\ calls'[c].at = at /\ calls'[c].waits = waits
             /\ calls'[c].left = 0
             /\ \A d \in Numbers : calls'[d] = calls[d]
<1> DEFINE r == Call(name, at, waits)
<1>1. calls \in Seq(CallSet) BY DEF Typed
<1>2. /\ r \in CallSet /\ r.name = name /\ r.at = at /\ r.waits = waits /\ r.left = 0
  BY DEF Call, CallSet
<1>0. calls' = Append(calls, r) OBVIOUS
<1> HIDE DEF r
<1>3. /\ calls' \in Seq(CallSet) /\ Len(calls') = Len(calls) + 1 /\ Len(calls) \in Nat
      /\ \A d \in 1..Len(calls) : calls'[d] = calls[d]
      /\ calls'[Len(calls) + 1] = r
  BY <1>0, <1>1, <1>2, Appended
<1> QED BY <1>2, <1>3 DEF Numbers

\* What the invariant says of one connection.
LEMMA ConnectionKnown ==
  ASSUME Typed, NEW n \in DOMAIN connections
  PROVE  /\ connections[n] \in ConnectionSet
         /\ connections[n].waiters \in Seq(Nat) /\ connections[n].operations \in Seq(Nat)
         /\ connections[n].open \in BOOLEAN
         /\ DOMAIN connections = 1..Len(connections) /\ Len(connections) \in Nat
<1>1. connections[n] \in ConnectionSet /\ connections \in Seq(ConnectionSet) BY DEF Typed
<1> QED BY <1>1, ConnectionFields

-----------------------------------------------------------------------------
(* Steps that only make a call, or only settle one.                        *)

\* Neither lists nor connections change, and no call that is in a list.
LEMMA CallsOnly ==
  ASSUME IInv, UNCHANGED connections,
         shared' = shared \/ (shared' = 0 /\ Over),
         closed' \in BOOLEAN, calls' \in Seq(CallSet), Numbers \subseteq Numbers',
         AtStage("shared")' = AtStage("shared"), AtStage("asked")' = AtStage("asked"),
         Closes' \cap Numbers = Closes,
         Stepping', LookupsFirst', Over => Over', Over' => Over \/ shared = 0
  PROVE  IInv'
<1>1. Typed' BY DEF IInv, Typed
<1>2. Listed' BY DEF IInv, Listed
<1>3. ListedOnce' BY DEF IInv, ListedOnce
<1>4. Found' BY DEF IInv, Found
<1>5. \A n \in DOMAIN connections :
        /\ Range(connections[n].waiters) \cap Closes' = Range(connections[n].waiters) \cap Closes
        /\ Range(connections[n].operations) \cap Closes' = Range(connections[n].operations) \cap Closes
  BY DEF IInv, Listed, AtStage
<1>6. ClosesLast'
  <2> SUFFICES ASSUME NEW n \in DOMAIN connections
               PROVE  /\ Ordered(connections[n].waiters, Closes')
                      /\ Ordered(connections[n].operations, Closes')
                      /\ \/ Range(connections[n].operations) \cap Closes' = {}
                         \/ Range(connections[n].waiters) \subseteq Closes'
    BY DEF ClosesLast
  <2>1. /\ Ordered(connections[n].waiters, Closes) /\ Ordered(connections[n].operations, Closes)
        /\ \/ Range(connections[n].operations) \cap Closes = {}
           \/ Range(connections[n].waiters) \subseteq Closes
    BY DEF IInv, ClosesLast
  <2>2. Ordered(connections[n].waiters, Closes') /\ Ordered(connections[n].operations, Closes')
    BY <1>5, <2>1, OrderKept
  <2> QED BY <1>5, <2>1, <2>2
<1>7. OneShared' BY DEF IInv, OneShared
<1>8. NothingLeft'
  <2>1. CASE Over BY <1>5, <2>1 DEF IInv, NothingLeft
  <2>2. CASE ~Over /\ Over'
    <3>1. shared = 0 /\ \A n \in DOMAIN connections : n # 0 BY <2>2 DEF IInv, Typed
    <3>2. \A n \in DOMAIN connections : connections[n].at = "failed"
      BY <2>2, <3>1 DEF IInv, OneShared
    <3>3. \A n \in DOMAIN connections : Range(connections[n].operations) = {}
      BY <3>2, EmptyList DEF IInv, OneShared
    <3> QED BY <3>2, <3>3 DEF IInv, OneShared, NothingLeft
  <2> QED BY <2>1, <2>2 DEF NothingLeft
<1> QED BY <1>1, <1>2, <1>3, <1>4, <1>6, <1>7, <1>8 DEF IInv

-----------------------------------------------------------------------------
(* A call joins those that wait for the shared connection.                 *)

LEMMA JoinsList ==
  ASSUME IInv, NEW n \in DOMAIN connections, NEW d \in Nat, Await(n, d), shared' = shared,
         closed' = closed, calls' \in Seq(CallSet), Numbers' = Numbers \cup {d},
         AtStage("shared")' = AtStage("shared") \cup {d}, AtStage("asked")' = AtStage("asked"),
         d \notin AtStage("shared"),
         (d \notin Numbers /\ Closes' = Closes /\ Closes = {}) \/ (d \in Closes /\ Closes' = Closes),
         Stepping', LookupsFirst', Over' <=> Over
  PROVE  IInv'
<1> DEFINE w == connections[n].waiters
<1>1. /\ connections' \in Seq(ConnectionSet) /\ Len(connections') = Len(connections)
      /\ DOMAIN connections' = DOMAIN connections
      /\ \A m \in DOMAIN connections :
           /\ connections'[m].at = connections[m].at
           /\ connections'[m].open = connections[m].open
           /\ connections'[m].operations = connections[m].operations
           /\ m # n => connections'[m].waiters = connections[m].waiters
      /\ connections'[n].waiters = Append(w, d)
  BY Awaits DEF IInv
<1>2. w \in Seq(Nat) BY ConnectionKnown DEF IInv
<1>3. /\ Range(connections'[n].waiters) = Range(w) \cup {d}
      /\ Once(w) /\ d \notin Range(w) => Once(connections'[n].waiters)
      /\ \A C : Ordered(w, C) /\ (d \in C \/ Range(w) \cap C = {}) => Ordered(connections'[n].waiters, C)
  BY <1>1, <1>2, AppendList
<1>4. \A m \in DOMAIN connections : d \notin Range(connections[m].waiters) BY DEF IInv, Listed
<1> HIDE DEF w
<1>5. Typed' BY <1>1 DEF IInv, Typed
<1>6. Listed'
  <2>1. ASSUME NEW m \in DOMAIN connections
        PROVE  /\ Range(connections'[m].waiters) \subseteq AtStage("shared")'
               /\ Range(connections'[m].operations) \subseteq AtStage("asked")'
    BY <1>1, <1>3 DEF IInv, Listed, w
  <2> QED BY <1>1, <2>1 DEF Listed
<1>7. ListedOnce'
  <2>1. ASSUME NEW m \in DOMAIN connections
        PROVE  /\ Once(connections'[m].waiters) /\ Once(connections'[m].operations)
               /\ \A k \in DOMAIN connections \ {m} :
                    /\ Range(connections'[k].waiters) \cap Range(connections'[m].waiters) = {}
                    /\ Range(connections'[k].operations) \cap Range(connections'[m].operations) = {}
    <3>1. /\ Once(connections[m].waiters) /\ Once(connections[m].operations)
          /\ \A k \in DOMAIN connections \ {m} :
               /\ Range(connections[k].waiters) \cap Range(connections[m].waiters) = {}
               /\ Range(connections[k].operations) \cap Range(connections[m].operations) = {}
      BY DEF IInv, ListedOnce
    <3>2. Once(connections'[m].waiters) /\ Once(connections'[m].operations)
      BY <1>1, <1>3, <1>4, <3>1 DEF w
    <3>3. ASSUME NEW k \in DOMAIN connections \ {m}
          PROVE  /\ Range(connections'[k].waiters) \cap Range(connections'[m].waiters) = {}
                 /\ Range(connections'[k].operations) \cap Range(connections'[m].operations) = {}
      <4>1. CASE m = n BY <1>1, <1>3, <1>4, <3>1, <4>1 DEF w
      <4>2. CASE k = n BY <1>1, <1>3, <1>4, <3>1, <4>2 DEF w
      <4>3. CASE m # n /\ k # n BY <1>1, <3>1, <4>3
      <4> QED BY <4>1, <4>2, <4>3
    <3> QED BY <3>2, <3>3
  <2> QED BY <1>1, <2>1 DEF ListedOnce
<1>8. Found'
  <2>1. \A e \in AtStage("shared")' :
          \E m \in DOMAIN connections : e \in Range(connections'[m].waiters)
    BY <1>1, <1>3 DEF IInv, Found, w
  <2>2. \A e \in AtStage("asked")' :
          \E m \in DOMAIN connections : e \in Range(connections'[m].operations)
    BY <1>1 DEF IInv, Found
  <2> QED BY <1>1, <2>1, <2>2 DEF Found
<1>9. ClosesLast'
  <2>1. ASSUME NEW m \in DOMAIN connections
        PROVE  /\ Ordered(connections'[m].waiters, Closes)
               /\ Ordered(connections'[m].operations, Closes)
               /\ \/ Range(connections'[m].operations) \cap Closes = {}
                  \/ Range(connections'[m].waiters) \subseteq Closes
    BY <1>1, <1>3 DEF IInv, ClosesLast, w
  <2> QED BY <1>1, <2>1 DEF ClosesLast
<1>10. OneShared' BY <1>1 DEF IInv, OneShared
<1>11. NothingLeft'
  <2>1. ASSUME Over, NEW m \in DOMAIN connections
        PROVE  /\ connections'[m].at \in {"ready", "failed"} /\ ~connections'[m].open
               /\ Range(connections'[m].operations) \subseteq Closes
               /\ connections'[m].at = "ready" => Range(connections'[m].waiters) \subseteq Closes
    <3>1. d \in Closes BY <2>1 DEF Over
    <3>2. /\ connections[m].at \in {"ready", "failed"} /\ ~connections[m].open
          /\ Range(connections[m].operations) \subseteq Closes
          /\ connections[m].at = "ready" => Range(connections[m].waiters) \subseteq Closes
      BY <2>1 DEF IInv, NothingLeft
    <3>3. CASE m = n BY <1>1, <1>3, <3>1, <3>2, <3>3 DEF w
    <3>4. CASE m # n BY <1>1, <3>2, <3>4
    <3> QED BY <3>3, <3>4
  <2> QED BY <1>1, <2>1 DEF NothingLeft
<1> QED BY <1>5, <1>6, <1>7, <1>8, <1>9, <1>10, <1>11 DEF IInv

\* The first call of all opens the connection: there is none, or only failed ones.
LEMMA OpensList ==
  ASSUME IInv, ~closed, UNCHANGED closed, shared = 0, shared' = Len(connections) + 1,
         NEW d \in Nat, d \notin AtStage("shared"),
         connections' = Append(connections, NewConnection(d)),
         calls' \in Seq(CallSet),
         AtStage("shared")' = AtStage("shared") \cup {d}, AtStage("asked")' = AtStage("asked"),
         Closes' = {}, Stepping', LookupsFirst'
  PROVE  IInv'
<1> DEFINE n == Len(connections) + 1
<1>1. connections \in Seq(ConnectionSet) BY DEF IInv, Typed
<1>2. /\ NewConnection(d) \in ConnectionSet
      /\ NewConnection(d).at = "connecting" /\ NewConnection(d).waiters = <<d>>
      /\ NewConnection(d).operations = <<>> /\ ~NewConnection(d).open
  BY DEF NewConnection, ConnectionSet
<1>3. /\ connections' \in Seq(ConnectionSet) /\ Len(connections') = n /\ n \in Nat \ {0}
      /\ DOMAIN connections' = DOMAIN connections \cup {n} /\ n \notin DOMAIN connections
      /\ \A m \in DOMAIN connections : connections'[m] = connections[m] /\ m # 0
      /\ connections'[n].at = "connecting" /\ ~connections'[n].open
      /\ connections'[n].operations = <<>> /\ connections'[n].waiters = <<d>>
  <2>1. /\ connections' \in Seq(ConnectionSet) /\ Len(connections') = n /\ n \in Nat \ {0}
        /\ DOMAIN connections' = DOMAIN connections \cup {n} /\ n \notin DOMAIN connections
        /\ \A m \in DOMAIN connections : connections'[m] = connections[m] /\ m # 0
        /\ connections'[n] = NewConnection(d)
    <3> DEFINE r == NewConnection(d)
    <3> HIDE DEF r
    <3>1. r \in ConnectionSet BY <1>2 DEF r
    <3>2. connections' = Append(connections, r) BY DEF r
    <3>3. /\ connections' \in Seq(ConnectionSet) /\ Len(connections') = n
          /\ DOMAIN connections' = 1..n /\ DOMAIN connections = 1..Len(connections) /\ Len(connections) \in Nat
          /\ \A i \in 1..Len(connections) : connections'[i] = connections[i]
          /\ connections'[n] = r
      BY <1>1, <3>1, <3>2, Appended
    <3> QED BY <3>3 DEF r
  <2> QED BY <1>2, <2>1
<1> HIDE DEF n
<1>4. n = Len(connections) + 1 BY DEF n
<1>5. ~Over /\ ~Over' /\ Closes = {}
  <2>1. Closes = {} BY DEF IInv, LookupsFirst
  <2> QED BY <2>1 DEF Over
<1>6. Range(<<d>>) = {d} /\ Once(<<d>>) /\ Once(<<>>) /\ Range(<<>>) = {} BY EmptyList
<1>7. \A m \in DOMAIN connections : d \notin Range(connections[m].waiters) BY DEF IInv, Listed
<1>8. Typed' BY <1>3, <1>4 DEF IInv, Typed
<1>9. Listed'
  <2>1. ASSUME NEW m \in DOMAIN connections'
        PROVE  /\ Range(connections'[m].waiters) \subseteq AtStage("shared")'
               /\ Range(connections'[m].operations) \subseteq AtStage("asked")'
    <3>1. CASE m = n BY <1>3, <1>6, <3>1
    <3>2. CASE m # n BY <1>3, <3>2 DEF IInv, Listed
    <3> QED BY <3>1, <3>2
  <2> QED BY <2>1 DEF Listed
<1>10. ListedOnce'
  <2>1. ASSUME NEW m \in DOMAIN connections'
        PROVE  /\ Once(connections'[m].waiters) /\ Once(connections'[m].operations)
               /\ \A k \in DOMAIN connections' \ {m} :
                    /\ Range(connections'[k].waiters) \cap Range(connections'[m].waiters) = {}
                    /\ Range(connections'[k].operations) \cap Range(connections'[m].operations) = {}
    <3>1. m \in DOMAIN connections =>
            /\ Once(connections[m].waiters) /\ Once(connections[m].operations)
            /\ \A k \in DOMAIN connections \ {m} :
                 /\ Range(connections[k].waiters) \cap Range(connections[m].waiters) = {}
                 /\ Range(connections[k].operations) \cap Range(connections[m].operations) = {}
      BY DEF IInv, ListedOnce
    <3>2. Once(connections'[m].waiters) /\ Once(connections'[m].operations)
      <4>1. CASE m = n BY <1>3, <1>6, <4>1
      <4>2. CASE m # n BY <1>3, <3>1, <4>2
      <4> QED BY <4>1, <4>2
    <3>3. ASSUME NEW k \in DOMAIN connections' \ {m}
          PROVE  /\ Range(connections'[k].waiters) \cap Range(connections'[m].waiters) = {}
                 /\ Range(connections'[k].operations) \cap Range(connections'[m].operations) = {}
      <4>0. /\ Range(connections'[n].waiters) = {d} /\ Range(connections'[n].operations) = {}
            /\ \A l \in DOMAIN connections : d \notin Range(connections'[l].waiters)
        BY <1>3, <1>6, <1>7
      <4>1. CASE m = n BY <1>3, <4>0, <4>1
      <4>2. CASE k = n BY <1>3, <4>0, <4>2
      <4>3. CASE m # n /\ k # n BY <1>3, <3>1, <4>3
      <4> QED BY <4>1, <4>2, <4>3
    <3> QED BY <3>2, <3>3
  <2> QED BY <2>1 DEF ListedOnce
<1>11. Found'
  <2>1. \A e \in AtStage("shared")' :
          \E m \in DOMAIN connections' : e \in Range(connections'[m].waiters)
    BY <1>3, <1>6 DEF IInv, Found
  <2>2. \A e \in AtStage("asked")' :
          \E m \in DOMAIN connections' : e \in Range(connections'[m].operations)
    BY <1>3 DEF IInv, Found
  <2> QED BY <2>1, <2>2 DEF Found
<1>12. ClosesLast'
  <2>1. \A s : Ordered(s, {}) BY DEF Ordered
  <2> QED BY <2>1 DEF ClosesLast
<1>13. OneShared' BY <1>3, <1>4, <1>5 DEF IInv, OneShared
<1>14. NothingLeft' BY <1>5 DEF NothingLeft
<1> QED BY <1>8, <1>9, <1>10, <1>11, <1>12, <1>13, <1>14 DEF IInv

-----------------------------------------------------------------------------
(* Connection n becomes r: calls leave its lists, or move to its           *)
(* operations, and the connection itself may go on.                        *)

LEMMA ReshapedHolds ==
  ASSUME IInv, NEW n \in DOMAIN connections, NEW r \in ConnectionSet,
         connections' = [connections EXCEPT ![n] = r],
         UNCHANGED closed, shared' = shared \/ (shared' = 0 /\ n = shared /\ r.at = "failed"),
         calls' \in Seq(CallSet), Closes' = Closes,
         Once(r.waiters), Once(r.operations),
         Range(r.waiters) \subseteq Range(connections[n].waiters),
         AtStage("shared")' = AtStage("shared") \ (Range(connections[n].waiters) \ Range(r.waiters)),
         Range(r.operations) \cap AtStage("asked") \subseteq Range(connections[n].operations),
         AtStage("asked")' = (AtStage("asked") \ Range(connections[n].operations)) \cup Range(r.operations),
         Ordered(r.waiters, Closes), Ordered(r.operations, Closes),
         Range(r.operations) \cap Closes = {} \/ Range(r.waiters) \subseteq Closes,
         r.at # "ready" => r.operations = <<>>, r.at \in {"connecting", "preparing", "failed"} => ~r.open,
         connections[n].at = "failed" => r.at = "failed",
         Over => Over', Over' => Over \/ n = shared,
         Over' => /\ r.at \in {"ready", "failed"} /\ ~r.open
                  /\ Range(r.operations) \subseteq Closes
                  /\ r.at = "ready" => Range(r.waiters) \subseteq Closes,
         Stepping', LookupsFirst'
  PROVE  IInv'
<1>1. /\ connections' \in Seq(ConnectionSet) /\ Len(connections') = Len(connections)
      /\ DOMAIN connections' = DOMAIN connections
      /\ connections'[n] = r
      /\ \A m \in DOMAIN connections : m # n => connections'[m] = connections[m]
  BY ConnectionReplaced DEF IInv
<1>2. \A m \in DOMAIN connections :
        /\ Range(connections[m].waiters) \subseteq AtStage("shared")
        /\ Range(connections[m].operations) \subseteq AtStage("asked")
  BY DEF IInv, Listed
<1>3. \A m \in DOMAIN connections :
        /\ Once(connections[m].waiters) /\ Once(connections[m].operations)
        /\ \A k \in DOMAIN connections \ {m} :
             /\ Range(connections[k].waiters) \cap Range(connections[m].waiters) = {}
             /\ Range(connections[k].operations) \cap Range(connections[m].operations) = {}
  BY DEF IInv, ListedOnce
<1>4. \A k \in DOMAIN connections \ {n} :
        /\ Range(connections[k].waiters) \cap Range(r.waiters) = {}
        /\ Range(connections[k].operations) \cap Range(r.operations) = {}
        /\ Range(connections[k].waiters) \cap Range(connections[n].waiters) = {}
        /\ Range(connections[k].operations) \cap Range(connections[n].operations) = {}
  BY <1>2, <1>3
<1>5. Typed' BY <1>1 DEF IInv, Typed
<1>6. Listed'
  <2>1. ASSUME NEW m \in DOMAIN connections
        PROVE  /\ Range(connections'[m].waiters) \subseteq AtStage("shared")'
               /\ Range(connections'[m].operations) \subseteq AtStage("asked")'
    <3>1. CASE m = n BY <1>1, <1>2, <3>1
    <3>2. CASE m # n
      <4>1. connections'[m] = connections[m] BY <1>1, <3>2
      <4>2. Range(connections[m].waiters) \subseteq AtStage("shared")' BY <1>2, <1>4, <3>2
      <4>3. Range(connections[m].operations) \subseteq AtStage("asked")' BY <1>2, <1>4, <3>2
      <4> QED BY <4>1, <4>2, <4>3
    <3> QED BY <3>1, <3>2
  <2> QED BY <1>1, <2>1 DEF Listed
<1>7. ListedOnce'
  <2>1. ASSUME NEW m \in DOMAIN connections
        PROVE  /\ Once(connections'[m].waiters) /\ Once(connections'[m].operations)
               /\ \A k \in DOMAIN connections \ {m} :
                    /\ Range(connections'[k].waiters) \cap Range(connections'[m].waiters) = {}
                    /\ Range(connections'[k].operations) \cap Range(connections'[m].operations) = {}
    <3>1. CASE m = n BY <1>1, <1>4, <3>1
    <3>2. CASE m # n
      <4>1. connections'[m] = connections[m] BY <1>1, <3>2
      <4>2. ASSUME NEW k \in DOMAIN connections \ {m}
            PROVE  /\ Range(connections'[k].waiters) \cap Range(connections[m].waiters) = {}
                   /\ Range(connections'[k].operations) \cap Range(connections[m].operations) = {}
        <5>1. CASE k = n BY <1>1, <1>4, <3>2, <5>1
        <5>2. CASE k # n BY <1>1, <1>3, <5>2
        <5> QED BY <5>1, <5>2
      <4> QED BY <1>3, <4>1, <4>2
    <3> QED BY <3>1, <3>2
  <2> QED BY <1>1, <2>1 DEF ListedOnce
<1>8. Found'
  <2>1. ASSUME NEW e \in AtStage("shared")'
        PROVE  \E m \in DOMAIN connections : e \in Range(connections'[m].waiters)
    <3>1. PICK m \in DOMAIN connections : e \in Range(connections[m].waiters) BY DEF IInv, Found
    <3>2. CASE m = n BY <1>1, <3>1, <3>2
    <3>3. CASE m # n BY <1>1, <3>1, <3>3
    <3> QED BY <3>2, <3>3
  <2>2. ASSUME NEW e \in AtStage("asked")'
        PROVE  \E m \in DOMAIN connections : e \in Range(connections'[m].operations)
    <3>1. CASE e \in Range(r.operations) BY <1>1, <3>1
    <3>2. CASE e \in AtStage("asked") \ Range(connections[n].operations)
      <4>1. PICK m \in DOMAIN connections : e \in Range(connections[m].operations)
        BY <3>2 DEF IInv, Found
      <4>2. m # n BY <3>2, <4>1
      <4> QED BY <1>1, <4>1, <4>2
    <3> QED BY <3>1, <3>2
  <2> QED BY <1>1, <2>1, <2>2 DEF Found
<1>9. ClosesLast'
  <2>1. ASSUME NEW m \in DOMAIN connections
        PROVE  /\ Ordered(connections'[m].waiters, Closes)
               /\ Ordered(connections'[m].operations, Closes)
               /\ \/ Range(connections'[m].operations) \cap Closes = {}
                  \/ Range(connections'[m].waiters) \subseteq Closes
    <3>1. CASE m = n BY <1>1, <3>1
    <3>2. CASE m # n BY <1>1, <3>2 DEF IInv, ClosesLast
    <3> QED BY <3>1, <3>2
  <2> QED BY <1>1, <2>1 DEF ClosesLast
<1>10. OneShared'
  <2>1. \A m \in DOMAIN connections :
          /\ connections'[m].at # "ready" => connections'[m].operations = <<>>
          /\ connections'[m].at \in {"connecting", "preparing", "failed"} => ~connections'[m].open
    BY <1>1 DEF IInv, OneShared
  <2>2. ASSUME ~Over', NEW m \in DOMAIN connections, m # shared'
        PROVE  connections'[m].at = "failed"
    <3>1. m # shared => connections[m].at = "failed" BY <2>2 DEF IInv, OneShared
    <3> QED BY <1>1, <2>2, <3>1
  <2> QED BY <1>1, <2>1, <2>2 DEF OneShared
<1>11. NothingLeft'
  <2>1. ASSUME Over', NEW m \in DOMAIN connections
        PROVE  /\ connections'[m].at \in {"ready", "failed"} /\ ~connections'[m].open
               /\ Range(connections'[m].operations) \subseteq Closes
               /\ connections'[m].at = "ready" => Range(connections'[m].waiters) \subseteq Closes
    <3>1. CASE m = n BY <1>1, <2>1, <3>1
    <3>2. CASE m # n
      <4>1. connections'[m] = connections[m] BY <1>1, <3>2
      <4>2. CASE Over BY <4>1, <4>2 DEF IInv, NothingLeft
      <4>3. CASE ~Over
        <5>1. connections[m].at = "failed" BY <2>1, <3>2, <4>3 DEF IInv, OneShared
        <5>2. connections[m].operations = <<>> /\ ~connections[m].open
          BY <5>1 DEF IInv, OneShared
        <5> QED BY <4>1, <5>1, <5>2, EmptyList
      <4> QED BY <4>2, <4>3
    <3> QED BY <3>1, <3>2
  <2> QED BY <1>1, <2>1 DEF NothingLeft
<1> QED BY <1>5, <1>6, <1>7, <1>8, <1>9, <1>10, <1>11 DEF IInv

\* The same, the conditions on connection n and what it becomes under one name.
Reshapes(n, r) ==
  /\ connections' = [connections EXCEPT ![n] = r]
  /\ UNCHANGED closed
  /\ shared' = shared \/ (shared' = 0 /\ n = shared /\ r.at = "failed")
  /\ calls' \in Seq(CallSet)
  /\ Closes' = Closes
  /\ Once(r.waiters)
  /\ Once(r.operations)
  /\ Range(r.waiters) \subseteq Range(connections[n].waiters)
  /\ AtStage("shared")' = AtStage("shared") \ (Range(connections[n].waiters) \ Range(r.waiters))
  /\ Range(r.operations) \cap AtStage("asked") \subseteq Range(connections[n].operations)
  /\ AtStage("asked")' = (AtStage("asked") \ Range(connections[n].operations)) \cup Range(r.operations)
  /\ Ordered(r.waiters, Closes)
  /\ Ordered(r.operations, Closes)
  /\ Range(r.operations) \cap Closes = {} \/ Range(r.waiters) \subseteq Closes
  /\ r.at # "ready" => r.operations = <<>>
  /\ r.at \in {"connecting", "preparing", "failed"} => ~r.open
  /\ connections[n].at = "failed" => r.at = "failed"
  /\ Over => Over'
  /\ Over' => Over \/ n = shared
  /\ Over' => /\ r.at \in {"ready", "failed"} /\ ~r.open
              /\ Range(r.operations) \subseteq Closes
              /\ r.at = "ready" => Range(r.waiters) \subseteq Closes
  /\ Stepping'
  /\ LookupsFirst'

LEMMA Reshaped ==
  ASSUME IInv, NEW n \in DOMAIN connections, NEW r \in ConnectionSet, Reshapes(n, r)
  PROVE  IInv'
BY ReshapedHolds DEF Reshapes

-----------------------------------------------------------------------------
(* Calls.                                                                  *)

\* Call c goes on to r.
LEMMA CallGoesOn ==
  ASSUME IInv, NEW c \in Numbers, NEW r \in CallSet, calls' = [calls EXCEPT ![c] = r],
         closed' = closed, r.name = calls[c].name, r.waits = calls[c].waits,
         ~Settled(c), r.at # "lookups",
         calls[c].at = "lookups" => \A l \in calls[c].waits : Settled(l)
  PROVE  /\ calls' \in Seq(CallSet) /\ Numbers' = Numbers /\ Closes' = Closes
         /\ \A stage : AtStage(stage)' = (AtStage(stage) \ {c}) \cup (IF r.at = stage THEN {c} ELSE {})
         /\ calls[c].at # "answered" => (Over => Over')
         /\ Over' => Over \/ (c \in Closes /\ r.at \in {"answered", "fulfilled"})
         /\ r.at \in {"answered", "fulfilled"} => (Over => Over')
         /\ LookupsFirst'
<1>1. /\ calls' \in Seq(CallSet) /\ Len(calls') = Len(calls) /\ Numbers' = Numbers
      /\ calls'[c] = r
      /\ \A d \in Numbers : d # c => calls'[d] = calls[d]
  BY CallReplaced DEF IInv
<1>2. Closes' = Closes
  <2>1. \A d \in Numbers : calls'[d].name = calls[d].name BY <1>1
  <2> QED BY <1>1, <2>1 DEF Closes
<1>3. ASSUME NEW stage
      PROVE  AtStage(stage)' = (AtStage(stage) \ {c}) \cup (IF r.at = stage THEN {c} ELSE {})
  <2>1. \A d \in Numbers : calls'[d].at = stage <=>
          (d # c /\ calls[d].at = stage) \/ (d = c /\ r.at = stage)
    BY <1>1
  <2> QED BY <1>1, <2>1 DEF AtStage
<1>4. \A d \in Numbers : Settled(d) => Settled(d)'
  <2>1. \A d \in Numbers : Settled(d) => d # c OBVIOUS
  <2> QED BY <1>1, <2>1 DEF Settled
<1>5. LookupsFirst'
  <2>1. ASSUME NEW l \in Closes, NEW d \in Numbers, calls'[d].name \in Lookups
        PROVE  Settled(d)' \/ (calls'[l].at = "lookups" /\ d \in calls'[l].waits)
    <3>1. calls'[d].name = calls[d].name BY <1>1
    <3>2. Settled(d) \/ (calls[l].at = "lookups" /\ d \in calls[l].waits)
      BY <2>1, <3>1 DEF IInv, LookupsFirst
    <3>3. CASE Settled(d) BY <1>4, <3>3
    <3>4. CASE ~Settled(d) /\ l = c BY <1>4, <3>2, <3>4
    <3>5. CASE ~Settled(d) /\ l # c BY <1>1, <3>2, <3>5 DEF Closes
    <3> QED BY <3>3, <3>4, <3>5
  <2>2. \A l \in Closes : closed BY DEF IInv, LookupsFirst
  <2> QED BY <1>1, <1>2, <2>1, <2>2 DEF LookupsFirst, Lookups
<1>6. \A l \in Closes : l \in Numbers BY DEF Closes
<1>7. Over => Over' \/ calls[c].at = "answered"
  <2> SUFFICES ASSUME NEW l \in Closes, calls[l].at \in {"answered", "fulfilled"},
                      calls[c].at # "answered"
               PROVE  Over'
    BY DEF Over
  <2>1. l # c BY DEF Settled
  <2> QED BY <1>1, <1>2, <1>6, <2>1 DEF Over
<1>8. r.at \in {"answered", "fulfilled"} => (Over => Over')
  <2> SUFFICES ASSUME NEW l \in Closes, calls[l].at \in {"answered", "fulfilled"},
                      r.at \in {"answered", "fulfilled"}
               PROVE  Over'
    BY DEF Over
  <2>1. calls'[l].at \in {"answered", "fulfilled"} BY <1>1, <1>6
  <2> QED BY <1>2, <2>1 DEF Over
<1>9. Over' => Over \/ (c \in Closes /\ r.at \in {"answered", "fulfilled"})
  <2> SUFFICES ASSUME NEW l \in Closes, calls'[l].at \in {"answered", "fulfilled"}
               PROVE  Over \/ (c \in Closes /\ r.at \in {"answered", "fulfilled"})
    BY <1>2 DEF Over
  <2> QED BY <1>1, <1>6 DEF Over
<1> QED BY <1>1, <1>2, <1>3, <1>5, <1>7, <1>8, <1>9

\* What is known of call c at its stage.
LEMMA CallKnown ==
  ASSUME IInv, NEW c \in Numbers
  PROVE  /\ calls[c] \in CallSet /\ c \in Nat
         /\ Settled(c) <=> calls[c].at \in {"fulfilled", "rejected"}
         /\ \A stage : c \in AtStage(stage) <=> calls[c].at = stage
         /\ c \in Closes <=> calls[c].name = "close"
         /\ DOMAIN calls = Numbers
<1>1. calls \in Seq(CallSet) BY DEF IInv, Typed
<1>2. calls[c] \in CallSet /\ c \in Nat /\ DOMAIN calls = Numbers BY <1>1 DEF Numbers
<1> QED BY <1>2 DEF Settled, AtStage, Closes

\* A call is made.
LEMMA CallStarts ==
  ASSUME IInv, NEW name \in DOMAIN Statements \cup {"close"}, NEW at \in Stages,
         NEW waits \in SUBSET Nat, calls' = Append(calls, Call(name, at, waits)),
         at \notin {"asked", "answered", "fulfilled"}, at = "lookups" => name = "close",
         DOMAIN connections \subseteq DOMAIN connections',
         \A n \in DOMAIN connections : connections'[n].at = connections[n].at
  PROVE  LET c == Len(calls) + 1
         IN  /\ calls' \in Seq(CallSet) /\ Numbers' = Numbers \cup {c} /\ c \in Nat /\ c \notin Numbers
             /\ \A stage : AtStage(stage)' = AtStage(stage) \cup (IF at = stage THEN {c} ELSE {})
             /\ Closes' = Closes \cup (IF name = "close" THEN {c} ELSE {})
             /\ Over' <=> Over
             /\ \A d \in Numbers : calls'[d] = calls[d] /\ (Settled(d)' <=> Settled(d))
             /\ calls'[c].name = name /\ calls'[c].at = at /\ calls'[c].waits = waits
             /\ Stepping'
<1> DEFINE c == Len(calls) + 1
<1>1. /\ calls' \in Seq(CallSet) /\ Numbers' = Numbers \cup {c}
      /\ c \in Nat /\ c \notin Numbers
      /\ calls'[c].name = name /\ calls'[c].at = at /\ calls'[c].waits = waits
      /\ calls'[c].left = 0
      /\ \A d \in Numbers : calls'[d] = calls[d]
  BY CallMade DEF IInv
<1> HIDE DEF c
<1>2. \A stage : AtStage(stage)' = AtStage(stage) \cup (IF at = stage THEN {c} ELSE {})
  BY <1>1 DEF AtStage
<1>3. Closes' = Closes \cup (IF name = "close" THEN {c} ELSE {}) BY <1>1 DEF Closes
<1>4. Over' <=> Over
  <2>1. \A l \in Closes : l \in Numbers BY DEF Closes
  <2> QED BY <1>1, <1>3, <2>1 DEF Over
<1>5. \A d \in Numbers : Settled(d)' <=> Settled(d) BY <1>1 DEF Settled
<1>6. Stepping'
  <2>1. ASSUME NEW d \in Numbers
        PROVE  /\ calls'[d].at = "lookups" => calls'[d].name = "close"
               /\ calls'[d].left > 0 => calls'[d].name \in Lookups
               /\ calls'[d].at \in {"asked", "answered"} =>
                    calls'[d].on \in DOMAIN connections' /\ connections'[calls'[d].on].at = "ready"
    <3>1. calls'[d] = calls[d] BY <1>1
    <3>2. /\ calls[d].at = "lookups" => calls[d].name = "close"
          /\ calls[d].left > 0 => calls[d].name \in Lookups
          /\ calls[d].at \in {"asked", "answered"} =>
               calls[d].on \in DOMAIN connections /\ connections[calls[d].on].at = "ready"
      BY DEF IInv, Stepping
    <3>3. ASSUME NEW m \in DOMAIN connections, connections[m].at = "ready"
          PROVE  m \in DOMAIN connections' /\ connections'[m].at = "ready"
      BY <3>3
    <3> QED BY <3>1, <3>2, <3>3
  <2>2. /\ calls'[c].at = "lookups" => calls'[c].name = "close"
        /\ ~(calls'[c].left > 0) /\ calls'[c].at \notin {"asked", "answered"}
    BY <1>1
  <2> QED BY <1>1, <2>1, <2>2 DEF Stepping
<1> QED BY <1>1, <1>2, <1>3, <1>4, <1>5, <1>6 DEF c

\* The conditions of Stepping for a call that goes on.
LEMMA StepsOn ==
  ASSUME IInv, NEW c \in Numbers, NEW r \in CallSet, calls' = [calls EXCEPT ![c] = r],
         DOMAIN connections' = DOMAIN connections,
         \A n \in DOMAIN connections : connections[n].at = "ready" => connections'[n].at = "ready",
         r.at # "lookups", r.left > 0 => r.name \in Lookups,
         r.at \in {"asked", "answered"} => r.on \in DOMAIN connections /\ connections'[r.on].at = "ready"
  PROVE  Stepping'
<1>1. Numbers' = Numbers /\ calls'[c] = r /\ \A d \in Numbers : d # c => calls'[d] = calls[d]
  BY CallReplaced DEF IInv
<1>2. ASSUME NEW d \in Numbers
      PROVE  /\ calls'[d].at = "lookups" => calls'[d].name = "close"
             /\ calls'[d].left > 0 => calls'[d].name \in Lookups
             /\ calls'[d].at \in {"asked", "answered"} =>
                  calls'[d].on \in DOMAIN connections' /\ connections'[calls'[d].on].at = "ready"
  <2>1. CASE d = c BY <1>1, <2>1
  <2>2. CASE d # c BY <1>1, <2>2 DEF IInv, Stepping
  <2> QED BY <2>1, <2>2
<1> QED BY <1>1, <1>2 DEF Stepping, Lookups

-----------------------------------------------------------------------------
(* The steps.                                                              *)

LEMMA InitIInv == Init => IInv
<1> SUFFICES ASSUME Init PROVE IInv OBVIOUS
<1>1. Numbers = {} /\ DOMAIN connections = {} BY DEF Init, Numbers
<1>2. Typed
  <2>1. \A S : <<>> \in Seq(S)  OBVIOUS
  <2>2. connections \in Seq(ConnectionSet) /\ calls \in Seq(CallSet) BY <2>1 DEF Init
  <2>3. shared \in 0..Len(connections)
    <3>1. Len(<<>>) = 0 /\ 0 \in 0..0  OBVIOUS
    <3> QED BY <3>1 DEF Init
  <2>4. closed \in BOOLEAN BY DEF Init
  <2> QED BY <2>2, <2>3, <2>4 DEF Typed
<1>3. \A stage : AtStage(stage) = {} BY <1>1 DEF AtStage
<1>4. Closes = {} BY <1>1 DEF Closes
<1>5. Found BY <1>3 DEF Found
<1> QED BY <1>1, <1>2, <1>3, <1>4, <1>5
        DEF IInv, Listed, ListedOnce, Stepping, ClosesLast, LookupsFirst, OneShared, NothingLeft, Over

LEMMA StatementMade ==
  ASSUME IInv, NEW name \in Names, CallsStatement(name)
  PROVE  IInv'
<1> DEFINE d == Len(calls) + 1
<1>1. name \in DOMAIN Statements /\ name # "close" BY NamesAssumption DEF Statements
<1>2. calls' = Append(calls, Call(name, "shared", {})) /\ closed' = closed /\ ~closed
  BY DEF CallsStatement, GetSharedConnection
<1>3. Closes = {} BY <1>2 DEF IInv, LookupsFirst
<1>4. \/ shared # 0 /\ Await(shared, d) /\ shared' = shared
      \/ /\ shared = 0 /\ shared' = Len(connections) + 1
         /\ connections' = Append(connections, NewConnection(d))
  BY DEF CallsStatement, GetSharedConnection
<1>5. /\ connections \in Seq(ConnectionSet) /\ shared \in 0..Len(connections)
      /\ calls \in Seq(CallSet) /\ d \in Nat
  BY DEF IInv, Typed
<1>6. "shared" \in Stages /\ {} \in SUBSET Nat BY DEF Stages
<1>7. CASE shared # 0 /\ Await(shared, d) /\ shared' = shared
  <2>1. shared \in DOMAIN connections BY <1>5, <1>7
  <2>2. /\ DOMAIN connections' = DOMAIN connections
        /\ \A n \in DOMAIN connections : connections'[n].at = connections[n].at
    BY <1>5, <1>7, <2>1, Awaits DEF IInv
  <2>3. /\ calls' \in Seq(CallSet) /\ Numbers' = Numbers \cup {d} /\ d \notin Numbers
        /\ \A stage : AtStage(stage)' = AtStage(stage) \cup (IF "shared" = stage THEN {d} ELSE {})
        /\ Closes' = Closes \cup (IF name = "close" THEN {d} ELSE {})
        /\ Over' <=> Over
        /\ Stepping'
    BY <1>1, <1>2, <1>6, <2>2, CallStarts
  <2>4. AtStage("shared")' = AtStage("shared") \cup {d} /\ AtStage("asked")' = AtStage("asked")
    BY <2>3
  <2>5. Closes' = {} BY <1>1, <1>3, <2>3
  <2>6. LookupsFirst' BY <2>5 DEF LookupsFirst
  <2>7. d \notin AtStage("shared") BY <2>3 DEF AtStage
  <2> HIDE DEF d
  <2> QED BY <1>2, <1>3, <1>5, <1>7, <2>1, <2>3, <2>4, <2>5, <2>6, <2>7, JoinsList
<1>8. CASE /\ shared = 0 /\ shared' = Len(connections) + 1
           /\ connections' = Append(connections, NewConnection(d))
  <2>1. NewConnection(d) \in ConnectionSet BY <1>5 DEF NewConnection, ConnectionSet
  <2>2. /\ DOMAIN connections \subseteq DOMAIN connections'
        /\ \A n \in DOMAIN connections : connections'[n] = connections[n]
    BY <1>5, <1>8, <2>1, Appended
  <2>3. /\ calls' \in Seq(CallSet) /\ Numbers' = Numbers \cup {d} /\ d \notin Numbers
        /\ \A stage : AtStage(stage)' = AtStage(stage) \cup (IF "shared" = stage THEN {d} ELSE {})
        /\ Closes' = Closes \cup (IF name = "close" THEN {d} ELSE {})
        /\ Stepping'
    BY <1>1, <1>2, <1>6, <2>2, CallStarts
  <2>4. AtStage("shared")' = AtStage("shared") \cup {d} /\ AtStage("asked")' = AtStage("asked")
    BY <2>3
  <2>5. Closes' = {} BY <1>1, <1>3, <2>3
  <2>6. LookupsFirst' BY <2>5 DEF LookupsFirst
  <2>7. d \notin AtStage("shared") BY <2>3 DEF AtStage
  <2> HIDE DEF d
  <2> QED BY <1>2, <1>5, <1>8, <2>3, <2>4, <2>5, <2>6, <2>7, OpensList
<1> QED BY <1>4, <1>7, <1>8

LEMMA OtherMade ==
  ASSUME IInv, (\E name \in Names : RefusedWhenClosed(name)) \/ CallsClose
  PROVE  IInv'
<1> DEFINE d == Len(calls) + 1
<1>1. PICK n \in DOMAIN Statements \cup {"close"}, at \in {"rejected", "lookups"}, waits \in SUBSET Nat :
        /\ calls' = Append(calls, Call(n, at, waits)) /\ closed'
        /\ at = "lookups" <=> n = "close"
        /\ at = "rejected" => closed /\ UNCHANGED closed
        /\ at = "lookups" => waits = SchemaOperations
  <2>1. ASSUME NEW name \in Names, RefusedWhenClosed(name)
        PROVE  /\ calls' = Append(calls, Call(name, "rejected", {})) /\ closed /\ UNCHANGED closed
               /\ name \in DOMAIN Statements /\ name # "close"
    <3>1. name \in DOMAIN Statements /\ name # "close" BY NamesAssumption DEF Statements
    <3> QED BY <2>1, <3>1 DEF RefusedWhenClosed
  <2>2. CASE CallsClose
    <3>1. SchemaOperations \in SUBSET Nat
      <4>1. \A c \in Numbers : c \in Nat BY DEF Numbers
      <4> QED BY <4>1 DEF SchemaOperations
    <3> QED BY <2>2, <3>1 DEF CallsClose, ClosesAfter
  <2> QED BY <2>1, <2>2
<1>2. connections' = connections /\ shared' = shared /\ closed' \in BOOLEAN
  BY DEF RefusedWhenClosed, CallsClose
<1>3. /\ calls' \in Seq(CallSet) /\ Numbers' = Numbers \cup {d} /\ d \in Nat /\ d \notin Numbers
      /\ \A stage : AtStage(stage)' = AtStage(stage) \cup (IF at = stage THEN {d} ELSE {})
      /\ Closes' = Closes \cup (IF n = "close" THEN {d} ELSE {})
      /\ Over' <=> Over
      /\ \A e \in Numbers : calls'[e] = calls[e] /\ (Settled(e)' <=> Settled(e))
      /\ calls'[d].name = n /\ calls'[d].at = at /\ calls'[d].waits = waits
      /\ Stepping'
  <2>1. at \in Stages BY DEF Stages
  <2>2. /\ DOMAIN connections \subseteq DOMAIN connections'
        /\ \A m \in DOMAIN connections : connections'[m].at = connections[m].at
    BY <1>2
  <2> QED BY <1>1, <2>1, <2>2, CallStarts
<1> HIDE DEF d
<1>4. AtStage("shared")' = AtStage("shared") /\ AtStage("asked")' = AtStage("asked")
  BY <1>3
<1>5. Closes' \cap Numbers = Closes
  <2>1. Closes \subseteq Numbers BY DEF Closes
  <2> QED BY <1>3, <2>1
<1>6. LookupsFirst'
  <2>1. ASSUME NEW l \in Closes', NEW e \in Numbers', calls'[e].name \in Lookups
        PROVE  Settled(e)' \/ (calls'[l].at = "lookups" /\ e \in calls'[l].waits)
    <3>1. CASE e = d
      <4>1. at = "rejected" BY <1>1, <1>3, <2>1, <3>1 DEF Lookups
      <4> QED BY <1>3, <3>1, <4>1 DEF Settled
    <3>2. CASE e # d /\ l # d
      <4>1. l \in Closes /\ l \in Numbers /\ e \in Numbers BY <1>3, <2>1, <3>2 DEF Closes
      <4> QED BY <1>3, <2>1, <3>2, <4>1 DEF IInv, LookupsFirst
    <3>3. CASE e # d /\ l = d
      <4>1. e \in Numbers /\ d \notin Closes BY <1>3, <2>1, <3>3 DEF Closes
      <4>2. n = "close" BY <1>3, <3>3, <4>1
      <4>3. calls'[l].at = "lookups" /\ calls'[l].waits = SchemaOperations BY <1>1, <1>3, <3>3, <4>2
      <4>4. Settled(e)' \/ e \in SchemaOperations BY <1>3, <2>1, <4>1 DEF SchemaOperations
      <4> QED BY <4>3, <4>4
    <3> QED BY <3>1, <3>2, <3>3
  <2> QED BY <1>1, <2>1 DEF LookupsFirst, Lookups
<1> QED BY <1>2, <1>3, <1>4, <1>5, <1>6, CallsOnly

\* The connection goes on, its lists stay.
LEMMA ConnectionGoesOn ==
  ASSUME IInv, NEW n \in 1..MaxCalls, FactoryAnswers(n) \/ OptionsAnswered(n) \/ DiscardAnswered(n)
  PROVE  IInv'
<1>1. n \in DOMAIN connections /\ connections[n].at \in {"connecting", "preparing", "discarding"}
  BY DEF FactoryAnswers, OptionsAnswered, DiscardAnswered
<1>2. ~Over /\ n = shared
  <2>1. ~Over BY <1>1 DEF IInv, NothingLeft
  <2> QED BY <1>1, <2>1 DEF IInv, OneShared
<1>3. /\ connections[n] \in ConnectionSet /\ connections[n].operations = <<>>
      /\ connections[n].at \in {"connecting", "preparing"} => ~connections[n].open
  BY <1>1, ConnectionKnown DEF IInv, OneShared
<1>4. PICK r \in ConnectionSet :
        /\ connections' = [connections EXCEPT ![n] = r]
        /\ r.waiters = connections[n].waiters /\ r.operations = connections[n].operations
        /\ r.at \in {"connecting", "preparing", "failed"} => ~r.open
        /\ shared' = shared \/ (shared' = 0 /\ r.at = "failed")
  <2>1. CASE FactoryAnswers(n)
    <3>1. PICK at \in {"preparing", "failed"} :
            /\ connections' = [connections EXCEPT ![n].at = at]
            /\ shared' = shared \/ (shared' = 0 /\ at = "failed")
      BY <2>1 DEF FactoryAnswers
    <3> DEFINE r == [connections[n] EXCEPT !.at = at]
    <3>2. /\ r \in ConnectionSet /\ r.at = at /\ r.waiters = connections[n].waiters
          /\ r.operations = connections[n].operations /\ r.open = connections[n].open
      BY <1>3 DEF ConnectionSet
    <3>3. connections' = [connections EXCEPT ![n] = r] BY <3>1
    <3>4. ~connections[n].open BY <1>3, <2>1 DEF FactoryAnswers
    <3> HIDE DEF r
    <3> QED BY <3>1, <3>2, <3>3, <3>4
  <2>2. CASE OptionsAnswered(n)
    <3>1. PICK open \in BOOLEAN, at \in {"ready", "discarding"} :
            connections' = [connections EXCEPT ![n].at = at, ![n].open = open]
      BY <2>2 DEF OptionsAnswered
    <3> DEFINE r == [connections[n] EXCEPT !.at = at, !.open = open]
    <3>2. /\ r \in ConnectionSet /\ r.at = at /\ r.waiters = connections[n].waiters
          /\ r.operations = connections[n].operations
      BY <1>3 DEF ConnectionSet
    <3>3. connections' = [connections EXCEPT ![n] = r] BY <1>1, <3>1
    <3>4. shared' = shared BY <2>2 DEF OptionsAnswered
    <3> HIDE DEF r
    <3> QED BY <3>2, <3>3, <3>4
  <2>3. CASE DiscardAnswered(n)
    <3> DEFINE r == [connections[n] EXCEPT !.at = "failed", !.open = FALSE]
    <3>2. /\ r \in ConnectionSet /\ r.at = "failed" /\ ~r.open /\ r.waiters = connections[n].waiters
          /\ r.operations = connections[n].operations
      BY <1>3 DEF ConnectionSet
    <3>3. connections' = [connections EXCEPT ![n] = r] BY <1>1, <2>3 DEF DiscardAnswered
    <3>4. shared' = 0 BY <2>3 DEF DiscardAnswered
    <3> HIDE DEF r
    <3> QED BY <3>2, <3>3, <3>4
  <2> QED BY <2>1, <2>2, <2>3
<1>5. calls' = calls /\ closed' = closed
  BY DEF FactoryAnswers, OptionsAnswered, DiscardAnswered
<1>6. /\ Numbers' = Numbers /\ Closes' = Closes /\ (Over' <=> Over)
      /\ AtStage("shared")' = AtStage("shared") /\ AtStage("asked")' = AtStage("asked")
      /\ calls' \in Seq(CallSet)
  BY <1>5 DEF Numbers, Closes, Over, AtStage, IInv, Typed
<1>7. LookupsFirst' BY <1>5, <1>6 DEF IInv, LookupsFirst, Settled, Lookups
<1>8. Stepping'
  <2>1. /\ DOMAIN connections' = DOMAIN connections
        /\ \A m \in DOMAIN connections : connections[m].at = "ready" => connections'[m].at = "ready"
    BY <1>1, <1>4, ConnectionReplaced DEF IInv
  <2> QED BY <1>5, <1>6, <2>1 DEF IInv, Stepping, Lookups
<1>9. /\ Once(connections[n].waiters) /\ Once(connections[n].operations)
      /\ Ordered(connections[n].waiters, Closes) /\ Ordered(connections[n].operations, Closes)
      /\ Range(connections[n].operations) = {}
      /\ Range(connections[n].operations) \subseteq AtStage("asked")
  BY <1>1, <1>3, EmptyList DEF IInv, ListedOnce, ClosesLast, Listed
<1> QED
  <2>1. n \in DOMAIN connections /\ r \in ConnectionSet BY <1>1, <1>2, <1>3, <1>4, <1>5, <1>6, <1>7, <1>8, <1>9
  <2>2. Reshapes(n, r)
    BY <1>1, <1>2, <1>3, <1>4, <1>5, <1>6, <1>7, <1>8, <1>9
    DEF Reshapes
  <2> QED BY <2>1, <2>2, Reshaped

\* What the invariant says of the lists of connection n.
LEMMA ListKnown ==
  ASSUME IInv, NEW n \in DOMAIN connections
  PROVE  LET w == connections[n].waiters
             o == connections[n].operations
         IN  /\ connections[n] \in ConnectionSet /\ w \in Seq(Nat) /\ o \in Seq(Nat)
             /\ Range(w) \subseteq AtStage("shared") /\ Range(o) \subseteq AtStage("asked")
             /\ Once(w) /\ Once(o) /\ Ordered(w, Closes) /\ Ordered(o, Closes)
             /\ Range(o) \cap Closes = {} \/ Range(w) \subseteq Closes
             /\ Over => /\ ~connections[n].open /\ Range(o) \subseteq Closes
                        /\ connections[n].at = "ready" => Range(w) \subseteq Closes
             /\ connections[n].at # "ready" => o = <<>>
             /\ connections[n].at \in {"connecting", "preparing", "failed"} => ~connections[n].open
             /\ ~Over /\ connections[n].at # "failed" => n = shared
BY ConnectionKnown DEF IInv, Listed, ListedOnce, ClosesLast, NothingLeft, OneShared

LEMMA StagesApart ==
  /\ AtStage("shared") \cap AtStage("asked") = {}
  /\ \A stage : AtStage(stage) \subseteq Numbers
BY DEF AtStage

LEMMA WaiterGoesOn ==
  ASSUME IInv, NEW n \in 1..MaxCalls, GoesOn(n)
  PROVE  IInv'
<1> DEFINE w == connections[n].waiters
           o == connections[n].operations
           c == Head(w)
<1>1. n \in DOMAIN connections /\ w # <<>> /\ closed' = closed /\ shared' = shared
  BY DEF GoesOn
<1>2. /\ connections[n] \in ConnectionSet /\ w \in Seq(Nat) /\ o \in Seq(Nat)
      /\ Range(w) \subseteq AtStage("shared") /\ Range(o) \subseteq AtStage("asked")
      /\ Once(w) /\ Once(o) /\ Ordered(w, Closes) /\ Ordered(o, Closes)
      /\ Range(o) \cap Closes = {} \/ Range(w) \subseteq Closes
      /\ Over => /\ ~connections[n].open /\ Range(o) \subseteq Closes
                 /\ connections[n].at = "ready" => Range(w) \subseteq Closes
      /\ connections[n].at # "ready" => o = <<>>
      /\ connections[n].at \in {"connecting", "preparing", "failed"} => ~connections[n].open
      /\ ~Over /\ connections[n].at # "failed" => n = shared
  BY <1>1, ListKnown
<1>3. /\ Tail(w) \in Seq(Nat) /\ c \in Range(w) /\ c \in Nat
      /\ Range(w) = Range(Tail(w)) \cup {c} /\ Once(Tail(w)) /\ c \notin Range(Tail(w))
      /\ Ordered(Tail(w), Closes) /\ (c \in Closes => Range(w) \subseteq Closes)
  BY <1>1, <1>2, TailList
<1>4. /\ c \in Numbers /\ c \in AtStage("shared") /\ calls[c].at = "shared" /\ ~Settled(c)
      /\ calls[c] \in CallSet /\ c \notin Range(o)
  <2>1. c \in AtStage("shared") /\ c \in Numbers BY <1>2, <1>3 DEF AtStage
  <2>2. calls[c].at = "shared" BY <2>1 DEF AtStage
  <2>3. ~Settled(c) BY <2>2 DEF Settled
  <2>4. calls[c] \in CallSet BY <2>1, CallKnown
  <2>5. c \notin Range(o) BY <1>2, <2>1, StagesApart
  <2> QED BY <2>1, <2>2, <2>3, <2>4, <2>5
<1>5. CASE /\ connections[n].at = "ready"
           /\ connections' = [[connections EXCEPT ![n].waiters = Tail(@)]
                                EXCEPT ![n].operations = Append(@, c)]
           /\ calls' = [calls EXCEPT ![c].at = "asked", ![c].on = n,
                                     ![c].left = IF calls[c].name = "close" THEN 0
                                                 ELSE Statements[calls[c].name] - 1]
  <2> DEFINE left == IF calls[c].name = "close" THEN 0 ELSE Statements[calls[c].name] - 1
             k == [calls[c] EXCEPT !.at = "asked", !.on = n, !.left = left]
             r == [connections[n] EXCEPT !.waiters = Tail(w), !.operations = Append(o, c)]
  <2>1. /\ Append(o, c) \in Seq(Nat) /\ Range(Append(o, c)) = Range(o) \cup {c}
        /\ Once(Append(o, c))
        /\ (c \in Closes \/ Range(o) \cap Closes = {}) => Ordered(Append(o, c), Closes)
    BY <1>2, <1>3, <1>4, AppendList
  <2>2. /\ r \in ConnectionSet /\ r.waiters = Tail(w) /\ r.operations = Append(o, c)
        /\ r.at = "ready" /\ r.open = connections[n].open
    BY <1>2, <1>3, <1>5, <2>1 DEF ConnectionSet
  <2>3. left \in Nat /\ (left > 0 => calls[c].name \in Lookups)
    <3>1. calls[c].name \in DOMAIN Statements \cup {"close"} BY <1>4, CallFields
    <3>2. calls[c].name \in {"query", "getTables", "getColumns", "getIndexes", "close"}
      BY <3>1 DEF Statements
    <3> QED BY <3>2 DEF Statements, Lookups
  <2>4. n \in Nat /\ "asked" \in Stages
    BY <1>1, ConnectionKnown DEF IInv, Stages
  <2> HIDE DEF left
  <2>5. /\ k \in CallSet /\ k.at = "asked" /\ k.on = n /\ k.left = left
        /\ k.name = calls[c].name /\ k.waits = calls[c].waits
    BY <1>4, <2>3, <2>4 DEF CallSet
  <2>6. connections' = [connections EXCEPT ![n] = r]
    <3> DEFINE q == [connections[n] EXCEPT !.waiters = Tail(w)]
               rest == [connections EXCEPT ![n] = q]
    <3>1. connections \in Seq(ConnectionSet) BY DEF IInv, Typed
    <3>2. q.operations = o BY <1>2 DEF ConnectionSet
    <3>3. [q EXCEPT !.operations = Append(o, c)] = r BY <1>2 DEF ConnectionSet
    <3>4. connections' = [rest EXCEPT ![n].operations = Append(@, c)] BY <1>5
    <3>5. rest[n] = q /\ DOMAIN rest = DOMAIN connections BY <1>1, <3>1
    <3> HIDE DEF q
    <3>6. connections' = [rest EXCEPT ![n] = [q EXCEPT !.operations = Append(o, c)]]
      BY <3>2, <3>4, <3>5
    <3>7. connections' = [rest EXCEPT ![n] = r] BY <3>3, <3>6
    <3> HIDE DEF r, c, w, o
    <3> QED BY <1>1, <3>1, <3>7
  <2>7. calls' = [calls EXCEPT ![c] = k] BY <1>5 DEF left
  <2> HIDE DEF k, r
  <2>8. /\ calls' \in Seq(CallSet) /\ Numbers' = Numbers /\ Closes' = Closes
        /\ \A stage : AtStage(stage)' = (AtStage(stage) \ {c}) \cup (IF k.at = stage THEN {c} ELSE {})
        /\ Over => Over'
        /\ Over' => Over
        /\ LookupsFirst'
    BY <1>1, <1>4, <2>5, <2>7, CallGoesOn
  <2>9. /\ AtStage("shared")' = AtStage("shared") \ {c}
        /\ AtStage("asked")' = AtStage("asked") \cup {c}
    BY <1>4, <2>5, <2>8, StagesApart
  <2>10. Stepping'
    <3>1. /\ DOMAIN connections' = DOMAIN connections
          /\ connections'[n].at = "ready"
          /\ \A m \in DOMAIN connections : connections[m].at = "ready" => connections'[m].at = "ready"
      BY <1>1, <2>2, <2>6, ConnectionReplaced DEF IInv
    <3> QED BY <1>1, <1>4, <2>3, <2>5, <2>7, <3>1, StepsOn
  <2>11. Range(r.waiters) \subseteq Range(w) /\ Range(w) \ Range(r.waiters) = {c}
    BY <1>3, <2>2
  <2>12. /\ Range(r.operations) \cap AtStage("asked") \subseteq Range(o)
         /\ AtStage("asked")' = (AtStage("asked") \ Range(o)) \cup Range(r.operations)
    BY <1>2, <1>4, <2>1, <2>2, <2>9, StagesApart
  <2>13. /\ Once(r.waiters) /\ Once(r.operations)
         /\ Ordered(r.waiters, Closes) /\ Ordered(r.operations, Closes)
         /\ Range(r.operations) \cap Closes = {} \/ Range(r.waiters) \subseteq Closes
    BY <1>2, <1>3, <2>1, <2>2
  <2>14. Over => ~r.open /\ Range(r.operations) \subseteq Closes /\ Range(r.waiters) \subseteq Closes
    BY <1>2, <1>3, <1>5, <2>1, <2>2
  <2> HIDE DEF c
  <2> QED
    <3>1. n \in DOMAIN connections /\ r \in ConnectionSet BY <1>1, <2>2, <2>6
    <3>2. Reshapes(n, r)
      BY <1>1, <1>3, <1>5, <2>1, <2>2, <2>6, <2>8, <2>9, <2>10, <2>11, <2>12, <2>13, <2>14
      DEF Reshapes
    <3> QED BY <3>1, <3>2, Reshaped
<1>6. CASE /\ connections' = [connections EXCEPT ![n].waiters = Tail(@)]
           /\ calls' = [calls EXCEPT ![c].at = "rejected"]
  <2> DEFINE k == [calls[c] EXCEPT !.at = "rejected"]
             r == [connections[n] EXCEPT !.waiters = Tail(w)]
  <2>2. /\ r \in ConnectionSet /\ r.waiters = Tail(w) /\ r.operations = o
        /\ r.at = connections[n].at /\ r.open = connections[n].open
    BY <1>2, <1>3 DEF ConnectionSet
  <2>3. "rejected" \in Stages BY DEF Stages
  <2>5. /\ k \in CallSet /\ k.at = "rejected" /\ k.left = calls[c].left
        /\ k.name = calls[c].name /\ k.waits = calls[c].waits
    BY <1>4, <2>3 DEF CallSet
  <2>6. connections' = [connections EXCEPT ![n] = r] BY <1>6
  <2>7. calls' = [calls EXCEPT ![c] = k] BY <1>6
  <2> HIDE DEF k, r
  <2>8. /\ calls' \in Seq(CallSet) /\ Numbers' = Numbers /\ Closes' = Closes
        /\ \A stage : AtStage(stage)' = (AtStage(stage) \ {c}) \cup (IF k.at = stage THEN {c} ELSE {})
        /\ Over => Over'
        /\ Over' => Over
        /\ LookupsFirst'
    BY <1>1, <1>4, <2>5, <2>7, CallGoesOn
  <2>9. /\ AtStage("shared")' = AtStage("shared") \ {c}
        /\ AtStage("asked")' = AtStage("asked")
    BY <1>4, <2>5, <2>8, StagesApart
  <2>10. Stepping'
    <3>1. /\ DOMAIN connections' = DOMAIN connections
          /\ \A m \in DOMAIN connections : connections[m].at = "ready" => connections'[m].at = "ready"
      BY <1>1, <2>2, <2>6, ConnectionReplaced DEF IInv
    <3>2. calls[c].left > 0 => calls[c].name \in Lookups BY <1>4 DEF IInv, Stepping
    <3> QED BY <1>4, <2>5, <2>7, <3>1, <3>2, StepsOn
  <2>11. Range(r.waiters) \subseteq Range(w) /\ Range(w) \ Range(r.waiters) = {c}
    BY <1>3, <2>2
  <2>12. /\ Range(r.operations) \cap AtStage("asked") \subseteq Range(o)
         /\ AtStage("asked")' = (AtStage("asked") \ Range(o)) \cup Range(r.operations)
    BY <1>2, <2>2, <2>9
  <2>13. /\ Once(r.waiters) /\ Once(r.operations)
         /\ Ordered(r.waiters, Closes) /\ Ordered(r.operations, Closes)
         /\ Range(r.operations) \cap Closes = {} \/ Range(r.waiters) \subseteq Closes
    BY <1>2, <1>3, <2>2
  <2>14. Over => /\ ~r.open /\ Range(r.operations) \subseteq Closes
                 /\ r.at \in {"ready", "failed"}
                 /\ r.at = "ready" => Range(r.waiters) \subseteq Closes
    BY <1>1, <1>2, <1>3, <2>2 DEF IInv, NothingLeft
  <2> HIDE DEF c
  <2> QED
    <3>1. n \in DOMAIN connections /\ r \in ConnectionSet BY <1>1, <2>2, <2>6
    <3>2. Reshapes(n, r)
      BY <1>1, <1>2, <2>2, <2>6, <2>8, <2>9, <2>10, <2>11, <2>12, <2>13, <2>14
      DEF Reshapes
    <3> QED BY <3>1, <3>2, Reshaped
<1> QED BY <1>5, <1>6 DEF GoesOn

LEMMA AnswerCame ==
  ASSUME IInv, NEW n \in 1..MaxCalls, OperationAnswered(n)
  PROVE  IInv'
<1> DEFINE w == connections[n].waiters
           o == connections[n].operations
           c == Head(o)
<1>1. n \in DOMAIN connections /\ o # <<>> /\ closed' = closed /\ shared' = shared
  BY DEF OperationAnswered
<1>2. /\ connections[n] \in ConnectionSet /\ w \in Seq(Nat) /\ o \in Seq(Nat)
      /\ Range(w) \subseteq AtStage("shared") /\ Range(o) \subseteq AtStage("asked")
      /\ Once(w) /\ Once(o) /\ Ordered(w, Closes) /\ Ordered(o, Closes)
      /\ Range(o) \cap Closes = {} \/ Range(w) \subseteq Closes
      /\ Over => /\ ~connections[n].open /\ Range(o) \subseteq Closes
                 /\ connections[n].at = "ready" => Range(w) \subseteq Closes
      /\ connections[n].at = "ready"
      /\ ~Over => n = shared
  BY <1>1, ListKnown
<1>3. /\ Tail(o) \in Seq(Nat) /\ c \in Range(o) /\ c \in Nat
      /\ Range(o) = Range(Tail(o)) \cup {c} /\ Once(Tail(o)) /\ c \notin Range(Tail(o))
      /\ Ordered(Tail(o), Closes) /\ (c \in Closes => Range(o) \subseteq Closes)
  BY <1>1, <1>2, TailList
<1>4. /\ c \in Numbers /\ c \in AtStage("asked") /\ calls[c].at = "asked" /\ ~Settled(c)
      /\ calls[c] \in CallSet /\ (c \in Closes <=> calls[c].name = "close")
  <2>1. c \in AtStage("asked") /\ c \in Numbers BY <1>2, <1>3 DEF AtStage
  <2>2. calls[c].at = "asked" BY <2>1 DEF AtStage
  <2>3. ~Settled(c) BY <2>2 DEF Settled
  <2>4. calls[c] \in CallSet /\ (c \in Closes <=> calls[c].name = "close") BY <2>1, CallKnown
  <2> QED BY <2>1, <2>2, <2>3, <2>4
<1>5. PICK succeeds \in BOOLEAN, open \in BOOLEAN :
        /\ IF calls[c].name = "close" THEN open = (connections[n].open /\ ~succeeds)
           ELSE succeeds => open
        /\ connections' = [connections EXCEPT ![n].operations = Tail(@), ![n].open = open]
        /\ calls' = [calls EXCEPT ![c].at = IF succeeds THEN "answered" ELSE "rejected"]
  BY DEF OperationAnswered
<1> DEFINE at == IF succeeds THEN "answered" ELSE "rejected"
           k == [calls[c] EXCEPT !.at = at]
           r == [connections[n] EXCEPT !.operations = Tail(o), !.open = open]
<1>6. /\ r \in ConnectionSet /\ r.waiters = w /\ r.operations = Tail(o)
      /\ r.at = "ready" /\ r.open = open
  BY <1>2, <1>3 DEF ConnectionSet
<1>7. at \in Stages BY DEF Stages
<1>8. /\ k \in CallSet /\ k.at = at /\ k.left = calls[c].left /\ k.on = calls[c].on
      /\ k.name = calls[c].name /\ k.waits = calls[c].waits
  <2> HIDE DEF at
  <2> QED BY <1>4, <1>7 DEF CallSet
<1>9. connections' = [connections EXCEPT ![n] = r] BY <1>1, <1>5
<1>10. calls' = [calls EXCEPT ![c] = k] BY <1>5
<1>11. /\ at \in {"answered", "rejected"} /\ (at = "answered" => succeeds = TRUE)
       /\ at # "asked" /\ at # "shared" /\ at # "lookups"
  OBVIOUS
<1> HIDE DEF k, r, at
<1>12. /\ calls' \in Seq(CallSet) /\ Numbers' = Numbers /\ Closes' = Closes
       /\ \A stage : AtStage(stage)' = (AtStage(stage) \ {c}) \cup (IF k.at = stage THEN {c} ELSE {})
       /\ Over => Over'
       /\ Over' => Over \/ (c \in Closes /\ at = "answered")
       /\ LookupsFirst'
  BY <1>1, <1>4, <1>8, <1>10, <1>11, CallGoesOn
<1>13. /\ AtStage("shared")' = AtStage("shared")
       /\ AtStage("asked")' = AtStage("asked") \ {c}
  BY <1>4, <1>8, <1>11, <1>12, StagesApart
<1>14. Stepping'
  <2>1. /\ DOMAIN connections' = DOMAIN connections
        /\ \A m \in DOMAIN connections : connections[m].at = "ready" => connections'[m].at = "ready"
    BY <1>1, <1>6, <1>9, ConnectionReplaced DEF IInv
  <2>2. /\ calls[c].left > 0 => calls[c].name \in Lookups
        /\ calls[c].on \in DOMAIN connections /\ connections[calls[c].on].at = "ready"
    BY <1>4 DEF IInv, Stepping
  <2> QED BY <1>4, <1>8, <1>10, <1>11, <2>1, <2>2, StepsOn
<1>15. /\ Range(r.waiters) = Range(w) /\ Range(w) \ Range(r.waiters) = {}
       /\ Range(r.operations) \cap AtStage("asked") \subseteq Range(o)
       /\ AtStage("asked")' = (AtStage("asked") \ Range(o)) \cup Range(r.operations)
  BY <1>2, <1>3, <1>6, <1>13
<1>16. /\ Once(r.waiters) /\ Once(r.operations)
       /\ Ordered(r.waiters, Closes) /\ Ordered(r.operations, Closes)
       /\ Range(r.operations) \cap Closes = {} \/ Range(r.waiters) \subseteq Closes
  BY <1>2, <1>3, <1>6
<1>17. Over' => /\ ~r.open /\ Range(r.operations) \subseteq Closes
                /\ Range(r.waiters) \subseteq Closes
  <2>1. CASE Over
    <3>1. c \in Closes /\ ~connections[n].open BY <1>2, <1>3, <2>1
    <3>2. ~open BY <1>4, <1>5, <3>1
    <3> QED BY <1>2, <1>3, <1>6, <2>1, <3>2
  <2>2. CASE c \in Closes /\ at = "answered"
    <3>1. succeeds = TRUE BY <1>11, <2>2
    <3>2. ~open BY <1>4, <1>5, <2>2, <3>1
    <3>3. Range(w) \subseteq Closes /\ Range(o) \subseteq Closes BY <1>2, <1>3, <2>2
    <3> QED BY <1>3, <1>6, <3>2, <3>3
  <2> QED BY <1>12, <2>1, <2>2
<1> HIDE DEF c
<1> QED
  <2>1. n \in DOMAIN connections /\ r \in ConnectionSet BY <1>1, <1>2, <1>6, <1>9, <1>12, <1>13, <1>14, <1>15, <1>16, <1>17
  <2>2. Reshapes(n, r)
    BY <1>1, <1>2, <1>6, <1>9, <1>12, <1>13, <1>14, <1>15, <1>16, <1>17
    DEF Reshapes
  <2> QED BY <2>1, <2>2, Reshaped

LEMMA NextStatement ==
  ASSUME IInv, NEW c \in Numbers, LookupGoesOn(c)
  PROVE  IInv'
<1> DEFINE n == calls[c].on
           w == connections[n].waiters
           o == connections[n].operations
<1>1. /\ calls[c].at = "answered" /\ calls[c].left > 0 /\ closed' = closed /\ shared' = shared
      /\ connections' = [connections EXCEPT ![n].operations = Append(@, c)]
      /\ calls' = [calls EXCEPT ![c].at = "asked", ![c].left = @ - 1]
  BY DEF LookupGoesOn
<1>2. /\ calls[c] \in CallSet /\ c \in Nat /\ ~Settled(c) /\ calls[c].name \in Lookups
      /\ n \in DOMAIN connections /\ connections[n].at = "ready"
      /\ c \notin AtStage("asked") /\ c \notin AtStage("shared")
  BY <1>1, CallKnown DEF IInv, Stepping, Settled, AtStage
<1> HIDE DEF n
<1>3. /\ connections[n] \in ConnectionSet /\ w \in Seq(Nat) /\ o \in Seq(Nat)
      /\ Range(w) \subseteq AtStage("shared") /\ Range(o) \subseteq AtStage("asked")
      /\ Once(w) /\ Once(o) /\ Ordered(w, Closes) /\ Ordered(o, Closes)
  BY <1>2, ListKnown
<1>4. /\ Range(o) \cap Closes = {} /\ ~Over
  <2>1. \A l \in Closes : calls[l].at = "lookups" BY <1>2 DEF IInv, LookupsFirst
  <2>2. ~Over BY <2>1 DEF Over
  <2>3. \A l \in Range(o) : calls[l].at = "asked" BY <1>3 DEF AtStage
  <2> QED BY <2>1, <2>2, <2>3
<1> DEFINE k == [calls[c] EXCEPT !.at = "asked", !.left = @ - 1]
           r == [connections[n] EXCEPT !.operations = Append(o, c)]
<1>5. /\ Append(o, c) \in Seq(Nat) /\ Range(Append(o, c)) = Range(o) \cup {c}
      /\ Once(Append(o, c)) /\ Ordered(Append(o, c), Closes)
  BY <1>2, <1>3, <1>4, AppendList
<1>6. /\ r \in ConnectionSet /\ r.waiters = w /\ r.operations = Append(o, c)
      /\ r.at = "ready" /\ r.open = connections[n].open
  BY <1>2, <1>3, <1>5 DEF ConnectionSet
<1>7. calls[c].left - 1 \in Nat /\ "asked" \in Stages
  BY <1>1, <1>2, CallFields DEF Stages
<1>8. /\ k \in CallSet /\ k.at = "asked" /\ k.on = n
      /\ k.name = calls[c].name /\ k.waits = calls[c].waits
  BY <1>2, <1>7 DEF CallSet, n
<1>9. connections' = [connections EXCEPT ![n] = r] BY <1>1, <1>2
<1>10. calls' = [calls EXCEPT ![c] = k] BY <1>1
<1> HIDE DEF k, r
<1>11. /\ calls' \in Seq(CallSet) /\ Numbers' = Numbers /\ Closes' = Closes
       /\ \A stage : AtStage(stage)' = (AtStage(stage) \ {c}) \cup (IF k.at = stage THEN {c} ELSE {})
       /\ Over' => Over
       /\ LookupsFirst'
  <2>1. /\ k \in CallSet /\ closed' = closed /\ k.name = calls[c].name /\ k.waits = calls[c].waits
        /\ ~Settled(c) /\ k.at # "lookups" /\ calls[c].at # "lookups"
        /\ ~(k.at \in {"answered", "fulfilled"})
    BY <1>1, <1>2, <1>8
  <2>2. /\ calls' \in Seq(CallSet) /\ Numbers' = Numbers /\ Closes' = Closes
        /\ \A stage : AtStage(stage)' = (AtStage(stage) \ {c}) \cup (IF k.at = stage THEN {c} ELSE {})
        /\ Over' => Over \/ (c \in Closes /\ k.at \in {"answered", "fulfilled"})
        /\ LookupsFirst'
    BY <1>10, <2>1, CallGoesOn
  <2> QED BY <2>1, <2>2
<1>12. AtStage("shared")' = AtStage("shared") /\ AtStage("asked")' = AtStage("asked") \cup {c}
  BY <1>2, <1>8, <1>11
<1>13. Stepping'
  <2>1. /\ DOMAIN connections' = DOMAIN connections /\ connections'[n].at = "ready"
        /\ \A m \in DOMAIN connections : connections[m].at = "ready" => connections'[m].at = "ready"
    BY <1>2, <1>6, <1>9, ConnectionReplaced DEF IInv
  <2> QED BY <1>2, <1>8, <1>10, <2>1, StepsOn
<1>14. /\ Range(r.waiters) = Range(w) /\ Range(w) \ Range(r.waiters) = {}
       /\ Range(r.operations) \cap AtStage("asked") \subseteq Range(o)
       /\ AtStage("asked")' = (AtStage("asked") \ Range(o)) \cup Range(r.operations)
  BY <1>2, <1>3, <1>5, <1>6, <1>12
<1>15. c \notin Closes
  <2>1. calls[c].name # "close" BY <1>2 DEF Lookups
  <2> QED BY <2>1, CallKnown
<1>16. /\ Once(r.waiters) /\ Once(r.operations)
       /\ Ordered(r.waiters, Closes) /\ Ordered(r.operations, Closes)
       /\ Range(r.operations) \cap Closes = {}
  BY <1>3, <1>4, <1>5, <1>6, <1>15
<1> QED
  <2>1. n \in DOMAIN connections /\ r \in ConnectionSet BY <1>1, <1>2, <1>4, <1>6, <1>9, <1>11, <1>12, <1>13, <1>14, <1>16
  <2>2. Reshapes(n, r)
    BY <1>1, <1>2, <1>4, <1>6, <1>9, <1>11, <1>12, <1>13, <1>14, <1>16
    DEF Reshapes
  <2> QED BY <2>1, <2>2, Reshaped

\* A call ends, or a close() finds nothing to close: no list changes.
LEMMA CallEnds ==
  ASSUME IInv, NEW c \in Numbers, NEW at \in {"fulfilled", "rejected"},
         calls' = [calls EXCEPT ![c].at = at], UNCHANGED <<closed, connections>>,
         calls[c].at \in {"answered", "lookups"},
         calls[c].at = "lookups" => \A l \in calls[c].waits : Settled(l),
         at = "rejected" => c \notin Closes,
         c \in Closes => calls[c].at = "answered" \/ shared = 0,
         shared' = shared \/ (shared' = 0 /\ Over)
  PROVE  IInv'
<1> DEFINE k == [calls[c] EXCEPT !.at = at]
<1>1. /\ calls[c] \in CallSet /\ ~Settled(c) /\ c \notin AtStage("shared") /\ c \notin AtStage("asked")
  BY CallKnown DEF Settled, AtStage
<1>2. /\ k \in CallSet /\ k.at = at /\ k.left = calls[c].left
      /\ k.name = calls[c].name /\ k.waits = calls[c].waits
  BY <1>1 DEF CallSet, Stages
<1>3. calls' = [calls EXCEPT ![c] = k] OBVIOUS
<1> HIDE DEF k
<1>4. /\ calls' \in Seq(CallSet) /\ Numbers' = Numbers /\ Closes' = Closes
      /\ \A stage : AtStage(stage)' = (AtStage(stage) \ {c}) \cup (IF k.at = stage THEN {c} ELSE {})
      /\ Over' => Over \/ (c \in Closes /\ at = "fulfilled")
      /\ at = "fulfilled" => (Over => Over')
      /\ LookupsFirst'
  BY <1>1, <1>2, <1>3, CallGoesOn
<1>5. AtStage("shared")' = AtStage("shared") /\ AtStage("asked")' = AtStage("asked")
  BY <1>1, <1>2, <1>4
<1>6. Stepping'
  <2>1. calls[c].left > 0 => calls[c].name \in Lookups BY DEF IInv, Stepping
  <2> QED BY <1>1, <1>2, <1>3, <2>1, StepsOn
<1>7. Closes \subseteq Numbers BY DEF Closes
<1>8. Over => Over'
  <2>1. CASE at = "fulfilled" BY <1>4, <2>1
  <2>2. CASE at = "rejected"
    <3>1. \A l \in Closes : l # c BY <2>2
    <3>2. \A l \in Closes : calls'[l] = calls[l] BY <1>3, <1>7, <1>2, <3>1, CallReplaced DEF IInv
    <3> QED BY <1>4, <3>2 DEF Over
  <2> QED BY <2>1, <2>2
<1>9. Over' => Over \/ shared = 0
  <2>1. c \in Closes /\ calls[c].at = "answered" => Over BY DEF Over
  <2> QED BY <1>4, <2>1
<1>10. closed' \in BOOLEAN BY DEF IInv, Typed
<1> QED BY <1>4, <1>5, <1>6, <1>7, <1>8, <1>9, <1>10, CallsOnly

\* close() joins behind all that wait.
LEMMA CloseJoins ==
  ASSUME IInv, NEW c \in Numbers, LookupsSettled(c), shared # 0
  PROVE  IInv'
<1> DEFINE k == [calls[c] EXCEPT !.at = "shared"]
<1>1. /\ calls[c].at = "lookups" /\ \A l \in calls[c].waits : Settled(l)
      /\ Await(shared, c) /\ calls' = [calls EXCEPT ![c].at = "shared"]
      /\ closed' = closed /\ shared' = shared
  BY DEF LookupsSettled
<1>2. /\ calls[c] \in CallSet /\ c \in Nat /\ ~Settled(c) /\ c \in Closes
      /\ c \notin AtStage("shared") /\ c \notin AtStage("asked")
      /\ calls[c].left > 0 => calls[c].name \in Lookups
  BY <1>1, CallKnown DEF Settled, AtStage, IInv, Stepping
<1>3. /\ k \in CallSet /\ k.at = "shared" /\ k.left = calls[c].left
      /\ k.name = calls[c].name /\ k.waits = calls[c].waits
  BY <1>2 DEF CallSet, Stages
<1>4. calls' = [calls EXCEPT ![c] = k] BY <1>1
<1> HIDE DEF k
<1>5. /\ calls' \in Seq(CallSet) /\ Numbers' = Numbers /\ Closes' = Closes
      /\ \A stage : AtStage(stage)' = (AtStage(stage) \ {c}) \cup (IF k.at = stage THEN {c} ELSE {})
      /\ Over => Over'
      /\ Over' => Over
      /\ LookupsFirst'
  BY <1>1, <1>2, <1>3, <1>4, CallGoesOn
<1>6. AtStage("shared")' = AtStage("shared") \cup {c} /\ AtStage("asked")' = AtStage("asked")
  BY <1>2, <1>3, <1>5
<1>7. shared \in DOMAIN connections
  <2>1. connections \in Seq(ConnectionSet) /\ shared \in 0..Len(connections) BY DEF IInv, Typed
  <2> QED BY <2>1
<1>8. Stepping'
  <2>1. /\ DOMAIN connections' = DOMAIN connections
        /\ \A m \in DOMAIN connections : connections'[m].at = connections[m].at
    BY <1>1, <1>2, <1>7, Awaits DEF IInv
  <2> QED BY <1>2, <1>3, <1>4, <2>1, StepsOn
<1>9. Numbers' = Numbers \cup {c} BY <1>5
<1> QED BY <1>1, <1>2, <1>5, <1>6, <1>7, <1>8, <1>9, JoinsList

LEMMA NextIInv == IInv /\ [Next]_vars => IInv'
<1> SUFFICES ASSUME IInv, [Next]_vars PROVE IInv' OBVIOUS
<1>1. CASE Makes BY <1>1, StatementMade, OtherMade DEF Makes
<1>2. CASE Opens BY <1>2, ConnectionGoesOn, WaiterGoesOn DEF Opens
<1>3. ASSUME NEW n \in 1..MaxCalls, OperationAnswered(n) PROVE IInv' BY <1>3, AnswerCame
<1>4. ASSUME NEW c \in Numbers, LookupGoesOn(c) PROVE IInv' BY <1>4, NextStatement
<1>5. ASSUME NEW c \in Numbers, Ends(c) PROVE IInv'
  <2>1. c \notin Closes /\ calls[c].at = "answered" BY <1>5, CallKnown DEF Ends
  <2>2. PICK at \in {"fulfilled", "rejected"} : calls' = [calls EXCEPT ![c].at = at]
    BY <1>5 DEF Ends
  <2>3. UNCHANGED <<closed, shared, connections>> BY <1>5 DEF Ends
  <2> QED BY <2>1, <2>2, <2>3, CallEnds
<1>6. ASSUME NEW c \in Numbers, LookupsSettled(c) PROVE IInv'
  <2>1. CASE shared # 0 BY <1>6, <2>1, CloseJoins
  <2>2. CASE shared = 0
    <3>1. /\ calls[c].at = "lookups" /\ \A l \in calls[c].waits : Settled(l)
          /\ calls' = [calls EXCEPT ![c].at = "fulfilled"]
          /\ UNCHANGED <<closed, shared, connections>>
      BY <1>6, <2>2 DEF LookupsSettled
    <3> QED BY <2>2, <3>1, CallEnds
  <2> QED BY <2>1, <2>2
<1>7. ASSUME NEW c \in Numbers, ClosedConnection(c) PROVE IInv'
  <2>1. /\ calls[c].at = "answered" /\ c \in Closes /\ shared' = 0
        /\ calls' = [calls EXCEPT ![c].at = "fulfilled"]
        /\ UNCHANGED <<closed, connections>>
    BY <1>7, CallKnown DEF ClosedConnection
  <2>2. Over BY <2>1 DEF Over
  <2> QED BY <2>1, <2>2, CallEnds
<1>8. CASE UNCHANGED vars
  <2>1. UNCHANGED <<closed, shared, connections, calls>> BY <1>8 DEF vars
  <2>2. Typed' BY <2>1 DEF IInv, Typed
  <2>3. Numbers' = Numbers /\ Closes' = Closes /\ \A stage : AtStage(stage)' = AtStage(stage)
    BY <2>1 DEF Numbers, Closes, AtStage
  <2>4. AtStage("shared")' = AtStage("shared") /\ AtStage("asked")' = AtStage("asked") BY <2>3
  <2>5. Stepping' /\ LookupsFirst'
    BY <2>1, <2>3 DEF IInv, Stepping, LookupsFirst, Settled, Lookups
  <2>6. Over' <=> Over BY <2>1, <2>3 DEF Over
  <2>7. calls' \in Seq(CallSet) /\ closed' \in BOOLEAN BY <2>2 DEF Typed, CallSet, Stages, Statements
  <2>8. Closes' \cap Numbers = Closes BY <2>3 DEF Closes
  <2> QED BY <2>1, <2>3, <2>4, <2>5, <2>6, <2>7, <2>8, CallsOnly
<1> QED BY <1>1, <1>2, <1>3, <1>4, <1>5, <1>6, <1>7, <1>8 DEF Next, Runs

-----------------------------------------------------------------------------
(* What follows.                                                           *)

(* The calls of a client share one connection, whatever fails while it is  *)
(* prepared and whoever closes it: getSharedConnection() only calls the    *)
(* factory again once the connection before has failed and was closed.     *)
THEOREM ConnectionShared == Spec => []OneConnection
<1>1. IInv => OneConnection
  <2> SUFFICES ASSUME IInv, NEW n \in DOMAIN connections, InUse(n)
               PROVE  n = shared
    BY DEF OneConnection
  <2> QED BY DEF IInv, OneShared, NothingLeft, InUse
<1> QED BY <1>1, InitIInv, NextIInv, PTL DEF Spec

(* Once a close() has succeeded, everything called before it is decided    *)
(* and no connection is open or opens again, however many calls, lookups   *)
(* with statements to come and other close() calls there are.              *)
THEOREM ClosedForGood == Spec => []ClosedStaysClosed
<1>1. IInv => ClosedStaysClosed
  <2> SUFFICES ASSUME IInv, NEW c \in Numbers, calls[c].name = "close", calls[c].at = "fulfilled"
               PROVE  /\ \A d \in 1..(c - 1) : calls[d].name # "close" => Decided(d)
                      /\ \A n \in DOMAIN connections : ~InUse(n)
    BY DEF ClosedStaysClosed
  <2>1. c \in Closes /\ Over BY DEF Closes, Over
  <2>2. \A n \in DOMAIN connections : ~InUse(n) BY <2>1 DEF IInv, NothingLeft, InUse
  <2>3. ASSUME NEW d \in Numbers, calls[d].name # "close" PROVE Decided(d)
    <3>1. calls[d] \in CallSet /\ d \notin Closes BY <2>3, CallKnown
    <3>2. CASE calls[d].name \in Lookups
      <4>1. Settled(d) BY <2>1, <3>2 DEF IInv, LookupsFirst
      <4> QED BY <4>1 DEF Decided
    <3>3. CASE calls[d].name \notin Lookups
      <4>1. calls[d].left \in Nat /\ calls[d].at \in Stages BY <3>1, CallFields
      <4>2. calls[d].left = 0 BY <3>3, <4>1 DEF IInv, Stepping
      <4>3. calls[d].at # "lookups" BY <2>3 DEF IInv, Stepping
      <4>4. CASE calls[d].at = "shared"
        <5>1. d \in AtStage("shared") BY <4>4 DEF AtStage
        <5>2. PICK n \in DOMAIN connections : d \in Range(connections[n].waiters)
          BY <5>1 DEF IInv, Found
        <5>3. connections[n].at = "failed" BY <2>1, <3>1, <5>2 DEF IInv, NothingLeft
        <5> QED BY <5>2, <5>3 DEF Decided, Range
      <4>5. calls[d].at # "asked"
        <5>1. calls[d].at = "asked" => d \in AtStage("asked") BY DEF AtStage
        <5>2. \A n \in DOMAIN connections : d \notin Range(connections[n].operations)
          BY <2>1, <3>1 DEF IInv, NothingLeft
        <5> QED BY <5>1, <5>2 DEF IInv, Found
      <4>6. CASE calls[d].at = "answered" BY <4>2, <4>6 DEF Decided
      <4>7. CASE calls[d].at \in {"fulfilled", "rejected"} BY <4>7 DEF Decided, Settled
      <4> QED BY <4>1, <4>3, <4>4, <4>5, <4>6, <4>7 DEF Stages
    <3> QED BY <3>2, <3>3
  <2>4. \A d \in 1..(c - 1) : d \in Numbers
    <3>1. Len(calls) \in Nat BY DEF IInv, Typed
    <3> QED BY <3>1 DEF Numbers
  <2> QED BY <2>2, <2>3, <2>4
<1> QED BY <1>1, InitIInv, NextIInv, PTL DEF Spec
=============================================================================
