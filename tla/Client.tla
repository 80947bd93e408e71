-------------------------------- MODULE Client --------------------------------
(***************************************************************************)
(* CubridClient (src/src/client/client.ts): the connection its calls       *)
(* share, opened by the first of them, and close(), which must come after  *)
(* everything that was called before it and let nothing follow.  The       *)
(* schema lookups (src/src/client/schema.ts) are calls of up to three      *)
(* statements.                                                             *)
(*                                                                         *)
(* An action is what a call does between two awaits.  The calls that await *)
(* the same promise go on in the order they came, as microtasks do.  The   *)
(* connection takes its operations one after another in the order they     *)
(* are asked for, and a statement opens its session again after a close,   *)
(* as the Adapter module has it.                                           *)
(*                                                                         *)
(* transaction() has a connection of its own: see CallbackTransaction.     *)
(* Definitions named Wrong... are deliberate bugs, used only to show that  *)
(* a property notices them.                                                *)
(***************************************************************************)
EXTENDS Naturals, Sequences, FiniteSets

CONSTANTS
  Names,    \* the calls that are made beside close()
  MaxCalls  \* bound: calls made in one behaviour

\* The statements of each call; one statement stands for query(), execute(),
\* their other forms, beginTransaction(), commit(), rollback() and ping().
\* getPrimaryKey() is getIndexes().
Statements == [query |-> 1, getTables |-> 1, getColumns |-> 2, getIndexes |-> 3]
Lookups == {"getTables", "getColumns", "getIndexes"}

ASSUME NamesAssumption == Names \subseteq DOMAIN Statements
ASSUME MaxCallsAssumption == MaxCalls \in Nat

VARIABLES
  closed,
  shared,       \* sharedConnectionPromise: the number of its connection, 0 for undefined
  connections,  \* the connections made by the factory, and the promise of each
  calls         \* the calls, in the order they were made

vars == <<closed, shared, connections, calls>>

Numbers == 1..Len(calls)
Settled(c) == c \in Numbers /\ calls[c].at \in {"fulfilled", "rejected"}

\* schemaOperations: the lookups whose promise is pending.
SchemaOperations == {c \in Numbers : calls[c].name \in Lookups /\ ~Settled(c)}

Call(name, at, waits) == [name |-> name, at |-> at, on |-> 0, left |-> 0, waits |-> waits]

NewConnection(c) ==
  [at |-> "connecting", waiters |-> <<c>>, operations |-> <<>>, open |-> FALSE]

\* Call c awaits the promise of connection n.
Await(n, c) == connections' = [connections EXCEPT ![n].waiters = Append(@, c)]

-----------------------------------------------------------------------------
(* Making calls.                                                           *)

\* One that forgets that the client was closed.
WrongGetSharedConnection(c) ==
  \/ shared # 0 /\ Await(shared, c) /\ UNCHANGED shared
  \/ /\ shared = 0
     /\ shared' = Len(connections) + 1
     /\ connections' = Append(connections, NewConnection(c))

\* getSharedConnection(), for call c, which awaits it.
GetSharedConnection(c) ==
  /\ ~closed
  /\ \/ shared # 0 /\ Await(shared, c) /\ UNCHANGED shared
     \/ /\ shared = 0
        /\ shared' = Len(connections) + 1
        /\ connections' = Append(connections, NewConnection(c))

\* query() and the others, and runSchemaOperation()
CallsStatement(name) ==
  /\ Len(calls) < MaxCalls
  /\ GetSharedConnection(Len(calls) + 1)
  /\ calls' = Append(calls, Call(name, "shared", {}))
  /\ UNCHANGED closed

RefusedWhenClosed(name) ==
  /\ Len(calls) < MaxCalls /\ closed
  /\ calls' = Append(calls, Call(name, "rejected", {}))
  /\ UNCHANGED <<closed, shared, connections>>

\* One that waits for nothing.
WrongClosesAfter == {}

\* What close() waits for before it looks at the connection.
ClosesAfter == SchemaOperations

\* close(), up to its first await
CallsClose ==
  /\ Len(calls) < MaxCalls
  /\ closed' = TRUE
  /\ calls' = Append(calls, Call("close", "lookups", ClosesAfter))
  /\ UNCHANGED <<shared, connections>>

-----------------------------------------------------------------------------
(* The shared connection.                                                  *)

\* The factory gives a connection or fails; a new connection is handed the
\* transaction options.
FactoryAnswers(n) ==
  /\ n \in DOMAIN connections /\ connections[n].at = "connecting"
  /\ \/ /\ connections' = [connections EXCEPT ![n].at = "preparing"]
        /\ UNCHANGED shared
     \/ /\ connections' = [connections EXCEPT ![n].at = "failed"]
        /\ shared' = 0
  /\ UNCHANGED <<closed, calls>>

\* One that gives up its promise with the connection still in use.
WrongOptionsAnswered(n) ==
  /\ n \in DOMAIN connections /\ connections[n].at = "preparing"
  /\ \E open \in BOOLEAN, at \in {"ready", "discarding"} :
        /\ connections' = [connections EXCEPT ![n].at = at, ![n].open = open]
        /\ shared' = IF at = "ready" THEN shared ELSE 0
  /\ UNCHANGED <<closed, calls>>

\* prepareSharedConnection(); the options may open the session. One that cannot
\* take them is closed.
OptionsAnswered(n) ==
  /\ n \in DOMAIN connections /\ connections[n].at = "preparing"
  /\ \E open \in BOOLEAN, at \in {"ready", "discarding"} :
        connections' = [connections EXCEPT ![n].at = at, ![n].open = open]
  /\ UNCHANGED <<closed, shared, calls>>

\* Its promise is forgotten before anybody is told that it failed. A connection
\* that cannot even be closed is given up.
DiscardAnswered(n) ==
  /\ n \in DOMAIN connections /\ connections[n].at = "discarding"
  /\ connections' = [connections EXCEPT ![n].at = "failed", ![n].open = FALSE]
  /\ shared' = 0
  /\ UNCHANGED <<closed, calls>>

\* The first call that awaits the promise of connection n goes on.
GoesOn(n) ==
  /\ n \in DOMAIN connections /\ connections[n].waiters # <<>>
  /\ LET c == Head(connections[n].waiters)
         rest == [connections EXCEPT ![n].waiters = Tail(@)]
     IN \/ /\ connections[n].at = "ready"
           /\ connections' = [rest EXCEPT ![n].operations = Append(@, c)]
           /\ calls' = [calls EXCEPT ![c].at = "asked", ![c].on = n,
                                     ![c].left = IF calls[c].name = "close" THEN 0
                                                 ELSE Statements[calls[c].name] - 1]
        \/ /\ \/ connections[n].at = "failed"
              \* A lookup checks its arguments once it has a connection.
              \/ connections[n].at = "ready" /\ calls[c].name \in Lookups
           /\ connections' = rest
           /\ calls' = [calls EXCEPT ![c].at = "rejected"]
  /\ UNCHANGED <<closed, shared>>

\* The operation at the head of the queue of connection n is answered; a close
\* that fails leaves the session as it was.
OperationAnswered(n) ==
  /\ n \in DOMAIN connections /\ connections[n].operations # <<>>
  /\ LET c == Head(connections[n].operations)
     IN \E succeeds \in BOOLEAN, open \in BOOLEAN :
          /\ IF calls[c].name = "close" THEN open = (connections[n].open /\ ~succeeds)
             ELSE succeeds => open
          /\ connections' = [connections EXCEPT ![n].operations = Tail(@), ![n].open = open]
          /\ calls' = [calls EXCEPT ![c].at = IF succeeds THEN "answered" ELSE "rejected"]
  /\ UNCHANGED <<closed, shared>>

-----------------------------------------------------------------------------
(* What the calls do with their answers.                                   *)

\* The next catalog query of lookup c, on the connection it captured.
LookupGoesOn(c) ==
  /\ calls[c].at = "answered" /\ calls[c].left > 0
  /\ connections' = [connections EXCEPT ![calls[c].on].operations = Append(@, c)]
  /\ calls' = [calls EXCEPT ![c].at = "asked", ![c].left = @ - 1]
  /\ UNCHANGED <<closed, shared>>

\* A statement has its result, or a lookup has found no table, or several.
Ends(c) ==
  /\ calls[c].at = "answered" /\ calls[c].name # "close"
  /\ \/ calls[c].left = 0 /\ calls' = [calls EXCEPT ![c].at = "fulfilled"]
     \/ /\ calls[c].left > 0 /\ calls[c].left = Statements[calls[c].name] - 1
        /\ calls' = [calls EXCEPT ![c].at = "rejected"]
  /\ UNCHANGED <<closed, shared, connections>>

\* One that strikes a lookup off its list only when it succeeds.
WrongLookupsSettled(c) ==
  /\ calls[c].at = "lookups" /\ \A l \in calls[c].waits : calls[l].at = "fulfilled"
  /\ \/ /\ shared = 0
        /\ calls' = [calls EXCEPT ![c].at = "fulfilled"] /\ UNCHANGED connections
     \/ /\ shared # 0 /\ Await(shared, c)
        /\ calls' = [calls EXCEPT ![c].at = "shared"]
  /\ UNCHANGED <<closed, shared>>

\* close(), once the lookups have settled: there may be no connection to close.
LookupsSettled(c) ==
  /\ calls[c].at = "lookups" /\ \A l \in calls[c].waits : Settled(l)
  /\ \/ /\ shared = 0
        /\ calls' = [calls EXCEPT ![c].at = "fulfilled"] /\ UNCHANGED connections
     \/ /\ shared # 0 /\ Await(shared, c)
        /\ calls' = [calls EXCEPT ![c].at = "shared"]
  /\ UNCHANGED <<closed, shared>>

ClosedConnection(c) ==
  /\ calls[c].at = "answered" /\ calls[c].name = "close"
  /\ shared' = 0
  /\ calls' = [calls EXCEPT ![c].at = "fulfilled"]
  /\ UNCHANGED <<closed, connections>>

-----------------------------------------------------------------------------
Init == closed = FALSE /\ shared = 0 /\ connections = <<>> /\ calls = <<>>

Makes ==
  \/ \E name \in Names : CallsStatement(name) \/ RefusedWhenClosed(name)
  \/ CallsClose

Opens ==
  \E n \in 1..MaxCalls : FactoryAnswers(n) \/ OptionsAnswered(n) \/ DiscardAnswered(n) \/ GoesOn(n)

Runs ==
  \/ \E n \in 1..MaxCalls : OperationAnswered(n)
  \/ \E c \in Numbers :
       LookupGoesOn(c) \/ Ends(c) \/ LookupsSettled(c) \/ ClosedConnection(c)

Next == Makes \/ Opens \/ Runs

Spec == Init /\ [][Next]_vars

\* The connection answers every operation (see EveryCallSettles of
\* CASConnection), and the engine runs every job.
FairSpec == Spec /\ WF_vars(Opens) /\ WF_vars(Runs)

-----------------------------------------------------------------------------
(* Properties.                                                             *)

\* Where a connection is in use: from the factory's call to its end.
InUse(n) == connections[n].at \in {"connecting", "preparing", "discarding"} \/ connections[n].open

\* The outcome of call d is decided, if not told: it needs no connection any more.
Decided(d) ==
  \/ Settled(d)
  \/ calls[d].at = "answered" /\ calls[d].left = 0
  \/ \E n \in DOMAIN connections : \E i \in DOMAIN connections[n].waiters :
       connections[n].at = "failed" /\ connections[n].waiters[i] = d

\* When close() resolves, everything called before it is over, and no session is
\* open or opens again: neither a lookup with statements to come nor a
\* connection that is still being prepared is left behind.
ClosedStaysClosed ==
  \A c \in Numbers : calls[c].name = "close" /\ calls[c].at = "fulfilled" =>
    /\ \A d \in 1..(c - 1) : calls[d].name # "close" => Decided(d)
    /\ \A n \in DOMAIN connections : ~InUse(n)

\* The calls of a client share one connection: a second one is only opened when
\* the first has failed and was closed.
OneConnection ==
  \A m, n \in DOMAIN connections : InUse(m) /\ InUse(n) => m = n

\* Every call settles, also those that wait for a connection that fails and
\* close() behind all of them.
EveryCallSettles == \A c \in 1..MaxCalls : c \in Numbers ~> Settled(c)

=============================================================================
