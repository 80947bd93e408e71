------------------------------ MODULE MCAdapter ------------------------------
(* The calls of the instances of Adapter that TLC checks. *)
EXTENDS Adapter

Of(call) == [call |-> call, sql |-> "select", binds |-> FALSE, escapes |-> FALSE]

Plain(call, sql) == [call |-> call, sql |-> sql, binds |-> FALSE, escapes |-> FALSE]
Prepared(call, sql) == [call |-> call, sql |-> sql, binds |-> TRUE, escapes |-> FALSE]
Escaped(call, sql) == [call |-> call, sql |-> sql, binds |-> FALSE, escapes |-> TRUE]

TransactionCalls ==
  {Plain("query", "update")} \cup {Of(c) : c \in {"beginTransaction", "commit", "rollback", "ping"}}

AutocommitCalls ==
  {Plain("query", "select"), Plain("execute", "update"), Prepared("query", "update"),
   Escaped("query", "update"), Of("ping"), Of("close"), Of("setTransactionOptions")}

MixedCalls ==
  {Escaped("execute", "update"), Plain("execute", "insert"), Plain("query", "insert"),
   Prepared("execute", "insert"), Prepared("query", "select"), Of("beginTransaction"),
   Of("commit"), Of("rollback"), Of("close"), Of("connect")}

-----------------------------------------------------------------------------

Transactional == [calls |-> TransactionCalls, maxCalls |-> 5, maxWaiting |-> 2, maxFaults |-> 1]
Autocommitted == [calls |-> AutocommitCalls, maxCalls |-> 3, maxWaiting |-> 3, maxFaults |-> 2]
Mixed == [calls |-> MixedCalls, maxCalls |-> 3, maxWaiting |-> 2, maxFaults |-> 2]

\* Transactions alone and statements outside of them: neither needs generated ids.
SeparateWorkloads == {Transactional, Autocommitted}
MixedWorkloads == {Mixed}

\* The instances meet the hypothesis of the theorems OneSessionHolds and EscapedWhereMeasured.
ASSUME ProbesAssumption == ProbesEndNothing

=============================================================================
