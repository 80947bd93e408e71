--------------------------- MODULE MCCASConnection ---------------------------
(***************************************************************************)
(* Small instances of CASConnection: two parameters, as the adapter's      *)
(* isolation level and lock timeout, and lists that set one or both.       *)
(*                                                                         *)
(* MCSpec is Spec with one of two workloads for a whole behaviour, so that *)
(* each can have the bounds it needs.                                      *)
(***************************************************************************)
EXTENDS CASConnection

Isolation(v) == [parameter |-> "isolation", value |-> v]
Timeout(v) == [parameter |-> "timeout", value |-> v]

NoLists == {<<>>}
OneList == {<<Isolation(1), Timeout(1)>>}
TwoLists == {<<Isolation(1)>>, <<Isolation(2), Timeout(1)>>}
AllLists == NoLists \cup TwoLists

-----------------------------------------------------------------------------

\* Requests of every kind on sessions with nothing to set, with a read timeout.
Requests ==
  [operations |-> {"sendAndRecv", "sendAndRecvOnSession", "releaseOnSession", "connect",
                   "discardSession", "close"},
   functions |-> {"STATEMENT", "END_TRAN", "CLOSE_HANDLE", "NONE"},
   lists |-> NoLists, maxCalls |-> 4, maxFaults |-> 2]

\* Settings that change between requests, without a read timeout.
Settings ==
  [operations |-> {"setSessionParameters", "ensureSession", "sendAndRecv"},
   functions |-> {"STATEMENT", "NONE"},
   lists |-> TwoLists, maxCalls |-> 3, maxFaults |-> 1]

\* readTimeout never changes, so it tells the workload of a behaviour.
Workload == IF readTimeout THEN Requests ELSE Settings

MCInit == Init /\ sessionParameters \in Workload.lists

\* The operation that was just called belongs to the workload.
Belongs(op) ==
  /\ op.call \in Workload.operations /\ op.fn \in Workload.functions
  /\ op.call = "setSessionParameters" => op.parameters \in Workload.lists

MCNext ==
  /\ Next
  /\ Len(outcome') > Len(outcome) =>
       Len(outcome) < Workload.maxCalls /\ Belongs(queue'[Len(queue')])
  /\ faults' <= Workload.maxFaults

MCSpec == MCInit /\ [][MCNext]_vars

=============================================================================
