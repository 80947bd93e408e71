------------------------- MODULE CASConnection_proofs -------------------------
(***************************************************************************)
(* Types, and what a request can rely on, for every number of calls,       *)
(* retries and faults and every list of session parameters: the CAS it was *)
(* sent to stays with the connection until it replied, and the reply       *)
(* stream stays aligned (verifySessionUnlocked, exchangeUnlocked); which   *)
(* session it is written to, when a session counts as dead, and which      *)
(* parameters it holds (the guards of the session-bound exchanges,         *)
(* trackSocketDeath, retireSocket).  And what the connection promises its  *)
(* callers (enqueue, exchangeUnlocked): requests settle in order, an       *)
(* answer is the request's own and means that it ran once, and no request  *)
(* runs twice: it implements RequestQueue.                                 *)
(***************************************************************************)
EXTENDS CASConnection, SequenceTheorems, TLAPS

-----------------------------------------------------------------------------
(* Sockets and their peers.                                                *)

LEMMA PeerTyped ==
  ASSUME cas \in Seq(CAS), NEW s \in 1..Len(cas)
  PROVE  /\ cas[s] \in CAS
         /\ cas[s].state \in {"up", "left", "crashed"}
         /\ cas[s].generation \in Nat
         /\ cas[s].inTran \in BOOLEAN
         /\ cas[s].settings \in [Parameters -> Values \cup {Default}]
         /\ cas[s].requests \in Seq(Request)
         /\ cas[s].replies \in Seq(Reply)
         /\ cas[s] = [state |-> cas[s].state, generation |-> cas[s].generation,
                      inTran |-> cas[s].inTran, settings |-> cas[s].settings,
                      requests |-> cas[s].requests, replies |-> cas[s].replies]
<1>1. cas[s] \in CAS
  BY ElementOfSeq
<1> QED
  BY <1>1 DEF CAS

\* A peer that opened the database, one that served a request, and one that crashed.
LEMMA OpenedPeer ==
  ASSUME NEW c \in CAS, NEW n \in Nat
  PROVE  [c EXCEPT !.generation = n] \in CAS
  BY DEF CAS

LEMMA ServedPeer ==
  ASSUME NEW c \in CAS, NEW inTran \in BOOLEAN, NEW settings \in [Parameters -> Values \cup {Default}],
         NEW requests \in Seq(Request), NEW replies \in Seq(Reply)
  PROVE  [c EXCEPT !.inTran = inTran, !.settings = settings, !.requests = requests,
                   !.replies = replies] \in CAS
  BY DEF CAS

LEMMA CrashedPeer ==
  ASSUME NEW c \in CAS, NEW replies \in Seq(Reply)
  PROVE  [c EXCEPT !.state = "crashed", !.replies = replies] \in CAS
  BY DEF CAS

LEMMA NewSocketTyped == NewSocket \in CAS
  BY DEF NewSocket, CAS

LEMMA SetPeer ==
  ASSUME cas \in Seq(CAS), NEW s \in 1..Len(cas), NEW new \in CAS,
         cas' = [cas EXCEPT ![s] = new]
  PROVE  /\ cas' \in Seq(CAS) /\ Len(cas') = Len(cas)
         /\ cas'[s] = new
         /\ \A t \in 1..Len(cas) : t # s => cas'[t] = cas[t]
  BY ExceptSeq

LEMMA PutTyped ==
  ASSUME cas \in Seq(CAS), socket \in 1..Len(cas), NEW r \in Request, Put(r)
  PROVE  cas' \in Seq(CAS) /\ Len(cas') = Len(cas)
<1> DEFINE new == [cas[socket] EXCEPT !.requests = Append(@, r)]
<1>1. Append(cas[socket].requests, r) \in Seq(Request)
  BY PeerTyped, AppendProperties
<1>2. new \in CAS
  BY <1>1, PeerTyped DEF CAS
<1>3. cas' = [cas EXCEPT ![socket] = new]
  BY DEF Put
<1> QED
  BY <1>2, <1>3, SetPeer

LEMMA PutOwn ==
  ASSUME cas \in Seq(CAS), CanSend, socket \in 0..Len(cas), NEW fn \in {"CHECK_CAS", "CON_CLOSE"},
         Put([fn |-> fn, id |-> 0, set |-> <<>>])
  PROVE  cas' \in Seq(CAS) /\ Len(cas') = Len(cas)
<1>1. [fn |-> fn, id |-> 0, set |-> <<>>] \in Request
  BY DEF Request
<1> QED
  BY <1>1, PutTyped, LenProperties DEF CanSend

LEMMA TakeReplyTyped ==
  ASSUME cas \in Seq(CAS), socket \in 1..Len(cas), Readable, TakeReply
  PROVE  /\ cas' \in Seq(CAS) /\ Len(cas') = Len(cas)
         /\ Answer.id \in Nat /\ Answer.outTran \in BOOLEAN
<1> DEFINE new == [cas[socket] EXCEPT !.replies = Tail(@)]
<1>1. Answer \in Reply /\ Tail(cas[socket].replies) \in Seq(Reply)
  BY PeerTyped, HeadTailProperties DEF Answer, Readable
<1>2. new \in CAS
  BY <1>1, PeerTyped DEF CAS
<1>3. cas' = [cas EXCEPT ![socket] = new]
  BY DEF TakeReply
<1>4. cas' \in Seq(CAS) /\ Len(cas') = Len(cas)
  BY <1>2, <1>3, SetPeer
<1> QED
  BY <1>1, <1>4 DEF Reply

-----------------------------------------------------------------------------
(* The queue and what its callers are told.                                *)

LEMMA ArgumentsTyped ==
  ASSUME NEW call \in Operations, NEW a \in Arguments(call), generation \in Nat
  PROVE  /\ call \in OpNames
         /\ a.generation \in Nat
         /\ a.fn \in Functions \cup {"CLOSE_HANDLE", "NONE"}
         /\ a.parameters \in ParameterLists \cup {<<>>}
         /\ call \in Exchanging => a.fn # "NONE"
         /\ call = "setSessionParameters" => a.parameters \in ParameterLists
  BY OperationsAssumption, FunctionsAssumption DEF Arguments, OpNames, Exchanging, OnSession

LEMMA RunningTyped ==
  ASSUME CallersTyped, queue # <<>>
  PROVE  /\ Running \in Op /\ Running.id \in Nat
         /\ Running.fn \in Functions \cup {"CLOSE_HANDLE", "NONE"}
         /\ Running.call \in Exchanging => Running.fn # "NONE"
         /\ Running.call = "setSessionParameters" => Running.parameters \in ParameterLists
<1>1. Running \in Op
  BY HeadTailProperties DEF CallersTyped, Running
<1> QED
  BY <1>1 DEF Op

LEMMA SettleTyped ==
  ASSUME CallersTyped, queue # <<>>, UNCHANGED history, NEW reply \in Nat,
         NEW result \in {"answered", "done", "absent", "failed"}, Settle(result, reply)
  PROVE  CallersTyped' /\ pc' = "idle"
<1> DEFINE o == [status |-> result, reply |-> reply]
<1>1. queue' \in Seq(Op)
  BY HeadTailProperties DEF Settle, CallersTyped
<1>2. o \in Outcome
  BY DEF Outcome
<1>3. outcome \in Seq(Outcome)
  BY DEF CallersTyped
<1>4. outcome' = [outcome EXCEPT ![Running.id] = o]
  BY DEF Settle
<1> HIDE DEF o
<1>5. outcome' \in Seq(Outcome) /\ Len(outcome') = Len(outcome)
  <2>1. CASE Running.id \in 1..Len(outcome)
    BY <2>1, <1>2, <1>3, <1>4, ExceptSeq
  <2>2. CASE Running.id \notin 1..Len(outcome)
    <3>1. outcome' = outcome
      BY <2>2, <1>3, <1>4, LenProperties
    <3> QED
      BY <3>1, <1>3
  <2> QED
    BY <2>1, <2>2
<1> QED
  BY <1>1, <1>5 DEF Settle, CallersTyped, history

-----------------------------------------------------------------------------
(* Type correctness, with what the code relies on at each of its awaits: an   *)
(* operation is running, and the socket it waits on exists.                   *)

Control ==
  /\ pc # "idle" => queue # <<>>
  /\ connected => socket # 0
  /\ pc \in AwaitsReply \cup {"apply"} => connected
  /\ pc = "port" => Len(cas) # 0
  /\ pc \in {"tls", "open"} => socket = Len(cas) /\ socket # 0

Typed == TypeOK /\ Control

LEMMA TypedInit == Init => Typed
<1> SUFFICES ASSUME Init PROVE Typed
  OBVIOUS
<1>1. FlagsTyped
  BY DEF Init, FlagsTyped
<1>2. NumbersTyped
  BY BoundsAssumption DEF Init, NumbersTyped
<1>3. CallersTyped
  BY EmptySeq DEF Init, CallersTyped
<1>4. PeersTyped
  BY BoundsAssumption, EmptySeq DEF Init, PeersTyped
<1>5. Control /\ pc \in Waits \cup Points
  BY DEF Init, Control, AwaitsReply, Waits, Points
<1> QED
  BY <1>1, <1>2, <1>3, <1>4, <1>5 DEF Init, Typed, TypeOK, SessionTyped

LEMMA TypedStep == Typed /\ [Next]_vars => Typed'
<1> SUFFICES ASSUME Typed, [Next]_vars PROVE Typed'
  OBVIOUS
<1> USE OperationsAssumption, FunctionsAssumption, ParametersAssumption, BoundsAssumption
<1> USE DEF Typed, transport, status, counters, locals, callers, history, Waits, Points, AwaitsReply
<1>0. Len(cas) \in Nat /\ 0 \in 0..Len(cas)
  BY LenProperties DEF TypeOK, PeersTyped
<1>1. CASE Enqueue
  <2>1. SessionTyped'
    BY <1>1 DEF Enqueue, TypeOK, SessionTyped, FlagsTyped, NumbersTyped
  <2>2. CallersTyped'
    <3> DEFINE op(call, a) == [id |-> Len(outcome) + 1, call |-> call,
                               generation |-> a.generation, fn |-> a.fn,
                               parameters |-> a.parameters]
    <3>1. PICK call \in Operations : \E a \in Arguments(call) : queue' = Append(queue, op(call, a))
      BY <1>1 DEF Enqueue
    <3>2. PICK a \in Arguments(call) : queue' = Append(queue, op(call, a))
      BY <3>1
    <3>3. queue' \in Seq(Op)
      <4>1. op(call, a) \in Op
        BY LenProperties, ArgumentsTyped DEF TypeOK, SessionTyped, NumbersTyped,
           CallersTyped, Op
      <4> QED
        BY <3>2, <4>1, AppendProperties DEF TypeOK, CallersTyped
    <3>4. [status |-> "waiting", reply |-> 0] \in Outcome /\ {} \in SUBSET Nat
      BY DEF Outcome
    <3>5. /\ outcome' \in Seq(Outcome) /\ Len(outcome') = Len(outcome) + 1
          /\ sentOn' \in Seq(SUBSET Nat) /\ Len(sentOn') = Len(sentOn) + 1
          /\ served' \in Seq(Nat) /\ Len(served') = Len(served) + 1
      <4>1. outcome \in Seq(Outcome) /\ sentOn \in Seq(SUBSET Nat) /\ served \in Seq(Nat)
        BY DEF TypeOK, CallersTyped
      <4>2. /\ outcome' = Append(outcome, [status |-> "waiting", reply |-> 0])
            /\ sentOn' = Append(sentOn, {})
            /\ served' = Append(served, 0)
        BY <1>1 DEF Enqueue
      <4> QED
        BY <4>1, <4>2, <3>4, AppendProperties
    <3> QED
      BY <1>1, <3>3, <3>5 DEF TypeOK, CallersTyped
  <2>3. PeersTyped'
    BY <1>0, <1>1 DEF Enqueue, TypeOK, PeersTyped, Control
  <2>4. Control' /\ pc' \in Waits \cup Points
    <3>1. queue' # <<>>
      <4>1. queue \in Seq(Op) /\ \E o : queue' = Append(queue, o)
        BY <1>1 DEF Enqueue, TypeOK, CallersTyped
      <4> QED
        BY <4>1, AppendProperties
    <3> QED
      BY <1>1, <3>1 DEF Enqueue, TypeOK, Control
  <2> QED
    BY <2>1, <2>2, <2>3, <2>4 DEF TypeOK
<1>2. CASE Begin
  <2>1. SessionTyped'
    <3>1. FlagsTyped'
      BY <1>2 DEF Begin, TypeOK, SessionTyped, FlagsTyped
    <3>2. NumbersTyped'
      BY <1>2 DEF Begin, TypeOK, SessionTyped, NumbersTyped
    <3> QED
      BY <1>2, <3>1, <3>2, RunningTyped DEF Begin, TypeOK, SessionTyped, Control
  <2>2. CallersTyped'
    BY <1>2 DEF Begin, TypeOK, CallersTyped, Control
  <2>3. PeersTyped'
    BY <1>0, <1>2 DEF Begin, TypeOK, PeersTyped, Control
  <2>4. Control' /\ pc' \in Waits \cup Points
    BY <1>2, <2>3 DEF Begin, TypeOK, PeersTyped, Control
  <2> QED
    BY <2>1, <2>2, <2>3, <2>4 DEF TypeOK
<1>3. CASE VerifySkips
  <2>1. SessionTyped'
    BY <1>3 DEF VerifySkips, TypeOK, SessionTyped, FlagsTyped, NumbersTyped
  <2>2. CallersTyped'
    BY <1>3 DEF VerifySkips, TypeOK, CallersTyped, Control
  <2>3. PeersTyped'
    BY <1>0, <1>3 DEF VerifySkips, TypeOK, PeersTyped, Control
  <2>4. Control' /\ pc' \in Waits \cup Points
    BY <1>3, <2>3 DEF VerifySkips, TypeOK, PeersTyped, Control
  <2> QED
    BY <2>1, <2>2, <2>3, <2>4 DEF TypeOK
<1>4. CASE VerifyProbes
  <2>1. SessionTyped'
    BY <1>4 DEF VerifyProbes, TypeOK, SessionTyped, FlagsTyped, NumbersTyped
  <2>2. CallersTyped'
    BY <1>4 DEF VerifyProbes, TypeOK, CallersTyped, Control
  <2>3. PeersTyped'
    BY <1>0, <1>4, PutOwn DEF VerifyProbes, TypeOK, PeersTyped, Control
  <2>4. Control' /\ pc' \in Waits \cup Points
    BY <1>4, <2>3 DEF VerifyProbes, CanSend, TypeOK, PeersTyped, Control
  <2> QED
    BY <2>1, <2>2, <2>3, <2>4 DEF TypeOK
<1>5. CASE ProbeAnswered
  <2>1. SessionTyped'
    BY <1>5 DEF ProbeAnswered, TypeOK, SessionTyped, FlagsTyped, NumbersTyped
  <2>2. CallersTyped'
    BY <1>5 DEF ProbeAnswered, TypeOK, CallersTyped, Control
  <2>3. PeersTyped'
    BY <1>0, <1>5, TakeReplyTyped DEF ProbeAnswered, TypeOK, PeersTyped, Control
  <2>4. Control' /\ pc' \in Waits \cup Points
    BY <1>5, <2>3 DEF ProbeAnswered, TypeOK, PeersTyped, Control
  <2> QED
    BY <2>1, <2>2, <2>3, <2>4 DEF TypeOK
<1>6. CASE ProbeFails
  <2>1. SessionTyped'
    <3>1. FlagsTyped'
      BY <1>6 DEF ProbeFails, RetireSocket, TypeOK, SessionTyped, FlagsTyped
    <3>2. NumbersTyped'
      BY <1>6 DEF ProbeFails, RetireSocket, TypeOK, SessionTyped, NumbersTyped
    <3> QED
      BY <1>6, <3>1, <3>2 DEF ProbeFails, TypeOK, SessionTyped
  <2>2. CallersTyped'
    BY <1>6 DEF ProbeFails, RetireSocket, TypeOK, CallersTyped, Control
  <2>3. PeersTyped'
    BY <1>0, <1>6 DEF ProbeFails, RetireSocket, TypeOK, PeersTyped, Control
  <2>4. Control' /\ pc' \in Waits \cup Points
    BY <1>6, <2>3 DEF ProbeFails, RetireSocket, CanSend, TypeOK, PeersTyped, Control
  <2> QED
    BY <2>1, <2>2, <2>3, <2>4 DEF TypeOK
<1>7. CASE AlreadyConnected
  <2>1. SessionTyped'
    BY <1>7 DEF AlreadyConnected, TypeOK, SessionTyped, FlagsTyped, NumbersTyped
  <2>2. CallersTyped'
    BY <1>7, SettleTyped DEF AlreadyConnected, TypeOK, CallersTyped, Control
  <2>3. PeersTyped'
    BY <1>0, <1>7 DEF AlreadyConnected, TypeOK, PeersTyped, Control
  <2>4. Control' /\ pc' \in Waits \cup Points
    BY <1>7, <2>3 DEF AlreadyConnected, TypeOK, PeersTyped, Control, Settle
  <2> QED
    BY <2>1, <2>2, <2>3, <2>4 DEF TypeOK
<1>8. CASE Connects
  <2>1. SessionTyped'
    <3>1. FlagsTyped'
      BY <1>8 DEF Connects, TypeOK, SessionTyped, FlagsTyped
    <3>2. NumbersTyped'
      BY <1>8 DEF Connects, TypeOK, SessionTyped, NumbersTyped
    <3> QED
      BY <1>8, <3>1, <3>2 DEF Connects, TypeOK, SessionTyped
  <2>2. CallersTyped'
    BY <1>8 DEF Connects, TypeOK, CallersTyped, Control
  <2>3. PeersTyped'
    BY <1>0, <1>8 DEF Connects, TypeOK, PeersTyped, Control
  <2>4. Control' /\ pc' \in Waits \cup Points
    BY <1>8, <2>3 DEF Connects, TypeOK, PeersTyped, Control
  <2> QED
    BY <2>1, <2>2, <2>3, <2>4 DEF TypeOK
<1>9. CASE HandshakeBegins
  <2>1. SessionTyped'
    BY <1>9 DEF HandshakeBegins, TypeOK, SessionTyped, FlagsTyped, NumbersTyped
  <2>2. CallersTyped'
    BY <1>9 DEF HandshakeBegins, TypeOK, CallersTyped, Control
  <2>3. PeersTyped'
    BY <1>0, <1>9 DEF HandshakeBegins, TypeOK, PeersTyped, Control
  <2>4. Control' /\ pc' \in Waits \cup Points
    BY <1>9, <2>3 DEF HandshakeBegins, TypeOK, PeersTyped, Control
  <2> QED
    BY <2>1, <2>2, <2>3, <2>4 DEF TypeOK
<1>10. CASE BrokerUnreachable
  <2>1. SessionTyped'
    <3>1. FlagsTyped'
      BY <1>10 DEF BrokerUnreachable, RetryOrFail, TypeOK, SessionTyped, FlagsTyped
    <3>2. NumbersTyped'
      BY <1>10 DEF BrokerUnreachable, RetryOrFail, TypeOK, SessionTyped, NumbersTyped
    <3> QED
      BY <1>10, <3>1, <3>2 DEF BrokerUnreachable, TypeOK, SessionTyped
  <2>2. CallersTyped'
    BY <1>10, SettleTyped DEF BrokerUnreachable, RetryOrFail, TypeOK, CallersTyped, Control
  <2>3. PeersTyped'
    BY <1>0, <1>10 DEF BrokerUnreachable, RetryOrFail, TypeOK, PeersTyped, Control
  <2>4. Control' /\ pc' \in Waits \cup Points
    BY <1>10, <2>3 DEF BrokerUnreachable, RetryOrFail, TypeOK, PeersTyped, Control, Settle
  <2> QED
    BY <2>1, <2>2, <2>3, <2>4 DEF TypeOK
<1>11. CASE BackoffElapses
  <2>1. SessionTyped'
    BY <1>11 DEF BackoffElapses, TypeOK, SessionTyped, FlagsTyped, NumbersTyped
  <2>2. CallersTyped'
    BY <1>11 DEF BackoffElapses, TypeOK, CallersTyped, Control
  <2>3. PeersTyped'
    BY <1>0, <1>11 DEF BackoffElapses, TypeOK, PeersTyped, Control
  <2>4. Control' /\ pc' \in Waits \cup Points
    BY <1>11, <2>3 DEF BackoffElapses, TypeOK, PeersTyped, Control
  <2> QED
    BY <2>1, <2>2, <2>3, <2>4 DEF TypeOK
<1>12. CASE BrokerAccepts
  <2>1. SessionTyped'
    BY <1>12 DEF BrokerAccepts, TypeOK, SessionTyped, FlagsTyped, NumbersTyped
  <2>2. CallersTyped'
    BY <1>12 DEF BrokerAccepts, TypeOK, CallersTyped, Control
  <2>3. PeersTyped'
    <3>1. cas' \in Seq(CAS) /\ Len(cas') = Len(cas) + 1
      BY <1>12, NewSocketTyped, AppendProperties DEF BrokerAccepts, TypeOK, PeersTyped
    <3> QED
      BY <1>0, <1>12, <3>1 DEF BrokerAccepts, TypeOK, PeersTyped
  <2>4. Control' /\ pc' \in Waits \cup Points
    <3>1. Len(cas') = Len(cas) + 1
      BY <1>12, NewSocketTyped, AppendProperties DEF BrokerAccepts, TypeOK, PeersTyped
    <3> QED
      BY <1>0, <1>12, <3>1 DEF BrokerAccepts, AfterRedirect, TypeOK, Control
  <2> QED
    BY <2>1, <2>2, <2>3, <2>4 DEF TypeOK
<1>13. CASE BrokerHandsOver
  <2>1. SessionTyped'
    BY <1>13 DEF BrokerHandsOver, TypeOK, SessionTyped, FlagsTyped, NumbersTyped
  <2>2. CallersTyped'
    BY <1>13 DEF BrokerHandsOver, TypeOK, CallersTyped, Control
  <2>3. PeersTyped'
    BY <1>0, <1>13 DEF BrokerHandsOver, TypeOK, PeersTyped, Control
  <2>4. Control' /\ pc' \in Waits \cup Points
    BY <1>0, <1>13 DEF BrokerHandsOver, AfterRedirect, TypeOK, Control
  <2> QED
    BY <2>1, <2>2, <2>3, <2>4 DEF TypeOK
<1>14. CASE BrokerRedirects
  <2>1. SessionTyped'
    BY <1>14 DEF BrokerRedirects, TypeOK, SessionTyped, FlagsTyped, NumbersTyped
  <2>2. CallersTyped'
    BY <1>14 DEF BrokerRedirects, TypeOK, CallersTyped, Control
  <2>3. PeersTyped'
    BY <1>0, <1>14 DEF BrokerRedirects, TypeOK, PeersTyped, Control
  <2>4. Control' /\ pc' \in Waits \cup Points
    BY <1>14, <2>3 DEF BrokerRedirects, TypeOK, PeersTyped, Control
  <2> QED
    BY <2>1, <2>2, <2>3, <2>4 DEF TypeOK
<1>15. CASE RedirectAccepted
  <2>1. SessionTyped'
    BY <1>15 DEF RedirectAccepted, TypeOK, SessionTyped, FlagsTyped, NumbersTyped
  <2>2. CallersTyped'
    BY <1>15 DEF RedirectAccepted, TypeOK, CallersTyped, Control
  <2>3. PeersTyped'
    <3>1. cas' \in Seq(CAS) /\ Len(cas') = Len(cas) + 1
      BY <1>15, NewSocketTyped, AppendProperties DEF RedirectAccepted, TypeOK, PeersTyped
    <3> QED
      BY <1>0, <1>15, <3>1 DEF RedirectAccepted, TypeOK, PeersTyped
  <2>4. Control' /\ pc' \in Waits \cup Points
    <3>1. Len(cas') = Len(cas) + 1
      BY <1>15, NewSocketTyped, AppendProperties DEF RedirectAccepted, TypeOK, PeersTyped
    <3> QED
      BY <1>0, <1>15, <3>1 DEF RedirectAccepted, AfterRedirect, TypeOK, Control
  <2> QED
    BY <2>1, <2>2, <2>3, <2>4 DEF TypeOK
<1>16. CASE RedirectUnreachable
  <2>1. SessionTyped'
    <3>1. FlagsTyped'
      BY <1>16 DEF RedirectUnreachable, AbandonHandshake, RetryOrFail, RetireSocket, TypeOK,
         SessionTyped, FlagsTyped
    <3>2. NumbersTyped'
      BY <1>16 DEF RedirectUnreachable, AbandonHandshake, RetryOrFail, RetireSocket, TypeOK,
         SessionTyped, NumbersTyped
    <3> QED
      BY <1>16, <3>1, <3>2 DEF RedirectUnreachable, TypeOK, SessionTyped
  <2>2. CallersTyped'
    BY <1>16, SettleTyped DEF RedirectUnreachable, AbandonHandshake, RetryOrFail,
       RetireSocket, TypeOK, CallersTyped, Control
  <2>3. PeersTyped'
    BY <1>0, <1>16 DEF RedirectUnreachable, AbandonHandshake, RetryOrFail, RetireSocket,
       TypeOK, PeersTyped, Control
  <2>4. Control' /\ pc' \in Waits \cup Points
    BY <1>16, <2>3 DEF RedirectUnreachable, AbandonHandshake, RetryOrFail, RetireSocket,
       TypeOK, PeersTyped, Control, Settle
  <2> QED
    BY <2>1, <2>2, <2>3, <2>4 DEF TypeOK
<1>17. CASE TlsUpgraded
  <2>1. SessionTyped'
    BY <1>17 DEF TlsUpgraded, TypeOK, SessionTyped, FlagsTyped, NumbersTyped
  <2>2. CallersTyped'
    BY <1>17 DEF TlsUpgraded, TypeOK, CallersTyped, Control
  <2>3. PeersTyped'
    BY <1>0, <1>17 DEF TlsUpgraded, TypeOK, PeersTyped, Control
  <2>4. Control' /\ pc' \in Waits \cup Points
    BY <1>17, <2>3 DEF TlsUpgraded, TypeOK, PeersTyped, Control
  <2> QED
    BY <2>1, <2>2, <2>3, <2>4 DEF TypeOK
<1>18. CASE HandshakeFails
  <2>1. SessionTyped'
    BY <1>18 DEF HandshakeFails, AbandonHandshake, RetireSocket, TypeOK, SessionTyped,
       FlagsTyped, NumbersTyped
  <2>2. CallersTyped'
    BY <1>18, SettleTyped DEF HandshakeFails, AbandonHandshake, RetireSocket, TypeOK,
       CallersTyped, Control
  <2>3. PeersTyped'
    BY <1>0, <1>18 DEF HandshakeFails, AbandonHandshake, RetireSocket, TypeOK, PeersTyped,
       Control
  <2>4. Control' /\ pc' \in Waits \cup Points
    BY <1>18, <2>3 DEF HandshakeFails, AbandonHandshake, RetireSocket, TypeOK, PeersTyped,
       Control, Settle
  <2> QED
    BY <2>1, <2>2, <2>3, <2>4 DEF TypeOK
<1>19. CASE DatabaseOpened
  <2>1. SessionTyped'
    <3>1. FlagsTyped'
      BY <1>19 DEF DatabaseOpened, TypeOK, SessionTyped, FlagsTyped
    <3>2. NumbersTyped'
      BY <1>19 DEF DatabaseOpened, TypeOK, SessionTyped, NumbersTyped
    <3> QED
      BY <1>19, <3>1, <3>2 DEF DatabaseOpened, TypeOK, SessionTyped
  <2>2. CallersTyped'
    BY <1>19 DEF DatabaseOpened, TypeOK, CallersTyped, Control
  <2>3. PeersTyped'
    <3> DEFINE new == [cas[socket] EXCEPT !.generation = generation + 1]
    <3>1. socket \in 1..Len(cas) /\ cas' = [cas EXCEPT ![socket] = new]
      BY <1>19, <1>0 DEF DatabaseOpened, TypeOK, PeersTyped, Control
    <3>2. generation + 1 \in Nat
      BY DEF TypeOK, SessionTyped, NumbersTyped
    <3>3. new \in CAS
      <4>1. cas \in Seq(CAS)
        BY DEF TypeOK, PeersTyped
      <4>2. cas[socket] \in CAS
        BY <3>1, <4>1, ElementOfSeq
      <4> QED
        BY <3>2, <4>2, OpenedPeer
    <3> QED
      BY <1>19, <3>1, <3>3, SetPeer DEF DatabaseOpened, TypeOK, PeersTyped
  <2>4. Control' /\ pc' \in Waits \cup Points
    BY <1>19, <2>3 DEF DatabaseOpened, TypeOK, PeersTyped, Control
  <2> QED
    BY <2>1, <2>2, <2>3, <2>4 DEF TypeOK
<1>20. CASE NothingToApply
  <2>1. SessionTyped'
    BY <1>20 DEF NothingToApply, SettingsHold, TypeOK, SessionTyped, FlagsTyped, NumbersTyped
  <2>2. CallersTyped'
    BY <1>20, SettleTyped DEF NothingToApply, SettingsHold, TypeOK, CallersTyped, Control
  <2>3. PeersTyped'
    BY <1>0, <1>20 DEF NothingToApply, SettingsHold, TypeOK, PeersTyped, Control
  <2>4. Control' /\ pc' \in Waits \cup Points
    BY <1>20, <2>3 DEF NothingToApply, SettingsHold, TypeOK, PeersTyped, Control, Settle
  <2> QED
    BY <2>1, <2>2, <2>3, <2>4 DEF TypeOK
<1>21. CASE SendParameter
  <2>1. SessionTyped'
    BY <1>21 DEF SendParameter, TypeOK, SessionTyped, FlagsTyped, NumbersTyped
  <2>2. CallersTyped'
    BY <1>21 DEF SendParameter, TypeOK, CallersTyped, Control
  <2>3. PeersTyped'
    <3>1. sessionParameters[index] \in SessionParameter
      BY <1>21, ElementOfSeq DEF SendParameter, TypeOK, SessionTyped
    <3>2. [fn |-> "SET_DB_PARAMETER", id |-> 0, set |-> <<sessionParameters[index]>>] \in Request
      BY <3>1 DEF Request
    <3> QED
      BY <1>0, <1>21, <3>2, PutTyped DEF SendParameter, CanSend, TypeOK, PeersTyped
  <2>4. Control' /\ pc' \in Waits \cup Points
    BY <1>21, <2>3 DEF SendParameter, CanSend, TypeOK, PeersTyped, Control
  <2> QED
    BY <2>1, <2>2, <2>3, <2>4 DEF TypeOK
<1>22. CASE ParameterAnswered
  <2>1. SessionTyped'
    <3>1. FlagsTyped'
      BY <1>22 DEF ParameterAnswered, TypeOK, SessionTyped, FlagsTyped
    <3>2. NumbersTyped'
      BY <1>22 DEF ParameterAnswered, TypeOK, SessionTyped, NumbersTyped
    <3> QED
      BY <1>22, <3>1, <3>2 DEF ParameterAnswered, TypeOK, SessionTyped
  <2>2. CallersTyped'
    BY <1>22 DEF ParameterAnswered, TypeOK, CallersTyped, Control
  <2>3. PeersTyped'
    BY <1>0, <1>22, TakeReplyTyped DEF ParameterAnswered, TypeOK, PeersTyped, Control
  <2>4. Control' /\ pc' \in Waits \cup Points
    BY <1>22, <2>3 DEF ParameterAnswered, TypeOK, PeersTyped, Control
  <2> QED
    BY <2>1, <2>2, <2>3, <2>4 DEF TypeOK
<1>23. CASE SendHold
  <2>1. SessionTyped'
    BY <1>23 DEF SendHold, TypeOK, SessionTyped, FlagsTyped, NumbersTyped
  <2>2. CallersTyped'
    BY <1>23 DEF SendHold, TypeOK, CallersTyped, Control
  <2>3. PeersTyped'
    BY <1>0, <1>23, PutOwn DEF SendHold, TypeOK, PeersTyped, Control
  <2>4. Control' /\ pc' \in Waits \cup Points
    BY <1>23, <2>3 DEF SendHold, CanSend, TypeOK, PeersTyped, Control
  <2> QED
    BY <2>1, <2>2, <2>3, <2>4 DEF TypeOK
<1>24. CASE HoldAnswered
  <2>1. SessionTyped'
    <3>1. Answer.outTran \in BOOLEAN
      BY <1>0, <1>24, TakeReplyTyped DEF HoldAnswered, TypeOK, PeersTyped, Control
    <3>2. FlagsTyped'
      BY <1>24, <3>1 DEF HoldAnswered, SettingsHold, TypeOK, SessionTyped, FlagsTyped
    <3>3. NumbersTyped'
      BY <1>24 DEF HoldAnswered, SettingsHold, TypeOK, SessionTyped, NumbersTyped
    <3> QED
      BY <1>24, <3>2, <3>3 DEF HoldAnswered, TypeOK, SessionTyped
  <2>2. CallersTyped'
    BY <1>24, SettleTyped DEF HoldAnswered, SettingsHold, TypeOK, CallersTyped, Control
  <2>3. PeersTyped'
    BY <1>0, <1>24, TakeReplyTyped DEF HoldAnswered, SettingsHold, TypeOK, PeersTyped, Control
  <2>4. Control' /\ pc' \in Waits \cup Points
    BY <1>24, <2>3 DEF HoldAnswered, SettingsHold, TypeOK, PeersTyped, Control, Settle
  <2> QED
    BY <2>1, <2>2, <2>3, <2>4 DEF TypeOK
<1>25. CASE ApplyFails
  <2>1. SessionTyped'
    BY <1>25 DEF ApplyFails, RetireSocket, TypeOK, SessionTyped, FlagsTyped, NumbersTyped
  <2>2. CallersTyped'
    BY <1>25, SettleTyped DEF ApplyFails, RetireSocket, TypeOK, CallersTyped, Control
  <2>3. PeersTyped'
    BY <1>0, <1>25 DEF ApplyFails, RetireSocket, TypeOK, PeersTyped, Control
  <2>4. Control' /\ pc' \in Waits \cup Points
    BY <1>25, <2>3 DEF ApplyFails, RetireSocket, CanSend, TypeOK, PeersTyped, Control, Settle
  <2> QED
    BY <2>1, <2>2, <2>3, <2>4 DEF TypeOK
<1>26. CASE ParametersInherited
  <2>1. SessionTyped'
    BY <1>26 DEF ParametersInherited, TypeOK, SessionTyped, FlagsTyped, NumbersTyped
  <2>2. CallersTyped'
    BY <1>26, SettleTyped DEF ParametersInherited, TypeOK, CallersTyped, Control
  <2>3. PeersTyped'
    BY <1>0, <1>26 DEF ParametersInherited, TypeOK, PeersTyped, Control
  <2>4. Control' /\ pc' \in Waits \cup Points
    BY <1>26, <2>3 DEF ParametersInherited, TypeOK, PeersTyped, Control, Settle
  <2> QED
    BY <2>1, <2>2, <2>3, <2>4 DEF TypeOK
<1>27. CASE ApplyToOpenSession
  <2>1. SessionTyped'
    <3>1. FlagsTyped'
      BY <1>27 DEF ApplyToOpenSession, TypeOK, SessionTyped, FlagsTyped
    <3>2. NumbersTyped'
      BY <1>27 DEF ApplyToOpenSession, TypeOK, SessionTyped, NumbersTyped
    <3> QED
      BY <1>27, <3>1, <3>2 DEF ApplyToOpenSession, TypeOK, SessionTyped
  <2>2. CallersTyped'
    BY <1>27 DEF ApplyToOpenSession, TypeOK, CallersTyped, Control
  <2>3. PeersTyped'
    BY <1>0, <1>27 DEF ApplyToOpenSession, TypeOK, PeersTyped, Control
  <2>4. Control' /\ pc' \in Waits \cup Points
    BY <1>27, <2>3 DEF ApplyToOpenSession, TypeOK, PeersTyped, Control
  <2> QED
    BY <2>1, <2>2, <2>3, <2>4 DEF TypeOK
<1>28. CASE AbsentSession
  <2>1. SessionTyped'
    BY <1>28 DEF AbsentSession, TypeOK, SessionTyped, FlagsTyped, NumbersTyped
  <2>2. CallersTyped'
    BY <1>28, SettleTyped DEF AbsentSession, TypeOK, CallersTyped, Control
  <2>3. PeersTyped'
    BY <1>0, <1>28 DEF AbsentSession, TypeOK, PeersTyped, Control
  <2>4. Control' /\ pc' \in Waits \cup Points
    BY <1>28, <2>3 DEF AbsentSession, TypeOK, PeersTyped, Control, Settle
  <2> QED
    BY <2>1, <2>2, <2>3, <2>4 DEF TypeOK
<1>29. CASE SendRequest
  <2>1. SessionTyped'
    BY <1>29 DEF SendRequest, TypeOK, SessionTyped, FlagsTyped, NumbersTyped
  <2>2. CallersTyped'
    <3>1. Running.id \in Nat /\ socket \in Nat
      BY <1>0, <1>29, RunningTyped DEF SendRequest, MayExchange, TypeOK, PeersTyped, Control
    <3>2. sentOn' \in Seq(SUBSET Nat) /\ Len(sentOn') = Len(sentOn)
      <4>1. CASE Running.id \in 1..Len(sentOn)
        <5>1. sentOn[Running.id] \cup {socket} \in SUBSET Nat
          BY <3>1, <4>1, ElementOfSeq DEF TypeOK, CallersTyped
        <5> QED
          BY <1>29, <4>1, <5>1, ExceptSeq DEF SendRequest, TypeOK, CallersTyped
      <4>2. CASE Running.id \notin 1..Len(sentOn)
        <5>1. sentOn' = sentOn
          BY <1>29, <4>2, LenProperties DEF SendRequest, TypeOK, CallersTyped
        <5> QED
          BY <5>1 DEF TypeOK, CallersTyped
      <4> QED
        BY <4>1, <4>2
    <3> QED
      BY <1>29, <3>2 DEF SendRequest, TypeOK, CallersTyped
  <2>3. PeersTyped'
    <3>1. [fn |-> Running.fn, id |-> Running.id, set |-> <<>>] \in Request
      BY <1>29, RunningTyped DEF SendRequest, MayExchange, Request, TypeOK, Control
    <3> QED
      BY <1>0, <1>29, <3>1, PutTyped DEF SendRequest, CanSend, TypeOK, PeersTyped
  <2>4. Control' /\ pc' \in Waits \cup Points
    BY <1>29, <2>3 DEF SendRequest, MayExchange, CanSend, TypeOK, PeersTyped, Control
  <2> QED
    BY <2>1, <2>2, <2>3, <2>4 DEF TypeOK
<1>30. CASE ExchangeAnswered
  <2>1. SessionTyped'
    <3>1. Answer.outTran \in BOOLEAN
      BY <1>0, <1>30, TakeReplyTyped DEF ExchangeAnswered, TypeOK, PeersTyped, Control
    <3>2. FlagsTyped'
      BY <1>30, <3>1 DEF ExchangeAnswered, TypeOK, SessionTyped, FlagsTyped
    <3>3. NumbersTyped'
      BY <1>30 DEF ExchangeAnswered, TypeOK, SessionTyped, NumbersTyped
    <3> QED
      BY <1>30, <3>2, <3>3 DEF ExchangeAnswered, TypeOK, SessionTyped
  <2>2. CallersTyped'
    <3>1. Answer.id \in Nat
      BY <1>0, <1>30, TakeReplyTyped DEF ExchangeAnswered, TypeOK, PeersTyped, Control
    <3> QED
      BY <1>30, <3>1, SettleTyped DEF ExchangeAnswered, TypeOK, Control
  <2>3. PeersTyped'
    BY <1>0, <1>30, TakeReplyTyped DEF ExchangeAnswered, TypeOK, PeersTyped, Control
  <2>4. Control' /\ pc' \in Waits \cup Points
    BY <1>30, <2>3 DEF ExchangeAnswered, TypeOK, PeersTyped, Control, Settle
  <2> QED
    BY <2>1, <2>2, <2>3, <2>4 DEF TypeOK
<1>31. CASE ExchangeFails
  <2>1. SessionTyped'
    <3>1. FlagsTyped'
      BY <1>31 DEF ExchangeFails, RetireSocket, TypeOK, SessionTyped, FlagsTyped
    <3>2. NumbersTyped'
      BY <1>31 DEF ExchangeFails, RetireSocket, TypeOK, SessionTyped, NumbersTyped
    <3> QED
      BY <1>31, <3>1, <3>2 DEF ExchangeFails, TypeOK, SessionTyped
  <2>2. CallersTyped'
    BY <1>31, SettleTyped DEF ExchangeFails, RetireSocket, MayExchange, TypeOK,
       CallersTyped, Control
  <2>3. PeersTyped'
    BY <1>0, <1>31 DEF ExchangeFails, RetireSocket, TypeOK, PeersTyped, Control
  <2>4. Control' /\ pc' \in Waits \cup Points
    BY <1>31, <2>3 DEF ExchangeFails, RetireSocket, MayExchange, CanSend, TypeOK,
       PeersTyped, Control, Settle
  <2> QED
    BY <2>1, <2>2, <2>3, <2>4 DEF TypeOK
<1>32. CASE DiscardSession
  <2>1. SessionTyped'
    <3>1. FlagsTyped'
      BY <1>32 DEF DiscardSession, RetireSocket, TypeOK, SessionTyped, FlagsTyped
    <3>2. NumbersTyped'
      BY <1>32 DEF DiscardSession, RetireSocket, TypeOK, SessionTyped, NumbersTyped
    <3> QED
      BY <1>32, <3>1, <3>2 DEF DiscardSession, TypeOK, SessionTyped
  <2>2. CallersTyped'
    BY <1>32, SettleTyped DEF DiscardSession, RetireSocket, TypeOK, CallersTyped, Control
  <2>3. PeersTyped'
    BY <1>0, <1>32 DEF DiscardSession, RetireSocket, TypeOK, PeersTyped, Control
  <2>4. Control' /\ pc' \in Waits \cup Points
    BY <1>32, <2>3 DEF DiscardSession, RetireSocket, TypeOK, PeersTyped, Control, Settle
  <2> QED
    BY <2>1, <2>2, <2>3, <2>4 DEF TypeOK
<1>33. CASE CloseFindsNoSocket
  <2>1. SessionTyped'
    BY <1>33 DEF CloseFindsNoSocket, TypeOK, SessionTyped, FlagsTyped, NumbersTyped
  <2>2. CallersTyped'
    BY <1>33, SettleTyped DEF CloseFindsNoSocket, TypeOK, CallersTyped, Control
  <2>3. PeersTyped'
    BY <1>0, <1>33 DEF CloseFindsNoSocket, TypeOK, PeersTyped, Control
  <2>4. Control' /\ pc' \in Waits \cup Points
    BY <1>33, <2>3 DEF CloseFindsNoSocket, TypeOK, PeersTyped, Control, Settle
  <2> QED
    BY <2>1, <2>2, <2>3, <2>4 DEF TypeOK
<1>34. CASE CloseSendsFrame
  <2>1. SessionTyped'
    BY <1>34 DEF CloseSendsFrame, TypeOK, SessionTyped, FlagsTyped, NumbersTyped
  <2>2. CallersTyped'
    BY <1>34 DEF CloseSendsFrame, TypeOK, CallersTyped, Control
  <2>3. PeersTyped'
    BY <1>0, <1>34, PutOwn DEF CloseSendsFrame, TypeOK, PeersTyped, Control
  <2>4. Control' /\ pc' \in Waits \cup Points
    BY <1>34, <2>3 DEF CloseSendsFrame, CanSend, TypeOK, PeersTyped, Control
  <2> QED
    BY <2>1, <2>2, <2>3, <2>4 DEF TypeOK
<1>35. CASE CloseTearsDown
  <2>1. SessionTyped'
    BY <1>35 DEF CloseTearsDown, RetireSocket, TypeOK, SessionTyped, FlagsTyped, NumbersTyped
  <2>2. CallersTyped'
    BY <1>35, SettleTyped DEF CloseTearsDown, RetireSocket, TypeOK, CallersTyped, Control
  <2>3. PeersTyped'
    BY <1>0, <1>35 DEF CloseTearsDown, RetireSocket, TypeOK, PeersTyped, Control
  <2>4. Control' /\ pc' \in Waits \cup Points
    BY <1>35, <2>3 DEF CloseTearsDown, RetireSocket, CanSend, TypeOK, PeersTyped, Control,
       Settle
  <2> QED
    BY <2>1, <2>2, <2>3, <2>4 DEF TypeOK
<1>36. ASSUME NEW s \in Sockets, MarkDead(s) PROVE Typed'
  BY <1>36 DEF MarkDead, TypeOK, SessionTyped, FlagsTyped, NumbersTyped, CallersTyped,
     PeersTyped, Control
<1>37. ASSUME NEW s \in Sockets, Serve(s) PROVE Typed'
  <2> DEFINE r == Head(cas[s].requests)
  <2>0. /\ s \in 1..Len(cas) /\ cas \in Seq(CAS) /\ cas[s].requests # <<>>
        /\ r \in Request /\ Tail(cas[s].requests) \in Seq(Request)
    BY <1>37, PeerTyped, HeadTailProperties DEF Serve, Sockets, TypeOK, PeersTyped
  <2>1. PICK outTran \in StatusAfter(r.fn), form \in Forms(r.fn) :
          /\ form = "unreadable" => faults < MaxFaults
          /\ faults' = faults + (IF form = "unreadable" THEN 1 ELSE 0)
          /\ cas' = [cas EXCEPT ![s].inTran = ~outTran,
                               ![s].settings = IF form = "error" THEN @ ELSE Applied(@, r.set),
                               ![s].requests = Tail(@),
                               ![s].replies = Append(@, [id |-> r.id, outTran |-> outTran,
                                                         form |-> form])]
    BY <1>37 DEF Serve
  <2> DEFINE reply == [id |-> r.id, outTran |-> outTran, form |-> form]
             new == [cas[s] EXCEPT !.inTran = ~outTran,
                                   !.settings = IF form = "error" THEN @ ELSE Applied(@, r.set),
                                   !.requests = Tail(@),
                                   !.replies = Append(@, reply)]
  <2>2. reply \in Reply
    BY <2>0 DEF Reply, Request, StatusAfter, Forms
  <2>3. Append(cas[s].replies, reply) \in Seq(Reply)
    BY <2>0, <2>2, PeerTyped, AppendProperties
  <2>4. Applied(cas[s].settings, r.set) \in [Parameters -> Values \cup {Default}]
    <3>1. r.set \in Seq(SessionParameter)
      BY <2>0 DEF Request
    <3>2. CASE r.set = <<>>
      BY <2>0, <3>2, PeerTyped DEF Applied
    <3>3. CASE r.set # <<>>
      <4>1. r.set[1] \in SessionParameter
        BY <3>1, <3>3, ElementOfSeq, EmptySeq
      <4> QED
        BY <2>0, <3>3, <4>1, PeerTyped DEF Applied, SessionParameter
    <3> QED
      BY <3>2, <3>3
  <2>5. outTran \in BOOLEAN
    BY <2>1 DEF StatusAfter
  <2>11. served' = IF r.id = 0 THEN served ELSE [served EXCEPT ![r.id] = served[r.id] + 1]
    BY <1>37 DEF Serve
  <2> HIDE DEF reply, r
  <2>6. new \in CAS
    <3> DEFINE inTran == ~outTran
               settings == IF form = "error" THEN cas[s].settings ELSE Applied(cas[s].settings, r.set)
               requests == Tail(cas[s].requests)
               replies == Append(cas[s].replies, reply)
    <3>1. cas[s] \in CAS /\ cas[s].settings \in [Parameters -> Values \cup {Default}]
      BY <2>0, PeerTyped, Zenon
    <3>2. inTran \in BOOLEAN
      BY <2>5
    <3>3. settings \in [Parameters -> Values \cup {Default}]
      BY <2>4, <3>1
    <3>4. requests \in Seq(Request) /\ replies \in Seq(Reply)
      BY <2>0, <2>3, Zenon
    <3>5. new = [cas[s] EXCEPT !.inTran = inTran, !.settings = settings, !.requests = requests,
                               !.replies = replies]
      OBVIOUS
    <3> HIDE DEF new, inTran, settings, requests, replies
    <3>6. [cas[s] EXCEPT !.inTran = inTran, !.settings = settings, !.requests = requests,
                         !.replies = replies] \in CAS
      BY <3>1, <3>2, <3>3, <3>4, ServedPeer
    <3> QED
      BY <3>5, <3>6, Zenon
  <2>7. cas' = [cas EXCEPT ![s] = new]
    BY <2>1 DEF reply
  <2> HIDE DEF new
  <2>8. PeersTyped'
    <3>1. cas' \in Seq(CAS) /\ Len(cas') = Len(cas)
      BY <2>0, <2>6, <2>7, SetPeer
    <3> QED
      <4>1. socket' = socket
        BY <1>37 DEF Serve, transport
      <4>2. socket \in 0..Len(cas) /\ faults \in 0..MaxFaults
        BY DEF TypeOK, PeersTyped
      <4>3. faults' \in 0..MaxFaults
        BY <2>1, <4>2, BoundsAssumption
      <4> QED
        BY <3>1, <4>1, <4>2, <4>3 DEF PeersTyped
  <2>9. CallersTyped'
    <3>1. served' \in Seq(Nat) /\ Len(served') = Len(served)
      <4>1. CASE r.id \in 1..Len(served) /\ r.id # 0
        <5>1. served[r.id] + 1 \in Nat /\ served' = [served EXCEPT ![r.id] = served[r.id] + 1]
          <6>1. served[r.id] \in Nat
            BY <4>1, ElementOfSeq DEF TypeOK, CallersTyped
          <6> QED
            BY <2>11, <4>1, <6>1
        <5> QED
          BY <4>1, <5>1, ExceptSeq DEF TypeOK, CallersTyped
      <4>2. CASE r.id \notin 1..Len(served) \/ r.id = 0
        <5>1. served' = served
          BY <2>11, <4>2, LenProperties DEF TypeOK, CallersTyped
        <5> QED
          BY <5>1 DEF TypeOK, CallersTyped
      <4> QED
        BY <4>1, <4>2
    <3> QED
      BY <1>37, <3>1 DEF Serve, TypeOK, CallersTyped
  <2>10. SessionTyped' /\ Control' /\ pc' \in Waits \cup Points
    <3>1. Len(cas') = Len(cas)
      BY <2>0, <2>6, <2>7, SetPeer
    <3>2. SessionTyped'
      BY <1>37 DEF Serve, TypeOK, SessionTyped, FlagsTyped, NumbersTyped
    <3> QED
      BY <1>37, <3>1, <3>2 DEF Serve, TypeOK, Control
  <2> QED
    BY <2>8, <2>9, <2>10 DEF TypeOK
<1>38. ASSUME NEW s \in Sockets, Leave(s) PROVE Typed'
  <2> DEFINE new == [cas[s] EXCEPT !.state = "left"]
  <2>0. s \in 1..Len(cas) /\ cas \in Seq(CAS) /\ cas' = [cas EXCEPT ![s] = new]
    BY <1>38 DEF Leave, Sockets, TypeOK, PeersTyped
  <2>1. new \in CAS
    BY <2>0, PeerTyped DEF CAS
  <2>2. cas' \in Seq(CAS) /\ Len(cas') = Len(cas)
    BY <2>0, <2>1, SetPeer
  <2> QED
    BY <1>38, <2>2 DEF Leave, TypeOK, SessionTyped, FlagsTyped, NumbersTyped, CallersTyped,
       PeersTyped, Control
<1>39. ASSUME NEW s \in Sockets, Crash(s) PROVE Typed'
  <2>0. PICK kept \in {cas[s].replies, <<>>} :
          cas' = [cas EXCEPT ![s].state = "crashed", ![s].replies = kept]
    BY <1>39 DEF Crash
  <2> DEFINE new == [cas[s] EXCEPT !.state = "crashed", !.replies = kept]
  <2>1. s \in 1..Len(cas) /\ cas \in Seq(CAS) /\ cas' = [cas EXCEPT ![s] = new]
    BY <2>0 DEF Sockets, TypeOK, PeersTyped
  <2>2. kept \in Seq(Reply)
    <3>1. cas[s].replies \in Seq(Reply)
      BY <2>1, PeerTyped, Zenon
    <3>2. <<>> \in Seq(Reply)
      BY EmptySeq, Zenon
    <3> QED
      BY <3>1, <3>2, Zenon
  <2>3. new \in CAS
    <3>1. cas[s] \in CAS
      BY <2>1, PeerTyped
    <3> QED
      BY <2>2, <3>1, CrashedPeer
  <2>4. cas' \in Seq(CAS) /\ Len(cas') = Len(cas)
    BY <2>1, <2>3, SetPeer
  <2>5. PeersTyped'
    BY <1>39, <2>4 DEF Crash, TypeOK, PeersTyped
  <2> QED
    BY <1>39, <2>4, <2>5 DEF Crash, TypeOK, SessionTyped, FlagsTyped, NumbersTyped,
       CallersTyped, Control
<1>40. CASE UNCHANGED vars
  BY <1>40 DEF vars, TypeOK, SessionTyped, FlagsTyped, NumbersTyped, CallersTyped,
     PeersTyped, Control
<1> QED
  BY <1>1, <1>2, <1>3, <1>4, <1>5, <1>6, <1>7, <1>8, <1>9, <1>10, <1>11, <1>12, <1>13,
     <1>14, <1>15, <1>16, <1>17, <1>18, <1>19, <1>20, <1>21, <1>22, <1>23, <1>24, <1>25,
     <1>26, <1>27, <1>28, <1>29, <1>30, <1>31, <1>32, <1>33, <1>34, <1>35, <1>36, <1>37,
     <1>38, <1>39, <1>40
  DEF Next, Step, Client, Verify, Connect, Apply, Exchange, Close

(* Every variable keeps its type, whatever the callers, the broker and the    *)
(* CAS processes do.                                                          *)
THEOREM TypeCorrect == Spec => []TypeOK
<1>1. Spec => []Typed
  BY TypedInit, TypedStep, PTL DEF Spec
<1>2. Typed => TypeOK
  BY DEF Typed
<1> QED
  BY <1>1, <1>2, PTL

-----------------------------------------------------------------------------
(* The CAS is held while a request of sendAndRecv() is unanswered.  What the  *)
(* client believes after a reply, a probe or a handshake is true of the CAS   *)
(* at the other end, because nothing else is ever on its way on that socket.  *)

Single(s) ==
  /\ cas[s].requests = <<>> \/ cas[s].replies = <<>>
  /\ cas[s].requests # <<>> => Tail(cas[s].requests) = <<>>
  /\ cas[s].replies # <<>> => Tail(cas[s].replies) = <<>>

IsFresh(s) ==
  cas[s].inTran /\ cas[s].requests = <<>> /\ cas[s].replies = <<>> /\ cas[s].generation = 0

Peers ==
  \A s \in Sockets :
    /\ Single(s)
    /\ cas[s].inTran => cas[s].state # "left"
    /\ cas[s].replies # <<>> => Head(cas[s].replies).outTran = ~cas[s].inTran

Fresh ==
  /\ pc = "port" => IsFresh(Len(cas))
  /\ pc \in {"tls", "open"} => IsFresh(socket)

Probing ==
  pc \in {"probing", "holding"} =>
    /\ cas[socket].requests # <<>> => Head(cas[socket].requests).fn = "CHECK_CAS"
    /\ cas[socket].replies # <<>> => ~Head(cas[socket].replies).outTran

Requesting ==
  pc = "exchange" /\ Running.call = "sendAndRecv" =>
    /\ cas[socket].requests # <<>> => cas[socket].inTran
    /\ cas[socket].requests = <<>> /\ cas[socket].replies = <<>> => cas[socket].state = "crashed"

Believes == ~outOfTransaction \/ casVerified

BeliefTrue ==
  connected /\ Believes
  /\ (pc \in {"idle", "verify", "body"} \/ (pc = "apply" /\ sessionParameters = <<>>))
  => cas[socket].inTran

Handshaking == {"handshake", "broker", "backoff", "port", "redirect", "tls", "open"}

Verified ==
  /\ pc = "body" /\ Running.call \in Verifying /\ connected => Believes
  /\ settingUp => pc \in {"apply", "setting", "holding"} /\ ~outOfTransaction
  /\ pc = "setting" => sessionParameters # <<>>
  /\ pc \in Handshaking => ~connected

Held == Peers /\ NothingInFlight /\ Fresh /\ Probing /\ Requesting /\ BeliefTrue /\ Verified

-----------------------------------------------------------------------------
(* How the steps that touch a peer change it.                               *)

LEMMA PutAlone ==
  ASSUME Typed, Held, CanSend, pc \notin AwaitsReply \cup {"closing"},
         NEW r \in Request, Put(r)
  PROVE  /\ Peers' /\ Len(cas') = Len(cas)
         /\ cas'[socket].replies = <<>> /\ cas'[socket].requests # <<>>
         /\ Head(cas'[socket].requests) = r
         /\ cas'[socket].inTran = cas[socket].inTran
<1> DEFINE new == [cas[socket] EXCEPT !.requests = Append(@, r)]
<1>1. /\ cas \in Seq(CAS) /\ Len(cas) \in Nat /\ socket \in 1..Len(cas)
      /\ cas[socket].requests = <<>> /\ cas[socket].replies = <<>>
  BY LenProperties DEF Typed, TypeOK, PeersTyped, Held, NothingInFlight, CanSend
<1>2. Append(cas[socket].requests, r) = <<r>> /\ <<r>> \in Seq(Request)
  BY <1>1
<1>3. new \in CAS
  BY <1>1, <1>2, PeerTyped DEF CAS
<1>4. /\ cas' \in Seq(CAS) /\ Len(cas') = Len(cas) /\ cas'[socket] = new
      /\ \A t \in 1..Len(cas) : t # socket => cas'[t] = cas[t]
  BY <1>1, <1>3, SetPeer DEF Put
<1>5. /\ cas'[socket].requests = <<r>> /\ cas'[socket].replies = <<>>
      /\ cas'[socket].inTran = cas[socket].inTran
      /\ cas'[socket].state = cas[socket].state
  BY <1>1, <1>2, <1>4, PeerTyped DEF CAS
<1>6. <<r>> # <<>> /\ Head(<<r>>) = r /\ Tail(<<r>>) = <<>>
  OBVIOUS
<1>7. Peers'
  <2> SUFFICES ASSUME NEW t \in 1..Len(cas)
               PROVE  /\ Single(t)'
                      /\ cas'[t].inTran => cas'[t].state # "left"
                      /\ cas'[t].replies # <<>> => Head(cas'[t].replies).outTran = ~cas'[t].inTran
    BY <1>4 DEF Peers, Sockets
  <2>1. CASE t = socket
    BY <2>1, <1>1, <1>5, <1>6 DEF Held, Peers, Sockets, Single
  <2>2. CASE t # socket
    BY <2>2, <1>4 DEF Held, Peers, Sockets, Single
  <2> QED
    BY <2>1, <2>2
<1> QED
  BY <1>4, <1>5, <1>6, <1>7

LEMMA TakeReplyAlone ==
  ASSUME Typed, Held, connected, Readable, TakeReply
  PROVE  /\ Peers' /\ Len(cas') = Len(cas)
         /\ cas'[socket].requests = <<>> /\ cas'[socket].replies = <<>>
         /\ cas'[socket].inTran = cas[socket].inTran
         /\ Answer.outTran = ~cas[socket].inTran
         /\ pc \in {"probing", "holding"} => ~Answer.outTran
<1> DEFINE new == [cas[socket] EXCEPT !.replies = Tail(@)]
<1>1. /\ cas \in Seq(CAS) /\ Len(cas) \in Nat /\ socket \in 1..Len(cas)
      /\ cas[socket].replies # <<>>
  BY LenProperties DEF Typed, TypeOK, PeersTyped, Control, Readable
<1>2. /\ Tail(cas[socket].replies) = <<>> /\ cas[socket].requests = <<>>
      /\ Answer.outTran = ~cas[socket].inTran
  BY <1>1 DEF Held, Peers, Sockets, Single, Answer
<1>3. new \in CAS
  <2>1. Tail(cas[socket].replies) \in Seq(Reply)
    BY <1>1, PeerTyped, HeadTailProperties
  <2> QED
    BY <1>1, <2>1, PeerTyped DEF CAS
<1>4. /\ cas' \in Seq(CAS) /\ Len(cas') = Len(cas) /\ cas'[socket] = new
      /\ \A t \in 1..Len(cas) : t # socket => cas'[t] = cas[t]
  BY <1>1, <1>3, SetPeer DEF TakeReply
<1>5. /\ cas'[socket].requests = <<>> /\ cas'[socket].replies = <<>>
      /\ cas'[socket].inTran = cas[socket].inTran
      /\ cas'[socket].state = cas[socket].state
  BY <1>1, <1>2, <1>4, PeerTyped DEF CAS
<1>6. Peers'
  <2> SUFFICES ASSUME NEW t \in 1..Len(cas)
               PROVE  /\ Single(t)'
                      /\ cas'[t].inTran => cas'[t].state # "left"
                      /\ cas'[t].replies # <<>> => Head(cas'[t].replies).outTran = ~cas'[t].inTran
    BY <1>4 DEF Peers, Sockets
  <2>1. CASE t = socket
    BY <2>1, <1>1, <1>5 DEF Held, Peers, Sockets, Single
  <2>2. CASE t # socket
    BY <2>2, <1>4 DEF Held, Peers, Sockets, Single
  <2> QED
    BY <2>1, <2>2
<1>7. pc \in {"probing", "holding"} => ~Answer.outTran
  BY <1>1 DEF Held, Probing, Answer
<1> QED
  BY <1>2, <1>4, <1>5, <1>6, <1>7

LEMMA NewSocketFresh ==
  ASSUME Typed, Held, cas' = Append(cas, NewSocket)
  PROVE  /\ Peers' /\ Len(cas') = Len(cas) + 1
         /\ \A t \in 1..Len(cas) : cas'[t] = cas[t]
         /\ cas'[Len(cas) + 1] = NewSocket
         /\ NewSocket.inTran /\ NewSocket.requests = <<>>
         /\ NewSocket.replies = <<>> /\ NewSocket.generation = 0
<1>1. /\ cas \in Seq(CAS) /\ Len(cas) \in Nat
      /\ Len(cas') = Len(cas) + 1 /\ cas'[Len(cas) + 1] = NewSocket
      /\ \A t \in 1..Len(cas) : cas'[t] = cas[t]
  BY NewSocketTyped, AppendProperties, LenProperties DEF Typed, TypeOK, PeersTyped
<1>2. /\ NewSocket.inTran /\ NewSocket.requests = <<>> /\ NewSocket.state = "up"
      /\ NewSocket.replies = <<>> /\ NewSocket.generation = 0
  BY DEF NewSocket
<1>3. Peers'
  <2> SUFFICES ASSUME NEW t \in 1..(Len(cas) + 1)
               PROVE  /\ Single(t)'
                      /\ cas'[t].inTran => cas'[t].state # "left"
                      /\ cas'[t].replies # <<>> => Head(cas'[t].replies).outTran = ~cas'[t].inTran
    BY <1>1 DEF Peers, Sockets
  <2>1. CASE t = Len(cas) + 1
    BY <2>1, <1>1, <1>2 DEF Single
  <2>2. CASE t # Len(cas) + 1
    <3>1. t \in 1..Len(cas)
      BY <1>1, <2>2
    <3> QED
      BY <3>1, <1>1 DEF Held, Peers, Sockets, Single
  <2> QED
    BY <2>1, <2>2
<1> QED
  BY <1>1, <1>2, <1>3

\* Any change to one peer, typed or not, leaves the others alone.
LEMMA ExceptPeer ==
  ASSUME cas \in Seq(CAS), NEW s \in 1..Len(cas), NEW new, cas' = [cas EXCEPT ![s] = new]
  PROVE  /\ Len(cas') = Len(cas)
         /\ cas'[s] = new
         /\ \A t \in 1..Len(cas) : t # s => cas'[t] = cas[t]
<1>1. cas \in Seq(CAS \cup {new}) /\ new \in CAS \cup {new}
  BY SeqDef
<1> QED
  BY <1>1, ExceptSeq

LEMMA SamePeers ==
  ASSUME Held, UNCHANGED cas
  PROVE  Peers'
  BY DEF Held, Peers, Sockets, Single

-----------------------------------------------------------------------------

LEMMA HeldInit == Init => Held
<1> SUFFICES ASSUME Init PROVE Held
  OBVIOUS
<1>1. Sockets = {}
  BY DEF Init, Sockets
<1> QED
  BY <1>1 DEF Init, Held, Peers, NothingInFlight, Fresh, Probing, Requesting, BeliefTrue,
              Believes, Verified

LEMMA HeldStep == Typed /\ Held /\ [Next]_vars => Held'
<1> SUFFICES ASSUME Typed, Held, [Next]_vars PROVE Held'
  OBVIOUS
<1> USE DEF transport, status, counters, locals, callers, history, AwaitsReply
<1>0. /\ cas \in Seq(CAS) /\ Len(cas) \in Nat /\ socket \in 0..Len(cas) /\ queue \in Seq(Op)
      /\ connected => socket \in 1..Len(cas)
  BY LenProperties DEF Typed, TypeOK, PeersTyped, CallersTyped, Control
<1>1. CASE Enqueue
  <2>0. pc # "idle" => Running' = Running
    <3> SUFFICES ASSUME pc # "idle" PROVE Head(queue') = Head(queue)
      BY DEF Running
    <3>1. PICK o : queue' = Append(queue, o)
      BY <1>1 DEF Enqueue
    <3>2. queue # <<>>
      BY DEF Typed, Control
    <3> QED
      BY <1>0, <3>1, <3>2
  <2>1. Peers'
    BY <1>1, SamePeers DEF Enqueue
  <2>2. NothingInFlight'
    BY <1>0, <1>1, <2>1, <2>0 DEF Enqueue, Held, NothingInFlight, Fresh, IsFresh, Typed, Control
  <2>3. Fresh'
    BY <1>0, <1>1, <2>1, <2>0 DEF Enqueue, Held, Fresh, IsFresh
  <2>4. Probing'
    BY <1>0, <1>1, <2>1, <2>0 DEF Enqueue, Held, Probing
  <2>5. Requesting'
    BY <1>0, <1>1, <2>1, <2>0 DEF Enqueue, Held, Requesting, NothingInFlight, BeliefTrue,
       Believes, Verified, Verifying
  <2>6. BeliefTrue'
    BY <1>0, <1>1, <2>1, <2>0 DEF Enqueue, Held, BeliefTrue, Believes, Verified,
       Handshaking, NothingInFlight, Fresh, IsFresh
  <2>7. Verified'
    BY <1>0, <1>1, <2>1, <2>0 DEF Enqueue, Held, Verified, Believes, Handshaking, Probing,
       Verifying, NeedsProbe
  <2> QED
    BY <2>1, <2>2, <2>3, <2>4, <2>5, <2>6, <2>7 DEF Held
<1>2. CASE Begin
  <2>1. Peers'
    BY <1>2, SamePeers DEF Begin
  <2>2. NothingInFlight'
    BY <1>0, <1>2, <2>1 DEF Begin, Held, NothingInFlight, Fresh, IsFresh, Typed, Control,
       Running
  <2>3. Fresh'
    BY <1>0, <1>2, <2>1 DEF Begin, Held, Fresh, IsFresh, Running
  <2>4. Probing'
    BY <1>0, <1>2, <2>1 DEF Begin, Held, Probing, Running
  <2>5. Requesting'
    BY <1>0, <1>2, <2>1 DEF Begin, Held, Requesting, NothingInFlight, BeliefTrue, Believes,
       Verified, Verifying, Running
  <2>6. BeliefTrue'
    BY <1>0, <1>2, <2>1 DEF Begin, Held, BeliefTrue, Believes, Verified, Handshaking,
       NothingInFlight, Fresh, IsFresh, Running
  <2>7. Verified'
    BY <1>0, <1>2, <2>1 DEF Begin, Held, Verified, Believes, Handshaking, Probing,
       Verifying, NeedsProbe, Running
  <2> QED
    BY <2>1, <2>2, <2>3, <2>4, <2>5, <2>6, <2>7 DEF Held
<1>3. CASE VerifySkips
  <2>1. Peers'
    BY <1>3, SamePeers DEF VerifySkips, NeedsProbe
  <2>2. NothingInFlight'
    BY <1>0, <1>3, <2>1 DEF VerifySkips, NeedsProbe, Held, NothingInFlight, Fresh, IsFresh,
       Typed, Control
  <2>3. Fresh'
    BY <1>0, <1>3, <2>1 DEF VerifySkips, NeedsProbe, Held, Fresh, IsFresh
  <2>4. Probing'
    BY <1>0, <1>3, <2>1 DEF VerifySkips, NeedsProbe, Held, Probing
  <2>5. Requesting'
    BY <1>0, <1>3, <2>1 DEF VerifySkips, NeedsProbe, Held, Requesting, NothingInFlight,
       BeliefTrue, Believes, Verified, Verifying
  <2>6. BeliefTrue'
    BY <1>0, <1>3, <2>1 DEF VerifySkips, NeedsProbe, Held, BeliefTrue, Believes, Verified,
       Handshaking, NothingInFlight, Fresh, IsFresh
  <2>7. Verified'
    BY <1>0, <1>3, <2>1 DEF VerifySkips, NeedsProbe, Held, Verified, Believes, Handshaking,
       Probing, Verifying, NeedsProbe
  <2> QED
    BY <2>1, <2>2, <2>3, <2>4, <2>5, <2>6, <2>7 DEF Held
<1>4. CASE VerifyProbes
  <2>0. [fn |-> "CHECK_CAS", id |-> 0, set |-> <<>>] \in Request
    BY DEF Request
  <2>1. /\ Peers' /\ Len(cas') = Len(cas)
        /\ cas'[socket].replies = <<>> /\ cas'[socket].requests # <<>>
        /\ Head(cas'[socket].requests) = [fn |-> "CHECK_CAS", id |-> 0, set |-> <<>>]
        /\ cas'[socket].inTran = cas[socket].inTran
    BY <2>0, <1>4, PutAlone DEF VerifyProbes
  <2>2. NothingInFlight'
    BY <1>0, <1>4, <2>1 DEF VerifyProbes, CanSend, Held, NothingInFlight, Fresh, IsFresh,
       Typed, Control
  <2>3. Fresh'
    BY <1>0, <1>4, <2>1 DEF VerifyProbes, CanSend, Held, Fresh, IsFresh
  <2>4. Probing'
    BY <1>0, <1>4, <2>1 DEF VerifyProbes, CanSend, Held, Probing
  <2>5. Requesting'
    BY <1>0, <1>4, <2>1 DEF VerifyProbes, CanSend, Held, Requesting, NothingInFlight,
       BeliefTrue, Believes, Verified, Verifying
  <2>6. BeliefTrue'
    BY <1>0, <1>4, <2>1 DEF VerifyProbes, CanSend, Held, BeliefTrue, Believes, Verified,
       Handshaking, NothingInFlight, Fresh, IsFresh
  <2>7. Verified'
    BY <1>0, <1>4, <2>1 DEF VerifyProbes, CanSend, Held, Verified, Believes, Handshaking,
       Probing, Verifying, NeedsProbe
  <2> QED
    BY <2>1, <2>2, <2>3, <2>4, <2>5, <2>6, <2>7 DEF Held
<1>5. CASE ProbeAnswered
  <2>1. /\ Peers' /\ Len(cas') = Len(cas)
        /\ cas'[socket].requests = <<>> /\ cas'[socket].replies = <<>>
        /\ cas'[socket].inTran = cas[socket].inTran
        /\ Answer.outTran = ~cas[socket].inTran
        /\ pc \in {"probing", "holding"} => ~Answer.outTran
    BY <1>5, TakeReplyAlone DEF ProbeAnswered, Typed, Control
  <2>2. NothingInFlight'
    BY <1>0, <1>5, <2>1 DEF ProbeAnswered, Held, NothingInFlight, Fresh, IsFresh, Typed, Control
  <2>3. Fresh'
    BY <1>0, <1>5, <2>1 DEF ProbeAnswered, Held, Fresh, IsFresh
  <2>4. Probing'
    BY <1>0, <1>5, <2>1 DEF ProbeAnswered, Held, Probing
  <2>5. Requesting'
    BY <1>0, <1>5, <2>1 DEF ProbeAnswered, Held, Requesting, NothingInFlight, BeliefTrue,
       Believes, Verified, Verifying
  <2>6. BeliefTrue'
    BY <1>0, <1>5, <2>1 DEF ProbeAnswered, Held, BeliefTrue, Believes, Verified,
       Handshaking, NothingInFlight, Fresh, IsFresh
  <2>7. Verified'
    BY <1>0, <1>5, <2>1 DEF ProbeAnswered, Held, Verified, Believes, Handshaking, Probing,
       Verifying, NeedsProbe
  <2> QED
    BY <2>1, <2>2, <2>3, <2>4, <2>5, <2>6, <2>7 DEF Held
<1>6. CASE ProbeFails
  <2>1. Peers'
    BY <1>6, SamePeers DEF ProbeFails, RetireSocket
  <2>2. NothingInFlight'
    BY <1>0, <1>6, <2>1 DEF ProbeFails, RetireSocket, Held, NothingInFlight, Fresh, IsFresh,
       Typed, Control
  <2>3. Fresh'
    BY <1>0, <1>6, <2>1 DEF ProbeFails, RetireSocket, Held, Fresh, IsFresh
  <2>4. Probing'
    BY <1>0, <1>6, <2>1 DEF ProbeFails, RetireSocket, Held, Probing
  <2>5. Requesting'
    BY <1>0, <1>6, <2>1 DEF ProbeFails, RetireSocket, Held, Requesting, NothingInFlight,
       BeliefTrue, Believes, Verified, Verifying
  <2>6. BeliefTrue'
    BY <1>0, <1>6, <2>1 DEF ProbeFails, RetireSocket, Held, BeliefTrue, Believes, Verified,
       Handshaking, NothingInFlight, Fresh, IsFresh
  <2>7. Verified'
    BY <1>0, <1>6, <2>1 DEF ProbeFails, RetireSocket, Held, Verified, Believes, Handshaking,
       Probing, Verifying, NeedsProbe
  <2> QED
    BY <2>1, <2>2, <2>3, <2>4, <2>5, <2>6, <2>7 DEF Held
<1>7. CASE AlreadyConnected
  <2>1. Peers'
    BY <1>7, SamePeers DEF AlreadyConnected, Settle
  <2>2. NothingInFlight'
    BY <1>0, <1>7, <2>1 DEF AlreadyConnected, Settle, Held, NothingInFlight, Fresh, IsFresh,
       Typed, Control
  <2>3. Fresh'
    BY <1>0, <1>7, <2>1 DEF AlreadyConnected, Settle, Held, Fresh, IsFresh
  <2>4. Probing'
    BY <1>0, <1>7, <2>1 DEF AlreadyConnected, Settle, Held, Probing
  <2>5. Requesting'
    BY <1>0, <1>7, <2>1 DEF AlreadyConnected, Settle, Held, Requesting, NothingInFlight,
       BeliefTrue, Believes, Verified, Verifying
  <2>6. BeliefTrue'
    BY <1>0, <1>7, <2>1 DEF AlreadyConnected, Settle, Held, BeliefTrue, Believes, Verified,
       Handshaking, NothingInFlight, Fresh, IsFresh
  <2>7. Verified'
    BY <1>0, <1>7, <2>1 DEF AlreadyConnected, Settle, Held, Verified, Believes, Handshaking,
       Probing, Verifying, NeedsProbe
  <2> QED
    BY <2>1, <2>2, <2>3, <2>4, <2>5, <2>6, <2>7 DEF Held
<1>8. CASE Connects
  <2>1. Peers'
    BY <1>8, SamePeers DEF Connects
  <2>2. NothingInFlight'
    BY <1>0, <1>8, <2>1 DEF Connects, Held, NothingInFlight, Fresh, IsFresh, Typed, Control
  <2>3. Fresh'
    BY <1>0, <1>8, <2>1 DEF Connects, Held, Fresh, IsFresh
  <2>4. Probing'
    BY <1>0, <1>8, <2>1 DEF Connects, Held, Probing
  <2>5. Requesting'
    BY <1>0, <1>8, <2>1 DEF Connects, Held, Requesting, NothingInFlight, BeliefTrue,
       Believes, Verified, Verifying
  <2>6. BeliefTrue'
    BY <1>0, <1>8, <2>1 DEF Connects, Held, BeliefTrue, Believes, Verified, Handshaking,
       NothingInFlight, Fresh, IsFresh
  <2>7. Verified'
    BY <1>0, <1>8, <2>1 DEF Connects, Held, Verified, Believes, Handshaking, Probing,
       Verifying, NeedsProbe
  <2> QED
    BY <2>1, <2>2, <2>3, <2>4, <2>5, <2>6, <2>7 DEF Held
<1>9. CASE HandshakeBegins
  <2>1. Peers'
    BY <1>9, SamePeers DEF HandshakeBegins
  <2>2. NothingInFlight'
    BY <1>0, <1>9, <2>1 DEF HandshakeBegins, Held, NothingInFlight, Fresh, IsFresh, Typed,
       Control
  <2>3. Fresh'
    BY <1>0, <1>9, <2>1 DEF HandshakeBegins, Held, Fresh, IsFresh
  <2>4. Probing'
    BY <1>0, <1>9, <2>1 DEF HandshakeBegins, Held, Probing
  <2>5. Requesting'
    BY <1>0, <1>9, <2>1 DEF HandshakeBegins, Held, Requesting, NothingInFlight, BeliefTrue,
       Believes, Verified, Verifying
  <2>6. BeliefTrue'
    BY <1>0, <1>9, <2>1 DEF HandshakeBegins, Held, BeliefTrue, Believes, Verified,
       Handshaking, NothingInFlight, Fresh, IsFresh
  <2>7. Verified'
    BY <1>0, <1>9, <2>1 DEF HandshakeBegins, Held, Verified, Believes, Handshaking, Probing,
       Verifying, NeedsProbe
  <2> QED
    BY <2>1, <2>2, <2>3, <2>4, <2>5, <2>6, <2>7 DEF Held
<1>10. CASE BrokerUnreachable
  <2>1. Peers'
    BY <1>10, SamePeers DEF BrokerUnreachable, RetryOrFail, Settle
  <2>2. NothingInFlight'
    BY <1>0, <1>10, <2>1 DEF BrokerUnreachable, RetryOrFail, Settle, Held, NothingInFlight,
       Fresh, IsFresh, Typed, Control
  <2>3. Fresh'
    BY <1>0, <1>10, <2>1 DEF BrokerUnreachable, RetryOrFail, Settle, Held, Fresh, IsFresh
  <2>4. Probing'
    BY <1>0, <1>10, <2>1 DEF BrokerUnreachable, RetryOrFail, Settle, Held, Probing
  <2>5. Requesting'
    BY <1>0, <1>10, <2>1 DEF BrokerUnreachable, RetryOrFail, Settle, Held, Requesting,
       NothingInFlight, BeliefTrue, Believes, Verified, Verifying
  <2>6. BeliefTrue'
    BY <1>0, <1>10, <2>1 DEF BrokerUnreachable, RetryOrFail, Settle, Held, BeliefTrue,
       Believes, Verified, Handshaking, NothingInFlight, Fresh, IsFresh
  <2>7. Verified'
    BY <1>0, <1>10, <2>1 DEF BrokerUnreachable, RetryOrFail, Settle, Held, Verified,
       Believes, Handshaking, Probing, Verifying, NeedsProbe
  <2> QED
    BY <2>1, <2>2, <2>3, <2>4, <2>5, <2>6, <2>7 DEF Held
<1>11. CASE BackoffElapses
  <2>1. Peers'
    BY <1>11, SamePeers DEF BackoffElapses
  <2>2. NothingInFlight'
    BY <1>0, <1>11, <2>1 DEF BackoffElapses, Held, NothingInFlight, Fresh, IsFresh, Typed,
       Control
  <2>3. Fresh'
    BY <1>0, <1>11, <2>1 DEF BackoffElapses, Held, Fresh, IsFresh
  <2>4. Probing'
    BY <1>0, <1>11, <2>1 DEF BackoffElapses, Held, Probing
  <2>5. Requesting'
    BY <1>0, <1>11, <2>1 DEF BackoffElapses, Held, Requesting, NothingInFlight, BeliefTrue,
       Believes, Verified, Verifying
  <2>6. BeliefTrue'
    BY <1>0, <1>11, <2>1 DEF BackoffElapses, Held, BeliefTrue, Believes, Verified,
       Handshaking, NothingInFlight, Fresh, IsFresh
  <2>7. Verified'
    BY <1>0, <1>11, <2>1 DEF BackoffElapses, Held, Verified, Believes, Handshaking, Probing,
       Verifying, NeedsProbe
  <2> QED
    BY <2>1, <2>2, <2>3, <2>4, <2>5, <2>6, <2>7 DEF Held
<1>12. CASE BrokerAccepts
  <2>1. /\ Peers' /\ Len(cas') = Len(cas) + 1
        /\ \A t \in 1..Len(cas) : cas'[t] = cas[t]
        /\ cas'[Len(cas) + 1] = NewSocket
        /\ NewSocket.inTran /\ NewSocket.requests = <<>>
        /\ NewSocket.replies = <<>> /\ NewSocket.generation = 0
    BY <1>12, NewSocketFresh DEF BrokerAccepts
  <2>2. NothingInFlight'
    BY <1>0, <1>12, <2>1 DEF BrokerAccepts, Held, NothingInFlight, Fresh, IsFresh, Typed,
       Control
  <2>3. Fresh'
    BY <1>0, <1>12, <2>1 DEF BrokerAccepts, Held, Fresh, IsFresh
  <2>4. Probing'
    BY <1>0, <1>12, <2>1 DEF BrokerAccepts, Held, Probing
  <2>5. Requesting'
    BY <1>0, <1>12, <2>1 DEF BrokerAccepts, Held, Requesting, NothingInFlight, BeliefTrue,
       Believes, Verified, Verifying
  <2>6. BeliefTrue'
    BY <1>0, <1>12, <2>1 DEF BrokerAccepts, Held, BeliefTrue, Believes, Verified,
       Handshaking, NothingInFlight, Fresh, IsFresh
  <2>7. Verified'
    BY <1>0, <1>12, <2>1 DEF BrokerAccepts, Held, Verified, Believes, Handshaking, Probing,
       Verifying, NeedsProbe
  <2> QED
    BY <2>1, <2>2, <2>3, <2>4, <2>5, <2>6, <2>7 DEF Held
<1>13. CASE BrokerHandsOver
  <2>1. Peers'
    BY <1>13, SamePeers DEF BrokerHandsOver, AfterRedirect
  <2>2. NothingInFlight'
    BY <1>0, <1>13, <2>1 DEF BrokerHandsOver, AfterRedirect, Held, NothingInFlight, Fresh,
       IsFresh, Typed, Control
  <2>3. Fresh'
    BY <1>0, <1>13, <2>1 DEF BrokerHandsOver, AfterRedirect, Held, Fresh, IsFresh
  <2>4. Probing'
    BY <1>0, <1>13, <2>1 DEF BrokerHandsOver, AfterRedirect, Held, Probing
  <2>5. Requesting'
    BY <1>0, <1>13, <2>1 DEF BrokerHandsOver, AfterRedirect, Held, Requesting,
       NothingInFlight, BeliefTrue, Believes, Verified, Verifying
  <2>6. BeliefTrue'
    BY <1>0, <1>13, <2>1 DEF BrokerHandsOver, AfterRedirect, Held, BeliefTrue, Believes,
       Verified, Handshaking, NothingInFlight, Fresh, IsFresh
  <2>7. Verified'
    BY <1>0, <1>13, <2>1 DEF BrokerHandsOver, AfterRedirect, Held, Verified, Believes,
       Handshaking, Probing, Verifying, NeedsProbe
  <2> QED
    BY <2>1, <2>2, <2>3, <2>4, <2>5, <2>6, <2>7 DEF Held
<1>14. CASE BrokerRedirects
  <2>1. Peers'
    BY <1>14, SamePeers DEF BrokerRedirects
  <2>2. NothingInFlight'
    BY <1>0, <1>14, <2>1 DEF BrokerRedirects, Held, NothingInFlight, Fresh, IsFresh, Typed,
       Control
  <2>3. Fresh'
    BY <1>0, <1>14, <2>1 DEF BrokerRedirects, Held, Fresh, IsFresh
  <2>4. Probing'
    BY <1>0, <1>14, <2>1 DEF BrokerRedirects, Held, Probing
  <2>5. Requesting'
    BY <1>0, <1>14, <2>1 DEF BrokerRedirects, Held, Requesting, NothingInFlight, BeliefTrue,
       Believes, Verified, Verifying
  <2>6. BeliefTrue'
    BY <1>0, <1>14, <2>1 DEF BrokerRedirects, Held, BeliefTrue, Believes, Verified,
       Handshaking, NothingInFlight, Fresh, IsFresh
  <2>7. Verified'
    BY <1>0, <1>14, <2>1 DEF BrokerRedirects, Held, Verified, Believes, Handshaking,
       Probing, Verifying, NeedsProbe
  <2> QED
    BY <2>1, <2>2, <2>3, <2>4, <2>5, <2>6, <2>7 DEF Held
<1>15. CASE RedirectAccepted
  <2>1. /\ Peers' /\ Len(cas') = Len(cas) + 1
        /\ \A t \in 1..Len(cas) : cas'[t] = cas[t]
        /\ cas'[Len(cas) + 1] = NewSocket
        /\ NewSocket.inTran /\ NewSocket.requests = <<>>
        /\ NewSocket.replies = <<>> /\ NewSocket.generation = 0
    BY <1>15, NewSocketFresh DEF RedirectAccepted
  <2>2. NothingInFlight'
    BY <1>0, <1>15, <2>1 DEF RedirectAccepted, AfterRedirect, Held, NothingInFlight, Fresh,
       IsFresh, Typed, Control
  <2>3. Fresh'
    BY <1>0, <1>15, <2>1 DEF RedirectAccepted, AfterRedirect, Held, Fresh, IsFresh
  <2>4. Probing'
    BY <1>0, <1>15, <2>1 DEF RedirectAccepted, AfterRedirect, Held, Probing
  <2>5. Requesting'
    BY <1>0, <1>15, <2>1 DEF RedirectAccepted, AfterRedirect, Held, Requesting,
       NothingInFlight, BeliefTrue, Believes, Verified, Verifying
  <2>6. BeliefTrue'
    BY <1>0, <1>15, <2>1 DEF RedirectAccepted, AfterRedirect, Held, BeliefTrue, Believes,
       Verified, Handshaking, NothingInFlight, Fresh, IsFresh
  <2>7. Verified'
    BY <1>0, <1>15, <2>1 DEF RedirectAccepted, AfterRedirect, Held, Verified, Believes,
       Handshaking, Probing, Verifying, NeedsProbe
  <2> QED
    BY <2>1, <2>2, <2>3, <2>4, <2>5, <2>6, <2>7 DEF Held
<1>16. CASE RedirectUnreachable
  <2>1. Peers'
    BY <1>16, SamePeers DEF RedirectUnreachable, AbandonHandshake, RetireSocket,
       RetryOrFail, Settle
  <2>2. NothingInFlight'
    BY <1>0, <1>16, <2>1 DEF RedirectUnreachable, AbandonHandshake, RetireSocket,
       RetryOrFail, Settle, Held, NothingInFlight, Fresh, IsFresh, Typed, Control
  <2>3. Fresh'
    BY <1>0, <1>16, <2>1 DEF RedirectUnreachable, AbandonHandshake, RetireSocket,
       RetryOrFail, Settle, Held, Fresh, IsFresh
  <2>4. Probing'
    BY <1>0, <1>16, <2>1 DEF RedirectUnreachable, AbandonHandshake, RetireSocket,
       RetryOrFail, Settle, Held, Probing
  <2>5. Requesting'
    BY <1>0, <1>16, <2>1 DEF RedirectUnreachable, AbandonHandshake, RetireSocket,
       RetryOrFail, Settle, Held, Requesting, NothingInFlight, BeliefTrue, Believes,
       Verified, Verifying
  <2>6. BeliefTrue'
    BY <1>0, <1>16, <2>1 DEF RedirectUnreachable, AbandonHandshake, RetireSocket,
       RetryOrFail, Settle, Held, BeliefTrue, Believes, Verified, Handshaking,
       NothingInFlight, Fresh, IsFresh
  <2>7. Verified'
    BY <1>0, <1>16, <2>1 DEF RedirectUnreachable, AbandonHandshake, RetireSocket,
       RetryOrFail, Settle, Held, Verified, Believes, Handshaking, Probing, Verifying,
       NeedsProbe
  <2> QED
    BY <2>1, <2>2, <2>3, <2>4, <2>5, <2>6, <2>7 DEF Held
<1>17. CASE TlsUpgraded
  <2>1. Peers'
    BY <1>17, SamePeers DEF TlsUpgraded
  <2>2. NothingInFlight'
    BY <1>0, <1>17, <2>1 DEF TlsUpgraded, Held, NothingInFlight, Fresh, IsFresh, Typed, Control
  <2>3. Fresh'
    BY <1>0, <1>17, <2>1 DEF TlsUpgraded, Held, Fresh, IsFresh
  <2>4. Probing'
    BY <1>0, <1>17, <2>1 DEF TlsUpgraded, Held, Probing
  <2>5. Requesting'
    BY <1>0, <1>17, <2>1 DEF TlsUpgraded, Held, Requesting, NothingInFlight, BeliefTrue,
       Believes, Verified, Verifying
  <2>6. BeliefTrue'
    BY <1>0, <1>17, <2>1 DEF TlsUpgraded, Held, BeliefTrue, Believes, Verified, Handshaking,
       NothingInFlight, Fresh, IsFresh
  <2>7. Verified'
    BY <1>0, <1>17, <2>1 DEF TlsUpgraded, Held, Verified, Believes, Handshaking, Probing,
       Verifying, NeedsProbe
  <2> QED
    BY <2>1, <2>2, <2>3, <2>4, <2>5, <2>6, <2>7 DEF Held
<1>18. CASE HandshakeFails
  <2>1. Peers'
    BY <1>18, SamePeers DEF HandshakeFails, AbandonHandshake, RetireSocket, Settle
  <2>2. NothingInFlight'
    BY <1>0, <1>18, <2>1 DEF HandshakeFails, AbandonHandshake, RetireSocket, Settle, Held,
       NothingInFlight, Fresh, IsFresh, Typed, Control
  <2>3. Fresh'
    BY <1>0, <1>18, <2>1 DEF HandshakeFails, AbandonHandshake, RetireSocket, Settle, Held,
       Fresh, IsFresh
  <2>4. Probing'
    BY <1>0, <1>18, <2>1 DEF HandshakeFails, AbandonHandshake, RetireSocket, Settle, Held,
       Probing
  <2>5. Requesting'
    BY <1>0, <1>18, <2>1 DEF HandshakeFails, AbandonHandshake, RetireSocket, Settle, Held,
       Requesting, NothingInFlight, BeliefTrue, Believes, Verified, Verifying
  <2>6. BeliefTrue'
    BY <1>0, <1>18, <2>1 DEF HandshakeFails, AbandonHandshake, RetireSocket, Settle, Held,
       BeliefTrue, Believes, Verified, Handshaking, NothingInFlight, Fresh, IsFresh
  <2>7. Verified'
    BY <1>0, <1>18, <2>1 DEF HandshakeFails, AbandonHandshake, RetireSocket, Settle, Held,
       Verified, Believes, Handshaking, Probing, Verifying, NeedsProbe
  <2> QED
    BY <2>1, <2>2, <2>3, <2>4, <2>5, <2>6, <2>7 DEF Held
<1>19. CASE DatabaseOpened
  <2> DEFINE new == [cas[socket] EXCEPT !.generation = generation + 1]
  <2>0. /\ socket \in 1..Len(cas) /\ generation + 1 \in Nat
        /\ cas[socket].inTran /\ cas[socket].requests = <<>> /\ cas[socket].replies = <<>>
    BY <1>0, <1>19 DEF DatabaseOpened, Typed, TypeOK, SessionTyped, NumbersTyped, Control,
       Held, Fresh, IsFresh
  <2>a. new \in CAS
    BY <1>0, <2>0, PeerTyped DEF CAS
  <2>b. /\ cas' \in Seq(CAS) /\ Len(cas') = Len(cas) /\ cas'[socket] = new
        /\ \A t \in 1..Len(cas) : t # socket => cas'[t] = cas[t]
    BY <1>0, <2>0, <2>a, <1>19, SetPeer DEF DatabaseOpened
  <2>c. /\ cas'[socket].requests = <<>> /\ cas'[socket].replies = <<>>
        /\ cas'[socket].inTran /\ cas'[socket].state = cas[socket].state
    BY <1>0, <2>0, <2>b, PeerTyped DEF CAS
  <2>1. /\ Peers' /\ Len(cas') = Len(cas)
        /\ cas'[socket].requests = <<>> /\ cas'[socket].replies = <<>> /\ cas'[socket].inTran
    <3> SUFFICES ASSUME NEW t \in 1..Len(cas)
                 PROVE  /\ Single(t)'
                        /\ cas'[t].inTran => cas'[t].state # "left"
                        /\ cas'[t].replies # <<>> => Head(cas'[t].replies).outTran = ~cas'[t].inTran
      BY <2>b, <2>c DEF Peers, Sockets
    <3>1. CASE t = socket
      BY <3>1, <2>0, <2>c DEF Held, Peers, Sockets, Single
    <3>2. CASE t # socket
      BY <3>2, <2>b DEF Held, Peers, Sockets, Single
    <3> QED
      BY <3>1, <3>2
  <2>2. NothingInFlight'
    BY <1>0, <1>19, <2>1 DEF DatabaseOpened, Held, NothingInFlight, Fresh, IsFresh, Typed,
       Control
  <2>3. Fresh'
    BY <1>0, <1>19, <2>1 DEF DatabaseOpened, Held, Fresh, IsFresh
  <2>4. Probing'
    BY <1>0, <1>19, <2>1 DEF DatabaseOpened, Held, Probing
  <2>5. Requesting'
    BY <1>0, <1>19, <2>1 DEF DatabaseOpened, Held, Requesting, NothingInFlight, BeliefTrue,
       Believes, Verified, Verifying
  <2>6. BeliefTrue'
    BY <1>0, <1>19, <2>1 DEF DatabaseOpened, Held, BeliefTrue, Believes, Verified,
       Handshaking, NothingInFlight, Fresh, IsFresh
  <2>7. Verified'
    BY <1>0, <1>19, <2>1 DEF DatabaseOpened, Held, Verified, Believes, Handshaking, Probing,
       Verifying, NeedsProbe
  <2> QED
    BY <2>1, <2>2, <2>3, <2>4, <2>5, <2>6, <2>7 DEF Held
<1>20. CASE NothingToApply
  <2>1. Peers'
    BY <1>20, SamePeers DEF NothingToApply, SettingsHold, Settle
  <2>2. NothingInFlight'
    BY <1>0, <1>20, <2>1 DEF NothingToApply, SettingsHold, Settle, Held, NothingInFlight,
       Fresh, IsFresh, Typed, Control
  <2>3. Fresh'
    BY <1>0, <1>20, <2>1 DEF NothingToApply, SettingsHold, Settle, Held, Fresh, IsFresh
  <2>4. Probing'
    BY <1>0, <1>20, <2>1 DEF NothingToApply, SettingsHold, Settle, Held, Probing
  <2>5. Requesting'
    BY <1>0, <1>20, <2>1 DEF NothingToApply, SettingsHold, Settle, Held, Requesting,
       NothingInFlight, BeliefTrue, Believes, Verified, Verifying
  <2>6. BeliefTrue'
    BY <1>0, <1>20, <2>1 DEF NothingToApply, SettingsHold, Settle, Held, BeliefTrue,
       Believes, Verified, Handshaking, NothingInFlight, Fresh, IsFresh
  <2>7. Verified'
    BY <1>0, <1>20, <2>1 DEF NothingToApply, SettingsHold, Settle, Held, Verified, Believes,
       Handshaking, Probing, Verifying, NeedsProbe
  <2> QED
    BY <2>1, <2>2, <2>3, <2>4, <2>5, <2>6, <2>7 DEF Held
<1>21. CASE SendParameter
  <2> DEFINE r == [fn |-> "SET_DB_PARAMETER", id |-> 0, set |-> <<sessionParameters[index]>>]
  <2>0. r \in Request
    <3>1. sessionParameters \in Seq(SessionParameter)
      BY ParametersAssumption DEF Typed, TypeOK, SessionTyped
    <3>2. sessionParameters[index] \in SessionParameter
      BY <1>21, <3>1, ElementOfSeq DEF SendParameter
    <3> QED
      BY <3>2 DEF Request
  <2>1. /\ Peers' /\ Len(cas') = Len(cas)
        /\ cas'[socket].replies = <<>> /\ cas'[socket].requests # <<>>
        /\ sessionParameters # <<>>
    <3>1. sessionParameters # <<>>
      BY <1>21 DEF SendParameter
    <3> QED
      BY <2>0, <3>1, <1>21, PutAlone DEF SendParameter
  <2>2. NothingInFlight'
    BY <1>0, <1>21, <2>1 DEF SendParameter, CanSend, Held, NothingInFlight, Fresh, IsFresh,
       Typed, Control
  <2>3. Fresh'
    BY <1>0, <1>21, <2>1 DEF SendParameter, CanSend, Held, Fresh, IsFresh
  <2>4. Probing'
    BY <1>0, <1>21, <2>1 DEF SendParameter, CanSend, Held, Probing
  <2>5. Requesting'
    BY <1>0, <1>21, <2>1 DEF SendParameter, CanSend, Held, Requesting, NothingInFlight,
       BeliefTrue, Believes, Verified, Verifying
  <2>6. BeliefTrue'
    BY <1>0, <1>21, <2>1 DEF SendParameter, CanSend, Held, BeliefTrue, Believes, Verified,
       Handshaking, NothingInFlight, Fresh, IsFresh
  <2>7. Verified'
    BY <1>0, <1>21, <2>1 DEF SendParameter, CanSend, Held, Verified, Believes, Handshaking,
       Probing, Verifying, NeedsProbe
  <2> QED
    BY <2>1, <2>2, <2>3, <2>4, <2>5, <2>6, <2>7 DEF Held
<1>22. CASE ParameterAnswered
  <2>1. /\ Peers' /\ Len(cas') = Len(cas)
        /\ cas'[socket].requests = <<>> /\ cas'[socket].replies = <<>>
        /\ cas'[socket].inTran = cas[socket].inTran
        /\ Answer.outTran = ~cas[socket].inTran
        /\ pc \in {"probing", "holding"} => ~Answer.outTran
    BY <1>22, TakeReplyAlone DEF ParameterAnswered, Typed, Control
  <2>2. NothingInFlight'
    BY <1>0, <1>22, <2>1 DEF ParameterAnswered, Held, NothingInFlight, Fresh, IsFresh,
       Typed, Control
  <2>3. Fresh'
    BY <1>0, <1>22, <2>1 DEF ParameterAnswered, Held, Fresh, IsFresh
  <2>4. Probing'
    BY <1>0, <1>22, <2>1 DEF ParameterAnswered, Held, Probing
  <2>5. Requesting'
    BY <1>0, <1>22, <2>1 DEF ParameterAnswered, Held, Requesting, NothingInFlight,
       BeliefTrue, Believes, Verified, Verifying
  <2>6. BeliefTrue'
    BY <1>0, <1>22, <2>1 DEF ParameterAnswered, Held, BeliefTrue, Believes, Verified,
       Handshaking, NothingInFlight, Fresh, IsFresh
  <2>7. Verified'
    BY <1>0, <1>22, <2>1 DEF ParameterAnswered, Held, Verified, Believes, Handshaking,
       Probing, Verifying, NeedsProbe
  <2> QED
    BY <2>1, <2>2, <2>3, <2>4, <2>5, <2>6, <2>7 DEF Held
<1>23. CASE SendHold
  <2>0. [fn |-> "CHECK_CAS", id |-> 0, set |-> <<>>] \in Request
    BY DEF Request
  <2>1. /\ Peers' /\ Len(cas') = Len(cas)
        /\ cas'[socket].replies = <<>> /\ cas'[socket].requests # <<>>
        /\ Head(cas'[socket].requests) = [fn |-> "CHECK_CAS", id |-> 0, set |-> <<>>]
        /\ cas'[socket].inTran = cas[socket].inTran
    BY <2>0, <1>23, PutAlone DEF SendHold
  <2>2. NothingInFlight'
    BY <1>0, <1>23, <2>1 DEF SendHold, CanSend, Held, NothingInFlight, Fresh, IsFresh,
       Typed, Control
  <2>3. Fresh'
    BY <1>0, <1>23, <2>1 DEF SendHold, CanSend, Held, Fresh, IsFresh
  <2>4. Probing'
    BY <1>0, <1>23, <2>1 DEF SendHold, CanSend, Held, Probing
  <2>5. Requesting'
    BY <1>0, <1>23, <2>1 DEF SendHold, CanSend, Held, Requesting, NothingInFlight,
       BeliefTrue, Believes, Verified, Verifying
  <2>6. BeliefTrue'
    BY <1>0, <1>23, <2>1 DEF SendHold, CanSend, Held, BeliefTrue, Believes, Verified,
       Handshaking, NothingInFlight, Fresh, IsFresh
  <2>7. Verified'
    BY <1>0, <1>23, <2>1 DEF SendHold, CanSend, Held, Verified, Believes, Handshaking,
       Probing, Verifying, NeedsProbe
  <2> QED
    BY <2>1, <2>2, <2>3, <2>4, <2>5, <2>6, <2>7 DEF Held
<1>24. CASE HoldAnswered
  <2>1. /\ Peers' /\ Len(cas') = Len(cas)
        /\ cas'[socket].requests = <<>> /\ cas'[socket].replies = <<>>
        /\ cas'[socket].inTran = cas[socket].inTran
        /\ Answer.outTran = ~cas[socket].inTran
        /\ pc \in {"probing", "holding"} => ~Answer.outTran
    BY <1>24, TakeReplyAlone DEF HoldAnswered, Typed, Control
  <2>2. NothingInFlight'
    BY <1>0, <1>24, <2>1 DEF HoldAnswered, SettingsHold, Settle, Held, NothingInFlight,
       Fresh, IsFresh, Typed, Control
  <2>3. Fresh'
    BY <1>0, <1>24, <2>1 DEF HoldAnswered, SettingsHold, Settle, Held, Fresh, IsFresh
  <2>4. Probing'
    BY <1>0, <1>24, <2>1 DEF HoldAnswered, SettingsHold, Settle, Held, Probing
  <2>5. Requesting'
    BY <1>0, <1>24, <2>1 DEF HoldAnswered, SettingsHold, Settle, Held, Requesting,
       NothingInFlight, BeliefTrue, Believes, Verified, Verifying
  <2>6. BeliefTrue'
    BY <1>0, <1>24, <2>1 DEF HoldAnswered, SettingsHold, Settle, Held, BeliefTrue, Believes,
       Verified, Handshaking, NothingInFlight, Fresh, IsFresh
  <2>7. Verified'
    BY <1>0, <1>24, <2>1 DEF HoldAnswered, SettingsHold, Settle, Held, Verified, Believes,
       Handshaking, Probing, Verifying, NeedsProbe
  <2> QED
    BY <2>1, <2>2, <2>3, <2>4, <2>5, <2>6, <2>7 DEF Held
<1>25. CASE ApplyFails
  <2>1. Peers'
    BY <1>25, SamePeers DEF ApplyFails, RetireSocket, Settle
  <2>2. NothingInFlight'
    BY <1>0, <1>25, <2>1 DEF ApplyFails, RetireSocket, Settle, Held, NothingInFlight, Fresh,
       IsFresh, Typed, Control
  <2>3. Fresh'
    BY <1>0, <1>25, <2>1 DEF ApplyFails, RetireSocket, Settle, Held, Fresh, IsFresh
  <2>4. Probing'
    BY <1>0, <1>25, <2>1 DEF ApplyFails, RetireSocket, Settle, Held, Probing
  <2>5. Requesting'
    BY <1>0, <1>25, <2>1 DEF ApplyFails, RetireSocket, Settle, Held, Requesting,
       NothingInFlight, BeliefTrue, Believes, Verified, Verifying
  <2>6. BeliefTrue'
    BY <1>0, <1>25, <2>1 DEF ApplyFails, RetireSocket, Settle, Held, BeliefTrue, Believes,
       Verified, Handshaking, NothingInFlight, Fresh, IsFresh
  <2>7. Verified'
    BY <1>0, <1>25, <2>1 DEF ApplyFails, RetireSocket, Settle, Held, Verified, Believes,
       Handshaking, Probing, Verifying, NeedsProbe
  <2> QED
    BY <2>1, <2>2, <2>3, <2>4, <2>5, <2>6, <2>7 DEF Held
<1>26. CASE ParametersInherited
  <2>1. Peers'
    BY <1>26, SamePeers DEF ParametersInherited, Settle
  <2>2. NothingInFlight'
    BY <1>0, <1>26, <2>1 DEF ParametersInherited, Settle, Held, NothingInFlight, Fresh,
       IsFresh, Typed, Control
  <2>3. Fresh'
    BY <1>0, <1>26, <2>1 DEF ParametersInherited, Settle, Held, Fresh, IsFresh
  <2>4. Probing'
    BY <1>0, <1>26, <2>1 DEF ParametersInherited, Settle, Held, Probing
  <2>5. Requesting'
    BY <1>0, <1>26, <2>1 DEF ParametersInherited, Settle, Held, Requesting, NothingInFlight,
       BeliefTrue, Believes, Verified, Verifying
  <2>6. BeliefTrue'
    BY <1>0, <1>26, <2>1 DEF ParametersInherited, Settle, Held, BeliefTrue, Believes,
       Verified, Handshaking, NothingInFlight, Fresh, IsFresh
  <2>7. Verified'
    BY <1>0, <1>26, <2>1 DEF ParametersInherited, Settle, Held, Verified, Believes,
       Handshaking, Probing, Verifying, NeedsProbe
  <2> QED
    BY <2>1, <2>2, <2>3, <2>4, <2>5, <2>6, <2>7 DEF Held
<1>27. CASE ApplyToOpenSession
  <2>1. Peers'
    BY <1>27, SamePeers DEF ApplyToOpenSession
  <2>2. NothingInFlight'
    BY <1>0, <1>27, <2>1 DEF ApplyToOpenSession, Held, NothingInFlight, Fresh, IsFresh,
       Typed, Control
  <2>3. Fresh'
    BY <1>0, <1>27, <2>1 DEF ApplyToOpenSession, Held, Fresh, IsFresh
  <2>4. Probing'
    BY <1>0, <1>27, <2>1 DEF ApplyToOpenSession, Held, Probing
  <2>5. Requesting'
    BY <1>0, <1>27, <2>1 DEF ApplyToOpenSession, Held, Requesting, NothingInFlight,
       BeliefTrue, Believes, Verified, Verifying
  <2>6. BeliefTrue'
    BY <1>0, <1>27, <2>1 DEF ApplyToOpenSession, Held, BeliefTrue, Believes, Verified,
       Handshaking, NothingInFlight, Fresh, IsFresh
  <2>7. Verified'
    BY <1>0, <1>27, <2>1 DEF ApplyToOpenSession, Held, Verified, Believes, Handshaking,
       Probing, Verifying, NeedsProbe
  <2> QED
    BY <2>1, <2>2, <2>3, <2>4, <2>5, <2>6, <2>7 DEF Held
<1>28. CASE AbsentSession
  <2>1. Peers'
    BY <1>28, SamePeers DEF AbsentSession, Settle
  <2>2. NothingInFlight'
    BY <1>0, <1>28, <2>1 DEF AbsentSession, Settle, Held, NothingInFlight, Fresh, IsFresh,
       Typed, Control
  <2>3. Fresh'
    BY <1>0, <1>28, <2>1 DEF AbsentSession, Settle, Held, Fresh, IsFresh
  <2>4. Probing'
    BY <1>0, <1>28, <2>1 DEF AbsentSession, Settle, Held, Probing
  <2>5. Requesting'
    BY <1>0, <1>28, <2>1 DEF AbsentSession, Settle, Held, Requesting, NothingInFlight,
       BeliefTrue, Believes, Verified, Verifying
  <2>6. BeliefTrue'
    BY <1>0, <1>28, <2>1 DEF AbsentSession, Settle, Held, BeliefTrue, Believes, Verified,
       Handshaking, NothingInFlight, Fresh, IsFresh
  <2>7. Verified'
    BY <1>0, <1>28, <2>1 DEF AbsentSession, Settle, Held, Verified, Believes, Handshaking,
       Probing, Verifying, NeedsProbe
  <2> QED
    BY <2>1, <2>2, <2>3, <2>4, <2>5, <2>6, <2>7 DEF Held
<1>29. CASE SendRequest
  <2> DEFINE r == [fn |-> Running.fn, id |-> Running.id, set |-> <<>>]
  <2>0. r \in Request /\ Running.call \in Exchanging
    <3>1. Running.fn \in Functions \cup {"CLOSE_HANDLE"} /\ Running.id \in Nat
      BY <1>29, RunningTyped DEF SendRequest, MayExchange, Typed, TypeOK, Control
    <3> QED
      BY <1>29, <3>1 DEF Request, SendRequest, MayExchange
  <2>1. /\ Peers' /\ Len(cas') = Len(cas)
        /\ cas'[socket].replies = <<>> /\ cas'[socket].requests # <<>>
        /\ cas'[socket].inTran = cas[socket].inTran
    BY <2>0, <1>29, PutAlone DEF SendRequest, MayExchange
  <2>2. NothingInFlight'
    BY <1>0, <1>29, <2>1 DEF SendRequest, MayExchange, CanSend, Held, NothingInFlight,
       Fresh, IsFresh, Typed, Control, Running
  <2>3. Fresh'
    BY <1>0, <1>29, <2>1 DEF SendRequest, MayExchange, CanSend, Held, Fresh, IsFresh, Running
  <2>4. Probing'
    BY <1>0, <1>29, <2>1 DEF SendRequest, MayExchange, CanSend, Held, Probing, Running
  <2>5. Requesting'
    BY <1>0, <1>29, <2>1 DEF SendRequest, MayExchange, CanSend, Held, Requesting,
       NothingInFlight, BeliefTrue, Believes, Verified, Verifying, Running
  <2>6. BeliefTrue'
    BY <1>0, <1>29, <2>1 DEF SendRequest, MayExchange, CanSend, Held, BeliefTrue, Believes,
       Verified, Handshaking, NothingInFlight, Fresh, IsFresh, Running
  <2>7. Verified'
    BY <1>0, <1>29, <2>1 DEF SendRequest, MayExchange, CanSend, Held, Verified, Believes,
       Handshaking, Probing, Verifying, NeedsProbe, Running
  <2> QED
    BY <2>1, <2>2, <2>3, <2>4, <2>5, <2>6, <2>7 DEF Held
<1>30. CASE ExchangeAnswered
  <2>1. /\ Peers' /\ Len(cas') = Len(cas)
        /\ cas'[socket].requests = <<>> /\ cas'[socket].replies = <<>>
        /\ cas'[socket].inTran = cas[socket].inTran
        /\ Answer.outTran = ~cas[socket].inTran
        /\ pc \in {"probing", "holding"} => ~Answer.outTran
    BY <1>30, TakeReplyAlone DEF ExchangeAnswered, Typed, Control
  <2>2. NothingInFlight'
    BY <1>0, <1>30, <2>1 DEF ExchangeAnswered, Settle, Held, NothingInFlight, Fresh,
       IsFresh, Typed, Control
  <2>3. Fresh'
    BY <1>0, <1>30, <2>1 DEF ExchangeAnswered, Settle, Held, Fresh, IsFresh
  <2>4. Probing'
    BY <1>0, <1>30, <2>1 DEF ExchangeAnswered, Settle, Held, Probing
  <2>5. Requesting'
    BY <1>0, <1>30, <2>1 DEF ExchangeAnswered, Settle, Held, Requesting, NothingInFlight,
       BeliefTrue, Believes, Verified, Verifying
  <2>6. BeliefTrue'
    BY <1>0, <1>30, <2>1 DEF ExchangeAnswered, Settle, Held, BeliefTrue, Believes, Verified,
       Handshaking, NothingInFlight, Fresh, IsFresh
  <2>7. Verified'
    BY <1>0, <1>30, <2>1 DEF ExchangeAnswered, Settle, Held, Verified, Believes,
       Handshaking, Probing, Verifying, NeedsProbe
  <2> QED
    BY <2>1, <2>2, <2>3, <2>4, <2>5, <2>6, <2>7 DEF Held
<1>31. CASE ExchangeFails
  <2>1. Peers'
    BY <1>31, SamePeers DEF ExchangeFails, MayExchange, RetireSocket, Settle
  <2>2. NothingInFlight'
    BY <1>0, <1>31, <2>1 DEF ExchangeFails, MayExchange, RetireSocket, Settle, Held,
       NothingInFlight, Fresh, IsFresh, Typed, Control
  <2>3. Fresh'
    BY <1>0, <1>31, <2>1 DEF ExchangeFails, MayExchange, RetireSocket, Settle, Held, Fresh,
       IsFresh
  <2>4. Probing'
    BY <1>0, <1>31, <2>1 DEF ExchangeFails, MayExchange, RetireSocket, Settle, Held, Probing
  <2>5. Requesting'
    BY <1>0, <1>31, <2>1 DEF ExchangeFails, MayExchange, RetireSocket, Settle, Held,
       Requesting, NothingInFlight, BeliefTrue, Believes, Verified, Verifying
  <2>6. BeliefTrue'
    BY <1>0, <1>31, <2>1 DEF ExchangeFails, MayExchange, RetireSocket, Settle, Held,
       BeliefTrue, Believes, Verified, Handshaking, NothingInFlight, Fresh, IsFresh
  <2>7. Verified'
    BY <1>0, <1>31, <2>1 DEF ExchangeFails, MayExchange, RetireSocket, Settle, Held,
       Verified, Believes, Handshaking, Probing, Verifying, NeedsProbe
  <2> QED
    BY <2>1, <2>2, <2>3, <2>4, <2>5, <2>6, <2>7 DEF Held
<1>32. CASE DiscardSession
  <2>1. Peers'
    BY <1>32, SamePeers DEF DiscardSession, RetireSocket, Settle
  <2>2. NothingInFlight'
    BY <1>0, <1>32, <2>1 DEF DiscardSession, RetireSocket, Settle, Held, NothingInFlight,
       Fresh, IsFresh, Typed, Control
  <2>3. Fresh'
    BY <1>0, <1>32, <2>1 DEF DiscardSession, RetireSocket, Settle, Held, Fresh, IsFresh
  <2>4. Probing'
    BY <1>0, <1>32, <2>1 DEF DiscardSession, RetireSocket, Settle, Held, Probing
  <2>5. Requesting'
    BY <1>0, <1>32, <2>1 DEF DiscardSession, RetireSocket, Settle, Held, Requesting,
       NothingInFlight, BeliefTrue, Believes, Verified, Verifying
  <2>6. BeliefTrue'
    BY <1>0, <1>32, <2>1 DEF DiscardSession, RetireSocket, Settle, Held, BeliefTrue,
       Believes, Verified, Handshaking, NothingInFlight, Fresh, IsFresh
  <2>7. Verified'
    BY <1>0, <1>32, <2>1 DEF DiscardSession, RetireSocket, Settle, Held, Verified, Believes,
       Handshaking, Probing, Verifying, NeedsProbe
  <2> QED
    BY <2>1, <2>2, <2>3, <2>4, <2>5, <2>6, <2>7 DEF Held
<1>33. CASE CloseFindsNoSocket
  <2>1. Peers'
    BY <1>33, SamePeers DEF CloseFindsNoSocket, Settle
  <2>2. NothingInFlight'
    BY <1>0, <1>33, <2>1 DEF CloseFindsNoSocket, Settle, Held, NothingInFlight, Fresh,
       IsFresh, Typed, Control
  <2>3. Fresh'
    BY <1>0, <1>33, <2>1 DEF CloseFindsNoSocket, Settle, Held, Fresh, IsFresh
  <2>4. Probing'
    BY <1>0, <1>33, <2>1 DEF CloseFindsNoSocket, Settle, Held, Probing
  <2>5. Requesting'
    BY <1>0, <1>33, <2>1 DEF CloseFindsNoSocket, Settle, Held, Requesting, NothingInFlight,
       BeliefTrue, Believes, Verified, Verifying
  <2>6. BeliefTrue'
    BY <1>0, <1>33, <2>1 DEF CloseFindsNoSocket, Settle, Held, BeliefTrue, Believes,
       Verified, Handshaking, NothingInFlight, Fresh, IsFresh
  <2>7. Verified'
    BY <1>0, <1>33, <2>1 DEF CloseFindsNoSocket, Settle, Held, Verified, Believes,
       Handshaking, Probing, Verifying, NeedsProbe
  <2> QED
    BY <2>1, <2>2, <2>3, <2>4, <2>5, <2>6, <2>7 DEF Held
<1>34. CASE CloseSendsFrame
  <2>0. [fn |-> "CON_CLOSE", id |-> 0, set |-> <<>>] \in Request
    BY DEF Request
  <2>1. /\ Peers' /\ Len(cas') = Len(cas)
        /\ cas'[socket].replies = <<>> /\ cas'[socket].requests # <<>>
        /\ Head(cas'[socket].requests) = [fn |-> "CON_CLOSE", id |-> 0, set |-> <<>>]
        /\ cas'[socket].inTran = cas[socket].inTran
    BY <2>0, <1>34, PutAlone DEF CloseSendsFrame
  <2>2. NothingInFlight'
    BY <1>0, <1>34, <2>1 DEF CloseSendsFrame, CanSend, Held, NothingInFlight, Fresh,
       IsFresh, Typed, Control
  <2>3. Fresh'
    BY <1>0, <1>34, <2>1 DEF CloseSendsFrame, CanSend, Held, Fresh, IsFresh
  <2>4. Probing'
    BY <1>0, <1>34, <2>1 DEF CloseSendsFrame, CanSend, Held, Probing
  <2>5. Requesting'
    BY <1>0, <1>34, <2>1 DEF CloseSendsFrame, CanSend, Held, Requesting, NothingInFlight,
       BeliefTrue, Believes, Verified, Verifying
  <2>6. BeliefTrue'
    BY <1>0, <1>34, <2>1 DEF CloseSendsFrame, CanSend, Held, BeliefTrue, Believes, Verified,
       Handshaking, NothingInFlight, Fresh, IsFresh
  <2>7. Verified'
    BY <1>0, <1>34, <2>1 DEF CloseSendsFrame, CanSend, Held, Verified, Believes,
       Handshaking, Probing, Verifying, NeedsProbe
  <2> QED
    BY <2>1, <2>2, <2>3, <2>4, <2>5, <2>6, <2>7 DEF Held
<1>35. CASE CloseTearsDown
  <2>1. Peers'
    BY <1>35, SamePeers DEF CloseTearsDown, RetireSocket, Settle
  <2>2. NothingInFlight'
    BY <1>0, <1>35, <2>1 DEF CloseTearsDown, RetireSocket, Settle, Held, NothingInFlight,
       Fresh, IsFresh, Typed, Control
  <2>3. Fresh'
    BY <1>0, <1>35, <2>1 DEF CloseTearsDown, RetireSocket, Settle, Held, Fresh, IsFresh
  <2>4. Probing'
    BY <1>0, <1>35, <2>1 DEF CloseTearsDown, RetireSocket, Settle, Held, Probing
  <2>5. Requesting'
    BY <1>0, <1>35, <2>1 DEF CloseTearsDown, RetireSocket, Settle, Held, Requesting,
       NothingInFlight, BeliefTrue, Believes, Verified, Verifying
  <2>6. BeliefTrue'
    BY <1>0, <1>35, <2>1 DEF CloseTearsDown, RetireSocket, Settle, Held, BeliefTrue,
       Believes, Verified, Handshaking, NothingInFlight, Fresh, IsFresh
  <2>7. Verified'
    BY <1>0, <1>35, <2>1 DEF CloseTearsDown, RetireSocket, Settle, Held, Verified, Believes,
       Handshaking, Probing, Verifying, NeedsProbe
  <2> QED
    BY <2>1, <2>2, <2>3, <2>4, <2>5, <2>6, <2>7 DEF Held
<1>36. ASSUME NEW s \in Sockets, MarkDead(s) PROVE Held'
  <2>1. Peers'
    BY <1>36, SamePeers DEF MarkDead
  <2>2. (NothingInFlight /\ Fresh /\ Probing /\ Requesting /\ BeliefTrue /\ Verified)'
    BY <1>36 DEF MarkDead, Held, NothingInFlight, Fresh, IsFresh, Probing, Requesting,
                  BeliefTrue, Believes, Verified, Handshaking, Running
  <2> QED
    BY <2>1, <2>2 DEF Held
<1>37. ASSUME NEW s \in Sockets, Serve(s) PROVE Held'
  <2> DEFINE r == Head(cas[s].requests)
  <2>0. /\ s \in 1..Len(cas) /\ cas[s].state = "up"
        /\ cas[s].requests # <<>> /\ cas[s].replies = <<>> /\ Tail(cas[s].requests) = <<>>
        /\ r \in Request
    <3>1. r \in Request
      BY <1>0, <1>37, PeerTyped, HeadTailProperties DEF Serve, Sockets
    <3> QED
      BY <3>1, <1>37 DEF Serve, Sockets, Held, Peers, Single
  <2>1. PICK outTran \in StatusAfter(r.fn), form \in Forms(r.fn) :
          cas' = [cas EXCEPT ![s].inTran = ~outTran,
                             ![s].settings = IF form = "error" THEN @ ELSE Applied(@, r.set),
                             ![s].requests = Tail(@),
                             ![s].replies = Append(@, [id |-> r.id, outTran |-> outTran,
                                                       form |-> form])]
    BY <1>37 DEF Serve
  <2> DEFINE reply == [id |-> r.id, outTran |-> outTran, form |-> form]
             settings == IF form = "error" THEN cas[s].settings ELSE Applied(cas[s].settings, r.set)
             new == [cas[s] EXCEPT !.inTran = ~outTran, !.settings = settings,
                                   !.requests = Tail(@), !.replies = Append(@, reply)]
  <2>2. outTran \in BOOLEAN /\ reply.outTran = outTran
    BY <2>1 DEF StatusAfter
  <2>3. <<reply>> # <<>> /\ Head(<<reply>>) = reply /\ Tail(<<reply>>) = <<>>
    OBVIOUS
  <2>4. r.fn = "CHECK_CAS" => ~outTran
    BY <2>1 DEF StatusAfter
  <2> HIDE DEF reply, r, settings
  <2>5. cas' = [cas EXCEPT ![s] = new]
    BY <2>0, <2>1 DEF reply, settings
  <2>6. /\ Len(cas') = Len(cas)
        /\ cas'[s] = new /\ \A t \in 1..Len(cas) : t # s => cas'[t] = cas[t]
    BY <1>0, <2>0, <2>5, ExceptPeer
  <2>7. /\ cas'[s].requests = <<>> /\ cas'[s].replies = <<reply>>
        /\ cas'[s].inTran = ~outTran /\ cas'[s].state = "up"
        /\ cas'[s].generation = cas[s].generation
    <3>1. Append(cas[s].replies, reply) = <<reply>>
      BY <2>0
    <3> QED
      BY <1>0, <2>0, <2>6, <3>1, PeerTyped
  <2>8. Peers'
    <3> SUFFICES ASSUME NEW t \in 1..Len(cas)
                 PROVE  /\ Single(t)'
                        /\ cas'[t].inTran => cas'[t].state # "left"
                        /\ cas'[t].replies # <<>> => Head(cas'[t].replies).outTran = ~cas'[t].inTran
      BY <2>6 DEF Peers, Sockets
    <3>1. CASE t = s
      BY <3>1, <2>2, <2>3, <2>7 DEF Single
    <3>2. CASE t # s
      BY <3>2, <2>6 DEF Held, Peers, Sockets, Single
    <3> QED
      BY <3>1, <3>2
  <2>9. NothingInFlight'
    BY <1>37, <1>0, <2>0, <2>6 DEF Serve, Held, NothingInFlight
  <2>10. Fresh'
    <3>1. pc' = pc /\ socket' = socket /\ (s = socket \/ r.id # 0)
      BY <1>37 DEF Serve, transport, r
    <3>2. Fresh /\ Len(cas') = Len(cas)
      BY <1>0, <2>6 DEF Held
    <3>3. ASSUME NEW t \in 1..Len(cas), IsFresh(t)
          PROVE  IsFresh(t)'
      <4>1. t # s
        BY <2>0, <3>3 DEF IsFresh
      <4>2. cas'[t] = cas[t]
        BY <2>6, <4>1
      <4> QED
        BY <3>3, <4>2 DEF IsFresh
    <3>4. pc = "port" => Len(cas) \in 1..Len(cas)
      BY <2>0
    <3>5. pc \in {"tls", "open"} => socket \in 1..Len(cas)
      BY <1>0, <2>0 DEF Typed, Control
    <3>6. pc = "port" => IsFresh(Len(cas))'
      BY <3>1, <3>2, <3>3, <3>4 DEF Fresh
    <3>7. pc \in {"tls", "open"} => IsFresh(socket)'
      BY <3>1, <3>2, <3>3, <3>5 DEF Fresh
    <3> QED
      BY <3>1, <3>6, <3>7 DEF Fresh
  <2>11. BeliefTrue'
    <3>1. CASE s = socket
      BY <1>37, <3>1, <2>0 DEF Serve, Held, NothingInFlight, BeliefTrue, Believes
    <3>2. CASE s # socket
      BY <1>37, <1>0, <3>2, <2>6 DEF Serve, Held, BeliefTrue, Believes
    <3> QED
      BY <3>1, <3>2
  <2>12. Verified'
    BY <1>37 DEF Serve, Held, Verified, Believes, Handshaking, Running
  <2>13. Probing' /\ Requesting'
    <3>1. CASE s = socket
      <4>1. pc' = pc /\ socket' = socket /\ Running' = Running
        BY <1>37 DEF Serve, transport, callers, Running
      <4>2. pc \in {"probing", "holding"} => r.fn = "CHECK_CAS"
        BY <1>0, <3>1, <2>0 DEF Held, Probing, r
      <4>3. Probing'
        BY <2>2, <2>3, <2>4, <2>7, <3>1, <4>1, <4>2 DEF Probing
      <4>4. Requesting'
        BY <2>3, <2>7, <3>1, <4>1 DEF Requesting
      <4> QED
        BY <4>3, <4>4
    <3>2. CASE s # socket
      BY <1>37, <1>0, <3>2, <2>6 DEF Serve, Held, Probing, Requesting, Running, Typed, Control
    <3> QED
      BY <3>1, <3>2
  <2> QED
    BY <2>8, <2>9, <2>10, <2>11, <2>12, <2>13 DEF Held
<1>38. ASSUME NEW s \in Sockets, Leave(s) PROVE Held'
  <2> DEFINE new == [cas[s] EXCEPT !.state = "left"]
  <2>1. cas' = [cas EXCEPT ![s] = new] /\ s \in 1..Len(cas)
    BY <1>38 DEF Leave, Sockets
  <2>2. /\ Len(cas') = Len(cas)
        /\ cas'[s] = new /\ \A t \in 1..Len(cas) : t # s => cas'[t] = cas[t]
    BY <1>0, <2>1, ExceptPeer
  <2>3. /\ cas'[s].requests = cas[s].requests /\ cas'[s].replies = cas[s].replies
        /\ cas'[s].inTran = cas[s].inTran /\ cas'[s].state = "left"
        /\ cas'[s].generation = cas[s].generation
    BY <1>0, <2>1, <2>2, PeerTyped
  <2>4. Peers'
    <3> SUFFICES ASSUME NEW t \in 1..Len(cas)
                 PROVE  /\ Single(t)'
                        /\ cas'[t].inTran => cas'[t].state # "left"
                        /\ cas'[t].replies # <<>> => Head(cas'[t].replies).outTran = ~cas'[t].inTran
      BY <2>2 DEF Peers, Sockets
    <3>1. CASE t = s
      BY <1>38, <3>1, <2>1, <2>3 DEF Leave, Held, Peers, Sockets, Single
    <3>2. CASE t # s
      BY <3>2, <2>2 DEF Held, Peers, Sockets, Single
    <3> QED
      BY <3>1, <3>2
  <2>5. NothingInFlight' /\ BeliefTrue' /\ Verified' /\ Probing'
    BY <1>38, <1>0, <2>1, <2>3 DEF Leave, Held, NothingInFlight, BeliefTrue, Believes, Verified,
          Handshaking, Probing, Running
  <2>6. Fresh'
    <3>1. s = socket /\ cas[s].generation # 0 /\ UNCHANGED <<socket, pc>>
      BY <1>38 DEF Leave
    <3>2. pc = "port" => Len(cas) # s /\ Len(cas) \in 1..Len(cas)
      BY <1>0, <3>1 DEF Held, Fresh, IsFresh, Typed, Control
    <3> QED
      BY <2>2, <3>1, <3>2 DEF Held, Fresh, IsFresh
  <2>7. Requesting'
    BY <1>38, <1>0, <2>1, <2>3 DEF Leave, Held, Requesting, Running
  <2> QED
    BY <2>4, <2>5, <2>6, <2>7 DEF Held
<1>39. ASSUME NEW s \in Sockets, Crash(s) PROVE Held'
  <2>0. PICK kept \in {cas[s].replies, <<>>} :
          cas' = [cas EXCEPT ![s].state = "crashed", ![s].replies = kept]
    BY <1>39 DEF Crash
  <2> DEFINE new == [cas[s] EXCEPT !.state = "crashed", !.replies = kept]
  <2>1. cas' = [cas EXCEPT ![s] = new] /\ s \in 1..Len(cas)
    BY <2>0 DEF Crash, Sockets
  <2>2. /\ Len(cas') = Len(cas)
        /\ cas'[s] = new /\ \A t \in 1..Len(cas) : t # s => cas'[t] = cas[t]
    BY <1>0, <2>1, ExceptPeer
  <2>3. /\ cas'[s].requests = cas[s].requests /\ cas'[s].replies = kept
        /\ cas'[s].inTran = cas[s].inTran /\ cas'[s].state = "crashed"
        /\ cas'[s].generation = cas[s].generation
    BY <1>0, <2>1, <2>2, PeerTyped
  <2>4. Peers'
    <3> SUFFICES ASSUME NEW t \in 1..Len(cas)
                 PROVE  /\ Single(t)'
                        /\ cas'[t].inTran => cas'[t].state # "left"
                        /\ cas'[t].replies # <<>> => Head(cas'[t].replies).outTran = ~cas'[t].inTran
      BY <2>2 DEF Peers, Sockets
    <3>1. CASE t = s
      BY <1>39, <3>1, <2>1, <2>3 DEF Crash, Held, Peers, Sockets, Single
    <3>2. CASE t # s
      BY <3>2, <2>2 DEF Held, Peers, Sockets, Single
    <3> QED
      BY <3>1, <3>2
  <2>5. NothingInFlight' /\ BeliefTrue' /\ Verified' /\ Probing'
    BY <1>39, <1>0, <2>1, <2>3 DEF Crash, Held, NothingInFlight, BeliefTrue, Believes, Verified,
          Handshaking, Probing, Running
  <2>6. Fresh'
    <3>1. s = socket /\ cas[s].generation # 0 /\ UNCHANGED <<socket, pc>>
      BY <1>39 DEF Crash
    <3>2. pc = "port" => Len(cas) # s /\ Len(cas) \in 1..Len(cas)
      BY <1>0, <3>1 DEF Held, Fresh, IsFresh, Typed, Control
    <3> QED
      BY <2>2, <3>1, <3>2 DEF Held, Fresh, IsFresh
  <2>7. Requesting'
    BY <1>39, <1>0, <2>1, <2>3 DEF Crash, Held, Requesting, Running
  <2> QED
    BY <2>4, <2>5, <2>6, <2>7 DEF Held
<1>40. CASE UNCHANGED vars
  BY <1>40 DEF vars, Held, Peers, Sockets, Single, NothingInFlight, Fresh, IsFresh, Probing,
     Requesting, BeliefTrue, Believes, Verified, Handshaking, Running
<1> QED
  BY <1>1, <1>2, <1>3, <1>4, <1>5, <1>6, <1>7, <1>8, <1>9, <1>10, <1>11, <1>12, <1>13,
     <1>14, <1>15, <1>16, <1>17, <1>18, <1>19, <1>20, <1>21, <1>22, <1>23, <1>24, <1>25,
     <1>26, <1>27, <1>28, <1>29, <1>30, <1>31, <1>32, <1>33, <1>34, <1>35, <1>36, <1>37,
     <1>38, <1>39, <1>40
  DEF Next, Step, Client, Verify, Connect, Apply, Exchange, Close

(* While a request of sendAndRecv() is unanswered its CAS has not turned to   *)
(* another client, however many sessions came and went before.                *)
THEOREM HeldWhileUnanswered == Spec => []HeldForRequest
<1>1. Typed /\ Held => HeldForRequest
  <2> SUFFICES ASSUME Typed, Held, pc = "exchange", Running.call = "sendAndRecv",
                      cas[socket].replies = <<>>
               PROVE  cas[socket].state # "left"
    BY DEF HeldForRequest
  <2>1. socket \in Sockets
    BY LenProperties DEF Typed, TypeOK, PeersTyped, Control, AwaitsReply, Sockets
  <2> QED
    BY <2>1 DEF Held, Peers, Requesting
<1>2. Spec => [](Typed /\ Held)
  BY TypedInit, TypedStep, HeldInit, HeldStep, PTL DEF Spec
<1> QED
  BY <1>1, <1>2, PTL

(* Between two requests of a usable session nothing is on its way in either   *)
(* direction, so the next reply read is the one that belongs to it.           *)
THEOREM ReplyStreamAligned == Spec => []NothingInFlight
<1>1. Held => NothingInFlight
  BY DEF Held
<1>2. Spec => [](Typed /\ Held)
  BY TypedInit, TypedStep, HeldInit, HeldStep, PTL DEF Spec
<1> QED
  BY <1>1, <1>2, PTL

-----------------------------------------------------------------------------
(* What a request or a reply leaves as it was.                              *)

LEMMA PutKeeps ==
  ASSUME Typed, CanSend, NEW r, Put(r)
  PROVE  /\ socket \in 1..Len(cas) /\ Len(cas') = Len(cas)
         /\ \A t \in 1..Len(cas) : t # socket => cas'[t] = cas[t]
         /\ cas'[socket].state = cas[socket].state
         /\ cas'[socket].generation = cas[socket].generation
         /\ cas'[socket].settings = cas[socket].settings
         /\ cas'[socket].replies = cas[socket].replies
         /\ cas'[socket].requests = Append(cas[socket].requests, r)
<1> DEFINE new == [cas[socket] EXCEPT !.requests = Append(@, r)]
<1>1. cas \in Seq(CAS) /\ Len(cas) \in Nat /\ socket \in 1..Len(cas)
  BY LenProperties DEF Typed, TypeOK, PeersTyped, CanSend
<1>2. cas' = [cas EXCEPT ![socket] = new]
  BY DEF Put
<1>3. /\ Len(cas') = Len(cas) /\ cas'[socket] = new
      /\ \A t \in 1..Len(cas) : t # socket => cas'[t] = cas[t]
  BY <1>1, <1>2, ExceptPeer
<1> QED
  BY <1>1, <1>3, PeerTyped

LEMMA TakeReplyKeeps ==
  ASSUME Typed, connected, TakeReply
  PROVE  /\ socket \in 1..Len(cas) /\ Len(cas') = Len(cas)
         /\ \A t \in 1..Len(cas) : t # socket => cas'[t] = cas[t]
         /\ cas'[socket].state = cas[socket].state
         /\ cas'[socket].generation = cas[socket].generation
         /\ cas'[socket].settings = cas[socket].settings
         /\ cas'[socket].requests = cas[socket].requests
         /\ cas'[socket].replies = Tail(cas[socket].replies)
<1> DEFINE new == [cas[socket] EXCEPT !.replies = Tail(@)]
<1>1. cas \in Seq(CAS) /\ Len(cas) \in Nat /\ socket \in 1..Len(cas)
  BY LenProperties DEF Typed, TypeOK, PeersTyped, Control
<1>2. cas' = [cas EXCEPT ![socket] = new]
  BY DEF TakeReply
<1>3. /\ Len(cas') = Len(cas) /\ cas'[socket] = new
      /\ \A t \in 1..Len(cas) : t # socket => cas'[t] = cas[t]
  BY <1>1, <1>2, ExceptPeer
<1> QED
  BY <1>1, <1>3, PeerTyped

LEMMA NewSocketKeeps ==
  ASSUME Typed, cas' = Append(cas, NewSocket)
  PROVE  /\ Len(cas) \in Nat /\ Len(cas') = Len(cas) + 1
         /\ \A t \in 1..Len(cas) : cas'[t] = cas[t]
         /\ cas'[Len(cas) + 1] = NewSocket
  BY NewSocketTyped, AppendProperties, LenProperties DEF Typed, TypeOK, PeersTyped

LEMMA OpenedKeeps ==
  ASSUME Typed, DatabaseOpened
  PROVE  /\ socket \in 1..Len(cas) /\ Len(cas') = Len(cas)
         /\ \A t \in 1..Len(cas) : t # socket => cas'[t] = cas[t]
         /\ cas'[socket].state = cas[socket].state
         /\ cas'[socket].generation = generation + 1
         /\ cas'[socket].settings = cas[socket].settings
         /\ cas'[socket].requests = cas[socket].requests
         /\ cas'[socket].replies = cas[socket].replies
<1> DEFINE new == [cas[socket] EXCEPT !.generation = generation + 1]
<1>1. cas \in Seq(CAS) /\ Len(cas) \in Nat /\ socket \in 1..Len(cas)
  BY LenProperties DEF Typed, TypeOK, PeersTyped, Control, DatabaseOpened
<1>2. cas' = [cas EXCEPT ![socket] = new]
  BY DEF DatabaseOpened
<1>3. /\ Len(cas') = Len(cas) /\ cas'[socket] = new
      /\ \A t \in 1..Len(cas) : t # socket => cas'[t] = cas[t]
  BY <1>1, <1>2, ExceptPeer
<1> QED
  BY <1>1, <1>3, PeerTyped

LEMMA ServeKeeps ==
  ASSUME Typed, NEW s \in Sockets, Serve(s)
  PROVE  /\ Len(cas') = Len(cas)
         /\ \A t \in 1..Len(cas) : t # s => cas'[t] = cas[t]
         /\ cas'[s].state = cas[s].state
         /\ cas'[s].generation = cas[s].generation
         /\ cas'[s].requests = Tail(cas[s].requests)
         /\ \E reply \in Reply :
              /\ reply.id = Head(cas[s].requests).id
              /\ cas'[s].replies = Append(cas[s].replies, reply)
              /\ cas'[s].settings =
                   IF reply.form = "error" THEN cas[s].settings
                   ELSE Applied(cas[s].settings, Head(cas[s].requests).set)
<1> DEFINE r == Head(cas[s].requests)
<1>1. /\ cas \in Seq(CAS) /\ s \in 1..Len(cas) /\ r \in Request
  BY PeerTyped, HeadTailProperties DEF Typed, TypeOK, PeersTyped, Sockets, Serve
<1>2. PICK outTran \in StatusAfter(r.fn), form \in Forms(r.fn) :
        cas' = [cas EXCEPT ![s].inTran = ~outTran,
                           ![s].settings = IF form = "error" THEN @ ELSE Applied(@, r.set),
                           ![s].requests = Tail(@),
                           ![s].replies = Append(@, [id |-> r.id, outTran |-> outTran,
                                                     form |-> form])]
  BY DEF Serve
<1> DEFINE reply == [id |-> r.id, outTran |-> outTran, form |-> form]
           settings == IF reply.form = "error" THEN cas[s].settings
                       ELSE Applied(cas[s].settings, r.set)
           new == [cas[s] EXCEPT !.inTran = ~outTran, !.settings = settings,
                                 !.requests = Tail(@), !.replies = Append(@, reply)]
<1>3. reply \in Reply /\ reply.id = r.id /\ reply.form = form
  BY <1>1, <1>2 DEF Reply, Request, StatusAfter, Forms
<1> HIDE DEF r, settings
<1>4. cas' = [cas EXCEPT ![s] = new]
  BY <1>2, <1>3 DEF settings
<1> HIDE DEF reply
<1>5. /\ Len(cas') = Len(cas) /\ cas'[s] = new
      /\ \A t \in 1..Len(cas) : t # s => cas'[t] = cas[t]
  BY <1>1, <1>4, ExceptPeer
<1>6. /\ new.state = cas[s].state /\ new.generation = cas[s].generation
      /\ new.requests = Tail(cas[s].requests) /\ new.settings = settings
      /\ new.replies = Append(cas[s].replies, reply)
  BY <1>1, PeerTyped
<1> QED
  BY <1>3, <1>5, <1>6 DEF settings, r

LEMMA LeaveOrCrashKeeps ==
  ASSUME Typed, NEW s \in Sockets, Leave(s) \/ Crash(s)
  PROVE  /\ s = socket /\ Len(cas') = Len(cas)
         /\ \A t \in 1..Len(cas) : t # s => cas'[t] = cas[t]
         /\ cas'[s].state # "up"
         /\ cas'[s].generation = cas[s].generation
         /\ cas'[s].settings = cas[s].settings
         /\ cas'[s].requests = cas[s].requests
         /\ cas'[s].replies \in {cas[s].replies, <<>>}
<1>1. cas \in Seq(CAS) /\ s \in 1..Len(cas) /\ s = socket
  BY DEF Typed, TypeOK, PeersTyped, Sockets, Leave, Crash
<1>2. PICK state \in {"left", "crashed"}, kept \in {cas[s].replies, <<>>} :
        cas' = [cas EXCEPT ![s] = [cas[s] EXCEPT !.state = state, !.replies = kept]]
  <2>1. CASE Leave(s)
    <3>1. [cas[s] EXCEPT !.state = "left"]
            = [cas[s] EXCEPT !.state = "left", !.replies = cas[s].replies]
      BY <1>1, PeerTyped
    <3>2. cas' = [cas EXCEPT ![s] = [cas[s] EXCEPT !.state = "left"]]
      BY <2>1 DEF Leave
    <3> QED
      BY <3>1, <3>2
  <2>2. CASE Crash(s)
    <3>1. PICK kept \in {cas[s].replies, <<>>} :
            cas' = [cas EXCEPT ![s].state = "crashed", ![s].replies = kept]
      BY <2>2 DEF Crash
    <3>2. cas' = [cas EXCEPT ![s] = [cas[s] EXCEPT !.state = "crashed", !.replies = kept]]
      BY <3>1
    <3> QED
      BY <3>2
  <2> QED
    BY <2>1, <2>2
<1> DEFINE new == [cas[s] EXCEPT !.state = state, !.replies = kept]
<1>3. /\ Len(cas') = Len(cas) /\ cas'[s] = new
      /\ \A t \in 1..Len(cas) : t # s => cas'[t] = cas[t]
  BY <1>1, <1>2, ExceptPeer
<1> QED
  BY <1>1, <1>3, PeerTyped

-----------------------------------------------------------------------------
(* The socket in use is that of the session, and is known to be dead only if *)
(* its peer is gone; the client waits where it does for a reason.            *)

Own ==
  /\ connected => cas[socket].generation = generation
  /\ pc = "exchange" /\ Running.call \in OnSession => generation = Running.generation

Retired ==
  /\ ~connected /\ pc \notin {"tls", "open"} => socket = 0
  /\ pc \in {"broker", "port", "redirect"} => ~socketDead
  /\ socket # 0 /\ socketDead => cas[socket].state # "up"

Awaited ==
  /\ pc = "probing" => outOfTransaction
  /\ pc = "closing" => Running.call = "close"
  /\ pc = "exchange" => Running.call \in Exchanging

Sound == Own /\ Retired /\ Awaited

LEMMA SoundInit == Init => Sound
  BY DEF Init, Sound, Own, Retired, Awaited

LEMMA SoundStep == Typed /\ Held /\ Sound /\ [Next]_vars => Sound'
<1> SUFFICES ASSUME Typed, Held, Sound, [Next]_vars PROVE Sound'
  OBVIOUS
<1> USE DEF transport, status, counters, locals, callers, history, AwaitsReply, Sound, Own,
            Retired, Awaited
<1>0. /\ Len(cas) \in Nat /\ socket \in 0..Len(cas)
      /\ connected => socket \in 1..Len(cas)
      /\ pc \in {"tls", "open"} => socket \in 1..Len(cas)
      /\ pc \in Handshaking => ~connected
      /\ pc \in AwaitsReply => connected
  BY LenProperties DEF Typed, TypeOK, PeersTyped, Control, Held, Verified
<1>1. CASE Enqueue
  <2>1. pc # "idle" => Head(queue') = Head(queue)
    BY <1>1, HeadTailAppend DEF Enqueue, Typed, TypeOK, CallersTyped, Control
  <2> QED
    BY <1>0, <1>1, <2>1 DEF Enqueue, Running
<1>2. CASE Begin
  BY <1>0, <1>2 DEF Begin, Running
<1>3. CASE VerifySkips
  BY <1>0, <1>3 DEF VerifySkips, NeedsProbe, Running
<1>4. CASE VerifyProbes
  BY <1>0, <1>4, PutKeeps DEF VerifyProbes, NeedsProbe, CanSend, Running
<1>5. CASE ProbeAnswered
  BY <1>0, <1>5, TakeReplyKeeps DEF ProbeAnswered, Running
<1>6. CASE ProbeFails
  BY <1>0, <1>6 DEF ProbeFails, NeedsProbe, RetireSocket, Running
<1>7. CASE AlreadyConnected
  BY <1>0, <1>7 DEF AlreadyConnected, Settle
<1>8. CASE Connects
  BY <1>0, <1>8 DEF Connects, Running
<1>9. CASE HandshakeBegins
  BY <1>0, <1>9 DEF HandshakeBegins, Running, Handshaking
<1>10. CASE BrokerUnreachable
  BY <1>0, <1>10 DEF BrokerUnreachable, RetryOrFail, Settle, Running, Handshaking
<1>11. CASE BackoffElapses
  BY <1>0, <1>11 DEF BackoffElapses, Running, Handshaking
<1>12. CASE BrokerAccepts
  BY <1>0, <1>12, NewSocketKeeps DEF BrokerAccepts, Running, Handshaking, NewSocket
<1>13. CASE BrokerHandsOver
  BY <1>0, <1>13 DEF BrokerHandsOver, AfterRedirect, Running, Handshaking
<1>14. CASE BrokerRedirects
  BY <1>0, <1>14 DEF BrokerRedirects, Running, Handshaking
<1>15. CASE RedirectAccepted
  BY <1>0, <1>15, NewSocketKeeps DEF RedirectAccepted, AfterRedirect, Running, Handshaking,
     NewSocket
<1>16. CASE RedirectUnreachable
  BY <1>0, <1>16 DEF RedirectUnreachable, AbandonHandshake, RetireSocket, RetryOrFail,
     Settle, Running, Handshaking
<1>17. CASE TlsUpgraded
  BY <1>0, <1>17 DEF TlsUpgraded, Running, Handshaking
<1>18. CASE HandshakeFails
  BY <1>0, <1>18 DEF HandshakeFails, AbandonHandshake, RetireSocket, Settle, Handshaking
<1>19. CASE DatabaseOpened
  BY <1>0, <1>19, OpenedKeeps DEF DatabaseOpened, Running, Handshaking
<1>20. CASE NothingToApply
  BY <1>0, <1>20 DEF NothingToApply, SettingsHold, Settle, Running
<1>21. CASE SendParameter
  BY <1>0, <1>21, PutKeeps DEF SendParameter, CanSend, Running
<1>22. CASE ParameterAnswered
  BY <1>0, <1>22, TakeReplyKeeps DEF ParameterAnswered, Running
<1>23. CASE SendHold
  BY <1>0, <1>23, PutKeeps DEF SendHold, CanSend, Running
<1>24. CASE HoldAnswered
  BY <1>0, <1>24, TakeReplyKeeps DEF HoldAnswered, SettingsHold, Settle, Running
<1>25. CASE ApplyFails
  BY <1>0, <1>25 DEF ApplyFails, RetireSocket, Settle
<1>26. CASE ParametersInherited
  BY <1>0, <1>26 DEF ParametersInherited, Settle
<1>27. CASE ApplyToOpenSession
  BY <1>0, <1>27 DEF ApplyToOpenSession, Running
<1>28. CASE AbsentSession
  BY <1>0, <1>28 DEF AbsentSession, Settle
<1>29. CASE SendRequest
  BY <1>0, <1>29, PutKeeps DEF SendRequest, MayExchange, OwnSession, CanSend, Running
<1>30. CASE ExchangeAnswered
  BY <1>0, <1>30, TakeReplyKeeps DEF ExchangeAnswered, Settle
<1>31. CASE ExchangeFails
  BY <1>0, <1>31 DEF ExchangeFails, MayExchange, RetireSocket, Settle
<1>32. CASE DiscardSession
  BY <1>0, <1>32 DEF DiscardSession, RetireSocket, Settle
<1>33. CASE CloseFindsNoSocket
  BY <1>0, <1>33 DEF CloseFindsNoSocket, Settle
<1>34. CASE CloseSendsFrame
  BY <1>0, <1>34, PutKeeps DEF CloseSendsFrame, CanSend, Running
<1>35. CASE CloseTearsDown
  BY <1>0, <1>35 DEF CloseTearsDown, RetireSocket, Settle
<1>36. ASSUME NEW s \in Sockets, MarkDead(s) PROVE Sound'
  <2>1. /\ socketDead' => socketDead \/ socket = s
        /\ socket = s => socket # 0 /\ cas[socket].state # "up"
    <3>1. socketDead' => socketDead \/ socket = s
      BY <1>36 DEF MarkDead
    <3>2. socket = s => socket # 0 /\ cas[socket].state # "up"
      BY <1>0, <1>36 DEF MarkDead, Gone, Sockets
    <3> QED
      BY <3>1, <3>2
  <2>2. UNCHANGED <<socket, connected, generation, outOfTransaction, queue, pc, cas>>
    BY <1>36 DEF MarkDead
  <2> QED
    BY <1>0, <2>1, <2>2 DEF Handshaking, Running
<1>37. ASSUME NEW s \in Sockets, Serve(s) PROVE Sound'
  <2>1. /\ s \in 1..Len(cas) /\ Len(cas') = Len(cas)
        /\ \A t \in 1..Len(cas) : t # s => cas'[t] = cas[t]
        /\ cas'[s].state = cas[s].state /\ cas'[s].generation = cas[s].generation
    BY <1>37, ServeKeeps DEF Sockets
  <2> QED
    BY <1>0, <1>37, <2>1 DEF Serve, Running
<1>38. ASSUME NEW s \in Sockets, Leave(s) PROVE Sound'
  BY <1>0, <1>38, LeaveOrCrashKeeps DEF Leave, Running
<1>39. ASSUME NEW s \in Sockets, Crash(s) PROVE Sound'
  BY <1>0, <1>39, LeaveOrCrashKeeps DEF Crash, Running
<1>40. CASE UNCHANGED vars
  BY <1>40 DEF vars, Running
<1> QED
  BY <1>1, <1>2, <1>3, <1>4, <1>5, <1>6, <1>7, <1>8, <1>9, <1>10, <1>11, <1>12, <1>13,
     <1>14, <1>15, <1>16, <1>17, <1>18, <1>19, <1>20, <1>21, <1>22, <1>23, <1>24, <1>25,
     <1>26, <1>27, <1>28, <1>29, <1>30, <1>31, <1>32, <1>33, <1>34, <1>35, <1>36, <1>37,
     <1>38, <1>39, <1>40
  DEF Next, Step, Client, Verify, Connect, Apply, Exchange, Close

(* A request bound to a session is only ever written to the socket of that    *)
(* session, however many sessions were opened and lost since its caller read   *)
(* the generation.                                                             *)
THEOREM WrittenToOwnSession == Spec => []OnOwnSession
<1>1. Typed /\ Sound => OnOwnSession
  BY DEF Typed, Control, AwaitsReply, Sound, Own, OnOwnSession
<1>2. Spec => [](Typed /\ Held /\ Sound)
  BY TypedInit, TypedStep, HeldInit, HeldStep, SoundInit, SoundStep, PTL DEF Spec
<1> QED
  BY <1>1, <1>2, PTL

(* No event of an earlier socket condemns the session: it is called dead only *)
(* when its own peer has gone.                                                *)
THEOREM DeadOnlyIfGone == Spec => []OnlyDeadIfGone
<1>1. Typed /\ Sound => OnlyDeadIfGone
  BY DEF Typed, Control, Sound, Retired, OnlyDeadIfGone
<1>2. Spec => [](Typed /\ Held /\ Sound)
  BY TypedInit, TypedStep, HeldInit, HeldStep, SoundInit, SoundStep, PTL DEF Spec
<1> QED
  BY <1>1, <1>2, PTL

-----------------------------------------------------------------------------
(* The settings a session holds: all of those in force, or all those already  *)
(* answered while they are being applied.                                     *)

Applying == {"apply", "setting", "holding"}

\* The session holds the parameters of the list before the i-th one.
HoldsBelow(i) ==
  \A j \in 1..Len(sessionParameters) :
    j < i => cas[socket].settings[sessionParameters[j].parameter] = sessionParameters[j].value

InForce ==
  connected /\ pc \notin Applying /\ ~(Changing /\ generation = startGeneration)
  => Holds(cas[socket].settings, sessionParameters)

SetSoFar == pc \in Applying => HoldsBelow(index)

AwaitsSetting ==
  pc = "setting" =>
    /\ index \in 1..Len(sessionParameters)
    /\ cas[socket].requests # <<>> =>
         Head(cas[socket].requests).set = <<sessionParameters[index]>>
    /\ cas[socket].replies # <<>> /\ Head(cas[socket].replies).form = "ok" =>
         HoldsBelow(index + 1)

NothingElseSet ==
  /\ pc = "holding" => index > Len(sessionParameters)
  /\ connected /\ pc # "setting" /\ cas[socket].requests # <<>> =>
       Head(cas[socket].requests).set = <<>>
  /\ pc \in Applying /\ ~settingUp => Running.call = "setSessionParameters"

Configured == InForce /\ SetSoFar /\ AwaitsSetting /\ NothingElseSet

\* What the CAS makes of one parameter, and of none.
LEMMA AppliedOne ==
  ASSUME NEW settings \in [Parameters -> Values \cup {Default}], NEW p \in SessionParameter
  PROVE  /\ Applied(settings, <<>>) = settings
         /\ Applied(settings, <<p>>)[p.parameter] = p.value
         /\ \A q \in Parameters : q # p.parameter => Applied(settings, <<p>>)[q] = settings[q]
<1>1. <<p>> # <<>> /\ <<p>>[1] = p
  OBVIOUS
<1>2. Applied(settings, <<p>>) = [settings EXCEPT ![p.parameter] = p.value]
  BY <1>1 DEF Applied
<1> QED
  BY <1>2 DEF Applied, SessionParameter

LEMMA ConfiguredInit == Init => Configured
  BY DEF Init, Configured, InForce, SetSoFar, AwaitsSetting, NothingElseSet, Applying

LEMMA ConfiguredStep ==
  Typed /\ Held /\ Sound /\ Configured /\ [Next]_vars => Configured'
<1> SUFFICES ASSUME Typed, Held, Sound, Configured, [Next]_vars PROVE Configured'
  OBVIOUS
<1> USE DEF transport, status, counters, locals, callers, history, AwaitsReply, Configured,
            InForce, SetSoFar, AwaitsSetting, NothingElseSet, Applying
<1>0. /\ cas \in Seq(CAS) /\ Len(cas) \in Nat /\ socket \in 0..Len(cas)
      /\ connected => socket \in 1..Len(cas)
      /\ pc \in Handshaking => ~connected
      /\ pc \in AwaitsReply \cup {"apply"} => connected
      /\ settingUp => pc \in Applying
      /\ index \in Nat \ {0} /\ Len(sessionParameters) \in Nat
      /\ sessionParameters \in ParameterLists /\ sessionParameters \in Seq(SessionParameter)
  <2>1. sessionParameters \in ParameterLists /\ sessionParameters \in Seq(SessionParameter)
    BY ParametersAssumption DEF Typed, TypeOK, SessionTyped
  <2> QED
    BY <2>1, LenProperties DEF Typed, TypeOK, PeersTyped, SessionTyped, NumbersTyped, Control,
       Held, Verified
<1>1. CASE Enqueue
  <2>1. pc # "idle" => Head(queue') = Head(queue)
    BY <1>1, HeadTailAppend DEF Enqueue, Typed, TypeOK, CallersTyped, Control
  <2> QED
    BY <1>0, <1>1, <2>1 DEF Enqueue, Changing, Running, HoldsBelow, Holds
<1>2. CASE Begin
  BY <1>0, <1>2 DEF Begin, Changing, Running, HoldsBelow, Holds
<1>3. CASE VerifySkips
  BY <1>0, <1>3 DEF VerifySkips, NeedsProbe, Changing, Running, HoldsBelow, Holds
<1>4. CASE VerifyProbes
  <2> DEFINE r == [fn |-> "CHECK_CAS", id |-> 0, set |-> <<>>]
  <2>1. /\ socket \in 1..Len(cas) /\ Len(cas') = Len(cas)
        /\ cas'[socket].settings = cas[socket].settings
        /\ cas'[socket].replies = <<>> /\ Head(cas'[socket].requests) = r
    <3>1. cas[socket].requests = <<>> /\ cas[socket].replies = <<>>
      BY <1>0, <1>4 DEF VerifyProbes, CanSend, Held, NothingInFlight
    <3>2. Append(<<>>, r) = <<r>> /\ Head(<<r>>) = r
      OBVIOUS
    <3> HIDE DEF r
    <3>3. Put(r) /\ CanSend
      BY <1>4 DEF VerifyProbes, r
    <3> QED
      BY <3>1, <3>2, <3>3, PutKeeps
  <2> QED
    BY <1>0, <1>4, <2>1 DEF VerifyProbes, NeedsProbe, CanSend, Changing, Running,
       HoldsBelow, Holds
<1>5. CASE ProbeAnswered
  <2>1. /\ socket \in 1..Len(cas) /\ Len(cas') = Len(cas)
        /\ cas'[socket].settings = cas[socket].settings
        /\ cas'[socket].requests = <<>> /\ cas'[socket].replies = <<>>
    BY <1>0, <1>5, TakeReplyKeeps, TakeReplyAlone DEF ProbeAnswered
  <2> QED
    BY <1>0, <1>5, <2>1 DEF ProbeAnswered, Changing, Running, HoldsBelow, Holds
<1>6. CASE ProbeFails
  BY <1>0, <1>6 DEF ProbeFails, NeedsProbe, RetireSocket, Changing, Running, HoldsBelow,
     Holds
<1>7. CASE AlreadyConnected
  BY <1>0, <1>7 DEF AlreadyConnected, Settle, Changing, Running, HoldsBelow, Holds
<1>8. CASE Connects
  BY <1>0, <1>8 DEF Connects, Changing, Running, HoldsBelow, Holds, Handshaking
<1>9. CASE HandshakeBegins
  BY <1>0, <1>9 DEF HandshakeBegins, Changing, Running, HoldsBelow, Holds, Handshaking
<1>10. CASE BrokerUnreachable
  BY <1>0, <1>10 DEF BrokerUnreachable, RetryOrFail, Settle, Changing, Running, HoldsBelow,
     Holds, Handshaking
<1>11. CASE BackoffElapses
  BY <1>0, <1>11 DEF BackoffElapses, Changing, Running, HoldsBelow, Holds, Handshaking
<1>12. CASE BrokerAccepts
  BY <1>0, <1>12, NewSocketKeeps DEF BrokerAccepts, Changing, Running, HoldsBelow, Holds,
     Handshaking, NewSocket
<1>13. CASE BrokerHandsOver
  BY <1>0, <1>13 DEF BrokerHandsOver, AfterRedirect, Changing, Running, HoldsBelow, Holds,
     Handshaking
<1>14. CASE BrokerRedirects
  BY <1>0, <1>14 DEF BrokerRedirects, Changing, Running, HoldsBelow, Holds, Handshaking
<1>15. CASE RedirectAccepted
  BY <1>0, <1>15, NewSocketKeeps DEF RedirectAccepted, AfterRedirect, Changing, Running,
     HoldsBelow, Holds, Handshaking, NewSocket
<1>16. CASE RedirectUnreachable
  BY <1>0, <1>16 DEF RedirectUnreachable, AbandonHandshake, RetireSocket, RetryOrFail,
     Settle, Changing, Running, HoldsBelow, Holds, Handshaking
<1>17. CASE TlsUpgraded
  BY <1>0, <1>17 DEF TlsUpgraded, Changing, Running, HoldsBelow, Holds, Handshaking
<1>18. CASE HandshakeFails
  BY <1>0, <1>18 DEF HandshakeFails, AbandonHandshake, RetireSocket, Settle, Changing,
     Running, HoldsBelow, Holds, Handshaking
<1>19. CASE DatabaseOpened
  BY <1>0, <1>19, OpenedKeeps DEF DatabaseOpened, Changing, Running, HoldsBelow, Holds,
     Handshaking, Held, Fresh, IsFresh
<1>20. CASE NothingToApply
  BY <1>0, <1>20 DEF NothingToApply, SettingsHold, Settle, Changing, Running, HoldsBelow,
     Holds
<1>21. CASE SendParameter
  <2> DEFINE r == [fn |-> "SET_DB_PARAMETER", id |-> 0, set |-> <<sessionParameters[index]>>]
  <2>1. /\ socket \in 1..Len(cas) /\ Len(cas') = Len(cas)
        /\ cas'[socket].settings = cas[socket].settings
        /\ cas'[socket].replies = <<>> /\ Head(cas'[socket].requests) = r
    <3>1. cas[socket].requests = <<>> /\ cas[socket].replies = <<>>
      BY <1>0, <1>21 DEF SendParameter, CanSend, Held, NothingInFlight
    <3>2. Append(<<>>, r) = <<r>> /\ Head(<<r>>) = r
      OBVIOUS
    <3> HIDE DEF r
    <3>3. Put(r) /\ CanSend
      BY <1>21 DEF SendParameter, r
    <3> QED
      BY <3>1, <3>2, <3>3, PutKeeps
  <2> QED
    BY <1>0, <1>21, <2>1 DEF SendParameter, CanSend, Changing, Running, HoldsBelow, Holds
<1>22. CASE ParameterAnswered
  <2>1. /\ socket \in 1..Len(cas) /\ Len(cas') = Len(cas)
        /\ cas'[socket].settings = cas[socket].settings
        /\ cas'[socket].requests = <<>> /\ cas'[socket].replies = <<>>
    BY <1>0, <1>22, TakeReplyKeeps, TakeReplyAlone DEF ParameterAnswered
  <2> QED
    BY <1>0, <1>22, <2>1 DEF ParameterAnswered, Changing, Running, HoldsBelow, Holds,
       Readable, Answer
<1>23. CASE SendHold
  <2> DEFINE r == [fn |-> "CHECK_CAS", id |-> 0, set |-> <<>>]
  <2>1. /\ socket \in 1..Len(cas) /\ Len(cas') = Len(cas)
        /\ cas'[socket].settings = cas[socket].settings
        /\ cas'[socket].replies = <<>> /\ Head(cas'[socket].requests) = r
    <3>1. cas[socket].requests = <<>> /\ cas[socket].replies = <<>>
      BY <1>0, <1>23 DEF SendHold, CanSend, Held, NothingInFlight
    <3>2. Append(<<>>, r) = <<r>> /\ Head(<<r>>) = r
      OBVIOUS
    <3> HIDE DEF r
    <3>3. Put(r) /\ CanSend
      BY <1>23 DEF SendHold, r
    <3> QED
      BY <3>1, <3>2, <3>3, PutKeeps
  <2> QED
    BY <1>0, <1>23, <2>1 DEF SendHold, CanSend, Changing, Running, HoldsBelow, Holds
<1>24. CASE HoldAnswered
  <2>1. /\ socket \in 1..Len(cas) /\ Len(cas') = Len(cas)
        /\ cas'[socket].settings = cas[socket].settings
        /\ cas'[socket].requests = <<>> /\ cas'[socket].replies = <<>>
    BY <1>0, <1>24, TakeReplyKeeps, TakeReplyAlone DEF HoldAnswered
  <2> QED
    BY <1>0, <1>24, <2>1 DEF HoldAnswered, SettingsHold, Settle, Changing, Running,
       HoldsBelow, Holds
<1>25. CASE ApplyFails
  BY <1>0, <1>25 DEF ApplyFails, RetireSocket, Settle, Changing, Running, HoldsBelow, Holds
<1>26. CASE ParametersInherited
  BY <1>0, <1>26 DEF ParametersInherited, Settle, Changing, Running, HoldsBelow, Holds
<1>27. CASE ApplyToOpenSession
  BY <1>0, <1>27 DEF ApplyToOpenSession, Changing, Running, HoldsBelow, Holds
<1>28. CASE AbsentSession
  BY <1>0, <1>28 DEF AbsentSession, Settle, Exchanging, OnSession, Changing, Running,
     HoldsBelow, Holds
<1>29. CASE SendRequest
  <2> DEFINE r == [fn |-> Running.fn, id |-> Running.id, set |-> <<>>]
  <2>1. /\ socket \in 1..Len(cas) /\ Len(cas') = Len(cas)
        /\ cas'[socket].settings = cas[socket].settings
        /\ cas'[socket].replies = <<>> /\ Head(cas'[socket].requests) = r
    <3>1. cas[socket].requests = <<>> /\ cas[socket].replies = <<>>
      BY <1>0, <1>29 DEF SendRequest, CanSend, MayExchange, Held, NothingInFlight
    <3>2. Append(<<>>, r) = <<r>> /\ Head(<<r>>) = r
      OBVIOUS
    <3> HIDE DEF r
    <3>3. Put(r) /\ CanSend
      BY <1>29 DEF SendRequest, r
    <3> QED
      BY <3>1, <3>2, <3>3, PutKeeps
  <2> QED
    BY <1>0, <1>29, <2>1 DEF SendRequest, MayExchange, OwnSession, CanSend, Exchanging,
       OnSession, Changing, Running, HoldsBelow, Holds
<1>30. CASE ExchangeAnswered
  <2>1. /\ socket \in 1..Len(cas) /\ Len(cas') = Len(cas)
        /\ cas'[socket].settings = cas[socket].settings
        /\ cas'[socket].requests = <<>> /\ cas'[socket].replies = <<>>
    BY <1>0, <1>30, TakeReplyKeeps, TakeReplyAlone DEF ExchangeAnswered
  <2> QED
    BY <1>0, <1>30, <2>1 DEF ExchangeAnswered, Settle, Exchanging, OnSession, Sound,
       Awaited, Changing, Running, HoldsBelow, Holds
<1>31. CASE ExchangeFails
  BY <1>0, <1>31 DEF ExchangeFails, MayExchange, RetireSocket, Settle, Changing, Running,
     HoldsBelow, Holds
<1>32. CASE DiscardSession
  BY <1>0, <1>32 DEF DiscardSession, RetireSocket, Settle, Changing, Running, HoldsBelow,
     Holds
<1>33. CASE CloseFindsNoSocket
  BY <1>0, <1>33 DEF CloseFindsNoSocket, Settle, Changing, Running, HoldsBelow, Holds
<1>34. CASE CloseSendsFrame
  <2> DEFINE r == [fn |-> "CON_CLOSE", id |-> 0, set |-> <<>>]
  <2>1. /\ socket \in 1..Len(cas) /\ Len(cas') = Len(cas)
        /\ cas'[socket].settings = cas[socket].settings
        /\ cas'[socket].replies = <<>> /\ Head(cas'[socket].requests) = r
    <3>1. cas[socket].requests = <<>> /\ cas[socket].replies = <<>>
      BY <1>0, <1>34 DEF CloseSendsFrame, CanSend, Held, NothingInFlight
    <3>2. Append(<<>>, r) = <<r>> /\ Head(<<r>>) = r
      OBVIOUS
    <3> HIDE DEF r
    <3>3. Put(r) /\ CanSend
      BY <1>34 DEF CloseSendsFrame, r
    <3> QED
      BY <3>1, <3>2, <3>3, PutKeeps
  <2> QED
    BY <1>0, <1>34, <2>1 DEF CloseSendsFrame, CanSend, Changing, Running, HoldsBelow, Holds
<1>35. CASE CloseTearsDown
  BY <1>0, <1>35 DEF CloseTearsDown, RetireSocket, Settle, Changing, Running, HoldsBelow,
     Holds
<1>36. ASSUME NEW s \in Sockets, MarkDead(s) PROVE Configured'
  BY <1>0, <1>36 DEF MarkDead, Changing, Running, HoldsBelow
<1>37. ASSUME NEW s \in Sockets, Serve(s) PROVE Configured'
  <2>1. CASE s # socket
    <3>1. socket \in 1..Len(cas) => cas'[socket] = cas[socket]
      BY <1>37, <2>1, ServeKeeps
    <3> QED
      <4>1. UNCHANGED <<sessionParameters, socket, index, pc, queue, settingUp, connected,
                        generation, startGeneration>>
        BY <1>37 DEF Serve
      <4>2. CASE socket \in 1..Len(cas)
        <5>1. cas'[socket] = cas[socket]
          BY <3>1, <4>2
        <5> QED
          BY <1>0, <4>1, <5>1 DEF Changing, Running, HoldsBelow
      <4>3. CASE socket \notin 1..Len(cas)
        <5>1. ~connected /\ pc \notin Applying
          BY <1>0, <4>3 DEF Typed, TypeOK, PeersTyped, Control
        <5> QED
          BY <4>1, <5>1
      <4> QED
        BY <4>2, <4>3
  <2>2. CASE s = socket
    <3> DEFINE r == Head(cas[s].requests)
    <3>1. PICK reply \in Reply :
            /\ cas'[s].replies = Append(cas[s].replies, reply)
            /\ cas'[s].settings = IF reply.form = "error" THEN cas[s].settings
                                  ELSE Applied(cas[s].settings, r.set)
      BY <1>37, ServeKeeps
    <3>2. /\ s \in 1..Len(cas) /\ cas[s].requests # <<>> /\ cas[s].replies = <<>>
          /\ cas'[s].requests = <<>>
          /\ cas[s].settings \in [Parameters -> Values \cup {Default}]
      BY <1>0, <1>37, ServeKeeps, PeerTyped DEF Serve, Sockets, Held, Peers, Single
    <3>3. Head(cas'[s].replies) = reply
      BY <3>1, <3>2
    <3>4. CASE pc = "setting"
      <4> DEFINE p == sessionParameters[index]
      <4>1. /\ index \in 1..Len(sessionParameters) /\ p \in SessionParameter
            /\ r.set = <<p>>
        BY <1>0, <2>2, <3>2, <3>4, ElementOfSeq
      <4>2. HoldsBelow(index)
        BY <3>4
      <4>3. reply.form # "error" =>
              /\ cas'[s].settings[p.parameter] = p.value
              /\ \A q \in Parameters : q # p.parameter => cas'[s].settings[q] = cas[s].settings[q]
        <5> HIDE DEF p
        <5>1. /\ Applied(cas[s].settings, <<p>>)[p.parameter] = p.value
              /\ \A q \in Parameters :
                   q # p.parameter => Applied(cas[s].settings, <<p>>)[q] = cas[s].settings[q]
          BY <3>2, <4>1, AppliedOne
        <5>2. reply.form # "error" => cas'[s].settings = Applied(cas[s].settings, <<p>>)
          BY <3>1, <4>1
        <5> QED
          BY <5>1, <5>2
      <4>4. \A j \in 1..Len(sessionParameters) :
              /\ sessionParameters[j].parameter \in Parameters
              /\ j # index => sessionParameters[j].parameter # p.parameter
        <5>1. \A j \in 1..Len(sessionParameters) : sessionParameters[j] \in SessionParameter
          BY <1>0, ElementOfSeq
        <5> QED
          BY <1>0, <4>1, <5>1, ParametersAssumption DEF SessionParameter
      <4> HIDE DEF r
      <4>5. UNCHANGED <<sessionParameters, socket, index, pc, queue, settingUp, connected>>
        BY <1>37 DEF Serve
      <4>6. HoldsBelow(index)'
        BY <1>0, <2>2, <3>1, <4>2, <4>3, <4>4, <4>5 DEF HoldsBelow
      <4>7. reply.form = "ok" => HoldsBelow(index + 1)'
        <5> SUFFICES ASSUME reply.form = "ok", NEW j \in 1..Len(sessionParameters), j < index + 1
                     PROVE  cas'[s].settings[sessionParameters[j].parameter]
                              = sessionParameters[j].value
          BY <2>2, <4>5 DEF HoldsBelow
        <5>1. CASE j = index
          BY <4>3, <5>1
        <5>2. CASE j # index
          <6>1. j < index
            BY <1>0, <5>2
          <6> QED
            BY <2>2, <4>2, <4>3, <4>4, <5>2, <6>1 DEF HoldsBelow
        <5> QED
          BY <5>1, <5>2
      <4> QED
        BY <1>0, <2>2, <3>2, <3>3, <3>4, <4>1, <4>5, <4>6, <4>7 DEF Running
    <3>5. CASE pc # "setting"
      <4>1. connected => cas'[s].settings = cas[s].settings
        BY <2>2, <3>1, <3>2, <3>5 DEF Applied
      <4>2. UNCHANGED <<sessionParameters, socket, index, pc, queue, settingUp, connected,
                        generation, startGeneration>>
        BY <1>37 DEF Serve
      <4> QED
        BY <1>0, <2>2, <3>2, <3>5, <4>1, <4>2 DEF Running, Changing, HoldsBelow
    <3> QED
      BY <3>4, <3>5
  <2> QED
    BY <2>1, <2>2
<1>38. ASSUME NEW s \in Sockets, Leave(s) PROVE Configured'
  <2>1. UNCHANGED <<sessionParameters, socket, index, pc, queue, settingUp, connected,
                    generation, startGeneration>>
    BY <1>38 DEF Leave
  <2>2. /\ socket = s /\ cas'[s].settings = cas[s].settings /\ cas'[s].state # "up"
        /\ cas'[s].requests = cas[s].requests
        /\ cas'[s].replies \in {cas[s].replies, <<>>}
    BY <1>0, <1>38, LeaveOrCrashKeeps
  <2> QED BY <1>0, <2>1, <2>2 DEF Changing, Running, HoldsBelow
<1>39. ASSUME NEW s \in Sockets, Crash(s) PROVE Configured'
  <2>1. UNCHANGED <<sessionParameters, socket, index, pc, queue, settingUp, connected,
                    generation, startGeneration>>
    BY <1>39 DEF Crash
  <2>2. /\ socket = s /\ cas'[s].settings = cas[s].settings /\ cas'[s].state # "up"
        /\ cas'[s].requests = cas[s].requests
        /\ cas'[s].replies \in {cas[s].replies, <<>>}
    BY <1>0, <1>39, LeaveOrCrashKeeps
  <2> QED BY <1>0, <2>1, <2>2 DEF Changing, Running, HoldsBelow
<1>40. CASE UNCHANGED vars
  BY <1>40 DEF vars, Changing, Running, HoldsBelow
<1> QED
  BY <1>1, <1>2, <1>3, <1>4, <1>5, <1>6, <1>7, <1>8, <1>9, <1>10, <1>11, <1>12, <1>13,
     <1>14, <1>15, <1>16, <1>17, <1>18, <1>19, <1>20, <1>21, <1>22, <1>23, <1>24, <1>25,
     <1>26, <1>27, <1>28, <1>29, <1>30, <1>31, <1>32, <1>33, <1>34, <1>35, <1>36, <1>37,
     <1>38, <1>39, <1>40
  DEF Next, Step, Client, Verify, Connect, Apply, Exchange, Close

(* A session others may use holds the session parameters in force, for every  *)
(* list of parameters: whichever of them were set when it was lost, and        *)
(* however often it is replaced while they change.                             *)
THEOREM ParametersHeld == Spec => []SessionHoldsParameters
<1>1. Held /\ Configured => SessionHoldsParameters
  BY DEF Held, Configured, InForce, NothingElseSet, Applying, SessionHoldsParameters,
     IsConnected, Changing
<1>2. Spec => [](Typed /\ Held /\ Sound /\ Configured)
  BY TypedInit, TypedStep, HeldInit, HeldStep, SoundInit, SoundStep, ConfiguredInit,
     ConfiguredStep, PTL DEF Spec
<1> QED
  BY <1>1, <1>2, PTL

-----------------------------------------------------------------------------
(* The calls that wait are those in the queue, in the order of the queue; a   *)
(* call's request is written once, to one socket, when it is the running one; *)
(* and a request that a CAS has yet to run is that of the running exchange or *)
(* of a call that was told it failed.                                         *)

Settled == Len(outcome) - Len(queue)

InOrder ==
  /\ Len(queue) <= Len(outcome)
  /\ \A k \in 1..Len(queue) : queue[k].id = Settled + k
  /\ \A id \in Calls : outcome[id].status = "waiting" <=> id > Settled

InExchange(id) == pc = "exchange" /\ Running.id = id

SentOnce(id) ==
  /\ served[id] <= 1
  /\ sentOn[id] = {} => served[id] = 0
  /\ \A s, t \in sentOn[id] : s = t
  /\ outcome[id].status = "waiting" /\ ~InExchange(id) => sentOn[id] = {}
  /\ outcome[id].status = "answered" => outcome[id].reply = id /\ served[id] = 1
  /\ outcome[id].status \in {"done", "absent"} => sentOn[id] = {}

Sent == \A id \in Calls : SentOnce(id)

Exchanged ==
  pc = "exchange" =>
    /\ sentOn[Running.id] = {socket}
    /\ cas[socket].requests # <<>> => Head(cas[socket].requests).id = Running.id
    /\ cas[socket].replies # <<>> =>
         Head(cas[socket].replies).id = Running.id /\ served[Running.id] = 1

\* The oldest request on a socket, if it is a caller's.
Asked(s, id) == cas[s].requests # <<>> /\ Head(cas[s].requests).id = id

Unserved(s, id) ==
  /\ id \in Calls /\ s \in sentOn[id] /\ served[id] = 0
  /\ (InExchange(id) /\ s = socket) \/ outcome[id].status = "failed"

Pending == \A s \in Sockets : \A id \in Nat \ {0} : Asked(s, id) => Unserved(s, id)

Promised == InOrder /\ Sent /\ Exchanged /\ Pending

LEMMA PromisedInit == Init => Promised
<1> SUFFICES ASSUME Init PROVE Promised
  OBVIOUS
<1>1. Calls = {} /\ Sockets = {} /\ 1..Len(queue) = {} /\ Len(queue) = 0 /\ Len(outcome) = 0
  BY EmptySeq DEF Init, Calls, Sockets
<1> QED
  BY <1>1 DEF Init, Promised, InOrder, Sent, Exchanged, Pending

-----------------------------------------------------------------------------
(* The kinds of steps, as the callers see them.  Most tell them nothing.      *)

NoNewRequest ==
  \A s \in Sockets' : \A id \in Nat \ {0} :
    Asked(s, id)' => s \in Sockets /\ Asked(s, id)

\* The queue, its callers and their requests are left alone.
Aside ==
  /\ UNCHANGED <<queue, outcome, sentOn, served>>
  /\ (pc' = "exchange") <=> (pc = "exchange")
  /\ pc = "exchange" =>
       /\ UNCHANGED socket
       /\ cas'[socket].requests = cas[socket].requests
       /\ cas'[socket].replies \in {cas[socket].replies, <<>>}
  /\ NoNewRequest

\* The running operation ends, without an answer to its request.
Ends ==
  /\ \E result \in {"done", "absent", "failed"} :
       Settle(result, 0) /\ (pc = "exchange" => result = "failed")
  /\ queue # <<>>
  /\ UNCHANGED <<sentOn, served>>
  /\ NoNewRequest

LEMMA SamePeersAskNothing ==
  ASSUME UNCHANGED cas
  PROVE  NoNewRequest
  BY DEF NoNewRequest, Asked, Sockets

\* Only one peer changes, and what it is asked is nothing or of the connection.
LEMMA OwnRequestAsksNothing ==
  ASSUME Typed, NEW s \in Sockets, Len(cas') = Len(cas),
         \A t \in 1..Len(cas) : t # s => cas'[t] = cas[t],
         cas'[s].requests # <<>> /\ Head(cas'[s].requests).id # 0
           => cas'[s].requests = cas[s].requests
  PROVE  NoNewRequest
  BY DEF NoNewRequest, Asked, Sockets

LEMMA StepKinds ==
  Typed /\ Held /\ Sound /\ [Next]_vars =>
    \/ Enqueue \/ SendRequest \/ ExchangeAnswered
    \/ Aside \/ Ends
    \/ \E s \in Sockets : Serve(s)
<1> SUFFICES ASSUME Typed, Held, Sound, [Next]_vars,
                    ~Enqueue, ~SendRequest, ~ExchangeAnswered,
                    \A s \in Sockets : ~Serve(s)
             PROVE  Aside \/ Ends
  OBVIOUS
<1> USE DEF transport, status, counters, locals, callers, history, AwaitsReply
<1>0. /\ cas \in Seq(CAS) /\ Len(cas) \in Nat /\ socket \in 0..Len(cas) /\ 0 \in Nat
      /\ connected => socket \in Sockets
      /\ pc # "idle" => queue # <<>>
      /\ pc \in AwaitsReply => connected
  BY LenProperties DEF Typed, TypeOK, PeersTyped, Control, Sockets
<1>1. CASE Enqueue
  BY <1>1
<1>2. CASE Begin
  <2>1. NoNewRequest
    BY <1>2, SamePeersAskNothing DEF Begin
  <2> QED
    BY <1>0, <1>2, <2>1 DEF Begin, Aside
<1>3. CASE VerifySkips
  <2>1. NoNewRequest
    BY <1>3, SamePeersAskNothing DEF VerifySkips
  <2> QED
    BY <1>0, <1>3, <2>1 DEF VerifySkips, NeedsProbe, Aside
<1>4. CASE VerifyProbes
  <2> DEFINE r == [fn |-> "CHECK_CAS", id |-> 0, set |-> <<>>]
  <2>1. NoNewRequest
    <3>1. cas[socket].requests = <<>> /\ socket \in Sockets
      BY <1>0, <1>4 DEF VerifyProbes, CanSend, Held, NothingInFlight
    <3>2. Append(<<>>, r) = <<r>> /\ Head(<<r>>) = r /\ r.id = 0
      OBVIOUS
    <3> HIDE DEF r
    <3>3. Put(r) /\ CanSend
      BY <1>4 DEF VerifyProbes, r
    <3> QED
      BY <3>1, <3>2, <3>3, PutKeeps, OwnRequestAsksNothing
  <2> QED
    BY <1>0, <1>4, <2>1 DEF VerifyProbes, NeedsProbe, CanSend, Aside
<1>5. CASE ProbeAnswered
  <2>1. NoNewRequest
    BY <1>0, <1>5, TakeReplyKeeps, OwnRequestAsksNothing DEF ProbeAnswered
  <2> QED
    BY <1>0, <1>5, <2>1 DEF ProbeAnswered, Aside
<1>6. CASE ProbeFails
  <2>1. NoNewRequest
    BY <1>6, SamePeersAskNothing DEF ProbeFails
  <2> QED
    BY <1>0, <1>6, <2>1 DEF ProbeFails, NeedsProbe, RetireSocket, Aside
<1>7. CASE AlreadyConnected
  <2>1. NoNewRequest
    BY <1>7, SamePeersAskNothing DEF AlreadyConnected
  <2> QED
    BY <1>0, <1>7, <2>1 DEF AlreadyConnected, Settle, Ends
<1>8. CASE Connects
  <2>1. NoNewRequest
    BY <1>8, SamePeersAskNothing DEF Connects
  <2> QED
    BY <1>0, <1>8, <2>1 DEF Connects, Aside
<1>9. CASE HandshakeBegins
  <2>1. NoNewRequest
    BY <1>9, SamePeersAskNothing DEF HandshakeBegins
  <2> QED
    BY <1>0, <1>9, <2>1 DEF HandshakeBegins, Aside
<1>10. CASE BrokerUnreachable
  <2>1. NoNewRequest
    BY <1>10, SamePeersAskNothing DEF BrokerUnreachable
  <2> QED
    BY <1>0, <1>10, <2>1 DEF BrokerUnreachable, RetryOrFail, Settle, Aside, Ends
<1>11. CASE BackoffElapses
  <2>1. NoNewRequest
    BY <1>11, SamePeersAskNothing DEF BackoffElapses
  <2> QED
    BY <1>0, <1>11, <2>1 DEF BackoffElapses, Aside
<1>12. CASE BrokerAccepts
  <2>1. NoNewRequest
    BY <1>12, NewSocketKeeps DEF BrokerAccepts, NewSocket, NoNewRequest, Asked, Sockets
  <2> QED
    BY <1>0, <1>12, <2>1 DEF BrokerAccepts, Aside
<1>13. CASE BrokerHandsOver
  <2>1. NoNewRequest
    BY <1>13, SamePeersAskNothing DEF BrokerHandsOver
  <2> QED
    BY <1>0, <1>13, <2>1 DEF BrokerHandsOver, AfterRedirect, Aside
<1>14. CASE BrokerRedirects
  <2>1. NoNewRequest
    BY <1>14, SamePeersAskNothing DEF BrokerRedirects
  <2> QED
    BY <1>0, <1>14, <2>1 DEF BrokerRedirects, Aside
<1>15. CASE RedirectAccepted
  <2>1. NoNewRequest
    BY <1>15, NewSocketKeeps DEF RedirectAccepted, NewSocket, NoNewRequest, Asked, Sockets
  <2> QED
    BY <1>0, <1>15, <2>1 DEF RedirectAccepted, AfterRedirect, Aside
<1>16. CASE RedirectUnreachable
  <2>1. NoNewRequest
    BY <1>16, SamePeersAskNothing DEF RedirectUnreachable
  <2> QED
    BY <1>0, <1>16, <2>1 DEF RedirectUnreachable, AbandonHandshake, RetireSocket,
       RetryOrFail, Settle, Aside, Ends
<1>17. CASE TlsUpgraded
  <2>1. NoNewRequest
    BY <1>17, SamePeersAskNothing DEF TlsUpgraded
  <2> QED
    BY <1>0, <1>17, <2>1 DEF TlsUpgraded, Aside
<1>18. CASE HandshakeFails
  <2>1. NoNewRequest
    BY <1>18, SamePeersAskNothing DEF HandshakeFails
  <2> QED
    BY <1>0, <1>18, <2>1 DEF HandshakeFails, AbandonHandshake, RetireSocket, Settle, Ends
<1>19. CASE DatabaseOpened
  <2>1. NoNewRequest
    BY <1>19, OpenedKeeps, OwnRequestAsksNothing DEF Sockets
  <2> QED
    BY <1>0, <1>19, <2>1 DEF DatabaseOpened, Aside
<1>20. CASE NothingToApply
  <2>1. NoNewRequest
    BY <1>20, SamePeersAskNothing DEF NothingToApply
  <2> QED
    BY <1>0, <1>20, <2>1 DEF NothingToApply, SettingsHold, Settle, Aside, Ends
<1>21. CASE SendParameter
  <2> DEFINE r == [fn |-> "SET_DB_PARAMETER", id |-> 0, set |-> <<sessionParameters[index]>>]
  <2>1. NoNewRequest
    <3>1. cas[socket].requests = <<>> /\ socket \in Sockets
      BY <1>0, <1>21 DEF SendParameter, CanSend, Held, NothingInFlight
    <3>2. Append(<<>>, r) = <<r>> /\ Head(<<r>>) = r /\ r.id = 0
      OBVIOUS
    <3> HIDE DEF r
    <3>3. Put(r) /\ CanSend
      BY <1>21 DEF SendParameter, r
    <3> QED
      BY <3>1, <3>2, <3>3, PutKeeps, OwnRequestAsksNothing
  <2> QED
    BY <1>0, <1>21, <2>1 DEF SendParameter, CanSend, Aside
<1>22. CASE ParameterAnswered
  <2>1. NoNewRequest
    BY <1>0, <1>22, TakeReplyKeeps, OwnRequestAsksNothing DEF ParameterAnswered
  <2> QED
    BY <1>0, <1>22, <2>1 DEF ParameterAnswered, Aside
<1>23. CASE SendHold
  <2> DEFINE r == [fn |-> "CHECK_CAS", id |-> 0, set |-> <<>>]
  <2>1. NoNewRequest
    <3>1. cas[socket].requests = <<>> /\ socket \in Sockets
      BY <1>0, <1>23 DEF SendHold, CanSend, Held, NothingInFlight
    <3>2. Append(<<>>, r) = <<r>> /\ Head(<<r>>) = r /\ r.id = 0
      OBVIOUS
    <3> HIDE DEF r
    <3>3. Put(r) /\ CanSend
      BY <1>23 DEF SendHold, r
    <3> QED
      BY <3>1, <3>2, <3>3, PutKeeps, OwnRequestAsksNothing
  <2> QED
    BY <1>0, <1>23, <2>1 DEF SendHold, CanSend, Aside
<1>24. CASE HoldAnswered
  <2>1. NoNewRequest
    BY <1>0, <1>24, TakeReplyKeeps, OwnRequestAsksNothing DEF HoldAnswered
  <2> QED
    BY <1>0, <1>24, <2>1 DEF HoldAnswered, SettingsHold, Settle, Aside, Ends
<1>25. CASE ApplyFails
  <2>1. NoNewRequest
    BY <1>25, SamePeersAskNothing DEF ApplyFails
  <2> QED
    BY <1>0, <1>25, <2>1 DEF ApplyFails, RetireSocket, Settle, Ends
<1>26. CASE ParametersInherited
  <2>1. NoNewRequest
    BY <1>26, SamePeersAskNothing DEF ParametersInherited
  <2> QED
    BY <1>0, <1>26, <2>1 DEF ParametersInherited, Settle, Ends
<1>27. CASE ApplyToOpenSession
  <2>1. NoNewRequest
    BY <1>27, SamePeersAskNothing DEF ApplyToOpenSession
  <2> QED
    BY <1>0, <1>27, <2>1 DEF ApplyToOpenSession, Aside
<1>28. CASE AbsentSession
  <2>1. NoNewRequest
    BY <1>28, SamePeersAskNothing DEF AbsentSession
  <2> QED
    BY <1>0, <1>28, <2>1 DEF AbsentSession, Settle, Ends
<1>29. CASE SendRequest
  BY <1>29
<1>30. CASE ExchangeAnswered
  BY <1>30
<1>31. CASE ExchangeFails
  <2>1. NoNewRequest
    BY <1>31, SamePeersAskNothing DEF ExchangeFails
  <2> QED
    BY <1>0, <1>31, <2>1 DEF ExchangeFails, MayExchange, RetireSocket, Settle, Ends
<1>32. CASE DiscardSession
  <2>1. NoNewRequest
    BY <1>32, SamePeersAskNothing DEF DiscardSession
  <2> QED
    BY <1>0, <1>32, <2>1 DEF DiscardSession, RetireSocket, Settle, Ends
<1>33. CASE CloseFindsNoSocket
  <2>1. NoNewRequest
    BY <1>33, SamePeersAskNothing DEF CloseFindsNoSocket
  <2> QED
    BY <1>0, <1>33, <2>1 DEF CloseFindsNoSocket, Settle, Ends
<1>34. CASE CloseSendsFrame
  <2> DEFINE r == [fn |-> "CON_CLOSE", id |-> 0, set |-> <<>>]
  <2>1. NoNewRequest
    <3>1. cas[socket].requests = <<>> /\ socket \in Sockets
      BY <1>0, <1>34 DEF CloseSendsFrame, CanSend, Held, NothingInFlight
    <3>2. Append(<<>>, r) = <<r>> /\ Head(<<r>>) = r /\ r.id = 0
      OBVIOUS
    <3> HIDE DEF r
    <3>3. Put(r) /\ CanSend
      BY <1>34 DEF CloseSendsFrame, r
    <3> QED
      BY <3>1, <3>2, <3>3, PutKeeps, OwnRequestAsksNothing
  <2> QED
    BY <1>0, <1>34, <2>1 DEF CloseSendsFrame, CanSend, Aside
<1>35. CASE CloseTearsDown
  <2>1. NoNewRequest
    BY <1>35, SamePeersAskNothing DEF CloseTearsDown
  <2> QED
    BY <1>0, <1>35, <2>1 DEF CloseTearsDown, RetireSocket, Settle, Ends
<1>36. ASSUME NEW s \in Sockets, MarkDead(s) PROVE Aside
  <2>1. NoNewRequest
    BY <1>36, SamePeersAskNothing DEF MarkDead
  <2> QED
    BY <1>36, <2>1 DEF MarkDead, Aside
<1>37. ASSUME NEW s \in Sockets, Serve(s) PROVE Aside
  BY <1>37
<1>38. ASSUME NEW s \in Sockets, Leave(s) PROVE Aside
  <2>1. NoNewRequest
    BY <1>38, LeaveOrCrashKeeps, OwnRequestAsksNothing
  <2> QED
    BY <1>38, <2>1, LeaveOrCrashKeeps DEF Leave, Aside
<1>39. ASSUME NEW s \in Sockets, Crash(s) PROVE Aside
  <2>1. NoNewRequest
    BY <1>39, LeaveOrCrashKeeps, OwnRequestAsksNothing
  <2> QED
    BY <1>39, <2>1, LeaveOrCrashKeeps DEF Crash, Aside
<1>40. CASE UNCHANGED vars
  <2>1. NoNewRequest
    BY <1>40, SamePeersAskNothing DEF vars
  <2> QED
    BY <1>40, <2>1 DEF vars, Aside
<1> QED
  BY <1>1, <1>2, <1>3, <1>4, <1>5, <1>6, <1>7, <1>8, <1>9, <1>10, <1>11, <1>12, <1>13,
     <1>14, <1>15, <1>16, <1>17, <1>18, <1>19, <1>20, <1>21, <1>22, <1>23, <1>24, <1>25,
     <1>26, <1>27, <1>28, <1>29, <1>30, <1>31, <1>32, <1>33, <1>34, <1>35, <1>36, <1>37,
     <1>38, <1>39, <1>40
  DEF Next, Step, Client, Verify, Connect, Apply, Exchange, Close

-----------------------------------------------------------------------------
(* The order of the queue.                                                   *)

LEMMA CallersKnown ==
  ASSUME Typed
  PROVE  /\ queue \in Seq(Op) /\ Len(queue) \in Nat
         /\ outcome \in Seq(Outcome) /\ Len(outcome) \in Nat
         /\ sentOn \in Seq(SUBSET Nat) /\ Len(sentOn) = Len(outcome)
         /\ served \in Seq(Nat) /\ Len(served) = Len(outcome)
         /\ DOMAIN sentOn = Calls /\ served \in [Calls -> Nat] /\ DOMAIN outcome = Calls
         /\ \A id \in Calls : served[id] \in Nat /\ sentOn[id] \in SUBSET Nat
  BY LenProperties, ElementOfSeq DEF Typed, TypeOK, CallersTyped, Calls

\* The running operation is the oldest call that waits.
LEMMA RunningIsNext ==
  ASSUME Typed, InOrder, queue # <<>>
  PROVE  /\ Running.id = Settled + 1 /\ Running.id \in Calls
         /\ outcome[Running.id].status = "waiting"
         /\ \A id \in Calls : id < Running.id => outcome[id].status # "waiting"
         /\ Len(queue) \in Nat \ {0}
<1>1. Len(queue) \in Nat \ {0} /\ Head(queue) = queue[1] /\ Len(outcome) \in Nat
  BY CallersKnown, EmptySeq
<1>2. Running.id = Settled + 1
  BY <1>1 DEF InOrder, Running
<1> QED
  BY <1>1, <1>2 DEF InOrder, Settled, Calls

LEMMA SettleKeeps ==
  ASSUME Typed, InOrder, queue # <<>>, NEW result, NEW reply, result # "waiting",
         Settle(result, reply)
  PROVE  /\ InOrder' /\ Calls' = Calls
         /\ outcome'[Running.id] = [status |-> result, reply |-> reply]
         /\ \A id \in Calls : id # Running.id => outcome'[id] = outcome[id]
<1> DEFINE o == [status |-> result, reply |-> reply]
           n == Running.id
<1>1. /\ n = Settled + 1 /\ n \in 1..Len(outcome) /\ outcome[n].status = "waiting"
      /\ Len(queue) \in Nat \ {0} /\ Len(outcome) \in Nat
  BY RunningIsNext, CallersKnown DEF Calls
<1>2. outcome \in Seq(Outcome \cup {o}) /\ o \in Outcome \cup {o}
  BY CallersKnown, SeqMonotonic
<1>3. outcome' = [outcome EXCEPT ![n] = o] /\ queue' = Tail(queue)
  BY DEF Settle
<1>4. o.status # "waiting"
  OBVIOUS
<1> HIDE DEF o, n
<1>5. /\ Len(outcome') = Len(outcome) /\ outcome'[n] = o
      /\ \A id \in 1..Len(outcome) : id # n => outcome'[id] = outcome[id]
  BY <1>1, <1>2, <1>3, ExceptSeq
<1>6. /\ Len(queue') = Len(queue) - 1
      /\ \A k \in 1..Len(queue') : queue'[k] = queue[k + 1]
  BY <1>3, CallersKnown, HeadTailProperties
<1>7. Settled' = Settled + 1
  BY <1>1, <1>5, <1>6 DEF Settled
<1>8. \A k \in 1..Len(queue') : queue'[k].id = Settled' + k
  <2> SUFFICES ASSUME NEW k \in 1..Len(queue') PROVE queue'[k].id = Settled' + k
    OBVIOUS
  <2>1. k + 1 \in 1..Len(queue)
    BY <1>1, <1>6
  <2>2. queue[k + 1].id = Settled + (k + 1)
    BY <2>1 DEF InOrder
  <2>3. Settled + (k + 1) = (Settled + 1) + k
    BY <1>1, <1>6 DEF Settled
  <2> QED
    BY <1>6, <1>7, <2>2, <2>3
<1>9. \A id \in 1..Len(outcome) : outcome'[id].status = "waiting" <=> id > Settled'
  <2> SUFFICES ASSUME NEW id \in 1..Len(outcome)
               PROVE  outcome'[id].status = "waiting" <=> id > Settled + 1
    BY <1>7
  <2>1. CASE id = n
    BY <1>1, <1>4, <1>5, <2>1 DEF Settled
  <2>2. CASE id # n
    <3>1. outcome[id].status = "waiting" <=> id > Settled
      BY DEF InOrder, Calls
    <3> QED
      <4>1. outcome'[id].status = "waiting" <=> id > Settled
        BY <1>5, <2>2, <3>1
      <4>2. Settled \in Int /\ id # Settled + 1
        BY <1>1, <2>2 DEF Settled
      <4>3. id > Settled <=> id > Settled + 1
        BY <4>2
      <4> QED
        BY <4>1, <4>3
  <2> QED
    BY <2>1, <2>2
<1> QED
  BY <1>1, <1>5, <1>6, <1>8, <1>9 DEF InOrder, Calls, o, n

LEMMA EnqueueKeeps ==
  ASSUME Typed, InOrder, Enqueue
  PROVE  /\ InOrder'
         /\ Len(outcome') = Len(outcome) + 1 /\ Calls' = Calls \cup {Len(outcome) + 1}
         /\ \A id \in Calls :
              outcome'[id] = outcome[id] /\ sentOn'[id] = sentOn[id] /\ served'[id] = served[id]
         /\ outcome'[Len(outcome) + 1] = [status |-> "waiting", reply |-> 0]
         /\ sentOn'[Len(outcome) + 1] = {} /\ served'[Len(outcome) + 1] = 0
         /\ queue # <<>> => Running' = Running
<1>1. PICK op : queue' = Append(queue, op) /\ op.id = Len(outcome) + 1
  BY DEF Enqueue
<1> DEFINE new == [status |-> "waiting", reply |-> 0]
<1>2. /\ Len(queue) \in Nat /\ Len(outcome) \in Nat
      /\ queue \in Seq(Op \cup {op}) /\ op \in Op \cup {op} /\ new \in Outcome
  BY CallersKnown, SeqMonotonic DEF Outcome
<1>3. /\ Len(queue') = Len(queue) + 1 /\ queue'[Len(queue) + 1] = op
      /\ \A k \in 1..Len(queue) : queue'[k] = queue[k]
  BY <1>1, <1>2, AppendProperties
<1>4. /\ outcome' = Append(outcome, new) /\ sentOn' = Append(sentOn, {})
      /\ served' = Append(served, 0)
  BY DEF Enqueue
<1>5. /\ Len(outcome') = Len(outcome) + 1 /\ outcome'[Len(outcome) + 1] = new
      /\ \A id \in 1..Len(outcome) : outcome'[id] = outcome[id]
  BY <1>2, <1>4, CallersKnown, AppendProperties
<1>6. /\ sentOn'[Len(outcome) + 1] = {}
      /\ \A id \in 1..Len(outcome) : sentOn'[id] = sentOn[id]
  <2>1. sentOn \in Seq(SUBSET Nat) /\ Len(sentOn) = Len(outcome) /\ {} \in SUBSET Nat
    BY CallersKnown
  <2> QED
    BY <1>4, <2>1, AppendProperties
<1>7. /\ served'[Len(outcome) + 1] = 0
      /\ \A id \in 1..Len(outcome) : served'[id] = served[id]
  BY <1>4, CallersKnown, AppendProperties
<1>8. Settled' = Settled /\ Len(queue) <= Len(outcome)
  BY <1>2, <1>3, <1>5 DEF Settled, InOrder
<1>9. \A k \in 1..Len(queue') : queue'[k].id = Settled + k
  <2> SUFFICES ASSUME NEW k \in 1..Len(queue') PROVE queue'[k].id = Settled + k
    OBVIOUS
  <2>1. CASE k = Len(queue) + 1
    BY <1>1, <1>2, <1>3, <2>1 DEF Settled
  <2>2. CASE k # Len(queue) + 1
    <3>1. k \in 1..Len(queue)
      BY <1>2, <1>3, <2>2
    <3> QED
      BY <1>3, <3>1 DEF InOrder
  <2> QED
    BY <2>1, <2>2
<1>10. \A id \in 1..Len(outcome') : outcome'[id].status = "waiting" <=> id > Settled
  <2> SUFFICES ASSUME NEW id \in 1..Len(outcome')
               PROVE  outcome'[id].status = "waiting" <=> id > Settled
    OBVIOUS
  <2>1. CASE id = Len(outcome) + 1
    BY <1>2, <1>5, <1>8, <2>1 DEF Settled
  <2>2. CASE id # Len(outcome) + 1
    <3>1. id \in 1..Len(outcome)
      BY <1>2, <1>5, <2>2
    <3> QED
      BY <1>5, <3>1 DEF InOrder, Calls
  <2> QED
    BY <2>1, <2>2
<1>11. InOrder'
  BY <1>2, <1>3, <1>5, <1>8, <1>9, <1>10 DEF InOrder, Calls
<1>12. queue # <<>> => Running' = Running
  BY <1>1, CallersKnown, HeadTailAppend DEF Running
<1>13. Calls' = Calls \cup {Len(outcome) + 1}
  BY <1>2, <1>5 DEF Calls
<1> QED
  BY <1>5, <1>6, <1>7, <1>11, <1>12, <1>13 DEF Calls

-----------------------------------------------------------------------------
(* Each kind of step keeps the promise.                                      *)

LEMMA EnqueuePromised ==
  ASSUME Typed, Promised, Enqueue
  PROVE  Promised'
<1>0. UNCHANGED <<pc, socket, cas>>
  BY DEF Enqueue, transport
<1>1. Len(outcome) \in Nat /\ pc = "exchange" => Running' = Running /\ Running.id \in Calls
  BY CallersKnown, EnqueueKeeps, RunningIsNext DEF Promised, Typed, Control
<1>2. \A id \in Calls : InExchange(id)' <=> InExchange(id)
  BY <1>0, <1>1 DEF InExchange
<1>3. Sent'
  <2> SUFFICES ASSUME NEW id \in Calls' PROVE SentOnce(id)'
    BY DEF Sent
  <2>1. CASE id \in Calls
    BY <1>2, <2>1, EnqueueKeeps DEF Promised, Sent, SentOnce
  <2>2. CASE id = Len(outcome) + 1
    BY <2>2, EnqueueKeeps DEF Promised, SentOnce
  <2> QED
    BY <2>1, <2>2, EnqueueKeeps DEF Promised
<1>4. Exchanged'
  BY <1>0, <1>1, EnqueueKeeps DEF Promised, Exchanged
<1>5. Pending'
  <2> SUFFICES ASSUME NEW s \in Sockets, NEW id \in Nat \ {0}, Asked(s, id)
               PROVE  Unserved(s, id)'
    BY <1>0 DEF Pending, Sockets, Asked
  <2>1. Unserved(s, id)
    BY DEF Promised, Pending
  <2> QED
    BY <1>0, <1>2, <2>1, EnqueueKeeps DEF Promised, Unserved
<1> QED
  BY <1>3, <1>4, <1>5, EnqueueKeeps DEF Promised

LEMMA AsidePromised ==
  ASSUME Typed, Promised, Aside
  PROVE  Promised'
<1>0. /\ UNCHANGED <<queue, outcome, sentOn, served>>
      /\ Settled' = Settled /\ Calls' = Calls /\ Running' = Running
  BY DEF Aside, Settled, Calls, Running
<1>1. \A id \in Calls : InExchange(id)' <=> InExchange(id)
  BY <1>0 DEF InExchange, Aside
<1>2. InOrder'
  BY <1>0 DEF Promised, InOrder
<1>3. Sent'
  BY <1>0, <1>1 DEF Promised, Sent, SentOnce
<1>4. Exchanged'
  BY <1>0 DEF Promised, Exchanged, Aside
<1>5. Pending'
  <2> SUFFICES ASSUME NEW s \in Sockets', NEW id \in Nat \ {0}, Asked(s, id)'
               PROVE  Unserved(s, id)'
    BY DEF Pending
  <2>1. Unserved(s, id)
    BY DEF Promised, Pending, Aside, NoNewRequest
  <2> QED
    BY <1>0, <1>1, <2>1 DEF Unserved, Aside, InExchange
<1> QED
  BY <1>2, <1>3, <1>4, <1>5 DEF Promised

LEMMA EndsPromised ==
  ASSUME Typed, Promised, Ends
  PROVE  Promised'
<1>0. UNCHANGED <<sentOn, served>> /\ queue # <<>>
  BY DEF Ends
<1>1. PICK result \in {"done", "absent", "failed"} :
        Settle(result, 0) /\ (pc = "exchange" => result = "failed")
  BY DEF Ends
<1>2. /\ InOrder' /\ Calls' = Calls /\ pc' = "idle"
      /\ outcome'[Running.id].status = result
      /\ \A id \in Calls : id # Running.id => outcome'[id] = outcome[id]
  <2>1. InOrder /\ result # "waiting" /\ Settle(result, 0)
    BY <1>1 DEF Promised
  <2>2. pc' = "idle"
    BY <2>1 DEF Settle
  <2>3. /\ InOrder' /\ Calls' = Calls
        /\ outcome'[Running.id] = [status |-> result, reply |-> 0]
        /\ \A id \in Calls : id # Running.id => outcome'[id] = outcome[id]
    BY <1>0, <2>1, SettleKeeps
  <2> QED
    BY <2>2, <2>3
<1>3. Running.id \in Calls /\ outcome[Running.id].status = "waiting"
  BY <1>0, RunningIsNext DEF Promised
<1>4. Sent'
  <2> SUFFICES ASSUME NEW id \in Calls PROVE SentOnce(id)'
    BY <1>2 DEF Sent
  <2>1. SentOnce(id)
    BY DEF Promised, Sent
  <2>2. CASE id = Running.id
    BY <1>0, <1>1, <1>2, <1>3, <2>1, <2>2 DEF SentOnce, InExchange
  <2>3. CASE id # Running.id
    BY <1>0, <1>2, <2>1, <2>3 DEF SentOnce, InExchange
  <2> QED
    BY <2>2, <2>3
<1>5. Exchanged'
  BY <1>2 DEF Exchanged
<1>6. Pending'
  <2> SUFFICES ASSUME NEW s \in Sockets', NEW id \in Nat \ {0}, Asked(s, id)'
               PROVE  Unserved(s, id)'
    BY DEF Pending
  <2>1. Unserved(s, id)
    BY DEF Promised, Pending, Ends, NoNewRequest
  <2>2. outcome'[id].status = "failed"
    BY <1>1, <1>2, <1>3, <2>1 DEF Unserved, InExchange
  <2> QED
    BY <1>0, <1>2, <2>1, <2>2 DEF Unserved
<1> QED
  BY <1>2, <1>4, <1>5, <1>6 DEF Promised

LEMMA AnsweredPromised ==
  ASSUME Typed, Held, Promised, ExchangeAnswered
  PROVE  /\ Promised'
         /\ Answer.id = Running.id /\ served[Running.id] = 1 /\ sentOn[Running.id] # {}
<1>0. /\ UNCHANGED <<sentOn, served>> /\ queue # <<>> /\ connected /\ pc = "exchange"
      /\ cas[socket].replies # <<>> /\ Settle("answered", Answer.id)
  BY DEF ExchangeAnswered, history, Typed, Control, AwaitsReply, Readable
<1>1. Answer.id = Running.id /\ served[Running.id] = 1 /\ sentOn[Running.id] = {socket}
  BY <1>0 DEF Promised, Exchanged, Answer
<1>2. /\ InOrder' /\ Calls' = Calls /\ pc' = "idle"
      /\ outcome'[Running.id] = [status |-> "answered", reply |-> Answer.id]
      /\ \A id \in Calls : id # Running.id => outcome'[id] = outcome[id]
  BY <1>0, SettleKeeps DEF Promised, Settle
<1>3. Running.id \in Calls /\ outcome[Running.id].status = "waiting"
  BY <1>0, RunningIsNext DEF Promised
<1>4. Sent'
  <2> SUFFICES ASSUME NEW id \in Calls PROVE SentOnce(id)'
    BY <1>2 DEF Sent
  <2>1. SentOnce(id)
    BY DEF Promised, Sent
  <2>2. CASE id = Running.id
    BY <1>0, <1>1, <1>2, <2>1, <2>2 DEF SentOnce, InExchange
  <2>3. CASE id # Running.id
    BY <1>0, <1>2, <2>1, <2>3 DEF SentOnce, InExchange
  <2> QED
    BY <2>2, <2>3
<1>5. Exchanged'
  BY <1>2 DEF Exchanged
<1>6. Pending'
  <2>1. NoNewRequest /\ socket \in Sockets /\ cas[socket].requests = <<>>
    <3>1. TakeReply /\ socket \in Sockets
      BY <1>0, TakeReplyKeeps DEF ExchangeAnswered, Sockets
    <3>2. cas[socket].requests = <<>>
      BY <1>0, <3>1 DEF Held, Peers, Single
    <3> QED
      BY <1>0, <3>1, <3>2, TakeReplyKeeps, OwnRequestAsksNothing
  <2> SUFFICES ASSUME NEW s \in Sockets', NEW id \in Nat \ {0}, Asked(s, id)'
               PROVE  Unserved(s, id)'
    BY DEF Pending
  <2>2. Asked(s, id) /\ Unserved(s, id)
    BY <2>1 DEF Promised, Pending, NoNewRequest
  <2>3. outcome[id].status = "failed"
    BY <2>1, <2>2 DEF Unserved, InExchange, Asked
  <2> QED
    BY <1>0, <1>2, <1>3, <2>2, <2>3 DEF Unserved
<1> QED
  BY <1>1, <1>2, <1>4, <1>5, <1>6 DEF Promised

LEMMA SendPromised ==
  ASSUME Typed, Held, Promised, SendRequest
  PROVE  Promised' /\ outcome[Running.id].status = "waiting"
<1>0. /\ UNCHANGED <<queue, outcome, served, socket>> /\ queue # <<>>
      /\ pc = "body" /\ pc' = "exchange" /\ connected
      /\ Settled' = Settled /\ Calls' = Calls /\ Running' = Running
  BY DEF SendRequest, MayExchange, CanSend, callers, transport, Typed, Control, Settled,
         Calls, Running
<1>1. Running.id \in Calls /\ outcome[Running.id].status = "waiting" /\ Running.id \in Nat \ {0}
  BY <1>0, RunningIsNext, CallersKnown DEF Promised, Calls
<1>2. sentOn[Running.id] = {} /\ served[Running.id] = 0
  BY <1>0, <1>1 DEF Promised, Sent, SentOnce, InExchange
<1>3. /\ sentOn'[Running.id] = {socket}
      /\ \A id \in Calls : id # Running.id => sentOn'[id] = sentOn[id]
  <2>1. sentOn' = [sentOn EXCEPT ![Running.id] = sentOn[Running.id] \cup {socket}]
    BY DEF SendRequest
  <2> QED
    BY <1>1, <1>2, <2>1, CallersKnown
<1> DEFINE r == [fn |-> Running.fn, id |-> Running.id, set |-> <<>>]
<1>4. /\ socket \in Sockets /\ Sockets' = Sockets
      /\ cas'[socket].replies = <<>> /\ Head(cas'[socket].requests) = r
      /\ \A t \in Sockets : t # socket => cas'[t] = cas[t]
  <2>1. cas[socket].requests = <<>> /\ cas[socket].replies = <<>>
    BY <1>0 DEF AwaitsReply, Held, NothingInFlight
  <2>2. Append(<<>>, r) = <<r>> /\ Head(<<r>>) = r
    OBVIOUS
  <2> HIDE DEF r
  <2>3. Put(r) /\ CanSend
    BY DEF SendRequest, r
  <2> QED
    BY <2>1, <2>2, <2>3, PutKeeps DEF Sockets
<1>5. r.id = Running.id
  OBVIOUS
<1> HIDE DEF r
<1>6. InOrder'
  BY <1>0 DEF Promised, InOrder
<1>7. Sent'
  <2> SUFFICES ASSUME NEW id \in Calls PROVE SentOnce(id)'
    BY <1>0 DEF Sent
  <2>1. SentOnce(id)
    BY DEF Promised, Sent
  <2>2. CASE id = Running.id
    BY <1>0, <1>1, <1>2, <1>3, <2>1, <2>2 DEF SentOnce, InExchange
  <2>3. CASE id # Running.id
    BY <1>0, <1>3, <2>1, <2>3 DEF SentOnce, InExchange
  <2> QED
    BY <2>2, <2>3
<1>8. Exchanged'
  BY <1>0, <1>3, <1>4, <1>5 DEF Exchanged
<1>9. Pending'
  <2> SUFFICES ASSUME NEW s \in Sockets, NEW id \in Nat \ {0}, Asked(s, id)'
               PROVE  Unserved(s, id)'
    BY <1>4 DEF Pending
  <2>1. CASE s = socket
    BY <1>0, <1>1, <1>2, <1>3, <1>4, <1>5, <2>1 DEF Asked, Unserved, InExchange
  <2>2. CASE s # socket
    <3>1. Unserved(s, id)
      BY <1>4, <2>2 DEF Promised, Pending, Asked
    <3>2. outcome[id].status = "failed" /\ id # Running.id
      BY <1>0, <1>1, <3>1 DEF Unserved, InExchange
    <3> QED
      BY <1>0, <1>3, <3>1, <3>2 DEF Unserved
  <2> QED
    BY <2>1, <2>2
<1> QED
  BY <1>1, <1>6, <1>7, <1>8, <1>9 DEF Promised

LEMMA ServePromised ==
  ASSUME Typed, Held, Promised, NEW s \in Sockets, Serve(s)
  PROVE  /\ Promised'
         /\ UNCHANGED <<outcome, sentOn>>
         /\ \/ UNCHANGED served
            \/ \E id \in Calls : Unserved(s, id) /\ served' = [served EXCEPT ![id] = 1]
<1> DEFINE n == Head(cas[s].requests).id
<1>0. /\ UNCHANGED <<queue, outcome, sentOn, pc, socket, connected>>
      /\ Settled' = Settled /\ Calls' = Calls /\ Running' = Running
      /\ Sockets' = Sockets
  BY ServeKeeps DEF Serve, callers, transport, Settled, Calls, Running, Sockets
<1>1. /\ cas[s].requests # <<>> /\ cas[s].replies = <<>> /\ cas'[s].requests = <<>>
      /\ n \in Nat /\ s \in 1..Len(cas)
  <2>1. n \in Nat /\ s \in 1..Len(cas)
    <3>1. cas \in Seq(CAS) /\ s \in 1..Len(cas) /\ cas[s].requests # <<>>
      BY DEF Serve, Sockets, Typed, TypeOK, PeersTyped
    <3>2. Head(cas[s].requests) \in Request
      BY <3>1, PeerTyped, HeadTailProperties
    <3> QED
      BY <3>1, <3>2 DEF Request
  <2> QED
    BY <2>1, ServeKeeps DEF Serve, Held, Peers, Single
<1>2. /\ \A t \in Sockets : t # s => cas'[t] = cas[t]
      /\ cas'[s].replies # <<>> => Head(cas'[s].replies).id = n
  <2>1. PICK reply : reply.id = n /\ cas'[s].replies = Append(cas[s].replies, reply)
    BY ServeKeeps
  <2>2. Head(Append(<<>>, reply)) = reply
    OBVIOUS
  <2> QED
    BY <1>1, <2>1, <2>2, ServeKeeps DEF Sockets
<1>3. served' = IF n = 0 THEN served ELSE [served EXCEPT ![n] = served[n] + 1]
  BY DEF Serve
<1>4. n # 0 => Unserved(s, n) /\ n \in Calls
  BY <1>1 DEF Promised, Pending, Asked, Unserved
<1> HIDE DEF n
<1>5. /\ n # 0 => served'[n] = 1 /\ served' = [served EXCEPT ![n] = 1]
      /\ \A id \in Calls : id # n => served'[id] = served[id]
  <2>1. n # 0 => served' = [served EXCEPT ![n] = 1]
    <3>1. n # 0 => served[n] + 1 = 1
      BY <1>4 DEF Unserved
    <3>2. n # 0 => served' = [served EXCEPT ![n] = served[n] + 1]
      BY <1>3
    <3> QED
      BY <3>1, <3>2, Zenon
  <2>2. served \in [Calls -> Nat] /\ (n # 0 => n \in Calls)
    BY <1>4, CallersKnown
  <2> QED
    BY <1>3, <2>1, <2>2
<1>6. InOrder'
  BY <1>0 DEF Promised, InOrder
<1>7. Sent'
  <2> SUFFICES ASSUME NEW id \in Calls PROVE SentOnce(id)'
    BY <1>0 DEF Sent
  <2>1. SentOnce(id) /\ (InExchange(id)' <=> InExchange(id))
    BY <1>0 DEF Promised, Sent, InExchange
  <2>2. CASE id = n /\ n # 0
    BY <1>0, <1>4, <1>5, <2>1, <2>2 DEF SentOnce, Unserved, InExchange
  <2>3. CASE id # n \/ n = 0
    <3>1. served'[id] = served[id]
      BY <1>3, <1>5, <2>3
    <3> QED
      BY <1>0, <2>1, <3>1 DEF SentOnce
  <2> QED
    BY <2>2, <2>3
<1>8. Exchanged'
  <2> SUFFICES ASSUME pc = "exchange"
               PROVE  /\ cas'[socket].requests # <<>> =>
                           Head(cas'[socket].requests).id = Running.id
                      /\ cas'[socket].replies # <<>> =>
                           /\ Head(cas'[socket].replies).id = Running.id
                           /\ served'[Running.id] = 1
    BY <1>0 DEF Promised, Exchanged
  <2>1. socket \in Sockets /\ Running.id \in Calls /\ Running.id # 0
    BY RunningIsNext, CallersKnown, LenProperties
       DEF Promised, Typed, Control, AwaitsReply, TypeOK, PeersTyped, Sockets, Calls
  <2>2. CASE s = socket
    <3>1. n = Running.id
      BY <1>1, <2>2 DEF Promised, Exchanged, n
    <3> QED
      BY <1>1, <1>2, <1>5, <2>1, <2>2, <3>1
  <2>3. CASE s # socket
    <3>1. cas'[socket] = cas[socket] /\ sentOn[Running.id] = {socket}
      BY <1>2, <2>1, <2>3 DEF Promised, Exchanged
    <3>2. n # 0 => n # Running.id
      BY <1>4, <2>3, <3>1 DEF Unserved
    <3>3. served'[Running.id] = served[Running.id]
      BY <1>3, <1>5, <2>1, <3>2
    <3> QED
      BY <3>1, <3>3 DEF Promised, Exchanged
  <2> QED
    BY <2>2, <2>3
<1>9. Pending'
  <2> SUFFICES ASSUME NEW t \in Sockets, NEW id \in Nat \ {0}, Asked(t, id)'
               PROVE  Unserved(t, id)'
    BY <1>0 DEF Pending
  <2>1. t # s
    BY <1>1 DEF Asked
  <2>2. Asked(t, id) /\ Unserved(t, id)
    BY <1>2, <2>1 DEF Asked, Promised, Pending
  <2>3. n # 0 => n # id
    <3> SUFFICES ASSUME n # 0, n = id PROVE FALSE
      OBVIOUS
    <3>1. s \in sentOn[id] /\ t \in sentOn[id] /\ id \in Calls
      BY <1>4, <2>2 DEF Unserved
    <3> QED
      BY <2>1, <3>1 DEF Promised, Sent, SentOnce
  <2>4. served'[id] = served[id]
    BY <1>3, <1>5, <2>2, <2>3 DEF Unserved
  <2> QED
    BY <1>0, <2>2, <2>4 DEF Unserved, InExchange
<1> QED
  BY <1>0, <1>3, <1>4, <1>5, <1>6, <1>7, <1>8, <1>9 DEF Promised

LEMMA PromisedStep == Typed /\ Held /\ Sound /\ Promised /\ [Next]_vars => Promised'
<1> SUFFICES ASSUME Typed, Held, Sound, Promised, [Next]_vars PROVE Promised'
  OBVIOUS
<1> QED
  BY StepKinds, EnqueuePromised, SendPromised, AnsweredPromised, AsidePromised, EndsPromised,
     ServePromised

(* A caller is handed the reply to its own request, which ran exactly once,   *)
(* and no request runs twice, however many calls fail, time out or find their *)
(* session replaced.                                                          *)
THEOREM AnsweredOnce == Spec => []AnsweredExactlyOnce
<1>1. Promised => AnsweredExactlyOnce
  BY DEF Promised, Sent, SentOnce, AnsweredExactlyOnce
<1>2. Spec => [](Typed /\ Held /\ Sound /\ Promised)
  BY TypedInit, TypedStep, HeldInit, HeldStep, SoundInit, SoundStep, PromisedInit,
     PromisedStep, PTL DEF Spec
<1> QED
  BY <1>1, <1>2, PTL

-----------------------------------------------------------------------------
(* The step that drops a session which may hold a transaction fails the call  *)
(* it runs for, or is the discard or close its user asked for.                *)

LEMMA DropsNotSilently ==
  Typed /\ Held /\ Sound /\ Promised /\ [Next]_vars => ~DroppedSilently
<1> SUFFICES ASSUME Typed, Held, Sound, Promised, [Next]_vars, connected, ~connected',
                    ~outOfTransaction, Running.call \notin {"discardSession", "close"}
             PROVE  outcome'[Running.id].status = "failed"
  BY DEF DroppedSilently
<1> USE DEF transport, status, counters, locals, callers, history
<1>1. queue # <<>> /\ Settle("failed", 0) => outcome'[Running.id].status = "failed"
  <2> SUFFICES ASSUME queue # <<>>, Settle("failed", 0)
               PROVE  outcome'[Running.id].status = "failed"
    OBVIOUS
  <2>1. outcome'[Running.id] = [status |-> "failed", reply |-> 0]
    BY SettleKeeps DEF Promised
  <2> QED
    BY <2>1
<1>2. pc # "idle" => queue # <<>>
  BY DEF Typed, Control
<1>3. pc \notin Handshaking /\ (pc = "probing" => outOfTransaction)
      /\ (pc = "closing" => Running.call = "close")
  BY DEF Held, Verified, Sound, Awaited
<1>4. CASE Enqueue
  BY <1>4 DEF Enqueue
<1>5. CASE Begin
  BY <1>5 DEF Begin
<1>6. CASE Verify
  BY <1>3, <1>6 DEF Verify, VerifySkips, VerifyProbes, ProbeAnswered, ProbeFails, NeedsProbe
<1>7. CASE Connect
  BY <1>3, <1>7
     DEF Handshaking, Connect, AlreadyConnected, Connects, HandshakeBegins, BrokerUnreachable,
         BackoffElapses, BrokerAccepts, BrokerHandsOver, BrokerRedirects, RedirectAccepted,
         RedirectUnreachable, TlsUpgraded, HandshakeFails, DatabaseOpened
<1>8. CASE Apply
  BY <1>1, <1>2, <1>8
     DEF Apply, NothingToApply, SettingsHold, SendParameter, ParameterAnswered, SendHold,
         HoldAnswered, ApplyFails, ParametersInherited, ApplyToOpenSession
<1>9. CASE Exchange
  BY <1>1, <1>2, <1>9
     DEF Exchange, AbsentSession, SendRequest, ExchangeAnswered, ExchangeFails, MayExchange
<1>10. CASE Close
  BY <1>3, <1>10 DEF Close, DiscardSession, CloseFindsNoSocket, CloseSendsFrame, CloseTearsDown
<1>11. ASSUME NEW s \in Sockets, MarkDead(s) \/ Serve(s) \/ Leave(s) \/ Crash(s)
       PROVE  FALSE
  BY <1>11 DEF MarkDead, Serve, Leave, Crash
<1>12. CASE UNCHANGED vars
  BY <1>12 DEF vars
<1> QED
  BY <1>4, <1>5, <1>6, <1>7, <1>8, <1>9, <1>10, <1>11, <1>12 DEF Next, Step, Client

(* A session that may hold a transaction is never dropped behind its user's   *)
(* back, whatever the verification, the settings or a timeout made of it.     *)
THEOREM DroppedKnowingly == Spec => NeverDroppedSilently
<1>1. Spec => [](Typed /\ Held /\ Sound /\ Promised)
  BY TypedInit, TypedStep, HeldInit, HeldStep, SoundInit, SoundStep, PromisedInit,
     PromisedStep, PTL DEF Spec
<1> QED
  BY <1>1, DropsNotSilently, PTL DEF Spec, NeverDroppedSilently

-----------------------------------------------------------------------------
(* The connection implements the RequestQueue: enqueue() submits, a CAS that  *)
(* serves a caller's request runs it, the end of an operation tells its       *)
(* caller, and every other step is a step the callers do not see.             *)

Verdict == [id \in Calls |-> Told(id)]

LEMMA PromiseInit == Init => Promise!Init
<1> SUFFICES ASSUME Init PROVE Verdict = <<>> /\ served = <<>>
  BY DEF Promise!Init, Verdict
<1>1. Calls = {} /\ served = <<>>
  BY EmptySeq DEF Init, Calls
<1>2. Verdict \in [1..0 -> {}]
  BY <1>1 DEF Verdict
<1>3. Verdict \in Seq({}) /\ Len(Verdict) = 0
  BY <1>2, SeqDef
<1> QED
  BY <1>1, <1>3, EmptySeq

LEMMA SubmitStep ==
  ASSUME Typed, Promised, Enqueue
  PROVE  Promise!Submit
<1>1. /\ Len(outcome) \in Nat /\ Calls = 1..Len(outcome)
      /\ Calls' = 1..(Len(outcome) + 1)
      /\ \A id \in Calls : outcome'[id] = outcome[id] /\ sentOn'[id] = sentOn[id]
      /\ outcome'[Len(outcome) + 1].status = "waiting"
  <2>1. outcome'[Len(outcome) + 1] = [status |-> "waiting", reply |-> 0]
    BY EnqueueKeeps DEF Promised
  <2>2. outcome'[Len(outcome) + 1].status = "waiting"
    BY <2>1
  <2> QED
    BY <2>2, EnqueueKeeps, CallersKnown DEF Promised, Calls
<1>2. /\ \A id \in Calls : Told(id)' = Told(id)
      /\ \A id : id = Len(outcome) + 1 => Told(id)' = "waiting"
  <2>1. \A id \in Calls : Told(id)' = Told(id)
    BY <1>1 DEF Told
  <2>2. \A id : outcome'[id].status = "waiting" => Told(id)' = "waiting"
    BY DEF Told
  <2> QED
    BY <1>1, <2>1, <2>2
<1>3. Verdict' = Append(Verdict, "waiting")
  BY <1>1, <1>2 DEF Verdict
<1>4. served' = Append(served, 0)
  BY DEF Enqueue
<1> QED
  BY <1>3, <1>4 DEF Promise!Submit, Verdict

\* What the callers were told depends on their outcomes and whether a request was sent.
LEMMA ToldSame ==
  ASSUME Calls' = Calls, NEW id \in Calls, outcome'[id] = outcome[id],
         outcome[id].status = "failed" => sentOn'[id] = sentOn[id]
  PROVE  Told(id)' = Told(id)
  BY DEF Told

LEMMA SendUnseen ==
  ASSUME Typed, Held, Promised, SendRequest
  PROVE  UNCHANGED <<Verdict, served>>
<1>1. UNCHANGED <<outcome, served>> /\ Calls' = Calls
  BY DEF SendRequest, callers, Calls
<1>2. \A id \in Calls : outcome[id].status = "failed" => sentOn'[id] = sentOn[id]
  <2>1. outcome[Running.id].status = "waiting"
    BY SendPromised
  <2>2. sentOn' = [sentOn EXCEPT ![Running.id] = sentOn[Running.id] \cup {socket}]
    BY DEF SendRequest
  <2> QED
    BY <2>1, <2>2, CallersKnown
<1>3. \A id \in Calls : Told(id)' = Told(id)
  BY <1>1, <1>2, ToldSame
<1> QED
  BY <1>1, <1>3 DEF Verdict

\* The end of the running operation tells its caller something.
LEMMA TellStep ==
  ASSUME Typed, InOrder, queue # <<>>, UNCHANGED <<sentOn, served>>,
         NEW result, NEW reply, result # "waiting", Settle(result, reply),
         NEW n, n = Running.id,
         NEW verdict \in Promise!Verdicts, verdict = Told(n)',
         verdict = "answered" => served[n] = 1,
         verdict \in {"unsent", "none"} => served[n] = 0
  PROVE  Promise!Next
<1>1. /\ n \in Calls /\ Calls' = Calls
      /\ outcome[n].status = "waiting"
      /\ \A id \in Calls : id < n => outcome[id].status # "waiting"
      /\ \A id \in Calls : id # n => outcome'[id] = outcome[id]
  BY RunningIsNext, SettleKeeps
<1>2. /\ Verdict[n] = "waiting" /\ DOMAIN Verdict = Calls
      /\ \A id \in Calls : id < n => Verdict[id] # "waiting"
  <2>1. \A id \in Calls : outcome[id].status = "waiting" <=> Told(id) = "waiting"
    BY DEF Told
  <2> QED
    BY <1>1, <2>1 DEF Verdict
<1>3. \A id \in Calls : id # n => Told(id)' = Told(id)
  BY <1>1, ToldSame
<1>4. Verdict' = [Verdict EXCEPT ![n] = verdict]
  BY <1>1, <1>3 DEF Verdict
<1>5. Promise!Tell(n, verdict)
  BY <1>1, <1>2, <1>4
     DEF Promise!Tell, Promise!Current, Promise!Requests, Verdict
<1> QED
  BY <1>1, <1>5, <1>2 DEF Promise!Next, Promise!Requests, Verdict

LEMMA AnsweredTells ==
  ASSUME Typed, Held, Promised, ExchangeAnswered
  PROVE  Promise!Next
<1>1. /\ queue # <<>> /\ UNCHANGED <<sentOn, served>> /\ Settle("answered", Answer.id)
      /\ Answer.id = Running.id /\ served[Running.id] = 1
  BY AnsweredPromised DEF ExchangeAnswered, history, Typed, Control
<1>2. outcome'[Running.id] = [status |-> "answered", reply |-> Answer.id]
  BY <1>1, SettleKeeps DEF Promised
<1> PICK n : n = Running.id
  OBVIOUS
<1>3. Told(n)' = "answered"
  <2>1. outcome'[n].status = "answered" /\ outcome'[n].reply = n
    BY <1>1, <1>2
  <2> QED
    BY <2>1 DEF Told
<1>4. "answered" \in Promise!Verdicts /\ "answered" # "waiting"
      /\ "answered" \notin {"unsent", "none"}
  BY DEF Promise!Verdicts
<1> QED
  BY <1>1, <1>3, <1>4, TellStep DEF Promised

LEMMA EndsTells ==
  ASSUME Typed, Promised, Ends
  PROVE  Promise!Next
<1>1. PICK result \in {"done", "absent", "failed"} :
        Settle(result, 0) /\ (pc = "exchange" => result = "failed")
  BY DEF Ends
<1>2. queue # <<>> /\ UNCHANGED <<sentOn, served>> /\ result # "waiting"
  BY DEF Ends
<1> PICK n : n = Running.id
  OBVIOUS
<1>3. outcome'[n].status = result
  <2>1. outcome'[n] = [status |-> result, reply |-> 0]
    BY <1>1, <1>2, SettleKeeps DEF Promised
  <2> QED
    BY <2>1
<1> DEFINE verdict == CASE result = "failed" /\ sentOn[n] = {} -> "unsent"
                        [] result \in {"done", "absent"} -> "none"
                        [] OTHER -> "failed"
<1>4. verdict \in Promise!Verdicts /\ verdict = Told(n)'
  BY <1>2, <1>3 DEF Promise!Verdicts, Told
<1>5. verdict \in {"unsent", "none"} => served[n] = 0
  <2>1. n \in Calls /\ outcome[n].status = "waiting"
    BY <1>2, RunningIsNext DEF Promised
  <2>2. verdict \in {"unsent", "none"} => sentOn[n] = {}
    BY <1>1, <2>1 DEF Promised, Sent, SentOnce, InExchange
  <2> QED
    BY <2>1, <2>2 DEF Promised, Sent, SentOnce
<1>6. verdict # "answered"
  OBVIOUS
<1> HIDE DEF verdict
<1> QED
  BY <1>1, <1>2, <1>4, <1>5, <1>6, TellStep DEF Promised

LEMMA RunStep ==
  ASSUME Typed, Held, Promised, NEW s \in Sockets, Serve(s)
  PROVE  Promise!Next \/ UNCHANGED <<Verdict, served>>
<1>1. UNCHANGED <<outcome, sentOn, Calls, Verdict>>
  BY ServePromised DEF Calls, Verdict, Told
<1>2. CASE UNCHANGED served
  BY <1>1, <1>2
<1>3. ASSUME NEW id \in Calls, Unserved(s, id), served' = [served EXCEPT ![id] = 1]
      PROVE  Promise!Next
  <2>1. DOMAIN Verdict = Calls /\ \A k \in Calls : Verdict[k] = Told(k)
    BY DEF Verdict
  <2>2. CASE InExchange(id)
    <3>1. /\ outcome[id].status = "waiting"
          /\ \A k \in Calls : k < id => outcome[k].status # "waiting"
      BY <2>2, RunningIsNext DEF InExchange, Promised, Typed, Control
    <3>2. \A k \in Calls : outcome[k].status = "waiting" <=> Told(k) = "waiting"
      BY DEF Told
    <3>3. Promise!Run(id)
      BY <1>1, <1>3, <2>1, <3>1, <3>2
         DEF Promise!Run, Promise!Current, Promise!Requests, Unserved, Verdict
    <3> QED
      BY <2>1, <3>3 DEF Promise!Next, Promise!Requests, Verdict
  <2>3. CASE outcome[id].status = "failed"
    <3>1. Told(id) = "failed"
      BY <1>3, <2>3 DEF Told, Unserved
    <3>2. Promise!Run(id)
      BY <1>1, <1>3, <2>1, <3>1 DEF Promise!Run, Unserved, Verdict
    <3> QED
      BY <2>1, <3>2 DEF Promise!Next, Promise!Requests, Verdict
  <2> QED
    BY <1>3, <2>2, <2>3 DEF Unserved
<1> QED
  BY <1>2, <1>3, ServePromised

LEMMA PromiseStep ==
  Typed /\ Held /\ Sound /\ Promised /\ [Next]_vars =>
    [Promise!Next]_<<Verdict, served>>
<1> SUFFICES ASSUME Typed, Held, Sound, Promised, [Next]_vars
             PROVE  Promise!Next \/ UNCHANGED <<Verdict, served>>
  OBVIOUS
<1>1. CASE Enqueue
  BY <1>1, SubmitStep DEF Promise!Next
<1>2. CASE SendRequest
  BY <1>2, SendUnseen
<1>3. CASE ExchangeAnswered
  BY <1>3, AnsweredTells
<1>4. CASE Aside
  <2>1. UNCHANGED <<outcome, sentOn, served, Calls>>
    BY <1>4 DEF Aside, Calls
  <2> QED
    BY <2>1 DEF Verdict, Told
<1>5. CASE Ends
  BY <1>5, EndsTells
<1>6. ASSUME NEW s \in Sockets, Serve(s) PROVE Promise!Next \/ UNCHANGED <<Verdict, served>>
  BY <1>6, RunStep
<1> QED
  BY <1>1, <1>2, <1>3, <1>4, <1>5, <1>6, StepKinds

(* Seen from its callers the connection is the abstract RequestQueue, whatever *)
(* becomes of sockets, sessions and the requests that were on their way.       *)
THEOREM PromiseKept == Spec => KeepsPromise
<1>1. Spec => [](Typed /\ Held /\ Sound /\ Promised)
  BY TypedInit, TypedStep, HeldInit, HeldStep, SoundInit, SoundStep, PromisedInit,
     PromisedStep, PTL DEF Spec
<1>2. Spec => Promise!Init /\ [][Promise!Next]_<<Verdict, served>>
  BY <1>1, PromiseInit, PromiseStep, PTL DEF Spec
<1> QED
  BY <1>2, PTL DEF KeepsPromise, Promise!Spec, Verdict

=============================================================================
