---------------------------- MODULE CASConnection ----------------------------
(***************************************************************************)
(* One CASConnection (src/src/protocol/connection.ts): the socket to a     *)
(* CUBRID CAS, the session opened on it, and the FIFO queue through which  *)
(* every public operation runs.                                            *)
(*                                                                         *)
(* An operation runs from one await to the next without interruption, so   *)
(* an action is what the code does between two awaits; pc names the await  *)
(* (or the point of the code) the running operation has reached.  Between  *)
(* two awaits no socket event is delivered: the event loop only gets there *)
(* when the operation waits.                                               *)
(*                                                                         *)
(* The broker and the CAS processes are not part of the repository.  They  *)
(* are modelled from what connection.ts says and assumes of them: a CAS    *)
(* out of transaction may leave for another client at any moment, a CAS    *)
(* in transaction may only crash, SET_DB_PARAMETER replies OUT_TRAN, and   *)
(* CHECK_CAS holds the CAS until the next request ends.                    *)
(*                                                                         *)
(* Definitions named Wrong... are deliberate bugs, used only to show that  *)
(* a property notices them; no specification here refers to one.           *)
(***************************************************************************)
EXTENDS Integers, Sequences, FiniteSets

CONSTANTS
  Operations,       \* the public operations the callers use (subset of OpNames)
  Functions,        \* the function codes they hand to the exchanges
  Parameters,       \* names of server session parameters
  Values,           \* values a session parameter may be given
  Default,          \* what the server starts a parameter with; no member of Values
  ParameterLists,   \* the lists given to the constructor and setSessionParameters
  Retries,          \* config.maxConnectionRetryCount
  ReadTimeouts,     \* subset of BOOLEAN: whether config.readTimeout is set
  Ssl,              \* BOOLEAN: config.ssl
  MaxCalls,         \* bound: operations called in one behaviour
  MaxFaults         \* bound: CAS crashes and unreadable frames in one behaviour

OpNames == {"connect", "ensureSession", "sendAndRecv", "sendAndRecvOnSession",
            "releaseOnSession", "setSessionParameters", "discardSession", "close"}

SessionParameter == [parameter : Parameters, value : Values]

ASSUME OperationsAssumption == Operations \subseteq OpNames
ASSUME FunctionsAssumption == Functions \subseteq {"STATEMENT", "END_TRAN"}
ASSUME ParametersAssumption ==
  /\ Default \notin Values
  /\ ParameterLists \subseteq Seq(SessionParameter)
  /\ \A l \in ParameterLists : \A i, j \in 1..Len(l) :
       l[i].parameter = l[j].parameter => i = j
ASSUME BoundsAssumption ==
  /\ Retries \in Nat /\ MaxCalls \in Nat /\ MaxFaults \in Nat
  /\ Ssl \in BOOLEAN
ASSUME TimeoutsAssumption == ReadTimeouts \subseteq BOOLEAN

VARIABLES
  \* The fields of CASConnection.  0 stands for the null socket.
  socket, connected, socketDead, inHandshake, generation,
  outOfTransaction, casVerified, settingUp, sessionParameters,
  failedExchanges, outOfTransactionReplies,
  \* The tail of enqueued operations; its head is the running one.
  queue,
  \* Where the running operation is, and its local variables.
  pc, attempt, index, startGeneration,
  \* What each caller was told, indexed by the number of its call.
  outcome,
  \* The other end of every socket opened so far, and the faults it had.
  cas, faults,
  \* History: the sockets a call's own request was written to, and how often
  \* a CAS ran it.
  sentOn, served,
  \* config.readTimeout is set, and arms a timer for every read.
  readTimeout

transport == <<socket, connected, socketDead, inHandshake, generation>>
status    == <<outOfTransaction, casVerified, settingUp>>
counters  == <<failedExchanges, outOfTransactionReplies>>
locals    == <<attempt, index, startGeneration>>
callers   == <<queue, outcome>>
history   == <<sentOn, served>>
vars == <<transport, status, counters, locals, callers, history,
          sessionParameters, pc, cas, faults, readTimeout>>

-----------------------------------------------------------------------------
(* Records and small operators.                                            *)

OnSession == {"sendAndRecvOnSession", "releaseOnSession"}
Exchanging == OnSession \cup {"sendAndRecv"}

\* "NONE" and the empty list stand where an operation has no such argument.
Op == {o \in [id : Nat, call : OpNames, generation : Nat,
               fn : Functions \cup {"CLOSE_HANDLE", "NONE"},
               parameters : ParameterLists \cup {<<>>}] :
         /\ o.call \in Exchanging => o.fn # "NONE"
         /\ o.call = "setSessionParameters" => o.parameters \in ParameterLists}

\* id 0 marks the requests the connection sends on its own account.
Request == [fn : Functions \cup {"CLOSE_HANDLE", "CHECK_CAS", "SET_DB_PARAMETER", "CON_CLOSE"},
            id : Nat, set : Seq(SessionParameter)]

Reply == [id : Nat, outTran : BOOLEAN, form : {"ok", "error", "unreadable"}]

CAS == [state : {"up", "left", "crashed"}, generation : Nat, inTran : BOOLEAN,
        settings : [Parameters -> Values \cup {Default}],
        requests : Seq(Request), replies : Seq(Reply)]

Outcome == [status : {"waiting", "answered", "done", "absent", "failed"}, reply : Nat]

\* The points at which the running operation waits for the event loop.
Waits == {"idle", "probing", "broker", "port", "redirect", "tls", "open",
          "backoff", "setting", "holding", "exchange", "closing"}
\* The points it only passes through.
Points == {"verify", "handshake", "apply", "body"}
AwaitsReply == {"probing", "setting", "holding", "exchange"}

Running == Head(queue)
Sockets == 1..Len(cas)
NewSocket == [state |-> "up", generation |-> 0, inTran |-> TRUE,
              settings |-> [p \in Parameters |-> Default],
              requests |-> <<>>, replies |-> <<>>]

\* Whether a session with these settings holds every parameter of the list.
Holds(settings, list) ==
  \A i \in 1..Len(list) : settings[list[i].parameter] = list[i].value

\* isConnected: the transport is up and its settings hold.
IsConnected == connected /\ ~settingUp

\* send() throws without writing unless this holds.
CanSend == socket # 0 /\ connected /\ ~socketDead

Put(request) == cas' = [cas EXCEPT ![socket].requests = Append(@, request)]
TakeReply == cas' = [cas EXCEPT ![socket].replies = Tail(@)]

\* The reply that recv() reads next, and the ways it can fail to: the socket
\* ended before a reply, the frame has an impossible length, the peer was quiet
\* for the read timeout (during a handshake there always is one).
Answer == Head(cas[socket].replies)
Readable == cas[socket].replies # <<>> /\ Answer.form # "unreadable"
WrongTimeoutOnlyInHandshake == inHandshake
TimeoutArmed == readTimeout \/ inHandshake
ReadFails ==
  \/ cas[socket].replies = <<>> /\ cas[socket].state # "up"
  \/ cas[socket].replies # <<>> /\ Answer.form = "unreadable"
  \/ TimeoutArmed

\* retireSocket(), and what every handshake failure does to the transport.
WrongKeepSocket == UNCHANGED <<socket, connected>>
RetireSocket ==
  /\ socket' = 0
  /\ connected' = FALSE

\* The caller of the running operation learns its outcome; the next may start.
Settle(result, reply) ==
  /\ outcome' = [outcome EXCEPT ![Running.id] = [status |-> result, reply |-> reply]]
  /\ queue' = Tail(queue)
  /\ pc' = "idle"

-----------------------------------------------------------------------------
(* Calls and the queue.                                                    *)

Arguments(call) ==
  CASE call = "sendAndRecv" ->
         {[generation |-> 0, fn |-> f, parameters |-> <<>>] : f \in Functions}
    [] call = "sendAndRecvOnSession" ->
         {[generation |-> g, fn |-> f, parameters |-> <<>>] :
            g \in 1..generation, f \in Functions}
    [] call = "releaseOnSession" ->
         {[generation |-> g, fn |-> "CLOSE_HANDLE", parameters |-> <<>>] : g \in 1..generation}
    [] call = "setSessionParameters" ->
         {[generation |-> 0, fn |-> "NONE", parameters |-> l] : l \in ParameterLists}
    [] OTHER -> {[generation |-> 0, fn |-> "NONE", parameters |-> <<>>]}

\* enqueue(): a public operation joins the tail, whatever is running.
Enqueue ==
  /\ Len(outcome) < MaxCalls
  /\ \E call \in Operations : \E a \in Arguments(call) :
       queue' = Append(queue, [id |-> Len(outcome) + 1, call |-> call,
                               generation |-> a.generation, fn |-> a.fn,
                               parameters |-> a.parameters])
  /\ outcome' = Append(outcome, [status |-> "waiting", reply |-> 0])
  /\ sentOn' = Append(sentOn, {})
  /\ served' = Append(served, 0)
  /\ UNCHANGED <<transport, status, counters, locals, sessionParameters, pc, cas, faults>>

Verifying == {"ensureSession", "sendAndRecv", "setSessionParameters"}

\* The head of the queue starts once everything before it settled.
Begin ==
  /\ pc = "idle" /\ queue # <<>>
  /\ pc' = IF Running.call \in Verifying THEN "verify" ELSE "body"
  /\ IF Running.call = "setSessionParameters"
       THEN /\ sessionParameters' = Running.parameters
            /\ startGeneration' = generation
       ELSE UNCHANGED <<sessionParameters, startGeneration>>
  /\ UNCHANGED <<transport, status, counters, callers, history, attempt, index, cas, faults>>

-----------------------------------------------------------------------------
(* verifySessionUnlocked() and probeCasUnlocked().                          *)

WrongProbeOnlyIfSeenDead == connected /\ outOfTransaction /\ socketDead
WrongProbeAnySession == connected /\ ~casVerified
NeedsProbe == connected /\ outOfTransaction /\ ~casVerified

VerifySkips ==
  /\ pc = "verify" /\ ~NeedsProbe
  /\ pc' = "body"
  /\ UNCHANGED <<transport, status, counters, locals, callers, history,
                 sessionParameters, cas, faults>>

VerifyProbes ==
  /\ pc = "verify" /\ NeedsProbe /\ CanSend
  /\ Put([fn |-> "CHECK_CAS", id |-> 0, set |-> <<>>])
  /\ pc' = "probing"
  /\ UNCHANGED <<transport, status, counters, locals, callers, history,
                 sessionParameters, faults>>

ProbeAnswered ==
  /\ pc = "probing" /\ Readable /\ Answer.form = "ok"
  /\ TakeReply
  /\ casVerified' = TRUE
  /\ pc' = "body"
  /\ UNCHANGED <<transport, outOfTransaction, settingUp, counters, locals, callers,
                 history, sessionParameters, faults>>

\* Every failure of the probe means the session is replaced: connectUnlocked().
ProbeFails ==
  /\ \/ pc = "verify" /\ NeedsProbe /\ ~CanSend
     \/ pc = "probing" /\ ReadFails
     \/ pc = "probing" /\ Readable /\ Answer.form = "error"
  /\ RetireSocket
  /\ attempt' = 0
  /\ pc' = "handshake"
  /\ UNCHANGED <<socketDead, inHandshake, generation, status, counters, index,
                 startGeneration, callers, history, sessionParameters, cas, faults>>

-----------------------------------------------------------------------------
(* connectUnlocked() and handshakeUnlocked().                               *)

\* connect() and ensureSession() return at once on an open session.
AlreadyConnected ==
  /\ pc = "body" /\ Running.call \in {"connect", "ensureSession"} /\ connected
  /\ Settle("done", 0)
  /\ UNCHANGED <<transport, status, counters, locals, history, sessionParameters, cas, faults>>

Connects ==
  /\ pc = "body" /\ Running.call \in {"connect", "ensureSession"} /\ ~connected
  /\ attempt' = 0
  /\ pc' = "handshake"
  /\ UNCHANGED <<transport, status, counters, index, startGeneration, callers, history,
                 sessionParameters, cas, faults>>

HandshakeBegins ==
  /\ pc = "handshake"
  /\ socketDead' = FALSE
  /\ inHandshake' = TRUE
  /\ pc' = "broker"
  /\ UNCHANGED <<socket, connected, generation, status, counters, locals, callers,
                 history, sessionParameters, cas, faults>>

WrongRetryOnceTooOften ==
  IF attempt <= Retries
    THEN attempt' = attempt + 1 /\ pc' = "backoff" /\ UNCHANGED callers
    ELSE Settle("failed", 0) /\ UNCHANGED attempt

WrongRetryForever == pc' = "backoff" /\ UNCHANGED <<attempt, callers>>

\* Only a SocketConnectError is tried again, after a pause.
RetryOrFail ==
  IF attempt < Retries
    THEN /\ attempt' = attempt + 1
         /\ pc' = "backoff"
         /\ UNCHANGED callers
    ELSE /\ Settle("failed", 0)
         /\ UNCHANGED attempt

\* The first createSocket() is outside the try: nothing is reset, not even inHandshake.
BrokerUnreachable ==
  /\ pc = "broker"
  /\ RetryOrFail
  /\ UNCHANGED <<transport, status, counters, index, startGeneration, history,
                 sessionParameters, cas, faults>>

BackoffElapses ==
  /\ pc = "backoff"
  /\ pc' = "handshake"
  /\ UNCHANGED <<transport, status, counters, locals, callers, history,
                 sessionParameters, cas, faults>>

BrokerAccepts ==
  /\ pc = "broker"
  /\ cas' = Append(cas, NewSocket)
  /\ pc' = "port"
  /\ UNCHANGED <<transport, status, counters, locals, callers, history,
                 sessionParameters, faults>>

AfterRedirect == IF Ssl THEN "tls" ELSE "open"

\* Port 0: the broker socket itself now leads to the CAS.
BrokerHandsOver ==
  /\ pc = "port"
  /\ socket' = Len(cas)
  /\ pc' = AfterRedirect
  /\ UNCHANGED <<connected, socketDead, inHandshake, generation, status, counters, locals,
                 callers, history, sessionParameters, cas, faults>>

\* Any other port: the broker socket is destroyed and another one opened.
BrokerRedirects ==
  /\ pc = "port"
  /\ pc' = "redirect"
  /\ UNCHANGED <<transport, status, counters, locals, callers, history,
                 sessionParameters, cas, faults>>

RedirectAccepted ==
  /\ pc = "redirect"
  /\ cas' = Append(cas, NewSocket)
  /\ socket' = Len(cas) + 1
  /\ pc' = AfterRedirect
  /\ UNCHANGED <<connected, socketDead, inHandshake, generation, status, counters, locals,
                 callers, history, sessionParameters, faults>>

TlsUpgraded ==
  /\ pc = "tls"
  /\ pc' = "open"
  /\ UNCHANGED <<transport, status, counters, locals, callers, history,
                 sessionParameters, cas, faults>>

\* The catch and finally of handshakeUnlocked().
AbandonHandshake ==
  /\ RetireSocket
  /\ settingUp' = FALSE
  /\ inHandshake' = FALSE
  /\ UNCHANGED <<socketDead, generation, outOfTransaction, casVerified>>

RedirectUnreachable ==
  /\ pc = "redirect"
  /\ AbandonHandshake
  /\ RetryOrFail
  /\ UNCHANGED <<counters, index, startGeneration, history, sessionParameters, cas, faults>>

\* The broker rejects the client, or an exchange before the session is open fails.
HandshakeFails ==
  /\ pc \in {"port", "tls", "open"}
  /\ AbandonHandshake
  /\ Settle("failed", 0)
  /\ UNCHANGED <<counters, locals, history, sessionParameters, cas, faults>>

DatabaseOpened ==
  /\ pc = "open"
  /\ generation' = generation + 1
  /\ cas' = [cas EXCEPT ![socket].generation = generation + 1]
  /\ outOfTransaction' = FALSE
  /\ casVerified' = FALSE
  /\ connected' = TRUE
  /\ settingUp' = TRUE
  /\ index' = 1
  /\ pc' = "apply"
  /\ UNCHANGED <<socket, socketDead, inHandshake, counters, attempt, startGeneration, callers,
                 history, sessionParameters, faults>>

-----------------------------------------------------------------------------
(* applySessionParametersUnlocked(), from a handshake (settingUp) or from   *)
(* setSessionParameters().                                                 *)

\* What follows once the session holds its settings.
SettingsHold ==
  /\ settingUp' = FALSE
  /\ inHandshake' = IF settingUp THEN FALSE ELSE inHandshake
  /\ IF settingUp
       THEN pc' = "body" /\ UNCHANGED callers
       ELSE Settle("done", 0)
  /\ UNCHANGED <<socket, connected, socketDead, generation>>

WrongSettingsWithoutHold ==
  /\ pc = "apply" /\ index > Len(sessionParameters)
  /\ SettingsHold
  /\ UNCHANGED <<outOfTransaction, casVerified, counters, locals, history,
                 sessionParameters, cas, faults>>

NothingToApply ==
  /\ pc = "apply" /\ sessionParameters = <<>>
  /\ SettingsHold
  /\ UNCHANGED <<outOfTransaction, casVerified, counters, locals, history,
                 sessionParameters, cas, faults>>

SendParameter ==
  /\ pc = "apply" /\ CanSend /\ index \in 1..Len(sessionParameters)
  /\ Put([fn |-> "SET_DB_PARAMETER", id |-> 0, set |-> <<sessionParameters[index]>>])
  /\ pc' = "setting"
  /\ UNCHANGED <<transport, status, counters, locals, callers, history,
                 sessionParameters, faults>>

ParameterAnswered ==
  /\ pc = "setting" /\ Readable /\ Answer.form = "ok"
  /\ TakeReply
  /\ index' = index + 1
  /\ pc' = "apply"
  /\ UNCHANGED <<transport, status, counters, attempt, startGeneration, callers, history,
                 sessionParameters, faults>>

\* The closing CHECK_CAS holds the CAS, which every SET_DB_PARAMETER released.
SendHold ==
  /\ pc = "apply" /\ CanSend /\ sessionParameters # <<>> /\ index > Len(sessionParameters)
  /\ Put([fn |-> "CHECK_CAS", id |-> 0, set |-> <<>>])
  /\ pc' = "holding"
  /\ UNCHANGED <<transport, status, counters, locals, callers, history,
                 sessionParameters, faults>>

HoldAnswered ==
  /\ pc = "holding" /\ Readable /\ Answer.form = "ok"
  /\ TakeReply
  /\ outOfTransaction' = Answer.outTran
  /\ casVerified' = TRUE
  /\ SettingsHold
  /\ UNCHANGED <<counters, locals, history, sessionParameters, faults>>

\* No session may survive that lacks some of its settings.  In a handshake this
\* is the catch of handshakeUnlocked(), otherwise that of setSessionParameters().
ApplyFails ==
  /\ \/ pc = "apply" /\ sessionParameters # <<>> /\ ~CanSend
     \/ pc \in {"setting", "holding"} /\ ReadFails
     \/ pc \in {"setting", "holding"} /\ Readable /\ Answer.form = "error"
  /\ RetireSocket
  /\ settingUp' = FALSE
  /\ inHandshake' = IF settingUp THEN FALSE ELSE inHandshake
  /\ Settle("failed", 0)
  /\ UNCHANGED <<socketDead, generation, outOfTransaction, casVerified, counters, locals,
                 history, sessionParameters, cas, faults>>

-----------------------------------------------------------------------------
(* setSessionParameters() after its verification.                          *)

\* No session, or one opened by the verification, which already has them.
ParametersInherited ==
  /\ pc = "body" /\ Running.call = "setSessionParameters"
  /\ ~connected \/ generation # startGeneration
  /\ Settle("done", 0)
  /\ UNCHANGED <<transport, status, counters, locals, history, sessionParameters, cas, faults>>

ApplyToOpenSession ==
  /\ pc = "body" /\ Running.call = "setSessionParameters"
  /\ connected /\ generation = startGeneration
  /\ index' = 1
  /\ pc' = "apply"
  /\ UNCHANGED <<transport, status, counters, attempt, startGeneration, callers, history,
                 sessionParameters, cas, faults>>

-----------------------------------------------------------------------------
(* The exchanges: sendAndRecv(), sendAndRecvOnSession(), releaseOnSession() *)
(* and exchangeUnlocked().                                                  *)

WrongAnySession == connected

\* The guard of the two session-bound exchanges.
OwnSession == connected /\ generation = Running.generation

AbsentSession ==
  /\ pc = "body" /\ Running.call \in OnSession /\ ~OwnSession
  /\ Settle("absent", 0)
  /\ UNCHANGED <<transport, status, counters, locals, history, sessionParameters, cas, faults>>

MayExchange ==
  /\ pc = "body" /\ Running.call \in Exchanging
  /\ Running.call \in OnSession => OwnSession

SendRequest ==
  /\ MayExchange /\ CanSend
  /\ Put([fn |-> Running.fn, id |-> Running.id, set |-> <<>>])
  /\ sentOn' = [sentOn EXCEPT ![Running.id] = @ \cup {socket}]
  /\ pc' = "exchange"
  /\ UNCHANGED <<transport, status, counters, locals, callers, served,
                 sessionParameters, faults>>

ExchangeAnswered ==
  /\ pc = "exchange" /\ Readable
  /\ TakeReply
  /\ outOfTransaction' = Answer.outTran
  /\ casVerified' = FALSE
  /\ outOfTransactionReplies' =
       IF Answer.outTran /\ Running.fn # "END_TRAN"
         THEN outOfTransactionReplies + 1 ELSE outOfTransactionReplies
  /\ Settle("answered", Answer.id)
  /\ UNCHANGED <<transport, settingUp, failedExchanges, locals, history,
                 sessionParameters, faults>>

WrongReplay ==
  /\ \/ MayExchange /\ ~CanSend
     \/ pc = "exchange" /\ ReadFails
  /\ RetireSocket
  /\ attempt' = 0 /\ pc' = "handshake"
  /\ UNCHANGED <<socketDead, inHandshake, generation, status, counters, index,
                 startGeneration, callers, history, sessionParameters, cas, faults>>

\* The position in the reply stream is unknown now, so the socket goes.
ExchangeFails ==
  /\ \/ MayExchange /\ ~CanSend
     \/ pc = "exchange" /\ ReadFails
  /\ failedExchanges' = failedExchanges + (IF Running.call = "releaseOnSession" THEN 0 ELSE 1)
  /\ RetireSocket
  /\ Settle("failed", 0)
  /\ UNCHANGED <<socketDead, inHandshake, generation, status, outOfTransactionReplies,
                 locals, history, sessionParameters, cas, faults>>

-----------------------------------------------------------------------------
(* discardSession() and close().                                           *)

DiscardSession ==
  /\ pc = "body" /\ Running.call = "discardSession"
  /\ failedExchanges' = failedExchanges + 1
  /\ RetireSocket
  /\ Settle("done", 0)
  /\ UNCHANGED <<socketDead, inHandshake, generation, status, outOfTransactionReplies,
                 locals, history, sessionParameters, cas, faults>>

CloseFindsNoSocket ==
  /\ pc = "body" /\ Running.call = "close" /\ socket = 0
  /\ Settle("done", 0)
  /\ UNCHANGED <<transport, status, counters, locals, history, sessionParameters, cas, faults>>

\* The beforeClose hook of the adapter writes CON_CLOSE and awaits no reply.
CloseSendsFrame ==
  /\ pc = "body" /\ Running.call = "close" /\ CanSend
  /\ Put([fn |-> "CON_CLOSE", id |-> 0, set |-> <<>>])
  /\ pc' = "closing"
  /\ UNCHANGED <<transport, status, counters, locals, callers, history,
                 sessionParameters, faults>>

\* The hook settled, or its send() threw at once; both are ignored.
CloseTearsDown ==
  /\ \/ pc = "closing"
     \/ pc = "body" /\ Running.call = "close" /\ socket # 0 /\ ~CanSend
  /\ RetireSocket
  /\ socketDead' = FALSE
  /\ Settle("done", 0)
  /\ UNCHANGED <<inHandshake, generation, status, counters, locals, history,
                 sessionParameters, cas, faults>>

-----------------------------------------------------------------------------
(* trackSocketDeath(): "end", "close" and "error" of any socket, in any      *)
(* order and number, once its peer is gone or it was destroyed here.         *)

Opening(s) == s = Len(cas) /\ pc \in {"port", "tls", "open"}
Gone(s) == cas[s].state # "up" \/ (s # socket /\ ~Opening(s))

WrongMarkAnyDead(s) ==
  /\ pc \in Waits
  /\ Gone(s)
  /\ socketDead' = TRUE
  /\ UNCHANGED <<socket, connected, inHandshake, generation, status, counters, locals,
                 callers, history, sessionParameters, pc, cas, faults>>

MarkDead(s) ==
  /\ pc \in Waits
  /\ Gone(s)
  /\ socketDead' = (socketDead \/ socket = s)
  /\ UNCHANGED <<socket, connected, inHandshake, generation, status, counters, locals,
                 callers, history, sessionParameters, pc, cas, faults>>

-----------------------------------------------------------------------------
(* External: the CAS at the other end of socket s.                          *)

\* The OUT_TRAN statuses a reply to the request may carry.
StatusAfter(fn) ==
  CASE fn = "CHECK_CAS" -> {FALSE}
    [] fn \in {"SET_DB_PARAMETER", "END_TRAN"} -> {TRUE}
    [] OTHER -> BOOLEAN

Applied(settings, set) ==
  IF set = <<>> THEN settings ELSE [settings EXCEPT ![set[1].parameter] = set[1].value]

\* An error in reply to a caller's request is an answer like any other here.
Forms(fn) ==
  IF fn \in {"CHECK_CAS", "SET_DB_PARAMETER"} THEN {"ok", "error", "unreadable"}
                                             ELSE {"ok", "unreadable"}

\* It runs the oldest request and replies, even a caller's request on a socket
\* the client gave up.
Serve(s) ==
  /\ cas[s].state = "up" /\ cas[s].requests # <<>>
  /\ LET r == Head(cas[s].requests)
     IN  /\ r.fn # "CON_CLOSE" /\ (s = socket \/ r.id # 0)
         /\ \E outTran \in StatusAfter(r.fn), form \in Forms(r.fn) :
              /\ form = "unreadable" => faults < MaxFaults
              /\ faults' = faults + (IF form = "unreadable" THEN 1 ELSE 0)
              /\ cas' = [cas EXCEPT ![s].inTran = ~outTran,
                                    ![s].settings = IF form = "error" THEN @
                                                    ELSE Applied(@, r.set),
                                    ![s].requests = Tail(@),
                                    ![s].replies = Append(@, [id |-> r.id, outTran |-> outTran,
                                                              form |-> form])]
         /\ served' = IF r.id = 0 THEN served ELSE [served EXCEPT ![r.id] = @ + 1]
  /\ UNCHANGED <<transport, status, counters, locals, callers, sentOn, sessionParameters, pc>>

\* Out of transaction it may turn to another client, closing this socket.
Leave(s) ==
  /\ s = socket /\ cas[s].generation > 0 /\ cas[s].state = "up" /\ ~cas[s].inTran
  /\ cas' = [cas EXCEPT ![s].state = "left"]
  /\ UNCHANGED <<transport, status, counters, locals, callers, history,
                 sessionParameters, pc, faults>>

\* It may crash at any time, and take the reply on its way with it.
Crash(s) ==
  /\ s = socket /\ cas[s].generation > 0 /\ cas[s].state = "up" /\ faults < MaxFaults
  /\ faults' = faults + 1
  /\ \E kept \in {cas[s].replies, <<>>} :
       cas' = [cas EXCEPT ![s].state = "crashed", ![s].replies = kept]
  /\ UNCHANGED <<transport, status, counters, locals, callers, history,
                 sessionParameters, pc>>

-----------------------------------------------------------------------------

Init ==
  /\ socket = 0 /\ connected = FALSE /\ socketDead = FALSE /\ inHandshake = FALSE
  /\ generation = 0
  /\ outOfTransaction = FALSE /\ casVerified = FALSE /\ settingUp = FALSE
  /\ sessionParameters \in ParameterLists
  /\ failedExchanges = 0 /\ outOfTransactionReplies = 0
  /\ queue = <<>> /\ outcome = <<>>
  /\ pc = "idle" /\ attempt = 0 /\ index = 1 /\ startGeneration = 0
  /\ cas = <<>> /\ faults = 0
  /\ sentOn = <<>> /\ served = <<>>
  /\ readTimeout \in ReadTimeouts

Verify == VerifySkips \/ VerifyProbes \/ ProbeAnswered \/ ProbeFails

Connect ==
  \/ AlreadyConnected \/ Connects \/ HandshakeBegins \/ BrokerUnreachable
  \/ BackoffElapses \/ BrokerAccepts \/ BrokerHandsOver \/ BrokerRedirects
  \/ RedirectAccepted \/ RedirectUnreachable \/ TlsUpgraded
  \/ HandshakeFails \/ DatabaseOpened

Apply ==
  \/ NothingToApply \/ SendParameter \/ ParameterAnswered \/ SendHold
  \/ HoldAnswered \/ ApplyFails \/ ParametersInherited \/ ApplyToOpenSession

Exchange == AbsentSession \/ SendRequest \/ ExchangeAnswered \/ ExchangeFails

Close == DiscardSession \/ CloseFindsNoSocket \/ CloseSendsFrame \/ CloseTearsDown

\* What the client does when the event loop gives it a turn.
Client == Begin \/ Verify \/ Connect \/ Apply \/ Exchange \/ Close

Step ==
  \/ Enqueue
  \/ Client
  \/ \E s \in Sockets : MarkDead(s) \/ Serve(s) \/ Leave(s) \/ Crash(s)

Next == Step /\ UNCHANGED readTimeout

Spec == Init /\ [][Next]_vars

-----------------------------------------------------------------------------
(* Properties.                                                             *)

FlagsTyped ==
  /\ connected \in BOOLEAN /\ socketDead \in BOOLEAN /\ inHandshake \in BOOLEAN
  /\ outOfTransaction \in BOOLEAN /\ casVerified \in BOOLEAN /\ settingUp \in BOOLEAN

NumbersTyped ==
  /\ generation \in Nat /\ failedExchanges \in Nat /\ outOfTransactionReplies \in Nat
  /\ attempt \in 0..Retries /\ index \in Nat \ {0} /\ startGeneration \in Nat

CallersTyped ==
  /\ queue \in Seq(Op) /\ outcome \in Seq(Outcome)
  /\ sentOn \in Seq(SUBSET Nat) /\ Len(sentOn) = Len(outcome)
  /\ served \in Seq(Nat) /\ Len(served) = Len(outcome)

PeersTyped == cas \in Seq(CAS) /\ socket \in 0..Len(cas) /\ faults \in 0..MaxFaults

SessionTyped == FlagsTyped /\ NumbersTyped /\ sessionParameters \in ParameterLists

TypeOK == SessionTyped /\ CallersTyped /\ PeersTyped /\ pc \in Waits \cup Points

Calls == 1..Len(outcome)

(* A caller is handed the reply to its own request, which a CAS ran exactly   *)
(* once, and no request runs twice: a reply left over from a request that     *)
(* timed out is never read as the next answer, and a session that is replaced *)
(* replays nothing (exchangeUnlocked, verifySessionUnlocked).                 *)
AnsweredExactlyOnce ==
  \A id \in Calls :
    /\ served[id] <= 1
    /\ outcome[id].status = "answered" => outcome[id].reply = id /\ served[id] = 1

(* The reply stream stays aligned: between two requests of a usable session   *)
(* nothing is on its way in either direction (retireSocket after every        *)
(* failure of exchangeUnlocked).                                              *)
NothingInFlight ==
  connected /\ pc \notin AwaitsReply \cup {"closing"} =>
    cas[socket].requests = <<>> /\ cas[socket].replies = <<>>

(* A session others may use, or a request is being run on, holds the session  *)
(* parameters in force: no replacement of a session, and no failure half way  *)
(* through the settings, leaves one that lacks some                           *)
(* (applySessionParametersUnlocked, setSessionParameters, isConnected).       *)
Changing == pc # "idle" /\ Running.call = "setSessionParameters"

SessionHoldsParameters ==
  IsConnected /\ ~Changing => Holds(cas[socket].settings, sessionParameters)

(* The session check closes the gap it is for: while a request sent by        *)
(* sendAndRecv is unanswered its CAS does not turn to another client, so only  *)
(* a crash can leave its outcome unknown (verifySessionUnlocked).             *)
HeldForRequest ==
  /\ pc = "exchange" /\ Running.call = "sendAndRecv"
  /\ cas[socket].replies = <<>>
  => cas[socket].state # "left"

(* A request bound to a session is only ever written to the socket of that    *)
(* session, however often it was replaced in the meantime.                    *)
OnOwnSession ==
  pc = "exchange" /\ Running.call \in OnSession =>
    cas[socket].generation = Running.generation

(* The end of an earlier socket never condemns its successor: a session is    *)
(* called dead only once its own peer has gone (trackSocketDeath).            *)
OnlyDeadIfGone == connected /\ socketDead => cas[socket].state # "up"

(* A session that may hold a transaction is never dropped behind its user's   *)
(* back: the step that drops it fails the running call, or is a discard or    *)
(* close the user asked for.                                                  *)
DroppedSilently ==
  /\ connected /\ ~connected' /\ ~outOfTransaction
  /\ Running.call \notin {"discardSession", "close"}
  /\ outcome'[Running.id].status # "failed"

NeverDroppedSilently == [][~DroppedSilently]_vars

(* The comment on failedExchanges says that it counts requests whose outcome  *)
(* is unknown.  One that send() refuses to write, because the socket of the   *)
(* open session is known to be dead, has a known one: it never runs.          *)
Miscounts ==
  /\ failedExchanges' > failedExchanges /\ connected
  /\ Running.call # "discardSession"
  /\ sentOn[Running.id] = {}

CountsOnlyUnknownOutcomes == [][~Miscounts]_vars

(* Seen from its callers the connection is the RequestQueue: whatever becomes *)
(* of sockets and sessions, requests settle in order, an answer is the        *)
(* request's own and means it ran once, and one that was not written to a     *)
(* socket never runs (enqueue and the exchanges).                             *)
Told(id) ==
  CASE outcome[id].status = "answered" /\ outcome[id].reply # id -> "garbled"
    [] outcome[id].status = "failed" /\ sentOn[id] = {} -> "unsent"
    [] outcome[id].status \in {"done", "absent"} -> "none"
    [] OTHER -> outcome[id].status

Promise == INSTANCE RequestQueue WITH told <- [id \in Calls |-> Told(id)], runs <- served

KeepsPromise == Promise!Spec

(* Every operation settles: neither a lost session nor a failing handshake,   *)
(* nor the retries and the pauses between them, leave the queue stuck.  The   *)
(* client itself always goes on when it can; without a read timeout it also   *)
(* takes a CAS that serves the requests it received.                          *)
FairSpec ==
  /\ Spec
  /\ WF_vars(Client /\ UNCHANGED readTimeout)
  /\ WF_vars(~readTimeout /\ (\E s \in Sockets : Serve(s)) /\ UNCHANGED readTimeout)

EveryCallSettles ==
  \A id \in 1..MaxCalls :
    id \in Calls ~> (id \in Calls /\ outcome[id].status # "waiting")

=============================================================================
