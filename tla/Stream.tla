------------------------------- MODULE Stream -------------------------------
(***************************************************************************)
(* One WebSocket connection (binance.core.transport.Stream) and the        *)
(* requests sent through it.  Everything runs on one event loop: a step is *)
(* the code between two awaits.  The actors are                            *)
(*                                                                         *)
(*   - the connection task: _connect inside the retry loop of aioretry,    *)
(*     with _reconnect between two attempts;                               *)
(*   - the connected task, which runs the on_connected callback;           *)
(*   - the callers of send(), one request each;                            *)
(*   - the response tasks, which run the on_response hook one at a time;   *)
(*   - one caller of close();                                              *)
(*   - the server and the network, which are external.                     *)
(*                                                                         *)
(* Sockets are numbered in the order they are opened; only the newest one  *)
(* can be open.                                                            *)
(***************************************************************************)
EXTENDS Integers, Sequences, FiniteSets

CONSTANTS
    Callers,      \* the callers of send()
    Hooked,       \* TRUE: an on_response hook is set (the WS-API stream)
    MayAbandon,   \* TRUE: the retry policy may give up reconnecting
    MayCancel,    \* TRUE: a caller of send() may be cancelled
    MaxSockets    \* bound: connections opened

ASSUME StreamAssumption ==
    /\ {Hooked, MayAbandon, MayCancel} \subseteq BOOLEAN
    /\ MaxSockets \in Nat \ {0}
    /\ Cardinality(Callers) \in Nat

VARIABLES
    conn,       \* where the connection task is
    cancelled,  \* close() has cancelled it and it has not yet noticed
    connected,  \* the connected task; "orphan": started while closing
    socket,     \* _socket, 0 for None
    opened,     \* number of sockets opened
    up,         \* the newest socket is open
    open,       \* _open_future
    openers,    \* the callers awaiting that very future
    nextId,     \* RequestRegistry._next_id
    pending,    \* RequestRegistry._pending: the caller each id belongs to
    call,       \* the call of send() of each caller
    wire,       \* requests the server has received and not answered
    responses,  \* response tasks in the order they queue for _response_lock
    hooking,    \* the first of them runs the hook
    closing,    \* _closing
    closer      \* the call of close()

connVars == <<conn, cancelled, connected>>
socketVars == <<socket, opened, up>>
openVars == <<open, openers>>
requestVars == <<nextId, pending, wire>>
responseVars == <<responses, hooking>>
closeVars == <<closing, closer>>
vars == <<connVars, socketVars, openVars, requestVars, responseVars, closeVars,
          call>>

Sockets == 0..MaxSockets

\* before connect(); in acquire_connection; in websockets.connect; in the
\* receive loop; in _reconnect, awaiting the connected task; in the retry
\* delay; returned, cancelled or abandoned
ConnStates == {"none", "limiter", "opening", "receiving", "cleanup", "backoff",
               "ended"}

\* not called; in acquire_message; awaiting the open future; that future
\* resolved; in socket.send; in socket.send with the message on the wire; in
\* wait_for; returned or raised
Stages == {"idle", "gated", "awaitOpen", "resumed", "sending", "written",
           "waiting", "done"}
InRequest == {"sending", "written", "waiting"}

Outcomes == {"none", "answer", "disconnected", "closed", "timeout", "cancelled",
             "KeyError"}

Idle == [at |-> "idle", sock |-> 0, id |-> 0, fut |-> "none", by |-> {},
         outcome |-> "none"]

Init ==
    /\ conn = "none" /\ cancelled = FALSE /\ connected = "none"
    /\ socket = 0 /\ opened = 0 /\ up = FALSE
    /\ open = "none" /\ openers = {}
    /\ nextId = 0 /\ pending = <<>> /\ wire = {}
    /\ responses = <<>> /\ hooking = FALSE
    /\ closing = FALSE /\ closer = "idle"
    /\ call = [c \in Callers |-> Idle]

-----------------------------------------------------------------------------
(* The request registry *)

Without(f, ids) == [i \in DOMAIN f \ ids |-> f[i]]

\* Mutant: a request keeps its entry when it is over.
RemoveNothing(id) == pending

Remove(id) == Without(pending, {id})

\* Mutant: an id is used again once its request is over.
ReusedId == CHOOSE i \in 0..Cardinality(Callers) :
    /\ i \notin DOMAIN pending
    /\ \A j \in 0..Cardinality(Callers) : j \notin DOMAIN pending => i <= j

FreshId == nextId

\* The call of c ends.
Ended(c, outcome) == [call[c] EXCEPT !.at = "done", !.outcome = outcome]

\* reject_all: every pending future fails, whoever is waiting for it.
Rejected(c) ==
    IF \E i \in DOMAIN pending : pending[i] = c /\ call[c].fut = "pending"
    THEN [call[c] EXCEPT !.fut = "rejected"]
    ELSE call[c]

\* Mutant: the requests of the lost connection are left to its successor.
RejectNone == UNCHANGED <<pending, call>>

RejectAll ==
    /\ pending' = <<>>
    /\ call' = [c \in Callers |-> Rejected(c)]

-----------------------------------------------------------------------------
(* The connection task *)

BeforeConnect ==
    /\ open' = "pending"
    /\ openers' = IF open = "pending" THEN openers ELSE {}

Connect ==
    /\ conn = "none"
    /\ BeforeConnect
    /\ conn' = "limiter"
    /\ UNCHANGED <<cancelled, connected, socketVars, requestVars, responseVars,
                   closeVars, call>>

AcquireConnection ==
    /\ conn = "limiter" /\ ~cancelled
    /\ conn' = "opening"
    /\ UNCHANGED <<cancelled, connected, socketVars, openVars, requestVars,
                   responseVars, closeVars, call>>

\* _set_socket: the callers that wait for the open future get socket k.
SetSocket(k) ==
    /\ socket' = k
    /\ open' = "none" /\ openers' = {}
    /\ call' = [c \in Callers |->
                  IF c \in openers
                  THEN [call[c] EXCEPT !.at = "resumed", !.sock = k]
                  ELSE call[c]]

\* The handshake succeeds: the connected task starts, and the receive loop is
\* entered unless the stream is closing.
Opened ==
    /\ conn = "opening" /\ ~cancelled
    /\ opened < MaxSockets
    /\ opened' = opened + 1
    /\ SetSocket(opened + 1)
    /\ up' = ~closing
    /\ connected' = IF closing THEN "orphan" ELSE "running"
    /\ conn' = IF closing THEN "ended" ELSE "receiving"
    /\ UNCHANGED <<cancelled, requestVars, responseVars, closeVars>>

\* The connected task returns, or notices that it has been cancelled.
OnConnectedReturns ==
    /\ connected \in {"running", "orphan"}
    /\ connected' = "done"
    /\ UNCHANGED <<conn, cancelled, socketVars, openVars, requestVars,
                   responseVars, closeVars, call>>

\* An attempt has failed and the policy retries: _reconnect up to its await.
Reconnect ==
    /\ RejectAll
    /\ IF connected = "running"
       THEN conn' = "cleanup" /\ UNCHANGED <<connected, openVars>>
       ELSE conn' = "backoff" /\ connected' = "none" /\ BeforeConnect

\* The policy gives up: the exception ends the task.
Abandon ==
    /\ MayAbandon
    /\ conn' = "ended"
    /\ UNCHANGED <<connected, openVars, pending, call>>

OpenFails ==
    /\ conn = "opening" /\ ~cancelled
    /\ Reconnect \/ Abandon
    /\ UNCHANGED <<cancelled, socketVars, nextId, wire, responseVars, closeVars>>

\* recv() finds the connection closed, or a ping is not answered in time.
ReceiveFails ==
    /\ conn = "receiving" /\ ~cancelled
    /\ up => opened < MaxSockets
    /\ up' = FALSE
    /\ IF closing
       THEN conn' = "ended" /\ UNCHANGED <<connected, openVars, pending, call>>
       ELSE Reconnect \/ Abandon
    /\ UNCHANGED <<cancelled, socket, opened, nextId, wire, responseVars,
                   closeVars>>

\* _reconnect goes on once the connected task is done.  It takes every
\* CancelledError for that of the connected task, its own included.
Cleanup ==
    /\ conn = "cleanup" /\ connected = "done"
    /\ connected' = "none"
    /\ cancelled' = FALSE
    /\ BeforeConnect
    /\ conn' = "backoff"
    /\ UNCHANGED <<socketVars, requestVars, responseVars, closeVars, call>>

Retry ==
    /\ conn = "backoff" /\ ~cancelled
    /\ conn' = "limiter"
    /\ UNCHANGED <<cancelled, connected, socketVars, openVars, requestVars,
                   responseVars, closeVars, call>>

\* Anywhere else a cancellation ends the task, and with it the socket.
ConnCancelled ==
    /\ cancelled
    /\ conn \in {"limiter", "opening", "receiving", "backoff"}
    /\ conn' = "ended" /\ cancelled' = FALSE
    /\ up' = FALSE
    /\ UNCHANGED <<connected, socket, opened, openVars, requestVars,
                   responseVars, closeVars, call>>

\* The network drops the connection, or recycle() closes it (serverShutdown,
\* event queue overflow); the last socket of the bound stays.
Drop ==
    /\ up /\ opened < MaxSockets
    /\ up' = FALSE
    /\ UNCHANGED <<connVars, socket, opened, openVars, requestVars,
                   responseVars, closeVars, call>>

-----------------------------------------------------------------------------
(* Answers *)

\* resolve_result or resolve_error: the future of the request with this id is
\* resolved by the server's answer to the request of caller "to".
Resolve(id, to) ==
    /\ pending' = Remove(id)
    /\ call' = IF id \in DOMAIN pending /\ call[pending[id]].fut = "pending"
               THEN [call EXCEPT ![pending[id]] =
                       [@ EXCEPT !.fut = "answered", !.by = {to}]]
               ELSE call

\* _handle_message with an id.  Only the loop that reads the current socket
\* receives; an answer nobody waits for any more is ignored.
ReceiveAnswer(m) ==
    /\ conn = "receiving" /\ ~cancelled
    /\ m.sock = socket
    /\ wire' = wire \ {m}
    /\ IF Hooked /\ m.id \in DOMAIN pending
       THEN /\ responses' = Append(responses, [id |-> m.id, to |-> m.to])
            /\ UNCHANGED <<pending, call>>
       ELSE Resolve(m.id, m.to) /\ UNCHANGED responses
    /\ UNCHANGED <<connVars, socketVars, openVars, nextId, hooking, closeVars>>

\* A response task gets the lock: the request may be gone by then.
HookStarts ==
    /\ responses # <<>> /\ ~hooking
    /\ IF Head(responses).id \in DOMAIN pending
       THEN hooking' = TRUE /\ UNCHANGED responses
       ELSE responses' = Tail(responses) /\ UNCHANGED hooking
    /\ UNCHANGED <<connVars, socketVars, openVars, requestVars, closeVars, call>>

HookReturns ==
    /\ hooking
    /\ hooking' = FALSE
    /\ responses' = Tail(responses)
    /\ Resolve(Head(responses).id, Head(responses).to)
    /\ UNCHANGED <<connVars, socketVars, openVars, nextId, wire, closeVars>>

-----------------------------------------------------------------------------
(* send() *)

Send(c) ==
    /\ call[c].at = "idle"
    /\ call' = [call EXCEPT ![c].at = "gated"]
    /\ UNCHANGED <<connVars, socketVars, openVars, requestVars, responseVars,
                   closeVars>>

\* RequestRegistry.create, and socket.send is called on socket k.
Register(c, k) ==
    /\ nextId' = nextId + 1
    /\ pending' = [i \in DOMAIN pending \union {FreshId} |->
                     IF i = FreshId THEN c ELSE pending[i]]
    /\ call' = [call EXCEPT ![c] = [@ EXCEPT !.at = "sending", !.sock = k,
                                             !.id = FreshId, !.fut = "pending"]]

\* acquire_message lets the call pass: there is a socket, one to wait for, or
\* none (a cancelled open future cancels the call at once).
Admitted(c) ==
    /\ call[c].at = "gated"
    /\ IF socket # 0
       THEN Register(c, socket) /\ UNCHANGED openers
       ELSE /\ call' = [call EXCEPT ![c] =
                          CASE open = "pending"   -> [@ EXCEPT !.at = "awaitOpen"]
                            [] open = "cancelled" -> Ended(c, "cancelled")
                            [] open = "none"      -> Ended(c, "disconnected")]
            /\ openers' = IF open = "pending" THEN openers \union {c} ELSE openers
            /\ UNCHANGED <<nextId, pending>>
    /\ UNCHANGED <<connVars, socketVars, open, wire, responseVars, closeVars>>

\* The open future has resolved to a socket, not always the newest any more.
Resumed(c) ==
    /\ call[c].at = "resumed"
    /\ Register(c, call[c].sock)
    /\ UNCHANGED <<connVars, socketVars, openVars, wire, responseVars, closeVars>>

\* The message leaves; socket.send may still be waiting for the buffer to drain.
Written(c) ==
    /\ call[c].at = "sending"
    /\ up /\ call[c].sock = opened
    /\ wire' = wire \union {[id |-> call[c].id, to |-> c, sock |-> opened]}
    /\ call' = [call EXCEPT ![c].at = "written"]
    /\ UNCHANGED <<connVars, socketVars, openVars, nextId, pending, responseVars,
                   closeVars>>

\* socket.send returns, and wait_for looks its own request up by id.
SendReturns(c) ==
    /\ call[c].at = "written"
    /\ call' = [call EXCEPT ![c] = IF @.id \in DOMAIN pending
                                   THEN [@ EXCEPT !.at = "waiting"]
                                   ELSE Ended(c, "KeyError")]
    /\ UNCHANGED <<connVars, socketVars, openVars, requestVars, responseVars,
                   closeVars>>

\* The call ends with its request taken out of the registry.
Finish(c, outcome) ==
    /\ pending' = Remove(call[c].id)
    /\ call' = [call EXCEPT ![c] = Ended(c, outcome)]
    /\ UNCHANGED <<connVars, socketVars, openVars, nextId, wire, responseVars,
                   closeVars>>

\* socket.send raises ConnectionClosed.
SendRaises(c) ==
    /\ call[c].at \in {"sending", "written"}
    /\ ~up \/ call[c].sock # opened
    /\ Finish(c, "closed")

WaitReturns(c) ==
    /\ call[c].at = "waiting"
    /\ call[c].fut # "pending"
    /\ Finish(c, IF call[c].fut = "answered" THEN "answer" ELSE "disconnected")

\* Mutant: the answer is awaited without a timeout.
WaitForever(c) == FALSE

WaitTimesOut(c) ==
    /\ call[c].at = "waiting"
    /\ call[c].fut = "pending"
    /\ Finish(c, "timeout")

\* The caller's task is cancelled.  In send()'s plain await of the open future
\* this cancels the future itself, and with it every call that awaits it.
CancelCall(c) ==
    /\ MayCancel
    /\ call[c].at \notin {"idle", "done"}
    /\ IF call[c].at \in InRequest
       THEN Finish(c, "cancelled")
       ELSE LET hit == IF c \in openers THEN openers ELSE {c}
            IN  /\ call' = [d \in Callers |-> IF d \in hit THEN Ended(d, "cancelled")
                                                           ELSE call[d]]
                /\ open' = IF c \in openers THEN "cancelled" ELSE open
                /\ openers' = openers \ hit
                /\ UNCHANGED <<connVars, socketVars, requestVars, responseVars,
                               closeVars>>

-----------------------------------------------------------------------------
(* close() *)

\* Mutant: _closing is not set.
CloseUnflagged ==
    /\ closer = "idle" /\ conn # "none"
    /\ closer' = "awaiting"
    /\ pending' = <<>>
    /\ call' = [c \in Callers |->
                  IF c \in openers THEN Ended(c, "disconnected") ELSE Rejected(c)]
    /\ open' = "none" /\ openers' = {}
    /\ cancelled' = (conn # "ended")
    /\ responses' = <<>> /\ hooking' = FALSE
    /\ UNCHANGED <<conn, connected, socketVars, nextId, wire, closing>>

\* Up to its first await: requests and the open future fail, the connection
\* task and the response tasks are cancelled.
Close ==
    /\ closer = "idle" /\ conn # "none"
    /\ closer' = "awaiting" /\ closing' = TRUE
    /\ pending' = <<>>
    /\ call' = [c \in Callers |->
                  IF c \in openers THEN Ended(c, "disconnected") ELSE Rejected(c)]
    /\ open' = "none" /\ openers' = {}
    /\ cancelled' = (conn # "ended")
    /\ responses' = <<>> /\ hooking' = FALSE
    /\ UNCHANGED <<conn, connected, socketVars, nextId, wire>>

\* socket.close() runs in a task of its own.
CloseSocket ==
    /\ closer = "awaiting" /\ up
    /\ up' = FALSE
    /\ UNCHANGED <<connVars, socket, opened, openVars, requestVars,
                   responseVars, closeVars, call>>

\* as_completed is through: every task close() knows of has ended.
CloseReturns ==
    /\ closer = "awaiting"
    /\ conn = "ended" /\ ~up /\ connected # "running"
    /\ closer' = "done" /\ closing' = FALSE
    /\ socket' = 0
    /\ UNCHANGED <<connVars, opened, up, openVars, requestVars, responseVars,
                   call>>

-----------------------------------------------------------------------------
ConnectionTask ==
    AcquireConnection \/ Opened \/ OpenFails \/ ReceiveFails \/ Cleanup \/ Retry
        \/ ConnCancelled

Caller(c) ==
    Admitted(c) \/ Resumed(c) \/ Written(c) \/ SendReturns(c) \/ SendRaises(c)
        \/ WaitReturns(c) \/ WaitTimesOut(c)

Next ==
    \/ Connect \/ ConnectionTask \/ OnConnectedReturns \/ Drop
    \/ \E m \in wire : ReceiveAnswer(m)
    \/ HookStarts \/ HookReturns
    \/ \E c \in Callers : Send(c) \/ Caller(c) \/ CancelCall(c)
    \/ Close \/ CloseSocket \/ CloseReturns

Spec == Init /\ [][Next]_vars

(***************************************************************************)
(* Every started task is scheduled and every timer fires; the on_connected *)
(* and on_response callbacks return; a server that is tried again and      *)
(* again accepts a connection at last.  Nothing makes it answer a request. *)
(***************************************************************************)
FairSpec ==
    /\ Spec
    /\ WF_vars(ConnectionTask) /\ SF_vars(Opened)
    /\ WF_vars(OnConnectedReturns)
    /\ WF_vars(HookStarts \/ HookReturns)
    /\ WF_vars(CloseSocket) /\ WF_vars(CloseReturns)
    /\ \A c \in Callers : WF_vars(Caller(c))

-----------------------------------------------------------------------------
(* The stream as its callers see it *)

Seen ==
    IF closing THEN "closing"
    ELSE CASE conn = "none" -> "absent"
           [] conn = "receiving" -> "up"
           [] conn = "ended" ->
                IF closer = "done" /\ ~up /\ socket = 0 THEN "absent" ELSE "abandoned"
           [] OTHER -> IF opened = 0 THEN "opening" ELSE "lost"

\* A call, in the record r, as caller c will know of it: an answer that arrives
\* before socket.send has returned is lost on it (KeyError).
SeenBy(c, r) ==
    LET answer == IF r.by = {c} THEN "answered" ELSE "mistaken"
    IN  CASE r.at = "idle" -> "none"
          [] r.at \in {"gated", "awaitOpen", "resumed"} -> "asked"
          [] r.at = "sending" -> IF r.fut = "pending" THEN "asked" ELSE "failed"
          [] r.at = "written" -> IF r.fut = "pending" THEN "sent" ELSE "failed"
          [] r.at = "waiting" -> CASE r.fut = "pending" -> "sent"
                                   [] r.fut = "answered" -> answer
                                   [] OTHER -> "failed"
          [] OTHER -> CASE r.outcome = "answer" -> answer
                        [] r.outcome = "cancelled" -> "none"
                        [] OTHER -> "failed"

Promise == INSTANCE Connection WITH
    Users <- Callers, state <- Seen,
    request <- [c \in Callers |-> SeenBy(c, call[c])]

-----------------------------------------------------------------------------
(* Properties *)

\* One call of send(): where it is, its socket, its id, its future, the requests
\* whose answers resolved the future, and how it ended.
CallType == [at : Stages, sock : Sockets, id : Nat,
             fut : {"none", "pending", "answered", "rejected"},
             by : SUBSET Callers, outcome : Outcomes]

\* The type invariant of the stream's state.
TypeOK ==
    /\ conn \in ConnStates /\ cancelled \in BOOLEAN
    /\ connected \in {"none", "running", "orphan", "done"}
    /\ socket \in Sockets /\ opened \in Sockets /\ up \in BOOLEAN
    /\ open \in {"none", "pending", "cancelled"} /\ openers \subseteq Callers
    /\ nextId \in Nat
    /\ DOMAIN pending \subseteq Nat /\ \A i \in DOMAIN pending : pending[i] \in Callers
    /\ call \in [Callers -> CallType]
    /\ wire \subseteq [id : Nat, to : Callers, sock : Sockets]
    /\ responses \in Seq([id : Nat, to : Callers]) /\ hooking \in BOOLEAN
    /\ closing \in BOOLEAN /\ closer \in {"idle", "awaiting", "done"}
    /\ hooking => responses # <<>>

\* A send() that returns an answer returns the server's answer to its own
\* request, whatever timed out, was cancelled or was answered late before it
\* (ids are never used twice, stream.py _handle_message, request_registry.py).
AnswerMatches ==
    \A c \in Callers : call[c].outcome = "answer" => call[c].by = {c}

\* The registry holds exactly the requests whose future is not done: one that
\* is over leaves no entry, and no entry is taken from one still waiting, which
\* would make its answer look late.
RegistryIsExact ==
    /\ \A i \in DOMAIN pending :
          LET c == pending[i]
          IN  call[c].at \in InRequest /\ call[c].id = i /\ call[c].fut = "pending"
    /\ \A c \in Callers :
          call[c].at \in InRequest /\ call[c].fut = "pending" =>
              call[c].id \in DOMAIN pending /\ pending[call[c].id] = c

\* When close() has returned, the connection task is over, no socket is open
\* and _socket is None, for good.
ClosedIsFinal == closer = "done" => conn = "ended" /\ ~up /\ socket = 0

\* To its callers the stream is a connection, as the users of one rely on it
\* (Subscription does): what has been sent fails in the step in which its socket
\* is given up or closed, so an answer never comes over a later socket; a call
\* waits for the first socket; after close() nothing is opened or answered, and
\* once it has returned no task and no socket is left.
ActsAsConnection == Promise!Spec

\* Every call of send() returns or raises, whatever is lost, late, cancelled or
\* closed, but for one that waits for a socket when the policy gives up.
SendEndsUnlessAbandoned ==
    \A c \in Callers : (call[c].at # "idle") ~>
        (call[c].at = "done" \/ (call[c].at = "awaitOpen" /\ conn = "ended"))

\* Every call of close() returns, if the server accepts connections in the end.
CloseEnds == (closer = "awaiting") ~> (closer = "done")

=============================================================================
