---------------------------- MODULE StreamProofs ----------------------------
(***************************************************************************)
(* Proofs about Stream, for any set of callers, with or without a hook, a  *)
(* policy that gives up, cancelled callers, and any number of connections. *)
(***************************************************************************)
EXTENDS Stream, SequenceTheorems, TLAPS

Message == [id : Nat, to : Callers]

\* Ids are given out in order, and no two requests under way have the same.
IdsOK ==
    /\ \A i \in DOMAIN pending : i < nextId
    /\ \A c \in Callers : call[c].at \in InRequest => call[c].id < nextId
    /\ \A c, d \in Callers :
         call[c].at \in InRequest /\ call[d].at \in InRequest /\ call[c].id = call[d].id
            => c = d

\* What the server has received or answered belongs to the caller it says.
Owned(id, to) ==
    /\ id < nextId
    /\ id \in DOMAIN pending => pending[id] = to

OwnersOK ==
    /\ \A m \in wire : Owned(m.id, m.to)
    /\ \A k \in 1..Len(responses) : Owned(responses[k].id, responses[k].to)

\* An answered future holds the answer to its own request.
AnswersOK == \A c \in Callers : call[c].fut = "answered" => call[c].by = {c}

\* Who waits for the open future has no request yet.
OpenersOK == \A c \in openers : call[c].at = "awaitOpen"

RequestOK ==
    /\ RegistryIsExact /\ IdsOK /\ OwnersOK
    /\ AnswersOK /\ AnswerMatches /\ OpenersOK

IInv == TypeOK /\ RequestOK

\* Where the connection task is while the socket is open, while close() is under
\* way and when it has returned; the first socket is awaited, not refused.
TaskOK ==
    /\ up => conn = "receiving"
    /\ conn = "none" => opened = 0
    /\ conn = "receiving" => opened > 0
    /\ cancelled => closing /\ conn # "ended"
    /\ closing => conn # "none" /\ (conn = "receiving" => cancelled)
    /\ closing <=> closer = "awaiting"
    /\ closer # "idle" => responses = <<>> /\ ~hooking
    /\ opened = 0 => socket = 0
    /\ opened = 0 /\ conn \notin {"none", "ended"} /\ ~closing => open # "none"

\* A request goes out over a socket, and ends with it; what the server has
\* received or answered, and is still registered, has gone out.
GoneOut(c) == call[c].at \in {"written", "waiting"}

CarriedOK ==
    /\ \A c \in Callers : call[c].at \in InRequest \cup {"resumed"} => opened > 0
    /\ \A c \in Callers : GoneOut(c) /\ call[c].fut = "pending" =>
                              closer # "idle" \/ conn \in {"receiving", "ended"}
    /\ \A m \in wire : m.id \in DOMAIN pending => GoneOut(m.to)
    /\ \A k \in 1..Len(responses) : responses[k].id \in DOMAIN pending => GoneOut(responses[k].to)

PInv == IInv /\ TaskOK /\ ClosedIsFinal /\ CarriedOK

-----------------------------------------------------------------------------
(* Typing *)

\* What a caller's record may become.
LEMMA CallUpdates ==
    ASSUME NEW r \in CallType
    PROVE  /\ \A s \in Stages : [r EXCEPT !.at = s] \in CallType
           /\ \A o \in Outcomes : [r EXCEPT !.at = "done", !.outcome = o] \in CallType
           /\ \A k \in Sockets : [r EXCEPT !.at = "resumed", !.sock = k] \in CallType
           /\ [r EXCEPT !.fut = "rejected"] \in CallType
           /\ \A to \in Callers : [r EXCEPT !.fut = "answered", !.by = {to}] \in CallType
           /\ \A k \in Sockets, i \in Nat :
                [r EXCEPT !.at = "sending", !.sock = k, !.id = i, !.fut = "pending"] \in CallType
BY DEF CallType, Stages

LEMMA InitTyped == Init => TypeOK
<1> SUFFICES ASSUME Init PROVE TypeOK
    OBVIOUS
<1>1. DOMAIN pending = {} /\ responses \in Seq(Message) /\ 0 \in Sockets
    BY StreamAssumption DEF Init, Sockets
<1>2. call \in [Callers -> CallType]
    BY <1>1 DEF Init, Idle, Stages, Outcomes, CallType
<1> QED BY <1>1, <1>2 DEF Init, TypeOK, ConnStates, Message

LEMMA EndedTyped ==
    ASSUME TypeOK, NEW c \in Callers
    PROVE  /\ Rejected(c) \in CallType
           /\ \A o \in Outcomes : Ended(c, o) \in CallType
BY CallUpdates DEF TypeOK, Rejected, Ended

\* The part of TypeOK that speaks of the registry and the callers.
RegistryTyped ==
    /\ nextId \in Nat
    /\ DOMAIN pending \subseteq Nat /\ \A i \in DOMAIN pending : pending[i] \in Callers
    /\ call \in [Callers -> CallType]

LEMMA RejectAllTyped ==
    ASSUME TypeOK, RejectAll, UNCHANGED nextId
    PROVE  RegistryTyped'
<1>1. call' \in [Callers -> CallType]
    BY EndedTyped DEF RejectAll
<1> QED BY <1>1 DEF TypeOK, RejectAll, RegistryTyped

LEMMA ResolveTyped ==
    ASSUME TypeOK, NEW id, NEW to \in Callers, Resolve(id, to), UNCHANGED nextId
    PROVE  RegistryTyped'
<1>1. CASE call' = call
    BY <1>1 DEF TypeOK, RegistryTyped, Resolve, Remove, Without
<1>2. CASE call' # call
    <2>1. id \in DOMAIN pending /\ pending[id] \in Callers
        BY <1>2 DEF Resolve, TypeOK
    <2>2. call' = [call EXCEPT ![pending[id]] =
                     [call[pending[id]] EXCEPT !.fut = "answered", !.by = {to}]]
        BY <1>2 DEF Resolve
    <2>3. [call[pending[id]] EXCEPT !.fut = "answered", !.by = {to}] \in CallType
        BY <2>1, CallUpdates DEF TypeOK
    <2>4. call' \in [Callers -> CallType]
        BY <2>1, <2>2, <2>3 DEF TypeOK
    <2> QED BY <2>4 DEF TypeOK, RegistryTyped, Resolve, Remove, Without
<1> QED BY <1>1, <1>2

LEMMA RegisterTyped ==
    ASSUME TypeOK, NEW c \in Callers, NEW k \in Sockets, Register(c, k)
    PROVE  RegistryTyped'
<1>1. [call[c] EXCEPT !.at = "sending", !.sock = k, !.id = nextId, !.fut = "pending"]
        \in CallType
    BY CallUpdates DEF TypeOK
<1>2. call' \in [Callers -> CallType]
    BY <1>1 DEF Register, FreshId, TypeOK
<1> QED BY <1>2 DEF Register, FreshId, TypeOK, RegistryTyped

LEMMA FinishTyped ==
    ASSUME TypeOK, NEW c \in Callers, NEW o \in Outcomes, Finish(c, o)
    PROVE  TypeOK'
<1>1. call' \in [Callers -> CallType]
    BY EndedTyped DEF Finish, TypeOK
<1> QED
    BY <1>1 DEF Finish, Remove, Without, TypeOK, connVars, socketVars, openVars, requestVars,
                responseVars, closeVars

\* The steps of the connection task and of the tasks it starts.
LEMMA ConnectionTyped ==
    ASSUME TypeOK, Connect \/ ConnectionTask \/ OnConnectedReturns \/ Drop
    PROVE  TypeOK'
<1> USE DEF TypeOK, connVars, socketVars, openVars, requestVars, responseVars, closeVars
<1>1. CASE Connect
    BY <1>1 DEF Connect, BeforeConnect, ConnStates
<1>2. CASE AcquireConnection
    BY <1>2 DEF AcquireConnection, ConnStates
<1>3. CASE Opened
    <2>1. opened + 1 \in Sockets
        BY StreamAssumption, <1>3 DEF Opened, Sockets
    <2>2. \A c \in Callers : [call[c] EXCEPT !.at = "resumed", !.sock = opened + 1] \in CallType
        BY <2>1, CallUpdates
    <2>3. call' \in [Callers -> CallType]
        BY <1>3, <2>2 DEF Opened, SetSocket
    <2> QED BY <1>3, <2>1, <2>3 DEF Opened, SetSocket, ConnStates
<1>4. CASE OnConnectedReturns
    BY <1>4 DEF OnConnectedReturns
<1>5. ASSUME Reconnect \/ Abandon, UNCHANGED nextId
      PROVE  /\ conn' \in ConnStates /\ open' \in {"none", "pending", "cancelled"}
             /\ connected' \in {"none", "running", "orphan", "done"}
             /\ openers' \subseteq Callers
             /\ RegistryTyped'
    <2>1. CASE Reconnect
        <3>1. RegistryTyped'
            BY <1>5, <2>1, RejectAllTyped DEF Reconnect
        <3> QED BY <2>1, <3>1 DEF Reconnect, BeforeConnect, ConnStates
    <2>2. CASE Abandon
        BY <1>5, <2>2 DEF Abandon, ConnStates, RegistryTyped
    <2> QED BY <1>5, <2>1, <2>2
<1>6. CASE OpenFails
    BY <1>5, <1>6 DEF OpenFails, RegistryTyped
<1>7. CASE ReceiveFails
    BY <1>5, <1>7 DEF ReceiveFails, ConnStates, RegistryTyped
<1>8. CASE Cleanup
    BY <1>8 DEF Cleanup, BeforeConnect, ConnStates
<1>9. CASE Retry
    BY <1>9 DEF Retry, ConnStates
<1>10. CASE ConnCancelled
    BY <1>10 DEF ConnCancelled, ConnStates
<1>11. CASE Drop
    BY <1>11 DEF Drop
<1> QED
    BY <1>1, <1>2, <1>3, <1>4, <1>6, <1>7, <1>8, <1>9, <1>10, <1>11 DEF ConnectionTask

LEMMA TailTyped ==
    ASSUME responses \in Seq([id : Nat, to : Callers]), responses # <<>>
    PROVE  /\ Head(responses) \in [id : Nat, to : Callers]
           /\ Tail(responses) \in Seq([id : Nat, to : Callers])
BY HeadTailProperties

\* The answers, and the response tasks.
LEMMA AnswersTyped ==
    ASSUME TypeOK, (\E m \in wire : ReceiveAnswer(m)) \/ HookStarts \/ HookReturns
    PROVE  TypeOK'
<1> USE DEF TypeOK, connVars, socketVars, openVars, requestVars, responseVars, closeVars
<1>1. ASSUME NEW m \in wire, ReceiveAnswer(m)
      PROVE  TypeOK'
    <2>1. m.id \in Nat /\ m.to \in Callers
        BY <1>1
    <2>2. CASE Hooked /\ m.id \in DOMAIN pending
        <3>1. responses' = Append(responses, [id |-> m.id, to |-> m.to])
            BY <1>1, <2>2 DEF ReceiveAnswer
        <3>2. [id |-> m.id, to |-> m.to] \in Message
            BY <2>1 DEF Message
        <3>3. responses \in Seq(Message)
            BY DEF Message
        <3>4. responses' \in Seq(Message) /\ responses' # <<>>
            BY <3>1, <3>2, <3>3, AppendProperties
        <3> QED BY <1>1, <2>2, <3>4 DEF ReceiveAnswer, Message
    <2>3. CASE ~(Hooked /\ m.id \in DOMAIN pending)
        <3>1. RegistryTyped'
            BY <1>1, <2>1, <2>3, ResolveTyped DEF ReceiveAnswer
        <3> QED BY <1>1, <2>3, <3>1 DEF ReceiveAnswer, RegistryTyped
    <2> QED BY <2>2, <2>3
<1>2. CASE HookStarts
    BY <1>2, TailTyped DEF HookStarts
<1>3. CASE HookReturns
    <2>1. responses # <<>>
        BY <1>3 DEF HookReturns
    <2>2. RegistryTyped'
        BY <1>3, <2>1, TailTyped, ResolveTyped DEF HookReturns
    <2> QED BY <1>3, <2>1, <2>2, TailTyped DEF HookReturns, RegistryTyped
<1> QED BY <1>1, <1>2, <1>3

\* The calls of send() and of close().
LEMMA CallersTyped ==
    ASSUME TypeOK,
           \/ \E c \in Callers : Send(c) \/ Caller(c) \/ CancelCall(c)
           \/ Close \/ CloseSocket \/ CloseReturns
    PROVE  TypeOK'
<1> USE DEF connVars, socketVars, openVars, requestVars, responseVars, closeVars
<1>1. \A c \in Callers : call[c] \in CallType
    BY DEF TypeOK
<1>2. ASSUME NEW c \in Callers, NEW s \in Stages,
             call' = [call EXCEPT ![c] = [call[c] EXCEPT !.at = s]]
      PROVE  call' \in [Callers -> CallType]
    BY <1>1, <1>2, CallUpdates DEF TypeOK
<1>3. ASSUME NEW c \in Callers, NEW o \in Outcomes,
             call' = [call EXCEPT ![c] = Ended(c, o)]
      PROVE  call' \in [Callers -> CallType]
    BY <1>3, EndedTyped DEF TypeOK
<1>4. ASSUME NEW c \in Callers, Send(c)
      PROVE  TypeOK'
    <2>1. call' \in [Callers -> CallType]
        BY <1>2, <1>4 DEF Send, Stages
    <2> QED BY <1>4, <2>1 DEF Send, TypeOK
<1>5. ASSUME NEW c \in Callers, Admitted(c)
      PROVE  TypeOK'
    <2>1. CASE socket # 0
        <3>1. RegistryTyped'
            BY <1>5, <2>1, RegisterTyped DEF Admitted, TypeOK
        <3> QED BY <1>5, <2>1, <3>1 DEF Admitted, TypeOK, RegistryTyped
    <2>2. CASE socket = 0
        <3>1. \/ call' = [call EXCEPT ![c] = [call[c] EXCEPT !.at = "awaitOpen"]]
              \/ call' = [call EXCEPT ![c] = Ended(c, "cancelled")]
              \/ call' = [call EXCEPT ![c] = Ended(c, "disconnected")]
            BY <1>5, <2>2 DEF Admitted, TypeOK
        <3>2. call' \in [Callers -> CallType]
            BY <1>2, <1>3, <3>1 DEF Stages, Outcomes
        <3> QED BY <1>5, <2>2, <3>2 DEF Admitted, TypeOK
    <2> QED BY <2>1, <2>2
<1>6. ASSUME NEW c \in Callers, Resumed(c)
      PROVE  TypeOK'
    <2>1. call[c].sock \in Sockets
        BY <1>1 DEF CallType
    <2>2. RegistryTyped'
        BY <1>6, <2>1, RegisterTyped DEF Resumed
    <2> QED BY <1>6, <2>2 DEF Resumed, TypeOK, RegistryTyped
<1>7. ASSUME NEW c \in Callers, Written(c)
      PROVE  TypeOK'
    <2>1. call' \in [Callers -> CallType]
        BY <1>2, <1>7 DEF Written, Stages
    <2>2. [id |-> call[c].id, to |-> c, sock |-> opened] \in [id : Nat, to : Callers, sock : Sockets]
        BY <1>1 DEF CallType, TypeOK
    <2> QED BY <1>7, <2>1, <2>2 DEF Written, TypeOK
<1>8. ASSUME NEW c \in Callers, SendReturns(c)
      PROVE  TypeOK'
    <2>1. \/ call' = [call EXCEPT ![c] = [call[c] EXCEPT !.at = "waiting"]]
          \/ call' = [call EXCEPT ![c] = Ended(c, "KeyError")]
        BY <1>8 DEF SendReturns, TypeOK
    <2>2. call' \in [Callers -> CallType]
        BY <1>2, <1>3, <2>1 DEF Stages, Outcomes
    <2> QED BY <1>8, <2>2 DEF SendReturns, TypeOK
<1>9. ASSUME NEW c \in Callers, SendRaises(c) \/ WaitReturns(c) \/ WaitTimesOut(c)
      PROVE  TypeOK'
    BY <1>9, FinishTyped DEF SendRaises, WaitReturns, WaitTimesOut, Outcomes
<1>10. ASSUME NEW c \in Callers, CancelCall(c)
       PROVE  TypeOK'
    <2>1. CASE call[c].at \in InRequest
        BY <1>10, <2>1, FinishTyped DEF CancelCall, Outcomes
    <2>2. CASE call[c].at \notin InRequest
        <3>1. \A d \in Callers : Ended(d, "cancelled") \in CallType
            BY EndedTyped DEF Outcomes
        <3>2. call' \in [Callers -> CallType]
            BY <1>1, <1>10, <2>2, <3>1 DEF CancelCall
        <3> QED BY <1>10, <2>2, <3>2 DEF CancelCall, TypeOK
    <2> QED BY <2>1, <2>2
<1>11. CASE Close
    <2>1. \A d \in Callers : Ended(d, "disconnected") \in CallType /\ Rejected(d) \in CallType
        BY EndedTyped DEF Outcomes
    <2>2. call' \in [Callers -> CallType]
        BY <1>11, <2>1 DEF Close
    <2>3. DOMAIN pending' = {} /\ responses' \in Seq([id : Nat, to : Callers])
        BY <1>11 DEF Close
    <2> QED BY <1>11, <2>2, <2>3 DEF Close, TypeOK
<1>12. CASE CloseSocket
    BY <1>12 DEF CloseSocket, TypeOK
<1>13. CASE CloseReturns
    <2>1. 0 \in Sockets
        BY StreamAssumption DEF Sockets
    <2> QED BY <1>13, <2>1 DEF CloseReturns, TypeOK
<1> QED
    BY <1>4, <1>5, <1>6, <1>7, <1>8, <1>9, <1>10, <1>11, <1>12, <1>13 DEF Caller

LEMMA TypePreserved ==
    ASSUME TypeOK, [Next]_vars
    PROVE  TypeOK'
<1>1. CASE UNCHANGED vars
    BY <1>1 DEF vars, TypeOK, connVars, socketVars, openVars, requestVars, responseVars, closeVars
<1> QED BY <1>1, ConnectionTyped, AnswersTyped, CallersTyped DEF Next

-----------------------------------------------------------------------------
(* The registry and the answers *)

\* A request that begins gets an id no other has.
LEMMA RegisterKeeps ==
    ASSUME TypeOK, RequestOK, NEW c \in Callers, NEW k \in Sockets, Register(c, k),
           call[c].at \in {"gated", "resumed"}, c \notin openers,
           openers' = openers, UNCHANGED <<wire, responses>>
    PROVE  RequestOK'
<1>1. /\ call \in [Callers -> CallType] /\ nextId \in Nat
      /\ \A d \in Callers : call[d].id \in Nat
    BY DEF TypeOK, CallType
<1>2. /\ call' \in [Callers -> CallType]
      /\ \A d \in Callers \ {c} : call'[d] = call[d]
      /\ call'[c].at = "sending" /\ call'[c].id = nextId /\ call'[c].fut = "pending"
      /\ call'[c].by = call[c].by /\ call'[c].outcome = call[c].outcome
    <2>1. call' = [call EXCEPT ![c] = [call[c] EXCEPT !.at = "sending", !.sock = k,
                                                      !.id = nextId, !.fut = "pending"]]
        BY DEF Register, FreshId
    <2>2. call' \in [Callers -> CallType]
        BY RegisterTyped DEF RegistryTyped
    <2>3. call'[c] = [call[c] EXCEPT !.at = "sending", !.sock = k, !.id = nextId, !.fut = "pending"]
        BY <1>1, <2>1
    <2>4. call[c] \in CallType
        BY <1>1
    <2> QED BY <1>1, <2>1, <2>2, <2>3, <2>4 DEF CallType
<1>3. /\ nextId' = nextId + 1
      /\ DOMAIN pending' = DOMAIN pending \union {nextId}
      /\ \A i \in DOMAIN pending' : pending'[i] = IF i = nextId THEN c ELSE pending[i]
    BY DEF Register, FreshId
<1>4. nextId \notin DOMAIN pending /\ DOMAIN pending \subseteq Nat
    BY <1>1 DEF RequestOK, IdsOK, TypeOK
<1>5. call[c].at \notin InRequest
    BY DEF InRequest
<1>6. RegistryIsExact'
    <2>1. ASSUME NEW i \in DOMAIN pending'
          PROVE  /\ call'[pending'[i]].at \in InRequest /\ call'[pending'[i]].id = i
                 /\ call'[pending'[i]].fut = "pending"
        <3>1. CASE i = nextId
            BY <1>2, <1>3, <3>1 DEF InRequest
        <3>2. CASE i # nextId
            <4>1. i \in DOMAIN pending /\ pending'[i] = pending[i] /\ pending[i] \in Callers
                BY <1>3, <2>1, <3>2 DEF TypeOK
            <4>2. /\ call[pending[i]].at \in InRequest /\ call[pending[i]].id = i
                  /\ call[pending[i]].fut = "pending"
                BY <4>1 DEF RequestOK, RegistryIsExact
            <4>3. call'[pending[i]] = call[pending[i]]
                BY <1>2, <1>5, <4>1, <4>2
            <4> QED BY <4>1, <4>2, <4>3
        <3> QED BY <3>1, <3>2
    <2>2. ASSUME NEW d \in Callers, call'[d].at \in InRequest, call'[d].fut = "pending"
          PROVE  call'[d].id \in DOMAIN pending' /\ pending'[call'[d].id] = d
        <3>1. CASE d = c
            BY <1>2, <1>3, <3>1
        <3>2. CASE d # c
            <4>1. call[d].id \in DOMAIN pending /\ pending[call[d].id] = d /\ call'[d] = call[d]
                BY <1>2, <2>2, <3>2 DEF RequestOK, RegistryIsExact
            <4> QED BY <1>3, <1>4, <4>1
        <3> QED BY <3>1, <3>2
    <2> QED BY <2>1, <2>2 DEF RegistryIsExact
<1>7. IdsOK'
    <2>1. \A i \in DOMAIN pending' : i < nextId'
        BY <1>1, <1>3, <1>4 DEF RequestOK, IdsOK
    <2>2. \A d \in Callers : call'[d].at \in InRequest => call'[d].id < nextId'
        BY <1>1, <1>2, <1>3 DEF RequestOK, IdsOK
    <2>3. ASSUME NEW d \in Callers, NEW e \in Callers, call'[d].at \in InRequest,
                 call'[e].at \in InRequest, call'[d].id = call'[e].id
          PROVE  d = e
        <3>1. \A f \in Callers : f # c /\ call'[f].at \in InRequest => call'[f].id < nextId
            BY <1>2 DEF RequestOK, IdsOK
        <3>2. CASE d = c \/ e = c
            BY <1>1, <1>2, <2>3, <3>1, <3>2
        <3>3. CASE d # c /\ e # c
            BY <1>2, <2>3, <3>3 DEF RequestOK, IdsOK
        <3> QED BY <3>2, <3>3
    <2> QED BY <2>1, <2>2, <2>3 DEF IdsOK
<1>8. OwnersOK'
    <2>1. ASSUME NEW id \in Nat, NEW to, Owned(id, to)
          PROVE  Owned(id, to)'
        BY <1>1, <1>3, <2>1 DEF Owned
    <2>2. \A m \in wire : m.id \in Nat
        BY DEF TypeOK
    <2>3. \A j \in 1..Len(responses) : responses[j].id \in Nat
        <3>1. responses \in Seq([id : Nat, to : Callers])
            BY DEF TypeOK
        <3>2. \A j \in 1..Len(responses) : responses[j] \in [id : Nat, to : Callers]
            BY <3>1, ElementOfSeq
        <3> QED BY <3>2
    <2> QED BY <2>1, <2>2, <2>3 DEF RequestOK, OwnersOK
<1>9. AnswersOK' /\ AnswerMatches' /\ OpenersOK'
    BY <1>2 DEF RequestOK, AnswersOK, AnswerMatches, OpenersOK, TypeOK
<1> QED BY <1>6, <1>7, <1>8, <1>9 DEF RequestOK

\* An answer reaches the caller whose request it answers.
LEMMA ResolveKeeps ==
    ASSUME TypeOK, RequestOK, NEW id \in Nat, NEW to \in Callers, Owned(id, to), Resolve(id, to),
           UNCHANGED <<nextId, openers>>, wire' \subseteq wire,
           responses' = responses \/ (responses # <<>> /\ responses' = Tail(responses))
    PROVE  RequestOK'
<1>1. /\ call \in [Callers -> CallType] /\ nextId \in Nat
      /\ responses \in Seq([id : Nat, to : Callers])
    BY DEF TypeOK
<1>2. /\ DOMAIN pending' = DOMAIN pending \ {id}
      /\ \A i \in DOMAIN pending' : pending'[i] = pending[i]
    BY DEF Resolve, Remove, Without
<1>3. /\ id \in DOMAIN pending => call[to].id = id /\ call[to].at \in InRequest
      /\ \A c \in Callers : (id \in DOMAIN pending /\ c = to) \/ call'[c] = call[c]
      /\ id \in DOMAIN pending =>
            call'[to] = [call[to] EXCEPT !.fut = "answered", !.by = {to}]
    BY <1>1 DEF Resolve, Owned, RequestOK, RegistryIsExact
<1>4. /\ \A c \in Callers : /\ call'[c].at = call[c].at /\ call'[c].id = call[c].id
                            /\ call'[c].outcome = call[c].outcome
      /\ id \in DOMAIN pending => call'[to].fut = "answered" /\ call'[to].by = {to}
    <2>1. \A c \in Callers : call[c] \in CallType
        BY <1>1
    <2>2. id \in DOMAIN pending =>
              /\ call'[to].fut = "answered" /\ call'[to].by = {to} /\ call'[to].at = call[to].at
              /\ call'[to].id = call[to].id /\ call'[to].outcome = call[to].outcome
        BY <1>3, <2>1 DEF CallType
    <2> QED BY <1>3, <2>2
<1>5. RegistryIsExact'
    <2>1. ASSUME NEW i \in DOMAIN pending'
          PROVE  /\ call'[pending'[i]].at \in InRequest /\ call'[pending'[i]].id = i
                 /\ call'[pending'[i]].fut = "pending"
        <3>1. /\ i # id /\ pending'[i] = pending[i] /\ pending[i] \in Callers
              /\ call[pending[i]].id = i
            BY <1>2, <2>1 DEF RequestOK, RegistryIsExact, TypeOK
        <3>2. call'[pending[i]] = call[pending[i]]
            BY <1>3, <3>1
        <3> QED BY <1>2, <3>1, <3>2 DEF RequestOK, RegistryIsExact
    <2>2. ASSUME NEW c \in Callers, call'[c].at \in InRequest, call'[c].fut = "pending"
          PROVE  call'[c].id \in DOMAIN pending' /\ pending'[call'[c].id] = c
        <3>1. call'[c] = call[c] /\ (id \in DOMAIN pending => c # to)
            BY <1>3, <1>4, <2>2
        <3>2. call[c].id \in DOMAIN pending /\ pending[call[c].id] = c
            BY <2>2, <3>1 DEF RequestOK, RegistryIsExact
        <3>3. call[c].id # id
            BY <3>1, <3>2 DEF Owned
        <3> QED BY <1>2, <3>1, <3>2, <3>3
    <2> QED BY <2>1, <2>2 DEF RegistryIsExact
<1>6. IdsOK'
    BY <1>2, <1>4 DEF RequestOK, IdsOK
<1>7. OwnersOK'
    <2>1. \A i, d : Owned(i, d) => Owned(i, d)'
        BY <1>2 DEF Owned
    <2>2. \A j \in 1..Len(responses') : \E n \in 1..Len(responses) : responses'[j] = responses[n]
        <3>1. CASE responses # <<>> /\ responses' = Tail(responses)
            <4>1. /\ Len(responses') = Len(responses) - 1
                  /\ \A j \in 1..Len(responses') : responses'[j] = responses[j + 1]
                BY <1>1, <3>1, HeadTailProperties
            <4>2. Len(responses) \in Nat
                BY <1>1
            <4>3. \A j \in 1..Len(responses') : j + 1 \in 1..Len(responses)
                BY <4>1, <4>2
            <4> QED BY <4>1, <4>3
        <3> QED BY <3>1
    <2> QED BY <2>1, <2>2 DEF RequestOK, OwnersOK
<1>8. AnswersOK' /\ AnswerMatches' /\ OpenersOK'
    BY <1>3, <1>4 DEF RequestOK, AnswersOK, AnswerMatches, OpenersOK, TypeOK
<1> QED BY <1>5, <1>6, <1>7, <1>8 DEF RequestOK

\* A request that ends leaves no entry.
LEMMA FinishKeeps ==
    ASSUME TypeOK, RequestOK, NEW c \in Callers, NEW o \in Outcomes, Finish(c, o),
           call[c].at \in InRequest, o = "answer" => call[c].fut = "answered"
    PROVE  RequestOK'
<1>1. call \in [Callers -> CallType]
    BY DEF TypeOK
<1>2. /\ DOMAIN pending' = DOMAIN pending \ {call[c].id}
      /\ \A i \in DOMAIN pending' : pending'[i] = pending[i]
    BY DEF Finish, Remove, Without
<1>3. /\ \A d \in Callers \ {c} : call'[d] = call[d]
      /\ call'[c].at = "done" /\ call'[c].outcome = o
      /\ call'[c].fut = call[c].fut /\ call'[c].by = call[c].by
    BY <1>1 DEF Finish, Ended, CallType
<1>4. UNCHANGED <<nextId, wire, responses, openers>>
    BY DEF Finish, responseVars, openVars
<1>5. c \notin openers
    BY DEF RequestOK, OpenersOK, InRequest
<1>6. RegistryIsExact'
    BY <1>2, <1>3, SMTT(30) DEF RequestOK, RegistryIsExact, IdsOK, InRequest, TypeOK
<1>7. IdsOK'
    BY <1>2, <1>3, <1>4 DEF RequestOK, IdsOK, InRequest
<1>8. OwnersOK'
    BY <1>2, <1>4 DEF RequestOK, OwnersOK, Owned
<1>9. AnswersOK' /\ AnswerMatches' /\ OpenersOK'
    BY <1>3, <1>4, <1>5 DEF RequestOK, AnswersOK, AnswerMatches, OpenersOK, TypeOK
<1> QED BY <1>6, <1>7, <1>8, <1>9 DEF RequestOK

\* Every request stays as it is, or its call ends without an entry to leave.
CallsStay ==
    \A c \in Callers :
        /\ call'[c].id = call[c].id /\ call'[c].fut = call[c].fut
        /\ call'[c].by = call[c].by
        /\ call'[c].outcome = call[c].outcome \/ call'[c].outcome # "answer"
        /\ call[c].at \in InRequest =>
              \/ call'[c].at \in InRequest
              \/ call[c].id \notin DOMAIN pending
        /\ call[c].at \notin InRequest => call'[c].at \notin InRequest

ResponsesStay ==
    responses' = responses \/ (responses' = Tail(responses) /\ responses # <<>>)

\* What is on its way to the server belongs to the callers it says.
WireOwned == \A m \in wire' : Owned(m.id, m.to)

LEMMA OthersKeep ==
    ASSUME TypeOK, RequestOK, UNCHANGED <<pending, nextId>>,
           WireOwned, ResponsesStay, CallsStay, OpenersOK'
    PROVE  RequestOK'
<1>1. RegistryIsExact'
    <2>1. ASSUME NEW i \in DOMAIN pending
          PROVE  /\ call'[pending[i]].at \in InRequest /\ call'[pending[i]].id = i
                 /\ call'[pending[i]].fut = "pending"
        <3>1. /\ pending[i] \in Callers /\ call[pending[i]].at \in InRequest
              /\ call[pending[i]].id = i /\ call[pending[i]].fut = "pending"
            BY <2>1 DEF RequestOK, RegistryIsExact, TypeOK
        <3> QED BY <2>1, <3>1 DEF CallsStay
    <2>2. ASSUME NEW c \in Callers, call'[c].at \in InRequest, call'[c].fut = "pending"
          PROVE  call'[c].id \in DOMAIN pending /\ pending[call'[c].id] = c
        <3>1. call[c].at \in InRequest /\ call[c].fut = "pending" /\ call'[c].id = call[c].id
            BY <2>2 DEF CallsStay
        <3> QED BY <3>1 DEF RequestOK, RegistryIsExact
    <2>3. pending' = pending
        OBVIOUS
    <2> QED BY <2>1, <2>2, <2>3 DEF RegistryIsExact
<1>2. IdsOK'
    BY DEF RequestOK, IdsOK, CallsStay
<1>3. OwnersOK'
    <2>1. \A i, d : Owned(i, d) => Owned(i, d)'
        BY DEF Owned
    <2>2. \A j \in 1..Len(responses') : \E n \in 1..Len(responses) : responses'[j] = responses[n]
        <3>1. CASE responses # <<>> /\ responses' = Tail(responses)
            <4>0. responses \in Seq([id : Nat, to : Callers])
                BY DEF TypeOK
            <4>1. /\ Len(responses') = Len(responses) - 1
                  /\ \A j \in 1..Len(responses') : responses'[j] = responses[j + 1]
                BY <4>0, <3>1, HeadTailProperties
            <4>2. Len(responses) \in Nat
                BY <4>0
            <4>3. \A j \in 1..Len(responses') : j + 1 \in 1..Len(responses)
                BY <4>1, <4>2
            <4> QED BY <4>1, <4>3
        <3> QED BY <3>1 DEF ResponsesStay
    <2> QED BY <2>1, <2>2 DEF RequestOK, OwnersOK, WireOwned
<1>4. AnswersOK' /\ AnswerMatches'
    BY DEF RequestOK, AnswersOK, AnswerMatches, CallsStay
<1> QED BY <1>1, <1>2, <1>3, <1>4 DEF RequestOK

\* Every pending request fails, and maybe the callers that await the socket.
LEMMA RejectKeeps ==
    ASSUME TypeOK, RequestOK, pending' = <<>>, UNCHANGED <<nextId, wire>>,
           responses' = responses \/ responses' = <<>>,
           \A c \in Callers : \/ call'[c] = Rejected(c)
                              \/ c \in openers /\ call'[c] = Ended(c, "disconnected"),
           \A c \in openers' : c \in openers /\ call'[c] = Rejected(c)
    PROVE  RequestOK'
<1>1. \A c \in Callers : call[c] \in CallType
    BY DEF TypeOK
<1>2. DOMAIN pending' = {}
    OBVIOUS
<1>3. \A c \in Callers :
         /\ call'[c].id = call[c].id /\ call'[c].by = call[c].by
         /\ \/ call'[c].outcome = call[c].outcome
            \/ call'[c].outcome = "disconnected"
         /\ call'[c].at = call[c].at \/ call'[c].at = "done"
         /\ call'[c].fut = call[c].fut \/ call'[c].fut = "rejected"
    <2> SUFFICES ASSUME NEW c \in Callers
                 PROVE  /\ call'[c].id = call[c].id /\ call'[c].by = call[c].by
                        /\ \/ call'[c].outcome = call[c].outcome
                           \/ call'[c].outcome = "disconnected"
                        /\ call'[c].at = call[c].at \/ call'[c].at = "done"
                        /\ call'[c].fut = call[c].fut \/ call'[c].fut = "rejected"
        OBVIOUS
    <2>1. \/ call'[c] = call[c]
          \/ call'[c] = [call[c] EXCEPT !.fut = "rejected"]
          \/ call'[c] = [call[c] EXCEPT !.at = "done", !.outcome = "disconnected"]
        BY DEF Rejected, Ended
    <2> QED BY <1>1, <2>1 DEF CallType
<1>4. \A c \in Callers : call'[c].at \in InRequest => call'[c].fut # "pending"
    <2>1. ASSUME NEW c \in Callers, call'[c].at \in InRequest, call'[c].fut = "pending"
          PROVE  FALSE
        <3>1. call[c].at \in InRequest /\ call[c].fut = "pending"
            BY <1>3, <2>1 DEF InRequest
        <3>2. \E i \in DOMAIN pending : pending[i] = c
            BY <3>1 DEF RequestOK, RegistryIsExact
        <3>3. Rejected(c).fut = "rejected"
            BY <1>1, <3>1, <3>2 DEF Rejected, CallType
        <3>4. c \notin openers
            BY <3>1 DEF RequestOK, OpenersOK, InRequest
        <3> QED BY <2>1, <3>3, <3>4
    <2> QED BY <2>1
<1>5. RegistryIsExact'
    BY <1>2, <1>4 DEF RegistryIsExact
<1>6. IdsOK'
    BY <1>2, <1>3 DEF RequestOK, IdsOK, InRequest
<1>7. OwnersOK'
    <2>1. \A i, d : Owned(i, d) => Owned(i, d)'
        BY <1>2 DEF Owned
    <2>2. responses' = <<>> => 1..Len(responses') = {}
        OBVIOUS
    <2> QED BY <2>1, <2>2 DEF RequestOK, OwnersOK
<1>8. AnswersOK' /\ AnswerMatches'
    BY <1>3 DEF RequestOK, AnswersOK, AnswerMatches
<1>9. OpenersOK'
    <2>1. \A c \in openers' : c \in Callers /\ call'[c] = Rejected(c) /\ call[c].at = "awaitOpen"
        BY DEF RequestOK, OpenersOK, TypeOK
    <2> QED BY <1>1, <2>1 DEF Rejected, CallType, OpenersOK
<1> QED BY <1>5, <1>6, <1>7, <1>8, <1>9 DEF RequestOK

LEMMA ConnectionKeeps ==
    ASSUME TypeOK, RequestOK, Connect \/ ConnectionTask \/ OnConnectedReturns \/ Drop
    PROVE  RequestOK'
<1> USE DEF connVars, socketVars, openVars, requestVars, responseVars, closeVars
<1>1. ASSUME UNCHANGED <<pending, nextId, wire, responses, call>>, openers' \subseteq openers
      PROVE  RequestOK'
    <2>1. OpenersOK' /\ CallsStay
        BY <1>1 DEF RequestOK, OpenersOK, CallsStay
    <2>2. ResponsesStay
        <3>1. responses' = responses
            BY <1>1
        <3> QED BY <3>1, Zenon DEF ResponsesStay
    <2>3. WireOwned
        BY <1>1 DEF WireOwned, RequestOK, OwnersOK
    <2> QED BY <1>1, <2>1, <2>2, <2>3, OthersKeep
<1>2. CASE Opened
    <2>1. \A c \in Callers : call[c] \in CallType
        BY DEF TypeOK
    <2>2. ASSUME NEW c \in Callers
          PROVE  /\ call'[c].id = call[c].id /\ call'[c].fut = call[c].fut
                 /\ call'[c].by = call[c].by /\ call'[c].outcome = call[c].outcome
                 /\ call[c].at \in InRequest => call'[c].at \in InRequest
                 /\ call[c].at \notin InRequest => call'[c].at \notin InRequest
        <3>1. CASE c \in openers
            <4>1. call'[c] = [call[c] EXCEPT !.at = "resumed", !.sock = opened + 1]
                BY <1>2, <3>1 DEF Opened, SetSocket
            <4>2. call[c].at = "awaitOpen"
                BY <3>1 DEF RequestOK, OpenersOK
            <4> QED BY <2>1, <4>1, <4>2 DEF CallType, InRequest
        <3>2. CASE c \notin openers
            BY <1>2, <3>2 DEF Opened, SetSocket
        <3> QED BY <3>1, <3>2
    <2>3. UNCHANGED <<pending, nextId, wire, responses>> /\ openers' = {}
        BY <1>2 DEF Opened, SetSocket
    <2>4. CallsStay
        BY <2>2 DEF CallsStay
    <2>5. ResponsesStay /\ OpenersOK'
        <3>1. responses' = responses /\ OpenersOK'
            BY <2>3 DEF OpenersOK
        <3> QED BY <3>1, Zenon DEF ResponsesStay
    <2>6. WireOwned
        BY <2>3 DEF WireOwned, RequestOK, OwnersOK
    <2> QED BY <2>3, <2>4, <2>5, <2>6, OthersKeep
<1>3. ASSUME Reconnect \/ Abandon, UNCHANGED <<nextId, wire, responses>>
      PROVE  RequestOK'
    <2>1. CASE Reconnect
        <3>1. \A c \in Callers : call'[c] = Rejected(c)
            BY <2>1 DEF Reconnect, RejectAll
        <3>2. openers' \subseteq openers /\ openers \subseteq Callers
            BY <2>1 DEF Reconnect, BeforeConnect, TypeOK
        <3> QED BY <1>3, <2>1, <3>1, <3>2, RejectKeeps DEF Reconnect, RejectAll
    <2>2. CASE Abandon
        BY <1>1, <1>3, <2>2 DEF Abandon
    <2> QED BY <1>3, <2>1, <2>2
<1>4. CASE OpenFails
    BY <1>3, <1>4 DEF OpenFails
<1>5. CASE ReceiveFails
    BY <1>1, <1>3, <1>5 DEF ReceiveFails
<1>6. CASE Connect \/ Cleanup
    BY <1>1, <1>6 DEF Connect, Cleanup, BeforeConnect
<1>7. CASE AcquireConnection \/ Retry \/ ConnCancelled \/ OnConnectedReturns \/ Drop
    BY <1>1, <1>7 DEF AcquireConnection, Retry, ConnCancelled, OnConnectedReturns, Drop
<1> QED BY <1>2, <1>4, <1>5, <1>6, <1>7 DEF ConnectionTask

LEMMA AnswersKeep ==
    ASSUME TypeOK, RequestOK, (\E m \in wire : ReceiveAnswer(m)) \/ HookStarts \/ HookReturns
    PROVE  RequestOK'
<1> USE DEF connVars, socketVars, openVars, requestVars, responseVars, closeVars
<1>0. responses \in Seq([id : Nat, to : Callers])
    BY DEF TypeOK
<1>1. ASSUME NEW m \in wire, ReceiveAnswer(m)
      PROVE  RequestOK'
    <2>1. m.id \in Nat /\ m.to \in Callers /\ Owned(m.id, m.to)
        BY DEF TypeOK, RequestOK, OwnersOK
    <2>2. CASE Hooked /\ m.id \in DOMAIN pending
        <3>1. /\ responses' = Append(responses, [id |-> m.id, to |-> m.to])
              /\ UNCHANGED <<pending, call, nextId, openers>> /\ wire' \subseteq wire
            BY <1>1, <2>2 DEF ReceiveAnswer
        <3>2. /\ [id |-> m.id, to |-> m.to] \in [id : Nat, to : Callers]
            BY <2>1
        <3>3. /\ Len(responses') = Len(responses) + 1
              /\ \A j \in 1..Len(responses) : responses'[j] = responses[j]
              /\ responses'[Len(responses) + 1] = [id |-> m.id, to |-> m.to]
            BY <1>0, <3>1, <3>2, AppendProperties
        <3>4. OwnersOK'
            <4>1. \A i, d : Owned(i, d) => Owned(i, d)'
                BY <3>1 DEF Owned
            <4>2. Len(responses) \in Nat
                BY <1>0
            <4>3. ASSUME NEW j \in 1..Len(responses')
                  PROVE  Owned(responses[j].id, responses[j].to)'
                <5>1. j \in 1..Len(responses) \/ j = Len(responses) + 1
                    BY <3>3, <4>2
                <5>2. CASE j \in 1..Len(responses)
                    <6>1. Owned(responses[j].id, responses[j].to)
                        BY <5>2 DEF RequestOK, OwnersOK
                    <6>2. responses'[j] = responses[j]
                        BY <3>3, <5>2
                    <6> QED BY <4>1, <6>1, <6>2
                <5>3. CASE j = Len(responses) + 1
                    <6>1. responses'[j] = [id |-> m.id, to |-> m.to]
                        BY <3>3, <5>3
                    <6> QED BY <2>1, <4>1, <6>1
                <5> QED BY <5>1, <5>2, <5>3
            <4> QED BY <3>1, <4>1, <4>3 DEF RequestOK, OwnersOK
        <3> QED
            BY <3>1, <3>4 DEF RequestOK, RegistryIsExact, IdsOK, AnswersOK, AnswerMatches, OpenersOK
    <2>3. CASE ~(Hooked /\ m.id \in DOMAIN pending)
        <3>1. Resolve(m.id, m.to) /\ UNCHANGED <<responses, nextId, openers>> /\ wire' \subseteq wire
            BY <1>1, <2>3 DEF ReceiveAnswer
        <3> QED BY <2>1, <3>1, ResolveKeeps
    <2> QED BY <2>2, <2>3
<1>2. CASE HookStarts
    <2>1. /\ UNCHANGED <<pending, nextId, wire, call, openers>>
          /\ responses' = responses \/ (responses' = Tail(responses) /\ responses # <<>>)
        BY <1>2 DEF HookStarts
    <2>2. OpenersOK' /\ CallsStay /\ ResponsesStay /\ WireOwned
        BY <2>1 DEF RequestOK, OpenersOK, CallsStay, ResponsesStay, OwnersOK, WireOwned
    <2> QED BY <2>1, <2>2, OthersKeep
<1>3. CASE HookReturns
    <2>1. responses # <<>> /\ responses' = Tail(responses)
        BY <1>3 DEF HookReturns, TypeOK
    <2>2. Head(responses) \in [id : Nat, to : Callers]
        BY <1>0, <2>1, TailTyped
    <2>3. Head(responses) = responses[1] /\ 1 \in 1..Len(responses)
        BY <1>0, <2>1, HeadTailProperties
    <2>4. Owned(Head(responses).id, Head(responses).to)
        BY <2>3 DEF RequestOK, OwnersOK
    <2>5. Resolve(Head(responses).id, Head(responses).to) /\ UNCHANGED <<nextId, openers, wire>>
        BY <1>3 DEF HookReturns
    <2> QED BY <2>1, <2>2, <2>4, <2>5, ResolveKeeps
<1> QED BY <1>1, <1>2, <1>3

LEMMA CallersKeep ==
    ASSUME TypeOK, RequestOK,
           \/ \E c \in Callers : Send(c) \/ Caller(c) \/ CancelCall(c)
           \/ Close \/ CloseSocket \/ CloseReturns
    PROVE  RequestOK'
<1> USE DEF connVars, socketVars, openVars, requestVars, responseVars, closeVars
<1>0. call \in [Callers -> CallType] /\ \A c \in Callers : call[c] \in CallType
    BY DEF TypeOK
<1>1. ASSUME UNCHANGED <<pending, nextId, responses>>, WireOwned, CallsStay, OpenersOK'
      PROVE  RequestOK'
    <2>1. ResponsesStay
        BY <1>1, Zenon DEF ResponsesStay
    <2> QED BY <1>1, <2>1, OthersKeep
<1>2. ASSUME wire' = wire
      PROVE  WireOwned
    BY <1>2 DEF WireOwned, RequestOK, OwnersOK
\* A call moves between stages in which it has no request, or in which it has.
<1>3. ASSUME UNCHANGED <<pending, nextId, responses>>, WireOwned,
             NEW c \in Callers, NEW s \in Stages, call' = [call EXCEPT ![c] = [call[c] EXCEPT !.at = s]],
             call[c].at \in InRequest <=> s \in InRequest,
             \/ openers' = openers /\ c \notin openers
             \/ s = "awaitOpen" /\ openers' = openers \union {c}
      PROVE  RequestOK'
    <2>1. call'[c] = [call[c] EXCEPT !.at = s] /\ \A d \in Callers \ {c} : call'[d] = call[d]
        BY <1>0, <1>3
    <2>2. /\ call'[c].at = s /\ call'[c].id = call[c].id /\ call'[c].fut = call[c].fut
          /\ call'[c].by = call[c].by /\ call'[c].outcome = call[c].outcome
        BY <1>0, <2>1 DEF CallType
    <2>3. CallsStay
        BY <1>3, <2>1, <2>2 DEF CallsStay
    <2>4. OpenersOK'
        BY <1>3, <2>1, <2>2 DEF OpenersOK, RequestOK, TypeOK
    <2> QED BY <1>1, <1>3, <2>3, <2>4
\* A call ends that has no request, or whose entry has been taken.
<1>4. ASSUME NEW c \in Callers, NEW o \in Outcomes
       PROVE  /\ Ended(c, o).at = "done" /\ Ended(c, o).outcome = o
              /\ Ended(c, o).id = call[c].id /\ Ended(c, o).by = call[c].by
              /\ Ended(c, o).fut = call[c].fut
    BY <1>0 DEF Ended, CallType
<1>5. ASSUME UNCHANGED <<pending, nextId, wire, responses, openers>>, NEW c \in Callers \ openers,
              NEW o \in Outcomes \ {"answer"}, call' = [call EXCEPT ![c] = Ended(c, o)],
              call[c].at \in InRequest => call[c].id \notin DOMAIN pending
       PROVE  RequestOK'
    <2>1. call'[c] = Ended(c, o) /\ \A d \in Callers \ {c} : call'[d] = call[d]
        BY <1>0, <1>5
    <2>2. CallsStay
        BY <1>4, <1>5, <2>1 DEF CallsStay, InRequest
    <2>3. OpenersOK'
        BY <1>5, <2>1 DEF OpenersOK, RequestOK, TypeOK
    <2> QED BY <1>1, <1>2, <1>5, <2>2, <2>3
<1>6. ASSUME NEW c \in Callers, Send(c)
      PROVE  RequestOK'
    <2>1. c \notin openers /\ call[c].at \notin InRequest
        BY <1>6 DEF Send, RequestOK, OpenersOK, InRequest
    <2>2. call' = [call EXCEPT ![c] = [call[c] EXCEPT !.at = "gated"]]
        BY <1>6 DEF Send
    <2>3. UNCHANGED <<pending, nextId, wire, responses, openers>>
        BY <1>6 DEF Send
    <2>4. "gated" \in Stages /\ "gated" \notin InRequest
        BY DEF Stages, InRequest
    <2> QED BY <1>2, <1>3, <2>1, <2>2, <2>3, <2>4
<1>7. ASSUME NEW c \in Callers, Admitted(c)
      PROVE  RequestOK'
    <2>1. c \notin openers /\ call[c].at \notin InRequest
        BY <1>7 DEF Admitted, RequestOK, OpenersOK, InRequest
    <2>2. CASE socket # 0
        <3>1. /\ Register(c, socket) /\ socket \in Sockets /\ openers' = openers
              /\ UNCHANGED <<wire, responses>> /\ call[c].at = "gated"
            BY <1>7, <2>2 DEF Admitted, TypeOK
        <3> QED BY <2>1, <3>1, RegisterKeeps
    <2>3. CASE socket = 0
        <3>1. UNCHANGED <<pending, nextId, wire, responses>>
            BY <1>7, <2>3 DEF Admitted
        <3>2. CASE open = "pending"
            <4>1. /\ call' = [call EXCEPT ![c] = [call[c] EXCEPT !.at = "awaitOpen"]]
                  /\ openers' = openers \union {c}
                BY <1>7, <2>3, <3>2 DEF Admitted
            <4>2. "awaitOpen" \in Stages /\ "awaitOpen" \notin InRequest
                BY DEF Stages, InRequest
            <4> QED BY <1>2, <1>3, <2>1, <3>1, <4>1, <4>2
        <3>3. CASE open # "pending"
            <4>1. PICK o \in {"cancelled", "disconnected"} : call' = [call EXCEPT ![c] = Ended(c, o)]
                BY <1>7, <2>3, <3>3 DEF Admitted, TypeOK
            <4>2. openers' = openers /\ o \in Outcomes \ {"answer"}
                BY <1>7, <2>3, <3>3, <4>1 DEF Admitted, Outcomes
            <4> QED BY <1>5, <2>1, <3>1, <4>1, <4>2
        <3> QED BY <3>2, <3>3
    <2> QED BY <2>2, <2>3
<1>8. ASSUME NEW c \in Callers, Resumed(c)
      PROVE  RequestOK'
    <2>1. c \notin openers /\ call[c].sock \in Sockets
        BY <1>0, <1>8 DEF Resumed, RequestOK, OpenersOK, CallType
    <2> QED BY <1>8, <2>1, RegisterKeeps DEF Resumed
<1>9. ASSUME NEW c \in Callers, Written(c)
      PROVE  RequestOK'
    <2>1. call[c].at \in InRequest /\ c \notin openers
        BY <1>9 DEF Written, RequestOK, OpenersOK, InRequest
    <2>2. call' = [call EXCEPT ![c] = [call[c] EXCEPT !.at = "written"]]
        BY <1>9 DEF Written
    <2>3. /\ wire' = wire \union {[id |-> call[c].id, to |-> c, sock |-> opened]}
          /\ UNCHANGED <<pending, nextId, responses, openers>>
        BY <1>9 DEF Written
    <2>4. Owned(call[c].id, c)
        BY <1>0, <2>1 DEF Owned, RequestOK, IdsOK, RegistryIsExact, TypeOK
    <2>5. WireOwned
        BY <2>3, <2>4 DEF WireOwned, RequestOK, OwnersOK
    <2>6. "written" \in Stages /\ "written" \in InRequest
        BY DEF Stages, InRequest
    <2> QED BY <1>3, <2>1, <2>2, <2>3, <2>5, <2>6
<1>10. ASSUME NEW c \in Callers, SendReturns(c)
      PROVE  RequestOK'
    <2>1. call[c].at \in InRequest /\ c \notin openers
        BY <1>10 DEF SendReturns, RequestOK, OpenersOK, InRequest
    <2>2. UNCHANGED <<pending, nextId, wire, responses, openers>>
        BY <1>10 DEF SendReturns
    <2>3. CASE call[c].id \in DOMAIN pending
        <3>1. call' = [call EXCEPT ![c] = [call[c] EXCEPT !.at = "waiting"]]
            BY <1>10, <2>3 DEF SendReturns
        <3>2. "waiting" \in Stages /\ "waiting" \in InRequest
            BY DEF Stages, InRequest
        <3> QED BY <1>2, <1>3, <2>1, <2>2, <3>1, <3>2
    <2>4. CASE call[c].id \notin DOMAIN pending
        <3>1. call' = [call EXCEPT ![c] = Ended(c, "KeyError")]
            BY <1>10, <2>4 DEF SendReturns
        <3>2. "KeyError" \in Outcomes \ {"answer"}
            BY DEF Outcomes
        <3> QED BY <1>5, <2>1, <2>2, <2>4, <3>1, <3>2
    <2> QED BY <2>3, <2>4
<1>11. ASSUME NEW c \in Callers, SendRaises(c) \/ WaitReturns(c) \/ WaitTimesOut(c)
      PROVE  RequestOK'
    <2>1. PICK o \in Outcomes : Finish(c, o) /\ (o = "answer" => call[c].fut = "answered")
        BY <1>11 DEF SendRaises, WaitReturns, WaitTimesOut, Outcomes
    <2>2. call[c].at \in InRequest
        BY <1>11 DEF SendRaises, WaitReturns, WaitTimesOut, InRequest
    <2> QED BY <2>1, <2>2, FinishKeeps
<1>12. ASSUME NEW c \in Callers, CancelCall(c)
       PROVE  RequestOK'
    <2>1. CASE call[c].at \in InRequest
        <3>1. Finish(c, "cancelled") /\ "cancelled" \in Outcomes
            BY <1>12, <2>1 DEF CancelCall, Outcomes
        <3> QED BY <2>1, <3>1, FinishKeeps
    <2>2. CASE call[c].at \notin InRequest
        <3> DEFINE hit == IF c \in openers THEN openers ELSE {c}
        <3>1. /\ UNCHANGED <<pending, nextId, wire, responses>> /\ openers' = openers \ hit
              /\ call' = [d \in Callers |-> IF d \in hit THEN Ended(d, "cancelled") ELSE call[d]]
            BY <1>12, <2>2 DEF CancelCall
        <3>2. \A d \in hit : d \in Callers /\ call[d].at \notin InRequest
            BY <2>2 DEF RequestOK, OpenersOK, InRequest, TypeOK
        <3> HIDE DEF hit
        <3>3. "cancelled" \in Outcomes /\ "done" \notin InRequest /\ "cancelled" # "answer"
            BY DEF Outcomes, InRequest
        <3>4. \A d \in Callers : call'[d] = IF d \in hit THEN Ended(d, "cancelled") ELSE call[d]
            BY <3>1
        <3>5. CallsStay
            BY <1>4, <3>2, <3>3, <3>4 DEF CallsStay
        <3>6. OpenersOK'
            BY <3>1, <3>4 DEF OpenersOK, RequestOK, TypeOK
        <3> QED BY <1>1, <1>2, <3>1, <3>5, <3>6
    <2> QED BY <2>1, <2>2
<1>13. CASE Close
    <2>1. /\ pending' = <<>> /\ UNCHANGED <<nextId, wire>> /\ responses' = <<>> /\ openers' = {}
          /\ \A d \in Callers : call'[d] = IF d \in openers THEN Ended(d, "disconnected")
                                                            ELSE Rejected(d)
        BY <1>13 DEF Close
    <2> QED BY <2>1, RejectKeeps
<1>14. CASE CloseSocket \/ CloseReturns
    <2>1. UNCHANGED <<pending, nextId, wire, responses, call, openers>>
        BY <1>14 DEF CloseSocket, CloseReturns
    <2>2. CallsStay /\ OpenersOK'
        BY <2>1 DEF CallsStay, RequestOK, OpenersOK
    <2> QED BY <1>1, <1>2, <2>1, <2>2
<1> QED
    BY <1>6, <1>7, <1>8, <1>9, <1>10, <1>11, <1>12, <1>13, <1>14 DEF Caller

-----------------------------------------------------------------------------
(* The theorems *)

LEMMA InitRequest == Init => RequestOK
<1> SUFFICES ASSUME Init PROVE RequestOK
    OBVIOUS
<1>1. /\ DOMAIN pending = {} /\ wire = {} /\ 1..Len(responses) = {} /\ openers = {}
      /\ \A c \in Callers : call[c] = Idle
    BY DEF Init
<1>2. Idle.at \notin InRequest /\ Idle.fut = "none" /\ Idle.outcome = "none"
    BY DEF Idle, InRequest
<1> QED
    BY <1>1, <1>2 DEF RequestOK, RegistryIsExact, IdsOK, OwnersOK, AnswersOK, AnswerMatches, OpenersOK

LEMMA RequestPreserved ==
    ASSUME TypeOK, RequestOK, [Next]_vars
    PROVE  RequestOK'
<1>1. CASE UNCHANGED vars
    BY <1>1 DEF vars, connVars, socketVars, openVars, requestVars, responseVars, closeVars,
                RequestOK, RegistryIsExact, IdsOK, OwnersOK, Owned, AnswersOK, AnswerMatches, OpenersOK
<1> QED BY <1>1, ConnectionKeeps, AnswersKeep, CallersKeep DEF Next

LEMMA Inductive == Spec => []IInv
<1>1. Init => IInv
    BY InitTyped, InitRequest DEF IInv
<1>2. IInv /\ [Next]_vars => IInv'
    BY TypePreserved, RequestPreserved DEF IInv
<1> QED BY <1>1, <1>2, PTL DEF Spec

-----------------------------------------------------------------------------
(* The connection task and close() *)

LEMMA TaskInit == Init => TaskOK /\ ClosedIsFinal
BY DEF Init, TaskOK, ClosedIsFinal

LEMMA TaskKeeps ==
    ASSUME TypeOK, TaskOK, ClosedIsFinal, [Next]_vars
    PROVE  TaskOK' /\ ClosedIsFinal'
<1> USE DEF TaskOK, ClosedIsFinal, connVars, socketVars, openVars, requestVars, responseVars,
            closeVars
<1>0. opened \in Nat /\ socket \in Nat /\ closer \in {"idle", "awaiting", "done"}
    BY StreamAssumption DEF TypeOK, Sockets
<1>1. CASE Connect
    BY <1>1 DEF Connect, BeforeConnect
<1>2. CASE AcquireConnection \/ Retry \/ Cleanup
    BY <1>2 DEF AcquireConnection, Retry, Cleanup, BeforeConnect
<1>3. CASE Opened
    <2>1. /\ opened' = opened + 1 /\ socket' = opened + 1
          /\ UNCHANGED <<cancelled, responses, hooking, closing, closer>>
          /\ conn = "opening" /\ ~cancelled
          /\ conn' = IF closing THEN "ended" ELSE "receiving"
        BY <1>3 DEF Opened, SetSocket
    <2>2. up' <=> ~closing
        BY <1>3, Zenon DEF Opened
    <2>3. closer # "done"
        BY <2>1
    <2> QED BY <1>0, <2>1, <2>2, <2>3
<1>4. CASE OpenFails
    BY <1>4 DEF OpenFails, Reconnect, BeforeConnect, Abandon
<1>5. CASE ReceiveFails
    BY <1>5 DEF ReceiveFails, Reconnect, BeforeConnect, Abandon
<1>6. CASE ConnCancelled \/ OnConnectedReturns \/ Drop
    BY <1>6 DEF ConnCancelled, OnConnectedReturns, Drop
<1>7. ASSUME NEW m \in wire, ReceiveAnswer(m)
      PROVE  TaskOK' /\ ClosedIsFinal'
    <2>1. closer = "idle"
        BY <1>0, <1>7 DEF ReceiveAnswer
    <2> QED BY <1>7, <2>1 DEF ReceiveAnswer
<1>8. CASE HookStarts \/ HookReturns
    BY <1>8 DEF HookStarts, HookReturns
<1>9. ASSUME NEW c \in Callers, Send(c) \/ Caller(c)
      PROVE  TaskOK' /\ ClosedIsFinal'
    BY <1>9 DEF Send, Caller, Finish, Admitted, Resumed, Written, SendReturns, SendRaises,
                WaitReturns, WaitTimesOut
<1>10. ASSUME NEW c \in Callers, CancelCall(c)
       PROVE  TaskOK' /\ ClosedIsFinal'
    BY <1>10 DEF CancelCall, Finish
<1>11. CASE Close
    BY <1>11 DEF Close
<1>12. CASE CloseSocket
    BY <1>12 DEF CloseSocket
<1>14. CASE CloseReturns
    BY <1>14 DEF CloseReturns
<1>13. CASE UNCHANGED vars
    BY <1>13 DEF vars
<1> QED
    BY <1>1, <1>2, <1>3, <1>4, <1>5, <1>6, <1>7, <1>8, <1>9, <1>10, <1>11, <1>12, <1>13, <1>14
       DEF Next, ConnectionTask

-----------------------------------------------------------------------------
(* What has gone out *)

\* A step that registers and sends nothing, and after which a request that is
\* still registered has still gone out.
GoesOn ==
    /\ \A i \in DOMAIN pending' : i \in DOMAIN pending
    /\ wire' \subseteq wire /\ ResponsesStay
    /\ opened > 0 => opened' > 0
    /\ closer # "idle" \/ conn \in {"receiving", "ended"} =>
           closer' # "idle" \/ conn' \in {"receiving", "ended"}
    /\ \A c \in Callers :
          /\ call'[c].at \in InRequest \cup {"resumed"} =>
                 call[c].at \in InRequest \cup {"resumed"} \/ opened' > 0
          /\ GoneOut(c)' /\ call'[c].fut = "pending" => GoneOut(c) /\ call[c].fut = "pending"
          /\ GoneOut(c) /\ call[c].id \in DOMAIN pending' => GoneOut(c)'

\* What a registered id is for, in the registry and at the caller.
LEMMA RegisteredIs ==
    ASSUME TypeOK, RequestOK, NEW i \in DOMAIN pending, NEW c, Owned(i, c)
    PROVE  /\ c \in Callers /\ call[c].id = i /\ call[c].at \in InRequest
           /\ call[c].fut = "pending"
BY DEF TypeOK, RequestOK, RegistryIsExact, Owned

LEMMA TailWithin ==
    ASSUME TypeOK, ResponsesStay
    PROVE  \A j \in 1..Len(responses') : \E n \in 1..Len(responses) : responses'[j] = responses[n]
<1>0. responses \in Seq([id : Nat, to : Callers])
    BY DEF TypeOK
<1>1. CASE responses # <<>> /\ responses' = Tail(responses)
    <2>1. /\ Len(responses') = Len(responses) - 1
          /\ \A j \in 1..Len(responses') : responses'[j] = responses[j + 1]
        BY <1>0, <1>1, HeadTailProperties
    <2>2. Len(responses) \in Nat
        BY <1>0
    <2>3. \A j \in 1..Len(responses') : j + 1 \in 1..Len(responses)
        BY <2>1, <2>2
    <2> QED BY <2>1, <2>3
<1> QED BY <1>1 DEF ResponsesStay

LEMMA CarriedGoesOn ==
    ASSUME TypeOK, RequestOK, CarriedOK, GoesOn
    PROVE  CarriedOK'
<1>1. \A c \in Callers : call'[c].at \in InRequest \cup {"resumed"} => opened' > 0
    BY DEF CarriedOK, GoesOn
<1>2. \A c \in Callers : GoneOut(c)' /\ call'[c].fut = "pending" =>
          closer' # "idle" \/ conn' \in {"receiving", "ended"}
    BY DEF CarriedOK, GoesOn
<1>3. ASSUME NEW i \in DOMAIN pending, NEW c, Owned(i, c), GoneOut(c), i \in DOMAIN pending'
      PROVE  GoneOut(c)'
    BY <1>3, RegisteredIs DEF GoesOn
<1>4. \A m \in wire' : m.id \in DOMAIN pending' => GoneOut(m.to)'
    BY <1>3 DEF CarriedOK, GoesOn, RequestOK, OwnersOK
<1>5. ASSUME NEW j \in 1..Len(responses'), responses'[j].id \in DOMAIN pending'
      PROVE  call'[responses'[j].to].at \in {"written", "waiting"}
    <2>1. PICK n \in 1..Len(responses) : responses'[j] = responses[n]
        BY TailWithin DEF GoesOn
    <2>2. Owned(responses[n].id, responses[n].to) /\ responses[n].id \in DOMAIN pending
        BY <1>5, <2>1 DEF RequestOK, OwnersOK, GoesOn
    <2>3. GoneOut(responses[n].to)
        BY <2>2 DEF CarriedOK
    <2>4. PICK to : to = responses[n].to
        OBVIOUS
    <2>5. GoneOut(to)'
        BY <1>3, <1>5, <2>1, <2>2, <2>3, <2>4
    <2> QED BY <2>1, <2>4, <2>5 DEF GoneOut
<1> QED BY <1>1, <1>2, <1>4, <1>5 DEF CarriedOK, GoneOut

\* Every request is rejected.
LEMMA CarriedRejected ==
    ASSUME TypeOK, CarriedOK, RequestOK', pending' = <<>>, opened > 0 => opened' > 0,
           \A c \in Callers : call'[c].at = call[c].at \/ call'[c].at = "done"
    PROVE  CarriedOK'
<1>1. DOMAIN pending' = {}
    OBVIOUS
<1>2. \A c \in Callers : call'[c].at \in InRequest => call'[c].fut # "pending"
    BY <1>1 DEF RequestOK, RegistryIsExact
<1> QED BY <1>1, <1>2 DEF CarriedOK, GoneOut, InRequest

\* A request is registered, on a socket there has been.
LEMMA CarriedRegistered ==
    ASSUME TypeOK, RequestOK, CarriedOK, NEW c \in Callers, NEW k \in Sockets, Register(c, k),
           call[c].at \in {"gated", "resumed"}, opened > 0,
           UNCHANGED <<wire, responses, conn, closer, opened>>
    PROVE  CarriedOK'
<1>1. /\ call \in [Callers -> CallType] /\ call[c] \in CallType
      /\ DOMAIN pending' = DOMAIN pending \cup {nextId}
    BY DEF TypeOK, Register, FreshId
<1>2. /\ call'[c].at = "sending"
      /\ \A d \in Callers \ {c} : call'[d] = call[d]
    BY <1>1 DEF Register, FreshId, CallType
<1>3. ASSUME NEW i \in Nat, NEW d, Owned(i, d), i \in DOMAIN pending',
             i \in DOMAIN pending => GoneOut(d)
      PROVE  GoneOut(d)'
    <2>1. nextId \in Nat /\ i < nextId
        BY <1>3 DEF Owned, TypeOK
    <2>2. i \in DOMAIN pending
        BY <1>1, <1>3, <2>1
    <2>3. d \in Callers
        BY <1>3, <2>2, RegisteredIs
    <2>4. d # c
        BY <1>3, <2>2 DEF GoneOut
    <2> QED BY <1>2, <1>3, <2>2, <2>3, <2>4 DEF GoneOut
<1>4. \A m \in wire : m.id \in DOMAIN pending' => GoneOut(m.to)'
    BY <1>3 DEF CarriedOK, RequestOK, OwnersOK, TypeOK
<1>5. \A j \in 1..Len(responses) : responses[j].id \in DOMAIN pending' => GoneOut(responses[j].to)'
    <2>1. responses \in Seq([id : Nat, to : Callers])
        BY DEF TypeOK
    <2>2. \A j \in 1..Len(responses) : responses[j] \in [id : Nat, to : Callers]
        BY <2>1, ElementOfSeq
    <2> QED BY <1>3, <2>2 DEF CarriedOK, RequestOK, OwnersOK
<1> QED BY <1>2, <1>4, <1>5 DEF CarriedOK, GoneOut

LEMMA CarriedInit == Init => CarriedOK
<1> SUFFICES ASSUME Init PROVE CarriedOK
    OBVIOUS
<1>1. \A c \in Callers : call[c].at = "idle"
    BY DEF Init, Idle
<1>2. wire = {} /\ 1..Len(responses) = {}
    BY DEF Init
<1> QED BY <1>1, <1>2 DEF CarriedOK, GoneOut, InRequest

LEMMA CarriedKeeps ==
    ASSUME TypeOK, RequestOK, TaskOK, ClosedIsFinal, CarriedOK, RequestOK', [Next]_vars
    PROVE  CarriedOK'
<1> USE DEF connVars, socketVars, openVars, requestVars, responseVars, closeVars
<1>0. /\ opened \in Nat /\ socket \in Sockets /\ closer \in {"idle", "awaiting", "done"}
      /\ \A c \in Callers : call[c] \in CallType
    BY StreamAssumption DEF TypeOK, Sockets
<1>1. ASSUME UNCHANGED <<pending, wire, responses, call, opened>>,
             closer # "idle" \/ conn \in {"receiving", "ended"} =>
                 closer' # "idle" \/ conn' \in {"receiving", "ended"}
      PROVE  CarriedOK'
    <2>1. GoesOn
        BY <1>1 DEF GoesOn, ResponsesStay, GoneOut
    <2> QED BY <2>1, CarriedGoesOn
<1>2. CASE Connect \/ AcquireConnection \/ Retry \/ Cleanup
    BY <1>1, <1>2 DEF Connect, AcquireConnection, Retry, Cleanup
<1>3. CASE ConnCancelled \/ OnConnectedReturns \/ Drop
    BY <1>1, <1>3 DEF ConnCancelled, OnConnectedReturns, Drop
<1>4. CASE CloseSocket \/ CloseReturns
    BY <1>1, <1>4 DEF CloseSocket, CloseReturns
<1>5. CASE UNCHANGED vars
    BY <1>1, <1>5 DEF vars
<1>6. CASE Opened
    <2>1. /\ UNCHANGED <<pending, wire, responses>> /\ opened' > 0
          /\ conn' \in {"receiving", "ended"}
        BY <1>0, <1>6 DEF Opened
    <2>2. ASSUME NEW c \in Callers
          PROVE  \/ call'[c] = call[c]
                 \/ call'[c].at = "resumed" /\ ~GoneOut(c)
        <3>1. CASE c \in openers
            <4>1. call'[c] = [call[c] EXCEPT !.at = "resumed", !.sock = opened + 1]
                BY <1>6, <3>1 DEF Opened, SetSocket
            <4>2. call'[c].at = "resumed"
                BY <1>0, <4>1 DEF CallType
            <4> QED BY <3>1, <4>2 DEF RequestOK, OpenersOK, GoneOut
        <3>2. CASE c \notin openers
            BY <1>6, <3>2 DEF Opened, SetSocket
        <3> QED BY <3>1, <3>2
    <2>3. GoesOn
        BY <2>1, <2>2 DEF GoesOn, ResponsesStay, GoneOut
    <2> QED BY <2>3, CarriedGoesOn
<1>7. CASE OpenFails \/ ReceiveFails
    <2>1. UNCHANGED <<opened, wire, responses, closer>>
        BY <1>7 DEF OpenFails, ReceiveFails
    <2>2. CASE Reconnect
        <3>1. pending' = <<>> /\ \A c \in Callers : call'[c] = Rejected(c)
            BY <2>2 DEF Reconnect, RejectAll
        <3>2. \A c \in Callers : call'[c].at = call[c].at
            BY <1>0, <3>1 DEF Rejected, CallType
        <3> QED BY <2>1, <3>1, <3>2, CarriedRejected
    <2>3. CASE ~Reconnect
        <3>1. UNCHANGED <<pending, call>> /\ conn' = "ended"
            BY <1>7, <2>3 DEF OpenFails, ReceiveFails, Abandon
        <3> QED BY <1>1, <2>1, <3>1
    <2> QED BY <2>2, <2>3
<1>8. ASSUME NEW id \in Nat, NEW to \in Callers, Owned(id, to), Resolve(id, to)
      PROVE  /\ \A i \in DOMAIN pending' : i \in DOMAIN pending
             /\ \A c \in Callers :
                  /\ call'[c].at = call[c].at
                  /\ call'[c].fut = "pending" => call[c].fut = "pending"
    <2>1. \A i \in DOMAIN pending' : i \in DOMAIN pending
        BY <1>8 DEF Resolve, Remove, Without
    <2>2. \/ call' = call
          \/ call' = [call EXCEPT ![to] = [call[to] EXCEPT !.fut = "answered", !.by = {to}]]
        BY <1>8, Zenon DEF Resolve, Owned
    <2>3. /\ [call[to] EXCEPT !.fut = "answered", !.by = {to}].at = call[to].at
          /\ [call[to] EXCEPT !.fut = "answered", !.by = {to}].fut = "answered"
        BY <1>0 DEF CallType
    <2>4. ASSUME NEW c \in Callers
          PROVE  /\ call'[c].at = call[c].at
                 /\ call'[c].fut = "pending" => call[c].fut = "pending"
        BY <2>2, <2>3 DEF TypeOK
    <2> QED BY <2>1, <2>4
<1>9. ASSUME NEW m \in wire, ReceiveAnswer(m)
      PROVE  CarriedOK'
    <2>1. /\ m.id \in Nat /\ m.to \in Callers /\ Owned(m.id, m.to)
          /\ UNCHANGED <<opened, conn, closer>> /\ wire' \subseteq wire
        BY <1>9 DEF ReceiveAnswer, TypeOK, RequestOK, OwnersOK
    <2>2. CASE Hooked /\ m.id \in DOMAIN pending
        <3>1. responses' = Append(responses, [id |-> m.id, to |-> m.to])
              /\ UNCHANGED <<pending, call>>
            BY <1>9, <2>2 DEF ReceiveAnswer
        <3>2. responses \in Seq(Message) /\ [id |-> m.id, to |-> m.to] \in Message
            BY <2>1 DEF TypeOK, Message
        <3>3. \A k \in 1..Len(responses') :
                 \/ k \in 1..Len(responses) /\ responses'[k] = responses[k]
                 \/ responses'[k] = [id |-> m.id, to |-> m.to]
            BY <3>1, <3>2, AppendProperties
        <3>4. GoneOut(m.to)
            BY <2>2 DEF CarriedOK
        <3> QED BY <2>1, <3>1, <3>3, <3>4 DEF CarriedOK, GoneOut
    <2>3. CASE ~(Hooked /\ m.id \in DOMAIN pending)
        <3>1. Resolve(m.id, m.to) /\ UNCHANGED responses
            BY <1>9, <2>3 DEF ReceiveAnswer
        <3>2. GoesOn
            BY <1>8, <2>1, <3>1 DEF GoesOn, ResponsesStay, GoneOut
        <3> QED BY <3>2, CarriedGoesOn
    <2> QED BY <2>2, <2>3
<1>10. CASE HookStarts
    <2>1. GoesOn
        BY <1>10 DEF HookStarts, GoesOn, ResponsesStay, GoneOut
    <2> QED BY <2>1, CarriedGoesOn
<1>11. CASE HookReturns
    <2>1. responses # <<>>
        BY <1>11 DEF HookReturns, TypeOK
    <2>2. responses \in Seq([id : Nat, to : Callers])
        BY DEF TypeOK
    <2>3. Head(responses) = responses[1] /\ 1 \in 1..Len(responses)
        BY <2>1, <2>2, HeadTailProperties
    <2>4. Head(responses) \in [id : Nat, to : Callers]
        BY <2>1, <2>2, HeadTailProperties
    <2>8. PICK r : r = Head(responses)
        OBVIOUS
    <2>5. Owned(r.id, r.to) /\ r.id \in Nat /\ r.to \in Callers
        BY <2>3, <2>4, <2>8 DEF RequestOK, OwnersOK
    <2>6. Resolve(r.id, r.to) /\ UNCHANGED <<wire, opened, conn, closer>>
          /\ responses' = Tail(responses)
        BY <1>11, <2>8 DEF HookReturns
    <2>7. GoesOn
        BY <1>8, <2>1, <2>5, <2>6 DEF GoesOn, ResponsesStay, GoneOut
    <2> QED BY <2>7, CarriedGoesOn
<1>12. ASSUME NEW c \in Callers, NEW r, call' = [call EXCEPT ![c] = r],
              UNCHANGED <<wire, responses, opened, conn, closer>>,
              \A i \in DOMAIN pending' : i \in DOMAIN pending,
              \/ r.at \notin InRequest \cup {"resumed"}
              \/ r.at = "waiting" /\ GoneOut(c) /\ r.fut = call[c].fut,
              GoneOut(c) /\ call[c].id \in DOMAIN pending' => r.at \in {"written", "waiting"}
       PROVE  CarriedOK'
    <2>1. call'[c] = r /\ \A d \in Callers \ {c} : call'[d] = call[d]
        BY <1>12 DEF TypeOK
    <2>2. GoesOn
        BY <1>12, <2>1 DEF GoesOn, ResponsesStay, GoneOut, InRequest
    <2> QED BY <2>2, CarriedGoesOn
<1>13. \A c \in Callers : /\ \A o \in Outcomes : Ended(c, o).at = "done"
                          /\ \A s \in Stages : /\ [call[c] EXCEPT !.at = s].at = s
                                              /\ [call[c] EXCEPT !.at = s].fut = call[c].fut
    BY <1>0 DEF Ended, CallType
<1>14. ASSUME NEW c \in Callers, NEW o \in Outcomes, Finish(c, o)
       PROVE  CarriedOK'
    <2>1. /\ DOMAIN pending' = DOMAIN pending \ {call[c].id}
          /\ call' = [call EXCEPT ![c] = Ended(c, o)]
          /\ UNCHANGED <<wire, responses, opened, conn, closer>>
        BY <1>14 DEF Finish, Remove, Without
    <2>2. Ended(c, o).at = "done"
        BY <1>13
    <2> QED BY <1>12, <2>1, <2>2 DEF InRequest
<1>15. ASSUME NEW c \in Callers, Send(c)
       PROVE  CarriedOK'
    <2>1. [call[c] EXCEPT !.at = "gated"].at = "gated" /\ ~GoneOut(c)
        BY <1>13, <1>15 DEF Send, Stages, GoneOut
    <2>2. /\ call' = [call EXCEPT ![c] = [call[c] EXCEPT !.at = "gated"]]
          /\ UNCHANGED <<pending, wire, responses, opened, conn, closer>>
        BY <1>15 DEF Send
    <2> QED BY <1>12, <2>1, <2>2 DEF InRequest
<1>16. ASSUME NEW c \in Callers, Admitted(c)
       PROVE  CarriedOK'
    <2>0. UNCHANGED <<wire, responses, opened, conn, closer>> /\ call[c].at = "gated"
        BY <1>16 DEF Admitted
    <2>1. CASE socket # 0
        <3>1. opened > 0
            BY <1>0, <2>1 DEF TaskOK
        <3>2. Register(c, socket)
            BY <1>16, <2>1 DEF Admitted
        <3> QED BY <1>0, <2>0, <3>1, <3>2, CarriedRegistered
    <2>2. CASE socket = 0
        <3>1. /\ \/ call' = [call EXCEPT ![c] = [call[c] EXCEPT !.at = "awaitOpen"]]
                 \/ call' = [call EXCEPT ![c] = Ended(c, "cancelled")]
                 \/ call' = [call EXCEPT ![c] = Ended(c, "disconnected")]
              /\ UNCHANGED pending
            BY <1>16, <2>2 DEF Admitted, TypeOK
        <3>2. ASSUME NEW r, call' = [call EXCEPT ![c] = r], r.at \in {"awaitOpen", "done"}
              PROVE  CarriedOK'
            BY <1>12, <2>0, <3>1, <3>2 DEF InRequest, GoneOut
        <3>3. /\ [call[c] EXCEPT !.at = "awaitOpen"].at = "awaitOpen"
              /\ Ended(c, "cancelled").at = "done" /\ Ended(c, "disconnected").at = "done"
            BY <1>13 DEF Stages, Outcomes
        <3> QED BY <3>1, <3>2, <3>3
    <2> QED BY <2>1, <2>2
<1>17. ASSUME NEW c \in Callers, Resumed(c)
       PROVE  CarriedOK'
    <2>1. call[c].sock \in Sockets /\ call[c].at = "resumed" /\ opened > 0
        BY <1>0, <1>17 DEF Resumed, CallType, CarriedOK
    <2>2. Register(c, call[c].sock) /\ UNCHANGED <<wire, responses, opened, conn, closer>>
        BY <1>17 DEF Resumed
    <2> QED BY <2>1, <2>2, CarriedRegistered
<1>18. ASSUME NEW c \in Callers, Written(c)
       PROVE  CarriedOK'
    <2>1. /\ call[c].at = "sending" /\ conn = "receiving"
          /\ wire' = wire \union {[id |-> call[c].id, to |-> c, sock |-> opened]}
          /\ UNCHANGED <<pending, responses, opened, conn, closer>>
        BY <1>18 DEF Written, TaskOK
    <2>2. call' = [call EXCEPT ![c] = [call[c] EXCEPT !.at = "written"]]
        BY <1>18 DEF Written
    <2>3. call'[c].at = "written" /\ \A d \in Callers \ {c} : call'[d] = call[d]
        BY <1>13, <2>2 DEF TypeOK, Stages
    <2>4. \A d : GoneOut(d) /\ d \in Callers => GoneOut(d)'
        BY <2>3 DEF GoneOut
    <2>5. /\ \A m \in wire : m.to \in Callers
          /\ \A k \in 1..Len(responses) : responses[k].to \in Callers
        <3>1. responses \in Seq([id : Nat, to : Callers])
            BY DEF TypeOK
        <3>2. \A k \in 1..Len(responses) : responses[k] \in [id : Nat, to : Callers]
            BY <3>1, ElementOfSeq
        <3> QED BY <3>2 DEF TypeOK
    <2>6. \A k \in 1..Len(responses) :
              responses[k].id \in DOMAIN pending => call'[responses[k].to].at \in {"written", "waiting"}
        BY <2>4, <2>5 DEF CarriedOK, GoneOut
    <2>7. \A m \in wire' : m.id \in DOMAIN pending => GoneOut(m.to)'
        BY <2>1, <2>3, <2>4, <2>5 DEF CarriedOK, GoneOut
    <2> QED BY <2>1, <2>3, <2>6, <2>7 DEF CarriedOK, GoneOut, InRequest
<1>19. ASSUME NEW c \in Callers, SendReturns(c)
       PROVE  CarriedOK'
    <2>1. /\ UNCHANGED <<pending, wire, responses, opened, conn, closer>>
          /\ call[c].at = "written"
        BY <1>19 DEF SendReturns
    <2>2. CASE call[c].id \in DOMAIN pending
        <3>1. call' = [call EXCEPT ![c] = [call[c] EXCEPT !.at = "waiting"]]
            BY <1>19, <2>2 DEF SendReturns
        <3>2. PICK r : r = [call[c] EXCEPT !.at = "waiting"]
            OBVIOUS
        <3>3. r.at = "waiting" /\ r.fut = call[c].fut
            BY <1>13, <3>2 DEF Stages
        <3> QED BY <1>12, <2>1, <3>1, <3>2, <3>3 DEF GoneOut
    <2>3. CASE call[c].id \notin DOMAIN pending
        <3>1. call' = [call EXCEPT ![c] = Ended(c, "KeyError")]
            BY <1>19, <2>3 DEF SendReturns, TypeOK
        <3>2. Ended(c, "KeyError").at = "done"
            BY <1>13 DEF Outcomes
        <3> QED BY <1>12, <2>1, <2>3, <3>1, <3>2 DEF InRequest
    <2> QED BY <2>2, <2>3
<1>20. ASSUME NEW c \in Callers, SendRaises(c) \/ WaitReturns(c) \/ WaitTimesOut(c)
       PROVE  CarriedOK'
    BY <1>14, <1>20 DEF SendRaises, WaitReturns, WaitTimesOut, Outcomes
<1>21. ASSUME NEW c \in Callers, CancelCall(c)
       PROVE  CarriedOK'
    <2>1. CASE call[c].at \in InRequest
        BY <1>14, <1>21, <2>1 DEF CancelCall, Outcomes
    <2>2. CASE call[c].at \notin InRequest
        <3>1. UNCHANGED <<pending, wire, responses, opened, conn, closer>>
            BY <1>21, <2>2 DEF CancelCall
        <3>2. \A d \in Callers :
                 call'[d] = call[d] \/ (call'[d] = Ended(d, "cancelled") /\ d \in openers \cup {c})
            BY <1>21, <2>2 DEF CancelCall
        <3>3. \A d \in openers \cup {c} : ~GoneOut(d)
            BY <2>2 DEF RequestOK, OpenersOK, GoneOut, InRequest
        <3>4. \A d \in Callers : call'[d] = call[d] \/ (call'[d].at = "done" /\ ~GoneOut(d))
            BY <1>13, <3>2, <3>3 DEF Outcomes
        <3>5. GoesOn
            BY <3>1, <3>4 DEF GoesOn, ResponsesStay, GoneOut, InRequest
        <3> QED BY <3>5, CarriedGoesOn
    <2> QED BY <2>1, <2>2
<1>22. CASE Close
    <2>1. pending' = <<>> /\ opened' = opened
        BY <1>22 DEF Close
    <2>2. \A c \in Callers : call'[c] = Ended(c, "disconnected") \/ call'[c] = Rejected(c)
        BY <1>22 DEF Close
    <2>3. \A c \in Callers : Rejected(c).at = call[c].at
        BY <1>0 DEF Rejected, CallType
    <2>4. \A c \in Callers : call'[c].at = call[c].at \/ call'[c].at = "done"
        BY <1>13, <2>2, <2>3 DEF Outcomes
    <2> QED BY <2>1, <2>4, CarriedRejected
<1> QED
    BY <1>2, <1>3, <1>4, <1>5, <1>6, <1>7, <1>9, <1>10, <1>11, <1>15, <1>16, <1>17, <1>18, <1>19,
       <1>20, <1>21, <1>22, Zenon DEF Next, ConnectionTask, Caller

-----------------------------------------------------------------------------
(* The stream is a connection *)

\* A caller whose record is r, and who never has another's answer.
Own(c, r) ==
    /\ r \in CallType
    /\ r.fut = "answered" => r.by = {c}
    /\ r.outcome = "answer" => r.by = {c}

LEMMA CallsOwn == ASSUME TypeOK, RequestOK PROVE \A c \in Callers : Own(c, call[c])
BY DEF TypeOK, RequestOK, AnswersOK, AnswerMatches, Own

\* How a caller sees its call.
LEMMA Views ==
    ASSUME NEW c, NEW r, Own(c, r)
    PROVE  /\ r.at = "idle" => SeenBy(c, r) = "none"
           /\ r.at \in {"gated", "awaitOpen", "resumed"} => SeenBy(c, r) = "asked"
           /\ r.at = "sending" => SeenBy(c, r) = IF r.fut = "pending" THEN "asked" ELSE "failed"
           /\ r.at = "written" => SeenBy(c, r) = IF r.fut = "pending" THEN "sent" ELSE "failed"
           /\ r.at = "waiting" /\ r.fut = "pending" => SeenBy(c, r) = "sent"
           /\ r.at = "waiting" /\ r.fut = "answered" => SeenBy(c, r) = "answered"
           /\ r.at = "waiting" /\ r.fut \notin {"pending", "answered"} => SeenBy(c, r) = "failed"
           /\ r.at = "done" /\ r.outcome = "answer" => SeenBy(c, r) = "answered"
           /\ r.at = "done" /\ r.outcome = "cancelled" => SeenBy(c, r) = "none"
           /\ r.at = "done" /\ r.outcome \notin {"answer", "cancelled"} => SeenBy(c, r) = "failed"
           /\ SeenBy(c, r) \in Promise!Requests
BY DEF Own, SeenBy, CallType, Stages, Promise!Requests

\* What a caller may come to see while the connection stays as it is.
LEMMA OnwardIs ==
    ASSUME NEW r
    PROVE  /\ r \in Promise!Requests => r \in Promise!Onward(r)
           /\ r # "none" => "none" \in Promise!Onward(r)
           /\ r = "none" => "asked" \in Promise!Onward(r)
           /\ r = "asked" /\ Seen # "opening" => "failed" \in Promise!Onward(r)
           /\ r = "asked" /\ Seen \in {"up", "closing"} => "sent" \in Promise!Onward(r)
           /\ r = "sent" => "failed" \in Promise!Onward(r)
           /\ r = "sent" /\ Seen \in {"up", "abandoned"} => "answered" \in Promise!Onward(r)
BY DEF Promise!Onward, Promise!Requests

LEMMA Serves ==
    ASSUME TypeOK, RequestOK, TypeOK', RequestOK', Seen' = Seen,
           \A c \in Callers : SeenBy(c, call'[c]) \in Promise!Onward(SeenBy(c, call[c]))
    PROVE  Promise!Next
<1>1. \A c \in Callers : SeenBy(c, call'[c]) \in Promise!Requests
    <2>1. \A c \in Callers : Own(c, call'[c])
        BY CallsOwn DEF TypeOK, RequestOK, AnswersOK, AnswerMatches, Own
    <2> QED BY <2>1, Views
<1>2. Promise!Serve
    BY <1>1 DEF Promise!Serve
<1> QED BY <1>2 DEF Promise!Next

LEMMA Loses ==
    ASSUME TypeOK, RequestOK, TypeOK', RequestOK', NEW s, Seen' = s,
           \A c \in Callers : SeenBy(c, call'[c]) \in Promise!Cut(SeenBy(c, call[c]))
    PROVE  Promise!Lose(s)
<1>1. \A c \in Callers : SeenBy(c, call'[c]) \in Promise!Requests
    <2>1. \A c \in Callers : Own(c, call'[c])
        BY CallsOwn DEF TypeOK, RequestOK, AnswersOK, AnswerMatches, Own
    <2> QED BY <2>1, Views
<1> QED BY <1>1 DEF Promise!Lose

LEMMA SeenInit == Init => Promise!Init
<1> SUFFICES ASSUME Init PROVE Promise!Init
    OBVIOUS
<1>1. \A c \in Callers : call[c].at = "idle"
    BY DEF Init, Idle
<1>2. \A c \in Callers : SeenBy(c, call[c]) = "none"
    BY <1>1 DEF SeenBy
<1>3. Seen = "absent"
    BY DEF Init, Seen
<1> QED BY <1>2, <1>3 DEF Promise!Init

LEMMA CallsOwnNext == ASSUME TypeOK', RequestOK' PROVE \A c \in Callers : Own(c, call'[c])
BY DEF TypeOK, RequestOK, AnswersOK, AnswerMatches, Own

\* What becomes of a request that loses its socket.
LEMMA CutIs ==
    ASSUME NEW r
    PROVE  /\ r \in Promise!Requests \ {"sent"} => r \in Promise!Cut(r)
           /\ r \in {"asked", "sent"} => "failed" \in Promise!Cut(r)
BY DEF Promise!Cut, Promise!Requests

\* How the connection is seen, case by case.
LEMMA SeenIs ==
    ASSUME TypeOK
    PROVE  /\ closing => Seen = "closing"
           /\ ~closing /\ conn = "none" => Seen = "absent"
           /\ ~closing /\ conn = "receiving" => Seen = "up"
           /\ ~closing /\ conn = "ended" /\ closer # "done" => Seen = "abandoned"
           /\ ~closing /\ conn = "ended" /\ closer = "done" /\ ~up /\ socket = 0 => Seen = "absent"
           /\ ~closing /\ conn \notin {"none", "receiving", "ended"} /\ opened = 0 => Seen = "opening"
           /\ ~closing /\ conn \notin {"none", "receiving", "ended"} /\ opened # 0 => Seen = "lost"
<1>1. CASE closing
    BY <1>1 DEF Seen
<1>2. CASE ~closing /\ conn = "ended"
    BY <1>2 DEF Seen
<1>3. CASE ~closing /\ conn # "ended"
    BY <1>3 DEF Seen
<1> QED BY <1>1, <1>2, <1>3

LEMMA SeenNext ==
    ASSUME TypeOK'
    PROVE  /\ closing' => Seen' = "closing"
           /\ ~closing' /\ conn' = "receiving" => Seen' = "up"
           /\ ~closing' /\ conn' = "ended" /\ closer' # "done" => Seen' = "abandoned"
           /\ ~closing' /\ conn' = "ended" /\ closer' = "done" /\ ~up' /\ socket' = 0 => Seen' = "absent"
           /\ ~closing' /\ conn' \notin {"none", "receiving", "ended"} /\ opened' = 0 => Seen' = "opening"
           /\ ~closing' /\ conn' \notin {"none", "receiving", "ended"} /\ opened' # 0 => Seen' = "lost"
<1>1. CASE closing'
    BY <1>1 DEF Seen
<1>2. CASE ~closing' /\ conn' = "ended"
    BY <1>2 DEF Seen
<1>3. CASE ~closing' /\ conn' # "ended"
    BY <1>3 DEF Seen
<1> QED BY <1>1, <1>2, <1>3

LEMMA SeenStays ==
    UNCHANGED <<closing, conn, closer, up, socket, opened>> => Seen' = Seen
BY DEF Seen

LEMMA Stutters ==
    ASSUME Seen' = Seen, call' = call
    PROVE  UNCHANGED Promise!vars
BY DEF Promise!vars

\* One call goes on.
LEMMA OneServes ==
    ASSUME TypeOK, RequestOK, TypeOK', RequestOK', NEW c \in Callers, NEW r,
           call' = [call EXCEPT ![c] = r], Seen' = Seen,
           SeenBy(c, r) \in Promise!Onward(SeenBy(c, call[c]))
    PROVE  Promise!Next
<1>1. call'[c] = r /\ \A d \in Callers \ {c} : call'[d] = call[d]
    BY DEF TypeOK
<1>2. \A d \in Callers : SeenBy(d, call[d]) \in Promise!Requests
    BY CallsOwn, Views
<1>3. \A d \in Callers : SeenBy(d, call'[d]) \in Promise!Onward(SeenBy(d, call[d]))
    BY <1>1, <1>2, OnwardIs
<1> QED BY <1>3, Serves

\* What reject_all does to a call, as the connection is lost or stays lost.
LEMMA RejectedSeen ==
    ASSUME TypeOK, RequestOK, CarriedOK, NEW c \in Callers
    PROVE  /\ SeenBy(c, Rejected(c)) \in Promise!Cut(SeenBy(c, call[c]))
           /\ SeenBy(c, Rejected(c)) \in Promise!Onward(SeenBy(c, call[c]))
<1>0. Own(c, call[c]) /\ call[c] \in CallType /\ opened \in Nat
    BY CallsOwn, StreamAssumption DEF TypeOK, Sockets
<1>1. CASE call[c].at \in InRequest /\ call[c].fut = "pending"
    <2>1. call[c].id \in DOMAIN pending /\ pending[call[c].id] = c
        BY <1>1 DEF RequestOK, RegistryIsExact
    <2>2. PICK r : r = [call[c] EXCEPT !.fut = "rejected"]
        OBVIOUS
    <2>3. Rejected(c) = r
        BY <1>1, <2>1, <2>2 DEF Rejected
    <2>4. r.at = call[c].at /\ r.fut = "rejected" /\ r \in CallType /\ r.outcome = call[c].outcome
          /\ r.by = call[c].by
        BY <1>0, <2>2 DEF CallType
    <2>5. Own(c, r)
        BY <1>0, <2>4 DEF Own
    <2>6. SeenBy(c, r) = "failed"
        BY <1>1, <2>4, <2>5, Views DEF InRequest
    <2>7. SeenBy(c, call[c]) \in {"asked", "sent"}
        BY <1>0, <1>1, Views DEF InRequest
    <2>8. Seen # "opening"
        <3>1. opened > 0
            BY <1>1 DEF CarriedOK
        <3> QED BY <1>0, <3>1 DEF Seen
    <2> QED BY <2>3, <2>6, <2>7, <2>8, CutIs, OnwardIs
<1>2. CASE ~(call[c].at \in InRequest /\ call[c].fut = "pending")
    <2>1. Rejected(c) = call[c]
        BY <1>2 DEF Rejected, RequestOK, RegistryIsExact
    <2>2. SeenBy(c, call[c]) # "sent"
        BY <1>0, <1>2 DEF Own, SeenBy, CallType, Stages, InRequest, Outcomes
    <2>3. SeenBy(c, call[c]) \in Promise!Requests
        BY <1>0, Views
    <2> QED BY <2>1, <2>2, <2>3, CutIs, OnwardIs
<1> QED BY <1>1, <1>2

\* The steps of the connection task, of its socket and of close().
LEMMA ConnectionPromise ==
    ASSUME PInv, PInv',
           \/ Connect \/ ConnectionTask \/ OnConnectedReturns \/ Drop
           \/ Close \/ CloseSocket \/ CloseReturns
    PROVE  [Promise!Next]_(Promise!vars)
<1> USE DEF connVars, socketVars, openVars, requestVars, responseVars, closeVars
<1>0. /\ TypeOK /\ RequestOK /\ TypeOK' /\ RequestOK' /\ CarriedOK
      /\ opened \in Nat /\ conn \in ConnStates /\ closing \in BOOLEAN
    BY StreamAssumption DEF PInv, IInv, TypeOK, Sockets
<1>1. /\ closing <=> closer = "awaiting"
      /\ closing => conn # "none" /\ (conn = "receiving" => cancelled)
      /\ cancelled => closing
      /\ conn = "none" => opened = 0
      /\ conn = "receiving" => opened > 0
      /\ up => conn = "receiving"
      /\ closer = "done" => conn = "ended"
    BY DEF PInv, TaskOK, ClosedIsFinal
<1>2. \A c \in Callers : SeenBy(c, call[c]) \in Promise!Requests
    BY <1>0, CallsOwn, Views
<1>3. ASSUME call' = call, closing' = closing, opened' = opened,
             conn \notin {"none", "receiving", "ended"}, conn' \notin {"none", "receiving", "ended"}
      PROVE  Seen' = Seen
    BY <1>0, <1>3, SeenIs, SeenNext
<1>4. CASE Connect
    <2>1. Seen = "absent" /\ Seen' = "opening" /\ call' = call
        BY <1>0, <1>1, <1>4, SeenIs, SeenNext DEF Connect
    <2>2. Promise!Open
        BY <1>2, <2>1, OnwardIs DEF Promise!Open
    <2> QED BY <2>2 DEF Promise!Next
<1>5. CASE AcquireConnection \/ Retry \/ Cleanup
    <2>1. Seen' = Seen /\ call' = call
        BY <1>3, <1>5 DEF AcquireConnection, Retry, Cleanup
    <2> QED BY <2>1, Stutters
<1>6. CASE OnConnectedReturns
    BY <1>6, SeenStays, Stutters DEF OnConnectedReturns
<1>7. CASE Drop
    <2>1. conn = "receiving" /\ conn' = "receiving" /\ closing' = closing /\ call' = call
        BY <1>1, <1>7 DEF Drop
    <2>2. Seen' = Seen
        BY <1>0, <2>1, SeenIs, SeenNext
    <2> QED BY <2>1, <2>2, Stutters
<1>8. CASE ConnCancelled \/ CloseSocket
    <2>1. closing /\ closing' /\ call' = call
        BY <1>1, <1>8 DEF ConnCancelled, CloseSocket
    <2>2. Seen' = Seen
        BY <1>0, <2>1, SeenIs, SeenNext
    <2> QED BY <2>1, <2>2, Stutters
<1>9. CASE Opened
    <2>1. /\ conn = "opening" /\ closing' = closing /\ closer' = closer /\ SetSocket(opened + 1)
          /\ conn' = IF closing THEN "ended" ELSE "receiving"
        BY <1>9 DEF Opened
    <2>2. ASSUME NEW c \in Callers
          PROVE  SeenBy(c, call'[c]) = SeenBy(c, call[c])
        <3>1. CASE c \in openers
            <4>1. call'[c] = [call[c] EXCEPT !.at = "resumed", !.sock = opened + 1]
                BY <2>1, <3>1 DEF SetSocket
            <4>2. call'[c].at = "resumed" /\ call[c].at = "awaitOpen"
                BY <1>0, <3>1, <4>1 DEF TypeOK, CallType, RequestOK, OpenersOK
            <4> QED BY <1>0, <4>2, CallsOwn, CallsOwnNext, Views
        <3>2. CASE c \notin openers
            BY <2>1, <3>2 DEF SetSocket
        <3> QED BY <3>1, <3>2
    <2>3. CASE closing
        <3>1. Seen' = Seen
            BY <1>0, <2>1, <2>3, SeenIs, SeenNext
        <3> QED BY <2>2, <3>1 DEF Promise!vars
    <2>4. CASE ~closing
        <3>1. Seen \in {"opening", "lost"} /\ Seen' = "up"
            BY <1>0, <2>1, <2>4, SeenIs, SeenNext
        <3>2. Promise!Up
            BY <2>2, <3>1 DEF Promise!Up
        <3> QED BY <3>2 DEF Promise!Next
    <2> QED BY <2>3, <2>4
<1>10. CASE OpenFails
    <2>1. /\ conn = "opening" /\ closing' = closing /\ closer' = closer /\ opened' = opened
          /\ Reconnect \/ Abandon
        BY <1>10 DEF OpenFails
    <2>2. CASE Reconnect
        <3>1. conn' \in {"cleanup", "backoff"} /\ \A c \in Callers : call'[c] = Rejected(c)
            BY <2>2 DEF Reconnect, RejectAll
        <3>2. Seen' = Seen
            BY <1>0, <2>1, <3>1, SeenIs, SeenNext
        <3> QED BY <1>0, <3>1, <3>2, RejectedSeen, Serves
    <2>3. CASE Abandon
        <3>1. conn' = "ended" /\ call' = call
            BY <2>3 DEF Abandon
        <3>2. CASE closing
            BY <1>0, <2>1, <3>1, <3>2, SeenIs, SeenNext, Stutters
        <3>3. CASE ~closing
            <4>1. Seen \in {"opening", "lost"} /\ Seen' = "abandoned"
                BY <1>0, <1>1, <2>1, <3>1, <3>3, SeenIs, SeenNext
            <4> QED BY <3>1, <4>1 DEF Promise!Next, Promise!Abandon
        <3> QED BY <3>2, <3>3
    <2> QED BY <2>1, <2>2, <2>3
<1>11. CASE ReceiveFails
    <2>1. /\ conn = "receiving" /\ ~closing /\ ~closing' /\ closer' = closer /\ opened' = opened
          /\ Reconnect \/ Abandon
        BY <1>1, <1>11 DEF ReceiveFails
    <2>2. Seen = "up"
        BY <1>0, <2>1, SeenIs
    <2>3. CASE Reconnect
        <3>1. conn' \in {"cleanup", "backoff"} /\ \A c \in Callers : call'[c] = Rejected(c)
            BY <2>3 DEF Reconnect, RejectAll
        <3>2. Seen' = "lost"
            BY <1>0, <1>1, <2>1, <3>1, SeenNext
        <3>3. Promise!Drop
            BY <1>0, <2>2, <3>1, <3>2, RejectedSeen, Loses DEF Promise!Drop
        <3> QED BY <3>3 DEF Promise!Next
    <2>4. CASE Abandon
        <3>1. conn' = "ended" /\ call' = call
            BY <2>4 DEF Abandon
        <3>2. Seen' = "abandoned"
            BY <1>0, <1>1, <2>1, <3>1, SeenNext
        <3> QED BY <2>2, <3>1, <3>2 DEF Promise!Next, Promise!Abandon
    <2> QED BY <2>1, <2>3, <2>4
<1>12. CASE Close
    <2>1. closer = "idle" /\ conn # "none" /\ closing'
        BY <1>12 DEF Close
    <2>2. Seen \in Promise!States \ {"absent", "closing"} /\ Seen' = "closing"
        BY <1>0, <1>1, <2>1, SeenIs, SeenNext DEF Promise!States
    <2>3. ASSUME NEW c \in Callers
          PROVE  SeenBy(c, call'[c]) \in Promise!Cut(SeenBy(c, call[c]))
        <3>1. CASE c \in openers
            <4>1. call'[c] = Ended(c, "disconnected")
                BY <1>12, <3>1 DEF Close
            <4>2. /\ call'[c].at = "done" /\ call'[c].outcome = "disconnected"
                  /\ call[c].at = "awaitOpen"
                BY <1>0, <3>1, <4>1 DEF TypeOK, CallType, Ended, RequestOK, OpenersOK
            <4>3. SeenBy(c, call[c]) = "asked"
                BY <1>0, <4>2, CallsOwn, Views
            <4>4. SeenBy(c, call'[c]) = "failed"
                BY <1>0, <4>2, CallsOwnNext, Views
            <4> QED BY <4>3, <4>4, CutIs
        <3>2. CASE c \notin openers
            <4>1. call'[c] = Rejected(c)
                BY <1>12, <3>2 DEF Close
            <4> QED BY <1>0, <4>1, RejectedSeen
        <3> QED BY <3>1, <3>2
    <2>4. Promise!Close
        BY <1>0, <2>2, <2>3, Loses DEF Promise!Close
    <2> QED BY <2>4 DEF Promise!Next
<1>13. CASE CloseReturns
    <2>1. /\ conn' = "ended" /\ closing /\ ~closing' /\ closer' = "done" /\ ~up' /\ socket' = 0
          /\ call' = call
        BY <1>1, <1>13 DEF CloseReturns
    <2>2. Seen = "closing" /\ Seen' = "absent"
        BY <1>0, <2>1, SeenIs, SeenNext
    <2> QED BY <2>1, <2>2 DEF Promise!Next, Promise!Closed
<1> QED
    BY <1>4, <1>5, <1>6, <1>7, <1>8, <1>9, <1>10, <1>11, <1>12, <1>13 DEF ConnectionTask

\* The server's answers, and the hook they may go through first.
LEMMA AnswersPromise ==
    ASSUME PInv, PInv', (\E m \in wire : ReceiveAnswer(m)) \/ HookStarts \/ HookReturns
    PROVE  [Promise!Next]_(Promise!vars)
<1> USE DEF connVars, socketVars, openVars, requestVars, responseVars, closeVars
<1>0. /\ TypeOK /\ RequestOK /\ TypeOK' /\ RequestOK' /\ CarriedOK
      /\ call \in [Callers -> CallType]
    BY DEF PInv, IInv, TypeOK
<1>1. ASSUME NEW id, NEW to \in Callers, Owned(id, to), Resolve(id, to), Seen' = Seen,
             id \in DOMAIN pending => GoneOut(to) /\ Seen \in {"up", "abandoned"}
      PROVE  [Promise!Next]_(Promise!vars)
    <2>1. CASE call' = call
        BY <1>1, <2>1, Stutters
    <2>2. CASE call' # call
        <3>1. /\ id \in DOMAIN pending /\ call[to].fut = "pending"
              /\ call' = [call EXCEPT ![to] = [call[to] EXCEPT !.fut = "answered", !.by = {to}]]
            BY <1>1, <2>2 DEF Resolve, Owned
        <3>2. PICK r : r = [call[to] EXCEPT !.fut = "answered", !.by = {to}]
            OBVIOUS
        <3>3. call' = [call EXCEPT ![to] = r] /\ call'[to] = r
            BY <1>0, <3>1, <3>2
        <3>4. r.at = call[to].at /\ r.fut = "answered" /\ r.at \in {"written", "waiting"}
            BY <1>0, <1>1, <3>1, <3>2 DEF CallType, GoneOut
        <3>5. SeenBy(to, call[to]) = "sent"
            BY <1>0, <3>1, <3>4, CallsOwn, Views
        <3>6. SeenBy(to, r) \in {"failed", "answered"}
            BY <1>0, <3>3, <3>4, CallsOwnNext, Views
        <3>7. SeenBy(to, r) \in Promise!Onward(SeenBy(to, call[to]))
            BY <1>1, <3>1, <3>5, <3>6, OnwardIs
        <3> QED BY <1>0, <1>1, <3>3, <3>7, OneServes
    <2> QED BY <2>1, <2>2
<1>2. ASSUME NEW m \in wire, ReceiveAnswer(m)
      PROVE  [Promise!Next]_(Promise!vars)
    <2>1. Owned(m.id, m.to) /\ m.to \in Callers
        BY <1>0 DEF RequestOK, OwnersOK, TypeOK
    <2>2. Seen' = Seen
        BY <1>2, SeenStays DEF ReceiveAnswer
    <2>3. Seen = "up"
        <3>1. conn = "receiving" /\ ~cancelled
            BY <1>2 DEF ReceiveAnswer
        <3> QED BY <1>0, <3>1, SeenIs DEF PInv, TaskOK
    <2>4. m.id \in DOMAIN pending => GoneOut(m.to)
        BY <1>0 DEF CarriedOK
    <2>5. CASE call' = call
        BY <2>2, <2>5, Stutters
    <2>6. CASE call' # call
        <3>1. Resolve(m.id, m.to)
            BY <1>2, <2>6 DEF ReceiveAnswer
        <3>2. PICK id : id = m.id
            OBVIOUS
        <3>3. PICK to \in Callers : to = m.to
            BY <2>1
        <3> QED BY <1>1, <2>1, <2>2, <2>3, <2>4, <3>1, <3>2, <3>3
    <2> QED BY <2>5, <2>6
<1>3. CASE HookStarts
    BY <1>3, SeenStays, Stutters DEF HookStarts
<1>4. CASE HookReturns
    <2>1. responses # <<>> /\ responses \in Seq([id : Nat, to : Callers])
        BY <1>0, <1>4 DEF HookReturns, TypeOK
    <2>2. Head(responses) = responses[1] /\ 1 \in 1..Len(responses)
        BY <2>1, HeadTailProperties
    <2>3. Head(responses) \in [id : Nat, to : Callers]
        BY <2>1, HeadTailProperties
    <2>4. PICK r : r = Head(responses)
        OBVIOUS
    <2>5. Owned(r.id, r.to) /\ r.to \in Callers /\ (r.id \in DOMAIN pending => GoneOut(r.to))
        BY <1>0, <2>2, <2>4, <2>3 DEF RequestOK, OwnersOK, CarriedOK
    <2>6. Resolve(r.id, r.to)
        BY <1>4, <2>4 DEF HookReturns
    <2>7. Seen' = Seen
        BY <1>4, SeenStays DEF HookReturns
    <2>8. CASE call' = call
        BY <2>7, <2>8, Stutters
    <2>9. CASE call' # call
        <3>1. r.id \in DOMAIN pending /\ call[r.to].fut = "pending"
            BY <2>5, <2>6, <2>9 DEF Resolve, Owned
        <3>2. closer = "idle" /\ ~closing
            BY <1>0, <1>4, <2>1 DEF HookReturns, PInv, TaskOK, TypeOK
        <3>3. conn \in {"receiving", "ended"}
            BY <2>5, <3>1, <3>2, <1>0 DEF CarriedOK
        <3>4. Seen \in {"up", "abandoned"}
            BY <1>0, <3>2, <3>3, SeenIs
        <3>5. PICK id : id = r.id
            OBVIOUS
        <3>6. PICK to \in Callers : to = r.to
            BY <2>5
        <3> QED BY <1>1, <2>5, <2>6, <2>7, <3>4, <3>5, <3>6
    <2> QED BY <2>8, <2>9
<1> QED BY <1>2, <1>3, <1>4

\* The steps of the callers of send().
LEMMA CallersPromise ==
    ASSUME PInv, PInv', NEW c \in Callers, Send(c) \/ Caller(c) \/ CancelCall(c)
    PROVE  [Promise!Next]_(Promise!vars)
<1> USE DEF connVars, socketVars, openVars, requestVars, responseVars, closeVars
<1>0. /\ TypeOK /\ RequestOK /\ TypeOK' /\ RequestOK' /\ CarriedOK
      /\ call \in [Callers -> CallType] /\ call[c] \in CallType
      /\ Own(c, call[c]) /\ SeenBy(c, call[c]) \in Promise!Requests
    BY CallsOwn, Views DEF PInv, IInv, TypeOK
<1>1. Seen' = Seen
    <2>1. UNCHANGED <<closing, conn, closer, up, socket, opened>>
        BY Zenon DEF Send, Caller, Admitted, Resumed, Written, SendReturns, SendRaises, WaitReturns,
                     WaitTimesOut, CancelCall, Finish
    <2> QED BY <2>1, SeenStays
<1>2. ASSUME NEW r, call' = [call EXCEPT ![c] = r],
             r \in CallType /\ Own(c, r) => SeenBy(c, r) \in Promise!Onward(SeenBy(c, call[c]))
      PROVE  [Promise!Next]_(Promise!vars)
    <2>1. call'[c] = r /\ r \in CallType /\ Own(c, r)
        BY <1>0, <1>2, CallsOwnNext DEF TypeOK
    <2> QED BY <1>0, <1>1, <1>2, <2>1, OneServes
<1>3. ASSUME NEW s \in Stages
      PROVE  /\ [call[c] EXCEPT !.at = s].at = s
             /\ [call[c] EXCEPT !.at = s].fut = call[c].fut
    BY <1>0 DEF CallType
<1>4. ASSUME NEW o \in Outcomes
      PROVE  Ended(c, o).at = "done" /\ Ended(c, o).outcome = o
    BY <1>0 DEF CallType, Ended
<1>5. call[c].at \in InRequest \cup {"resumed"} => Seen # "opening"
    <2>1. call[c].at \in InRequest \cup {"resumed"} => opened > 0
        BY <1>0 DEF CarriedOK
    <2>2. opened \in Nat
        BY <1>0, StreamAssumption DEF TypeOK, Sockets
    <2> QED BY <2>1, <2>2 DEF Seen
<1>6. ASSUME NEW k, Register(c, k), call[c].at \in {"gated", "resumed"}
      PROVE  [Promise!Next]_(Promise!vars)
    <2>1. call' = [call EXCEPT ![c] = [call[c] EXCEPT !.at = "sending", !.sock = k,
                                                      !.id = FreshId, !.fut = "pending"]]
        BY <1>6 DEF Register
    <2>2. PICK r : r = [call[c] EXCEPT !.at = "sending", !.sock = k, !.id = FreshId,
                                       !.fut = "pending"]
        OBVIOUS
    <2>3. r.at = "sending" /\ r.fut = "pending"
        BY <1>0, <2>2 DEF CallType
    <2>4. SeenBy(c, call[c]) = "asked" /\ (Own(c, r) => SeenBy(c, r) = "asked")
        BY <1>0, <1>6, <2>3, Views
    <2> QED BY <1>0, <1>2, <2>1, <2>2, <2>4, OnwardIs
<1>7. ASSUME NEW o \in Outcomes, call' = [call EXCEPT ![c] = Ended(c, o)],
             \/ o = "cancelled"
             \/ o = "answer" /\ SeenBy(c, call[c]) = "answered"
             \/ o \notin {"answer", "cancelled"} /\ SeenBy(c, call[c]) \in {"sent", "failed"}
             \/ o \notin {"answer", "cancelled"} /\ SeenBy(c, call[c]) = "asked" /\ Seen # "opening"
      PROVE  [Promise!Next]_(Promise!vars)
    <2>1. PICK r : r = Ended(c, o)
        OBVIOUS
    <2>2. r.at = "done" /\ r.outcome = o
        BY <1>4, <2>1
    <2>3. Own(c, r) => SeenBy(c, r) = IF o = "answer" THEN "answered"
                                      ELSE IF o = "cancelled" THEN "none" ELSE "failed"
        BY <2>2, Views
    <2> QED BY <1>0, <1>2, <1>7, <2>1, <2>3, OnwardIs
<1>8. CASE Send(c)
    <2>1. /\ call' = [call EXCEPT ![c] = [call[c] EXCEPT !.at = "gated"]]
          /\ SeenBy(c, call[c]) = "none"
        BY <1>0, <1>8, Views DEF Send
    <2>2. PICK r : r = [call[c] EXCEPT !.at = "gated"]
        OBVIOUS
    <2>3. r.at = "gated"
        BY <1>3, <2>2 DEF Stages
    <2>4. Own(c, r) => SeenBy(c, r) = "asked"
        BY <2>3, Views
    <2> QED BY <1>2, <2>1, <2>2, <2>4, OnwardIs
<1>9. CASE Admitted(c)
    <2>0. call[c].at = "gated" /\ SeenBy(c, call[c]) = "asked"
        BY <1>0, <1>9, Views DEF Admitted
    <2>1. CASE socket # 0
        BY <1>6, <1>9, <2>0, <2>1 DEF Admitted
    <2>2. CASE socket = 0 /\ open = "pending"
        <3>1. call' = [call EXCEPT ![c] = [call[c] EXCEPT !.at = "awaitOpen"]]
            BY <1>9, <2>2 DEF Admitted
        <3>2. PICK r : r = [call[c] EXCEPT !.at = "awaitOpen"]
            OBVIOUS
        <3>3. r.at = "awaitOpen"
            BY <1>3, <3>2 DEF Stages
        <3>4. Own(c, r) => SeenBy(c, r) = "asked"
            BY <3>3, Views
        <3> QED BY <1>0, <1>2, <2>0, <3>1, <3>2, <3>4, OnwardIs
    <2>3. CASE socket = 0 /\ open = "cancelled"
        <3>1. call' = [call EXCEPT ![c] = Ended(c, "cancelled")]
            BY <1>9, <2>3 DEF Admitted
        <3> QED BY <1>7, <3>1 DEF Outcomes
    <2>4. CASE socket = 0 /\ open = "none"
        <3>1. call' = [call EXCEPT ![c] = Ended(c, "disconnected")]
            BY <1>9, <2>4 DEF Admitted
        <3>2. Seen # "opening"
            BY <1>0, <2>4 DEF PInv, TaskOK, Seen, TypeOK
        <3> QED BY <1>7, <2>0, <3>1, <3>2 DEF Outcomes
    <2> QED BY <1>0, <2>1, <2>2, <2>3, <2>4 DEF TypeOK
<1>10. CASE Resumed(c)
    BY <1>6, <1>10 DEF Resumed
<1>11. CASE Written(c)
    <2>1. /\ call' = [call EXCEPT ![c] = [call[c] EXCEPT !.at = "written"]]
          /\ call[c].at = "sending" /\ up
        BY <1>11 DEF Written
    <2>2. Seen \in {"up", "closing"}
        BY <1>0, <2>1, SeenIs DEF PInv, TaskOK
    <2>3. PICK r : r = [call[c] EXCEPT !.at = "written"]
        OBVIOUS
    <2>4. r.at = "written" /\ r.fut = call[c].fut
        BY <1>3, <2>3 DEF Stages
    <2>5. CASE call[c].fut = "pending"
        <3>1. SeenBy(c, call[c]) = "asked" /\ (Own(c, r) => SeenBy(c, r) = "sent")
            BY <1>0, <2>1, <2>4, <2>5, Views
        <3> QED BY <1>2, <2>1, <2>2, <2>3, <3>1, OnwardIs
    <2>6. CASE call[c].fut # "pending"
        <3>1. SeenBy(c, call[c]) = "failed" /\ (Own(c, r) => SeenBy(c, r) = "failed")
            BY <1>0, <2>1, <2>4, <2>6, Views
        <3> QED BY <1>0, <1>2, <2>1, <2>3, <3>1, OnwardIs
    <2> QED BY <2>5, <2>6
<1>12. CASE SendReturns(c)
    <2>1. call[c].at = "written"
        BY <1>12 DEF SendReturns
    <2>2. call[c].fut = "pending" <=> call[c].id \in DOMAIN pending
        BY <1>0, <2>1 DEF RequestOK, RegistryIsExact, IdsOK, InRequest, TypeOK
    <2>3. CASE call[c].id \in DOMAIN pending
        <3>1. call' = [call EXCEPT ![c] = [call[c] EXCEPT !.at = "waiting"]]
            BY <1>12, <2>3 DEF SendReturns
        <3>2. PICK r : r = [call[c] EXCEPT !.at = "waiting"]
            OBVIOUS
        <3>3. r.at = "waiting" /\ r.fut = call[c].fut
            BY <1>3, <3>2 DEF Stages
        <3>4. SeenBy(c, call[c]) = "sent" /\ (Own(c, r) => SeenBy(c, r) = "sent")
            BY <1>0, <2>1, <2>2, <2>3, <3>3, Views
        <3> QED BY <1>0, <1>2, <3>1, <3>2, <3>4, OnwardIs
    <2>4. CASE call[c].id \notin DOMAIN pending
        <3>1. call' = [call EXCEPT ![c] = Ended(c, "KeyError")]
            BY <1>12, <2>4 DEF SendReturns
        <3>2. SeenBy(c, call[c]) = "failed"
            BY <1>0, <2>1, <2>2, <2>4, Views
        <3> QED BY <1>7, <3>1, <3>2 DEF Outcomes
    <2> QED BY <2>3, <2>4
<1>13. CASE SendRaises(c)
    <2>1. call[c].at \in {"sending", "written"} /\ call' = [call EXCEPT ![c] = Ended(c, "closed")]
        BY <1>13 DEF SendRaises, Finish
    <2>2. SeenBy(c, call[c]) \in {"asked", "sent", "failed"} /\ Seen # "opening"
        BY <1>0, <1>5, <2>1, Views DEF InRequest
    <2> QED BY <1>7, <2>1, <2>2 DEF Outcomes
<1>14. CASE WaitReturns(c)
    <2>1. call[c].at = "waiting" /\ call[c].fut # "pending"
        BY <1>14 DEF WaitReturns
    <2>2. CASE call[c].fut = "answered"
        <3>1. call' = [call EXCEPT ![c] = Ended(c, "answer")]
            BY <1>14, <2>2 DEF WaitReturns, Finish
        <3>2. SeenBy(c, call[c]) = "answered"
            BY <1>0, <2>1, <2>2, Views
        <3> QED BY <1>7, <3>1, <3>2 DEF Outcomes
    <2>3. CASE call[c].fut # "answered"
        <3>1. call' = [call EXCEPT ![c] = Ended(c, "disconnected")]
            BY <1>14, <2>3 DEF WaitReturns, Finish
        <3>2. SeenBy(c, call[c]) = "failed"
            BY <1>0, <2>1, <2>3, Views
        <3> QED BY <1>7, <3>1, <3>2 DEF Outcomes
    <2> QED BY <2>2, <2>3
<1>15. CASE WaitTimesOut(c)
    <2>1. /\ call[c].at = "waiting" /\ call[c].fut = "pending"
          /\ call' = [call EXCEPT ![c] = Ended(c, "timeout")]
        BY <1>15 DEF WaitTimesOut, Finish
    <2>2. SeenBy(c, call[c]) = "sent"
        BY <1>0, <2>1, Views
    <2> QED BY <1>7, <2>1, <2>2 DEF Outcomes
<1>16. CASE CancelCall(c)
    <2>1. CASE call[c].at \in InRequest
        <3>1. call' = [call EXCEPT ![c] = Ended(c, "cancelled")]
            BY <1>16, <2>1 DEF CancelCall, Finish
        <3> QED BY <1>7, <3>1 DEF Outcomes
    <2>2. CASE call[c].at \notin InRequest
        <3>1. \A d \in Callers : call'[d] = call[d] \/ call'[d] = Ended(d, "cancelled")
            BY <1>16, <2>2 DEF CancelCall
        <3>2. ASSUME NEW d \in Callers
              PROVE  SeenBy(d, call'[d]) \in Promise!Onward(SeenBy(d, call[d]))
            <4>1. SeenBy(d, call[d]) \in Promise!Requests
                BY <1>0, CallsOwn, Views
            <4>2. CASE call'[d] = call[d]
                BY <4>1, <4>2, OnwardIs
            <4>3. CASE call'[d] = Ended(d, "cancelled")
                <5>1. call[d] \in CallType
                    BY <1>0
                <5>2. call'[d].at = "done" /\ call'[d].outcome = "cancelled"
                    BY <4>3, <5>1 DEF Ended, CallType
                <5>3. SeenBy(d, call'[d]) = "none"
                    BY <1>0, <5>2, CallsOwnNext, Views
                <5> QED BY <4>1, <5>3, OnwardIs
            <4> QED BY <3>1, <4>2, <4>3
        <3> QED BY <1>0, <1>1, <3>2, Serves
    <2> QED BY <2>1, <2>2
<1> QED
    BY <1>8, <1>9, <1>10, <1>11, <1>12, <1>13, <1>14, <1>15, <1>16 DEF Caller

LEMMA PInvInductive == Spec => []PInv
<1>1. Init => PInv
    BY InitTyped, InitRequest, TaskInit, CarriedInit DEF PInv, IInv
<1>2. PInv /\ [Next]_vars => PInv'
    BY TypePreserved, RequestPreserved, TaskKeeps, CarriedKeeps DEF PInv, IInv
<1> QED BY <1>1, <1>2, PTL DEF Spec

LEMMA PromiseKept == ASSUME PInv, PInv', [Next]_vars PROVE [Promise!Next]_(Promise!vars)
<1>1. CASE UNCHANGED vars
    BY <1>1, SeenStays, Stutters DEF vars, connVars, socketVars, closeVars
<1> QED
    BY <1>1, ConnectionPromise, AnswersPromise, CallersPromise, Zenon DEF Next

-----------------------------------------------------------------------------
(* The theorems *)

\* The stream's state is well typed in every reachable state.
THEOREM TypeCorrect == Spec => []TypeOK
<1>1. IInv => TypeOK
    BY DEF IInv
<1> QED BY <1>1, Inductive, PTL

\* The registry holds exactly the requests whose future is not done, for any
\* number of callers and connections (request_registry.py, stream.py send).
THEOREM RegistryExact == Spec => []RegistryIsExact
<1>1. IInv => RegistryIsExact
    BY DEF IInv, RequestOK
<1> QED BY <1>1, Inductive, PTL

\* No send() ever returns the answer to another request: ids are never used
\* again, so an answer that is late, or for a request that timed out, was
\* cancelled or rejected, finds no future (stream.py _handle_message).
THEOREM AnswersMatch == Spec => []AnswerMatches
<1>1. IInv => AnswerMatches
    BY DEF IInv, RequestOK
<1> QED BY <1>1, Inductive, PTL

\* Once close() has returned, the connection task is over and no socket is open,
\* whatever was under way (stream.py close).
THEOREM Closed == Spec => []ClosedIsFinal
<1>1. PInv => ClosedIsFinal
    BY DEF PInv
<1> QED BY <1>1, PInvInductive, PTL

\* A caller of send() that relies on the stream as on a Connection relies on
\* nothing it does not do, whatever the network, the server, the timeouts and
\* the other callers do.
THEOREM ImplementsConnection == Spec => ActsAsConnection
<1>1. PInv /\ PInv' /\ [Next]_vars => [Promise!Next]_(Promise!vars)
    BY PromiseKept
<1> QED BY <1>1, SeenInit, PInvInductive, PTL DEF Spec, ActsAsConnection, Promise!Spec
=============================================================================
