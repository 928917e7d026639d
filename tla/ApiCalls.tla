------------------------------- MODULE ApiCalls -------------------------------
(***************************************************************************)
(* The life of one API call, from the getter to its result: the checks     *)
(* that raise at once, the lazy sync of the clock, how the request         *)
(* authenticates, the rate limiter, the WS-API connection or HTTP.  Calls  *)
(* run side by side and share                                              *)
(*                                                                         *)
(*   - _time_synced and _time_offset, set by the get_server_time call that *)
(*     goes before a signed request, and re-armed by error -1021;          *)
(*   - _ws_api_authenticated, set by the session.logon every connection    *)
(*     begins with when the key is an Ed25519 key, and dropped by error    *)
(*     -2015, by session_logout and by the next connection.                *)
(*                                                                         *)
(* A connection answers its requests in order; one that is lost rejects    *)
(* those that wait (module Stream).                                        *)
(***************************************************************************)
EXTENDS Endpoints, SequencesExt

CONSTANTS
    Callers,   \* tasks that make calls, one after the other
    Clients,   \* the markets looked at
    Preset,    \* those whose client is handed over with _time_synced set
    Numbers,   \* limits and lengths of lists that calls are made with
    MaxFaults  \* bound: losses, timeouts, errors, delays, clock steps

Logon == "logon"     \* the on_connected hook as the sender of a frame
Nobody == "nobody"   \* the sender of a frame gave up on it

ASSUME ApiCallsAssumption ==
    /\ Preset \subseteq Clients /\ Clients \subseteq Markets
    /\ IsFiniteSet(Callers) /\ Callers # {} /\ Callers \cap {Logon, Nobody} = {}
    /\ Numbers \subseteq Nat /\ MaxFaults \in Nat

-----------------------------------------------------------------------------
(* The calls *)

\* session_logout, written out beside the registry, and get() with a
\* security_type, the escape hatch for what has no getter.
SessionLogout == [name |-> "session_logout", transport |-> "ws_api", security |-> "NONE",
                  weight |-> Flat(2), params |-> FALSE, is_order |-> FALSE]
EscapeHatch(security) ==
    [name |-> "get", transport |-> "rest", security |-> security,
     weight |-> Flat(1), params |-> TRUE, is_order |-> FALSE]

\* The arguments a weight looks at, and their values.
Chosen(weight) ==
    CASE weight.by \in {"presence", "truth"} -> {weight.name} \ {""}
      [] weight.by \in {"depth", "futures depth"} -> {"limit"}
      [] weight.by = "per symbol" -> {"symbols"}
      [] OTHER -> {"symbol", "symbols"}

Values(name) ==
    {None} \union (IF name \in {"limit", "symbols"} THEN {Number(n) : n \in Numbers}
                  ELSE {Thing, False})

ArgsOf(weight) == {<<>>} \union UNION {[{n} -> Values(n)] : n \in Chosen(weight)}

CallsOf(rows) == UNION {[row : {r}, args : ArgsOf(r.weight), float : {FALSE}] : r \in rows}

\* A call with a float among its arguments.
WithFloat(rows) == {[row |-> r, args |-> <<>>, float |-> TRUE] : r \in rows}

AnyCall(rows) ==
    LET hatches == {EscapeHatch(s) : s \in {"NONE", "MARKET_DATA", "USER_DATA"}} IN
    CallsOf(rows \union hatches) \union WithFloat(rows \union hatches)

SpotCalls == AnyCall(Registry["spot"])
UmCalls == AnyCall(Registry["um"])
CmCalls == AnyCall(Registry["cm"])

CancelOrder == {r \in SpotOrders : r.name = "cancel_order"}
SignedCalls == CallsOf(CancelOrder \union {EscapeHatch("USER_DATA")})
SessionCalls == CallsOf(CancelOrder \union {SessionLogout})

VARIABLES
    market, key,      \* the client and its credentials, fixed
    synced,           \* _time_synced
    skewed,           \* local clock + _time_offset is outside the recvWindow
    authenticated,    \* _ws_api_authenticated
    call,             \* the call of each caller
    conn,             \* the WS-API connection
    hook,             \* _on_ws_api_connected of this connection
    hookStamp,        \* the timestamp of its session.logon
    recycling,        \* the recycle task of a failed logon is scheduled
    wire,             \* frames of the connection, oldest first; answered or not
    session,          \* the server holds an authenticated session
    refused,          \* history: how often one caller was refused with -1021 since
                      \* the clock last stepped, with -2015 since a session ended
    faults

clockVars == <<synced, skewed>>
connVars == <<conn, hook, hookStamp, recycling, wire>>
fixedVars == <<market, key>>
vars == <<fixedVars, clockVars, authenticated, call, connVars, session, refused, faults>>

-----------------------------------------------------------------------------
\* Two scenarios.  With an Ed25519 key (on the Spot client) one caller, the one the
\* history is kept of, makes signed calls over both transports while the others make
\* signed calls and log out, and things go wrong.  With any other key a single caller
\* makes any call the client has.
Watched == CHOOSE c \in Callers : TRUE
Busy == key = "ed25519"
Active == IF Busy THEN Callers ELSE {Watched}
Offered(c) ==
    IF Busy THEN IF c = Watched THEN SignedCalls ELSE SessionCalls
    ELSE CASE market = "spot" -> SpotCalls
           [] market = "um" -> UmCalls
           [] market = "cm" -> CmCalls

CanSign == key \in {"hmac", "ed25519"}

NoCall == [row |-> SessionLogout, args |-> <<>>, float |-> FALSE]
Idle == [at |-> "idle", what |-> NoCall, timing |-> FALSE, auth |-> "none",
         stamp |-> "none", raised |-> "none"]

\* not called or over; in acquire_request; awaiting the first connection; awaiting
\* the answer; awaiting the HTTP response
Stages == {"idle", "limiter", "socket", "sent", "http"}

\* What the last call raised before anything was sent.  A result and an exception
\* of the server or the transport are not told apart.
Raised == {"none", "TypeError", "ValueError", "APIKeyNotDefined", "APISecretNotDefined",
           "AttributeError", "RateLimitReached"}
Keys == {"none", "api_key", "hmac", "ed25519"}
Codes == {"-1021", "-2015"}
Auths == {"none", "api_key", "session", "signature"}
Stamps == {"none", "right", "wrong", "late"}

Frames == [from : Callers \union {Logon, Nobody}, logout : BOOLEAN, auth : Auths,
           stamp : Stamps, answer : {"none", "ok", "-1021", "-2015"}]

TypeOK ==
    /\ market \in Clients /\ key \in Keys
    /\ {synced, skewed, authenticated, recycling, session} \subseteq BOOLEAN
    /\ \A c \in Callers :
          /\ call[c].at \in Stages /\ call[c].timing \in BOOLEAN
          /\ call[c].what \in Offered(c) \union {NoCall}
          /\ call[c].auth \in Auths /\ call[c].stamp \in Stamps
          /\ call[c].raised \in Raised
    /\ conn \in {"absent", "opening", "up", "lost"}
    /\ hook \in {"none", "due", "logon", "sent", "done", "failed"}
    /\ hookStamp \in Stamps
    /\ wire \in Seq(Frames)
    /\ refused \in [Codes -> Nat]
    /\ faults \in 0..MaxFaults

Init ==
    /\ market \in Clients /\ key \in Keys /\ (Busy => market = "spot")
    /\ synced = (market \in Preset) /\ skewed \in BOOLEAN
    /\ authenticated = FALSE
    /\ call = [c \in Callers |-> Idle]
    /\ conn = "absent" /\ hook = "none" /\ hookStamp = "none" /\ recycling = FALSE
    /\ wire = <<>> /\ session = FALSE /\ faults = 0
    /\ refused = [code \in Codes |-> 0]

Fault == Busy /\ faults < MaxFaults /\ faults' = faults + 1

Raise(exception) == [Idle EXCEPT !.raised = exception]

-----------------------------------------------------------------------------
(* Building a request *)

Stamp == IF skewed THEN "wrong" ELSE "right"

\* _ws_api_auth_params, _build_rest_request
Auth(row) ==
    IF ~RequiresApiKey(row.security) THEN "none"
    ELSE IF ~RequiresSignature(row.security) THEN "api_key"
    ELSE IF row.transport = "ws_api" /\ authenticated THEN "session"
    ELSE "signature"

Composed(x, stamp) ==
    LET auth == Auth(x.what.row) IN
    [x EXCEPT !.auth = auth,
              !.stamp = IF auth \in {"session", "signature"} THEN stamp ELSE "none"]

\* A WS-API request is composed before it enters the limiter, a REST one after.
ToLimiter(x, stamp) ==
    LET y == [x EXCEPT !.at = "limiter", !.timing = FALSE] IN
    IF x.what.row.transport = "ws_api" THEN Composed(y, stamp) ELSE y

\* Mutant: REST drops the Nones as well.
OnTheWireWithoutNone(d) ==
    IF d.row.params THEN [n \in {a \in DOMAIN d.args : d.args[a] # None} |-> d.args[n]] ELSE <<>>

\* What the request carries of the arguments: over the WS-API a None is dropped,
\* over REST it goes out as the string None.
OnTheWire(d) ==
    IF d.row.transport = "ws_api"
    THEN IF ~d.row.params THEN <<>>
         ELSE [n \in {a \in DOMAIN d.args : d.args[a] # None} |-> d.args[n]]
    ELSE [n \in DOMAIN d.args |-> IF d.args[n] = None THEN Thing ELSE d.args[n]]

\* The getter works out the weight and hands over to _ws_api_request or
\* _request: both validate before anything is sent.  get_server_time is
\* installed on the Spot client only.
Started(d) ==
    LET x == [Idle EXCEPT !.what = d]
        signed == RequiresSignature(d.row.security)
    IN  IF WeightRaises(d.row.weight, d.args) THEN Raise("TypeError")
        ELSE IF d.float /\ d.row.params /\ d.row.transport = "ws_api" THEN Raise("ValueError")
        ELSE IF RequiresApiKey(d.row.security) /\ key = "none" THEN Raise("APIKeyNotDefined")
        ELSE IF signed /\ ~CanSign THEN Raise("APISecretNotDefined")
        ELSE IF signed /\ ~synced /\ market # "spot" THEN Raise("AttributeError")
        ELSE IF signed /\ ~synced THEN [x EXCEPT !.at = "limiter", !.timing = TRUE]
        ELSE ToLimiter(x, Stamp)

Call(c) ==
    /\ call[c].at = "idle" /\ c \in Active
    /\ \E d \in Offered(c) : call' = [call EXCEPT ![c] = Started(d)]
    /\ UNCHANGED <<fixedVars, clockVars, authenticated, connVars, session, refused, faults>>

-----------------------------------------------------------------------------
(* The limiter and the transports *)

OverWsApi(c) == call[c].timing \/ call[c].what.row.transport = "ws_api"

\* The ORDERS pools raise instead of sleeping.
LimiterRaises(c) ==
    /\ call[c].at = "limiter" /\ ~call[c].timing /\ call[c].what.row.is_order
    /\ call' = [call EXCEPT ![c] = Raise("RateLimitReached")]
    /\ UNCHANGED <<fixedVars, clockVars, authenticated, connVars, session, refused, faults>>

\* A composed request is held up, by the limiter or a reconnect, for longer than
\* the recvWindow.
HeldUp(c) ==
    /\ Fault
    /\ call[c].at \in {"limiter", "socket"} /\ call[c].stamp = "right"
    /\ call' = [call EXCEPT ![c].stamp = "late"]
    /\ UNCHANGED <<fixedVars, clockVars, authenticated, connVars, session, refused>>

Frame(c) ==
    IF call[c].timing
    THEN [from |-> c, logout |-> FALSE, auth |-> "none", stamp |-> "none", answer |-> "none"]
    ELSE [from |-> c, logout |-> call[c].what.row = SessionLogout, auth |-> call[c].auth,
          stamp |-> call[c].stamp, answer |-> "none"]

\* acquire_request returns, possibly after a sleep, and send() runs up to the frame
\* (its acquire_message is one more sleep).  The first request opens the connection
\* and waits for it; a connection that was lost leaves its dead socket in place
\* until the next is up, and sending on it raises.
PassLimiter(c) ==
    /\ OverWsApi(c) /\ call[c].at = "limiter"
    /\ CASE conn = "up" -> /\ wire' = Append(wire, Frame(c))
                           /\ call' = [call EXCEPT ![c].at = "sent"]
                           /\ UNCHANGED conn
         [] conn = "lost" -> call' = [call EXCEPT ![c] = Idle] /\ UNCHANGED <<conn, wire>>
         [] OTHER -> /\ conn' = "opening"
                     /\ call' = [call EXCEPT ![c].at = "socket"]
                     /\ UNCHANGED wire
    /\ UNCHANGED <<fixedVars, clockVars, authenticated, hook, hookStamp, recycling, session,
                   refused, faults>>

\* A REST request is built only now.
PassRestLimiter(c) ==
    /\ ~OverWsApi(c) /\ call[c].at = "limiter"
    /\ call' = [call EXCEPT ![c] = IF @.what.float THEN Raise("ValueError")
                                   ELSE [Composed(@, Stamp) EXCEPT !.at = "http"]]
    /\ UNCHANGED <<fixedVars, clockVars, authenticated, connVars, session, refused, faults>>

\* A request that was held up is refused whatever the client knows of the clock.
NoteRefusal(from, answer, stamp) ==
    refused' = IF from = Watched /\ stamp # "late" /\ answer \in Codes
               THEN [refused EXCEPT ![answer] = @ + 1] ELSE refused

\* Once the clock has stepped or a session has ended, one more is to be expected,
\* and by a caller who gave up waiting for the answer.
Forgive(callers, codes) ==
    refused' = [code \in Codes |->
                  IF Watched \in callers \/ code \in codes THEN 0 ELSE refused[code]]

Orphan(who) == [i \in DOMAIN wire |-> IF wire[i].from = who THEN [wire[i] EXCEPT !.from = Nobody]
                                      ELSE wire[i]]

ResponseTimeout(c) ==
    /\ Fault
    /\ call[c].at = "sent"
    /\ call' = [call EXCEPT ![c] = Idle]
    /\ wire' = Orphan(c)
    /\ Forgive({c}, {})
    /\ UNCHANGED <<fixedVars, clockVars, authenticated, conn, hook, hookStamp, recycling,
                   session>>

-----------------------------------------------------------------------------
(* Answers *)

RejectsTimestamp(stamp) == stamp \in {"wrong", "late"}

\* Mutant: -2015 leaves the flag set.
AnsweredKeepingSession(c, answer) ==
    LET x == call[c] IN
    IF x.timing
    THEN /\ synced' = TRUE /\ skewed' = FALSE
         /\ call' = [call EXCEPT ![c] = ToLimiter(x, "right")]
         /\ UNCHANGED authenticated
    ELSE /\ synced' = (synced /\ answer # "-1021")
         /\ authenticated' = (authenticated /\ ~(x.what.row = SessionLogout /\ answer = "ok"))
         /\ call' = [call EXCEPT ![c] = Idle]
         /\ UNCHANGED skewed

\* The end of _ws_api_request, and of session_logout and _sync_time around it.
Answered(c, answer) ==
    LET x == call[c] IN
    IF x.timing
    THEN /\ synced' = TRUE /\ skewed' = FALSE
         /\ call' = [call EXCEPT ![c] = ToLimiter(x, "right")]
         /\ UNCHANGED authenticated
    ELSE /\ synced' = (synced /\ answer # "-1021")
         /\ authenticated' = (authenticated /\ answer # "-2015"
                              /\ ~(x.what.row = SessionLogout /\ answer = "ok"))
         /\ call' = [call EXCEPT ![c] = Idle]
         /\ UNCHANGED skewed

\* Mutant: -1021 over REST does not re-arm the sync.
RestAnswerWithoutRearm(c) ==
    /\ call[c].at = "http"
    /\ LET answer == IF RejectsTimestamp(call[c].stamp) THEN "-1021" ELSE "ok" IN
       /\ call' = [call EXCEPT ![c] = Idle]
       /\ synced' = synced
       /\ NoteRefusal(c, answer, call[c].stamp)
    /\ UNCHANGED <<fixedVars, skewed, authenticated, connVars, session, faults>>

\* _handle_response
RestAnswer(c) ==
    /\ call[c].at = "http"
    /\ LET answer == IF RejectsTimestamp(call[c].stamp) THEN "-1021" ELSE "ok" IN
       /\ call' = [call EXCEPT ![c] = Idle]
       /\ synced' = (synced /\ answer # "-1021")
       /\ NoteRefusal(c, answer, call[c].stamp)
    /\ UNCHANGED <<fixedVars, skewed, authenticated, connVars, session, faults>>

\* 429, 418, another status, a body that is not JSON, or no response at all.
RestFails(c) ==
    /\ Fault
    /\ call[c].at = "http"
    /\ call' = [call EXCEPT ![c] = Idle]
    /\ UNCHANGED <<fixedVars, clockVars, authenticated, connVars, session, refused>>

-----------------------------------------------------------------------------
(* The WS-API connection *)

\* _set_socket: the callers that wait for the connection send before its hook runs.
Open ==
    /\ conn \in {"opening", "lost"}
    /\ conn' = "up" /\ hook' = "due"
    /\ LET parked == {c \in Callers : call[c].at = "socket"} IN
       /\ \E order \in SetToSeqs(parked) : wire' = [i \in DOMAIN order |-> Frame(order[i])]
       /\ call' = [c \in Callers |-> IF c \in parked THEN [call[c] EXCEPT !.at = "sent"] ELSE call[c]]
    /\ UNCHANGED <<fixedVars, clockVars, authenticated, hookStamp, recycling, session, refused,
                   faults>>

\* Mutant: one of the requests that wait is rejected, the others are forgotten.
LostRejectingOne ==
    /\ conn = "up"
    /\ conn' = "lost" /\ hook' = "none" /\ hookStamp' = "none" /\ recycling' = FALSE
    /\ LET waiting == {c \in Callers : call[c].at = "sent"} IN
       call' = [c \in Callers |-> IF waiting # {} /\ c = (CHOOSE w \in waiting : TRUE)
                                  THEN Idle ELSE call[c]]
    /\ wire' = <<>> /\ session' = FALSE
    /\ Forgive({c \in Callers : call[c].at = "sent"}, {"-2015"})
    /\ UNCHANGED <<fixedVars, clockVars, authenticated>>

\* _reconnect: the requests that wait are rejected, the hook is cancelled.
Lost ==
    /\ conn = "up"
    /\ conn' = "lost" /\ hook' = "none" /\ hookStamp' = "none" /\ recycling' = FALSE
    /\ call' = [c \in Callers |-> IF call[c].at = "sent"
                                  THEN Idle ELSE call[c]]
    /\ wire' = <<>> /\ session' = FALSE
    /\ Forgive({c \in Callers : call[c].at = "sent"}, {"-2015"})
    /\ UNCHANGED <<fixedVars, clockVars, authenticated>>

Drop == Fault /\ Lost

Recycle == recycling /\ Lost /\ UNCHANGED faults

\* _on_ws_api_connected, up to the acquire_message of session.logon.
StartHook ==
    /\ hook = "due"
    /\ authenticated' = FALSE
    /\ IF key = "ed25519" THEN hook' = "logon" /\ hookStamp' = Stamp
       ELSE hook' = "done" /\ UNCHANGED hookStamp
    /\ UNCHANGED <<fixedVars, clockVars, call, conn, recycling, wire, session, refused, faults>>

SendLogon ==
    /\ hook = "logon"
    /\ hook' = "sent"
    /\ wire' = Append(wire, [from |-> Logon, logout |-> FALSE, auth |-> "signature",
                             stamp |-> hookStamp, answer |-> "none"])
    /\ UNCHANGED <<fixedVars, clockVars, authenticated, call, conn, hookStamp, recycling,
                   session, refused, faults>>

\* Mutant: a failed logon is only reported.
LogonAnsweredWithoutRecycle(answer) ==
    IF answer = "ok"
    THEN hook' = "done" /\ authenticated' = TRUE /\ UNCHANGED recycling
    ELSE hook' = "failed" /\ UNCHANGED <<recycling, authenticated>>

\* A logon that failed recycles the connection.
LogonAnswered(answer) ==
    IF answer = "ok"
    THEN hook' = "done" /\ authenticated' = TRUE /\ UNCHANGED recycling
    ELSE hook' = "failed" /\ recycling' = TRUE /\ UNCHANGED authenticated

LogonTimeout ==
    /\ Fault
    /\ hook = "sent"
    /\ LogonAnswered("timeout")
    /\ wire' = Orphan(Logon)
    /\ UNCHANGED <<fixedVars, clockVars, call, conn, hookStamp, session, refused>>

Deliver ==
    /\ wire # <<>> /\ Head(wire).answer # "none"
    /\ wire' = Tail(wire)
    /\ LET from == Head(wire).from
           answer == Head(wire).answer
       IN  CASE from = Logon ->
                  /\ LogonAnswered(answer)
                  /\ UNCHANGED <<clockVars, call>>
             [] from = Nobody ->
                  UNCHANGED <<clockVars, authenticated, call, hook, recycling>>
             [] OTHER -> Answered(from, answer) /\ UNCHANGED <<hook, recycling>>
    /\ UNCHANGED <<fixedVars, conn, hookStamp, session, refused, faults>>

-----------------------------------------------------------------------------
(* The server and the clock *)

ServerAnswer(f) ==
    IF f.auth = "session" /\ ~session THEN "-2015"
    ELSE IF RejectsTimestamp(f.stamp) THEN "-1021" ELSE "ok"

\* The server handles the oldest request it has not answered; it may refuse a
\* logon for reasons of its own.
Serve ==
    \E i \in DOMAIN wire, denied \in BOOLEAN :
        /\ wire[i].answer = "none"
        /\ \A j \in 1..(i - 1) : wire[j].answer # "none"
        /\ LET f == wire[i]
               answer == IF denied THEN "-2015" ELSE ServerAnswer(f)
           IN  /\ IF denied THEN Fault /\ f.auth = "signature" /\ f.from = Logon
                  ELSE UNCHANGED faults
               /\ wire' = [wire EXCEPT ![i].answer = answer]
               /\ session' = ((session \/ (f.from = Logon /\ answer = "ok")) /\ ~f.logout)
               /\ IF f.logout /\ session THEN Forgive({}, {"-2015"})
                  ELSE NoteRefusal(f.from, answer, f.stamp)
        /\ UNCHANGED <<fixedVars, clockVars, authenticated, call, conn, hook, hookStamp,
                       recycling>>

SessionExpires ==
    /\ Fault
    /\ session /\ session' = FALSE
    /\ Forgive({}, {"-2015"})
    /\ UNCHANGED <<fixedVars, clockVars, authenticated, call, connVars>>

ClockSteps ==
    /\ Fault
    /\ ~skewed /\ skewed' = TRUE
    /\ Forgive({}, {"-1021"})
    /\ UNCHANGED <<fixedVars, synced, authenticated, call, connVars, session>>

-----------------------------------------------------------------------------
Next ==
    \/ \E c \in Callers :
          \/ Call(c) \/ PassLimiter(c) \/ LimiterRaises(c) \/ HeldUp(c) \/ PassRestLimiter(c)
          \/ ResponseTimeout(c) \/ RestAnswer(c) \/ RestFails(c)
    \/ Open \/ Drop \/ Recycle \/ StartHook \/ SendLogon \/ LogonTimeout \/ Deliver
    \/ Serve \/ SessionExpires \/ ClockSteps

\* The event loop runs what is ready, the sleeps of the limiter end, a connect
\* that is retried succeeds in the end and the server answers.
Fairness ==
    /\ \A c \in Callers : WF_vars(PassLimiter(c)) /\ WF_vars(PassRestLimiter(c)) /\ WF_vars(RestAnswer(c))
    /\ WF_vars(Open) /\ WF_vars(Recycle) /\ WF_vars(StartHook) /\ WF_vars(SendLogon)
    /\ WF_vars(Deliver) /\ WF_vars(Serve)

Spec == Init /\ [][Next]_vars /\ Fairness

-----------------------------------------------------------------------------
(* Properties *)

\* The weight charged before a request goes out covers what the server counts,
\* by the SDK's own table of weights, for the arguments the request carries,
\* whichever of them are None or left out.  The exception is the argument that
\* narrows a request down given as None over the WS-API: it is charged as
\* present and dropped before it is sent.
ChargeCoversRequest ==
    \A c \in Callers :
        LET d == call[c].what
            weight == d.row.weight
            narrowing == IF weight.by = "presence" THEN weight.name ELSE "symbol"
            dropped == {n \in DOMAIN d.args : d.row.transport = "ws_api" /\ d.args[n] = None}
        IN  (call[c].at \in {"socket", "sent", "http"} /\ ~call[c].timing /\ narrowing \notin dropped)
            => Weight(weight, d.args) >= Weight(weight, OnTheWire(d))

\* A caller whom -2015 has told of the end of the session is not refused for it
\* again, unless one more session has ended: the retry signs for itself until the
\* next logon, whatever reconnects, logouts and late answers come in between.
SessionRefusalHeals == refused["-2015"] <= 1

\* A caller whom -1021 has told of a wrong clock is not refused for it again,
\* unless the clock has stepped once more or the request itself was held up: the
\* next signed request, over either transport, syncs first.
TimestampRefusalHeals == refused["-1021"] <= 1

\* A call ends, with a result or an exception, whatever happens to the connection.
CallsEnd == \A c \in Callers : (call[c].at # "idle") ~> (call[c].at = "idle")

\* After every loss of the connection the hook of a later one runs to its end,
\* logged on again if the key is an Ed25519 key, unless the clock is off:
\* session.logon is sent without a sync.
SessionReturns == (conn = "lost") ~> (hook = "done" \/ skewed)

\* The comment in _sync_time: get_server_time is installed on the concrete market
\* client.
GetServerTimeInstalled == \A c \in Callers : call[c].raised # "AttributeError"
=============================================================================
