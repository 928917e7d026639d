----------------------------- MODULE RateLimiter -----------------------------
(***************************************************************************)
(* The gate in front of everything that is sent (binance.core.rate_limit,  *)
(* RateLimiter over RateLimitBucket): a call of acquire_request,           *)
(* acquire_connection or acquire_message waits out a ban announced by      *)
(* Retry-After, then passes the pools it draws on one after the other; the *)
(* readings and the limits that responses carry are fed back to the pools. *)
(*                                                                         *)
(* Time is relative: whatever expires holds the ticks it has left, and one *)
(* tick is half a second, the resolution at which _retry_after rounds.     *)
(* The server counts every request in windows of its own, which start when *)
(* it likes.                                                               *)
(***************************************************************************)
EXTENDS Integers, FiniteSets, FiniteSetsExt

CONSTANTS
    Requests,     \* what is to be sent, each at most once
    Endpoints,    \* what it can be: REST or WS-API calls, connections, messages
    Pools,        \* the pools there are
    Limit,        \* Limit[p]: effective_limit of pool p by the built-in rules
    Cap,          \* Cap[p]: the same by the limits of the account
    Interval,     \* Interval[p]: length of its window in ticks
    Shared,       \* pools that others behind the same address draw on as well
    Bans,         \* Retry-After values, in seconds
    MaxBans       \* bound: responses that announce a ban

\* The order in which the pools are passed: acquire_request draws on the first
\* three, a connection and a message on one pool of their own.  All wait
\* (EnforceMode.SLEEP) but the orders, which raise (EnforceMode.RAISE).
Rank == [weight |-> 1, raw |-> 2, orders |-> 3, connections |-> 4, messages |-> 5]

\* How a thing is sent, its request weight, and the pools it draws on.
Endpoint == [via : {"rest", "ws", "socket"}, weight : Nat \ {0},
             draws : {{"weight", "raw"}, {"weight", "raw", "orders"},
                      {"connections"}, {"messages"}}]

ASSUME RateLimiterAssumption ==
    /\ Endpoints \subseteq Endpoint
    /\ Pools \subseteq DOMAIN Rank
    /\ Limit \in [Pools -> Nat \ {0}] /\ Cap \in [Pools -> Nat \ {0}]
    /\ \A p \in Pools : Limit[p] <= Cap[p]   \* "conservative built-in defaults"
    /\ Interval \in [Pools -> Nat \ {0}]
    /\ Shared \subseteq Pools
    /\ Bans \subseteq Nat \ {0}
    /\ MaxBans \in Nat

VARIABLES
    request,   \* each request: where it is, what it calls, when it wakes
    limit,     \* effective_limit of each bucket
    events,    \* _events of each bucket: the charges inside its window
    auth,      \* _authoritative of each bucket
    header,    \* RestTransport's latest reading per pool, -1 for none
    ban,       \* _retry_after_until
    charged,   \* how often each request was charged to each pool
    fresh,     \* ticks for which the last header received of a pool is valid
    server,    \* the server's count of our requests in its current windows
    bans       \* bans announced so far

vars == <<request, limit, events, auth, header, ban, charged, fresh, server, bans>>

\* not called; parked in _await_retry_after; parked in the bucket of a pool;
\* sent; RateLimitReachedException; answered
Stages == {"idle", "gate", "sent", "raised", "answered"} \union Pools

Init ==
    /\ request \in [Requests -> [at : {"idle"}, of : Endpoints, wake : {0}]]
    /\ limit = Limit
    /\ events = [p \in Pools |-> {}]
    /\ auth = [p \in Pools |-> [left |-> 0, value |-> 0]]
    /\ header = [p \in Pools |-> -1]
    /\ ban = 0
    /\ charged = [r \in Requests |-> [p \in Pools |-> 0]]
    /\ fresh = [p \in Pools |-> 0]
    /\ server \in [Pools -> [count : {0}, left : UNION {1..Interval[p] : p \in Pools}]]
    /\ \A p \in Pools : server[p].left <= Interval[p]
    /\ bans = 0

-----------------------------------------------------------------------------
(* RateLimitBucket *)

CostOf(r, p) == IF p = "weight" THEN request[r].of.weight ELSE 1

\* Mutant: a reading is trusted for ever.
UsedForever(p) ==
    Max({MapThenSumSet(LAMBDA e : e.cost, events[p]), auth[p].value})

\* _windowed_used: the larger of the local estimate and a reading still valid.
Used(p) ==
    LET estimate == MapThenSumSet(LAMBDA e : e.cost, events[p])
    IN  IF auth[p].left > 0 THEN Max({estimate, auth[p].value}) ELSE estimate

\* Mutant: off by one.
FullTooLate(r, p) == Used(p) + CostOf(r, p) > limit[p] + 1

Full(r, p) == Used(p) + CostOf(r, p) > limit[p]

\* What is still to expire in a pool: its charges and its reading.
Expiries(p) ==
    {e.left : e \in events[p]} \union ({auth[p].left} \ {0})

\* Mutant: the wait is for the newest charge.
WaitForNewest(p) == Max(Expiries(p) \union {1})

\* _blocked_wait: until the first of these expires, or for the least wait.
BlockedWait(p) == IF Expiries(p) = {} THEN 1 ELSE Min(Expiries(p))

\* _prune, after half a second: only charges inside the window are kept.
Pruned(p) ==
    {[e EXCEPT !.left = @ - 1] : e \in {x \in events[p] : x.left > 1}}

-----------------------------------------------------------------------------
(* RateLimiter *)

\* round() of h half seconds to whole seconds, ties to the even one.
Rounded(h) == CASE h % 4 = 3 -> (h + 1) \div 2
                [] OTHER     -> h \div 2

\* The pools r draws on; a rule may be missing (the futures have no raw pool).
Draws(r) == request[r].of.draws \intersect Pools

\* The pools a request still has to pass, from the one it is parked in.
Remaining(r) ==
    {p \in Draws(r) : request[r].at \in Pools => Rank[p] >= Rank[request[r].at]}

\* Mutant: the charge is recorded before the pool is found full.
PassedAndTried(r, p) == {q \in Remaining(r) : Rank[q] <= Rank[p]}

\* The pools it has passed when it is stopped at p.
Passed(r, p) == {q \in Remaining(r) : Rank[q] < Rank[p]}

\* Charge r to the pools of S, in this instant.
Charge(r, S) ==
    /\ events' = [p \in Pools |->
                    IF p \in S
                    THEN events[p] \union {[by |-> r, left |-> Interval[p],
                                            cost |-> CostOf(r, p)]}
                    ELSE events[p]]
    /\ charged' = [charged EXCEPT ![r] = [p \in Pools |->
                                            IF p \in S THEN @[p] + 1 ELSE @[p]]]

\* The request leaves, and the server counts it at once.
Count(r) ==
    server' = [p \in Pools |->
                 IF p \in Draws(r)
                 THEN [server[p] EXCEPT !.count = @ + CostOf(r, p)]
                 ELSE server[p]]

\* A call, or a request that wakes in _await_retry_after, meets a ban.  A
\* deadline less than half a second away has elapsed.
ParkForBan(r) ==
    /\ request[r].at \in {"idle", "gate"} /\ request[r].wake = 0
    /\ Rounded(ban) > 0
    /\ request' = [request EXCEPT ![r] = [@ EXCEPT !.at = "gate", !.wake = 2 * Rounded(ban)]]
    /\ UNCHANGED <<limit, events, auth, header, ban, charged, fresh, server, bans>>

\* When it is called, when no ban holds it any more, or from the pool it was
\* parked in, a request goes on through the pools until the first that is full.
Awake(r) ==
    /\ request[r].wake = 0
    /\ \/ request[r].at \in {"idle", "gate"} /\ Rounded(ban) = 0
       \/ request[r].at \in Pools

Refused(r) == {p \in Remaining(r) : Full(r, p)}

Admit(r) ==
    /\ Awake(r)
    /\ Refused(r) = {}
    /\ Charge(r, Remaining(r))
    /\ Count(r)
    /\ request' = [request EXCEPT ![r].at = "sent"]
    /\ UNCHANGED <<limit, auth, header, ban, fresh, bans>>

\* Parked in a pool that sleeps, or refused by one that raises: the pools
\* before it stay charged.  A cost above the whole limit is refused by any.
Refuse(r) ==
    /\ Awake(r)
    /\ \E p \in Refused(r) :
         /\ \A q \in Refused(r) : Rank[p] <= Rank[q]
         /\ Charge(r, Passed(r, p))
         /\ request' = [request EXCEPT ![r] =
                          IF p = "orders" \/ CostOf(r, p) > limit[p]
                          THEN [@ EXCEPT !.at = "raised"]
                          ELSE [@ EXCEPT !.at = p, !.wake = BlockedWait(p)]]
    /\ UNCHANGED <<limit, auth, header, ban, fresh, server, bans>>

-----------------------------------------------------------------------------
(* Responses *)

\* A bucket takes each reading for one taken now.
Sync(readings) ==
    auth' = [p \in Pools |->
               IF readings[p] >= 0
               THEN [left |-> Interval[p], value |-> readings[p]]
               ELSE auth[p]]

\* What a response to r may say of the pools of S that r draws on: the server's
\* count, which others make larger in a shared pool, up to what it admits.
Readings(r, S) ==
    {[p \in Pools |->
        IF p \notin S \intersect Draws(r) THEN -1
        ELSE IF p \in busy THEN Cap[p]
        ELSE server[p].count] : busy \in SUBSET Shared}

Received(f) ==
    fresh' = [p \in Pools |-> IF f[p] >= 0 THEN Interval[p] ELSE fresh[p]]

\* A response that carries an exchangeInfo brings the limits of the account.
Configure(r) ==
    \/ UNCHANGED limit
    \/ "orders" \notin Draws(r) /\ limit' = Cap

\* The headers of a REST response: sync_from_headers is handed every reading
\* the transport remembers, old or new.  429 and 418 have a Retry-After.
RestResponds(r) ==
    /\ request[r].at = "sent" /\ request[r].of.via = "rest"
    /\ \E f \in Readings(r, {"weight", "orders"}) :
          /\ header' = [p \in Pools |-> IF f[p] >= 0 THEN f[p] ELSE header[p]]
          /\ Received(f)
    /\ Sync(header')
    /\ request' = [request EXCEPT ![r].at = "answered"]
    /\ \/ Configure(r) /\ UNCHANGED <<ban, bans>>
       \/ /\ bans < MaxBans
          /\ bans' = bans + 1
          /\ \E s \in Bans : ban' = 2 * s
          /\ UNCHANGED limit
    /\ UNCHANGED <<events, charged, server>>

\* The rateLimits array of a WS-API response, of all the pools, is handed on as
\* it is.
WsApiResponds(r) ==
    /\ request[r].at = "sent" /\ request[r].of.via = "ws"
    /\ \E f \in Readings(r, {"weight", "raw", "orders"}) : Sync(f) /\ Received(f)
    /\ request' = [request EXCEPT ![r].at = "answered"]
    /\ Configure(r)
    /\ UNCHANGED <<events, header, ban, charged, server, bans>>

Less(n) == IF n > 0 THEN n - 1 ELSE 0

\* Half a second passes; the server's windows roll.
Tick ==
    /\ request' = [r \in Requests |-> [request[r] EXCEPT !.wake = Less(@)]]
    /\ events' = [p \in Pools |-> Pruned(p)]
    /\ auth' = [p \in Pools |-> [auth[p] EXCEPT !.left = Less(@)]]
    /\ fresh' = [p \in Pools |-> Less(fresh[p])]
    /\ ban' = Less(ban)
    /\ server' = [p \in Pools |->
                    IF server[p].left = 1 THEN [count |-> 0, left |-> Interval[p]]
                    ELSE [server[p] EXCEPT !.left = @ - 1]]
    /\ UNCHANGED <<limit, header, charged, bans>>

-----------------------------------------------------------------------------
Next ==
    \/ \E r \in Requests :
         ParkForBan(r) \/ Admit(r) \/ Refuse(r)
            \/ RestResponds(r) \/ WsApiResponds(r)
    \/ Tick

Spec == Init /\ [][Next]_vars

\* Time passes, and a task whose sleep is over is scheduled.
FairSpec ==
    /\ Spec
    /\ WF_vars(Tick)
    /\ \A r \in Requests : WF_vars(/\ request[r].at # "idle"
                                  /\ (ParkForBan(r) \/ Admit(r) \/ Refuse(r)))

-----------------------------------------------------------------------------
(* Properties *)

\* The type invariant.
TypeOK ==
    /\ request \in [Requests -> [at : Stages, of : Endpoints, wake : Nat]]
    /\ events \in [Pools -> SUBSET [by : Requests, left : Nat, cost : Nat]]
    /\ auth \in [Pools -> [left : Nat, value : Nat]]
    /\ server \in [Pools -> [count : Nat, left : Nat]]
    /\ fresh \in [Pools -> Nat]
    /\ \A p \in Pools :
         /\ \A e \in events[p] : e.left \in 1..Interval[p]
         /\ auth[p].left <= Interval[p] /\ fresh[p] <= Interval[p]
         /\ server[p].left \in 1..Interval[p]
    /\ limit \in {Limit, Cap}
    /\ header \in [Pools -> Int]
    /\ charged \in [Requests -> [Pools -> Nat]]
    /\ ban \in Nat /\ bans \in 0..MaxBans

\* However its windows are aligned, the server never counts more of our
\* requests in one of them than the account allows.
ServerWithinLimit == \A p \in Pools : server[p].count <= Cap[p]

\* A request on the wire has been charged exactly once to each pool it draws
\* on, and no request is ever charged twice, although it may sleep in between.
ChargedOnce ==
    \A r \in Requests, p \in Pools :
        /\ charged[r][p] <= 1
        /\ request[r].at \in {"sent", "answered"} =>
             charged[r][p] = IF p \in Draws(r) THEN 1 ELSE 0

\* A request parked in a pool sleeps no longer than until the first moment at
\* which some of the pool's usage expires.
NoOversleep ==
    \A r \in Requests : request[r].at \in Pools =>
        \A e \in events[request[r].at] : request[r].wake <= e.left

\* Every call of acquire_request returns or raises, although bans, readings and
\* other requests come in between.
AcquireEnds ==
    \A r \in Requests :
        (request[r].at # "idle") ~> (request[r].at \in {"sent", "raised", "answered"})

\* "Valid only for one interval -- after that the server window has rolled, so
\* it decays" (bucket.py): a reading in force came with a header received less
\* than an interval ago.
ReadingsDecay == \A p \in Pools : auth[p].left > 0 => fresh[p] > 0
=============================================================================
