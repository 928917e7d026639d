------------------------- MODULE RateLimiterProofs -------------------------
(***************************************************************************)
(* Proofs about RateLimiter, for all requests, endpoints, pools, limits,   *)
(* intervals and bans.                                                     *)
(***************************************************************************)
EXTENDS RateLimiter, FiniteSetTheorems, WellFoundedInduction, TLAPS

Request == [at : Stages, of : Endpoints, wake : Nat]

\* What a request has been charged is what it has passed.
ChargesOf(r) ==
    \A p \in Pools :
        /\ request[r].at \in {"idle", "gate"} => charged[r][p] = 0
        /\ request[r].at \in Pools =>
              charged[r][p] = IF p \in Draws(r) /\ Rank[p] < Rank[request[r].at] THEN 1 ELSE 0
        /\ request[r].at \in {"sent", "answered"} =>
              charged[r][p] = IF p \in Draws(r) THEN 1 ELSE 0
        /\ charged[r][p] <= 1

ChargesOK == \A r \in Requests : ChargesOf(r)

\* A request sleeps no longer than a charge made from now on will stay.
SleepOf(r) ==
    request[r].at \in Pools =>
        /\ request[r].wake <= Interval[request[r].at]
        /\ \A e \in events[request[r].at] : request[r].wake <= e.left

SleepOK == \A r \in Requests : SleepOf(r)

IInv == TypeOK /\ ChargesOK /\ SleepOK

-----------------------------------------------------------------------------
(* The parameters *)

LEMMA Parameters ==
    /\ \A p \in Pools : /\ Limit[p] \in Nat /\ Cap[p] \in Nat
                        /\ Interval[p] \in Nat /\ Interval[p] > 0
                        /\ Rank[p] \in Nat
    /\ \A e \in Endpoints : e.weight \in Nat /\ e.weight > 0
    /\ {"idle", "gate", "sent", "raised", "answered"} \intersect Pools = {}
    /\ MaxBans \in Nat /\ \A s \in Bans : s \in Nat
BY RateLimiterAssumption DEF Rank, Endpoint

LEMMA LeastNat ==
    ASSUME NEW S \in SUBSET Nat, S # {}
    PROVE  \E m \in S : \A n \in S : m <= n
<1> DEFINE Below == {pair \in Nat \X Nat : pair[1] < pair[2]}
<1>1. IsWellFoundedOn(Below, Nat)
    BY NatLessThanWellFounded DEF OpToRel
<1>2. PICK m \in S : \A n \in S : <<n, m>> \notin Below
    <2> HIDE DEF Below
    <2> QED BY <1>1, WFMin
<1>3. \A n \in S : ~(n < m)
    BY <1>2 DEF Below
<1> QED BY <1>3

\* _blocked_wait is within the window, and no later than any charge of it.
LEMMA WaitIsShort ==
    ASSUME TypeOK, NEW p \in Pools
    PROVE  /\ BlockedWait(p) \in 1..Interval[p]
           /\ \A e \in events[p] : BlockedWait(p) <= e.left
<1>1. Expiries(p) \in SUBSET Nat /\ \A n \in Expiries(p) : n \in 1..Interval[p]
    BY Parameters DEF TypeOK, Expiries
<1>2. CASE Expiries(p) = {}
    <2>1. events[p] = {}
        BY <1>2 DEF Expiries
    <2> QED BY <1>2, <2>1, Parameters DEF BlockedWait
<1>3. CASE Expiries(p) # {}
    <2>1. PICK m \in Expiries(p) : \A n \in Expiries(p) : m <= n
        BY <1>1, <1>3, LeastNat
    <2>2. /\ Min(Expiries(p)) \in Expiries(p)
          /\ \A n \in Expiries(p) : Min(Expiries(p)) <= n
        BY <2>1 DEF Min
    <2>3. \A e \in events[p] : e.left \in Expiries(p)
        BY DEF Expiries
    <2> QED BY <1>1, <1>3, <2>2, <2>3 DEF BlockedWait
<1> QED BY <1>2, <1>3

LEMMA CostTyped ==
    ASSUME TypeOK, NEW r \in Requests, NEW p \in Pools
    PROVE  CostOf(r, p) \in Nat
BY Parameters DEF TypeOK, CostOf

\* A charge adds to the pools of S, and to no other.
LEMMA ChargeTyped ==
    ASSUME TypeOK, NEW r \in Requests, NEW S \in SUBSET Pools, Charge(r, S)
    PROVE  /\ events' \in [Pools -> SUBSET [by : Requests, left : Nat, cost : Nat]]
           /\ \A p \in Pools : \A e \in events'[p] :
                e \in events[p] \/ (p \in S /\ e.left = Interval[p])
           /\ charged' \in [Requests -> [Pools -> Nat]]
           /\ \A p \in Pools : charged'[r][p] = IF p \in S THEN charged[r][p] + 1 ELSE charged[r][p]
           /\ \A s \in Requests \ {r} : charged'[s] = charged[s]
<1>1. \A p \in Pools : [by |-> r, left |-> Interval[p], cost |-> CostOf(r, p)]
                         \in [by : Requests, left : Nat, cost : Nat]
    BY Parameters, CostTyped
<1>2. charged[r] \in [Pools -> Nat]
    BY DEF TypeOK
<1>3. /\ events' \in [Pools -> SUBSET [by : Requests, left : Nat, cost : Nat]]
      /\ \A p \in Pools : \A e \in events'[p] :
           e \in events[p] \/ (p \in S /\ e.left = Interval[p])
    BY <1>1 DEF Charge, TypeOK
<1>4. [p \in Pools |-> IF p \in S THEN charged[r][p] + 1 ELSE charged[r][p]] \in [Pools -> Nat]
    BY <1>2
<1>5. charged' = [charged EXCEPT ![r] =
                    [p \in Pools |-> IF p \in S THEN charged[r][p] + 1 ELSE charged[r][p]]]
    BY DEF Charge
<1> QED BY <1>3, <1>4, <1>5 DEF TypeOK

-----------------------------------------------------------------------------
(* Typing *)

LEMMA InitTyped == Init => TypeOK
<1> SUFFICES ASSUME Init PROVE TypeOK
    OBVIOUS
<1>1. server \in [Pools -> [count : Nat, left : Nat]] /\ \A p \in Pools : server[p].left >= 1
    BY Parameters DEF Init
<1> QED BY <1>1, Parameters DEF Init, TypeOK, Stages

LEMMA RequestMoves ==
    ASSUME TypeOK, NEW r \in Requests, NEW place \in Stages, NEW wake \in Nat,
           request' = [request EXCEPT ![r] = [request[r] EXCEPT !.at = place, !.wake = wake]]
    PROVE  /\ request' \in [Requests -> [at : Stages, of : Endpoints, wake : Nat]]
           /\ request'[r].at = place /\ request'[r].wake = wake /\ request'[r].of = request[r].of
           /\ \A s \in Requests \ {r} : request'[s] = request[s]
<1>1. request[r] \in [at : Stages, of : Endpoints, wake : Nat]
    BY DEF TypeOK
<1>2. [request[r] EXCEPT !.at = place, !.wake = wake] \in [at : Stages, of : Endpoints, wake : Nat]
    BY <1>1
<1> QED BY <1>1, <1>2 DEF TypeOK

\* A request parked, let through, refused or answered.
LEMMA AdmitMoves ==
    ASSUME TypeOK, NEW r \in Requests, Admit(r)
    PROVE  request' = [request EXCEPT ![r] = [request[r] EXCEPT !.at = "sent", !.wake = request[r].wake]]
<1>1. request[r] \in [at : Stages, of : Endpoints, wake : Nat]
    BY DEF TypeOK
<1>2. [request[r] EXCEPT !.at = "sent", !.wake = request[r].wake] = [request[r] EXCEPT !.at = "sent"]
    BY <1>1
<1> QED BY <1>2 DEF Admit

LEMMA AnswerMoves ==
    ASSUME TypeOK, NEW r \in Requests, RestResponds(r) \/ WsApiResponds(r)
    PROVE  request' = [request EXCEPT ![r] = [request[r] EXCEPT !.at = "answered", !.wake = request[r].wake]]
<1>1. request[r] \in [at : Stages, of : Endpoints, wake : Nat]
    BY DEF TypeOK
<1>2. [request[r] EXCEPT !.at = "answered", !.wake = request[r].wake]
        = [request[r] EXCEPT !.at = "answered"]
    BY <1>1
<1> QED BY <1>2 DEF RestResponds, WsApiResponds

LEMMA RefuseMoves ==
    ASSUME TypeOK, NEW r \in Requests, Refuse(r)
    PROVE  \E p \in Pools :
             /\ p \in Remaining(r) /\ Charge(r, Passed(r, p))
             /\ Full(r, p) /\ \A q \in Passed(r, p) : ~Full(r, q)
             /\ \/ request' = [request EXCEPT ![r] =
                                 [request[r] EXCEPT !.at = "raised", !.wake = request[r].wake]]
                \/ /\ p # "orders"
                   /\ request' = [request EXCEPT ![r] =
                                    [request[r] EXCEPT !.at = p, !.wake = BlockedWait(p)]]
<1>1. request[r] \in [at : Stages, of : Endpoints, wake : Nat]
    BY DEF TypeOK
<1>2. [request[r] EXCEPT !.at = "raised", !.wake = request[r].wake] = [request[r] EXCEPT !.at = "raised"]
    BY <1>1
<1>3. PICK p \in Refused(r) :
        /\ \A q \in Refused(r) : Rank[p] <= Rank[q]
        /\ Charge(r, Passed(r, p))
        /\ request' = [request EXCEPT ![r] =
                         IF p = "orders" \/ CostOf(r, p) > limit[p]
                         THEN [request[r] EXCEPT !.at = "raised"]
                         ELSE [request[r] EXCEPT !.at = p, !.wake = BlockedWait(p)]]
    BY DEF Refuse
<1>4. p \in Remaining(r) /\ p \in Pools /\ Full(r, p)
    BY DEF Refused, Remaining, Draws
<1>5. ASSUME NEW q \in Passed(r, p)
      PROVE  ~Full(r, q)
    <2>1. q \in Remaining(r) /\ Rank[q] < Rank[p] /\ Rank[q] \in Nat /\ Rank[p] \in Nat
        BY <1>4, Parameters DEF Passed, Remaining, Draws
    <2>2. q \notin Refused(r)
        BY <1>3, <2>1
    <2> QED BY <2>1, <2>2 DEF Refused
<1>6. CASE p = "orders" \/ CostOf(r, p) > limit[p]
    BY <1>2, <1>3, <1>4, <1>5, <1>6
<1>7. CASE ~(p = "orders" \/ CostOf(r, p) > limit[p])
    BY <1>3, <1>4, <1>5, <1>7
<1> QED BY <1>6, <1>7

LEMMA ParkMoves ==
    ASSUME TypeOK, NEW r \in Requests, ParkForBan(r)
    PROVE  /\ 2 * Rounded(ban) \in Nat
           /\ request' = [request EXCEPT ![r] =
                            [request[r] EXCEPT !.at = "gate", !.wake = 2 * Rounded(ban)]]
<1>1. Rounded(ban) \in Nat
    BY DEF TypeOK, Rounded
<1>2. 2 * Rounded(ban) \in Nat
    BY <1>1
<1> QED BY <1>2 DEF ParkForBan

LEMMA StagesKnown ==
    /\ {"idle", "gate", "sent", "raised", "answered"} \subseteq Stages /\ Pools \subseteq Stages
    /\ \A p \in Pools : p \notin {"idle", "gate", "sent", "raised", "answered"}
BY Parameters DEF Stages

LEMMA TypePreserved ==
    ASSUME TypeOK, [Next]_vars
    PROVE  TypeOK'
<1> USE DEF TypeOK
<1>1. ASSUME NEW r \in Requests, ParkForBan(r)
      PROVE  TypeOK'
    <2>1. request' \in [Requests -> [at : Stages, of : Endpoints, wake : Nat]]
        <3>1. PICK wake \in Nat :
                  request' = [request EXCEPT ![r] = [request[r] EXCEPT !.at = "gate", !.wake = wake]]
            BY <1>1, ParkMoves
        <3>2. PICK place \in Stages : place = "gate"
            BY StagesKnown
        <3> QED BY <3>1, <3>2, RequestMoves
    <2> QED BY <1>1, <2>1 DEF ParkForBan
<1>2. ASSUME NEW r \in Requests, NEW S \in SUBSET Pools, Charge(r, S),
             request' \in [Requests -> [at : Stages, of : Endpoints, wake : Nat]],
             UNCHANGED <<limit, auth, header, ban, fresh, bans>>,
             /\ server' \in [Pools -> [count : Nat, left : Nat]]
             /\ \A p \in Pools : server'[p].left = server[p].left
      PROVE  TypeOK'
    <2>1. \A p \in Pools : \A e \in events'[p] : e.left \in 1..Interval[p]
        BY <1>2, ChargeTyped, Parameters
    <2> QED BY <1>2, <2>1, ChargeTyped
<1>3. ASSUME NEW r \in Requests, Admit(r)
      PROVE  TypeOK'
    <2>1. request' \in [Requests -> [at : Stages, of : Endpoints, wake : Nat]]
        <3>1. request[r].wake \in Nat
            OBVIOUS
        <3> QED BY <1>3, <3>1, AdmitMoves, RequestMoves, StagesKnown
    <2>2. /\ server' \in [Pools -> [count : Nat, left : Nat]]
          /\ \A p \in Pools : server'[p].left = server[p].left
        <3>1. \A p \in Pools : /\ server[p] \in [count : Nat, left : Nat]
                               /\ CostOf(r, p) \in Nat
            BY CostTyped
        <3>2. \A p \in Pools :
                 /\ [server[p] EXCEPT !.count = server[p].count + CostOf(r, p)]
                      \in [count : Nat, left : Nat]
                 /\ [server[p] EXCEPT !.count = server[p].count + CostOf(r, p)].left = server[p].left
            BY <3>1
        <3> QED BY <1>3, <3>1, <3>2 DEF Admit, Count
    <2>3. Remaining(r) \in SUBSET Pools
        BY DEF Remaining, Draws
    <2> QED BY <1>2, <1>3, <2>1, <2>2, <2>3 DEF Admit
<1>4. ASSUME NEW r \in Requests, Refuse(r)
      PROVE  TypeOK'
    <2>1. PICK p \in Pools :
             /\ Charge(r, Passed(r, p))
             /\ \/ request' = [request EXCEPT ![r] =
                                 [request[r] EXCEPT !.at = "raised", !.wake = request[r].wake]]
                \/ request' = [request EXCEPT ![r] =
                                 [request[r] EXCEPT !.at = p, !.wake = BlockedWait(p)]]
        BY <1>4, RefuseMoves
    <2>2. BlockedWait(p) \in Nat /\ request[r].wake \in Nat
        BY WaitIsShort, Parameters
    <2>3. request' \in [Requests -> [at : Stages, of : Endpoints, wake : Nat]]
        BY <2>1, <2>2, RequestMoves, StagesKnown
    <2>4. Passed(r, p) \in SUBSET Pools
        BY DEF Passed, Remaining, Draws
    <2> QED BY <1>2, <1>4, <2>1, <2>3, <2>4 DEF Refuse
<1>5. ASSUME NEW r \in Requests, RestResponds(r) \/ WsApiResponds(r)
      PROVE  TypeOK'
    <2>1. request' \in [Requests -> [at : Stages, of : Endpoints, wake : Nat]]
        <3>1. request[r].wake \in Nat
            OBVIOUS
        <3> QED BY <1>5, <3>1, AnswerMoves, RequestMoves, StagesKnown
    <2>2. ASSUME NEW S
          PROVE  Readings(r, S) \subseteq [Pools -> Int]
        <3> SUFFICES ASSUME NEW f \in Readings(r, S) PROVE f \in [Pools -> Int]
            OBVIOUS
        <3>1. PICK busy \in SUBSET Shared :
                  f = [p \in Pools |-> IF p \notin S \intersect Draws(r) THEN -1
                                       ELSE IF p \in busy THEN Cap[p] ELSE server[p].count]
            BY DEF Readings
        <3>2. \A p \in Pools : Cap[p] \in Int /\ server[p].count \in Int
            BY Parameters
        <3> QED BY <3>1, <3>2
    <2>3. ASSUME NEW f \in [Pools -> Int], Sync(f)
          PROVE  /\ auth' \in [Pools -> [left : Nat, value : Nat]]
                 /\ \A p \in Pools : auth'[p].left <= Interval[p]
        BY <2>3, Parameters DEF Sync
    <2>4. ASSUME NEW f \in [Pools -> Int], Received(f)
          PROVE  fresh' \in [Pools -> Nat] /\ \A p \in Pools : fresh'[p] <= Interval[p]
        BY <2>4, Parameters DEF Received
    <2>5. CASE RestResponds(r)
        <3>1. PICK f \in [Pools -> Int] :
                /\ header' = [p \in Pools |-> IF f[p] >= 0 THEN f[p] ELSE header[p]]
                /\ Received(f)
            BY <2>2, <2>5 DEF RestResponds
        <3>2. header' \in [Pools -> Int]
            BY <3>1
        <3>3. Sync(header')
            BY <2>5 DEF RestResponds
        <3>4. limit' \in {Limit, Cap} /\ ban' \in Nat /\ bans' \in 0..MaxBans
            <4>1. \A s \in Bans : 2 * s \in Nat
                BY Parameters
            <4> QED BY <2>5, <4>1, Parameters DEF RestResponds, Configure
        <3>5. auth' = [p \in Pools |-> IF header'[p] >= 0
                                       THEN [left |-> Interval[p], value |-> header'[p]]
                                       ELSE auth[p]]
            BY <3>3 DEF Sync
        <3>6. /\ auth' \in [Pools -> [left : Nat, value : Nat]]
              /\ \A p \in Pools : auth'[p].left <= Interval[p]
            BY <3>2, <3>5, Parameters
        <3> QED BY <2>1, <2>4, <2>5, <3>1, <3>2, <3>4, <3>6 DEF RestResponds
    <2>6. CASE WsApiResponds(r)
        <3>1. PICK f \in [Pools -> Int] : Sync(f) /\ Received(f)
            BY <2>2, <2>6 DEF WsApiResponds
        <3>2. limit' \in {Limit, Cap}
            BY <2>6 DEF WsApiResponds, Configure
        <3> QED BY <2>1, <2>3, <2>4, <2>6, <3>1, <3>2 DEF WsApiResponds
    <2> QED BY <1>5, <2>5, <2>6
<1>6. CASE Tick
    <2>1. \A n \in Nat : Less(n) \in Nat /\ Less(n) <= n
        BY DEF Less
    <2>2. request' \in [Requests -> [at : Stages, of : Endpoints, wake : Nat]]
        <3>1. \A r \in Requests : [request[r] EXCEPT !.wake = Less(request[r].wake)]
                                    \in [at : Stages, of : Endpoints, wake : Nat]
            BY <2>1
        <3> QED BY <1>6, <3>1 DEF Tick
    <2>3. /\ events' \in [Pools -> SUBSET [by : Requests, left : Nat, cost : Nat]]
          /\ \A p \in Pools : \A e \in events'[p] : e.left \in 1..Interval[p]
        <3>1. ASSUME NEW p \in Pools, NEW e \in Pruned(p)
              PROVE  e \in [by : Requests, left : Nat, cost : Nat] /\ e.left \in 1..Interval[p]
            <4>1. PICK x \in events[p] : x.left > 1 /\ e = [x EXCEPT !.left = x.left - 1]
                BY <3>1 DEF Pruned
            <4>2. x \in [by : Requests, left : Nat, cost : Nat] /\ x.left \in 1..Interval[p]
                OBVIOUS
            <4>3. x.left \in Int /\ x.left <= Interval[p] /\ Interval[p] \in Int
                BY <4>2, Parameters
            <4>4. x.left - 1 \in Nat /\ x.left - 1 \in 1..Interval[p]
                BY <4>1, <4>3
            <4>5. e \in [by : Requests, left : Nat, cost : Nat] /\ e.left = x.left - 1
                BY <4>1, <4>2, <4>4
            <4> QED BY <4>4, <4>5
        <3> QED BY <1>6, <3>1 DEF Tick
    <2>4. /\ auth' \in [Pools -> [left : Nat, value : Nat]]
          /\ \A p \in Pools : auth'[p].left <= Interval[p]
        <3>1. \A p \in Pools : /\ [auth[p] EXCEPT !.left = Less(auth[p].left)] \in [left : Nat, value : Nat]
                               /\ [auth[p] EXCEPT !.left = Less(auth[p].left)].left <= Interval[p]
            BY <2>1, Parameters
        <3> QED BY <1>6, <3>1 DEF Tick
    <2>5. fresh' \in [Pools -> Nat] /\ \A p \in Pools : fresh'[p] <= Interval[p]
        BY <1>6, <2>1, Parameters DEF Tick
    <2>6. /\ server' \in [Pools -> [count : Nat, left : Nat]]
          /\ \A p \in Pools : server'[p].left \in 1..Interval[p]
        <3>1. ASSUME NEW p \in Pools
              PROVE  LET s == IF server[p].left = 1 THEN [count |-> 0, left |-> Interval[p]]
                              ELSE [server[p] EXCEPT !.left = server[p].left - 1]
                     IN  s \in [count : Nat, left : Nat] /\ s.left \in 1..Interval[p]
            <4>1. server[p] \in [count : Nat, left : Nat] /\ server[p].left \in 1..Interval[p]
                OBVIOUS
            <4> QED BY <4>1, Parameters, SMTT(30)
        <3> QED BY <1>6, <3>1 DEF Tick
    <2> QED BY <1>6, <2>1, <2>2, <2>3, <2>4, <2>5, <2>6 DEF Tick
<1>7. CASE UNCHANGED vars
    BY <1>7 DEF vars
<1> QED BY <1>1, <1>3, <1>4, <1>5, <1>6, <1>7 DEF Next

-----------------------------------------------------------------------------
(* Charges *)

\* What a request draws on is settled when it is called.
LEMMA DrawsStay ==
    ASSUME NEW r \in Requests, request'[r].of = request[r].of
    PROVE  Draws(r)' = Draws(r)
BY DEF Draws

LEMMA ChargesOfOthers ==
    ASSUME ChargesOK, NEW r \in Requests,
           request'[r].at = request[r].at, request'[r].of = request[r].of,
           charged'[r] = charged[r]
    PROVE  ChargesOf(r)'
BY DrawsStay DEF ChargesOK, ChargesOf

\* What it has passed, and what remains, is all it draws on.
LEMMA RemainingIs ==
    ASSUME TypeOK, ChargesOK, NEW r \in Requests, Awake(r), NEW p \in Pools
    PROVE  /\ p \in Remaining(r) => p \in Draws(r) /\ charged[r][p] = 0
           /\ p \notin Remaining(r) => charged[r][p] = IF p \in Draws(r) THEN 1 ELSE 0
           /\ request[r].at \in Pools /\ p \in Draws(r) =>
                 (p \in Remaining(r) <=> Rank[p] >= Rank[request[r].at])
           /\ request[r].at \notin Pools => Remaining(r) = Draws(r)
<1>1. CASE request[r].at \in {"idle", "gate"}
    <2>1. Remaining(r) = Draws(r) /\ charged[r][p] = 0 /\ request[r].at \notin Pools
        BY <1>1, StagesKnown DEF Remaining, ChargesOK, ChargesOf
    <2> QED BY <2>1
<1>2. CASE request[r].at \in Pools
    <2>1. charged[r][p] = IF p \in Draws(r) /\ Rank[p] < Rank[request[r].at] THEN 1 ELSE 0
        BY <1>2 DEF ChargesOK, ChargesOf
    <2>2. Rank[p] \in Nat /\ Rank[request[r].at] \in Nat
        BY <1>2, Parameters
    <2>3. p \in Remaining(r) <=> p \in Draws(r) /\ Rank[p] >= Rank[request[r].at]
        BY <1>2 DEF Remaining
    <2> QED BY <1>2, <2>1, <2>2, <2>3
<1> QED BY <1>1, <1>2 DEF Awake

LEMMA ChargesPreserved ==
    ASSUME TypeOK, ChargesOK, [Next]_vars
    PROVE  ChargesOK'
<1>0. /\ \A r \in Requests : request[r] \in [at : Stages, of : Endpoints, wake : Nat]
      /\ \A r \in Requests, p \in Pools : charged[r][p] \in Nat
    BY DEF TypeOK
<1>1. ASSUME NEW r \in Requests, NEW place \in Stages, NEW wake \in Nat,
             request' = [request EXCEPT ![r] = [request[r] EXCEPT !.at = place, !.wake = wake]],
             \A s \in Requests \ {r} : charged'[s] = charged[s],
             ChargesOf(r)'
      PROVE  ChargesOK'
    <2>1. \A s \in Requests \ {r} : ChargesOf(s)'
        BY <1>1, RequestMoves, ChargesOfOthers
    <2> QED BY <1>1, <2>1 DEF ChargesOK
<1>2. ASSUME NEW r \in Requests, ParkForBan(r)
      PROVE  ChargesOK'
    <2>1. /\ 2 * Rounded(ban) \in Nat
          /\ request' = [request EXCEPT ![r] =
                           [request[r] EXCEPT !.at = "gate", !.wake = 2 * Rounded(ban)]]
        BY <1>2, ParkMoves
    <2>2. request'[r].at = "gate" /\ charged' = charged /\ request[r].at \in {"idle", "gate"}
        <3>1. PICK wake \in Nat :
                  request' = [request EXCEPT ![r] = [request[r] EXCEPT !.at = "gate", !.wake = wake]]
            BY <2>1
        <3>2. PICK place \in Stages : place = "gate"
            BY StagesKnown
        <3>3. request'[r].at = "gate"
            BY <3>1, <3>2, RequestMoves
        <3> QED BY <1>2, <3>3 DEF ParkForBan
    <2>3. \A p \in Pools : charged[r][p] = 0
        BY <2>2 DEF ChargesOK, ChargesOf
    <2>4. ChargesOf(r)'
        BY <2>2, <2>3, StagesKnown DEF ChargesOf
    <2> QED BY <1>1, <2>1, <2>2, <2>4, StagesKnown
<1>4. ASSUME NEW r \in Requests, Admit(r)
      PROVE  ChargesOK'
    <2>1. /\ request' = [request EXCEPT ![r] =
                           [request[r] EXCEPT !.at = "sent", !.wake = request[r].wake]]
          /\ request[r].wake \in Nat /\ "sent" \in Stages
        BY <1>0, <1>4, AdmitMoves, StagesKnown
    <2>2. request'[r].at = "sent" /\ request'[r].of = request[r].of
        BY <2>1, RequestMoves
    <2>3. /\ Remaining(r) \in SUBSET Pools /\ Charge(r, Remaining(r)) /\ Awake(r)
        BY <1>4 DEF Admit, Remaining, Draws
    <2>4. \A p \in Pools : charged'[r][p] = IF p \in Draws(r) THEN 1 ELSE 0
        BY <2>3, RemainingIs, ChargeTyped
    <2>5. ChargesOf(r)'
        BY <2>2, <2>4, DrawsStay, StagesKnown DEF ChargesOf
    <2>6. \A s \in Requests \ {r} : charged'[s] = charged[s]
        BY <2>3, ChargeTyped
    <2> QED BY <1>1, <2>1, <2>5, <2>6
<1>5. ASSUME NEW r \in Requests, Refuse(r)
      PROVE  ChargesOK'
    <2>1. PICK p \in Pools :
             /\ p \in Remaining(r) /\ Charge(r, Passed(r, p))
             /\ \/ request' = [request EXCEPT ![r] =
                                 [request[r] EXCEPT !.at = "raised", !.wake = request[r].wake]]
                \/ request' = [request EXCEPT ![r] =
                                 [request[r] EXCEPT !.at = p, !.wake = BlockedWait(p)]]
        BY <1>5, RefuseMoves
    <2>2. Passed(r, p) \in SUBSET Pools /\ Awake(r)
        BY <1>5 DEF Passed, Remaining, Draws, Refuse
    <2>3. ASSUME NEW q \in Pools
          PROVE  /\ charged'[r][q] <= 1
                 /\ charged'[r][q] = IF q \in Draws(r) /\ Rank[q] < Rank[p] THEN 1 ELSE 0
        <3>1. charged'[r][q] = IF q \in Passed(r, p) THEN charged[r][q] + 1 ELSE charged[r][q]
            BY <2>1, <2>2, ChargeTyped
        <3>2. q \in Passed(r, p) <=> q \in Remaining(r) /\ Rank[q] < Rank[p]
            BY DEF Passed
        <3>3. /\ q \in Remaining(r) => q \in Draws(r) /\ charged[r][q] = 0
              /\ q \notin Remaining(r) => charged[r][q] = IF q \in Draws(r) THEN 1 ELSE 0
            BY <2>2, RemainingIs
        <3>4. q \in Draws(r) /\ q \notin Remaining(r) => Rank[q] < Rank[p]
            <4>1. SUFFICES ASSUME q \in Draws(r), q \notin Remaining(r)
                           PROVE  Rank[q] < Rank[p]
                OBVIOUS
            <4>2. request[r].at \in Pools /\ ~(Rank[q] >= Rank[request[r].at])
                BY <2>2, <4>1, RemainingIs
            <4>3. Rank[p] >= Rank[request[r].at]
                BY <2>1, <2>2, <4>2, RemainingIs
            <4>4. Rank[p] \in Nat /\ Rank[q] \in Nat /\ Rank[request[r].at] \in Nat
                BY <4>2, Parameters
            <4> QED BY <4>2, <4>3, <4>4
        <3> QED BY <3>1, <3>2, <3>3, <3>4
    <2>4. \A s \in Requests \ {r} : charged'[s] = charged[s]
        BY <2>1, <2>2, ChargeTyped
    <2>5. CASE request' = [request EXCEPT ![r] =
                             [request[r] EXCEPT !.at = "raised", !.wake = request[r].wake]]
        <3>1. request'[r].at = "raised" /\ request[r].wake \in Nat /\ "raised" \in Stages
            BY <1>0, <2>5, RequestMoves, StagesKnown
        <3>2. ChargesOf(r)'
            BY <2>3, <3>1, StagesKnown DEF ChargesOf
        <3> QED BY <1>1, <2>4, <2>5, <3>1, <3>2
    <2>6. CASE request' = [request EXCEPT ![r] =
                             [request[r] EXCEPT !.at = p, !.wake = BlockedWait(p)]]
        <3>1. p \in Stages /\ BlockedWait(p) \in Nat
            BY WaitIsShort, Parameters, StagesKnown
        <3>2. request'[r].at = p /\ request'[r].of = request[r].of
            BY <2>6, <3>1, RequestMoves
        <3>3. ChargesOf(r)'
            BY <2>3, <3>2, DrawsStay, StagesKnown DEF ChargesOf
        <3> QED BY <1>1, <2>4, <2>6, <3>1, <3>3
    <2> QED BY <2>1, <2>5, <2>6
<1>6. ASSUME NEW r \in Requests, RestResponds(r) \/ WsApiResponds(r)
      PROVE  ChargesOK'
    <2>1. /\ request' = [request EXCEPT ![r] =
                           [request[r] EXCEPT !.at = "answered", !.wake = request[r].wake]]
          /\ request[r].wake \in Nat /\ "answered" \in Stages
        BY <1>0, <1>6, AnswerMoves, StagesKnown
    <2>2. request'[r].at = "answered" /\ request'[r].of = request[r].of
        BY <2>1, RequestMoves
    <2>3. charged' = charged /\ request[r].at = "sent"
        BY <1>6 DEF RestResponds, WsApiResponds
    <2>4. ChargesOf(r)'
        BY <2>2, <2>3, DrawsStay, StagesKnown DEF ChargesOK, ChargesOf
    <2> QED BY <1>1, <2>1, <2>3, <2>4
<1>7. CASE Tick
    <2>1. \A r \in Requests : /\ request'[r].at = request[r].at /\ request'[r].of = request[r].of
                              /\ charged'[r] = charged[r]
        BY <1>0, <1>7 DEF Tick
    <2> QED BY <2>1, ChargesOfOthers DEF ChargesOK
<1>8. CASE UNCHANGED vars
    <2>1. \A r \in Requests : /\ request'[r].at = request[r].at /\ request'[r].of = request[r].of
                              /\ charged'[r] = charged[r]
        BY <1>8 DEF vars
    <2> QED BY <2>1, ChargesOfOthers DEF ChargesOK
<1> QED BY <1>2, <1>4, <1>5, <1>6, <1>7, <1>8 DEF Next

-----------------------------------------------------------------------------
(* Sleep *)

\* A request that does not move sleeps as well as before, when all that is new
\* in a pool has the pool's whole interval ahead of it.
LEMMA SleepOfOthers ==
    ASSUME SleepOK, NEW r \in Requests,
           request'[r].at = request[r].at, request'[r].wake = request[r].wake,
           \A p \in Pools : \A e \in events'[p] : e \in events[p] \/ e.left = Interval[p]
    PROVE  SleepOf(r)'
BY DEF SleepOK, SleepOf

LEMMA SleepPreserved ==
    ASSUME TypeOK, SleepOK, [Next]_vars
    PROVE  SleepOK'
<1>0. \A r \in Requests : request[r] \in [at : Stages, of : Endpoints, wake : Nat]
    BY DEF TypeOK
<1>1. ASSUME NEW r \in Requests, NEW place \in Stages, NEW wake \in Nat,
             request' = [request EXCEPT ![r] = [request[r] EXCEPT !.at = place, !.wake = wake]],
             \A p \in Pools : \A e \in events'[p] : e \in events[p] \/ e.left = Interval[p],
             SleepOf(r)'
      PROVE  SleepOK'
    <2>1. \A s \in Requests \ {r} : SleepOf(s)'
        BY <1>1, RequestMoves, SleepOfOthers
    <2> QED BY <1>1, <2>1 DEF SleepOK
<1>2. ASSUME NEW r \in Requests, NEW place \in Stages \ Pools, NEW wake \in Nat,
             request' = [request EXCEPT ![r] = [request[r] EXCEPT !.at = place, !.wake = wake]],
             \A p \in Pools : \A e \in events'[p] : e \in events[p] \/ e.left = Interval[p]
      PROVE  SleepOK'
    <2>1. SleepOf(r)'
        BY <1>2, RequestMoves DEF SleepOf
    <2> QED BY <1>1, <1>2, <2>1
<1>3. ASSUME NEW r \in Requests, NEW S \in SUBSET Pools, Charge(r, S)
      PROVE  \A p \in Pools : \A e \in events'[p] : e \in events[p] \/ e.left = Interval[p]
    BY <1>3, ChargeTyped
<1>4. ASSUME NEW r \in Requests, ParkForBan(r)
      PROVE  SleepOK'
    <2>1. \A p \in Pools : \A e \in events'[p] : e \in events[p] \/ e.left = Interval[p]
        BY <1>4 DEF ParkForBan
    <2> QED BY <1>2, <1>4, <2>1, ParkMoves, StagesKnown
<1>5. ASSUME NEW r \in Requests, Admit(r)
      PROVE  SleepOK'
    <2>1. Remaining(r) \in SUBSET Pools /\ Charge(r, Remaining(r))
        BY <1>5 DEF Admit, Remaining, Draws
    <2>2. "sent" \in Stages \ Pools /\ request[r].wake \in Nat
        BY <1>0, StagesKnown
    <2>3. request' = [request EXCEPT ![r] =
                        [request[r] EXCEPT !.at = "sent", !.wake = request[r].wake]]
        BY <1>5, AdmitMoves
    <2>4. \A p \in Pools : \A e \in events'[p] : e \in events[p] \/ e.left = Interval[p]
        BY <1>3, <2>1
    <2> QED BY <1>2, <2>2, <2>3, <2>4
<1>6. ASSUME NEW r \in Requests, Refuse(r)
      PROVE  SleepOK'
    <2>1. PICK p \in Pools :
             /\ p \in Remaining(r) /\ Charge(r, Passed(r, p))
             /\ \/ request' = [request EXCEPT ![r] =
                                 [request[r] EXCEPT !.at = "raised", !.wake = request[r].wake]]
                \/ request' = [request EXCEPT ![r] =
                                 [request[r] EXCEPT !.at = p, !.wake = BlockedWait(p)]]
        BY <1>6, RefuseMoves
    <2>2. Passed(r, p) \in SUBSET Pools
        BY DEF Passed, Remaining, Draws
    <2>3. CASE request' = [request EXCEPT ![r] =
                             [request[r] EXCEPT !.at = "raised", !.wake = request[r].wake]]
        <3>1. "raised" \in Stages \ Pools /\ request[r].wake \in Nat
            BY <1>0, StagesKnown
        <3> QED BY <1>2, <1>3, <2>1, <2>2, <2>3, <3>1
    <2>4. CASE request' = [request EXCEPT ![r] =
                             [request[r] EXCEPT !.at = p, !.wake = BlockedWait(p)]]
        <3>1. p \in Stages /\ BlockedWait(p) \in Nat /\ BlockedWait(p) <= Interval[p]
            BY WaitIsShort, Parameters, StagesKnown
        <3>2. request'[r].at = p /\ request'[r].wake = BlockedWait(p)
            <4> HIDE DEF BlockedWait
            <4>1. PICK wake \in Nat : wake = BlockedWait(p)
                BY <3>1
            <4>2. request' = [request EXCEPT ![r] = [request[r] EXCEPT !.at = p, !.wake = wake]]
                BY <2>4, <4>1
            <4>3. request'[r].at = p /\ request'[r].wake = wake
                <5>1. request'[r] = [request[r] EXCEPT !.at = p, !.wake = wake]
                    BY <4>2 DEF TypeOK
                <5> QED BY <1>0, <5>1
            <4> QED BY <4>1, <4>3
        <3>3. \A e \in events'[p] : BlockedWait(p) <= e.left
            <4>1. \A e \in events'[p] : e \in events[p] \/ e.left = Interval[p]
                BY <1>3, <2>1, <2>2
            <4> QED BY <3>1, <4>1, WaitIsShort
        <3>4. SleepOf(r)'
            BY <3>1, <3>2, <3>3 DEF SleepOf
        <3> QED BY <1>1, <1>3, <2>1, <2>2, <2>4, <3>1, <3>4
    <2> QED BY <2>1, <2>3, <2>4
<1>7. ASSUME NEW r \in Requests, RestResponds(r) \/ WsApiResponds(r)
      PROVE  SleepOK'
    <2>1. "answered" \in Stages \ Pools /\ request[r].wake \in Nat
        BY <1>0, StagesKnown
    <2>2. \A p \in Pools : \A e \in events'[p] : e \in events[p] \/ e.left = Interval[p]
        BY <1>7 DEF RestResponds, WsApiResponds
    <2>3. request' = [request EXCEPT ![r] =
                        [request[r] EXCEPT !.at = "answered", !.wake = request[r].wake]]
        BY <1>7, AnswerMoves
    <2> QED BY <1>2, <2>1, <2>2, <2>3
<1>8. CASE Tick
    <2>1. ASSUME NEW r \in Requests, request'[r].at \in Pools
          PROVE  /\ request'[r].wake <= Interval[request'[r].at]
                 /\ \A e \in events'[request'[r].at] : request'[r].wake <= e.left
        <3>1. request'[r].at = request[r].at /\ request'[r].wake = Less(request[r].wake)
            BY <1>0, <1>8 DEF Tick
        <3>2. PICK p \in Pools : p = request[r].at
            BY <2>1, <3>1
        <3>3. /\ request[r].wake \in Nat /\ request[r].wake <= Interval[p] /\ Interval[p] \in Nat
              /\ \A e \in events[p] : request[r].wake <= e.left
            BY <1>0, <3>2, Parameters DEF SleepOK, SleepOf
        <3>4. ASSUME NEW e \in events'[p]
              PROVE  Less(request[r].wake) <= e.left
            <4>1. PICK x \in events[p] : x.left > 1 /\ e = [x EXCEPT !.left = x.left - 1]
                BY <1>8 DEF Tick, Pruned
            <4>2. x \in [by : Requests, left : Nat, cost : Nat]
                BY DEF TypeOK
            <4>3. e.left = x.left - 1 /\ x.left \in Nat
                BY <4>1, <4>2
            <4>4. request[r].wake <= x.left
                BY <3>3
            <4> QED BY <3>3, <4>1, <4>3, <4>4 DEF Less
        <3>5. Less(request[r].wake) <= Interval[p]
            BY <3>3 DEF Less
        <3> QED BY <3>1, <3>2, <3>4, <3>5
    <2> QED BY <2>1 DEF SleepOK, SleepOf
<1>9. CASE UNCHANGED vars
    BY <1>9 DEF vars, SleepOK, SleepOf
<1> QED BY <1>4, <1>5, <1>6, <1>7, <1>8, <1>9 DEF Next

-----------------------------------------------------------------------------
(* Sums of costs.  MapThenSumSet picks the members of a set one by one, in an *)
(* order nobody knows: that the order does not matter is by induction over    *)
(* the subsets of a finite set, in the form that a set of counterexamples     *)
(* would have a smallest one.                                                 *)

\* The sum of the costs of a set of charges.
Total(E) == MapThenSumSet(LAMBDA e : e.cost, E)

Picked(E) == CHOOSE e \in E : TRUE
StepOf(f, T) == IF T = {} THEN 0 ELSE Picked(T).cost + f[T \ {Picked(T)}]
\* f sums every subset of E, one picked charge at a time.
Sums(f, E) == f = [T \in SUBSET E |-> StepOf(f, T)]

LEMMA TotalIsChosen ==
    ASSUME NEW E PROVE Total(E) = (CHOOSE f : Sums(f, E))[E]
BY DEF Total, MapThenSumSet, MapThenFoldSet, Sums, StepOf, Picked

LEMMA SmallestSet ==
    ASSUME NEW E, NEW Bad \in SUBSET FiniteSubsetsOf(E), Bad # {}
    PROVE  \E S \in Bad : \A T \in Bad : T \subseteq S => T = S
<1>1. PICK S \in Bad : \A T \in Bad : <<T, S>> \notin StrictSubsetOrdering(E)
    BY FS_StrictSubsetOrderingWellFounded, WFMin
<1>2. ASSUME NEW T \in Bad, T \subseteq S, T # S
      PROVE  FALSE
    BY <1>1, <1>2 DEF StrictSubsetOrdering, FiniteSubsetsOf
<1> QED BY <1>2

LEMMA SumsUnique ==
    ASSUME NEW E, IsFiniteSet(E), NEW f, NEW g, Sums(f, E), Sums(g, E)
    PROVE  f = g
<1> DEFINE Bad == {T \in SUBSET E : f[T] # g[T]}
<1>1. Bad \subseteq FiniteSubsetsOf(E)
    BY FS_Subset DEF FiniteSubsetsOf
<1>2. \A T \in SUBSET E : f[T] = StepOf(f, T) /\ g[T] = StepOf(g, T)
    BY DEF Sums
<1>3. ASSUME NEW S \in Bad, \A T \in Bad : T \subseteq S => T = S
      PROVE  FALSE
    <2>1. S # {}
        BY <1>2 DEF StepOf
    <2>2. Picked(S) \in S
        BY <2>1 DEF Picked
    <2>3. f[S \ {Picked(S)}] = g[S \ {Picked(S)}]
        BY <1>3, <2>2
    <2> QED BY <1>2, <2>1, <2>3 DEF StepOf
<1>4. Bad = {}
    <2> HIDE DEF Bad
    <2> QED BY <1>1, <1>3, SmallestSet
<1>5. \A T \in SUBSET E : f[T] = g[T]
    BY <1>4
<1> QED BY <1>5, Zenon DEF Sums

LEMMA SumsBelow ==
    ASSUME NEW E, IsFiniteSet(E), NEW f, Sums(f, E), NEW U \in SUBSET E
    PROVE  /\ \E g : Sums(g, U)
           /\ Total(U) = f[U]
<1> DEFINE g == [T \in SUBSET U |-> f[T]]
<1>1. \A T \in SUBSET E : f[T] = StepOf(f, T)
    BY DEF Sums
<1>2. Sums(g, U)
    <2>1. ASSUME NEW T \in SUBSET U
          PROVE  f[T] = StepOf(g, T)
        BY <1>1 DEF StepOf
    <2> QED BY <2>1 DEF Sums
<1>3. Sums(CHOOSE h : Sums(h, U), U)
    BY <1>2
<1>4. IsFiniteSet(U)
    BY FS_Subset
<1>5. (CHOOSE h : Sums(h, U)) = g
    BY <1>2, <1>3, <1>4, SumsUnique
<1> QED BY <1>2, <1>5, TotalIsChosen

LEMMA SumsExist ==
    ASSUME NEW E, IsFiniteSet(E)
    PROVE  \E f : Sums(f, E)
<1> DEFINE Bad == {S \in SUBSET E : ~ \E f : Sums(f, S)}
<1>1. Bad \subseteq FiniteSubsetsOf(E)
    BY FS_Subset DEF FiniteSubsetsOf
<1>2. ASSUME NEW S \in Bad, \A T \in Bad : T \subseteq S => T = S
      PROVE  FALSE
    <2> DEFINE f == [T \in SUBSET S |-> IF T = S THEN StepOf([U \in SUBSET S |-> Total(U)], S) ELSE Total(T)]
    <2>1. ASSUME NEW T \in SUBSET S, T # S, T # {}
          PROVE  Total(T) = Picked(T).cost + Total(T \ {Picked(T)})
        <3>1. PICK h : Sums(h, T)
            BY <1>2, <2>1
        <3>2. IsFiniteSet(T)
            BY FS_Subset
        <3>3. h[T] = StepOf(h, T)
            BY <3>1 DEF Sums
        <3>4. Total(T) = h[T] /\ Total(T \ {Picked(T)}) = h[T \ {Picked(T)}]
            BY <3>1, <3>2, SumsBelow
        <3> QED BY <2>1, <3>3, <3>4 DEF StepOf
    <2>2. S # {} => Total({}) = 0
        <3>1. ASSUME S # {} PROVE Total({}) = 0
            <4>1. PICK h : Sums(h, {})
                BY <1>2, <3>1
            <4>2. h[{}] = 0
                BY <4>1 DEF Sums, StepOf
            <4> QED BY <4>1, <4>2, SumsBelow, FS_EmptySet
        <3> QED BY <3>1
    <2>3. ASSUME NEW T \in SUBSET S
          PROVE  f[T] = StepOf(f, T)
        <3>1. CASE T = {}
            BY <3>1, <2>2 DEF StepOf
        <3>2. CASE T # {}
            <4>1. Picked(T) \in T
                BY <3>2 DEF Picked
            <4>2. T \ {Picked(T)} \in SUBSET S /\ T \ {Picked(T)} # S
                BY <4>1
            <4>3. f[T \ {Picked(T)}] = Total(T \ {Picked(T)})
                BY <4>2
            <4> QED BY <2>1, <3>2, <4>2, <4>3 DEF StepOf
        <3> QED BY <3>1, <3>2
    <2>4. Sums(f, S)
        BY <2>3 DEF Sums
    <2> QED BY <2>4
<1>3. Bad = {}
    <2> HIDE DEF Bad
    <2> QED BY <1>1, <1>2, SmallestSet
<1> QED BY <1>3

LEMMA TotalStep ==
    ASSUME NEW E, IsFiniteSet(E)
    PROVE  Total(E) = IF E = {} THEN 0 ELSE Picked(E).cost + Total(E \ {Picked(E)})
<1>1. PICK f : Sums(f, E)
    BY SumsExist
<1>2. f[E] = StepOf(f, E)
    BY <1>1 DEF Sums
<1>3. Total(E) = f[E] /\ Total(E \ {Picked(E)}) = f[E \ {Picked(E)}]
    BY <1>1, SumsBelow
<1> QED BY <1>2, <1>3 DEF StepOf

\* The order in which the charges are added does not matter.
LEMMA TotalRemove ==
    ASSUME NEW E, IsFiniteSet(E), \A e \in E : e.cost \in Nat
    PROVE  /\ Total(E) \in Nat
           /\ \A x \in E : Total(E) = x.cost + Total(E \ {x})
<1> DEFINE Good(S) == Total(S) \in Nat /\ \A x \in S : Total(S) = x.cost + Total(S \ {x})
           Bad == {S \in SUBSET E : ~Good(S)}
<1>1. Bad \subseteq FiniteSubsetsOf(E)
    BY FS_Subset DEF FiniteSubsetsOf
<1>2. ASSUME NEW S \in Bad, \A T \in Bad : T \subseteq S => T = S
      PROVE  FALSE
    <2>1. IsFiniteSet(S)
        BY FS_Subset
    <2>2. \A x \in S : S \ {x} \in SUBSET E /\ Good(S \ {x})
        BY <1>2
    <2>3. ASSUME S = {} PROVE FALSE
        <3>1. Total(S) = 0
            BY <2>1, <2>3, TotalStep
        <3> QED BY <2>3, <3>1
    <2> DEFINE y == Picked(S)
    <2>4. y \in S
        BY <2>3 DEF Picked
    <2>5. Total(S) = y.cost + Total(S \ {y}) /\ y.cost \in Nat /\ Total(S \ {y}) \in Nat
        BY <2>1, <2>2, <2>4, TotalStep
    <2> HIDE DEF y
    <2>6. ASSUME NEW x \in S, x # y
          PROVE  Total(S) = x.cost + Total(S \ {x})
        <3>1. Total(S \ {y}) = x.cost + Total((S \ {y}) \ {x})
            BY <2>2, <2>4, <2>6
        <3>2. Total(S \ {x}) = y.cost + Total((S \ {x}) \ {y})
            BY <2>2, <2>4, <2>6
        <3>3. (S \ {x}) \ {y} = (S \ {y}) \ {x}
            OBVIOUS
        <3>4. Good((S \ {x}) \ {y})
            BY <1>2, <2>4
        <3>5. Total((S \ {x}) \ {y}) \in Nat /\ x.cost \in Nat
            BY <3>4
        <3> HIDE DEF Good, Bad
        <3>6. /\ Total(S) = y.cost + (x.cost + Total((S \ {y}) \ {x}))
              /\ Total(S \ {x}) = y.cost + Total((S \ {y}) \ {x})
            BY <2>5, <3>1, <3>2, <3>3
        <3> QED BY <2>5, <3>5, <3>6
    <2>7. Good(S)
        <3>1. \A x \in S : Total(S) = x.cost + Total(S \ {x})
            BY <2>5, <2>6
        <3>2. Total(S) \in Nat
            BY <2>5
        <3> QED BY <3>1, <3>2
    <2> QED BY <2>7
<1>3. Bad = {}
    <2> HIDE DEF Bad
    <2> QED BY <1>1, <1>2, SmallestSet
<1>4. Good(E)
    BY <1>3
<1> QED BY <1>4

LEMMA TotalAdd ==
    ASSUME NEW E, IsFiniteSet(E), \A e \in E : e.cost \in Nat, NEW x, x.cost \in Nat
    PROVE  Total(E \union {x}) = IF x \in E THEN Total(E) ELSE Total(E) + x.cost
<1>1. CASE x \in E
    <2>1. E \union {x} = E
        BY <1>1
    <2> QED BY <1>1, <2>1
<1>2. CASE x \notin E
    <2>1. IsFiniteSet(E \union {x}) /\ (E \union {x}) \ {x} = E
        BY <1>2, FS_AddElement
    <2>2. Total(E) \in Nat
        BY TotalRemove
    <2>3. \A e \in E \union {x} : e.cost \in Nat
        OBVIOUS
    <2>4. Total(E \union {x}) = x.cost + Total((E \union {x}) \ {x})
        BY <2>1, <2>3, TotalRemove
    <2>5. Total(E \union {x}) = x.cost + Total(E)
        BY <2>1, <2>4
    <2> QED BY <1>2, <2>2, <2>5
<1> QED BY <1>1, <1>2

LEMMA TotalGrows ==
    ASSUME NEW E, IsFiniteSet(E), \A e \in E : e.cost \in Nat, NEW D \in SUBSET E
    PROVE  Total(D) <= Total(E)
<1> DEFINE Bad == {S \in SUBSET E : ~(D \subseteq S => Total(D) <= Total(S))}
<1>1. Bad \subseteq FiniteSubsetsOf(E)
    BY FS_Subset DEF FiniteSubsetsOf
<1>2. ASSUME NEW S \in Bad, \A T \in Bad : T \subseteq S => T = S
      PROVE  FALSE
    <2>1. IsFiniteSet(S) /\ IsFiniteSet(D)
        BY FS_Subset
    <2>2. Total(S) \in Nat /\ Total(D) \in Nat
        BY <2>1, TotalRemove
    <2>3. PICK x \in S : x \notin D
        BY <2>2
    <2>4. Total(D) <= Total(S \ {x})
        BY <1>2, <2>3
    <2>5. Total(S) = x.cost + Total(S \ {x}) /\ x.cost \in Nat
        BY <2>1, <2>3, TotalRemove
    <2>6. IsFiniteSet(S \ {x})
        BY <2>1, FS_Subset
    <2>7. Total(S \ {x}) \in Nat
        BY <2>6, TotalRemove
    <2> QED BY <2>2, <2>4, <2>5, <2>7
<1>3. Bad = {}
    <2> HIDE DEF Bad
    <2> QED BY <1>1, <1>2, SmallestSet
<1> QED BY <1>3

LEMMA TotalOfUnion ==
    ASSUME NEW A, NEW B, IsFiniteSet(A), IsFiniteSet(B),
           \A e \in A \union B : e.cost \in Nat
    PROVE  Total(A \union B) <= Total(A) + Total(B)
<1> DEFINE Bad == {S \in SUBSET B : ~(Total(A \union S) <= Total(A) + Total(S))}
<1>1. Bad \subseteq FiniteSubsetsOf(B)
    BY FS_Subset DEF FiniteSubsetsOf
<1>2. ASSUME NEW S \in Bad, \A T \in Bad : T \subseteq S => T = S
      PROVE  FALSE
    <2>1. IsFiniteSet(S) /\ IsFiniteSet(A \union S)
        BY FS_Subset, FS_Union
    <2>2. Total(A \union S) \in Nat /\ Total(A) \in Nat /\ Total(S) \in Nat
        BY <2>1, TotalRemove
    <2>3. CASE S = {}
        <3>1. A \union S = A
            BY <2>3
        <3> HIDE DEF Bad
        <3>2. Total(A \union S) = Total(A)
            BY <3>1, Zenon
        <3>3. Total(A \union S) <= Total(A) + Total(S)
            BY <2>2, <3>2
        <3> QED BY <1>2, <3>3 DEF Bad
    <2>4. ASSUME NEW x \in S
          PROVE  FALSE
        <3>1. Total(A \union (S \ {x})) <= Total(A) + Total(S \ {x})
            BY <1>2
        <3>2. Total(S) = x.cost + Total(S \ {x}) /\ x.cost \in Nat
            BY <2>1, TotalRemove
        <3>3. IsFiniteSet(S \ {x}) /\ IsFiniteSet(A \union (S \ {x}))
            BY <2>1, FS_Subset, FS_Union
        <3>4. Total(S \ {x}) \in Nat /\ Total(A \union (S \ {x})) \in Nat
            BY <3>3, TotalRemove
        <3>5. A \union S = (A \union (S \ {x})) \union {x}
            OBVIOUS
        <3>6. \A e \in A \union (S \ {x}) : e.cost \in Nat
            OBVIOUS
        <3>7. Total(A \union S) <= Total(A \union (S \ {x})) + x.cost
            <4> HIDE DEF Bad
            <4> DEFINE U == A \union (S \ {x})
            <4>1. \/ Total(U \union {x}) = Total(U)
                  \/ Total(U \union {x}) = Total(U) + x.cost
                <5> HIDE DEF U
                <5> QED BY <3>2, <3>3, <3>6, TotalAdd DEF U
            <4>2. Total(A \union S) = Total(U \union {x})
                BY <3>5
            <4> QED BY <3>2, <3>4, <4>1, <4>2
        <3> HIDE DEF Bad
        <3>8. Total(A \union S) <= Total(A) + Total(S)
            BY <2>2, <3>1, <3>2, <3>4, <3>7
        <3> QED BY <1>2, <3>8 DEF Bad
    <2> QED BY <2>3, <2>4
<1>3. Bad = {}
    <2> HIDE DEF Bad
    <2> QED BY <1>1, <1>2, SmallestSet
<1> QED BY <1>3

\* Charges of A can be paired, by whom they charge, with charges of B that cost
\* no less.
LEMMA TotalPaired ==
    ASSUME NEW A, NEW B, IsFiniteSet(A), IsFiniteSet(B),
           \A e \in A \union B : e.cost \in Nat,
           \A a, b \in A : a.by = b.by => a = b,
           \A a \in A : \E b \in B : b.by = a.by /\ a.cost <= b.cost
    PROVE  Total(A) <= Total(B)
<1> DEFINE Of(S) == {b \in B : \E a \in S : b.by = a.by}
           Bad == {S \in SUBSET A : ~(Total(S) <= Total(Of(S)))}
<1>1. Bad \subseteq FiniteSubsetsOf(A)
    BY FS_Subset DEF FiniteSubsetsOf
<1>2. ASSUME NEW S \in Bad, \A T \in Bad : T \subseteq S => T = S
      PROVE  FALSE
    <2>1. /\ IsFiniteSet(S) /\ IsFiniteSet(Of(S))
          /\ \A x \in S : IsFiniteSet(S \ {x}) /\ IsFiniteSet(Of(S \ {x}))
        <3>1. \A T \in SUBSET A : IsFiniteSet(T) /\ IsFiniteSet(Of(T))
            BY FS_Subset
        <3> QED BY <3>1
    <2>2. Total(S) \in Nat /\ Total(Of(S)) \in Nat
        BY <2>1, TotalRemove
    <2>3. CASE S = {}
        <3>1. Total(S) = 0
            BY <2>1, <2>3, TotalStep
        <3> QED BY <2>2, <3>1
    <2>4. ASSUME NEW x \in S
          PROVE  FALSE
        <3>1. Total(S \ {x}) <= Total(Of(S \ {x}))
            BY <1>2
        <3>2. Total(S) = x.cost + Total(S \ {x}) /\ x.cost \in Nat
            BY <2>1, TotalRemove
        <3>3. Total(S \ {x}) \in Nat /\ Total(Of(S \ {x})) \in Nat
            BY <2>1, TotalRemove
        <3>4. PICK y \in B : y.by = x.by /\ x.cost <= y.cost
            OBVIOUS
        <3>5. y \in Of(S) /\ y.cost \in Nat
            BY <3>4
        <3>6. Of(S \ {x}) \subseteq Of(S) \ {y}
            BY <3>4
        <3>7. Total(Of(S)) = y.cost + Total(Of(S) \ {y})
            <4>1. \A e \in Of(S) : e.cost \in Nat
                OBVIOUS
            <4> HIDE DEF Of
            <4> QED BY <2>1, <3>5, <4>1, TotalRemove
        <3>8. Total(Of(S \ {x})) <= Total(Of(S) \ {y}) /\ Total(Of(S) \ {y}) \in Nat
            <4>1. IsFiniteSet(Of(S) \ {y})
                BY <2>1, FS_Subset
            <4>2. \A e \in Of(S) \ {y} : e.cost \in Nat
                OBVIOUS
            <4> HIDE DEF Of
            <4> QED BY <3>6, <4>1, <4>2, TotalGrows, TotalRemove
        <3> HIDE DEF Bad, Of
        <3>9. Total(S) <= Total(Of(S))
            BY <2>2, <3>1, <3>2, <3>3, <3>4, <3>5, <3>7, <3>8
        <3> QED BY <1>2, <3>9 DEF Bad
    <2> QED BY <2>3, <2>4
<1>3. Bad = {}
    <2> HIDE DEF Bad
    <2> QED BY <1>1, <1>2, SmallestSet
<1>4. Total(A) <= Total(Of(A))
    BY <1>3
<1>5. Of(A) \in SUBSET B /\ IsFiniteSet(Of(A)) /\ Total(B) \in Nat
    BY FS_Subset, TotalRemove
<1>6. Total(Of(A)) <= Total(B) /\ Total(A) \in Nat /\ Total(Of(A)) \in Nat
    <2> HIDE DEF Of
    <2> QED BY <1>5, TotalGrows, TotalRemove
<1> HIDE DEF Of
<1> QED BY <1>4, <1>5, <1>6


-----------------------------------------------------------------------------
(* The invariant of the server's limit *)

\* A raw pool is never exhausted before the weight is: its window is covered by
\* k of the weight pool's, and k times the weight is less than its limit.  For
\* the DEFAULT_RULES of Spot, and an address of one's own, k = 5 will do; the
\* futures have no raw pool.
RoomFor(k) ==
    /\ Interval["raw"] <= k * Interval["weight"]
    /\ k * Cap["weight"] < Limit["raw"]

RawIsRoomy ==
    "raw" \in Pools => /\ "weight" \in Pools /\ "raw" \notin Shared
                      /\ \E k \in Nat : RoomFor(k)

\* The pools a request that has passed cannot have to wait for another after.
SafePools == IF RawIsRoomy THEN Pools ELSE Pools \ {"weight"}

\* A charge tells of the one time its request passed the pool.
OwnersOK ==
    \A p \in Pools :
        /\ IsFiniteSet(events[p])
        /\ \A e \in events[p] : charged[e.by][p] = 1 /\ e.cost = CostOf(e.by, p)
        /\ \A e, f \in events[p] : e.by = f.by => e = f

\* What is charged is within the limit.
ChargesWithinLimit == \A p \in Pools : Total(events[p]) <= limit[p]

\* A pool holds a request only if it draws on it, and the orders hold none.
WaitsOK == \A r \in Requests : request[r].at \in Pools => request[r].at \in Draws(r) \ {"orders"}

\* The charges made since the server's window started.
SinceRoll(p) == {e \in events[p] : e.left >= server[p].left}

\* What the server counts in its window is still charged.
ServerOK == \A p \in SafePools : server[p].count <= Total(SinceRoll(p))

\* The raw requests charged in a period as long as the weight pool's window.
RawAfter(t) == {e \in events["raw"] : t < e.left /\ e.left <= t + Interval["weight"]}

\* The weight charged together with a raw request has as long to stay, less the
\* difference of the windows.
Together(e, x) ==
    x.by = e.by /\ x.left - Interval["weight"] = e.left - Interval["raw"]

\* Where the raw pool is roomy: a raw request is no more than the weight charged
\* with it, so that no period has more of them than the weight pool admits; nor
\* does the server count more; and no request waits in the pool.
RoomOK ==
    RawIsRoomy /\ "raw" \in Pools =>
        /\ \A e \in events["raw"] : e.left > Interval["raw"] - Interval["weight"] =>
              \E x \in events["weight"] : Together(e, x)
        /\ \A t \in Nat : Total(RawAfter(t)) <= Cap["weight"]
        /\ header["raw"] = -1
        /\ \A k \in Nat : RoomFor(k) => auth["raw"].value <= k * Cap["weight"]
        /\ \A r \in Requests : request[r].at # "raw"

WindowInv == OwnersOK /\ ChargesWithinLimit /\ WaitsOK /\ ServerOK /\ RoomOK

-----------------------------------------------------------------------------
(* The server's limit: what a step does to the charges *)

LEMMA EventTyped ==
    ASSUME TypeOK, NEW p \in Pools, NEW e \in events[p]
    PROVE  /\ e \in [by : Requests, left : Nat, cost : Nat]
           /\ e.by \in Requests /\ e.left \in 1..Interval[p] /\ e.left \in Nat /\ e.cost \in Nat
<1>1. e \in [by : Requests, left : Nat, cost : Nat] /\ e.left \in 1..Interval[p]
    BY DEF TypeOK
<1> QED BY <1>1

\* Sums of charges are what sums of costs are.
LEMMA SumsTyped ==
    ASSUME TypeOK, OwnersOK, NEW p \in Pools, NEW D \in SUBSET events[p]
    PROVE  /\ IsFiniteSet(D) /\ \A e \in D : e.cost \in Nat
           /\ Total(D) \in Nat /\ Total(events[p]) \in Nat
           /\ Total(D) <= Total(events[p])
<1>1. IsFiniteSet(events[p]) /\ \A e \in events[p] : e.cost \in Nat
    BY EventTyped DEF OwnersOK
<1>2. IsFiniteSet(D)
    BY <1>1, FS_Subset
<1> QED BY <1>1, <1>2, TotalRemove, TotalGrows

\* What Charge adds to a pool.
ChargeFor(r, p) == [by |-> r, left |-> Interval[p], cost |-> CostOf(r, p)]

LEMMA CostStays ==
    ASSUME NEW r \in Requests, NEW p \in Pools, request'[r].of = request[r].of
    PROVE  CostOf(r, p)' = CostOf(r, p)
BY DEF CostOf

\* A request charges only pools it has no charge in yet, and that have room.
LEMMA Charging ==
    ASSUME TypeOK, ChargesOK, OwnersOK, ChargesWithinLimit,
           NEW r \in Requests, NEW S \in SUBSET Remaining(r), Awake(r), Charge(r, S),
           \A p \in S : ~Full(r, p),
           limit' = limit, \A s \in Requests : request'[s].of = request[s].of
    PROVE  /\ OwnersOK' /\ ChargesWithinLimit'
           /\ \A p \in Pools :
                IF p \in S
                THEN /\ events'[p] = events[p] \union {ChargeFor(r, p)}
                     /\ ChargeFor(r, p) \notin events[p]
                ELSE events'[p] = events[p]
<1>1. S \in SUBSET Pools
    BY DEF Remaining, Draws
<1>2. \A p \in S : charged[r][p] = 0
    BY <1>1, RemainingIs
<1>3. \A p \in Pools : IF p \in S THEN events'[p] = events[p] \union {ChargeFor(r, p)}
                       ELSE events'[p] = events[p]
    BY DEF Charge, ChargeFor
<1>4. ASSUME NEW p \in S, NEW e \in events[p]
      PROVE  e.by # r
    BY <1>1, <1>2 DEF OwnersOK
<1>5. \A p \in S : /\ ChargeFor(r, p) \notin events[p]
                   /\ ChargeFor(r, p).by = r /\ ChargeFor(r, p).cost = CostOf(r, p)
                   /\ CostOf(r, p) \in Nat
    BY <1>1, <1>4, CostTyped DEF ChargeFor
<1>6. ASSUME NEW p \in Pools
      PROVE  /\ IsFiniteSet(events'[p])
             /\ \A e \in events'[p] : charged'[e.by][p] = 1 /\ e.cost = CostOf(e.by, p)'
             /\ \A e, f \in events'[p] : e.by = f.by => e = f
    <2>1. \A e \in events[p] : /\ charged[e.by][p] = 1 /\ e.cost = CostOf(e.by, p)'
                               /\ e.by \in Requests
        <3>1. \A e \in events[p] : /\ charged[e.by][p] = 1 /\ e.cost = CostOf(e.by, p)
                                   /\ e.by \in Requests
            BY EventTyped DEF OwnersOK
        <3> QED BY <3>1, CostStays
    <2>2. CASE p \notin S
        <3>1. events'[p] = events[p] /\ charged'[r][p] = charged[r][p]
            BY <1>1, <1>3, <2>2, ChargeTyped
        <3>2. \A e \in events[p] : charged'[e.by][p] = 1
            BY <1>1, <2>1, <3>1, ChargeTyped
        <3> QED BY <2>1, <3>1, <3>2 DEF OwnersOK
    <2>3. CASE p \in S
        <3>1. events'[p] = events[p] \union {ChargeFor(r, p)}
            BY <1>3, <2>3
        <3>2. IsFiniteSet(events'[p])
            <4>1. PICK E, c : E = events[p] /\ c = ChargeFor(r, p)
                OBVIOUS
            <4>2. IsFiniteSet(E)
                BY <4>1 DEF OwnersOK
            <4>3. IsFiniteSet(E \union {c})
                BY <4>2, FS_AddElement
            <4> QED BY <3>1, <4>1, <4>3
        <3>3. charged'[r][p] = 1
            BY <1>1, <1>2, <2>3, ChargeTyped
        <3>4. \A e \in events[p] : charged'[e.by][p] = 1
            BY <1>1, <1>4, <2>1, <2>3, ChargeTyped
        <3>5. PICK c : c = ChargeFor(r, p)
            OBVIOUS
        <3>6. c.by = r /\ c.cost = CostOf(r, p)'
            BY <1>5, <2>3, <3>5, CostStays
        <3>7. \A e, f \in events[p] : e.by = f.by => e = f
            BY DEF OwnersOK
        <3>8. \A e \in events'[p] : e \in events[p] \/ e = c
            BY <3>1, <3>5
        <3>9. \A e \in events'[p] : charged'[e.by][p] = 1 /\ e.cost = CostOf(e.by, p)'
            BY <2>1, <3>3, <3>4, <3>6, <3>8
        <3>10. \A e, f \in events'[p] : e.by = f.by => e = f
            BY <1>4, <2>3, <3>6, <3>7, <3>8
        <3> QED BY <3>2, <3>9, <3>10
    <2> QED BY <2>2, <2>3
<1>7. ASSUME NEW p \in Pools
      PROVE  Total(events'[p]) <= limit'[p]
    <2>1. /\ IsFiniteSet(events[p]) /\ (\A e \in events[p] : e.cost \in Nat)
          /\ Total(events[p]) \in Nat /\ Total(events[p]) <= limit[p]
        BY SumsTyped DEF ChargesWithinLimit
    <2>2. CASE p \notin S
        BY <1>3, <2>1, <2>2
    <2>3. CASE p \in S
        <3>1. Total(events[p] \union {ChargeFor(r, p)}) = Total(events[p]) + CostOf(r, p)
            BY <1>5, <2>1, <2>3, TotalAdd
        <3>2. Used(p) >= Total(events[p]) /\ Used(p) \in Nat
            <4>1. auth[p].value \in Nat
                BY DEF TypeOK
            <4>2. Max({Total(events[p]), auth[p].value}) \in Nat
                  /\ Max({Total(events[p]), auth[p].value}) >= Total(events[p])
                <5> DEFINE m == IF auth[p].value >= Total(events[p]) THEN auth[p].value
                                ELSE Total(events[p])
                <5>1. m \in {Total(events[p]), auth[p].value}
                      /\ \A n \in {Total(events[p]), auth[p].value} : n <= m
                    BY <2>1, <4>1
                <5>2. PICK x \in {Total(events[p]), auth[p].value} :
                          /\ x = Max({Total(events[p]), auth[p].value})
                          /\ \A n \in {Total(events[p]), auth[p].value} : n <= x
                    <6> HIDE DEF m
                    <6> QED BY <5>1, Zenon DEF Max
                <5> QED BY <2>1, <4>1, <5>2
            <4> QED BY <2>1, <4>2 DEF Used, Total
        <3>3. ~(Used(p) + CostOf(r, p) > limit[p])
            BY <2>3 DEF Full
        <3>4. limit[p] \in Nat
            BY Parameters DEF TypeOK
        <3>5. Total(events[p]) + CostOf(r, p) <= limit[p]
            BY <1>5, <2>1, <2>3, <3>2, <3>3, <3>4
        <3> QED BY <1>3, <2>3, <3>1, <3>5
    <2> QED BY <2>2, <2>3
<1>8. OwnersOK'
    BY <1>6 DEF OwnersOK
<1>9. ChargesWithinLimit'
    BY <1>7 DEF ChargesWithinLimit
<1> QED BY <1>3, <1>5, <1>8, <1>9

\* Half a second makes every charge that stays younger by one, and changes
\* nothing else of it.
LEMMA Pruning ==
    ASSUME TypeOK, OwnersOK, NEW p \in Pools
    PROVE  /\ \A x \in Pruned(p) : \E e \in events[p] :
                 x.by = e.by /\ x.cost = e.cost /\ x.left = e.left - 1 /\ e.left > 1
           /\ \A e \in events[p] : e.left > 1 =>
                 \E x \in Pruned(p) : x.by = e.by /\ x.cost = e.cost /\ x.left = e.left - 1
           /\ \A x, y \in Pruned(p) : x.by = y.by => x = y
           /\ IsFiniteSet(Pruned(p))
           /\ \A x \in Pruned(p) : x.cost \in Nat /\ x.left \in Nat
<1> DEFINE Younger(e) == [e EXCEPT !.left = e.left - 1]
           Stay == {e \in events[p] : e.left > 1}
<1>1. Pruned(p) = {Younger(e) : e \in Stay}
    BY DEF Pruned
<1>2. ASSUME NEW e \in events[p], e.left > 1
      PROVE  /\ Younger(e).by = e.by /\ Younger(e).cost = e.cost /\ Younger(e).left = e.left - 1
             /\ e.cost \in Nat /\ e.left - 1 \in Nat
    BY <1>2, EventTyped
<1>3. \A e \in Stay : /\ Younger(e).by = e.by /\ Younger(e).cost = e.cost
                      /\ Younger(e).left = e.left - 1
                      /\ e.cost \in Nat /\ e.left - 1 \in Nat
    BY <1>2
<1> HIDE DEF Younger
<1>4. \A x \in Pruned(p) : \E e \in Stay : x = Younger(e)
    BY <1>1
<1>5. \A e \in Stay : Younger(e) \in Pruned(p)
    BY <1>1
<1>6. IsFiniteSet(Stay)
    BY FS_Subset DEF OwnersOK
<1>7. IsFiniteSet(Pruned(p))
    <2> DEFINE f == [e \in Stay |-> Younger(e)]
    <2>1. f \in Surjection(Stay, Pruned(p))
        BY <1>4, <1>5 DEF Surjection
    <2> HIDE DEF f, Stay
    <2> QED BY <1>6, <2>1, FS_Surjection
<1>8. \A x, y \in Pruned(p) : x.by = y.by => x = y
    <2>1. \A e, f \in Stay : e.by = f.by => e = f
        BY DEF OwnersOK
    <2> QED BY <1>3, <1>4, <2>1
<1>9. \A e \in Stay : e \in events[p] /\ e.left > 1
    OBVIOUS
<1>10. \A e \in events[p] : e.left > 1 => e \in Stay
    OBVIOUS
<1> HIDE DEF Stay
<1> QED BY <1>3, <1>4, <1>5, <1>7, <1>8, <1>9, <1>10

LEMMA OwnersAge ==
    ASSUME TypeOK, OwnersOK, ChargesWithinLimit, Tick
    PROVE  OwnersOK' /\ ChargesWithinLimit'
<1>1. \A p \in Pools : events'[p] = Pruned(p)
    BY DEF Tick
<1>2. charged' = charged /\ limit' = limit
    BY DEF Tick
<1>3. \A r \in Requests, p \in Pools : CostOf(r, p)' = CostOf(r, p)
    <2>1. \A r \in Requests : request[r] \in [at : Stages, of : Endpoints, wake : Nat]
        BY DEF TypeOK
    <2>2. \A r \in Requests : request'[r].of = request[r].of
        BY <2>1 DEF Tick
    <2> QED BY <2>2, CostStays
<1>4. ASSUME NEW p \in Pools
      PROVE  /\ IsFiniteSet(events'[p])
             /\ \A e \in events'[p] : charged'[e.by][p] = 1 /\ e.cost = CostOf(e.by, p)'
             /\ \A e, f \in events'[p] : e.by = f.by => e = f
    <2>1. \A e \in events'[p] : charged'[e.by][p] = 1 /\ e.cost = CostOf(e.by, p)'
        <3>1. ASSUME NEW e \in events'[p]
              PROVE  charged'[e.by][p] = 1 /\ e.cost = CostOf(e.by, p)'
            <4>1. PICK x \in events[p] : e.by = x.by /\ e.cost = x.cost
                BY <1>1, Pruning
            <4>2. x.by \in Requests /\ charged[x.by][p] = 1 /\ x.cost = CostOf(x.by, p)
                BY EventTyped DEF OwnersOK
            <4> QED BY <1>2, <1>3, <4>1, <4>2
        <3> QED BY <3>1
    <2> QED BY <1>1, <2>1, Pruning
<1>5. ASSUME NEW p \in Pools
      PROVE  Total(events'[p]) <= limit'[p]
    <2>1. IsFiniteSet(events[p]) /\ (\A e \in events[p] : e.cost \in Nat) /\ Total(events[p]) \in Nat
        BY SumsTyped
    <2>2. /\ IsFiniteSet(Pruned(p)) /\ \A x \in Pruned(p) : x.cost \in Nat
          /\ \A x, y \in Pruned(p) : x.by = y.by => x = y
        BY Pruning
    <2>3. \A x \in Pruned(p) : \E e \in events[p] : e.by = x.by /\ x.cost <= e.cost
        <3>1. ASSUME NEW x \in Pruned(p)
              PROVE  \E e \in events[p] : e.by = x.by /\ x.cost <= e.cost
            <4>1. PICK e \in events[p] : x.by = e.by /\ x.cost = e.cost
                BY Pruning
            <4> QED BY <2>1, <4>1
        <3> QED BY <3>1
    <2>4. Total(Pruned(p)) <= Total(events[p])
        <3>1. \A e \in Pruned(p) \union events[p] : e.cost \in Nat
            BY <2>1, <2>2
        <3> QED BY <2>1, <2>2, <2>3, <3>1, TotalPaired
    <2>5. Total(Pruned(p)) \in Nat /\ limit[p] \in Nat
        BY <2>2, TotalRemove, Parameters DEF TypeOK
    <2> QED BY <1>1, <1>2, <2>1, <2>4, <2>5 DEF ChargesWithinLimit
<1>6. OwnersOK'
    BY <1>4 DEF OwnersOK
<1> QED BY <1>5, <1>6 DEF ChargesWithinLimit

-----------------------------------------------------------------------------
(* Where requests wait *)

LEMMA RanksKnown ==
    /\ Rank["weight"] = 1 /\ Rank["raw"] = 2 /\ Rank["orders"] = 3
    /\ Rank["connections"] = 4 /\ Rank["messages"] = 5
BY DEF Rank

\* A request that draws on the weight or the raw pool draws on both where there
\* are both.
LEMMA DrawsKnown ==
    ASSUME TypeOK, NEW r \in Requests
    PROVE  /\ \/ /\ Draws(r) \subseteq {"weight", "raw", "orders"}
                 /\ {"weight", "raw"} \intersect Pools \subseteq Draws(r)
              \/ Draws(r) \subseteq {"connections"}
              \/ Draws(r) \subseteq {"messages"}
           /\ Draws(r) \subseteq Pools
<1>1. request[r].of \in Endpoint
    BY RateLimiterAssumption DEF TypeOK
<1>2. request[r].of.draws \in {{"weight", "raw"}, {"weight", "raw", "orders"},
                               {"connections"}, {"messages"}}
    BY <1>1 DEF Endpoint
<1> QED BY <1>2 DEF Draws

LEMMA RawAtLeast ==
    ASSUME NEW k \in Nat, RoomFor(k), "raw" \in Pools, "weight" \in Pools
    PROVE  /\ k * Cap["weight"] \in Nat /\ k * Cap["weight"] < Limit["raw"]
           /\ Interval["raw"] <= k * Interval["weight"]
BY Parameters DEF RoomFor

\* A request that goes on has not yet passed any of the safe pools it draws on.
LEMMA SafeRemain ==
    ASSUME TypeOK, ChargesOK, WaitsOK, RoomOK, NEW r \in Requests, Awake(r),
           NEW p \in SafePools, p \in Draws(r)
    PROVE  p \in Remaining(r)
<1>1. p \in Pools
    BY DEF SafePools
<1>2. CASE request[r].at \notin Pools
    BY <1>1, <1>2, RemainingIs
<1>3. CASE request[r].at \in Pools
    <2>1. request[r].at \in Draws(r) /\ request[r].at # "orders"
        BY <1>3 DEF WaitsOK
    <2>2. p = "weight" /\ request[r].at = "raw" => FALSE
        BY <1>3 DEF SafePools, RoomOK
    <2>3. Rank[p] >= Rank[request[r].at]
        BY <2>1, <2>2, DrawsKnown, RanksKnown
    <2> QED BY <2>3 DEF Remaining
<1> QED BY <1>2, <1>3

\* Where the request of a step is after it.
LEMMA MovesTo ==
    ASSUME TypeOK, NEW r \in Requests
    PROVE  /\ ParkForBan(r) => request'[r].at = "gate"
           /\ Admit(r) => request'[r].at = "sent"
           /\ RestResponds(r) \/ WsApiResponds(r) => request'[r].at = "answered"
           /\ ParkForBan(r) \/ Admit(r) \/ RestResponds(r) \/ WsApiResponds(r) =>
                 /\ request'[r].of = request[r].of
                 /\ \A s \in Requests \ {r} : request'[s] = request[s]
<1>1. request[r].wake \in Nat
    BY DEF TypeOK
<1>2. ASSUME NEW place \in Stages, NEW wake \in Nat,
             request' = [request EXCEPT ![r] = [request[r] EXCEPT !.at = place, !.wake = wake]]
      PROVE  /\ request'[r].at = place /\ request'[r].of = request[r].of
             /\ \A s \in Requests \ {r} : request'[s] = request[s]
    BY <1>2, RequestMoves
<1>3. "gate" \in Stages /\ "sent" \in Stages /\ "answered" \in Stages
    BY StagesKnown
<1>4. ASSUME ParkForBan(r)
      PROVE  /\ request'[r].at = "gate" /\ request'[r].of = request[r].of
             /\ \A s \in Requests \ {r} : request'[s] = request[s]
    BY <1>2, <1>3, <1>4, ParkMoves
<1>5. ASSUME Admit(r)
      PROVE  /\ request'[r].at = "sent" /\ request'[r].of = request[r].of
             /\ \A s \in Requests \ {r} : request'[s] = request[s]
    BY <1>1, <1>2, <1>3, <1>5, AdmitMoves
<1>6. ASSUME RestResponds(r) \/ WsApiResponds(r)
      PROVE  /\ request'[r].at = "answered" /\ request'[r].of = request[r].of
             /\ \A s \in Requests \ {r} : request'[s] = request[s]
    BY <1>1, <1>2, <1>3, <1>6, AnswerMoves
<1> QED BY <1>4, <1>5, <1>6

LEMMA WaitsPreserved ==
    ASSUME TypeOK, WaitsOK, [Next]_vars
    PROVE  WaitsOK'
<1>0. \A r \in Requests : request[r] \in [at : Stages, of : Endpoints, wake : Nat]
    BY DEF TypeOK
<1>1. ASSUME NEW r \in Requests, NEW place \in Stages, NEW wake \in Nat,
             request' = [request EXCEPT ![r] = [request[r] EXCEPT !.at = place, !.wake = wake]],
             place \in Pools => place \in Draws(r) \ {"orders"}
      PROVE  WaitsOK'
    <2>1. /\ request'[r].at = place /\ request'[r].of = request[r].of
          /\ \A s \in Requests \ {r} : request'[s] = request[s]
        BY <1>1, RequestMoves
    <2>2. \A s \in Requests : Draws(s)' = Draws(s)
        BY <2>1, DrawsStay
    <2> QED BY <1>1, <2>1, <2>2 DEF WaitsOK
<1>2. ASSUME NEW r \in Requests, ParkForBan(r)
      PROVE  WaitsOK'
    BY <1>1, <1>2, ParkMoves, StagesKnown
<1>3. ASSUME NEW r \in Requests, Admit(r)
      PROVE  WaitsOK'
    BY <1>0, <1>1, <1>3, AdmitMoves, StagesKnown
<1>4. ASSUME NEW r \in Requests, Refuse(r)
      PROVE  WaitsOK'
    <2>1. PICK p \in Pools :
             /\ p \in Remaining(r)
             /\ \/ request' = [request EXCEPT ![r] =
                                 [request[r] EXCEPT !.at = "raised", !.wake = request[r].wake]]
                \/ /\ p # "orders"
                   /\ request' = [request EXCEPT ![r] =
                                    [request[r] EXCEPT !.at = p, !.wake = BlockedWait(p)]]
        BY <1>4, RefuseMoves
    <2>2. p \in Draws(r) /\ p \in Stages /\ BlockedWait(p) \in Nat
        BY <2>1, WaitIsShort, StagesKnown, Parameters DEF Remaining
    <2>3. "raised" \in Stages /\ "raised" \notin Pools /\ request[r].wake \in Nat
        BY <1>0, StagesKnown
    <2> HIDE DEF BlockedWait
    <2> QED BY <1>1, <2>1, <2>2, <2>3
<1>5. ASSUME NEW r \in Requests, RestResponds(r) \/ WsApiResponds(r)
      PROVE  WaitsOK'
    BY <1>0, <1>1, <1>5, AnswerMoves, StagesKnown
<1>6. CASE Tick
    <2>1. \A r \in Requests : request'[r].at = request[r].at /\ request'[r].of = request[r].of
        BY <1>0, <1>6 DEF Tick
    <2> QED BY <2>1, DrawsStay DEF WaitsOK
<1>7. CASE UNCHANGED vars
    <2>1. \A r \in Requests : request'[r] = request[r]
        BY <1>7 DEF vars
    <2> QED BY <2>1, DrawsStay DEF WaitsOK
<1> QED BY <1>2, <1>3, <1>4, <1>5, <1>6, <1>7 DEF Next

-----------------------------------------------------------------------------
(* The server's windows *)

\* A sent request is counted, and still charged.
LEMMA ServerCounts ==
    ASSUME TypeOK, ChargesOK, OwnersOK, ChargesWithinLimit, WaitsOK, RoomOK, ServerOK,
           NEW r \in Requests, Admit(r), \A s \in Requests : request'[s].of = request[s].of
    PROVE  ServerOK'
<1>1. /\ Awake(r) /\ Charge(r, Remaining(r)) /\ limit' = limit
      /\ \A p \in Remaining(r) : ~Full(r, p)
    BY DEF Admit, Refused
<1>2. \A p \in Pools :
         IF p \in Remaining(r)
         THEN /\ events'[p] = events[p] \union {ChargeFor(r, p)}
              /\ ChargeFor(r, p) \notin events[p]
         ELSE events'[p] = events[p]
    BY <1>1, Charging
<1>3. ASSUME NEW p \in SafePools
      PROVE  server'[p].count <= Total(SinceRoll(p)')
    <2>1. /\ p \in Pools /\ server[p].count \in Nat /\ server[p].left \in 1..Interval[p]
          /\ server[p] \in [count : Nat, left : Nat] /\ Interval[p] \in Nat
        BY Parameters DEF TypeOK, SafePools
    <2>2. SinceRoll(p) \in SUBSET events[p]
        BY DEF SinceRoll
    <2>3. /\ IsFiniteSet(SinceRoll(p)) /\ \A e \in SinceRoll(p) : e.cost \in Nat
          /\ Total(SinceRoll(p)) \in Nat
        BY <2>1, <2>2, SumsTyped
    <2>4. server[p].count <= Total(SinceRoll(p))
        BY DEF ServerOK
    <2>5. CASE p \in Draws(r)
        <3>1. p \in Remaining(r)
            BY <1>1, <2>5, SafeRemain
        <3>2. CostOf(r, p) \in Nat
            BY <2>1, CostTyped
        <3>3. server'[p].count = server[p].count + CostOf(r, p) /\ server'[p].left = server[p].left
            BY <2>1, <2>5, <3>2 DEF Admit, Count
        <3>4. SinceRoll(p)' = SinceRoll(p) \union {ChargeFor(r, p)}
            <4>1. ChargeFor(r, p).left >= server[p].left
                BY <2>1 DEF ChargeFor
            <4>2. SinceRoll(p)' = {e \in events'[p] : e.left >= server[p].left}
                BY <3>3 DEF SinceRoll
            <4>3. events'[p] = events[p] \union {ChargeFor(r, p)}
                BY <1>2, <2>1, <3>1
            <4> QED BY <4>1, <4>2, <4>3 DEF SinceRoll
        <3>5. ChargeFor(r, p) \notin SinceRoll(p) /\ ChargeFor(r, p).cost = CostOf(r, p)
            BY <1>2, <2>1, <2>2, <3>1 DEF ChargeFor
        <3>6. Total(SinceRoll(p) \union {ChargeFor(r, p)}) = Total(SinceRoll(p)) + CostOf(r, p)
            BY <2>3, <3>2, <3>5, TotalAdd
        <3> QED BY <2>1, <2>3, <2>4, <3>2, <3>3, <3>4, <3>6
    <2>6. CASE p \notin Draws(r)
        <3>1. events'[p] = events[p]
            BY <1>2, <2>1, <2>6 DEF Remaining
        <3>2. server'[p] = server[p]
            BY <2>1, <2>6 DEF Admit, Count
        <3>3. SinceRoll(p)' = SinceRoll(p)
            BY <3>1, <3>2 DEF SinceRoll
        <3> QED BY <2>4, <3>2, <3>3
    <2> QED BY <2>5, <2>6
<1> QED BY <1>3 DEF ServerOK

\* What is charged and not sent makes the bound no smaller.
LEMMA ServerUncounted ==
    ASSUME TypeOK, OwnersOK, OwnersOK', TypeOK', ServerOK, server' = server,
           \A p \in Pools : events[p] \subseteq events'[p]
    PROVE  ServerOK'
<1>1. ASSUME NEW p \in SafePools
      PROVE  server'[p].count <= Total(SinceRoll(p)')
    <2>1. p \in Pools /\ server[p].count \in Nat
        BY DEF TypeOK, SafePools
    <2>2. SinceRoll(p)' \in SUBSET events'[p] /\ SinceRoll(p) \in SUBSET SinceRoll(p)'
        BY <2>1 DEF SinceRoll
    <2>3. IsFiniteSet(SinceRoll(p)') /\ (\A e \in SinceRoll(p)' : e.cost \in Nat)
        <3>1. IsFiniteSet(events'[p])
            BY <2>1 DEF OwnersOK
        <3>2. \A e \in events'[p] : e.cost \in Nat
            BY <2>1 DEF TypeOK
        <3> QED BY <2>2, <3>1, <3>2, FS_Subset
    <2>4. /\ Total(SinceRoll(p)) <= Total(SinceRoll(p)')
          /\ Total(SinceRoll(p)') \in Nat
        BY <2>2, <2>3, TotalGrows, TotalRemove
    <2>5. Total(SinceRoll(p)) \in Nat
        BY <2>1, SumsTyped DEF SinceRoll
    <2>6. server[p].count <= Total(SinceRoll(p))
        BY DEF ServerOK
    <2> QED BY <2>1, <2>4, <2>5, <2>6
<1> QED BY <1>1 DEF ServerOK

\* While the server's window lasts, the charges of its requests do.
LEMMA ServerRolls ==
    ASSUME TypeOK, OwnersOK, ServerOK, Tick
    PROVE  ServerOK'
<1>1. ASSUME NEW p \in SafePools
      PROVE  server'[p].count <= Total(SinceRoll(p)')
    <2>1. /\ p \in Pools /\ server[p].count \in Nat /\ server[p].left \in Nat
          /\ server[p].left >= 1 /\ server[p] \in [count : Nat, left : Nat]
        BY Parameters DEF TypeOK, SafePools
    <2>2. events'[p] = Pruned(p)
        BY <2>1 DEF Tick
    <2>3. /\ IsFiniteSet(Pruned(p)) /\ \A x \in Pruned(p) : x.cost \in Nat /\ x.left \in Nat
          /\ \A x, y \in Pruned(p) : x.by = y.by => x = y
        BY <2>1, Pruning
    <2>4. SinceRoll(p)' \in SUBSET Pruned(p)
        BY <2>2 DEF SinceRoll
    <2>5. IsFiniteSet(SinceRoll(p)') /\ \A x \in SinceRoll(p)' : x.cost \in Nat
        BY <2>3, <2>4, FS_Subset
    <2>6. Total(SinceRoll(p)') \in Nat
        BY <2>5, TotalRemove
    <2>7. CASE server[p].left = 1
        <3>1. server'[p].count = 0
            BY <2>1, <2>7 DEF Tick
        <3> QED BY <2>6, <3>1
    <2>8. CASE server[p].left # 1
        <3>1. server'[p].count = server[p].count /\ server'[p].left = server[p].left - 1
            BY <2>1, <2>8 DEF Tick
        <3>2. SinceRoll(p) \in SUBSET events[p]
            BY DEF SinceRoll
        <3>3. /\ IsFiniteSet(SinceRoll(p)) /\ \A e \in SinceRoll(p) : e.cost \in Nat
              /\ Total(SinceRoll(p)) \in Nat
            BY <2>1, <3>2, SumsTyped
        <3>4. \A e, f \in SinceRoll(p) : e.by = f.by => e = f
            BY <2>1, <3>2 DEF OwnersOK
        <3>5. ASSUME NEW e \in SinceRoll(p)
              PROVE  \E x \in SinceRoll(p)' : x.by = e.by /\ e.cost <= x.cost
            <4>1. e \in events[p] /\ e.left >= server[p].left /\ e.left \in Nat /\ e.left > 1
                BY <2>1, <2>8, <3>2, EventTyped DEF SinceRoll
            <4>2. PICK x \in Pruned(p) : x.by = e.by /\ x.cost = e.cost /\ x.left = e.left - 1
                BY <2>1, <4>1, Pruning
            <4>3. x \in SinceRoll(p)'
                BY <2>1, <2>2, <3>1, <4>1, <4>2 DEF SinceRoll
            <4> QED BY <2>3, <4>2, <4>3
        <3>6. Total(SinceRoll(p)) <= Total(SinceRoll(p)')
            <4>1. PICK D : D = SinceRoll(p)'
                OBVIOUS
            <4>2. \A e \in SinceRoll(p) \union D : e.cost \in Nat
                BY <2>5, <3>3, <4>1
            <4>3. \A e \in SinceRoll(p) : \E x \in D : x.by = e.by /\ e.cost <= x.cost
                BY <3>5, <4>1
            <4>4. Total(SinceRoll(p)) <= Total(D)
                BY <2>5, <3>3, <3>4, <4>1, <4>2, <4>3, TotalPaired
            <4> QED BY <4>1, <4>4
        <3>7. server[p].count <= Total(SinceRoll(p))
            BY DEF ServerOK
        <3> QED BY <2>1, <2>6, <3>1, <3>3, <3>6, <3>7
    <2> QED BY <2>7, <2>8
<1> QED BY <1>1 DEF ServerOK

-----------------------------------------------------------------------------
(* The raw pool *)

Roomy == RawIsRoomy /\ "raw" \in Pools

\* All raw requests charged are those of k periods.
LEMMA RawBounded ==
    ASSUME TypeOK, OwnersOK, RoomOK, Roomy, NEW k \in Nat, RoomFor(k)
    PROVE  Total(events["raw"]) <= k * Cap["weight"]
<1> DEFINE W == Interval["weight"]
           C == Cap["weight"]
           First(j) == {e \in events["raw"] : e.left <= j * W}
           Bad == {j \in Nat : ~(Total(First(j)) <= j * C)}
<1>1. /\ "raw" \in Pools /\ "weight" \in Pools /\ W \in Nat /\ W > 0 /\ C \in Nat
      /\ Interval["raw"] \in Nat
    BY Parameters DEF Roomy, RawIsRoomy
<1>2. \A D \in SUBSET events["raw"] :
         IsFiniteSet(D) /\ (\A e \in D : e.cost \in Nat) /\ Total(D) \in Nat
    BY <1>1, SumsTyped
<1>3. \A e \in events["raw"] : e.left \in Nat /\ e.left \in 1..Interval["raw"]
    BY <1>1, EventTyped
<1>4. ASSUME NEW j \in Bad, \A i \in Bad : j <= i
      PROVE  FALSE
    <2>1. CASE j = 0
        <3>1. First(0) = {}
            <4>1. 0 * W = 0
                BY <1>1
            <4> QED BY <1>3, <4>1
        <3>2. Total(First(0)) = 0
            BY <3>1, TotalStep, FS_EmptySet
        <3>3. 0 * C = 0
            BY <1>1
        <3> QED BY <2>1, <3>2, <3>3
    <2>2. CASE j # 0
        <3>1. PICK i \in Nat : j = i + 1
            BY <2>2
        <3>2. i \notin Bad
            BY <1>4, <3>1
        <3>3. /\ j * W = i * W + W /\ j * C = i * C + C
              /\ i * W \in Nat /\ i * C \in Nat
            <4> HIDE DEF W, C, Bad
            <4>1. \A n \in Nat : (i + 1) * n = i * n + n /\ i * n \in Nat
                OBVIOUS
            <4> QED BY <1>1, <3>1, <4>1
        <3>4. Total(First(i)) <= i * C
            BY <3>2
        <3>5. First(j) = First(i) \union RawAfter(i * W)
            BY <1>1, <1>3, <3>3 DEF RawAfter
        <3>6. Total(RawAfter(i * W)) <= C
            BY <3>3 DEF RoomOK, Roomy
        <3>7. /\ First(i) \in SUBSET events["raw"] /\ First(j) \in SUBSET events["raw"]
              /\ RawAfter(i * W) \in SUBSET events["raw"]
            BY DEF RawAfter
        <3> HIDE DEF First, W, C
        <3>8. Total(First(i) \union RawAfter(i * W)) <= Total(First(i)) + Total(RawAfter(i * W))
            BY <1>2, <3>7, TotalOfUnion
        <3>9. /\ Total(First(i)) \in Nat /\ Total(RawAfter(i * W)) \in Nat
              /\ Total(First(j)) \in Nat
            BY <1>2, <3>7
        <3>10. Total(First(j)) <= j * C
            BY <1>1, <3>3, <3>4, <3>5, <3>6, <3>8, <3>9
        <3> QED BY <3>10
    <2> QED BY <2>1, <2>2
<1>5. Bad = {}
    <2> HIDE DEF Bad
    <2>1. Bad \in SUBSET Nat
        BY DEF Bad
    <2> QED BY <1>4, <2>1, LeastNat
<1>6. Total(First(k)) <= k * C
    BY <1>5
<1>7. First(k) = events["raw"]
    <2>1. Interval["raw"] <= k * W /\ k * W \in Nat
        BY <1>1 DEF RoomFor
    <2>2. \A e \in events["raw"] : e.left <= k * W
        BY <1>1, <1>3, <2>1
    <2> QED BY <2>2
<1> QED BY <1>6, <1>7

\* The raw pool is never full.
LEMMA RawAdmits ==
    ASSUME TypeOK, OwnersOK, RoomOK, Roomy, NEW r \in Requests
    PROVE  ~Full(r, "raw")
<1>1. PICK k \in Nat : RoomFor(k)
    BY DEF Roomy, RawIsRoomy
<1>2. /\ "raw" \in Pools /\ "weight" \in Pools
      /\ k * Cap["weight"] \in Nat /\ k * Cap["weight"] < Limit["raw"]
    BY <1>1, RawAtLeast DEF Roomy, RawIsRoomy
<1>3. limit["raw"] >= Limit["raw"] /\ limit["raw"] \in Nat /\ Limit["raw"] \in Nat
    BY <1>2, Parameters, RateLimiterAssumption DEF TypeOK
<1>4. /\ Total(events["raw"]) <= k * Cap["weight"] /\ Total(events["raw"]) \in Nat
      /\ auth["raw"].value <= k * Cap["weight"] /\ auth["raw"].value \in Nat
    BY <1>1, <1>2, RawBounded, SumsTyped DEF TypeOK, RoomOK, Roomy
<1>5. Used("raw") \in Nat /\ Used("raw") <= k * Cap["weight"]
    <2>1. PICK x \in {Total(events["raw"]), auth["raw"].value} :
              x = Max({Total(events["raw"]), auth["raw"].value})
        <3> DEFINE m == IF auth["raw"].value >= Total(events["raw"]) THEN auth["raw"].value
                        ELSE Total(events["raw"])
        <3>1. m \in {Total(events["raw"]), auth["raw"].value}
              /\ \A n \in {Total(events["raw"]), auth["raw"].value} : n <= m
            BY <1>4
        <3> HIDE DEF m
        <3> QED BY <3>1, Zenon DEF Max
    <2>2. Used("raw") \in {Total(events["raw"]), x}
        BY <2>1 DEF Used, Total
    <2> QED BY <1>4, <2>1, <2>2
<1>6. CostOf(r, "raw") = 1
    BY DEF CostOf
<1> QED BY <1>2, <1>3, <1>5, <1>6 DEF Full

\* What is charged to the raw pool is charged to the weight pool in the same
\* step.
LEMMA RawCharged ==
    ASSUME TypeOK, ChargesOK, OwnersOK, ChargesWithinLimit, WaitsOK, RoomOK, TypeOK',
           NEW r \in Requests, NEW S \in SUBSET Remaining(r), Awake(r), Charge(r, S),
           \A p \in S : ~Full(r, p),
           limit' = limit, \A s \in Requests : request'[s].of = request[s].of,
           Roomy => ("raw" \in S => "weight" \in S),
           Roomy => \A s \in Requests : request'[s].at # "raw",
           header' = header, auth' = auth
    PROVE  RoomOK'
<1> SUFFICES ASSUME Roomy
             PROVE  /\ \A e \in events'["raw"] : e.left > Interval["raw"] - Interval["weight"] =>
                          \E x \in events'["weight"] : Together(e, x)
                    /\ \A t \in Nat : Total(RawAfter(t)') <= Cap["weight"]
    BY DEF RoomOK, Roomy, Together
<1> DEFINE D == Interval["raw"] - Interval["weight"]
<1>1. /\ "raw" \in Pools /\ "weight" \in Pools
      /\ Interval["raw"] \in Nat /\ Interval["weight"] \in Nat /\ Interval["weight"] > 0
      /\ Cap["weight"] \in Nat
    BY Parameters DEF Roomy, RawIsRoomy
<1>2. /\ OwnersOK' /\ ChargesWithinLimit'
      /\ \A p \in Pools : IF p \in S
                          THEN /\ events'[p] = events[p] \union {ChargeFor(r, p)}
                               /\ ChargeFor(r, p) \notin events[p]
                          ELSE events'[p] = events[p]
    BY Charging
<1>3. \A e \in events["raw"] : e.left > D => \E x \in events["weight"] : Together(e, x)
    BY DEF RoomOK, Roomy
<1>4. ASSUME NEW e \in events'["raw"], e.left > D
      PROVE  \E x \in events'["weight"] : Together(e, x)
    <2>1. CASE e \in events["raw"]
        BY <1>1, <1>2, <1>3, <1>4, <2>1
    <2>2. CASE e \notin events["raw"]
        <3>1. "raw" \in S /\ e = ChargeFor(r, "raw")
            BY <1>1, <1>2, <2>2
        <3>2. ChargeFor(r, "weight") \in events'["weight"]
            BY <1>1, <1>2, <3>1
        <3>3. Together(ChargeFor(r, "raw"), ChargeFor(r, "weight"))
            BY <1>1 DEF Together, ChargeFor
        <3> QED BY <3>1, <3>2, <3>3
    <2> QED BY <2>1, <2>2
<1>5. Total({e \in events'["raw"] : e.left > D}) <= Cap["weight"]
    <2> DEFINE Top == {e \in events'["raw"] : e.left > D}
    <2>1. /\ IsFiniteSet(events'["raw"]) /\ IsFiniteSet(events'["weight"])
          /\ (\A e \in events'["raw"] : e.cost = 1 /\ e.by \in Requests)
          /\ (\A e \in events'["weight"] : e.cost \in Nat /\ e.cost >= 1)
          /\ \A e, f \in events'["raw"] : e.by = f.by => e = f
        <3>1. \A e \in events'["raw"] : e.by \in Requests /\ e.cost = CostOf(e.by, "raw")'
            BY <1>1, <1>2 DEF OwnersOK, TypeOK
        <3>2. \A e \in events'["weight"] : e.by \in Requests /\ e.cost = CostOf(e.by, "weight")'
            BY <1>1, <1>2 DEF OwnersOK, TypeOK
        <3>3. \A s \in Requests : CostOf(s, "raw")' = 1
            BY DEF CostOf
        <3>4. \A s \in Requests : CostOf(s, "weight")' \in Nat /\ CostOf(s, "weight")' >= 1
            <4>1. \A s \in Requests : request'[s].of \in Endpoints
                BY DEF TypeOK
            <4> QED BY <4>1, Parameters DEF CostOf
        <3> QED BY <1>1, <1>2, <3>1, <3>2, <3>3, <3>4 DEF OwnersOK
    <2>2. IsFiniteSet(Top)
        BY <2>1, FS_Subset
    <2>3. \A e \in Top : \E x \in events'["weight"] : x.by = e.by /\ e.cost <= x.cost
        BY <1>4, <2>1 DEF Together
    <2>4. Total(Top) <= Total(events'["weight"])
        <3>1. \A e \in Top \union events'["weight"] : e.cost \in Nat
            BY <2>1
        <3>2. \A e, f \in Top : e.by = f.by => e = f
            BY <2>1
        <3> HIDE DEF Top
        <3> QED BY <2>1, <2>2, <2>3, <3>1, <3>2, TotalPaired
    <2>5. Total(Top) \in Nat /\ Total(events'["weight"]) \in Nat
        <3>1. (\A e \in Top : e.cost \in Nat) /\ \A e \in events'["weight"] : e.cost \in Nat
            BY <2>1
        <3> QED BY <2>1, <2>2, <3>1, TotalRemove
    <2>6. Total(events'["weight"]) <= limit'["weight"]
        BY <1>1, <1>2 DEF ChargesWithinLimit
    <2>7. limit'["weight"] <= Cap["weight"] /\ limit'["weight"] \in Nat
        BY <1>1, Parameters, RateLimiterAssumption DEF TypeOK
    <2> HIDE DEF Top
    <2>8. Total(Top) <= Cap["weight"]
        BY <1>1, <2>4, <2>5, <2>6, <2>7
    <2> QED BY <2>8 DEF Top
<1>6. ASSUME NEW t \in Nat
      PROVE  Total(RawAfter(t)') <= Cap["weight"]
    <2>1. RawAfter(t)' = {e \in events'["raw"] : t < e.left /\ e.left <= t + Interval["weight"]}
        BY DEF RawAfter
    <2>2. CASE t >= D
        <3>1. RawAfter(t)' \in SUBSET {e \in events'["raw"] : e.left > D}
            <4>1. \A e \in events'["raw"] : e.left \in Nat
                BY <1>1 DEF TypeOK
            <4> QED BY <1>1, <2>1, <2>2, <4>1
        <3>2. /\ IsFiniteSet({e \in events'["raw"] : e.left > D})
              /\ \A e \in {x \in events'["raw"] : x.left > D} : e.cost \in Nat
            <4>1. IsFiniteSet(events'["raw"]) /\ \A e \in events'["raw"] : e.cost \in Nat
                BY <1>1, <1>2 DEF OwnersOK, TypeOK
            <4> QED BY <4>1, FS_Subset
        <3>3. Total(RawAfter(t)') <= Total({e \in events'["raw"] : e.left > D})
            BY <3>1, <3>2, TotalGrows
        <3>4. IsFiniteSet(RawAfter(t)') /\ \A e \in RawAfter(t)' : e.cost \in Nat
            BY <3>1, <3>2, FS_Subset
        <3>5. /\ Total(RawAfter(t)') \in Nat
              /\ Total({e \in events'["raw"] : e.left > D}) \in Nat
            BY <3>2, <3>4, TotalRemove
        <3> QED BY <1>1, <1>5, <3>3, <3>5
    <2>3. CASE ~(t >= D)
        <3>1. RawAfter(t)' = RawAfter(t)
            <4>1. ChargeFor(r, "raw").left > t + Interval["weight"]
                BY <1>1, <2>3 DEF ChargeFor
            <4>2. \A e : e \in events'["raw"] => e \in events["raw"] \/ e = ChargeFor(r, "raw")
                BY <1>1, <1>2
            <4>3. \A e \in events'["raw"] : e.left <= t + Interval["weight"] => e \in events["raw"]
                <5>1. ASSUME NEW e \in events'["raw"], e = ChargeFor(r, "raw"),
                             e.left <= t + Interval["weight"]
                      PROVE  FALSE
                    <6>1. e.left = Interval["raw"]
                        BY <5>1 DEF ChargeFor
                    <6> QED BY <1>1, <2>3, <5>1, <6>1
                <5> QED BY <4>2, <5>1
            <4>4. events["raw"] \subseteq events'["raw"]
                BY <1>1, <1>2
            <4> QED BY <2>1, <4>3, <4>4 DEF RawAfter
        <3>2. Total(RawAfter(t)) <= Cap["weight"]
            BY DEF RoomOK, Roomy
        <3> QED BY <3>1, <3>2
    <2> QED BY <2>2, <2>3
<1> QED BY <1>4, <1>6

LEMMA RawAges ==
    ASSUME TypeOK, OwnersOK, RoomOK, Tick
    PROVE  RoomOK'
<1> SUFFICES ASSUME Roomy
             PROVE  /\ \A e \in events'["raw"] : e.left > Interval["raw"] - Interval["weight"] =>
                          \E x \in events'["weight"] : Together(e, x)
                    /\ \A t \in Nat : Total(RawAfter(t)') <= Cap["weight"]
                    /\ header'["raw"] = -1 /\ auth'["raw"].value = auth["raw"].value
                    /\ \A r \in Requests : request'[r].at = request[r].at
    BY DEF RoomOK, Roomy, Together
<1>1. /\ "raw" \in Pools /\ "weight" \in Pools
      /\ Interval["raw"] \in Nat /\ Interval["weight"] \in Nat /\ Interval["weight"] > 0
      /\ Cap["weight"] \in Nat
    BY Parameters DEF Roomy, RawIsRoomy
<1>2. events'["raw"] = Pruned("raw") /\ events'["weight"] = Pruned("weight")
    BY <1>1 DEF Tick
<1>3. ASSUME NEW e \in events'["raw"], e.left > Interval["raw"] - Interval["weight"]
      PROVE  \E x \in events'["weight"] : Together(e, x)
    <2>1. PICK f \in events["raw"] : e.by = f.by /\ e.left = f.left - 1
        BY <1>1, <1>2, Pruning
    <2>2. f.left \in Nat /\ f.left > Interval["raw"] - Interval["weight"]
        BY <1>1, <1>3, <2>1, EventTyped
    <2>3. PICK y \in events["weight"] : Together(f, y)
        BY <2>2 DEF RoomOK, Roomy
    <2>4. y.left \in Nat /\ y.left > 1
        BY <1>1, <1>3, <2>1, <2>2, <2>3, EventTyped DEF Together
    <2>5. PICK x \in Pruned("weight") : x.by = y.by /\ x.left = y.left - 1
        BY <1>1, <2>4, Pruning
    <2>6. Together(e, x)
        BY <1>1, <2>1, <2>2, <2>3, <2>4, <2>5 DEF Together
    <2> QED BY <1>2, <2>5, <2>6
<1>4. ASSUME NEW t \in Nat
      PROVE  Total(RawAfter(t)') <= Cap["weight"]
    <2>1. PICK Now : Now = RawAfter(t)'
        OBVIOUS
    <2>2. Now = {x \in Pruned("raw") : t < x.left /\ x.left <= t + Interval["weight"]}
        BY <1>2, <2>1 DEF RawAfter
    <2>3. /\ IsFiniteSet(Pruned("raw")) /\ \A x \in Pruned("raw") : x.cost \in Nat
          /\ \A x, y \in Pruned("raw") : x.by = y.by => x = y
        BY <1>1, Pruning
    <2>4. IsFiniteSet(Now) /\ \A x \in Now : x.cost \in Nat
        BY <2>2, <2>3, FS_Subset
    <2>5. RawAfter(t + 1) \in SUBSET events["raw"]
        BY DEF RawAfter
    <2>6. /\ IsFiniteSet(RawAfter(t + 1)) /\ \A e \in RawAfter(t + 1) : e.cost \in Nat
          /\ Total(RawAfter(t + 1)) \in Nat
        BY <1>1, <2>5, SumsTyped
    <2>7. ASSUME NEW x \in Now
          PROVE  \E e \in RawAfter(t + 1) : e.by = x.by /\ x.cost <= e.cost
        <3>1. x \in Pruned("raw") /\ t < x.left /\ x.left <= t + Interval["weight"]
            BY <2>2
        <3>2. PICK e \in events["raw"] : x.by = e.by /\ x.cost = e.cost /\ x.left = e.left - 1
            BY <1>1, <3>1, Pruning
        <3>3. e.left \in Nat /\ e.cost \in Nat
            BY <1>1, EventTyped
        <3>4. e \in RawAfter(t + 1)
            BY <1>1, <3>1, <3>2, <3>3 DEF RawAfter
        <3> QED BY <3>2, <3>3, <3>4
    <2>8. Total(Now) <= Total(RawAfter(t + 1))
        <3>1. \A e \in Now \union RawAfter(t + 1) : e.cost \in Nat
            BY <2>4, <2>6
        <3>2. \A x, y \in Now : x.by = y.by => x = y
            BY <2>2, <2>3
        <3> QED BY <2>4, <2>6, <2>7, <3>1, <3>2, TotalPaired
    <2>9. Total(RawAfter(t + 1)) <= Cap["weight"]
        BY DEF RoomOK, Roomy
    <2>10. Total(Now) \in Nat
        BY <2>4, TotalRemove
    <2>11. Total(Now) <= Cap["weight"]
        BY <1>1, <2>6, <2>8, <2>9, <2>10
    <2> QED BY <2>1, <2>11
<1>5. header'["raw"] = -1 /\ auth'["raw"].value = auth["raw"].value
    <2>1. auth["raw"] \in [left : Nat, value : Nat]
        BY <1>1 DEF TypeOK
    <2>2. auth'["raw"] = [auth["raw"] EXCEPT !.left = Less(auth["raw"].left)]
        BY <1>1 DEF Tick
    <2>3. auth'["raw"].value = auth["raw"].value
        BY <2>1, <2>2
    <2> QED BY <2>3 DEF Tick, RoomOK, Roomy
<1>6. \A r \in Requests : request'[r].at = request[r].at
    <2>1. \A r \in Requests : request[r] \in [at : Stages, of : Endpoints, wake : Nat]
        BY DEF TypeOK
    <2> QED BY <2>1 DEF Tick
<1> QED BY <1>3, <1>4, <1>5, <1>6

\* A reading of the raw pool is the server's count, and so no more than what
\* k periods admit.
LEMMA RawRead ==
    ASSUME TypeOK, OwnersOK, ServerOK, RoomOK, NEW r \in Requests,
           RestResponds(r) \/ WsApiResponds(r)
    PROVE  RoomOK'
<1> SUFFICES ASSUME Roomy
             PROVE  /\ header'["raw"] = -1
                    /\ \A k \in Nat : RoomFor(k) => auth'["raw"].value <= k * Cap["weight"]
                    /\ \A s \in Requests : request'[s].at # "raw"
    <2>1. events' = events
        BY DEF RestResponds, WsApiResponds
    <2>2. \A t \in Nat : RawAfter(t)' = RawAfter(t)
        BY <2>1 DEF RawAfter
    <2>3. \A t \in Nat : Total(RawAfter(t)') = Total(RawAfter(t))
        BY <2>2
    <2> QED BY <2>1, <2>3 DEF RoomOK, Roomy, Together
<1>1. /\ "raw" \in Pools /\ "raw" \notin Shared
      /\ header["raw"] = -1 /\ header \in [Pools -> Int]
    BY DEF Roomy, RawIsRoomy, RoomOK, TypeOK
<1>2. \A s \in Requests : request'[s].at # "raw"
    <2>1. request'[r].at = "answered" /\ \A s \in Requests \ {r} : request'[s] = request[s]
        BY MovesTo
    <2> QED BY <2>1 DEF RoomOK, Roomy
<1>3. \A k \in Nat : RoomFor(k) => auth["raw"].value <= k * Cap["weight"]
    BY DEF RoomOK, Roomy
<1>4. CASE RestResponds(r)
    <2>1. PICK f \in Readings(r, {"weight", "orders"}) :
              header' = [p \in Pools |-> IF f[p] >= 0 THEN f[p] ELSE header[p]]
        BY <1>4 DEF RestResponds
    <2>2. f["raw"] = -1
        BY <1>1, <2>1 DEF Readings
    <2>3. header'["raw"] = -1
        BY <1>1, <2>1, <2>2
    <2>4. auth'["raw"] = auth["raw"]
        BY <1>1, <1>4, <2>3 DEF RestResponds, Sync
    <2> QED BY <1>2, <1>3, <2>3, <2>4
<1>5. CASE WsApiResponds(r)
    <2>1. PICK f \in Readings(r, {"weight", "raw", "orders"}) : Sync(f)
        BY <1>5 DEF WsApiResponds
    <2>2. f["raw"] = -1 \/ f["raw"] = server["raw"].count
        BY <1>1, <2>1 DEF Readings
    <2>3. \/ auth'["raw"] = auth["raw"]
          \/ auth'["raw"].value = server["raw"].count
        BY <1>1, <2>1, <2>2 DEF Sync
    <2>4. ASSUME NEW k \in Nat, RoomFor(k)
          PROVE  server["raw"].count <= k * Cap["weight"]
        <3>1. server["raw"].count <= Total(SinceRoll("raw"))
            BY <1>1 DEF ServerOK, SafePools, Roomy
        <3>2. /\ Total(SinceRoll("raw")) <= Total(events["raw"])
              /\ Total(SinceRoll("raw")) \in Nat /\ Total(events["raw"]) \in Nat
            BY <1>1, SumsTyped DEF SinceRoll
        <3>3. Total(events["raw"]) <= k * Cap["weight"]
            BY <2>4, RawBounded
        <3>4. server["raw"].count \in Nat /\ k * Cap["weight"] \in Nat
            BY <1>1, Parameters DEF TypeOK, Roomy, RawIsRoomy
        <3> QED BY <3>1, <3>2, <3>3, <3>4
    <2>5. header' = header
        BY <1>5 DEF WsApiResponds
    <2> QED BY <1>1, <1>2, <1>3, <2>3, <2>4, <2>5
<1> QED BY <1>4, <1>5

-----------------------------------------------------------------------------
(* Every step keeps the invariant of the server's limit *)

LEMMA ChargesAndServerStay ==
    ASSUME TypeOK, OwnersOK, ChargesWithinLimit, ServerOK,
           UNCHANGED <<events, server, charged>>, limit' \in {limit, Cap},
           \A r \in Requests : request'[r].of = request[r].of
    PROVE  OwnersOK' /\ ChargesWithinLimit' /\ ServerOK'
<1>1. \A r \in Requests, p \in Pools : CostOf(r, p)' = CostOf(r, p)
    BY CostStays
<1>2. OwnersOK'
    <2>1. \A p \in Pools : \A e \in events[p] : e.by \in Requests
        BY EventTyped
    <2> QED BY <1>1, <2>1 DEF OwnersOK
<1>3. ChargesWithinLimit'
    <2>1. ASSUME NEW p \in Pools
          PROVE  Total(events'[p]) <= limit'[p]
        <3>1. Total(events[p]) <= limit[p] /\ Total(events[p]) \in Nat
            BY SumsTyped DEF ChargesWithinLimit
        <3>2. limit[p] <= Cap[p] /\ limit[p] \in Nat /\ Cap[p] \in Nat
            BY Parameters, RateLimiterAssumption DEF TypeOK
        <3> QED BY <3>1, <3>2
    <2> QED BY <2>1 DEF ChargesWithinLimit
<1>4. ServerOK'
    <2>1. \A p \in SafePools : SinceRoll(p)' = SinceRoll(p)
        BY DEF SinceRoll
    <2>2. \A p \in SafePools : Total(SinceRoll(p)') = Total(SinceRoll(p))
        BY <2>1
    <2> QED BY <2>2 DEF ServerOK
<1> QED BY <1>2, <1>3, <1>4

LEMMA WindowUnmoved ==
    ASSUME WindowInv, UNCHANGED <<events, server, header, auth, charged, limit>>, TypeOK,
           \A r \in Requests : request'[r].of = request[r].of,
           Roomy => \A r \in Requests : request'[r].at # "raw"
    PROVE  OwnersOK' /\ ChargesWithinLimit' /\ ServerOK' /\ RoomOK'
<1>1. OwnersOK' /\ ChargesWithinLimit' /\ ServerOK'
    BY ChargesAndServerStay DEF WindowInv
<1>2. \A t \in Nat : RawAfter(t)' = RawAfter(t)
    BY DEF RawAfter
<1>3. \A t \in Nat : Total(RawAfter(t)') = Total(RawAfter(t))
    BY <1>2
<1>4. RoomOK'
    BY <1>3 DEF RoomOK, Roomy, Together, WindowInv
<1> QED BY <1>1, <1>4

LEMMA WindowPreserved ==
    ASSUME TypeOK, ChargesOK, WindowInv, TypeOK', [Next]_vars
    PROVE  WindowInv'
<1> USE DEF WindowInv
<1>0. /\ WaitsOK'
      /\ \A r \in Requests : request[r] \in [at : Stages, of : Endpoints, wake : Nat]
      /\ Roomy => \A r \in Requests : request[r].at # "raw"
    BY WaitsPreserved DEF TypeOK, RoomOK, Roomy
<1>1. ASSUME NEW r \in Requests, ParkForBan(r)
      PROVE  WindowInv'
    <2>1. /\ request'[r].at = "gate" /\ request'[r].of = request[r].of
          /\ \A s \in Requests \ {r} : request'[s] = request[s]
        BY <1>1, MovesTo
    <2>2. Roomy => \A s \in Requests : request'[s].at # "raw"
        BY <1>0, <2>1
    <2>3. \A s \in Requests : request'[s].of = request[s].of
        BY <2>1
    <2>4. UNCHANGED <<events, server, header, auth, charged>> /\ limit' = limit
        BY <1>1 DEF ParkForBan
    <2> QED BY <1>0, <2>2, <2>3, <2>4, WindowUnmoved
<1>2. ASSUME NEW r \in Requests, Admit(r)
      PROVE  WindowInv'
    <2>1. /\ request'[r].at = "sent" /\ request'[r].of = request[r].of
          /\ \A s \in Requests \ {r} : request'[s] = request[s]
        BY <1>2, MovesTo
    <2>2. /\ \A s \in Requests : request'[s].of = request[s].of
          /\ Roomy => \A s \in Requests : request'[s].at # "raw"
        BY <1>0, <2>1
    <2>3. /\ Awake(r) /\ Charge(r, Remaining(r)) /\ \A p \in Remaining(r) : ~Full(r, p)
          /\ limit' = limit /\ header' = header /\ auth' = auth
        BY <1>2 DEF Admit, Refused
    <2>4. Roomy => ("raw" \in Remaining(r) => "weight" \in Remaining(r))
        <3>1. SUFFICES ASSUME Roomy, "raw" \in Remaining(r)
                       PROVE  "weight" \in Remaining(r)
            OBVIOUS
        <3>2. "raw" \in Draws(r) /\ "weight" \in Pools /\ "weight" \in SafePools
            BY <3>1 DEF Remaining, Roomy, RawIsRoomy, SafePools
        <3>3. "weight" \in Draws(r)
            BY <3>2, DrawsKnown
        <3> QED BY <2>3, <3>2, <3>3, SafeRemain
    <2>5. OwnersOK' /\ ChargesWithinLimit'
        BY <2>2, <2>3, Charging
    <2>6. ServerOK'
        BY <1>2, <2>2, ServerCounts
    <2>7. RoomOK'
        BY <2>2, <2>3, <2>4, RawCharged
    <2> QED BY <1>0, <2>5, <2>6, <2>7
<1>3. ASSUME NEW r \in Requests, Refuse(r)
      PROVE  WindowInv'
    <2>1. PICK p \in Pools :
             /\ p \in Remaining(r) /\ Charge(r, Passed(r, p))
             /\ Full(r, p) /\ \A q \in Passed(r, p) : ~Full(r, q)
             /\ \/ request' = [request EXCEPT ![r] =
                                 [request[r] EXCEPT !.at = "raised", !.wake = request[r].wake]]
                \/ /\ p # "orders"
                   /\ request' = [request EXCEPT ![r] =
                                    [request[r] EXCEPT !.at = p, !.wake = BlockedWait(p)]]
        BY <1>3, RefuseMoves
    <2>2. p \in Stages /\ BlockedWait(p) \in Nat /\ request[r].wake \in Nat /\ "raised" \in Stages
        BY <1>0, WaitIsShort, StagesKnown, Parameters
    <2>3. /\ request'[r].at \in {"raised", p} /\ request'[r].of = request[r].of
          /\ \A s \in Requests \ {r} : request'[s] = request[s]
        <3> HIDE DEF BlockedWait
        <3>1. PICK place \in {"raised", p}, wake \in Nat :
                  request' = [request EXCEPT ![r] = [request[r] EXCEPT !.at = place, !.wake = wake]]
            BY <2>1, <2>2
        <3> QED BY <2>2, <3>1, RequestMoves
    <2>4. Roomy => p # "raw"
        BY <2>1, RawAdmits
    <2>5. /\ \A s \in Requests : request'[s].of = request[s].of
          /\ Roomy => \A s \in Requests : request'[s].at # "raw"
        BY <1>0, <2>3, <2>4
    <2>6. /\ Awake(r) /\ limit' = limit /\ header' = header /\ auth' = auth /\ server' = server
          /\ Passed(r, p) \in SUBSET Remaining(r) /\ Passed(r, p) \in SUBSET Pools
        BY <1>3 DEF Refuse, Passed, Remaining, Draws
    <2>7. Roomy => ("raw" \in Passed(r, p) => "weight" \in Passed(r, p))
        <3>1. SUFFICES ASSUME Roomy, "raw" \in Passed(r, p)
                       PROVE  "weight" \in Passed(r, p)
            OBVIOUS
        <3>2. /\ "raw" \in Draws(r) /\ "weight" \in Pools /\ "weight" \in SafePools
              /\ Rank["raw"] < Rank[p]
            BY <3>1 DEF Passed, Remaining, Roomy, RawIsRoomy, SafePools
        <3>3. "weight" \in Draws(r)
            BY <3>2, DrawsKnown
        <3>4. "weight" \in Remaining(r)
            BY <2>6, <3>2, <3>3, SafeRemain
        <3>5. Rank["weight"] < Rank[p]
            BY <3>2, RanksKnown, Parameters
        <3> QED BY <3>4, <3>5 DEF Passed
    <2>8. OwnersOK' /\ ChargesWithinLimit'
        BY <2>1, <2>5, <2>6, Charging
    <2>9. \A q \in Pools : events[q] \subseteq events'[q]
        BY <2>1 DEF Charge
    <2>10. ServerOK'
        BY <2>6, <2>8, <2>9, ServerUncounted
    <2>11. RoomOK'
        BY <2>1, <2>5, <2>6, <2>7, RawCharged
    <2> QED BY <1>0, <2>8, <2>10, <2>11
<1>4. ASSUME NEW r \in Requests, RestResponds(r) \/ WsApiResponds(r)
      PROVE  WindowInv'
    <2>1. RoomOK'
        BY <1>4, RawRead
    <2>2. /\ request'[r].of = request[r].of
          /\ \A s \in Requests \ {r} : request'[s] = request[s]
        BY <1>4, MovesTo
    <2>3. \A s \in Requests : request'[s].of = request[s].of
        BY <2>2
    <2>4. UNCHANGED <<events, server, charged>> /\ limit' \in {limit, Cap}
        BY <1>4 DEF RestResponds, WsApiResponds, Configure
    <2>5. OwnersOK' /\ ChargesWithinLimit' /\ ServerOK'
        BY <2>3, <2>4, ChargesAndServerStay
    <2> QED BY <1>0, <2>1, <2>5
<1>5. CASE Tick
    BY <1>0, <1>5, OwnersAge, ServerRolls, RawAges
<1>6. CASE UNCHANGED vars
    <2>1. /\ UNCHANGED <<events, server, header, auth, charged, limit>>
          /\ \A s \in Requests : request'[s] = request[s]
        BY <1>6 DEF vars
    <2>2. /\ \A s \in Requests : request'[s].of = request[s].of
          /\ Roomy => \A s \in Requests : request'[s].at # "raw"
        BY <1>0, <2>1
    <2> QED BY <1>0, <2>1, <2>2, WindowUnmoved
<1> QED BY <1>1, <1>2, <1>3, <1>4, <1>5, <1>6 DEF Next

-----------------------------------------------------------------------------
(* The theorems *)

LEMMA InitHolds == Init => IInv
<1> SUFFICES ASSUME Init PROVE IInv
    OBVIOUS
<1>1. \A r \in Requests : request[r].at = "idle"
    BY DEF Init
<1>2. ChargesOK
    BY <1>1, StagesKnown DEF Init, ChargesOK, ChargesOf
<1>3. SleepOK
    BY <1>1, StagesKnown DEF SleepOK, SleepOf
<1> QED BY <1>2, <1>3, InitTyped DEF IInv

LEMMA Inductive == Spec => []IInv
<1>1. IInv /\ [Next]_vars => IInv'
    BY TypePreserved, ChargesPreserved, SleepPreserved DEF IInv
<1> QED BY <1>1, InitHolds, PTL DEF Spec

\* Every variable of the limiter keeps its type.
THEOREM TypeCorrect == Spec => []TypeOK
<1>1. IInv => TypeOK
    BY DEF IInv
<1> QED BY <1>1, Inductive, PTL

\* Whatever it slept through, a request that is sent has been charged once to
\* each pool it draws on (core.py acquire_request, acquire_connection,
\* acquire_message).
THEOREM ChargedExactlyOnce == Spec => []ChargedOnce
<1>1. IInv => ChargedOnce
    BY StagesKnown DEF IInv, ChargesOK, ChargesOf, ChargedOnce
<1> QED BY <1>1, Inductive, PTL

\* No request sleeps past the moment some of its pool's usage expires (bucket.py
\* _blocked_wait).
THEOREM NeverOversleeps == Spec => []NoOversleep
<1>1. IInv => NoOversleep
    BY DEF IInv, SleepOK, SleepOf, NoOversleep
<1> QED BY <1>1, Inductive, PTL

LEMMA WindowInit ==
    ASSUME Init
    PROVE  WindowInv
<1> USE DEF Init
<1>1. \A p \in Pools : events[p] = {}
    OBVIOUS
<1>2. Total({}) = 0
    BY TotalStep, FS_EmptySet
<1>3. TypeOK
    BY InitTyped
<1>4. OwnersOK
    BY <1>1, FS_EmptySet DEF OwnersOK
<1>5. ChargesWithinLimit
    BY <1>1, <1>2, Parameters DEF ChargesWithinLimit
<1>6. WaitsOK
    BY StagesKnown DEF WaitsOK
<1>7. ServerOK
    <2>1. ASSUME NEW p \in SafePools
          PROVE  server[p].count <= Total(SinceRoll(p))
        <3>1. p \in Pools /\ server[p].count = 0
            BY DEF SafePools
        <3>2. SinceRoll(p) = {}
            BY <1>1, <3>1 DEF SinceRoll
        <3> QED BY <1>2, <3>1, <3>2
    <2> QED BY <2>1 DEF ServerOK
<1>8. RoomOK
    <2>1. SUFFICES ASSUME Roomy
                   PROVE  /\ \A t \in Nat : Total(RawAfter(t)) <= Cap["weight"]
                          /\ header["raw"] = -1
                          /\ \A k \in Nat : RoomFor(k) => auth["raw"].value <= k * Cap["weight"]
                          /\ \A r \in Requests : request[r].at # "raw"
        BY <1>1 DEF RoomOK, Roomy
    <2>2. "raw" \in Pools /\ "weight" \in Pools /\ Cap["weight"] \in Nat
        BY <2>1, Parameters DEF Roomy, RawIsRoomy
    <2>3. \A t \in Nat : RawAfter(t) = {}
        BY <1>1, <2>2 DEF RawAfter
    <2>4. auth["raw"].value = 0
        BY <2>2
    <2>5. \A k \in Nat : k * Cap["weight"] \in Nat
        BY <2>2
    <2>6. \A t \in Nat : Total(RawAfter(t)) <= Cap["weight"]
        <3>1. \A t \in Nat : Total(RawAfter(t)) = Total({})
            BY <2>3
        <3> QED BY <1>2, <2>2, <3>1
    <2> QED BY <2>2, <2>4, <2>5, <2>6
<1> QED BY <1>4, <1>5, <1>6, <1>7, <1>8 DEF WindowInv

LEMMA WindowInductive == Spec => []WindowInv
<1>1. Init => WindowInv
    BY WindowInit
<1>2. IInv /\ IInv' /\ WindowInv /\ [Next]_vars => WindowInv'
    BY WindowPreserved DEF IInv
<1> QED BY <1>1, <1>2, Inductive, PTL DEF Spec

LEMMA CountedWithinCap ==
    ASSUME TypeOK, WindowInv, NEW p \in SafePools
    PROVE  server[p].count <= Cap[p]
<1>1. p \in Pools
    BY DEF SafePools
<1>2. /\ Total(SinceRoll(p)) <= Total(events[p])
      /\ Total(SinceRoll(p)) \in Nat /\ Total(events[p]) \in Nat
    BY <1>1, SumsTyped DEF SinceRoll, WindowInv
<1>3. Total(events[p]) <= limit[p] /\ server[p].count <= Total(SinceRoll(p))
    BY <1>1 DEF WindowInv, ChargesWithinLimit, ServerOK
<1>4. limit[p] <= Cap[p] /\ limit[p] \in Nat /\ Cap[p] \in Nat /\ server[p].count \in Nat
    BY <1>1, Parameters, RateLimiterAssumption DEF TypeOK
<1> QED BY <1>2, <1>3, <1>4

\* With a raw pool that cannot run out before the weight pool, or with none, the
\* server never counts more than the account's limit in any of its windows, in
\* any pool (bucket.py acquire, core.py acquire_request).
THEOREM ServerLimitKept ==
    ASSUME RawIsRoomy
    PROVE  Spec => []ServerWithinLimit
<1>1. TypeOK /\ WindowInv => ServerWithinLimit
    BY CountedWithinCap DEF SafePools, ServerWithinLimit
<1> QED BY <1>1, TypeCorrect, WindowInductive, PTL

\* Whatever the raw pool does to the weight of a request that waits in it, no
\* other pool is ever exceeded (core.py acquire_request, acquire_connection,
\* acquire_message).
THEOREM OtherPoolsKept ==
    Spec => [](\A p \in Pools \ {"weight"} : server[p].count <= Cap[p])
<1>1. TypeOK /\ WindowInv => \A p \in Pools \ {"weight"} : server[p].count <= Cap[p]
    BY CountedWithinCap DEF SafePools
<1> QED BY <1>1, TypeCorrect, WindowInductive, PTL
=============================================================================
