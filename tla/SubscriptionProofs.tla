------------------------- MODULE SubscriptionProofs -------------------------
(***************************************************************************)
(* Proofs about Subscription, for any topics, paths and callers: the two   *)
(* records of the client agree, the server holds no topic the client has   *)
(* not recorded, the pools count what is committed, and every connection   *)
(* does what a Stream may do, whatever fails or is cancelled on the way.   *)
(***************************************************************************)
EXTENDS Subscription, SequenceTheorems, FiniteSetTheorems, TLAPS

Request == [subscribe : BOOLEAN, topics : SUBSET Topics, mine : BOOLEAN]
Job == [subscribe : BOOLEAN, topics : SUBSET Topics, todo : SUBSET Conns,
        at : Conns \cup {"none"}, req : Requests, reserved : SUBSET Paths, prevWant : BOOLEAN]
CallType == [subscribe : BOOLEAN, topics : SUBSET Topics]
PcAt == {"idle", "logon", "waiting", "holding"}
ConnAt == {"absent", "opening", "up", "lost", "closing"}

\* The server has nothing of t, and nothing that is on its way subscribes it.
Absent(t) ==
    /\ live[t] = 0
    /\ \A i \in 1..Len(wire[Route[t]]) :
          t \in wire[Route[t]][i].topics => ~wire[Route[t]][i].subscribe

\* What the holder of the lock is doing, and for whom.
JobOK ==
    /\ lock = "free" => job.req = "none"
    /\ job.req \in {"opening", "sent", "acked"} => job.at \in Conns
    /\ job.req = "prepare" => job.at = "none"
    /\ lock \in Callers =>
          /\ pc[lock] = "holding"
          /\ call[lock] = [subscribe |-> job.subscribe, topics |-> job.topics]
          /\ job.at = WsApi => job.todo \subseteq {WsApi}
          /\ job.req = "prepare" =>
                \A t \in job.topics : Route[t] \in job.todo \/ (t = User /\ job.subscribe)
    /\ lock \in Conns => job.at = lock
    /\ lock \in Conns \cup {Recovery} =>
          job.subscribe /\ job.topics \subseteq subscribed /\ job.req # "prepare"

\* A request is for topics of its connection; one that is awaited is the last.
WireOK ==
    \A x \in Conns : \A i \in 1..Len(wire[x]) :
        /\ wire[x][i].topics \subseteq On(x)
        /\ wire[x][i].mine =>
              /\ x = job.at /\ job.req = "sent" /\ i = Len(wire[x])
              /\ wire[x][i].subscribe = job.subscribe
              /\ wire[x][i].topics = job.topics \cap On(x)

\* The records differ only while a call is at its user part: the market part
\* is in _stream_names already, the call not yet in _subscribed.
AgreeOK ==
    /\ \A n \in Names \ halfway :
          \/ n \in subscribed <=> n \in streamNames
          \/ lock \in Callers /\ n \in job.topics /\ job.at = WsApi
    /\ lock \in Callers /\ job.at = WsApi =>
          \A n \in job.topics \cap Names : n \in streamNames <=> job.subscribe

\* A topic nobody recorded, and no call is about to, is off the server for
\* good; a part of an unsubscription that was answered has that effect.
GhostOK ==
    /\ \A t \in Topics \ blurred :
          t \in subscribed \/ (lock \in Callers /\ t \in job.topics) \/ Absent(t)
    /\ lock \in Callers /\ ~job.subscribe =>
          \A t \in job.topics :
              (Route[t] \in job.todo /\ ~(Route[t] = job.at /\ job.req = "acked")) \/ Absent(t)

Consistent == JobOK /\ WireOK /\ AgreeOK /\ GhostOK

\* Nothing is reserved where there is no lease.  Until the lock is free a path
\* may count the names of the subscription that holds it.
Claimed(p) == IF p \in job.reserved THEN job.topics ELSE {}

PoolOK ==
    /\ \A p \in Paths : p \notin lease => reserved[p] = 0
    /\ job.reserved # {} => lock \in Callers /\ job.subscribe
    /\ job.req = "prepare" => job.reserved = {}
    /\ \A p \in Paths :
          reserved[p] <= Cardinality((streamNames \cup cancelled \cup Claimed(p)) \cap On(p))

\* Until close() every path with committed names is open, or will be once the
\* call has sent its parts, and its pool counts at least what is committed.
OpenOK ==
    closing = "no" =>
        /\ toClose = {} /\ \A x \in Conns : conn[x] # "closing"
        /\ \A n \in streamNames : conn[Route[n]] # "absent"
        /\ lock \in Callers /\ job.req # "prepare" =>
              \A n \in job.topics \cap Names :
                  Route[n] \in job.todo \ {job.at} \/ conn[Route[n]] # "absent"
        /\ \A p \in Paths : reserved[p] >= Committed(p)
        /\ lock \in Callers /\ job.subscribe /\ job.at \in Paths =>
              \A p \in Paths : reserved[p] >= Projected(p)

\* A subscription whose first part has been sent fits on every path.
Sending == lock \in Callers /\ job.subscribe /\ job.at # "none"

CapOK ==
    /\ \A p \in Paths : Committed(p) <= MaxStreams
    /\ Sending => \A p \in Paths : Projected(p) <= MaxStreams

\* Only such a subscription brings a topic to the server that is not recorded.
SentOK ==
    \A t \in Topics \ blurred : t \in subscribed \/ Absent(t) \/ (Sending /\ t \in job.topics)

ReservedInv == PoolOK /\ OpenOK /\ CapOK /\ SentOK

IInv == TypeOK /\ Consistent /\ ReservedInv

\* No step but that of sending a subscription brings back what is absent.
StayAbsent == \A t \in Topics : Absent(t) => Absent(t)'

-----------------------------------------------------------------------------
(* Typing *)

\* TypeOK, one variable at a time, in three groups.
FlagsTyped ==
    /\ want \in BOOLEAN /\ inflight \in BOOLEAN /\ known \in BOOLEAN /\ terminated \in BOOLEAN /\ overlap \in BOOLEAN
    /\ closing \in {"no", "running", "done"} /\ toClose \subseteq Conns
    /\ recycle \subseteq Conns /\ lease \subseteq Conns
    /\ calls \in 0..MaxCalls /\ faults \in 0..MaxFaults
    /\ subscribed \subseteq Topics /\ streamNames \subseteq Names
    /\ blurred \subseteq Topics /\ cancelled \subseteq blurred /\ halfway \subseteq blurred

TasksTyped ==
    /\ lock \in Tasks \cup {"free"} /\ pc \in [Tasks -> PcAt]
    /\ call \in [Callers -> CallType] /\ job \in Job

ConnsTyped ==
    /\ conn \in [Conns -> ConnAt] /\ first \in [Paths -> BOOLEAN] /\ reserved \in [Paths -> Nat]
    /\ wire \in [Conns -> Seq(Request)] /\ live \in [Topics -> 0..2]

Typed == FlagsTyped /\ TasksTyped /\ ConnsTyped

LEMMA TypeParts == (TypeOK <=> Typed) /\ (TypeOK' <=> Typed')
<1>1. TypeOK <=> Typed
    BY DEF TypeOK, Typed, FlagsTyped, TasksTyped, ConnsTyped, Job, CallType, PcAt, ConnAt, Request
<1>2. TypeOK' <=> Typed'
    BY DEF TypeOK, Typed, FlagsTyped, TasksTyped, ConnsTyped, Job, CallType, PcAt, ConnAt, Request
<1> QED BY <1>1, <1>2

\* The connections: the data paths and the WS-API, which carries the user stream.
LEMMA Routes ==
    /\ Route[User] = WsApi /\ User \in Topics
    /\ \A t \in Topics : Route[t] \in Conns /\ t \in On(Route[t])
    /\ \A n \in Names : Route[n] \in Paths
    /\ WsApi \in Conns /\ WsApi \notin Paths /\ Paths \subseteq Conns
    /\ "none" \notin Conns /\ "free" \notin Tasks /\ Recovery \notin Conns
    /\ \A c \in Callers : c \notin Conns /\ c # Recovery /\ c # "free"
    /\ Tasks = Callers \cup Conns \cup {Recovery}
BY SubscriptionAssumption DEF On, Conns, Names, Tasks, Recovery

LEMMA NoJobTyped == NoJob \in Job /\ NoCall \in CallType
BY DEF NoJob, Job, Requests, NoCall, CallType

\* What the job of the holder may become.
LEMMA JobUpdates ==
    ASSUME NEW j \in Job
    PROVE  /\ \A r \in Requests : [j EXCEPT !.req = r] \in Job
           /\ \A S \in SUBSET Paths : [j EXCEPT !.reserved = S, !.req = "failed"] \in Job
           /\ \A S \in SUBSET Paths, x \in Conns, w \in BOOLEAN, r \in Requests :
                [j EXCEPT !.todo = j.todo \ {j.at}, !.at = x, !.req = r,
                          !.reserved = j.reserved \cup S, !.prevWant = w] \in Job
BY DEF Job, Requests

LEMMA NewJobs ==
    /\ \A b \in BOOLEAN, T \in SUBSET Topics, X \in SUBSET Conns :
          [NoJob EXCEPT !.subscribe = b, !.topics = T, !.todo = X, !.req = "prepare"] \in Job
    /\ \A T \in SUBSET Topics, x \in Conns :
          [NoJob EXCEPT !.subscribe = TRUE, !.topics = T, !.at = x, !.req = "opening"] \in Job
BY NoJobTyped DEF Job, Requests

\* An orphaned queue is the same queue, and nobody awaits an answer of it.
LEMMA OrphanedIs ==
    ASSUME NEW q \in Seq(Request)
    PROVE  /\ Orphaned(q) \in Seq(Request) /\ Len(Orphaned(q)) = Len(q)
           /\ \A i \in 1..Len(q) : /\ Orphaned(q)[i].subscribe = q[i].subscribe
                                   /\ Orphaned(q)[i].topics = q[i].topics
                                   /\ ~Orphaned(q)[i].mine
<1>1. Len(q) \in Nat /\ DOMAIN q = 1..Len(q) /\ \A i \in 1..Len(q) : q[i] \in Request
    BY LenProperties, ElementOfSeq
<1>2. \A i \in 1..Len(q) : /\ Orphaned(q)[i] = [q[i] EXCEPT !.mine = FALSE]
                           /\ [q[i] EXCEPT !.mine = FALSE] \in Request
    BY <1>1 DEF Orphaned, Request
<1>3. Orphaned(q) \in [1..Len(q) -> Request]
    BY <1>1, <1>2 DEF Orphaned
<1>4. Orphaned(q) \in Seq(Request) /\ Len(Orphaned(q)) = Len(q)
    BY <1>1, <1>3
<1> QED BY <1>1, <1>2, <1>4 DEF Request

LEMMA Counted ==
    ASSUME NEW S, S \subseteq Topics PROVE Cardinality(S) \in Nat
BY SubscriptionAssumption, FS_Subset, FS_CardinalityType

LEMMA FaultTyped == ASSUME FlagsTyped, Fault PROVE faults' \in 0..MaxFaults
BY SubscriptionAssumption DEF FlagsTyped, Fault

LEMMA InitTyped == Init => TypeOK
<1> SUFFICES ASSUME Init PROVE Typed
    BY TypeParts
<1>1. FlagsTyped
    <2>1. MaxCalls \in Nat /\ MaxFaults \in Nat
        BY SubscriptionAssumption
    <2>2. 0 \in 0..MaxCalls /\ 0 \in 0..MaxFaults
        BY <2>1
    <2> QED BY <2>2 DEF Init, FlagsTyped
<1>2. TasksTyped
    BY NoJobTyped DEF Init, TasksTyped, PcAt
<1>3. ConnsTyped
    BY DEF Init, ConnsTyped, ConnAt
<1> QED BY <1>1, <1>2, <1>3 DEF Typed

\* The simple parts of an action: a lock given back, a socket gone.
LEMMA ReleaseTyped ==
    ASSUME TasksTyped, NEW t \in Tasks, Release(t)
    PROVE  lock' \in Tasks \cup {"free"} /\ pc' \in [Tasks -> PcAt] /\ job' \in Job
BY NoJobTyped DEF TasksTyped, Release, PcAt

LEMMA ReturnTyped ==
    ASSUME TasksTyped, NEW c \in Callers, Return(c)
    PROVE  call' \in [Callers -> CallType]
BY NoJobTyped DEF TasksTyped, Return

LEMMA ReqTyped ==
    ASSUME TasksTyped, NEW r \in Requests, job' = [job EXCEPT !.req = r]
    PROVE  job' \in Job
BY JobUpdates DEF TasksTyped

LEMMA GoneTyped ==
    ASSUME TasksTyped, ConnsTyped, NEW x \in Conns, NEW state \in ConnAt, SocketGone(x, state),
           UNCHANGED <<call, first, reserved>>
    PROVE  TasksTyped' /\ ConnsTyped'
<1>1. x \in Tasks /\ "failed" \in Requests
    BY DEF Tasks, Requests
<1>2. job' \in Job
    <2>1. job' = NoJob \/ job' = [job EXCEPT !.req = "failed"] \/ job' = job
        BY DEF SocketGone
    <2> QED BY <1>1, <2>1, NoJobTyped, ReqTyped DEF TasksTyped
<1>3. lock' \in Tasks \cup {"free"}
    BY DEF SocketGone, TasksTyped
<1>4. pc' \in [Tasks -> PcAt]
    BY <1>1 DEF SocketGone, TasksTyped, PcAt
<1>5. wire' \in [Conns -> Seq(Request)]
    BY DEF SocketGone, ConnsTyped
<1>6. live' \in [Topics -> 0..2]
    BY DEF SocketGone, ConnsTyped
<1>7. conn' \in [Conns -> ConnAt]
    BY DEF SocketGone, ConnsTyped
<1> QED BY <1>2, <1>3, <1>4, <1>5, <1>6, <1>7 DEF TasksTyped, ConnsTyped

LEMMA OrphanAllTyped ==
    ASSUME ConnsTyped, wire' = [x \in Conns |-> Orphaned(wire[x])]
    PROVE  wire' \in [Conns -> Seq(Request)]
BY OrphanedIs DEF ConnsTyped

LEMMA CallTyped ==
    ASSUME Typed, NEW c \in Callers, Call(c) PROVE Typed'
<1>1. calls' \in 0..MaxCalls
    BY SubscriptionAssumption DEF Call, Typed, FlagsTyped
<1>2. FlagsTyped'
    BY <1>1 DEF Call, Typed, FlagsTyped, recordVars, userVars, connVars, ctlVars, closeVars
<1>3. call' \in [Callers -> CallType]
    BY SubscriptionAssumption DEF Call, Typed, TasksTyped, CallType
<1>4. c \in Tasks
    BY DEF Tasks
<1>5. pc' \in [Tasks -> PcAt]
    BY <1>4 DEF Call, Typed, TasksTyped, PcAt
<1>6. TasksTyped'
    BY <1>3, <1>5 DEF Call, Typed, TasksTyped
<1>7. ConnsTyped'
    BY DEF Call, Typed, ConnsTyped, connVars, serverVars
<1> QED BY <1>2, <1>6, <1>7 DEF Typed

LEMMA RecordedTyped ==
    ASSUME Typed, NEW c \in Callers PROVE Recorded(c) \subseteq Topics
<1>1. call[c].topics \subseteq Topics
    BY DEF Typed, TasksTyped, CallType
<1> QED BY <1>1 DEF Recorded, Typed, FlagsTyped

LEMMA BeginTyped ==
    ASSUME Typed, NEW c \in Callers, Begin(c) PROVE Typed'
<1>1. subscribed' \subseteq Topics
    BY RecordedTyped DEF Begin, Typed, FlagsTyped
<1>2. FlagsTyped'
    BY <1>1 DEF Begin, Typed, FlagsTyped, userVars, connVars, ctlVars, closeVars, historyVars
<1>3. ConnsTyped'
    BY DEF Begin, Typed, ConnsTyped, connVars, serverVars
<1>4. c \in Tasks /\ call[c] \in CallType
    BY DEF Tasks, Typed, TasksTyped
<1>5. TasksTyped'
    <2>1. CASE Remaining(c) = {}
        BY <1>4, <2>1, ReturnTyped DEF Begin, Typed, TasksTyped, PcAt
    <2>2. CASE Remaining(c) # {}
        <3>1. Remaining(c) \subseteq Conns
            BY <1>4, Routes DEF Remaining, CallType
        <3>2. job' \in Job
            <4>1. call[c].subscribe \in BOOLEAN /\ call[c].topics \in SUBSET Topics
                BY <1>4 DEF CallType
            <4>2. job' = [NoJob EXCEPT !.subscribe = call[c].subscribe, !.topics = call[c].topics,
                                       !.todo = Remaining(c), !.req = "prepare"]
                BY <2>2 DEF Begin
            <4> HIDE DEF Remaining
            <4> QED BY <3>1, <4>1, <4>2, NewJobs
        <3>3. pc' \in [Tasks -> PcAt] /\ lock' \in Tasks \cup {"free"} /\ call' = call
            BY <1>4, <2>2 DEF Begin, Typed, TasksTyped, PcAt
        <3> QED BY <3>2, <3>3 DEF Typed, TasksTyped
    <2> QED BY <2>1, <2>2
<1> QED BY <1>2, <1>3, <1>5 DEF Typed

\* One more part of a call is sent.
LEMMA SendToTyped ==
    ASSUME Typed, NEW x \in Conns, NEW S, S \subseteq Paths, SendTo(x, S)
    PROVE  job' \in Job /\ want' \in BOOLEAN /\ known' \in BOOLEAN /\ conn' \in [Conns -> ConnAt]
           /\ first' \in [Paths -> BOOLEAN]
<1>1. job \in Job
    BY DEF Typed, TasksTyped
<1>2. job' \in Job
    <2>1. PICK r \in Requests : r = IF NotSubscribed(x) THEN "refused" ELSE "opening"
        BY DEF Requests
    <2>2. job' = [job EXCEPT !.todo = job.todo \ {job.at}, !.at = x, !.req = r,
                             !.reserved = job.reserved \cup S, !.prevWant = want]
        BY <2>1 DEF SendTo
    <2> QED BY <1>1, <2>2, JobUpdates DEF Typed, FlagsTyped
<1>3. want' \in BOOLEAN /\ known' \in BOOLEAN
    BY <1>1 DEF SendTo, Typed, FlagsTyped, Job
<1>4. conn' \in [Conns -> ConnAt] /\ first' \in [Paths -> BOOLEAN]
    BY DEF SendTo, OpenIfAbsent, Typed, ConnsTyped, ConnAt
<1> QED BY <1>2, <1>3, <1>4

LEMMA PrepareTyped ==
    ASSUME Typed, NEW c \in Callers, Prepare(c) PROVE Typed'
<1>1. PICK S \in SUBSET (job.todo \cap Paths) :
           LET rest == (job.todo \cap Paths) \ S
               over == {p \in rest : Projected(p) > MaxStreams}
           IN \/ /\ ~job.subscribe /\ S = {}
                 /\ \E x \in job.todo : /\ SendTo(x, {})
                                        /\ lease' = lease \cup Needed(x)
                                        /\ inflight' = (x = WsApi \/ inflight)
                 /\ UNCHANGED reserved
              \/ /\ job.subscribe
                 /\ \A p \in S : Projected(p) <= MaxStreams
                 /\ reserved' = [p \in Paths |-> IF p \in S THEN Projected(p)
                                                 ELSE reserved[p]]
                 /\ UNCHANGED inflight
                 /\ \/ /\ rest = {}
                       /\ \E x \in job.todo : /\ SendTo(x, S)
                                              /\ lease' = lease \cup S \cup {x}
                    \/ \E p \in over :
                          /\ lease' = lease \cup S \cup {p}
                          /\ job' = [job EXCEPT !.reserved = S, !.req = "failed"]
                          /\ UNCHANGED <<conn, first, want, known>>
    BY Zenon DEF Prepare
<1>2. job \in Job /\ job.todo \subseteq Conns /\ Paths \subseteq Conns
    BY Routes DEF Typed, TasksTyped, Job
<1>3. job' \in Job /\ want' \in BOOLEAN /\ known' \in BOOLEAN /\ conn' \in [Conns -> ConnAt] /\ first' \in [Paths -> BOOLEAN]
    <2>1. ASSUME NEW x \in job.todo, NEW R, R \subseteq Paths, SendTo(x, R)
          PROVE  job' \in Job /\ want' \in BOOLEAN /\ known' \in BOOLEAN /\ conn' \in [Conns -> ConnAt] /\ first' \in [Paths -> BOOLEAN]
        BY <1>2, <2>1, SendToTyped
    <2>2. ASSUME job' = [job EXCEPT !.reserved = S, !.req = "failed"], UNCHANGED <<conn, first, want, known>>
          PROVE  job' \in Job /\ want' \in BOOLEAN /\ known' \in BOOLEAN /\ conn' \in [Conns -> ConnAt] /\ first' \in [Paths -> BOOLEAN]
        BY <1>2, <2>2, JobUpdates DEF Typed, FlagsTyped, ConnsTyped
    <2> QED BY <1>1, <2>1, <2>2
<1>4. lease' \subseteq Conns /\ inflight' \in BOOLEAN
    BY <1>1, <1>2 DEF Needed, Typed, FlagsTyped
<1>5. reserved' \in [Paths -> Nat]
    <2>1. \A p \in Paths : Projected(p) \in Nat
        BY Counted DEF Projected, On
    <2> QED BY <1>1, <2>1 DEF Typed, ConnsTyped
<1> QED BY <1>3, <1>4, <1>5 DEF Prepare, Typed, FlagsTyped, TasksTyped, ConnsTyped, recordVars,
        serverVars, ctlVars, closeVars, historyVars

LEMMA TransmitTyped == ASSUME Typed, JobOK, Transmit PROVE Typed'
<1>1. job.at \in Conns /\ job \in Job
    BY DEF Transmit, JobOK, Typed, TasksTyped
<1>2. job' \in Job
    BY <1>1, JobUpdates DEF Transmit, Requests
<1>3. wire' \in [Conns -> Seq(Request)]
    <2> DEFINE q == [subscribe |-> job.subscribe, topics |-> job.topics \cap On(job.at), mine |-> TRUE]
    <2>1. q \in Request
        BY <1>1 DEF Request, Job
    <2>2. Append(wire[job.at], q) \in Seq(Request)
        BY <1>1, <2>1, AppendProperties DEF Typed, ConnsTyped
    <2>3. wire' = [wire EXCEPT ![job.at] = Append(wire[job.at], q)] \/ wire' = wire
        BY DEF Transmit
    <2> HIDE DEF q
    <2> QED BY <1>1, <2>2, <2>3 DEF Typed, ConnsTyped
<1> QED BY <1>2, <1>3 DEF Transmit, Typed, FlagsTyped, TasksTyped, ConnsTyped, recordVars, userVars,
        connVars, ctlVars, closeVars, historyVars

LEMMA ResumeTyped ==
    ASSUME Typed, NEW c \in Callers, Resume(c) PROVE Typed'
<1> DEFINE todo == job.todo \ {job.at}
           commit == job.at \in Paths /\ todo \subseteq {WsApi}
           names == job.topics \cap Names
<1>1. job \in Job /\ todo \subseteq Conns /\ names \subseteq Names /\ c \in Tasks
    BY DEF Typed, TasksTyped, Job, Tasks
<1>2. streamNames' \subseteq Names
    BY <1>1 DEF Resume, MarketAnswered, Typed, FlagsTyped
<1>3. reserved' \in [Paths -> Nat]
    <2>1. \A p \in Paths : Unreserved(p, streamNames \cap names \cap On(p)) \in Nat
        <3> SUFFICES ASSUME NEW p \in Paths
                     PROVE  Unreserved(p, streamNames \cap names \cap On(p)) \in Nat
            OBVIOUS
        <3>1. Cardinality(streamNames \cap names \cap On(p)) \in Nat
            BY Counted DEF On
        <3>2. reserved[p] \in Nat
            BY DEF Typed, ConnsTyped
        <3> QED BY <3>1, <3>2 DEF Unreserved
    <2>2. reserved' = [p \in Paths |->
                 IF ~commit \/ job.subscribe THEN reserved[p]
                 ELSE Unreserved(p, streamNames \cap names \cap On(p))]
        BY DEF Resume, MarketAnswered
    <2> QED BY <2>1, <2>2 DEF Typed, ConnsTyped
<1>4. CASE todo = {}
    <2>1. /\ Release(c) /\ Return(c) /\ subscribed' = Recorded(c) /\ inflight' = FALSE
          /\ UNCHANGED <<connVars, want, known>>
        BY <1>4 DEF Resume, MarketAnswered
    <2>2. TasksTyped'
        BY <1>1, <2>1, ReleaseTyped, ReturnTyped DEF Typed, TasksTyped
    <2> QED BY <1>2, <1>3, <2>1, <2>2, RecordedTyped DEF Resume, MarketAnswered, Typed, FlagsTyped, ConnsTyped,
            connVars, serverVars, ctlVars, closeVars, historyVars
<1>5. CASE todo # {}
    <2>1. PICK x \in todo : /\ SendTo(x, {}) /\ lease' = lease \cup Needed(x)
                            /\ inflight' = (x = WsApi /\ ~job.subscribe)
        BY <1>5 DEF Resume, MarketAnswered
    <2>2. job' \in Job /\ want' \in BOOLEAN /\ known' \in BOOLEAN /\ conn' \in [Conns -> ConnAt] /\ first' \in [Paths -> BOOLEAN]
        BY <1>1, <2>1, SendToTyped
    <2>3. lease' \subseteq Conns /\ inflight' \in BOOLEAN
        BY <1>1, <2>1 DEF Needed, Typed, FlagsTyped
    <2>4. UNCHANGED <<subscribed, lock, pc, call>>
        BY <1>5 DEF Resume, MarketAnswered
    <2> QED BY <1>2, <1>3, <2>2, <2>3, <2>4 DEF Resume, MarketAnswered, Typed, FlagsTyped, TasksTyped, ConnsTyped,
            serverVars, ctlVars, closeVars, historyVars
<1> QED BY <1>4, <1>5

LEMMA FailTyped ==
    ASSUME Typed, NEW c \in Callers, Fail(c) PROVE Typed'
<1>1. job \in Job /\ c \in Tasks
    BY DEF Typed, TasksTyped, Tasks
<1>2. TasksTyped'
    BY <1>1, ReleaseTyped, ReturnTyped DEF Fail, Typed, TasksTyped
<1>3. lease' \subseteq Conns
    <2>1. lease' \subseteq lease
        BY DEF Fail, RollBack
    <2> QED BY <2>1 DEF Typed, FlagsTyped
<1>4. want' \in BOOLEAN /\ inflight' \in BOOLEAN
    BY <1>1 DEF Fail, RollBack, Typed, FlagsTyped, userVars, Job
<1>5. reserved' \in [Paths -> Nat]
    <2>1. \A p \in Paths : Committed(p) \in Nat
        BY Counted DEF Committed, On
    <2>2. CASE job.subscribe /\ job.at # WsApi
        <3> DEFINE unused == {x \in job.todo \cap Paths : conn[x] = "absent"}
                   back(p) == CASE p \in unused -> 0
                                [] p \in (job.reserved \cap lease) \ unused -> Committed(p)
                                [] OTHER -> reserved[p]
        <3>1. reserved' = [p \in Paths |-> back(p)]
            BY <2>2, Zenon DEF Fail, RollBack
        <3>2. \A p \in Paths : back(p) \in Nat
            <4>1. \A p \in Paths : back(p) \in {0, Committed(p), reserved[p]}
                OBVIOUS
            <4> HIDE DEF back
            <4> QED BY <2>1, <4>1 DEF Typed, ConnsTyped
        <3> HIDE DEF back
        <3> QED BY <3>1, <3>2
    <2>3. CASE ~(job.subscribe /\ job.at # WsApi)
        BY <2>3 DEF Fail, RollBack, Typed, ConnsTyped
    <2> QED BY <2>2, <2>3
<1>6. blurred' \subseteq Topics /\ cancelled' \subseteq blurred' /\ halfway' \subseteq blurred'
    BY <1>1 DEF Fail, EndedHalfway, Typed, FlagsTyped, Job
<1> QED BY <1>2, <1>3, <1>4, <1>5, <1>6 DEF Fail, EndedHalfway, Typed, FlagsTyped, ConnsTyped, recordVars,
        serverVars, ctlVars, closeVars

LEMMA CancelCallTyped ==
    ASSUME Typed, NEW c \in Callers, CancelCall(c) PROVE Typed'
<1>1. job \in Job /\ c \in Tasks /\ faults' \in 0..MaxFaults
    BY FaultTyped DEF Typed, TasksTyped, Tasks, CancelCall
<1>2. TasksTyped'
    BY <1>1, ReleaseTyped, ReturnTyped DEF CancelCall, Typed, TasksTyped, PcAt
<1>3. wire' \in [Conns -> Seq(Request)] /\ inflight' \in BOOLEAN
    BY OrphanAllTyped DEF CancelCall, Typed, ConnsTyped, FlagsTyped
<1>4. blurred' \subseteq Topics /\ cancelled' \subseteq blurred' /\ halfway' \subseteq blurred'
    BY <1>1 DEF CancelCall, EndedHalfway, Typed, FlagsTyped, Job
<1> QED BY <1>1, <1>2, <1>3, <1>4 DEF CancelCall, EndedHalfway, Typed, FlagsTyped, ConnsTyped, recordVars,
        connVars, ctlVars, closeVars

LEMMA ReplaysTyped ==
    ASSUME Typed, NEW x \in Conns, Opened(x) \/ Replay(x) \/ ReplayEnds(x) PROVE Typed'
<1>1. x \in Tasks
    BY DEF Tasks
<1>2. CASE Opened(x)
    <2>1. /\ pc' \in [Tasks -> PcAt] /\ conn' \in [Conns -> ConnAt] /\ first' \in [Paths -> BOOLEAN]
        BY <1>1, <1>2 DEF Opened, Typed, TasksTyped, ConnsTyped, PcAt, ConnAt
    <2> QED BY <1>2, <2>1 DEF Opened, Typed, FlagsTyped, TasksTyped, ConnsTyped, recordVars, userVars,
            serverVars, ctlVars, closeVars, historyVars
<1>3. CASE Replay(x)
    <2>1. lock' \in Tasks \cup {"free"} /\ pc' \in [Tasks -> PcAt]
        BY <1>1, <1>3 DEF Replay, Typed, TasksTyped, PcAt
    <2>2. job' \in Job
        <3>1. subscribed \cap On(x) \in SUBSET Topics
            BY DEF On
        <3>2. \/ job' = job
              \/ job' = [NoJob EXCEPT !.subscribe = TRUE, !.topics = subscribed \cap On(x), !.at = x,
                                       !.req = "opening"]
            BY <1>3 DEF Replay
        <3>3. [NoJob EXCEPT !.subscribe = TRUE, !.topics = subscribed \cap On(x), !.at = x,
                            !.req = "opening"] \in Job
            BY <3>1, NewJobs
        <3> QED BY <3>2, <3>3 DEF Typed, TasksTyped
    <2> QED BY <1>3, <2>1, <2>2 DEF Replay, Typed, FlagsTyped, TasksTyped, ConnsTyped, recordVars,
            userVars, connVars, serverVars, ctlVars, closeVars, historyVars
<1>4. CASE ReplayEnds(x)
    <2>1. lock' \in Tasks \cup {"free"} /\ pc' \in [Tasks -> PcAt] /\ job' \in Job
        BY <1>1, <1>4, ReleaseTyped DEF ReplayEnds, Typed
    <2>2. recycle' \subseteq Conns
        BY <1>4 DEF ReplayEnds, Typed, FlagsTyped
    <2> QED BY <1>4, <2>1, <2>2 DEF ReplayEnds, Typed, FlagsTyped, TasksTyped, ConnsTyped, recordVars,
            userVars, connVars, serverVars, closeVars, historyVars
<1> QED BY <1>2, <1>3, <1>4

LEMMA LogonTyped == ASSUME Typed, Logon PROVE Typed'
<1>1. WsApi \in Tasks /\ WsApi \in Conns
    BY Routes
<1>2. pc' \in [Tasks -> PcAt]
    BY <1>1 DEF Logon, Typed, TasksTyped, PcAt
<1>3. recycle' \subseteq Conns
    BY <1>1 DEF Logon, Typed, FlagsTyped
<1>4. faults' \in 0..MaxFaults
    BY FaultTyped DEF Logon, Typed, FlagsTyped
<1> QED BY <1>2, <1>3, <1>4 DEF Logon, Typed, FlagsTyped, TasksTyped, ConnsTyped, recordVars,
        userVars, connVars, serverVars, closeVars, historyVars

LEMMA RecoveryTyped ==
    ASSUME Typed, HandleTerminated \/ Recover \/ RecoverEnds PROVE Typed'
<1>1. Recovery \in Tasks /\ WsApi \in Conns /\ User \in Topics
    BY Routes DEF Tasks
<1>2. CASE HandleTerminated
    <2>1. pc' \in [Tasks -> PcAt]
        BY <1>1, <1>2 DEF HandleTerminated, Typed, TasksTyped, PcAt
    <2>2. blurred' \subseteq Topics /\ cancelled' \subseteq blurred' /\ halfway' \subseteq blurred'
        BY <1>1, <1>2 DEF HandleTerminated, Typed, FlagsTyped
    <2> QED BY <1>2, <2>1, <2>2 DEF HandleTerminated, Typed, FlagsTyped, TasksTyped, ConnsTyped,
            recordVars, userVars, connVars, serverVars, closeVars
<1>3. CASE Recover
    <2>1. lock' \in Tasks \cup {"free"} /\ pc' \in [Tasks -> PcAt]
        BY <1>1, <1>3 DEF Recover, Typed, TasksTyped, PcAt
    <2>2. job' \in Job
        <3>1. {User} \in SUBSET Topics
            BY <1>1
        <3>2. \/ job' = job
              \/ job' = [NoJob EXCEPT !.subscribe = TRUE, !.topics = {User}, !.at = WsApi,
                                       !.req = "opening"]
            BY <1>3 DEF Recover
        <3>3. [NoJob EXCEPT !.subscribe = TRUE, !.topics = {User}, !.at = WsApi,
                            !.req = "opening"] \in Job
            BY <1>1, <3>1, NewJobs
        <3> QED BY <3>2, <3>3 DEF Typed, TasksTyped
    <2>3. lease' \subseteq Conns
        BY <1>1, <1>3 DEF Recover, Typed, FlagsTyped, connVars
    <2>4. conn' \in [Conns -> ConnAt] /\ first' \in [Paths -> BOOLEAN]
        BY <1>3 DEF Recover, OpenIfAbsent, Typed, ConnsTyped, ConnAt, connVars
    <2> QED BY <1>3, <2>1, <2>2, <2>3, <2>4 DEF Recover, Typed, FlagsTyped, TasksTyped, ConnsTyped,
            recordVars, userVars, serverVars, ctlVars, closeVars, historyVars
<1>4. CASE RecoverEnds
    <2>1. lock' \in Tasks \cup {"free"} /\ pc' \in [Tasks -> PcAt] /\ job' \in Job
        BY <1>1, <1>4, ReleaseTyped DEF RecoverEnds, Typed
    <2>2. blurred' \subseteq Topics /\ cancelled' \subseteq blurred' /\ halfway' \subseteq blurred'
        BY <1>1, <1>4 DEF RecoverEnds, Typed, FlagsTyped
    <2> QED BY <1>4, <2>1, <2>2 DEF RecoverEnds, Typed, FlagsTyped, TasksTyped, ConnsTyped,
            recordVars, userVars, connVars, serverVars, ctlVars, closeVars
<1> QED BY <1>2, <1>3, <1>4

LEMMA ServerHandlesTyped ==
    ASSUME Typed, NEW x \in Conns, ServerHandles(x) PROVE Typed'
<1>1. wire' \in [Conns -> Seq(Request)]
    <2>1. wire[x] \in Seq(Request) /\ wire[x] # <<>>
        BY DEF ServerHandles, Typed, ConnsTyped
    <2>2. Tail(wire[x]) \in Seq(Request)
        BY <2>1, HeadTailProperties
    <2> QED BY <2>2 DEF ServerHandles, Typed, ConnsTyped
<1>2. live' \in [Topics -> 0..2]
    <2>1. \A t \in Topics : live[t] \in 0..2
        BY DEF Typed, ConnsTyped
    <2>2. \A q : Handled(q) \in [Topics -> 0..2]
        <3> SUFFICES ASSUME NEW q PROVE Handled(q) \in [Topics -> 0..2]
            OBVIOUS
        <3>1. \A t \in Topics : Handled(q)[t] \in {live[t], 0, 1, 2}
            BY DEF Handled
        <3>2. \A t \in Topics : Handled(q)[t] \in 0..2
            BY <2>1, <3>1
        <3> QED BY <3>2 DEF Handled
    <2>3. live' = live \/ live' = Handled(Head(wire[x]))
        BY DEF ServerHandles
    <2> QED BY <2>2, <2>3 DEF Typed, ConnsTyped
<1>3. job' \in Job
    <2>1. {"acked", "failed"} \subseteq Requests /\ job \in Job
        BY DEF Requests, Typed, TasksTyped
    <2>2. \/ job' = job \/ job' = [job EXCEPT !.req = "acked"] \/ job' = [job EXCEPT !.req = "failed"]
        BY DEF ServerHandles
    <2> QED BY <2>1, <2>2, JobUpdates
<1>4. faults' \in 0..MaxFaults
    BY FaultTyped DEF ServerHandles, Typed, FlagsTyped
<1> QED BY <1>1, <1>2, <1>3, <1>4 DEF ServerHandles, Typed, FlagsTyped, TasksTyped, ConnsTyped,
        recordVars, userVars, connVars, ctlVars, closeVars, historyVars

LEMMA TimeoutTyped == ASSUME Typed, JobOK, Timeout PROVE Typed'
<1>1. job.at \in Conns /\ job \in Job /\ "failed" \in Requests
    BY DEF Timeout, JobOK, Typed, TasksTyped, Requests
<1>2. job' \in Job
    BY <1>1, JobUpdates DEF Timeout
<1>3. wire' \in [Conns -> Seq(Request)]
    BY <1>1, OrphanedIs DEF Timeout, Typed, ConnsTyped
<1>4. faults' \in 0..MaxFaults
    BY FaultTyped DEF Timeout, Typed
<1> QED BY <1>2, <1>3, <1>4 DEF Timeout, Typed, FlagsTyped, TasksTyped, ConnsTyped,
        recordVars, userVars, connVars, ctlVars, closeVars, historyVars

LEMMA NetworkTyped ==
    ASSUME Typed, NEW x \in Conns, Drop(x) \/ ServerShutdown(x) \/ Recycle(x) \/ Terminate PROVE Typed'
<1>1. "lost" \in ConnAt
    BY DEF ConnAt
<1>2. CASE Drop(x)
    BY <1>1, <1>2, GoneTyped, FaultTyped DEF Drop, Typed, FlagsTyped, recordVars, userVars, ctlVars,
       closeVars, historyVars
<1>3. CASE ServerShutdown(x)
    BY <1>3, FaultTyped DEF ServerShutdown, Typed, FlagsTyped, TasksTyped, ConnsTyped, recordVars,
       userVars, taskVars, connVars, serverVars, closeVars, historyVars
<1>4. CASE Recycle(x)
    <2>1. TasksTyped' /\ ConnsTyped'
        <3>1. CASE conn[x] = "up"
            BY <1>1, <1>4, <3>1, GoneTyped DEF Recycle, Typed
        <3>2. CASE conn[x] # "up"
            BY <1>4, <3>2 DEF Recycle, Typed, TasksTyped, ConnsTyped, taskVars, serverVars
        <3> QED BY <3>1, <3>2
    <2> QED BY <1>4, <2>1 DEF Recycle, Typed, FlagsTyped, recordVars, userVars, closeVars, historyVars
<1>5. CASE Terminate
    <2>1. live' \in [Topics -> 0..2]
        <3>1. live' = [live EXCEPT ![User] = 0] /\ live \in [Topics -> 0..2] /\ 0 \in 0..2
            BY <1>5 DEF Terminate, Typed, ConnsTyped
        <3> QED BY <3>1
    <2> QED BY <1>5, <2>1, FaultTyped DEF Terminate, Typed, FlagsTyped, TasksTyped, ConnsTyped,
            recordVars, userVars, taskVars, connVars, closeVars, historyVars
<1> QED BY <1>2, <1>3, <1>4, <1>5

LEMMA CloseTyped == ASSUME Typed, Close PROVE Typed'
<1>1. Recovery \in Tasks
    BY DEF Tasks
<1>2. lock' \in Tasks \cup {"free"} /\ pc' \in [Tasks -> PcAt] /\ job' \in Job
    BY <1>1, ReleaseTyped DEF Close, Typed, TasksTyped, PcAt
<1>3. wire' \in [Conns -> Seq(Request)]
    BY OrphanAllTyped DEF Close, Typed, ConnsTyped
<1>4. toClose' \subseteq Conns
    BY DEF Close, Closable
<1> QED BY <1>2, <1>3, <1>4 DEF Close, Typed, FlagsTyped, TasksTyped, ConnsTyped, recordVars, connVars

LEMMA ClosersTyped ==
    ASSUME Typed, NEW x \in Conns, CloseStream(x) \/ StreamClosed(x) \/ CloseReturns PROVE Typed'
<1>1. CASE CloseStream(x)
    <2>1. "closing" \in ConnAt
        BY DEF ConnAt
    <2> QED BY <1>1, <2>1, GoneTyped DEF CloseStream, Typed, FlagsTyped, recordVars, userVars, ctlVars,
            closeVars, historyVars
<1>2. CASE StreamClosed(x)
    <2>1. conn' \in [Conns -> ConnAt] /\ reserved' \in [Paths -> Nat]
        BY <1>2 DEF StreamClosed, Typed, ConnsTyped, ConnAt
    <2> QED BY <1>2, <2>1 DEF StreamClosed, Typed, FlagsTyped, TasksTyped, ConnsTyped, recordVars,
            userVars, taskVars, serverVars, ctlVars, historyVars
<1>3. CASE CloseReturns
    BY <1>3 DEF CloseReturns, Typed, FlagsTyped, TasksTyped, ConnsTyped, recordVars, userVars,
       taskVars, connVars, serverVars, ctlVars, historyVars
<1> QED BY <1>1, <1>2, <1>3

LEMMA TypePreserved == ASSUME Typed, JobOK, [Next]_vars PROVE Typed'
<1>1. CASE UNCHANGED vars
    BY <1>1 DEF vars, recordVars, userVars, taskVars, connVars, serverVars, ctlVars, closeVars,
       historyVars, Typed, FlagsTyped, TasksTyped, ConnsTyped
<1>2. WsApi \in Conns
    BY Routes
<1>3. CASE Progress
    BY <1>2, <1>3, BeginTyped, PrepareTyped, ResumeTyped, FailTyped, ReplaysTyped, ServerHandlesTyped,
       NetworkTyped, ClosersTyped, TransmitTyped, LogonTyped, RecoveryTyped DEF Progress
<1>4. CASE Unforced
    BY <1>2, <1>4, CallTyped, CancelCallTyped, NetworkTyped, TimeoutTyped, CloseTyped DEF Unforced
<1> QED BY <1>1, <1>3, <1>4 DEF Next

-----------------------------------------------------------------------------
(* What the actions have in common *)

\* Nothing that matters to the records happens; the server may lose topics.
Still ==
    /\ UNCHANGED <<lock, job, subscribed, streamNames, wire>>
    /\ blurred \subseteq blurred' /\ halfway' = halfway
    /\ \A t \in Topics : live'[t] = live[t] \/ live'[t] = 0
    /\ lock \in Callers => pc'[lock] = pc[lock] /\ call'[lock] = call[lock]

LEMMA StillKeeps == ASSUME Typed, Consistent, Still PROVE Consistent' /\ StayAbsent
<1>1. JobOK'
    BY DEF Still, Consistent, JobOK
<1>2. WireOK'
    BY DEF Still, Consistent, WireOK
<1>3. AgreeOK'
    BY DEF Still, Consistent, AgreeOK
<1>4. \A t \in Topics : Absent(t) => Absent(t)'
    BY DEF Still, Absent
<1>5. GhostOK'
    <2>1. lock' = lock /\ job' = job /\ subscribed' = subscribed /\ blurred \subseteq blurred'
        BY DEF Still
    <2>2. (\A t \in Topics \ blurred :
              t \in subscribed \/ (lock \in Callers /\ t \in job.topics) \/ Absent(t))'
        BY <1>4, <2>1 DEF Consistent, GhostOK
    <2>3. job.topics \subseteq Topics
        BY DEF Typed, TasksTyped, Job
    <2>4. (lock \in Callers /\ ~job.subscribe =>
              \A t \in job.topics :
                  (Route[t] \in job.todo /\ ~(Route[t] = job.at /\ job.req = "acked")) \/ Absent(t))'
        BY <1>4, <2>1, <2>3 DEF Consistent, GhostOK
    <2> QED BY <2>2, <2>4 DEF GhostOK
<1> QED BY <1>1, <1>2, <1>3, <1>4, <1>5 DEF Consistent, StayAbsent

\* The holder gives the lock back, and awaits no answer any more.
Released ==
    /\ lock' = "free" /\ job' = NoJob
    /\ UNCHANGED <<subscribed, streamNames, live>>
    /\ blurred \subseteq blurred' /\ (lock \in Callers => job.topics \subseteq blurred')
    /\ halfway \subseteq halfway' /\ (lock \in Callers /\ job.at = WsApi => job.topics \subseteq halfway')
    /\ \A x \in Conns :
          /\ Len(wire'[x]) = Len(wire[x])
          /\ \A i \in 1..Len(wire[x]) : /\ wire'[x][i].subscribe = wire[x][i].subscribe
                                        /\ wire'[x][i].topics = wire[x][i].topics
                                        /\ ~wire'[x][i].mine

LEMMA ReleasedKeeps == ASSUME Typed, Consistent, Released PROVE Consistent' /\ StayAbsent
<1>1. "free" \notin Callers \cup Conns \cup {Recovery}
    BY Routes DEF Tasks
<1>2. JobOK'
    BY <1>1 DEF Released, JobOK, NoJob
<1>3. WireOK'
    BY DEF Released, Consistent, WireOK
<1>4. AgreeOK'
    BY <1>1 DEF Released, Consistent, AgreeOK
<1>5. \A t \in Topics : Absent(t) => Absent(t)'
    BY Routes DEF Released, Absent
<1>6. GhostOK'
    BY <1>1, <1>5 DEF Released, Consistent, GhostOK
<1> QED BY <1>2, <1>3, <1>4, <1>5, <1>6 DEF Consistent, StayAbsent

\* With no request under way nothing on the wire is awaited.
LEMMA NothingAwaited ==
    ASSUME Typed, Consistent, job.req # "sent"
    PROVE  \A x \in Conns : \A i \in 1..Len(wire[x]) : ~wire[x][i].mine
BY DEF Consistent, WireOK

\* A socket is gone, with all that was sent on it.
LEMMA GoneKeeps ==
    ASSUME Typed, Consistent, NEW x \in Conns, NEW state \in ConnAt, SocketGone(x, state),
           UNCHANGED <<subscribed, streamNames, blurred, halfway, call>>
    PROVE  Consistent' /\ StayAbsent
<1>1. /\ wire' = [wire EXCEPT ![x] = <<>>] /\ Len(wire'[x]) = 0
      /\ \A y \in Conns : y # x => wire'[y] = wire[y]
      /\ \A c \in Callers : pc'[c] = pc[c]
      /\ \A t \in Topics : live'[t] = IF t \in On(x) THEN 0 ELSE live[t]
    BY Routes DEF SocketGone, Typed, TasksTyped, ConnsTyped
<1>2. \A t \in Topics : Absent(t) => Absent(t)'
    BY <1>1, Routes DEF Absent
<1>3. CASE lock = x
    <2>1. lock' = "free" /\ job' = NoJob /\ job.at = x /\ lock \notin Callers
        BY <1>3, Routes DEF SocketGone, Consistent, JobOK
    <2>2. "free" \notin Callers \cup Conns \cup {Recovery}
        BY Routes DEF Tasks
    <2>3. JobOK'
        BY <2>1, <2>2 DEF JobOK, NoJob
    <2>4. WireOK'
        BY <1>1, <2>1 DEF Consistent, WireOK
    <2>5. AgreeOK'
        BY <2>1, <2>2 DEF Consistent, AgreeOK
    <2>6. GhostOK'
        BY <1>2, <2>1, <2>2 DEF Consistent, GhostOK
    <2> QED BY <1>2, <2>3, <2>4, <2>5, <2>6 DEF Consistent, StayAbsent
<1>4. CASE lock # x
    <2>1. /\ lock' = lock /\ job \in Job
          /\ job' = IF job.at = x /\ job.req = "sent" THEN [job EXCEPT !.req = "failed"] ELSE job
        BY <1>4 DEF SocketGone, Typed, TasksTyped
    <2>2. /\ job'.subscribe = job.subscribe /\ job'.topics = job.topics /\ job'.todo = job.todo
          /\ job'.at = job.at
          /\ job'.req = IF job.at = x /\ job.req = "sent" THEN "failed" ELSE job.req
        BY <2>1 DEF Job
    <2>3. JobOK'
        BY <1>1, <2>1, <2>2 DEF Consistent, JobOK
    <2>4. WireOK'
        BY <1>1, <2>2 DEF Consistent, WireOK
    <2>5. AgreeOK'
        BY <2>1, <2>2 DEF Consistent, AgreeOK
    <2>6. GhostOK'
        <3>1. (\A t \in Topics \ blurred :
                  t \in subscribed \/ (lock \in Callers /\ t \in job.topics) \/ Absent(t))'
            BY <1>2, <2>1, <2>2 DEF Consistent, GhostOK
        <3>2. job.topics \subseteq Topics
            BY <2>1 DEF Job
        <3>3. (lock \in Callers /\ ~job.subscribe =>
                  \A t \in job.topics :
                      (Route[t] \in job.todo /\ ~(Route[t] = job.at /\ job.req = "acked")) \/ Absent(t))'
            BY <1>2, <2>1, <2>2, <3>2 DEF Consistent, GhostOK
        <3> QED BY <3>1, <3>3 DEF GhostOK
    <2> QED BY <1>2, <2>3, <2>4, <2>5, <2>6 DEF Consistent, StayAbsent
<1> QED BY <1>3, <1>4

LEMMA StillActions ==
    ASSUME Typed, Consistent, NEW x \in Conns,
           \/ (\E c \in Callers : Call(c)) \/ Opened(x) \/ Logon \/ HandleTerminated \/ ServerShutdown(x)
           \/ Terminate \/ StreamClosed(x) \/ CloseReturns
    PROVE  Still
<1>1. x \in Tasks /\ WsApi \in Tasks /\ Recovery \in Tasks
    BY Routes
<1>2. lock \in Callers => lock \notin Conns /\ lock # Recovery /\ lock # WsApi /\ pc[lock] = "holding"
    BY Routes DEF Consistent, JobOK
<1>3. CASE \E c \in Callers : Call(c)
    <2> PICK c \in Callers : Call(c)
        BY <1>3
    <2>1. c \in Tasks /\ (lock \in Callers => lock # c)
        BY <1>2, Routes DEF Call
    <2> QED BY <2>1 DEF Call, Still, Typed, TasksTyped, recordVars, serverVars
<1>4. CASE Opened(x)
    BY <1>1, <1>2, <1>4 DEF Opened, Still, Typed, TasksTyped, recordVars, serverVars, historyVars
<1>5. CASE Logon
    <2>1. \E place \in {"waiting", "idle"} : pc' = [pc EXCEPT ![WsApi] = place]
        BY <1>5 DEF Logon
    <2>2. lock \in Callers => pc'[lock] = pc[lock]
        BY <1>1, <1>2, <2>1, Routes DEF Typed, TasksTyped
    <2> QED BY <1>5, <2>2 DEF Logon, Still, recordVars, serverVars, historyVars
<1>6. CASE HandleTerminated
    BY <1>1, <1>2, <1>6 DEF HandleTerminated, Still, Typed, TasksTyped, recordVars, serverVars
<1>7. CASE ServerShutdown(x)
    BY <1>7 DEF ServerShutdown, Still, recordVars, taskVars, serverVars, historyVars
<1>8. CASE Terminate
    BY <1>8 DEF Terminate, Still, Typed, ConnsTyped, recordVars, taskVars, historyVars
<1>9. CASE StreamClosed(x) \/ CloseReturns
    BY <1>9 DEF StreamClosed, CloseReturns, Still, recordVars, taskVars, serverVars, historyVars
<1> QED BY <1>3, <1>4, <1>5, <1>6, <1>7, <1>8, <1>9

\* Orphaning every queue, or none when no answer is awaited, disowns what is sent.
LEMMA Disowned ==
    ASSUME Typed, Consistent,
           wire' = [x \in Conns |-> Orphaned(wire[x])] \/ (wire' = wire /\ job.req # "sent")
    PROVE  \A x \in Conns :
              /\ Len(wire'[x]) = Len(wire[x])
              /\ \A i \in 1..Len(wire[x]) : /\ wire'[x][i].subscribe = wire[x][i].subscribe
                                            /\ wire'[x][i].topics = wire[x][i].topics
                                            /\ ~wire'[x][i].mine
<1>1. CASE wire' = [x \in Conns |-> Orphaned(wire[x])]
    BY <1>1, OrphanedIs DEF Typed, ConnsTyped
<1>2. CASE wire' = wire /\ job.req # "sent"
    BY <1>2, NothingAwaited
<1> QED BY <1>1, <1>2

LEMMA ReleasedActions ==
    ASSUME Typed, Consistent, NEW x \in Conns,
           \/ (\E c \in Callers : Fail(c) \/ (CancelCall(c) /\ lock = c)) \/ ReplayEnds(x) \/ RecoverEnds
           \/ (Close /\ lock = Recovery)
    PROVE  Released
<1>1. CASE \E c \in Callers : Fail(c)
    BY <1>1, Disowned DEF Fail, EndedHalfway, Release, Released, recordVars, serverVars
<1>2. CASE \E c \in Callers : CancelCall(c) /\ lock = c
    BY <1>2, Disowned DEF CancelCall, EndedHalfway, Release, Released, recordVars
<1>3. CASE ReplayEnds(x)
    BY <1>3, Disowned, Routes DEF ReplayEnds, Release, Released, recordVars, serverVars, historyVars
<1>4. CASE RecoverEnds
    BY <1>4, Disowned, Routes DEF RecoverEnds, Release, Released, recordVars, serverVars
<1>5. CASE Close /\ lock = Recovery
    BY <1>5, Disowned, Routes DEF Close, Release, Released, recordVars
<1> QED BY <1>1, <1>2, <1>3, <1>4, <1>5

LEMMA CancelCloseKeep ==
    ASSUME Typed, Consistent, (\E c \in Callers : CancelCall(c)) \/ Close
    PROVE  Consistent' /\ StayAbsent
<1>1. CASE (\E c \in Callers : CancelCall(c) /\ lock = c) \/ (Close /\ lock = Recovery)
    BY <1>1, ReleasedActions, ReleasedKeeps, Routes
<1>2. CASE \E c \in Callers : CancelCall(c) /\ lock # c
    <2> PICK c \in Callers : CancelCall(c) /\ lock # c
        BY <1>2
    <2>1. c \in Tasks
        BY Routes
    <2>2. /\ UNCHANGED <<lock, job, subscribed, streamNames, wire, blurred, halfway, live>>
          /\ pc' = [pc EXCEPT ![c] = "idle"] /\ call' = [call EXCEPT ![c] = NoCall]
        BY DEF CancelCall, Return, recordVars
    <2>3. lock \in Callers => pc'[lock] = pc[lock] /\ call'[lock] = call[lock]
        BY <2>1, <2>2, Routes DEF Typed, TasksTyped
    <2>4. Still
        BY <2>2, <2>3 DEF Still
    <2> QED BY <2>4, StillKeeps
<1>3. CASE Close /\ lock # Recovery
    <2>1. Recovery \in Tasks /\ Recovery \notin Callers
        BY Routes
    <2>2. Still
        <3>1. /\ UNCHANGED <<lock, job, subscribed, streamNames, wire, blurred, halfway, live, call>>
              /\ pc' = [pc EXCEPT ![Recovery] = "idle"]
            BY <1>3 DEF Close, recordVars
        <3>2. lock \in Callers => pc'[lock] = pc[lock]
            BY <2>1, <3>1, Routes DEF Typed, TasksTyped
        <3> QED BY <3>1, <3>2 DEF Still
    <2> QED BY <2>2, StillKeeps
<1> QED BY <1>1, <1>2, <1>3

LEMMA NetworkKeeps ==
    ASSUME Typed, Consistent, NEW x \in Conns, Drop(x) \/ Recycle(x) \/ CloseStream(x)
    PROVE  Consistent' /\ StayAbsent
<1>1. {"lost", "closing"} \subseteq ConnAt
    BY DEF ConnAt
<1>2. CASE Drop(x)
    BY <1>1, <1>2, GoneKeeps DEF Drop, recordVars, historyVars
<1>3. CASE Recycle(x) /\ conn[x] = "up"
    BY <1>1, <1>3, GoneKeeps DEF Recycle, recordVars, historyVars
<1>4. CASE Recycle(x) /\ conn[x] # "up"
    BY <1>4, StillKeeps DEF Recycle, Still, recordVars, taskVars, serverVars, historyVars
<1>5. CASE CloseStream(x)
    BY <1>1, <1>5, GoneKeeps DEF CloseStream, recordVars, historyVars
<1> QED BY <1>2, <1>3, <1>4, <1>5

-----------------------------------------------------------------------------
(* The lock is taken *)

LEMMA BeginKeeps ==
    ASSUME Typed, Consistent, NEW c \in Callers, Begin(c) PROVE Consistent' /\ StayAbsent
<1>1. /\ UNCHANGED <<streamNames, wire, live, blurred, halfway>> /\ lock = "free"
      /\ call[c] \in CallType /\ c \in Tasks /\ lock \notin Callers
    BY Routes DEF Begin, Typed, TasksTyped, serverVars, historyVars
<1>2. \A t \in Topics : Absent(t) => Absent(t)'
    BY <1>1 DEF Absent
<1>3. job.req = "none"
    BY <1>1 DEF Consistent, JobOK
<1>4. CASE Remaining(c) = {}
    <2>1. subscribed' = subscribed
        <3>1. \A t \in call[c].topics : t = User /\ User \in subscribed /\ call[c].subscribe
            BY <1>4 DEF Remaining
        <3> QED BY <1>4, <3>1 DEF Begin, Recorded
    <2>2. Still
        BY <1>1, <1>4, <2>1 DEF Begin, Still
    <2> QED BY <2>2, StillKeeps
<1>5. CASE Remaining(c) # {}
    <2>1. /\ lock' = c /\ subscribed' = subscribed /\ call' = call /\ pc'[c] = "holding"
          /\ job'.subscribe = call[c].subscribe /\ job'.topics = call[c].topics
          /\ job'.todo = Remaining(c) /\ job'.req = "prepare" /\ job'.at = "none"
        BY <1>1, <1>5 DEF Begin, Typed, TasksTyped, NoJob
    <2>2. /\ c \notin Conns /\ c # Recovery /\ c # "free" /\ WsApi # "none" /\ "none" \notin Conns
        BY Routes
    <2>3. \A t \in call[c].topics : Route[t] \in Remaining(c) \/ (t = User /\ call[c].subscribe)
        BY DEF Remaining
    <2>4. JobOK'
        <3>1. call'[c] = [subscribe |-> job'.subscribe, topics |-> job'.topics]
            BY <1>1, <2>1 DEF CallType
        <3> QED BY <2>1, <2>2, <2>3, <3>1 DEF JobOK
    <2>5. WireOK'
        BY <1>1, <1>3, <2>1 DEF Consistent, WireOK
    <2>6. AgreeOK'
        BY <1>1, <2>1, <2>2 DEF Consistent, AgreeOK
    <2>7. GhostOK'
        <3>1. (\A t \in Topics \ blurred :
                  t \in subscribed \/ (lock \in Callers /\ t \in job.topics) \/ Absent(t))'
            BY <1>1, <1>2, <2>1 DEF Consistent, GhostOK
        <3>2. (lock \in Callers /\ ~job.subscribe =>
                  \A t \in job.topics :
                      (Route[t] \in job.todo /\ ~(Route[t] = job.at /\ job.req = "acked")) \/ Absent(t))'
            BY <2>1, <2>3
        <3> QED BY <3>1, <3>2 DEF GhostOK
    <2> QED BY <1>2, <2>4, <2>5, <2>6, <2>7 DEF Consistent, StayAbsent
<1> QED BY <1>4, <1>5

\* A replay or a recovery takes the lock.
LEMMA ReplayBegins ==
    ASSUME Typed, Consistent, lock = "free", NEW x \in Conns,
           NEW t \in Conns \cup {Recovery}, t \in Conns => t = x,
           NEW T, T \subseteq subscribed, lock' = t,
           job' = [NoJob EXCEPT !.subscribe = TRUE, !.topics = T, !.at = x, !.req = "opening"],
           UNCHANGED <<subscribed, streamNames, blurred, halfway, wire, live>>
    PROVE  Consistent' /\ StayAbsent
<1>1. /\ job'.subscribe /\ job'.topics = T /\ job'.at = x /\ job'.req = "opening"
    BY DEF NoJob
<1>2. lock \notin Callers /\ t \notin Callers /\ t # "free"
    BY Routes
<1>3. job.req = "none"
    BY DEF Consistent, JobOK
<1>4. JobOK'
    BY <1>1, <1>2 DEF JobOK
<1>5. WireOK'
    BY <1>1, <1>3 DEF Consistent, WireOK
<1>6. AgreeOK'
    BY <1>2 DEF Consistent, AgreeOK
<1>7. GhostOK'
    BY <1>2 DEF Consistent, GhostOK, Absent
<1>8. StayAbsent
    BY DEF StayAbsent, Absent
<1> QED BY <1>4, <1>5, <1>6, <1>7, <1>8 DEF Consistent

LEMMA ReplayKeeps ==
    ASSUME Typed, Consistent, NEW x \in Conns, Replay(x) PROVE Consistent' /\ StayAbsent
<1>1. lock \notin Callers /\ x \notin Callers /\ lock = "free"
    BY Routes DEF Replay
<1>2. CASE subscribed \cap On(x) = {}
    <2>1. Still
        BY <1>1, <1>2 DEF Replay, Still, recordVars, serverVars, historyVars
    <2> QED BY <2>1, StillKeeps
<1>3. CASE subscribed \cap On(x) # {}
    <2>1. /\ lock' = x /\ UNCHANGED <<subscribed, streamNames, blurred, halfway, wire, live>>
          /\ job' = [NoJob EXCEPT !.subscribe = TRUE, !.topics = subscribed \cap On(x), !.at = x,
                                  !.req = "opening"]
        BY <1>3 DEF Replay, recordVars, serverVars, historyVars
    <2>2. PICK T : T = subscribed \cap On(x)
        OBVIOUS
    <2>3. T \subseteq subscribed
        BY <2>2
    <2>4. job' = [NoJob EXCEPT !.subscribe = TRUE, !.topics = T, !.at = x, !.req = "opening"]
        BY <2>1, <2>2
    <2>5. PICK t \in Conns \cup {Recovery} : t = x
        OBVIOUS
    <2>6. lock' = t /\ lock = "free" /\ (t \in Conns => t = x)
        BY <1>1, <2>1, <2>5
    <2>7. UNCHANGED <<subscribed, streamNames, blurred, halfway, wire, live>>
        BY <2>1
    <2> QED BY <2>3, <2>4, <2>6, <2>7, ReplayBegins
<1> QED BY <1>2, <1>3

LEMMA RecoverKeeps ==
    ASSUME Typed, Consistent, Recover PROVE Consistent' /\ StayAbsent
<1>1. lock = "free" /\ lock \notin Callers /\ WsApi \in Conns /\ Recovery \notin Conns
    BY Routes DEF Recover
<1>2. CASE ~RecoveryDue
    <2>1. Still
        BY <1>1, <1>2 DEF Recover, Still, recordVars, serverVars, historyVars
    <2> QED BY <2>1, StillKeeps
<1>3. CASE RecoveryDue
    <2>1. /\ lock' = Recovery /\ {User} \subseteq subscribed
          /\ UNCHANGED <<subscribed, streamNames, blurred, halfway, wire, live>>
          /\ job' = [NoJob EXCEPT !.subscribe = TRUE, !.topics = {User}, !.at = WsApi, !.req = "opening"]
        BY <1>3 DEF Recover, RecoveryDue, recordVars, serverVars, historyVars
    <2>2. PICK T : T = {User}
        OBVIOUS
    <2>3. /\ T \subseteq subscribed
          /\ job' = [NoJob EXCEPT !.subscribe = TRUE, !.topics = T, !.at = WsApi, !.req = "opening"]
        BY <2>1, <2>2
    <2>4. PICK t : t = Recovery
        OBVIOUS
    <2>5. t \in Conns \cup {Recovery} /\ (t \in Conns => t = WsApi) /\ lock' = t
        BY <1>1, <2>1, <2>4
    <2> QED BY <1>1, <2>1, <2>3, <2>5, ReplayBegins
<1> QED BY <1>2, <1>3

-----------------------------------------------------------------------------
(* The parts of a call *)

\* The next part is for connection x.
LEMMA SendToIs ==
    ASSUME Typed, NEW x \in Conns, NEW S, SendTo(x, S)
    PROVE  /\ job'.subscribe = job.subscribe /\ job'.topics = job.topics
           /\ job'.todo = job.todo \ {job.at} /\ job'.at = x /\ job'.req \in {"opening", "refused"}
           /\ x = WsApi => job.todo \subseteq {job.at, WsApi}
BY DEF SendTo, Typed, TasksTyped, Job

LEMMA PrepareIs ==
    ASSUME Typed, Consistent, NEW c \in Callers, Prepare(c)
    PROVE  /\ job'.subscribe = job.subscribe /\ job'.topics = job.topics /\ job'.todo = job.todo
           /\ \/ job'.at \in Conns /\ job'.req \in {"opening", "refused"} /\ (job'.at = WsApi => job.todo \subseteq {WsApi})
              \/ job'.at = "none" /\ job'.req = "failed"
<1>1. job \in Job /\ job.at = "none" /\ job.todo \subseteq Conns /\ "none" \notin Conns
    BY Routes DEF Prepare, Consistent, JobOK, Typed, TasksTyped, Job
<1>2. ASSUME NEW x \in job.todo, NEW S, SendTo(x, S)
      PROVE  /\ job'.subscribe = job.subscribe /\ job'.topics = job.topics /\ job'.todo = job.todo
             /\ job'.at \in Conns /\ job'.req \in {"opening", "refused"} /\ (job'.at = WsApi => job.todo \subseteq {WsApi})
    <2>1. x \in Conns
        BY <1>1
    <2>2. /\ job'.subscribe = job.subscribe /\ job'.topics = job.topics
          /\ job'.todo = job.todo \ {job.at} /\ job'.at = x /\ job'.req \in {"opening", "refused"}
          /\ x = WsApi => job.todo \subseteq {job.at, WsApi}
        BY <1>2, <2>1, SendToIs
    <2> QED BY <1>1, <2>1, <2>2
<1>3. ASSUME NEW S, job' = [job EXCEPT !.reserved = S, !.req = "failed"]
      PROVE  /\ job'.subscribe = job.subscribe /\ job'.topics = job.topics /\ job'.todo = job.todo
             /\ job'.at = "none" /\ job'.req = "failed"
    BY <1>1, <1>3 DEF Job
<1>4. \/ \E x \in job.todo : \E S : SendTo(x, S)
      \/ \E S : job' = [job EXCEPT !.reserved = S, !.req = "failed"]
    BY Zenon DEF Prepare
<1> QED BY <1>2, <1>3, <1>4

LEMMA PrepareKeeps ==
    ASSUME Typed, Consistent, NEW c \in Callers, Prepare(c) PROVE Consistent' /\ StayAbsent
<1>1. /\ lock = c /\ UNCHANGED <<lock, pc, call, subscribed, streamNames, blurred, halfway, wire, live>>
      /\ job.req = "prepare" /\ job.at = "none" /\ WsApi \notin Paths /\ WsApi # "none"
      /\ c \notin Conns /\ c # Recovery /\ c # "free"
    BY Routes DEF Prepare, Consistent, JobOK, recordVars, serverVars, historyVars
<1>2. /\ job'.subscribe = job.subscribe /\ job'.topics = job.topics /\ job'.todo = job.todo
      /\ \/ job'.at \in Conns /\ job'.req \in {"opening", "refused"} /\ (job'.at = WsApi => job.todo \subseteq {WsApi})
         \/ job'.at = "none" /\ job'.req = "failed"
    BY PrepareIs
<1>3. JobOK'
    BY <1>1, <1>2 DEF Consistent, JobOK
<1>4. WireOK'
    BY <1>1 DEF Consistent, WireOK
<1>5. AgreeOK'
    <2>1. \A n \in Names \ halfway : n \in subscribed <=> n \in streamNames
        BY <1>1 DEF Consistent, AgreeOK
    <2>2. job'.at = WsApi => job.topics \cap Names = {}
        <3> SUFFICES ASSUME job'.at = WsApi, NEW n \in job.topics \cap Names PROVE FALSE
            OBVIOUS
        <3>1. Route[n] \in job.todo /\ Route[n] \in Paths
            BY <1>1, Routes DEF Consistent, JobOK, Names
        <3> QED BY <1>1, <1>2, <3>1
    <2> QED BY <1>1, <1>2, <2>1, <2>2 DEF AgreeOK
<1>6. GhostOK'
    <2>1. \A t \in Topics : Absent(t)' <=> Absent(t)
        BY <1>1 DEF Absent
    <2>2. job.topics \subseteq Topics
        BY DEF Typed, TasksTyped, Job
    <2> QED BY <1>1, <1>2, <2>1, <2>2 DEF Consistent, GhostOK
<1>7. StayAbsent
    BY <1>1 DEF StayAbsent, Absent
<1> QED BY <1>3, <1>4, <1>5, <1>6, <1>7 DEF Consistent

LEMMA ResumeKeeps ==
    ASSUME Typed, Consistent, NEW c \in Callers, Resume(c) PROVE Consistent' /\ StayAbsent
<1> DEFINE todo == job.todo \ {job.at}
           names == job.topics \cap Names
<1>1. /\ lock = c /\ job.req = "acked" /\ UNCHANGED <<blurred, halfway, wire, live>>
      /\ WsApi \notin Paths /\ c \notin Conns /\ c # Recovery /\ c # "free"
      /\ "free" \notin Callers \cup Conns \cup {Recovery}
      /\ job.todo \subseteq Conns /\ job.topics \subseteq Topics
    BY Routes DEF Resume, MarketAnswered, serverVars, historyVars, Typed, TasksTyped, Job
<1>2. /\ job.at \in Conns /\ (job.at = WsApi => job.todo \subseteq {WsApi})
      /\ call[c].subscribe = job.subscribe /\ call[c].topics = job.topics /\ pc[c] = "holding"
      /\ call[c] = [subscribe |-> job.subscribe, topics |-> job.topics]
    BY <1>1 DEF Consistent, JobOK
<1>3. \A t \in Topics : Absent(t)' <=> Absent(t)
    BY <1>1 DEF Absent
<1>4. /\ job.at \in Paths /\ todo \subseteq {WsApi} =>
            streamNames' = IF job.subscribe THEN streamNames \cup names ELSE streamNames \ names
      /\ ~(job.at \in Paths /\ todo \subseteq {WsApi}) => streamNames' = streamNames
    BY DEF Resume, MarketAnswered
<1>5. \A x \in Conns : \A i \in 1..Len(wire[x]) : ~wire[x][i].mine
    BY <1>1, NothingAwaited
<1>6. WireOK'
    BY <1>1, <1>5 DEF Consistent, WireOK
<1>7. \A t \in job.topics : ~job.subscribe /\ Route[t] \notin todo => Absent(t)
    BY <1>1, <1>2 DEF Consistent, GhostOK
<1>8. job.at # WsApi => \A n \in Names \ halfway : n \in subscribed <=> n \in streamNames
    BY <1>1 DEF Consistent, AgreeOK
<1>9. CASE todo = {}
    <2>1. /\ lock' = "free" /\ job' = NoJob /\ subscribed' = Recorded(c)
        BY <1>9 DEF Resume, MarketAnswered, Release
    <2>2. subscribed' = IF job.subscribe THEN subscribed \cup job.topics ELSE subscribed \ job.topics
        BY <1>2, <2>1 DEF Recorded
    <2>3. JobOK'
        BY <1>1, <2>1 DEF JobOK, NoJob
    <2>4. AgreeOK'
        <3>1. CASE job.at = WsApi
            BY <1>1, <1>4, <2>1, <2>2, <3>1 DEF Consistent, AgreeOK
        <3>2. CASE job.at # WsApi
            <4>1. job.at \in Paths
                BY <1>2, <3>2 DEF Conns
            <4>2. streamNames' = IF job.subscribe THEN streamNames \cup names ELSE streamNames \ names
                BY <1>4, <1>9, <4>1
            <4> QED BY <1>1, <1>8, <2>1, <2>2, <3>2, <4>2 DEF AgreeOK
        <3> QED BY <3>1, <3>2
    <2>5. GhostOK'
        <3>1. \A t \in Topics \ blurred : t \in subscribed' \/ Absent(t)
            BY <1>1, <1>7, <1>9, <2>2 DEF Consistent, GhostOK
        <3> QED BY <1>1, <1>3, <2>1, <3>1 DEF GhostOK
    <2> QED BY <1>3, <1>6, <2>3, <2>4, <2>5 DEF Consistent, StayAbsent
<1>10. CASE todo # {}
    <2>1. PICK x \in todo : SendTo(x, {})
        BY <1>10 DEF Resume, MarketAnswered
    <2>2. UNCHANGED <<subscribed, lock, pc, call>> /\ x \in Conns
        BY <1>1, <1>10 DEF Resume, MarketAnswered
    <2>3. /\ job'.subscribe = job.subscribe /\ job'.topics = job.topics
          /\ job'.todo = todo /\ job'.at = x /\ job'.req \in {"opening", "refused"}
          /\ x = WsApi => job.todo \subseteq {job.at, WsApi}
        BY <2>1, <2>2, SendToIs
    <2>4. job.at # WsApi /\ job.at \in Paths
        BY <1>2, <1>10 DEF Conns
    <2>5. JobOK'
        BY <1>1, <1>2, <2>2, <2>3 DEF JobOK
    <2>6. AgreeOK'
        <3>1. CASE x = WsApi
            <4>1. streamNames' = IF job.subscribe THEN streamNames \cup names ELSE streamNames \ names
                BY <1>4, <2>3, <2>4, <3>1
            <4> QED BY <1>1, <1>8, <2>2, <2>3, <2>4, <3>1, <4>1 DEF AgreeOK
        <3>2. CASE x # WsApi
            <4>1. streamNames' = streamNames
                BY <1>4, <2>1, <3>2
            <4> QED BY <1>1, <1>8, <2>2, <2>3, <2>4, <3>2, <4>1 DEF AgreeOK
        <3> QED BY <3>1, <3>2
    <2>7. GhostOK'
        <3>1. \A t \in Topics \ blurred : t \in subscribed \/ t \in job.topics \/ Absent(t)
            BY <1>1 DEF Consistent, GhostOK
        <3> QED BY <1>1, <1>3, <1>7, <2>2, <2>3, <3>1 DEF GhostOK
    <2> QED BY <1>3, <1>6, <2>5, <2>6, <2>7 DEF Consistent, StayAbsent
<1> QED BY <1>9, <1>10

-----------------------------------------------------------------------------
(* Requests *)

LEMMA TransmitKeeps ==
    ASSUME Typed, Consistent, Transmit
    PROVE  /\ Consistent'
           /\ \A t \in Topics : Absent(t) /\ ~(job.subscribe /\ t \in job.topics) => Absent(t)'
<1> DEFINE x == job.at
           q == [subscribe |-> job.subscribe, topics |-> job.topics \cap On(x), mine |-> TRUE]
<1>1. /\ UNCHANGED <<lock, pc, call, subscribed, streamNames, blurred, halfway, live>>
      /\ job.req = "opening" /\ x \in Conns /\ job \in Job /\ lock # "free"
      /\ lock \in Tasks \cup {"free"}
    BY DEF Transmit, Consistent, JobOK, Typed, TasksTyped, recordVars, connVars, historyVars
<1>2. \/ wire' = [wire EXCEPT ![x] = Append(wire[x], q)] /\ job' = [job EXCEPT !.req = "sent"]
      \/ wire' = wire /\ job' = [job EXCEPT !.req = "failed"]
    BY DEF Transmit
<1>3. /\ job'.subscribe = job.subscribe /\ job'.topics = job.topics /\ job'.todo = job.todo
      /\ job'.at = x /\ job'.req \in {"sent", "failed"}
    BY <1>1, <1>2 DEF Job
<1>4. JobOK'
    BY <1>1, <1>3 DEF Consistent, JobOK
<1>5. \A y \in Conns : \A i \in 1..Len(wire[y]) : ~wire[y][i].mine
    BY <1>1, NothingAwaited
<1>6. CASE wire' = wire
    <2>1. WireOK'
        BY <1>5, <1>6 DEF Consistent, WireOK
    <2>2. AgreeOK'
        BY <1>1, <1>3 DEF Consistent, AgreeOK
    <2>3. \A t \in Topics : Absent(t)' <=> Absent(t)
        BY <1>1, <1>6 DEF Absent
    <2>4. job.topics \subseteq Topics
        BY <1>1 DEF Job
    <2>5. GhostOK'
        BY <1>1, <1>3, <2>3, <2>4 DEF Consistent, GhostOK
    <2> QED BY <1>4, <2>1, <2>2, <2>3, <2>5 DEF Consistent
<1>7. CASE /\ wire' = [wire EXCEPT ![x] = Append(wire[x], q)]
           /\ job' = [job EXCEPT !.req = "sent"]
    <2>1. q \in Request /\ wire[x] \in Seq(Request) /\ Len(wire[x]) \in Nat
        BY <1>1, LenProperties DEF Request, Job, Typed, ConnsTyped
    <2>2. /\ Len(wire'[x]) = Len(wire[x]) + 1 /\ wire'[x][Len(wire[x]) + 1] = q
          /\ \A i \in 1..Len(wire[x]) : wire'[x][i] = wire[x][i]
        <3>1. wire'[x] = Append(wire[x], q)
            BY <1>1, <1>7 DEF Typed, ConnsTyped
        <3> HIDE DEF q
        <3> QED BY <2>1, <3>1, AppendProperties
    <2>3. \A y \in Conns : y # x => wire'[y] = wire[y]
        BY <1>7 DEF Typed, ConnsTyped
    <2>4. \A i \in 1..Len(wire'[x]) : i \in 1..Len(wire[x]) \/ i = Len(wire'[x])
        BY <2>1, <2>2
    <2>5. job'.req = "sent"
        BY <1>1, <1>7 DEF Job
    <2>6. WireOK'
        <3> SUFFICES ASSUME NEW y \in Conns, NEW i \in 1..Len(wire'[y])
                     PROVE  /\ wire'[y][i].topics \subseteq On(y)
                            /\ wire'[y][i].mine =>
                                  /\ y = job'.at /\ job'.req = "sent" /\ i = Len(wire'[y])
                                  /\ wire'[y][i].subscribe = job'.subscribe
                                  /\ wire'[y][i].topics = job'.topics \cap On(y)
            BY DEF WireOK, On
        <3>1. CASE y # x
            BY <1>5, <2>3, <3>1 DEF Consistent, WireOK
        <3>2. CASE y = x /\ i \in 1..Len(wire[x])
            BY <1>5, <2>2, <3>2 DEF Consistent, WireOK
        <3>3. CASE y = x /\ i = Len(wire'[x])
            BY <1>3, <2>2, <2>5, <3>3
        <3> QED BY <2>4, <3>1, <3>2, <3>3
    <2>7. AgreeOK'
        BY <1>1, <1>3 DEF Consistent, AgreeOK
    <2>8. ASSUME NEW t \in Topics, Absent(t), ~job.subscribe \/ t \notin job.topics PROVE Absent(t)'
        <3>1. CASE Route[t] # x
            BY <1>1, <2>3, <2>8, <3>1, Routes DEF Absent
        <3>2. CASE Route[t] = x
            BY <1>1, <2>2, <2>4, <2>8, <3>2 DEF Absent
        <3> QED BY <3>1, <3>2
    <2>9. job.topics \subseteq Topics
        BY <1>1 DEF Job
    <2>10. GhostOK'
        <3>1. (\A t \in Topics \ blurred :
                  t \in subscribed \/ (lock \in Callers /\ t \in job.topics) \/ Absent(t))'
            <4> SUFFICES ASSUME NEW t \in Topics \ blurred', t \notin subscribed',
                                ~(lock' \in Callers /\ t \in job'.topics)
                         PROVE  Absent(t)'
                OBVIOUS
            <4>1. Absent(t)
                BY <1>1, <1>3 DEF Consistent, GhostOK
            <4>2. t \notin job.topics
                BY <1>1, <1>3 DEF Consistent, JobOK, Tasks
            <4> QED BY <2>8, <4>1, <4>2
        <3>2. (lock \in Callers /\ ~job.subscribe =>
                  \A t \in job.topics :
                      (Route[t] \in job.todo /\ ~(Route[t] = job.at /\ job.req = "acked")) \/ Absent(t))'
            BY <1>1, <1>3, <2>8, <2>9 DEF Consistent, GhostOK
        <3> QED BY <3>1, <3>2 DEF GhostOK
    <2> QED BY <1>4, <2>6, <2>7, <2>8, <2>10 DEF Consistent
<1> QED BY <1>2, <1>6, <1>7

LEMMA ServerHandlesKeeps ==
    ASSUME Typed, Consistent, NEW x \in Conns, ServerHandles(x) PROVE Consistent' /\ StayAbsent
<1> DEFINE q == wire[x][1]
<1>1. /\ wire[x] \in Seq(Request) /\ wire[x] # <<>> /\ Len(wire[x]) \in Nat /\ Len(wire[x]) >= 1
      /\ Head(wire[x]) = q /\ Len(Tail(wire[x])) = Len(wire[x]) - 1
      /\ \A i \in 1..(Len(wire[x]) - 1) : Tail(wire[x])[i] = wire[x][i + 1]
    <2>1. wire[x] \in Seq(Request) /\ wire[x] # <<>>
        BY DEF ServerHandles, Typed, ConnsTyped
    <2>2. Len(wire[x]) \in Nat /\ Len(wire[x]) >= 1 /\ Len(Tail(wire[x])) = Len(wire[x]) - 1
        BY <2>1, HeadTailProperties, LenProperties
    <2>3. Head(wire[x]) = q
        BY <2>1
    <2>4. \A i \in 1..(Len(wire[x]) - 1) : Tail(wire[x])[i] = wire[x][i + 1]
        BY <2>1, <2>2, HeadTailProperties
    <2> QED BY <2>1, <2>2, <2>3, <2>4
<1>2. /\ UNCHANGED <<lock, pc, call, subscribed, streamNames, blurred, halfway>>
      /\ wire' = [wire EXCEPT ![x] = Tail(wire[x])]
      /\ \/ live' = Handled(q) /\ job' = IF q.mine THEN [job EXCEPT !.req = "acked"] ELSE job
         \/ live' = live /\ job' = IF q.mine THEN [job EXCEPT !.req = "failed"] ELSE job
      /\ job \in Job /\ job.topics \subseteq Topics
    BY <1>1 DEF ServerHandles, Typed, TasksTyped, Job, recordVars, connVars, historyVars
<1>3. /\ wire'[x] = Tail(wire[x]) /\ \A y \in Conns : y # x => wire'[y] = wire[y]
    BY <1>2 DEF Typed, ConnsTyped
<1>4. \A i \in 1..Len(wire'[x]) : i + 1 \in 1..Len(wire[x]) /\ wire'[x][i] = wire[x][i + 1]
    BY <1>1, <1>3
<1>5. 1 \in 1..Len(wire[x])
    BY <1>1
<1>6. /\ q.topics \subseteq On(x)
      /\ q.mine => /\ x = job.at /\ job.req = "sent" /\ Len(wire[x]) = 1
                   /\ q.subscribe = job.subscribe /\ q.topics = job.topics \cap On(x)
    BY <1>5 DEF Consistent, WireOK
<1>7. /\ job'.subscribe = job.subscribe /\ job'.topics = job.topics /\ job'.todo = job.todo
      /\ job'.at = job.at
      /\ ~q.mine => job' = job
      /\ q.mine => job'.req \in {"acked", "failed"} /\ (job'.req = "acked" => live' = Handled(q))
    BY <1>2 DEF Job
<1>8. JobOK'
    <2>1. CASE q.mine
        BY <1>2, <1>6, <1>7, <2>1 DEF Consistent, JobOK
    <2>2. CASE ~q.mine
        BY <1>2, <1>7, <2>2 DEF Consistent, JobOK
    <2> QED BY <2>1, <2>2
<1>9. WireOK'
    <2>1. CASE q.mine
        <3>1. Len(wire'[x]) = 0
            BY <1>1, <1>3, <1>6, <2>1
        <3>2. \A y \in Conns : y # x => \A i \in 1..Len(wire[y]) : ~wire[y][i].mine
            BY <1>6, <2>1 DEF Consistent, WireOK
        <3> SUFFICES ASSUME NEW y \in Conns, NEW i \in 1..Len(wire'[y])
                     PROVE  wire'[y][i].topics \subseteq On(y) /\ ~wire'[y][i].mine
            BY DEF WireOK, On
        <3>5. y # x
            BY <3>1
        <3>3. wire'[y] = wire[y]
            BY <1>3, <3>5
        <3>4. wire[y][i].topics \subseteq On(y) /\ ~wire[y][i].mine
            BY <3>2, <3>3, <3>5 DEF Consistent, WireOK
        <3> QED BY <3>3, <3>4
    <2>2. CASE ~q.mine
        <3>1. Len(wire'[x]) = Len(wire[x]) - 1
            BY <1>1, <1>3
        <3> SUFFICES ASSUME NEW y \in Conns, NEW i \in 1..Len(wire'[y])
                     PROVE  /\ wire'[y][i].topics \subseteq On(y)
                            /\ wire'[y][i].mine =>
                                  /\ y = job'.at /\ job'.req = "sent" /\ i = Len(wire'[y])
                                  /\ wire'[y][i].subscribe = job'.subscribe
                                  /\ wire'[y][i].topics = job'.topics \cap On(y)
            BY DEF WireOK, On
        <3>2. CASE y # x
            BY <1>3, <1>7, <2>2, <3>2 DEF Consistent, WireOK
        <3>3. CASE y = x
            <4>1. i + 1 \in 1..Len(wire[x]) /\ wire'[x][i] = wire[x][i + 1]
                BY <1>4, <3>3
            <4>2. /\ wire[x][i + 1].topics \subseteq On(x)
                  /\ wire[x][i + 1].mine =>
                        /\ x = job.at /\ job.req = "sent" /\ i + 1 = Len(wire[x])
                        /\ wire[x][i + 1].subscribe = job.subscribe
                        /\ wire[x][i + 1].topics = job.topics \cap On(x)
                BY <4>1 DEF Consistent, WireOK
            <4>3. i + 1 = Len(wire[x]) => i = Len(wire'[x])
                BY <1>1, <3>1, <3>3
            <4> QED BY <1>7, <2>2, <3>3, <4>1, <4>2, <4>3
        <3> QED BY <3>2, <3>3
    <2> QED BY <2>1, <2>2
<1>10. AgreeOK'
    BY <1>2, <1>7 DEF Consistent, AgreeOK
<1>11. ASSUME NEW t \in Topics, Absent(t) PROVE Absent(t)'
    <2>1. live'[t] = 0
        <3>1. t \in q.topics => Route[t] = x /\ ~q.subscribe
            BY <1>5, <1>6, <1>11 DEF Absent, On
        <3> QED BY <1>2, <1>11, <3>1 DEF Handled, Absent
    <2>2. CASE Route[t] = x
        BY <1>4, <1>11, <2>1, <2>2 DEF Absent
    <2>3. CASE Route[t] # x
        BY <1>3, <1>11, <2>1, <2>3, Routes DEF Absent
    <2> QED BY <2>2, <2>3
<1>12. GhostOK'
    <2>1. (\A t \in Topics \ blurred :
              t \in subscribed \/ (lock \in Callers /\ t \in job.topics) \/ Absent(t))'
        BY <1>2, <1>7, <1>11 DEF Consistent, GhostOK
    <2>2. ASSUME lock \in Callers, ~job.subscribe, NEW t \in job.topics
          PROVE  ((Route[t] \in job.todo /\ ~(Route[t] = job.at /\ job.req = "acked")) \/ Absent(t))'
        <3>1. t \in Topics
            BY <1>2
        <3>2. CASE q.mine /\ job'.req = "acked" /\ Route[t] = x
            <4>1. t \in q.topics /\ ~q.subscribe /\ live' = Handled(q)
                BY <1>6, <1>7, <2>2, <3>1, <3>2 DEF On
            <4>2. Handled(q)[t] = 0
                <5> HIDE DEF q
                <5> QED BY <3>1, <4>1 DEF Handled
            <4>4. live'[t] = 0
                BY <4>1, <4>2
            <4>3. Len(wire'[x]) = 0
                BY <1>1, <1>3, <1>6, <3>2
            <4> QED BY <3>2, <4>3, <4>4 DEF Absent
        <3>3. CASE ~(q.mine /\ job'.req = "acked" /\ Route[t] = x)
            <4>1. (Route[t] \in job.todo /\ ~(Route[t] = job.at /\ job.req = "acked")) \/ Absent(t)
                BY <2>2 DEF Consistent, GhostOK
            <4> QED BY <1>6, <1>7, <1>11, <3>1, <3>3, <4>1
        <3> QED BY <3>2, <3>3
    <2> QED BY <1>2, <1>7, <2>1, <2>2 DEF GhostOK
<1> QED BY <1>8, <1>9, <1>10, <1>11, <1>12 DEF Consistent, StayAbsent

LEMMA TimeoutKeeps == ASSUME Typed, Consistent, Timeout PROVE Consistent' /\ StayAbsent
<1>1. /\ UNCHANGED <<lock, pc, call, subscribed, streamNames, blurred, halfway, live>>
      /\ job.req = "sent" /\ job.at \in Conns /\ job \in Job
      /\ wire' = [wire EXCEPT ![job.at] = Orphaned(wire[job.at])] /\ job' = [job EXCEPT !.req = "failed"]
    BY DEF Timeout, Consistent, JobOK, Typed, TasksTyped, recordVars, connVars, historyVars
<1>2. /\ job'.subscribe = job.subscribe /\ job'.topics = job.topics /\ job'.todo = job.todo
      /\ job'.at = job.at /\ job'.req = "failed" /\ job.topics \subseteq Topics
    BY <1>1 DEF Job
<1>3. \A y \in Conns :
          /\ Len(wire'[y]) = Len(wire[y])
          /\ \A i \in 1..Len(wire[y]) : /\ wire'[y][i].subscribe = wire[y][i].subscribe
                                        /\ wire'[y][i].topics = wire[y][i].topics
                                        /\ ~wire'[y][i].mine
    <2> SUFFICES ASSUME NEW y \in Conns
                 PROVE  /\ Len(wire'[y]) = Len(wire[y])
                        /\ \A i \in 1..Len(wire[y]) :
                              /\ wire'[y][i].subscribe = wire[y][i].subscribe
                              /\ wire'[y][i].topics = wire[y][i].topics
                              /\ ~wire'[y][i].mine
        OBVIOUS
    <2>1. CASE y = job.at
        BY <1>1, <2>1, OrphanedIs DEF Typed, ConnsTyped
    <2>2. CASE y # job.at
        BY <1>1, <2>2 DEF Consistent, WireOK, Typed, ConnsTyped
    <2> QED BY <2>1, <2>2
<1>4. JobOK'
    BY <1>1, <1>2 DEF Consistent, JobOK
<1>5. WireOK'
    BY <1>3 DEF Consistent, WireOK
<1>6. AgreeOK'
    BY <1>1, <1>2 DEF Consistent, AgreeOK
<1>7. \A t \in Topics : Absent(t) => Absent(t)'
    BY <1>1, <1>3, Routes DEF Absent
<1>8. GhostOK'
    BY <1>1, <1>2, <1>7 DEF Consistent, GhostOK
<1> QED BY <1>4, <1>5, <1>6, <1>7, <1>8 DEF Consistent, StayAbsent

-----------------------------------------------------------------------------
(* Every step keeps the records and the server in agreement *)

LEMMA ConsistentPreserved ==
    ASSUME Typed, Consistent, [Next]_vars PROVE Consistent' /\ (StayAbsent \/ Transmit)
<1>1. CASE UNCHANGED vars
    <2>1. Still
        BY <1>1 DEF vars, recordVars, taskVars, serverVars, historyVars, Still
    <2> QED BY <2>1, StillKeeps
<1>2. WsApi \in Conns
    BY Routes
<1>3. CASE \E c \in Callers : Begin(c) \/ Prepare(c) \/ Resume(c)
    BY <1>3, BeginKeeps, PrepareKeeps, ResumeKeeps
<1>4. CASE \E c \in Callers : Fail(c)
    BY <1>2, <1>4, ReleasedActions, ReleasedKeeps
<1>5. CASE (\E c \in Callers : CancelCall(c)) \/ Close
    BY <1>5, CancelCloseKeep
<1>6. CASE (\E c \in Callers : Call(c)) \/ Logon \/ HandleTerminated \/ Terminate \/ CloseReturns
    BY <1>2, <1>6, StillActions, StillKeeps
<1>7. CASE \E x \in Conns : Opened(x) \/ ServerShutdown(x) \/ StreamClosed(x)
    BY <1>7, StillActions, StillKeeps
<1>8. CASE \E x \in Conns : Drop(x) \/ Recycle(x) \/ CloseStream(x)
    BY <1>8, NetworkKeeps
<1>9. CASE \E x \in Conns : Replay(x) \/ ServerHandles(x)
    BY <1>9, ReplayKeeps, ServerHandlesKeeps
<1>10. CASE (\E x \in Conns : ReplayEnds(x)) \/ RecoverEnds
    BY <1>2, <1>10, ReleasedActions, ReleasedKeeps
<1>11. CASE Recover \/ Transmit \/ Timeout
    BY <1>11, RecoverKeeps, TransmitKeeps, TimeoutKeeps
<1>12. Next => \/ \E c \in Callers : Begin(c) \/ Prepare(c) \/ Resume(c)
               \/ \E c \in Callers : Fail(c)
               \/ (\E c \in Callers : CancelCall(c)) \/ Close
               \/ (\E c \in Callers : Call(c)) \/ Logon \/ HandleTerminated \/ Terminate \/ CloseReturns
               \/ \E x \in Conns : Opened(x) \/ ServerShutdown(x) \/ StreamClosed(x)
               \/ \E x \in Conns : Drop(x) \/ Recycle(x) \/ CloseStream(x)
               \/ \E x \in Conns : Replay(x) \/ ServerHandles(x)
               \/ (\E x \in Conns : ReplayEnds(x)) \/ RecoverEnds
               \/ Recover \/ Transmit \/ Timeout
    BY Zenon DEF Next, Progress, Unforced
<1> QED BY <1>1, <1>3, <1>4, <1>5, <1>6, <1>7, <1>8, <1>9, <1>10, <1>11, <1>12

LEMMA InitConsistent == ASSUME Init PROVE Consistent
<1>1. lock = "free" /\ lock \notin Callers \cup Conns \cup {Recovery} /\ job = NoJob
    BY Routes DEF Init, Tasks
<1>2. JobOK
    BY <1>1 DEF JobOK, NoJob
<1>3. \A x \in Conns : Len(wire[x]) = 0
    BY DEF Init
<1>4. WireOK
    BY <1>3 DEF WireOK
<1>5. AgreeOK
    BY <1>1 DEF Init, AgreeOK
<1>6. \A t \in Topics : Absent(t)
    BY <1>3, Routes DEF Init, Absent
<1>7. GhostOK
    BY <1>1, <1>6 DEF GhostOK
<1> QED BY <1>2, <1>4, <1>5, <1>7 DEF Consistent

-----------------------------------------------------------------------------
(* What is reserved *)

\* Sizes of sets of topics.
LEMMA Sizes ==
    ASSUME NEW S \in SUBSET Topics, NEW T \in SUBSET Topics
    PROVE  /\ S \subseteq T => Cardinality(S) <= Cardinality(T)
           /\ Cardinality(S \ T) = Cardinality(S) - Cardinality(S \cap T)
<1>1. IsFiniteSet(S) /\ IsFiniteSet(T)
    BY SubscriptionAssumption, FS_Subset
<1> QED BY <1>1, FS_Subset, FS_Difference

LEMMA ProjectedIs ==
    ASSUME Typed, NEW p \in Paths
    PROVE  /\ Projected(p) = Cardinality((streamNames \cup job.topics) \cap On(p))
           /\ Committed(p) = Cardinality(streamNames \cap On(p))
           /\ Projected(p) \in Nat /\ Committed(p) \in Nat /\ reserved[p] \in Nat
           /\ Committed(p) <= Projected(p)
           /\ (\A t \in job.topics : Route[t] # p) => Projected(p) = Committed(p)
<1>1. (streamNames \cup job.topics) \cap On(p) \in SUBSET Topics /\ streamNames \cap On(p) \in SUBSET Topics
    BY DEF On
<1>2. streamNames \cap On(p) \subseteq (streamNames \cup job.topics) \cap On(p)
    OBVIOUS
<1>3. Committed(p) <= Projected(p)
    BY <1>1, <1>2, Sizes DEF Committed, Projected
<1>4. Projected(p) \in Nat /\ Committed(p) \in Nat
    BY <1>1, Counted DEF Committed, Projected
<1>5. ASSUME \A t \in job.topics : Route[t] # p PROVE Projected(p) = Committed(p)
    <2>1. (streamNames \cup job.topics) \cap On(p) = streamNames \cap On(p)
        BY <1>5 DEF On
    <2> QED BY <2>1 DEF Committed, Projected
<1>6. reserved[p] \in Nat
    BY DEF Typed, ConnsTyped
<1> QED BY <1>3, <1>4, <1>5, <1>6 DEF Committed, Projected

\* The pools are left alone, and no path loses a name it may count.
PoolKept ==
    /\ reserved' = reserved /\ lease \subseteq lease'
    /\ job'.reserved # {} => lock' \in Callers /\ job'.subscribe /\ job'.req # "prepare"
    /\ \A p \in Paths :
          (streamNames \cup cancelled \cup Claimed(p)) \cap On(p)
              \subseteq streamNames' \cup cancelled' \cup Claimed(p)'

LEMMA PoolMoves ==
    ASSUME Typed, PoolOK, PoolKept PROVE PoolOK'
<1>1. ASSUME NEW p \in Paths
      PROVE  reserved'[p] <= Cardinality((streamNames' \cup cancelled' \cup Claimed(p)') \cap On(p))
    <2>1. PICK S : S = (streamNames \cup cancelled \cup Claimed(p)) \cap On(p)
        OBVIOUS
    <2>2. PICK T : T = (streamNames' \cup cancelled' \cup Claimed(p)') \cap On(p)
        OBVIOUS
    <2>3. S \subseteq T /\ S \in SUBSET Topics /\ T \in SUBSET Topics
        BY <2>1, <2>2 DEF PoolKept, On
    <2>4. Cardinality(S) <= Cardinality(T) /\ Cardinality(S) \in Nat /\ Cardinality(T) \in Nat
        BY <2>3, Sizes, Counted
    <2>5. reserved[p] <= Cardinality(S) /\ reserved'[p] = reserved[p] /\ reserved[p] \in Nat
        BY <2>1, ProjectedIs DEF PoolOK, PoolKept
    <2> QED BY <2>2, <2>4, <2>5
<1>2. \A p \in Paths : p \notin lease' => reserved'[p] = 0
    BY DEF PoolOK, PoolKept
<1> QED BY <1>1, <1>2 DEF PoolOK, PoolKept, On

\* The holder of the lock, and what it is at, are the same: the request it has
\* sent may have been answered.
SameJob ==
    /\ lock' = lock
    /\ job'.subscribe = job.subscribe /\ job'.topics = job.topics /\ job'.todo = job.todo
    /\ job'.at = job.at /\ job'.reserved = job.reserved
    /\ job.req # "prepare" => job'.req # "prepare"
    /\ job'.req # "prepare" => job.req # "prepare"

\* Or the lock is given back, by a call that leaves its names to cancelled.
GivenBack ==
    /\ lock' = "free" /\ job' = NoJob
    /\ \A p \in Paths : Claimed(p) \cap On(p) \subseteq streamNames' \cup cancelled'

\* Or it is taken.
Taken ==
    /\ lock = "free" /\ job'.reserved = {}
    /\ lock' \in Callers => job'.req = "prepare" /\ job'.at = "none"

\* Streams open and are lost, names are cancelled; nothing is closed or counted.
CountsKept ==
    /\ UNCHANGED <<streamNames, reserved>>
    /\ lease \subseteq lease' /\ cancelled \subseteq cancelled'
    /\ closing' = "no" =>
          /\ closing = "no" /\ toClose' = toClose
          /\ \A x \in Conns : conn'[x] # conn[x] => conn'[x] \in {"opening", "up", "lost"}

LEMMA CountsKeep ==
    ASSUME Typed, Consistent, ReservedInv, CountsKept, SameJob \/ GivenBack \/ Taken
    PROVE  PoolOK' /\ OpenOK' /\ CapOK'
<1>1. "free" \notin Callers /\ "none" \notin Paths /\ "none" \notin Conns
    BY Routes DEF Conns
<1>2. NoJob.reserved = {} /\ NoJob.at = "none"
    BY DEF NoJob
<1>3. PoolOK'
    <2>1. CASE SameJob
        <3>1. \A p \in Paths : Claimed(p)' = Claimed(p)
            BY <2>1 DEF SameJob, Claimed
        <3>2. PoolKept
            BY <2>1, <3>1 DEF SameJob, CountsKept, PoolKept, ReservedInv, PoolOK
        <3> QED BY <3>2, PoolMoves DEF ReservedInv
    <2>2. CASE GivenBack
        <3>1. PoolKept
            BY <1>1, <1>2, <2>2 DEF GivenBack, CountsKept, PoolKept
        <3> QED BY <3>1, PoolMoves DEF ReservedInv
    <2>3. CASE Taken
        <3>1. job.reserved = {} /\ \A p \in Paths : Claimed(p) = {}
            BY <1>1, <2>3 DEF Taken, Claimed, ReservedInv, PoolOK
        <3>2. PoolKept
            BY <1>1, <2>3, <3>1 DEF Taken, CountsKept, PoolKept
        <3> QED BY <3>2, PoolMoves DEF ReservedInv
    <2> QED BY <2>1, <2>2, <2>3
<1>4. \A p \in Paths : Committed(p)' = Committed(p)
    BY DEF Committed, CountsKept
<1>5. SameJob => \A p \in Paths : Projected(p)' = Projected(p)
    BY DEF Projected, CountsKept, SameJob
<1>6. OpenOK'
    <2> SUFFICES ASSUME closing' = "no" PROVE OpenOK'
        BY DEF OpenOK
    <2>1. /\ closing = "no" /\ toClose' = {} /\ \A x \in Conns : conn'[x] # "closing"
          /\ \A x \in Conns : conn[x] # "absent" => conn'[x] # "absent"
        BY DEF CountsKept, ReservedInv, OpenOK
    <2>2. \A n \in streamNames' : conn'[Route[n]] # "absent"
        <3>1. \A n \in streamNames : Route[n] \in Conns
            BY Routes DEF Typed, FlagsTyped, Names
        <3> QED BY <2>1, <3>1 DEF CountsKept, ReservedInv, OpenOK
    <2>3. \A p \in Paths : reserved'[p] >= Committed(p)'
        BY <1>4, <2>1 DEF CountsKept, ReservedInv, OpenOK
    <2>4. CASE SameJob
        <3>1. \A n \in Names : Route[n] \in Conns
            BY Routes DEF Names
        <3>2. lock' \in Callers /\ job'.req # "prepare" =>
                  \A n \in job'.topics \cap Names :
                      Route[n] \in job'.todo \ {job'.at} \/ conn'[Route[n]] # "absent"
            BY <2>1, <2>4, <3>1 DEF SameJob, ReservedInv, OpenOK
        <3>3. lock' \in Callers /\ job'.subscribe /\ job'.at \in Paths =>
                  \A p \in Paths : reserved'[p] >= Projected(p)'
            BY <1>5, <2>1, <2>4 DEF SameJob, CountsKept, ReservedInv, OpenOK
        <3> QED BY <2>1, <2>2, <2>3, <3>2, <3>3 DEF OpenOK
    <2>5. CASE GivenBack
        BY <1>1, <2>1, <2>2, <2>3, <2>5 DEF GivenBack, OpenOK
    <2>6. CASE Taken
        BY <1>1, <2>1, <2>2, <2>3, <2>6 DEF Taken, OpenOK
    <2> QED BY <2>4, <2>5, <2>6
<1>7. CapOK'
    <2>1. CASE SameJob
        BY <1>4, <1>5, <2>1 DEF SameJob, ReservedInv, CapOK, Sending
    <2>2. CASE GivenBack \/ Taken
        BY <1>1, <1>4, <2>2 DEF GivenBack, Taken, ReservedInv, CapOK, Sending
    <2> QED BY <2>1, <2>2
<1> QED BY <1>3, <1>6, <1>7


\* Nothing is recorded or forgotten, and a call that ends leaves its topics blurred.
RecordKept ==
    /\ UNCHANGED subscribed /\ blurred \subseteq blurred'
    /\ SameJob \/ lock \notin Callers \/ job.topics \subseteq blurred'

LEMMA SentMoves ==
    ASSUME SentOK, StayAbsent, RecordKept PROVE SentOK'
BY DEF SentOK, StayAbsent, RecordKept, SameJob, Sending

Kept == CountsKept /\ RecordKept /\ (SameJob \/ GivenBack \/ Taken)

LEMMA KeptKeeps ==
    ASSUME Typed, Consistent, ReservedInv, Kept, StayAbsent PROVE ReservedInv'
BY CountsKeep, SentMoves DEF Kept, ReservedInv

LEMMA NoneClaimed ==
    ASSUME PoolOK, lock \notin Callers \/ ~job.subscribe
    PROVE  job.reserved = {} /\ \A p \in Paths : Claimed(p) = {}
BY DEF PoolOK, Claimed

\* The answer to a request is all that changes of the job.
LEMMA Answered ==
    ASSUME Typed, job' = job \/ (\E r \in {"sent", "acked", "failed"} : job' = [job EXCEPT !.req = r]),
           job.req # "prepare" \/ job' = job, lock' = lock
    PROVE  SameJob
BY DEF SameJob, Typed, TasksTyped, Job

LEMMA GoneIs ==
    ASSUME Typed, Consistent, ReservedInv, NEW x \in Conns, NEW state, SocketGone(x, state),
           UNCHANGED <<subscribed, streamNames, blurred, halfway>>
    PROVE  /\ SameJob \/ GivenBack
           /\ RecordKept
           /\ \A y \in Conns : conn'[y] # conn[y] => conn'[y] = state
<1>1. x \notin Callers
    BY Routes
<1>2. CASE lock = x
    <2>1. \A p \in Paths : Claimed(p) = {}
        BY <1>1, <1>2, NoneClaimed DEF ReservedInv
    <2> QED BY <1>1, <1>2, <2>1 DEF SocketGone, GivenBack, RecordKept, Typed, ConnsTyped
<1>3. CASE lock # x
    <2>1. SameJob
        BY <1>3, Answered DEF SocketGone
    <2> QED BY <1>3, <2>1 DEF SocketGone, RecordKept, Typed, ConnsTyped
<1> QED BY <1>2, <1>3

LEMMA TasksKept ==
    ASSUME Typed, Consistent, ReservedInv, NEW x \in Conns,
           \/ \E c \in Callers : Call(c) \/ Begin(c)
           \/ Opened(x) \/ Logon \/ HandleTerminated \/ ServerShutdown(x) \/ Terminate \/ CloseReturns
           \/ Replay(x) \/ Recover \/ ReplayEnds(x) \/ RecoverEnds \/ UNCHANGED vars
    PROVE  Kept
<1>1. x \notin Callers /\ Recovery \notin Callers /\ "free" \notin Callers /\ "none" \notin Conns
    BY Routes
<1>2. CASE UNCHANGED vars \/ Logon \/ ServerShutdown(x) \/ Terminate \/ \E c \in Callers : Call(c)
    BY <1>2 DEF Call, Logon, ServerShutdown, Terminate, Kept, CountsKept, RecordKept, SameJob, vars,
       recordVars, taskVars, connVars, closeVars, historyVars
<1>3. CASE Opened(x) \/ HandleTerminated \/ CloseReturns
    BY <1>3 DEF Opened, HandleTerminated, CloseReturns, Kept, CountsKept, RecordKept, SameJob,
       recordVars, taskVars, connVars, closeVars, historyVars, Typed, ConnsTyped
<1>4. CASE \E c \in Callers : Begin(c)
    <2> PICK c \in Callers : Begin(c)
        BY <1>4
    <2>1. lock = "free" /\ CountsKept /\ blurred' = blurred
        BY DEF Begin, CountsKept, connVars, closeVars, historyVars
    <2>2. CASE Remaining(c) = {}
        <3>1. \A t \in call[c].topics : t = User /\ User \in subscribed /\ call[c].subscribe
            BY <2>2 DEF Remaining
        <3>2. subscribed' = subscribed
            BY <2>2, <3>1 DEF Begin, Recorded
        <3> QED BY <2>1, <2>2, <3>2 DEF Begin, Kept, RecordKept, SameJob
    <2>3. CASE Remaining(c) # {}
        BY <1>1, <2>1, <2>3 DEF Begin, Kept, RecordKept, Taken, NoJob
    <2> QED BY <2>2, <2>3
<1>5. CASE Replay(x)
    BY <1>1, <1>5 DEF Replay, Kept, CountsKept, RecordKept, Taken, SameJob, NoJob, recordVars,
       connVars, closeVars, historyVars
<1>6. CASE Recover
    <2>1. CountsKept
        BY <1>6 DEF Recover, OpenIfAbsent, CountsKept, recordVars, connVars, closeVars, historyVars,
           Typed, ConnsTyped
    <2> QED BY <1>1, <1>6, <2>1 DEF Recover, Kept, RecordKept, Taken, SameJob, NoJob, recordVars, historyVars
<1>7. CASE ReplayEnds(x) \/ RecoverEnds
    <2>1. lock \notin Callers
        BY <1>1, <1>7 DEF ReplayEnds, RecoverEnds
    <2>2. \A p \in Paths : Claimed(p) = {}
        BY <2>1, NoneClaimed DEF ReservedInv
    <2> QED BY <1>7, <2>1, <2>2 DEF ReplayEnds, RecoverEnds, Release, Kept, CountsKept, RecordKept,
            GivenBack, recordVars, connVars, closeVars, historyVars
<1> QED BY <1>2, <1>3, <1>4, <1>5, <1>6, <1>7

LEMMA NetworkKept ==
    ASSUME Typed, Consistent, ReservedInv, NEW x \in Conns,
           \/ \E c \in Callers : CancelCall(c)
           \/ Transmit \/ ServerHandles(x) \/ Timeout \/ Drop(x) \/ Recycle(x) \/ Close \/ CloseStream(x)
    PROVE  Kept
<1>1. x \notin Callers /\ Recovery \notin Callers /\ "free" \notin Callers /\ "none" \notin Conns
    BY Routes
<1>2. CASE Transmit \/ Timeout
    <2>1. SameJob
        BY <1>2, Answered DEF Transmit, Timeout
    <2> QED BY <1>2, <2>1 DEF Transmit, Timeout, Kept, CountsKept, RecordKept, recordVars, connVars,
            closeVars, historyVars
<1>3. CASE ServerHandles(x)
    <2>1. Head(wire[x]).mine => job.req = "sent"
        <3>1. wire[x] \in Seq(Request) /\ wire[x] # <<>>
            BY <1>3 DEF ServerHandles, Typed, ConnsTyped
        <3>2. Head(wire[x]) = wire[x][1] /\ 1 \in 1..Len(wire[x])
            BY <3>1, LenProperties
        <3> QED BY <3>2 DEF Consistent, WireOK
    <2>2. SameJob
        BY <1>3, <2>1, Answered DEF ServerHandles
    <2> QED BY <1>3, <2>2 DEF ServerHandles, Kept, CountsKept, RecordKept, recordVars, connVars,
            closeVars, historyVars
<1>4. CASE Drop(x) \/ (Recycle(x) /\ conn[x] = "up")
    <2>1. SocketGone(x, "lost") /\ UNCHANGED <<recordVars, lease, reserved, closeVars, historyVars>>
        BY <1>4 DEF Drop, Recycle
    <2>2. (SameJob \/ GivenBack) /\ RecordKept /\ \A y \in Conns : conn'[y] # conn[y] => conn'[y] = "lost"
        BY <2>1, GoneIs DEF recordVars, historyVars
    <2> QED BY <2>1, <2>2 DEF Kept, CountsKept, recordVars, closeVars, historyVars
<1>5. CASE Recycle(x) /\ conn[x] # "up"
    BY <1>5 DEF Recycle, Kept, CountsKept, RecordKept, SameJob, recordVars, taskVars, closeVars, historyVars
<1>6. CASE CloseStream(x)
    <2>1. SocketGone(x, "closing") /\ UNCHANGED <<recordVars, lease, reserved, closeVars, historyVars>>
        BY <1>6 DEF CloseStream
    <2>2. (SameJob \/ GivenBack) /\ RecordKept
        BY <2>1, GoneIs DEF recordVars, historyVars
    <2>3. closing # "no"
        BY <1>6 DEF CloseStream, ReservedInv, OpenOK
    <2> QED BY <2>1, <2>2, <2>3 DEF Kept, CountsKept, recordVars, closeVars, historyVars
<1>7. CASE Close
    <2>1. CountsKept /\ blurred' = blurred /\ subscribed' = subscribed
        BY <1>7 DEF Close, CountsKept, recordVars, connVars
    <2>2. CASE lock = Recovery
        <3>1. \A p \in Paths : Claimed(p) = {}
            BY <1>1, <2>2, NoneClaimed DEF ReservedInv
        <3> QED BY <1>1, <1>7, <2>1, <2>2, <3>1 DEF Close, Release, Kept, RecordKept, GivenBack
    <2>3. CASE lock # Recovery
        BY <1>7, <2>1, <2>3 DEF Close, Kept, RecordKept, SameJob
    <2> QED BY <2>2, <2>3
<1>8. CASE \E c \in Callers : CancelCall(c)
    <2> PICK c \in Callers : CancelCall(c)
        BY <1>8
    <2>1. CountsKept /\ blurred \subseteq blurred' /\ subscribed' = subscribed
        BY DEF CancelCall, CountsKept, recordVars, connVars, closeVars
    <2>2. CASE lock = c
        <3>1. \A p \in Paths : Claimed(p) \subseteq cancelled'
            BY <2>2 DEF CancelCall, Claimed
        <3> QED BY <2>1, <2>2, <3>1 DEF CancelCall, Release, Kept, RecordKept, GivenBack
    <2>3. CASE lock # c
        BY <2>1, <2>3 DEF CancelCall, Kept, RecordKept, SameJob
    <2> QED BY <2>2, <2>3
<1> QED BY <1>2, <1>3, <1>4, <1>5, <1>6, <1>7, <1>8

LEMMA StreamClosedKeeps ==
    ASSUME Typed, Consistent, ReservedInv, NEW x \in Conns, StreamClosed(x) PROVE PoolOK' /\ OpenOK' /\ CapOK'
<1>1. closing' # "no"
    BY DEF StreamClosed, ReservedInv, OpenOK
<1>2. /\ UNCHANGED <<streamNames, cancelled, lock, job>> /\ lease' = lease \ {x}
      /\ \A p \in Paths : reserved'[p] = IF p = x THEN 0 ELSE reserved[p]
    BY DEF StreamClosed, recordVars, taskVars, historyVars
<1>3. \A p \in Paths : /\ Claimed(p)' = Claimed(p) /\ Committed(p)' = Committed(p)
                       /\ Projected(p)' = Projected(p)
    BY <1>2 DEF Claimed, Committed, Projected
<1>4. CapOK'
    BY <1>2, <1>3 DEF ReservedInv, CapOK, Sending
<1>5. ASSUME NEW p \in Paths
      PROVE  reserved'[p] <= Cardinality((streamNames' \cup cancelled' \cup Claimed(p)') \cap On(p))
    <2>1. PICK T : T = (streamNames \cup cancelled \cup Claimed(p)) \cap On(p)
        OBVIOUS
    <2>2. Cardinality(T) \in Nat /\ reserved[p] <= Cardinality(T)
        BY <2>1, Counted DEF On, ReservedInv, PoolOK
    <2>3. (streamNames' \cup cancelled' \cup Claimed(p)') \cap On(p) = T
        BY <1>2, <1>3, <2>1
    <2> QED BY <1>2, <2>2, <2>3
<1>6. PoolOK'
    BY <1>2, <1>5 DEF ReservedInv, PoolOK, On
<1> QED BY <1>1, <1>4, <1>6 DEF OpenOK

\* What a subscription that holds the lock has committed when it is at its user
\* part, which is the last.
LEMMA NamesCommitted ==
    ASSUME Typed, Consistent, ReservedInv, lock \in Callers, job.subscribe, job.at = WsApi, NEW p \in Paths
    PROVE  job.topics \cap On(p) \subseteq streamNames
<1>1. \A t \in On(p) : t \in Names
    BY Routes DEF On, Names
<1> QED BY <1>1 DEF Consistent, AgreeOK

LEMMA FailKeeps ==
    ASSUME Typed, Consistent, ReservedInv, NEW c \in Callers, Fail(c) PROVE PoolOK' /\ OpenOK' /\ CapOK'
<1>1. /\ lock = c /\ lock' = "free" /\ job' = NoJob /\ lock' \notin Callers /\ NoJob.reserved = {}
      /\ NoJob.req # "prepare"
      /\ UNCHANGED <<streamNames, cancelled, conn, closing, toClose>>
    BY Routes DEF Fail, Release, NoJob, recordVars, closeVars
<1>2. CASE ~(job.subscribe /\ job.at # WsApi)
    <2>1. lease' = lease /\ reserved' = reserved
        BY <1>2 DEF Fail, RollBack
    <2>2. CountsKept
        BY <1>1, <2>1 DEF CountsKept
    <2>3. \A p \in Paths : Claimed(p) \cap On(p) \subseteq streamNames
        <3>1. CASE job.subscribe
            BY <1>1, <1>2, <3>1, NamesCommitted DEF Claimed
        <3>2. CASE ~job.subscribe
            BY <3>2, NoneClaimed DEF ReservedInv
        <3> QED BY <3>1, <3>2
    <2> QED BY <1>1, <2>2, <2>3, CountsKeep DEF GivenBack
<1>3. CASE job.subscribe /\ job.at # WsApi
    <2> DEFINE unused == {x \in job.todo \cap Paths : conn[x] = "absent"}
               back(p) == CASE p \in unused -> 0
                            [] p \in (job.reserved \cap lease) \ unused -> Committed(p)
                            [] OTHER -> reserved[p]
    <2>1. lease' = lease \ unused /\ reserved' = [p \in Paths |-> back(p)]
        BY <1>3, Zenon DEF Fail, RollBack
    <2>2. \A p \in Paths : /\ p \in unused => reserved'[p] = 0
                           /\ p \notin unused /\ p \in job.reserved /\ p \in lease => reserved'[p] = Committed(p)
                           /\ p \notin unused /\ ~(p \in job.reserved /\ p \in lease) => reserved'[p] = reserved[p]
        BY <2>1
    <2> HIDE DEF back
    <2>3. \A p \in Paths : Claimed(p)' = {} /\ Committed(p)' = Committed(p)
        BY <1>1 DEF Claimed, Committed
    <2>4. PoolOK'
        <3>1. ASSUME NEW p \in Paths
              PROVE  reserved'[p] <= Cardinality((streamNames' \cup cancelled' \cup Claimed(p)') \cap On(p))
            <4>1. PICK T : T = (streamNames \cup cancelled) \cap On(p)
                OBVIOUS
            <4>2. T \in SUBSET Topics /\ streamNames \cap On(p) \in SUBSET Topics
                  /\ streamNames \cap On(p) \subseteq T
                BY <4>1 DEF On
            <4>3. Cardinality(T) \in Nat /\ Committed(p) <= Cardinality(T)
                BY <4>2, Sizes, Counted DEF Committed
            <4>4. reserved'[p] \in {0, Committed(p)} \/ (reserved'[p] = reserved[p] /\ p \notin job.reserved)
                  \/ (reserved'[p] = reserved[p] /\ p \notin lease)
                BY <2>2
            <4>5. p \notin lease => reserved[p] = 0
                BY DEF ReservedInv, PoolOK
            <4>6. p \notin job.reserved => reserved[p] <= Cardinality(T)
                <5>1. p \notin job.reserved => (streamNames \cup cancelled \cup Claimed(p)) \cap On(p) = T
                    BY <4>1 DEF Claimed
                <5> QED BY <5>1 DEF ReservedInv, PoolOK
            <4>7. (streamNames' \cup cancelled' \cup Claimed(p)') \cap On(p) = T
                BY <1>1, <2>3, <4>1
            <4> QED BY <4>3, <4>4, <4>5, <4>6, <4>7
        <3>2. \A p \in Paths : p \notin lease' => reserved'[p] = 0
            BY <2>1, <2>2 DEF ReservedInv, PoolOK
        <3> QED BY <1>1, <3>1, <3>2 DEF PoolOK, On
    <2>5. OpenOK'
        <3> SUFFICES ASSUME closing' = "no" PROVE OpenOK'
            BY DEF OpenOK
        <3>1. /\ closing = "no" /\ toClose' = {} /\ \A x \in Conns : conn'[x] # "closing"
              /\ \A n \in streamNames' : conn'[Route[n]] # "absent"
            BY <1>1 DEF ReservedInv, OpenOK
        <3>2. ASSUME NEW p \in Paths PROVE reserved'[p] >= Committed(p)'
            <4>1. reserved[p] >= Committed(p) /\ Committed(p) \in Nat
                BY <3>1, ProjectedIs DEF ReservedInv, OpenOK
            <4>2. CASE p \in unused
                <5>1. \A n \in streamNames : Route[n] # p
                    BY <1>1, <3>1, <4>2
                <5>2. streamNames \cap On(p) = {}
                    BY <5>1 DEF On
                <5>3. Committed(p) = 0
                    BY <5>2, FS_EmptySet DEF Committed
                <5> QED BY <2>2, <2>3, <4>2, <5>3
            <4>3. CASE p \notin unused
                BY <2>2, <2>3, <4>1, <4>3
            <4> QED BY <4>2, <4>3
        <3> QED BY <1>1, <3>1, <3>2 DEF OpenOK
    <2>6. CapOK'
        BY <1>1, <2>3 DEF ReservedInv, CapOK, Sending
    <2> QED BY <2>4, <2>5, <2>6
<1> QED BY <1>2, <1>3

LEMMA OpenIs ==
    ASSUME Typed, NEW x \in Conns, OpenIfAbsent(x)
    PROVE  /\ conn'[x] # "absent"
           /\ \A y \in Conns : conn'[y] # conn[y] => conn'[y] = "opening"
BY DEF OpenIfAbsent, Typed, ConnsTyped

\* The two ways to go on from Prepare, and the one not to.
LEMMA PrepareCases ==
    ASSUME NEW c \in Callers, Prepare(c)
    PROVE  \E S \in SUBSET (job.todo \cap Paths) :
              \/ /\ ~job.subscribe /\ UNCHANGED reserved
                 /\ \E x \in job.todo : SendTo(x, {}) /\ lease' = lease \cup Needed(x)
              \/ /\ job.subscribe /\ \A p \in S : Projected(p) <= MaxStreams
                 /\ reserved' = [p \in Paths |-> IF p \in S THEN Projected(p) ELSE reserved[p]]
                 /\ job.todo \cap Paths \subseteq S
                 /\ \E x \in job.todo : SendTo(x, S) /\ lease' = lease \cup S \cup {x}
              \/ /\ job.subscribe /\ \A p \in S : Projected(p) <= MaxStreams
                 /\ reserved' = [p \in Paths |-> IF p \in S THEN Projected(p) ELSE reserved[p]]
                 /\ \E p : lease' = lease \cup S \cup {p}
                 /\ job' = [job EXCEPT !.reserved = S, !.req = "failed"] /\ UNCHANGED conn
<1>1. PICK S \in SUBSET (job.todo \cap Paths) :
           LET rest == (job.todo \cap Paths) \ S
               over == {p \in rest : Projected(p) > MaxStreams}
           IN \/ /\ ~job.subscribe /\ S = {}
                 /\ \E x \in job.todo : /\ SendTo(x, {})
                                        /\ lease' = lease \cup Needed(x)
                                        /\ inflight' = (x = WsApi \/ inflight)
                 /\ UNCHANGED reserved
              \/ /\ job.subscribe
                 /\ \A p \in S : Projected(p) <= MaxStreams
                 /\ reserved' = [p \in Paths |-> IF p \in S THEN Projected(p)
                                                 ELSE reserved[p]]
                 /\ UNCHANGED inflight
                 /\ \/ /\ rest = {}
                       /\ \E x \in job.todo : /\ SendTo(x, S)
                                              /\ lease' = lease \cup S \cup {x}
                    \/ \E p \in over :
                          /\ lease' = lease \cup S \cup {p}
                          /\ job' = [job EXCEPT !.reserved = S, !.req = "failed"]
                          /\ UNCHANGED <<conn, first, want, known>>
    BY Zenon DEF Prepare
<1>2. CASE ~job.subscribe
    BY <1>1, <1>2
<1>3. CASE job.subscribe /\ \E x \in job.todo : SendTo(x, S) /\ lease' = lease \cup S \cup {x}
                         /\ (job.todo \cap Paths) \ S = {}
    BY <1>1, <1>3
<1>4. CASE job.subscribe /\ job' = [job EXCEPT !.reserved = S, !.req = "failed"]
           /\ (\E p : lease' = lease \cup S \cup {p}) /\ UNCHANGED conn
    BY <1>1, <1>4
<1> QED BY <1>1, <1>2, <1>3, <1>4

\* What sending a part leaves of the job and of the connections.
LEMMA SendToOpens ==
    ASSUME Typed, NEW x \in Conns, NEW S, SendTo(x, S)
    PROVE  /\ job'.reserved = job.reserved \cup S /\ job'.at = x /\ job'.req \in {"opening", "refused"}
           /\ job'.subscribe = job.subscribe /\ job'.topics = job.topics /\ job'.todo = job.todo \ {job.at}
           /\ (x \in Paths => conn'[x] # "absent") /\ \A y \in Conns : conn'[y] # conn[y] => conn'[y] = "opening"
<1>1. OpenIfAbsent(x) \/ (x \notin Paths /\ conn' = conn)
    BY Routes DEF SendTo, NotSubscribed
<1>2. job'.reserved = job.reserved \cup S
    BY DEF SendTo, Typed, TasksTyped, Job
<1> QED BY <1>1, <1>2, OpenIs, SendToIs

LEMMA PrepareKeepsPools ==
    ASSUME Typed, Consistent, ReservedInv, NEW c \in Callers, Prepare(c)
    PROVE  PoolOK' /\ OpenOK' /\ CapOK'
<1>1. /\ lock = c /\ lock' = c /\ job.req = "prepare" /\ job.at = "none" /\ job.reserved = {}
      /\ UNCHANGED <<streamNames, cancelled, closing, toClose>>
      /\ job.todo \subseteq Conns /\ "none" \notin Conns /\ WsApi \notin Paths /\ job.topics \subseteq Topics
    BY Routes DEF Prepare, Consistent, JobOK, ReservedInv, PoolOK, recordVars, closeVars, historyVars,
       Typed, TasksTyped, Job
<1>2. \A n \in job.topics \cap Names : Route[n] \in job.todo
    BY <1>1, Routes DEF Consistent, JobOK, Names
<1>3. \A p \in Paths : Claimed(p) = {} /\ Committed(p)' = Committed(p)
    BY <1>1 DEF Claimed, Committed
<1>4. \A p \in Paths \ job.todo : Projected(p) = Committed(p)
    <2> SUFFICES ASSUME NEW p \in Paths \ job.todo, NEW t \in job.topics PROVE Route[t] # p
        BY ProjectedIs
    <2>1. t \in Names \/ t = User
        BY <1>1 DEF Names
    <2> QED BY <1>1, <1>2, <2>1, Routes
\* Every outcome leaves the job, the streams and the pools like this.
<1>5. /\ job'.topics = job.topics /\ job'.subscribe = job.subscribe /\ job'.todo = job.todo
      /\ job'.req # "prepare"
      /\ \A x \in Conns : conn'[x] # conn[x] => conn'[x] = "opening"
      /\ \/ job'.at \in Conns /\ (job'.at \in Paths => conn'[job'.at] # "absent")
         \/ job'.at = "none"
      /\ lease \subseteq lease'
      /\ \E S \in SUBSET (job.todo \cap Paths) :
            /\ job'.reserved = S /\ S \subseteq lease' /\ (S # {} => job.subscribe)
            /\ \A p \in Paths : reserved'[p] = IF p \in S THEN Projected(p) ELSE reserved[p]
            /\ \A p \in S : Projected(p) <= MaxStreams
            /\ job.subscribe /\ job'.at # "none" => job.todo \cap Paths \subseteq S
    <2> PICK S \in SUBSET (job.todo \cap Paths) :
              \/ /\ ~job.subscribe /\ UNCHANGED reserved
                 /\ \E x \in job.todo : SendTo(x, {}) /\ lease' = lease \cup Needed(x)
              \/ /\ job.subscribe /\ \A p \in S : Projected(p) <= MaxStreams
                 /\ reserved' = [p \in Paths |-> IF p \in S THEN Projected(p) ELSE reserved[p]]
                 /\ job.todo \cap Paths \subseteq S
                 /\ \E x \in job.todo : SendTo(x, S) /\ lease' = lease \cup S \cup {x}
              \/ /\ job.subscribe /\ \A p \in S : Projected(p) <= MaxStreams
                 /\ reserved' = [p \in Paths |-> IF p \in S THEN Projected(p) ELSE reserved[p]]
                 /\ \E p : lease' = lease \cup S \cup {p}
                 /\ job' = [job EXCEPT !.reserved = S, !.req = "failed"] /\ UNCHANGED conn
        BY PrepareCases
    <2>1. CASE ~job.subscribe
        <3>1. PICK x \in job.todo : SendTo(x, {}) /\ lease' = lease \cup Needed(x) /\ reserved' = reserved
            BY <2>1
        <3>2. x \in Conns
            BY <1>1
        <3>3. PICK E : E = {}
            OBVIOUS
        <3>4. SendTo(x, E)
            BY <3>1, <3>3
        <3>6. /\ job'.reserved = job.reserved \cup E /\ job'.at = x /\ job'.req \in {"opening", "refused"}
              /\ job'.subscribe = job.subscribe /\ job'.topics = job.topics /\ job'.todo = job.todo \ {job.at}
              /\ (x \in Paths => conn'[x] # "absent") /\ \A y \in Conns : conn'[y] # conn[y] => conn'[y] = "opening"
            BY <3>2, <3>4, SendToOpens
        <3>5. job'.reserved = {} /\ job'.todo = job.todo
            BY <1>1, <3>3, <3>6
        <3> QED BY <2>1, <3>1, <3>2, <3>5, <3>6
    <2>2. ASSUME job.subscribe, \A p \in S : Projected(p) <= MaxStreams, job.todo \cap Paths \subseteq S,
                 reserved' = [p \in Paths |-> IF p \in S THEN Projected(p) ELSE reserved[p]],
                 NEW x \in job.todo, SendTo(x, S), lease' = lease \cup S \cup {x}
          PROVE  <1>5
        <3>2. x \in Conns
            BY <1>1
        <3>3. /\ job'.reserved = S /\ job'.at = x /\ job'.req \in {"opening", "refused"}
              /\ job'.subscribe = job.subscribe /\ job'.topics = job.topics /\ job'.todo = job.todo
              /\ (x \in Paths => conn'[x] # "absent") /\ \A y \in Conns : conn'[y] # conn[y] => conn'[y] = "opening"
            BY <1>1, <2>2, <3>2, SendToOpens
        <3> QED BY <2>2, <3>2, <3>3
    <2>3. ASSUME job.subscribe, \A p \in S : Projected(p) <= MaxStreams,
                 reserved' = [p \in Paths |-> IF p \in S THEN Projected(p) ELSE reserved[p]],
                 NEW p, lease' = lease \cup S \cup {p},
                 job' = [job EXCEPT !.reserved = S, !.req = "failed"], UNCHANGED conn
          PROVE  <1>5
        <3>1. /\ job'.reserved = S /\ job'.at = "none" /\ job'.req = "failed"
              /\ job'.subscribe = job.subscribe /\ job'.topics = job.topics /\ job'.todo = job.todo
            BY <1>1, <2>3 DEF Typed, TasksTyped, Job
        <3> QED BY <2>3, <3>1
    <2> QED BY <2>1, <2>2, <2>3
<1>6. PICK S \in SUBSET (job.todo \cap Paths) :
            /\ job'.reserved = S /\ S \subseteq lease' /\ (S # {} => job.subscribe)
            /\ \A p \in Paths : reserved'[p] = IF p \in S THEN Projected(p) ELSE reserved[p]
            /\ \A p \in S : Projected(p) <= MaxStreams
            /\ job.subscribe /\ job'.at # "none" => job.todo \cap Paths \subseteq S
    BY <1>5
<1>7. \A p \in Paths : Projected(p)' = Projected(p)
    BY <1>1, <1>5 DEF Projected
<1>8. PoolOK'
    <2>1. ASSUME NEW p \in Paths
          PROVE  reserved'[p] <= Cardinality((streamNames' \cup cancelled' \cup Claimed(p)') \cap On(p))
        <3>1. PICK T : T = (streamNames' \cup cancelled' \cup Claimed(p)') \cap On(p)
            OBVIOUS
        <3>2. CASE p \in S
            <4>1. (streamNames \cup job.topics) \cap On(p) \subseteq T /\ T \in SUBSET Topics
                BY <1>1, <1>5, <1>6, <3>1, <3>2 DEF Claimed, On
            <4>2. Projected(p) <= Cardinality(T)
                BY <4>1, Sizes DEF Projected
            <4> QED BY <1>6, <3>1, <3>2, <4>2
        <3>3. CASE p \notin S
            <4>1. (streamNames \cup cancelled \cup Claimed(p)) \cap On(p) = T
                BY <1>1, <1>3, <1>6, <3>1, <3>3 DEF Claimed
            <4> QED BY <1>6, <3>1, <3>3, <4>1 DEF ReservedInv, PoolOK
        <3> QED BY <3>2, <3>3
    <2>2. \A p \in Paths : p \notin lease' => reserved'[p] = 0
        BY <1>5, <1>6 DEF ReservedInv, PoolOK
    <2> QED BY <1>1, <1>5, <1>6, <2>1, <2>2 DEF PoolOK, On
<1>9. CapOK'
    <2>1. ASSUME job.subscribe, job'.at # "none", NEW p \in Paths PROVE Projected(p)' <= MaxStreams
        BY <1>4, <1>6, <1>7, <2>1 DEF ReservedInv, CapOK
    <2> QED BY <1>3, <1>5, <2>1 DEF ReservedInv, CapOK, Sending
<1>10. OpenOK'
    <2> SUFFICES ASSUME closing' = "no" PROVE OpenOK'
        BY DEF OpenOK
    <2>1. /\ closing = "no" /\ toClose' = {} /\ \A x \in Conns : conn'[x] # "closing"
          /\ \A x \in Conns : conn[x] # "absent" => conn'[x] # "absent"
          /\ \A p \in Paths : reserved[p] >= Committed(p)
        BY <1>1, <1>5 DEF ReservedInv, OpenOK
    <2>2. \A n \in streamNames' : conn'[Route[n]] # "absent"
        <3>1. \A n \in streamNames : Route[n] \in Conns
            BY Routes DEF Typed, FlagsTyped, Names
        <3> QED BY <1>1, <2>1, <3>1 DEF ReservedInv, OpenOK
    <2>3. \A n \in job'.topics \cap Names : Route[n] \in job'.todo \ {job'.at} \/ conn'[Route[n]] # "absent"
        <3>1. \A n \in job.topics \cap Names : Route[n] \in Paths /\ Route[n] \in job.todo
            BY <1>2, Routes
        <3> QED BY <1>1, <1>5, <3>1
    <2>4. \A p \in Paths : reserved'[p] >= Committed(p)'
        BY <1>3, <1>6, <2>1, ProjectedIs
    <2>5. ASSUME job'.subscribe, job'.at \in Paths, NEW p \in Paths PROVE reserved'[p] >= Projected(p)'
        <3>1. job'.at # "none" /\ job.subscribe
            BY <1>1, <1>5, <2>5, Routes
        <3>2. p \in S \/ p \notin job.todo
            BY <1>6, <3>1
        <3>3. Projected(p)' = Projected(p) /\ Projected(p) \in Nat
            BY <1>7, ProjectedIs
        <3>4. CASE p \in S
            BY <1>6, <3>3, <3>4
        <3>5. CASE p \notin S
            BY <1>4, <1>6, <2>1, <3>2, <3>3, <3>5
        <3> QED BY <3>4, <3>5
    <2> QED BY <2>1, <2>2, <2>3, <2>4, <2>5 DEF OpenOK
<1> QED BY <1>8, <1>9, <1>10

\* The names a part that ends the market part commits or gives up.
LEMMA ResumeIs ==
    ASSUME Typed, Consistent, ReservedInv, NEW c \in Callers, Resume(c)
    PROVE  /\ lock = c /\ job.req = "acked" /\ job.at \in Conns /\ UNCHANGED <<cancelled, closing, toClose>>
           /\ LET todo == job.todo \ {job.at}
                  commit == job.at \in Paths /\ todo \subseteq {WsApi}
                  names == job.topics \cap Names
              IN /\ ~commit => streamNames' = streamNames /\ reserved' = reserved
                 /\ commit /\ job.subscribe => streamNames' = streamNames \cup names /\ reserved' = reserved
                 /\ commit /\ ~job.subscribe =>
                       /\ streamNames' = streamNames \ names
                       /\ \A p \in Paths :
                             reserved'[p] = Unreserved(p, streamNames \cap names \cap On(p))
                 /\ todo = {} => lock' = "free" /\ job' = NoJob /\ UNCHANGED <<conn, lease>>
                 /\ todo # {} =>
                       /\ lock' = c /\ job'.reserved = job.reserved /\ job'.req \in {"opening", "refused"}
                       /\ job'.subscribe = job.subscribe /\ job'.topics = job.topics
                       /\ job'.todo = todo /\ job'.at \in todo /\ job'.at \in Conns
                       /\ lease \subseteq lease' /\ (job'.at \in Paths => conn'[job'.at] # "absent")
                       /\ \A y \in Conns : conn'[y] # conn[y] => conn'[y] = "opening"
<1> DEFINE todo == job.todo \ {job.at}
           commit == job.at \in Paths /\ todo \subseteq {WsApi}
           names == job.topics \cap Names
<1>1. /\ lock = c /\ job.req = "acked" /\ job.at \in Conns /\ UNCHANGED <<cancelled, closing, toClose>>
      /\ todo \subseteq Conns
    BY DEF Resume, MarketAnswered, Consistent, JobOK, closeVars, historyVars, Typed, TasksTyped, Job
<1>2. /\ streamNames' = CASE ~commit -> streamNames
                          [] commit /\ job.subscribe -> streamNames \cup names
                          [] OTHER -> streamNames \ names
      /\ reserved' = [p \in Paths |-> IF ~commit \/ job.subscribe THEN reserved[p]
                                      ELSE Unreserved(p, streamNames \cap names \cap On(p))]
    BY Zenon DEF Resume, MarketAnswered
<1>3. reserved = [p \in Paths |-> reserved[p]]
    BY DEF Typed, ConnsTyped
<1>4. ~commit => streamNames' = streamNames /\ reserved' = reserved
    BY <1>2, <1>3
<1>5. commit /\ job.subscribe => streamNames' = streamNames \cup names /\ reserved' = reserved
    BY <1>2, <1>3
<1>6. commit /\ ~job.subscribe =>
         /\ streamNames' = streamNames \ names
         /\ \A p \in Paths : reserved'[p] = Unreserved(p, streamNames \cap names \cap On(p))
    BY <1>2
<1>7. todo = {} => lock' = "free" /\ job' = NoJob /\ UNCHANGED <<conn, lease>>
    BY DEF Resume, MarketAnswered, Release, connVars
<1>8. ASSUME todo # {}
      PROVE  /\ lock' = c /\ job'.reserved = job.reserved /\ job'.req \in {"opening", "refused"}
             /\ job'.subscribe = job.subscribe /\ job'.topics = job.topics
             /\ job'.todo = todo /\ job'.at \in todo /\ job'.at \in Conns
             /\ lease \subseteq lease' /\ (job'.at \in Paths => conn'[job'.at] # "absent")
             /\ \A y \in Conns : conn'[y] # conn[y] => conn'[y] = "opening"
    <2>1. lock' = lock /\ \E x \in todo : SendTo(x, {}) /\ lease' = lease \cup Needed(x)
        BY <1>8 DEF Resume, MarketAnswered
    <2>2. PICK E : E = {}
        OBVIOUS
    <2>3. PICK x \in todo : SendTo(x, E) /\ lease' = lease \cup Needed(x)
        BY <2>1, <2>2
    <2>4. x \in Conns
        BY <1>1
    <2>5. /\ job'.reserved = job.reserved \cup E /\ job'.at = x /\ job'.req \in {"opening", "refused"}
          /\ job'.subscribe = job.subscribe /\ job'.topics = job.topics /\ job'.todo = job.todo \ {job.at}
          /\ (x \in Paths => conn'[x] # "absent") /\ \A y \in Conns : conn'[y] # conn[y] => conn'[y] = "opening"
        BY <2>3, <2>4, SendToOpens
    <2> QED BY <1>1, <2>1, <2>2, <2>3, <2>4, <2>5
<1> HIDE DEF todo, names
<1>9. PICK T, N : T = todo /\ N = names
    OBVIOUS
<1> QED BY <1>1, <1>4, <1>5, <1>6, <1>7, <1>8 DEF todo, names

\* Giving up a part D of the committed names of a path.
LEMMA ReleasedNames ==
    ASSUME Typed, NEW p \in Paths, NEW names, names \subseteq Topics, NEW D,
           D = streamNames \cap names \cap On(p)
    PROVE  /\ Cardinality((streamNames \ names) \cap On(p)) = Committed(p) - Cardinality(D)
           /\ Cardinality((streamNames \cup cancelled) \cap On(p))
                 <= Cardinality(((streamNames \ names) \cup cancelled) \cap On(p)) + Cardinality(D)
           /\ Cardinality(D) \in Nat
           /\ Unreserved(p, D) \in Nat /\ Unreserved(p, D) >= reserved[p] - Cardinality(D)
           /\ Unreserved(p, D) = 0 \/ Unreserved(p, D) = reserved[p] - Cardinality(D)
           /\ reserved[p] = 0 => Unreserved(p, D) = 0
<1>1. PICK S : S = streamNames \cap On(p)
    OBVIOUS
<1>2. PICK A : A = (streamNames \cup cancelled) \cap On(p)
    OBVIOUS
<1>3. PICK B : B = ((streamNames \ names) \cup cancelled) \cap On(p)
    OBVIOUS
<1>4. /\ S \in SUBSET Topics /\ A \in SUBSET Topics /\ B \in SUBSET Topics /\ D \in SUBSET Topics
      /\ A \ D \in SUBSET Topics
    BY <1>1, <1>2, <1>3 DEF On
<1>5. S \cap D = D /\ A \cap D = D /\ A \ D \subseteq B /\ (streamNames \ names) \cap On(p) = S \ D
    BY <1>1, <1>2, <1>3
<1>6. Cardinality(S \ D) = Cardinality(S) - Cardinality(D)
    BY <1>4, <1>5, Sizes
<1>7. Cardinality(A \ D) = Cardinality(A) - Cardinality(D) /\ Cardinality(A \ D) <= Cardinality(B)
    <2>1. Cardinality(A \ D) = Cardinality(A) - Cardinality(D)
        BY <1>4, <1>5, Sizes
    <2>2. Cardinality(A \ D) <= Cardinality(B)
        BY <1>4, <1>5, Sizes
    <2> QED BY <2>1, <2>2
<1>8. /\ Cardinality(A) \in Nat /\ Cardinality(B) \in Nat /\ Cardinality(D) \in Nat
      /\ Cardinality(A \ D) \in Nat /\ reserved[p] \in Nat
    BY <1>4, Counted, ProjectedIs
<1>9. Cardinality(A) <= Cardinality(B) + Cardinality(D)
    BY <1>7, <1>8
<1>10. /\ Unreserved(p, D) \in Nat /\ Unreserved(p, D) >= reserved[p] - Cardinality(D)
       /\ Unreserved(p, D) = 0 \/ Unreserved(p, D) = reserved[p] - Cardinality(D)
       /\ reserved[p] = 0 => Unreserved(p, D) = 0
    BY <1>8 DEF Unreserved
<1> QED BY <1>1, <1>2, <1>3, <1>5, <1>6, <1>8, <1>9, <1>10 DEF Committed

LEMMA ResumeKeepsPools ==
    ASSUME Typed, Consistent, ReservedInv, NEW c \in Callers, Resume(c)
    PROVE  PoolOK' /\ OpenOK' /\ CapOK'
<1> DEFINE todo == job.todo \ {job.at}
           commit == job.at \in Paths /\ todo \subseteq {WsApi}
           names == job.topics \cap Names
<1>1. /\ lock = c /\ job.req = "acked" /\ job.at \in Conns /\ UNCHANGED <<cancelled, closing, toClose>>
      /\ ~commit => streamNames' = streamNames /\ reserved' = reserved
      /\ commit /\ job.subscribe => streamNames' = streamNames \cup names /\ reserved' = reserved
      /\ commit /\ ~job.subscribe =>
            /\ streamNames' = streamNames \ names
            /\ \A p \in Paths : reserved'[p] = Unreserved(p, streamNames \cap names \cap On(p))
      /\ todo = {} => lock' = "free" /\ job' = NoJob /\ UNCHANGED <<conn, lease>>
      /\ todo # {} =>
            /\ lock' = c /\ job'.reserved = job.reserved /\ job'.req \in {"opening", "refused"}
            /\ job'.subscribe = job.subscribe /\ job'.topics = job.topics
            /\ job'.todo = todo /\ job'.at \in todo /\ job'.at \in Conns
            /\ lease \subseteq lease' /\ (job'.at \in Paths => conn'[job'.at] # "absent")
            /\ \A y \in Conns : conn'[y] # conn[y] => conn'[y] = "opening"
    BY Zenon, ResumeIs
<1>2. /\ "free" \notin Callers /\ NoJob.reserved = {} /\ NoJob.req = "none" /\ NoJob.at = "none"
      /\ WsApi \notin Paths /\ "none" \notin Conns /\ names \subseteq Topics /\ names \subseteq Names
      /\ job.topics \subseteq Topics
    BY Routes DEF NoJob, Typed, TasksTyped, Job
<1>3. \A p \in Paths : \A t \in On(p) : t \in Names /\ Route[t] = p
    BY Routes DEF On, Names
<1>4. job.at = WsApi => todo = {}
    BY <1>1 DEF Consistent, JobOK
<1>5. job.at \in Paths \/ job.at = WsApi
    BY <1>1 DEF Conns
<1>6. lease \subseteq lease'
    BY <1>1
<1>7. \A y \in Conns : conn'[y] # conn[y] => conn'[y] = "opening"
    BY <1>1
\* An unsubscription that gives up its names.
<1>8. CASE commit /\ ~job.subscribe
    <2>1. job.reserved = {} /\ \A p \in Paths : Claimed(p) = {}
        BY <1>8, NoneClaimed DEF ReservedInv
    <2>2. job'.reserved = {} /\ job'.req # "prepare" /\ ~(lock' \in Callers /\ job'.subscribe)
        BY <1>1, <1>2, <1>8, <2>1
    <2>3. \A p \in Paths : Claimed(p)' = {}
        BY <2>2 DEF Claimed
    <2>4. ASSUME NEW p \in Paths
          PROVE  /\ Committed(p)' <= Committed(p)
                 /\ reserved[p] >= Committed(p) => reserved'[p] >= Committed(p)'
                 /\ reserved[p] = 0 => reserved'[p] = 0
                 /\ reserved'[p] <= Cardinality((streamNames' \cup cancelled' \cup Claimed(p)') \cap On(p))
        <3>1. PICK D : D = streamNames \cap names \cap On(p)
            OBVIOUS
        <3>2. /\ Cardinality((streamNames \ names) \cap On(p)) = Committed(p) - Cardinality(D)
              /\ Cardinality((streamNames \cup cancelled) \cap On(p))
                    <= Cardinality(((streamNames \ names) \cup cancelled) \cap On(p)) + Cardinality(D)
              /\ Cardinality(D) \in Nat
              /\ Unreserved(p, D) \in Nat /\ Unreserved(p, D) >= reserved[p] - Cardinality(D)
              /\ Unreserved(p, D) = 0 \/ Unreserved(p, D) = reserved[p] - Cardinality(D)
              /\ reserved[p] = 0 => Unreserved(p, D) = 0
            BY <1>2, <3>1, ReleasedNames
        <3>3. reserved'[p] = Unreserved(p, D) /\ streamNames' = streamNames \ names
            BY <1>1, <1>8, <3>1
        <3>4. Committed(p)' = Committed(p) - Cardinality(D) /\ Committed(p) \in Nat /\ reserved[p] \in Nat
            BY <3>2, <3>3, ProjectedIs DEF Committed
        <3>5. PICK A : A = (streamNames \cup cancelled) \cap On(p)
            OBVIOUS
        <3>6. PICK B : B = ((streamNames \ names) \cup cancelled) \cap On(p)
            OBVIOUS
        <3>7. (streamNames \cup cancelled \cup Claimed(p)) \cap On(p) = A
            BY <2>1, <3>5
        <3>8. (streamNames' \cup cancelled' \cup Claimed(p)') \cap On(p) = B
            BY <1>1, <2>3, <3>3, <3>6
        <3>9. reserved[p] <= Cardinality(A)
            BY <3>7 DEF ReservedInv, PoolOK
        <3>10. Cardinality(A) \in Nat /\ Cardinality(B) \in Nat
            BY <3>5, <3>6, Counted DEF On
        <3>11. reserved'[p] <= Cardinality(B)
            BY <3>2, <3>3, <3>4, <3>5, <3>6, <3>9, <3>10
        <3>12. reserved'[p] <= Cardinality((streamNames' \cup cancelled' \cup Claimed(p)') \cap On(p))
            BY <3>8, <3>11
        <3>13. Committed(p)' <= Committed(p)
            BY <3>2, <3>4
        <3>14. reserved[p] >= Committed(p) => reserved'[p] >= Committed(p)'
            BY <3>2, <3>3, <3>4
        <3>15. reserved[p] = 0 => reserved'[p] = 0
            BY <3>2, <3>3
        <3> QED BY <3>12, <3>13, <3>14, <3>15
    <2>5. PoolOK'
        <3>1. \A p \in Paths : p \notin lease' => reserved'[p] = 0
            BY <1>6, <2>4 DEF ReservedInv, PoolOK
        <3> QED BY <2>2, <2>4, <3>1 DEF PoolOK, On
    <2>6. CapOK'
        <3>1. \A p \in Paths : Committed(p)' <= MaxStreams
            <4> SUFFICES ASSUME NEW p \in Paths PROVE Committed(p)' <= MaxStreams
                OBVIOUS
            <4>1. Committed(p)' <= Committed(p) /\ Committed(p) <= MaxStreams
                BY <2>4 DEF ReservedInv, CapOK
            <4>2. Committed(p) \in Nat /\ Committed(p)' \in Nat /\ MaxStreams \in Nat
                <5>1. streamNames' \cap On(p) \subseteq Topics
                    BY DEF On
                <5> QED BY <5>1, ProjectedIs, Counted, SubscriptionAssumption DEF Committed
            <4> QED BY <4>1, <4>2
        <3> QED BY <2>2, <3>1 DEF CapOK, Sending
    <2>7. OpenOK'
        <3> SUFFICES ASSUME closing' = "no" PROVE OpenOK'
            BY DEF OpenOK
        <3>1. /\ closing = "no" /\ toClose' = {} /\ \A x \in Conns : conn'[x] # "closing"
              /\ \A x \in Conns : conn[x] # "absent" => conn'[x] # "absent"
              /\ \A p \in Paths : reserved[p] >= Committed(p)
            BY <1>1, <1>7 DEF ReservedInv, OpenOK
        <3>2. \A n \in streamNames' : conn'[Route[n]] # "absent"
            <4>1. \A n \in streamNames : Route[n] \in Conns
                BY Routes DEF Typed, FlagsTyped, Names
            <4> QED BY <1>1, <1>8, <3>1, <4>1 DEF ReservedInv, OpenOK
        <3>3. lock' \in Callers => \A n \in job'.topics \cap Names :
                  Route[n] \in job'.todo \ {job'.at} \/ conn'[Route[n]] # "absent"
            <4> SUFFICES ASSUME lock' \in Callers, NEW n \in job'.topics \cap Names,
                                Route[n] \notin job'.todo \ {job'.at}
                         PROVE  conn'[Route[n]] # "absent"
                OBVIOUS
            <4>1. todo # {}
                BY <1>1, <1>2
            <4>2. /\ job'.topics = job.topics /\ job'.todo = todo /\ Route[n] \in Paths /\ Route[n] \in Conns
                  /\ job'.at \in Paths => conn'[job'.at] # "absent"
                BY <1>1, <4>1, Routes DEF Names
            <4>3. Route[n] \in todo \/ conn[Route[n]] # "absent"
                BY <1>1, <3>1, <4>2 DEF ReservedInv, OpenOK
            <4> QED BY <3>1, <4>2, <4>3
        <3> QED BY <2>2, <2>4, <3>1, <3>2, <3>3 DEF OpenOK
    <2> QED BY <2>5, <2>6, <2>7
\* The names of a subscription are committed, or the market part goes on.
<1>9. CASE ~(commit /\ ~job.subscribe)
    <2>1. reserved' = reserved /\ streamNames \subseteq streamNames'
          /\ streamNames' \subseteq streamNames \cup (IF job.subscribe THEN job.topics ELSE {})
        BY <1>1, <1>9
    <2>2. PoolOK'
        <3>1. ASSUME todo = {} PROVE \A p \in Paths : Claimed(p) \cap On(p) \subseteq streamNames'
            <4> SUFFICES ASSUME NEW p \in Paths, NEW t \in Claimed(p) \cap On(p) PROVE t \in streamNames'
                OBVIOUS
            <4>1. job.subscribe /\ t \in job.topics /\ t \in Names
                BY <1>3 DEF Claimed, ReservedInv, PoolOK
            <4>2. CASE job.at = WsApi
                BY <1>1, <2>1, <4>1, <4>2, NamesCommitted
            <4>3. CASE job.at \in Paths
                BY <1>1, <3>1, <4>1, <4>3
            <4> QED BY <1>5, <4>2, <4>3
        <3>2. todo # {} => \A p \in Paths : Claimed(p)' = Claimed(p)
            BY <1>1 DEF Claimed
        <3>3. job'.reserved # {} => lock' \in Callers /\ job'.subscribe /\ job'.req # "prepare"
            BY <1>1, <1>2 DEF ReservedInv, PoolOK
        <3>4. ASSUME NEW p \in Paths
              PROVE  (streamNames \cup cancelled \cup Claimed(p)) \cap On(p)
                         \subseteq streamNames' \cup cancelled' \cup Claimed(p)'
            BY <1>1, <2>1, <3>1, <3>2
        <3>5. PoolKept
            BY <1>6, <2>1, <3>3, <3>4 DEF PoolKept
        <3> QED BY <3>5, PoolMoves DEF ReservedInv
    <2>3. commit => job.subscribe /\ job.at # "none" /\ job.at \in Paths
        BY <1>1, <1>2, <1>9
    <2>4. commit => \A p \in Paths : Committed(p)' = Projected(p)
        <3> SUFFICES ASSUME commit, NEW p \in Paths PROVE Committed(p)' = Projected(p)
            OBVIOUS
        <3>1. streamNames' \cap On(p) = (streamNames \cup job.topics) \cap On(p)
            BY <1>1, <1>3, <2>3
        <3> QED BY <3>1 DEF Committed, Projected
    <2>5. ~commit => \A p \in Paths : Committed(p)' = Committed(p)
        BY <1>1 DEF Committed
    <2>6. todo # {} => \A p \in Paths : Projected(p)' = IF job.subscribe THEN Projected(p) ELSE Projected(p)'
        <3> SUFFICES ASSUME todo # {}, job.subscribe, NEW p \in Paths PROVE Projected(p)' = Projected(p)
            OBVIOUS
        <3>1. (streamNames' \cup job'.topics) \cap On(p) = (streamNames \cup job.topics) \cap On(p)
            BY <1>1, <2>1
        <3> QED BY <3>1 DEF Projected
    <2>7. CapOK'
        <3>1. job.subscribe => \A p \in Paths : Projected(p) <= MaxStreams
            BY <1>1, <1>2 DEF ReservedInv, CapOK, Sending
        <3>2. \A p \in Paths : Committed(p)' <= MaxStreams
            BY <2>3, <2>4, <2>5, <3>1 DEF ReservedInv, CapOK
        <3>3. Sending' => todo # {} /\ job.subscribe
            BY <1>1, <1>2 DEF Sending
        <3> QED BY <2>6, <3>1, <3>2, <3>3 DEF CapOK
    <2>8. OpenOK'
        <3> SUFFICES ASSUME closing' = "no" PROVE OpenOK'
            BY DEF OpenOK
        <3>1. /\ closing = "no" /\ toClose' = {} /\ \A x \in Conns : conn'[x] # "closing"
              /\ \A x \in Conns : conn[x] # "absent" => conn'[x] # "absent"
              /\ \A p \in Paths : reserved[p] >= Committed(p)
              /\ job.subscribe /\ job.at \in Paths => \A p \in Paths : reserved[p] >= Projected(p)
            BY <1>1, <1>7 DEF ReservedInv, OpenOK
        <3>2. \A n \in names : Route[n] \in todo \/ conn[Route[n]] # "absent"
            BY <1>1, <3>1 DEF ReservedInv, OpenOK
        <3>3. ASSUME NEW n \in streamNames' PROVE conn'[Route[n]] # "absent"
            <4>1. CASE n \in streamNames
                <5>1. Route[n] \in Conns
                    BY <4>1, Routes DEF Typed, FlagsTyped, Names
                <5> QED BY <3>1, <4>1, <5>1 DEF ReservedInv, OpenOK
            <4>2. CASE n \notin streamNames
                <5>1. commit /\ n \in names
                    BY <1>1, <1>9, <4>2
                <5>2. Route[n] \in Paths /\ Route[n] \in Conns
                    BY <1>2, <5>1, Routes
                <5>3. Route[n] \notin todo
                    BY <1>2, <5>1, <5>2
                <5> QED BY <3>1, <3>2, <5>1, <5>2, <5>3
            <4> QED BY <4>1, <4>2
        <3>4. lock' \in Callers => \A n \in job'.topics \cap Names :
                  Route[n] \in job'.todo \ {job'.at} \/ conn'[Route[n]] # "absent"
            <4> SUFFICES ASSUME lock' \in Callers, NEW n \in job'.topics \cap Names,
                                Route[n] \notin job'.todo \ {job'.at}
                         PROVE  conn'[Route[n]] # "absent"
                OBVIOUS
            <4>1. todo # {}
                BY <1>1, <1>2
            <4>2. /\ job'.topics = job.topics /\ job'.todo = todo /\ Route[n] \in Paths /\ Route[n] \in Conns
                  /\ job'.at \in Paths => conn'[job'.at] # "absent"
                BY <1>1, <4>1, Routes DEF Names
            <4> QED BY <3>1, <3>2, <4>2
        <3>5. \A p \in Paths : reserved'[p] >= Committed(p)'
            BY <2>1, <2>3, <2>4, <2>5, <3>1
        <3>6. ASSUME lock' \in Callers, job'.subscribe, job'.at \in Paths, NEW p \in Paths
              PROVE  reserved'[p] >= Projected(p)'
            <4>1. todo # {} /\ job.subscribe /\ job.at \in Paths
                BY <1>1, <1>2, <1>4, <1>5, <3>6
            <4>2. Projected(p)' = Projected(p)
                BY <2>6, <4>1
            <4> QED BY <2>1, <3>1, <4>1, <4>2
        <3> QED BY <3>1, <3>3, <3>4, <3>5, <3>6 DEF OpenOK
    <2> QED BY <2>2, <2>7, <2>8
<1> QED BY <1>8, <1>9

\* The topics of a subscription that ends are recorded, those of an
\* unsubscription are off the server.
LEMMA ResumeSent ==
    ASSUME Typed, Consistent, ReservedInv, NEW c \in Callers, Resume(c), StayAbsent PROVE SentOK'
<1>1. /\ lock = c /\ blurred' = blurred /\ job.req = "acked"
    BY DEF Resume, MarketAnswered, historyVars
<1>2. CASE job.todo \ {job.at} = {}
    <2>1. subscribed' = IF job.subscribe THEN subscribed \cup job.topics ELSE subscribed \ job.topics
        <3>1. call[c].subscribe = job.subscribe /\ call[c].topics = job.topics
            BY <1>1 DEF Consistent, JobOK
        <3> QED BY <1>2, <3>1 DEF Resume, MarketAnswered, Recorded
    <2>2. \A t \in job.topics : ~job.subscribe => Absent(t)
        BY <1>1, <1>2 DEF Consistent, GhostOK
    <2>3. \A t \in Topics \ blurred : t \in subscribed' \/ Absent(t)
        BY <2>1, <2>2 DEF ReservedInv, SentOK, Sending
    <2> QED BY <1>1, <2>3 DEF SentOK, StayAbsent
<1>3. CASE job.todo \ {job.at} # {}
    <2>1. /\ lock' = c /\ job'.subscribe = job.subscribe /\ job'.topics = job.topics /\ job'.at \in Conns
        BY <1>3, ResumeIs
    <2>2. subscribed' = subscribed
        BY <1>3 DEF Resume, MarketAnswered
    <2>3. Sending => Sending'
        BY <1>1, <2>1, Routes DEF Sending
    <2> QED BY <1>1, <2>1, <2>2, <2>3 DEF ReservedInv, SentOK, StayAbsent
<1> QED BY <1>2, <1>3

LEMMA TransmitSent ==
    ASSUME Typed, Consistent, ReservedInv, Transmit PROVE SentOK'
<1>1. /\ job.req = "opening" /\ job.at \in Conns /\ lock # "free" /\ lock \in Tasks \cup {"free"}
      /\ UNCHANGED <<lock, subscribed, blurred, halfway>>
    BY DEF Transmit, Consistent, JobOK, Typed, TasksTyped, recordVars, historyVars
<1>2. SameJob
    BY <1>1, Answered DEF Transmit
<1>3. Sending' <=> Sending
    BY <1>2 DEF SameJob, Sending
<1>4. ASSUME NEW t \in job.topics, job.subscribe PROVE t \in subscribed \/ Sending
    <2>1. CASE lock \in Callers
        BY <1>1, <1>4, <2>1, Routes DEF Sending
    <2>2. CASE lock \notin Callers
        BY <1>1, <2>2 DEF Consistent, JobOK, Tasks
    <2> QED BY <2>1, <2>2
<1>5. \A t \in Topics : Absent(t) /\ ~(job.subscribe /\ t \in job.topics) => Absent(t)'
    BY TransmitKeeps
<1> QED BY <1>1, <1>2, <1>3, <1>4, <1>5 DEF ReservedInv, SentOK, SameJob

LEMMA ReservedPreserved ==
    ASSUME Typed, Consistent, ReservedInv, [Next]_vars PROVE ReservedInv'
<1>1. WsApi \in Conns /\ (StayAbsent \/ Transmit)
    BY Routes, ConsistentPreserved
<1>2. CASE Transmit
    <2>1. Kept
        BY <1>1, <1>2, NetworkKept
    <2> QED BY <1>2, <2>1, CountsKeep, TransmitSent DEF Kept, ReservedInv
<1>3. CASE StayAbsent /\ \E c \in Callers : Resume(c)
    BY <1>3, ResumeKeepsPools, ResumeSent DEF ReservedInv
<1>4. CASE StayAbsent /\ \E c \in Callers : Prepare(c)
    <2> PICK c \in Callers : Prepare(c)
        BY <1>4
    <2>1. PoolOK' /\ OpenOK' /\ CapOK'
        BY PrepareKeepsPools
    <2>2. /\ UNCHANGED <<subscribed, blurred, halfway>> /\ job.at = "none"
        BY DEF Prepare, Consistent, JobOK, recordVars, historyVars
    <2>3. SentOK'
        BY <1>4, <2>2 DEF ReservedInv, SentOK, Sending, StayAbsent
    <2> QED BY <2>1, <2>3 DEF ReservedInv
<1>5. CASE StayAbsent /\ \E c \in Callers : Fail(c)
    <2> PICK c \in Callers : Fail(c)
        BY <1>5
    <2>1. PoolOK' /\ OpenOK' /\ CapOK'
        BY FailKeeps
    <2>2. RecordKept
        BY DEF Fail, RecordKept, recordVars
    <2> QED BY <1>5, <2>1, <2>2, SentMoves DEF ReservedInv
<1>6. CASE StayAbsent /\ \E x \in Conns : StreamClosed(x)
    <2> PICK x \in Conns : StreamClosed(x)
        BY <1>6
    <2>1. PoolOK' /\ OpenOK' /\ CapOK'
        BY StreamClosedKeeps
    <2>2. RecordKept
        BY DEF StreamClosed, RecordKept, SameJob, recordVars, taskVars, historyVars
    <2> QED BY <1>6, <2>1, <2>2, SentMoves DEF ReservedInv
<1>7. CASE StayAbsent /\ Kept
    BY <1>7, KeptKeeps
<1>8. (\E c \in Callers : Call(c) \/ Begin(c) \/ CancelCall(c)) => Kept
    BY <1>1, TasksKept, NetworkKept
<1>9. Logon \/ HandleTerminated \/ Terminate \/ CloseReturns \/ Recover \/ RecoverEnds \/ UNCHANGED vars => Kept
    BY <1>1, TasksKept
<1>10. Timeout \/ Close => Kept
    BY <1>1, NetworkKept
<1>11. (\E x \in Conns : Opened(x) \/ ServerShutdown(x) \/ Replay(x) \/ ReplayEnds(x)) => Kept
    BY TasksKept
<1>12. (\E x \in Conns : ServerHandles(x) \/ Drop(x) \/ Recycle(x) \/ CloseStream(x)) => Kept
    BY NetworkKept
<1>13. Next => \/ \E c \in Callers : Resume(c)
               \/ \E c \in Callers : Prepare(c)
               \/ \E c \in Callers : Fail(c)
               \/ \E x \in Conns : StreamClosed(x)
               \/ \E c \in Callers : Call(c) \/ Begin(c) \/ CancelCall(c)
               \/ Logon \/ HandleTerminated \/ Terminate \/ CloseReturns \/ Recover \/ RecoverEnds
               \/ Timeout \/ Close \/ Transmit
               \/ \E x \in Conns : Opened(x) \/ ServerShutdown(x) \/ Replay(x) \/ ReplayEnds(x)
               \/ \E x \in Conns : ServerHandles(x) \/ Drop(x) \/ Recycle(x) \/ CloseStream(x)
    BY Zenon DEF Next, Progress, Unforced
<1> QED BY <1>1, <1>2, <1>3, <1>4, <1>5, <1>6, <1>7, <1>8, <1>9, <1>10, <1>11, <1>12, <1>13

LEMMA InitReserved == ASSUME Init PROVE ReservedInv
<1>1. /\ lock \notin Callers /\ job.reserved = {} /\ streamNames = {} /\ toClose = {} /\ lease = {}
      /\ \A p \in Paths : reserved[p] = 0
      /\ \A x \in Conns : conn[x] = "absent" /\ Len(wire[x]) = 0
    BY Routes DEF Init, Tasks, NoJob
<1>2. \A p \in Paths : Committed(p) = 0
    <2>1. \A p \in Paths : streamNames \cap On(p) = {}
        BY <1>1
    <2> QED BY <2>1, FS_EmptySet DEF Committed
<1>3. PoolOK
    <2>1. \A p \in Paths : 0 <= Cardinality((streamNames \cup cancelled \cup Claimed(p)) \cap On(p))
        <3> SUFFICES ASSUME NEW p \in Paths
                     PROVE  0 <= Cardinality((streamNames \cup cancelled \cup Claimed(p)) \cap On(p))
            OBVIOUS
        <3>1. Cardinality((streamNames \cup cancelled \cup Claimed(p)) \cap On(p)) \in Nat
            BY Counted DEF On
        <3> QED BY <3>1
    <2> QED BY <1>1, <2>1 DEF PoolOK
<1>4. OpenOK
    BY <1>1, <1>2 DEF OpenOK
<1>5. CapOK
    BY <1>1, <1>2, SubscriptionAssumption DEF CapOK, Sending
<1>6. \A t \in Topics : Absent(t)
    BY <1>1, Routes DEF Init, Absent
<1>7. SentOK
    BY <1>6 DEF SentOK
<1> QED BY <1>3, <1>4, <1>5, <1>7 DEF ReservedInv

-----------------------------------------------------------------------------
(* What the tasks rely on *)

\* Only the holder of the lock has asked for anything, and of one connection.
LEMMA AsksIs ==
    ASSUME Typed, NEW t, NEW x
    PROVE  /\ lock # t \/ job.at # x \/ job.req \in {"none", "prepare", "refused"} => Asks(t, x) = "none"
           /\ lock = t /\ job.at = x =>
                /\ job.req = "opening" => Asks(t, x) = "asked"
                /\ job.req = "sent" => Asks(t, x) = "sent"
                /\ job.req = "acked" => Asks(t, x) = "answered"
                /\ job.req = "failed" => Asks(t, x) = "failed"
           /\ Asks(t, x) \in Seen(x)!Requests
BY DEF Typed, TasksTyped, Job, Requests, Asks, Seen!Requests

LEMMA AsksNext ==
    ASSUME Typed', NEW t, NEW x
    PROVE  /\ lock' # t \/ job'.at # x \/ job'.req \in {"none", "prepare", "refused"} => Asks(t, x)' = "none"
           /\ lock' = t /\ job'.at = x =>
                /\ job'.req = "opening" => Asks(t, x)' = "asked"
                /\ job'.req = "sent" => Asks(t, x)' = "sent"
                /\ job'.req = "acked" => Asks(t, x)' = "answered"
                /\ job'.req = "failed" => Asks(t, x)' = "failed"
           /\ Asks(t, x)' \in Seen(x)!Requests
BY DEF Typed, TasksTyped, Job, Requests, Asks, Seen!Requests

LEMMA AsksStays ==
    ASSUME NEW t, NEW x, lock' = lock, job'.at = job.at, job'.req = job.req
    PROVE  Asks(t, x)' = Asks(t, x)
BY DEF Asks

LEMMA OnwardIs ==
    ASSUME NEW x, NEW r
    PROVE  /\ r \in Seen(x)!Requests => r \in Seen(x)!Onward(r) /\ "none" \in Seen(x)!Onward(r)
           /\ r = "none" => "asked" \in Seen(x)!Onward(r)
           /\ r = "asked" /\ conn[x] # "opening" => "failed" \in Seen(x)!Onward(r)
           /\ r = "asked" /\ conn[x] = "up" => "sent" \in Seen(x)!Onward(r)
           /\ r = "sent" => "failed" \in Seen(x)!Onward(r)
           /\ r = "sent" /\ conn[x] = "up" => "answered" \in Seen(x)!Onward(r)
BY DEF Seen!Onward, Seen!Requests

LEMMA CutIs ==
    ASSUME NEW x, NEW r
    PROVE  /\ r \in Seen(x)!Requests \ {"sent"} => r \in Seen(x)!Cut(r)
           /\ r \in Seen(x)!Requests => "none" \in Seen(x)!Cut(r)
           /\ r = "sent" => "failed" \in Seen(x)!Cut(r)
BY DEF Seen!Cut, Seen!Requests

\* The step of a user of connection x ...
LEMMA Serves ==
    ASSUME Typed', NEW x \in Conns, conn'[x] = conn[x],
           \A t \in Tasks : Asks(t, x)' \in Seen(x)!Onward(Asks(t, x))
    PROVE  [Seen(x)!Next]_(Seen(x)!vars)
BY AsksNext DEF Seen!Next, Seen!Serve

\* ... and one that is none of x's.
LEMMA Untouched ==
    ASSUME NEW x \in Conns, conn'[x] = conn[x], \A t \in Tasks : Asks(t, x)' = Asks(t, x)
    PROVE  [Seen(x)!Next]_(Seen(x)!vars)
BY DEF Seen!vars

\* A task asks for something, and opens the connection when there is none.
LEMMA AsksFor ==
    ASSUME Typed, Typed', NEW x \in Conns, NEW t \in Tasks,
           conn'[x] = IF conn[x] = "absent" THEN "opening" ELSE conn[x],
           Asks(t, x)' = "asked", \A u \in Tasks : Asks(u, x) = "none",
           \A u \in Tasks \ {t} : Asks(u, x)' = "none"
    PROVE  [Seen(x)!Next]_(Seen(x)!vars)
<1>1. \A u \in Tasks : Asks(u, x)' \in Seen(x)!Onward(Asks(u, x))
    BY AsksIs, OnwardIs
<1>2. \A u \in Tasks : Asks(u, x)' \in Seen(x)!Requests
    BY AsksNext
<1>3. CASE conn[x] = "absent"
    BY <1>1, <1>2, <1>3 DEF Seen!Next, Seen!Open
<1>4. CASE conn[x] # "absent"
    BY <1>1, <1>4, Serves
<1> QED BY <1>3, <1>4

\* The lock is given back: its holder has what it wanted, or has given up.
LEMMA GivesBack ==
    ASSUME Typed, Typed', NEW x \in Conns, conn'[x] = conn[x], lock' \notin Tasks
    PROVE  [Seen(x)!Next]_(Seen(x)!vars)
<1>1. \A t \in Tasks : Asks(t, x)' = "none"
    BY AsksNext
<1>2. \A t \in Tasks : Asks(t, x)' \in Seen(x)!Onward(Asks(t, x))
    BY <1>1, AsksIs, OnwardIs
<1> QED BY <1>2, Serves

\* The request of the holder goes on, at the connection it is for.
LEMMA HolderServed ==
    ASSUME Typed, Typed', NEW x \in Conns, conn' = conn, lock' = lock, lock \in Tasks,
           job'.at = job.at,
           job.at = x => Asks(lock, x)' \in Seen(x)!Onward(Asks(lock, x))
    PROVE  [Seen(x)!Next]_(Seen(x)!vars)
<1>1. \A t \in Tasks : lock # t \/ job.at # x => Asks(t, x) = "none" /\ Asks(t, x)' = "none"
    BY AsksIs, AsksNext
<1>2. ASSUME NEW t \in Tasks PROVE Asks(t, x)' \in Seen(x)!Onward(Asks(t, x))
    <2>1. CASE lock = t /\ job.at = x
        BY <2>1
    <2>2. CASE lock # t \/ job.at # x
        BY <1>1, <2>2, AsksIs, OnwardIs
    <2> QED BY <2>1, <2>2
<1> QED BY <1>2, Serves

\* The steps of callers.
LEMMA CallersUse ==
    ASSUME IInv, Typed, Typed', NEW x \in Conns, NEW c \in Callers,
           Call(c) \/ Begin(c) \/ Prepare(c) \/ Resume(c) \/ Fail(c) \/ CancelCall(c)
    PROVE  [Seen(x)!Next]_(Seen(x)!vars)
<1> USE DEF connVars, taskVars
<1>0. /\ job \in Job /\ conn \in [Conns -> ConnAt] /\ JobOK /\ "free" \notin Tasks /\ c \in Tasks
      /\ x # "none"
    BY Routes DEF IInv, Consistent, Typed, TasksTyped, ConnsTyped
<1>1. CASE Call(c)
    BY <1>1, AsksStays, Untouched DEF Call
<1>2. CASE Begin(c)
    <2>1. CASE Remaining(c) = {}
        BY <1>2, <2>1, AsksStays, Untouched DEF Begin
    <2>2. CASE Remaining(c) # {}
        <3>1. lock = "free" /\ conn' = conn /\ lock' = c /\ job' = [NoJob EXCEPT !.subscribe = call[c].subscribe,
                  !.topics = call[c].topics, !.todo = Remaining(c), !.req = "prepare"]
            BY <1>2, <2>2 DEF Begin
        <3>2. job'.req = "prepare"
            BY <3>1 DEF NoJob
        <3>3. \A t \in Tasks : Asks(t, x) = "none" /\ Asks(t, x)' = "none"
            BY <1>0, <3>1, <3>2, AsksIs, AsksNext
        <3> QED BY <3>1, <3>3, Untouched
    <2> QED BY <2>1, <2>2
<1>3. ASSUME NEW y \in Conns, NEW S, SendTo(y, S), lock = c, lock' = lock, y # job.at
      PROVE  [Seen(x)!Next]_(Seen(x)!vars)
    <2>1. job'.at = y /\ job'.req \in {"opening", "refused"}
        BY <1>3, SendToIs
    <2>2. \/ /\ job'.req = "opening"
             /\ conn' = IF conn[y] = "absent" THEN [conn EXCEPT ![y] = "opening"] ELSE conn
          \/ job'.req = "refused" /\ conn' = conn
        BY <1>0, <1>3 DEF SendTo, OpenIfAbsent, Job
    <2>5. CASE job'.req = "refused"
        <3>1. conn' = conn
            BY <2>2, <2>5
        <3>2. \A u \in Tasks : Asks(u, x)' = "none"
            BY <2>5, AsksNext
        <3>3. \A u \in Tasks : Asks(u, x)' \in Seen(x)!Onward(Asks(u, x))
            BY <3>2, AsksIs, OnwardIs
        <3> QED BY <3>1, <3>3, Serves
    <2>3. CASE x = y /\ job'.req = "opening"
        <3>1. \A u \in Tasks : Asks(u, x) = "none"
            BY <1>3, <2>3, AsksIs
        <3>2. Asks(c, x)' = "asked" /\ \A u \in Tasks \ {c} : Asks(u, x)' = "none"
            BY <1>3, <2>1, <2>3, AsksNext
        <3> QED BY <1>0, <2>2, <2>3, <3>1, <3>2, AsksFor
    <2>4. CASE x # y /\ job'.req = "opening"
        <3>1. \A u \in Tasks : Asks(u, x)' = "none"
            BY <2>1, <2>4, AsksNext
        <3>2. \A u \in Tasks : Asks(u, x)' \in Seen(x)!Onward(Asks(u, x))
            BY <3>1, AsksIs, OnwardIs
        <3>3. conn'[x] = conn[x]
            BY <1>0, <2>2, <2>4
        <3> QED BY <3>2, <3>3, Serves
    <2> QED BY <2>1, <2>3, <2>4, <2>5
<1>4. CASE Prepare(c)
    <2>1. lock = c /\ lock' = lock /\ job.req = "prepare" /\ job.at = "none"
        BY <1>0, <1>4 DEF Prepare, JobOK
    <2>2. \/ \E y \in job.todo, S \in SUBSET Paths : SendTo(y, S)
          \/ conn' = conn /\ \E S : job' = [job EXCEPT !.reserved = S, !.req = "failed"]
        BY <1>4, Zenon DEF Prepare
    <2>3. CASE \E y \in job.todo, S \in SUBSET Paths : SendTo(y, S)
        <3>1. PICK y \in job.todo, S \in SUBSET Paths : SendTo(y, S)
            BY <2>3
        <3>2. y \in Conns /\ y # job.at
            BY <1>0, <2>1, Routes DEF Job
        <3> QED BY <1>3, <2>1, <3>1, <3>2
    <2>4. CASE conn' = conn /\ \E S : job' = [job EXCEPT !.reserved = S, !.req = "failed"]
        <3>1. job'.at = job.at
            BY <1>0, <2>4 DEF Job
        <3>2. \A t \in Tasks : Asks(t, x) = "none" /\ Asks(t, x)' = "none"
            BY <1>0, <2>1, <3>1, AsksIs, AsksNext
        <3> QED BY <2>4, <3>2, Untouched
    <2> QED BY <2>2, <2>3, <2>4
<1>5. CASE Resume(c)
    <2>1. lock = c
        BY <1>5 DEF Resume, MarketAnswered
    <2>2. CASE job.todo \ {job.at} = {}
        <3>1. conn' = conn /\ lock' = "free"
            BY <1>5, <2>2 DEF Resume, MarketAnswered, Release
        <3> QED BY <1>0, <3>1, GivesBack
    <2>3. CASE job.todo \ {job.at} # {}
        <3>1. lock' = lock /\ \E y \in job.todo \ {job.at} : SendTo(y, {})
            BY <1>5, <2>3 DEF Resume, MarketAnswered
        <3>2. PICK y \in job.todo \ {job.at} : SendTo(y, {})
            BY <3>1
        <3>3. y \in Conns
            BY <1>0 DEF Job
        <3> QED BY <1>3, <2>1, <3>1, <3>2, <3>3
    <2> QED BY <2>2, <2>3
<1>6. CASE Fail(c)
    <2>1. conn' = conn /\ lock' = "free"
        BY <1>6 DEF Fail, Release
    <2> QED BY <1>0, <2>1, GivesBack
<1>7. CASE CancelCall(c)
    <2>1. CASE lock = c
        <3>1. conn' = conn /\ lock' = "free"
            BY <1>7, <2>1 DEF CancelCall, Release
        <3> QED BY <1>0, <3>1, GivesBack
    <2>2. CASE lock # c
        BY <1>7, <2>2, AsksStays, Untouched DEF CancelCall
    <2> QED BY <2>1, <2>2
<1> QED BY <1>1, <1>2, <1>4, <1>5, <1>6, <1>7

\* The steps of the replay hooks and of the recovery.
LEMMA ReplaysUse ==
    ASSUME IInv, Typed, Typed', NEW x \in Conns, NEW y \in Conns,
           \/ Opened(y) \/ Logon \/ Replay(y) \/ ReplayEnds(y)
           \/ HandleTerminated \/ Recover \/ RecoverEnds
    PROVE  [Seen(x)!Next]_(Seen(x)!vars)
<1> USE DEF connVars, taskVars
<1>0. /\ job \in Job /\ conn \in [Conns -> ConnAt] /\ "free" \notin Tasks /\ y \in Tasks
      /\ WsApi \in Conns /\ Recovery \in Tasks
    BY Routes DEF Typed, TasksTyped, ConnsTyped
<1>1. CASE Opened(y)
    <2>1. /\ conn[y] \in {"opening", "lost"} /\ conn' = [conn EXCEPT ![y] = "up"]
          /\ \A t \in Tasks : Asks(t, x)' = Asks(t, x)
        BY <1>1, AsksStays DEF Opened
    <2>2. CASE x = y
        <3>1. Seen(x)!Up
            BY <1>0, <2>1, <2>2 DEF Seen!Up
        <3> QED BY <3>1 DEF Seen!Next
    <2>3. CASE x # y
        BY <1>0, <2>1, <2>3, Untouched
    <2> QED BY <2>2, <2>3
<1>2. CASE Logon \/ HandleTerminated
    <2>1. UNCHANGED <<lock, job, conn>>
        BY <1>2 DEF Logon, HandleTerminated
    <2> QED BY <2>1, AsksStays, Untouched
<1>3. ASSUME NEW t \in Tasks, NEW T, lock = "free", lock' = t, NEW z \in Conns,
             job' = [NoJob EXCEPT !.subscribe = TRUE, !.topics = T, !.at = z, !.req = "opening"],
             conn' = conn \/ conn' = IF conn[z] = "absent" THEN [conn EXCEPT ![z] = "opening"] ELSE conn
      PROVE  [Seen(x)!Next]_(Seen(x)!vars)
    <2>1. job'.at = z /\ job'.req = "opening"
        BY <1>3 DEF NoJob
    <2>2. \A u \in Tasks : Asks(u, x) = "none"
        BY <1>0, <1>3, AsksIs
    <2>3. CASE x = z
        <3>1. Asks(t, x)' = "asked" /\ \A u \in Tasks \ {t} : Asks(u, x)' = "none"
            BY <1>3, <2>1, <2>3, AsksNext
        <3>2. CASE conn' = conn
            <4>1. \A u \in Tasks : Asks(u, x)' \in Seen(x)!Onward(Asks(u, x))
                BY <2>2, <3>1, AsksIs, OnwardIs
            <4> QED BY <3>2, <4>1, Serves
        <3>3. CASE conn' = IF conn[z] = "absent" THEN [conn EXCEPT ![z] = "opening"] ELSE conn
            BY <1>0, <2>2, <2>3, <3>1, <3>3, AsksFor
        <3> QED BY <1>3, <3>2, <3>3
    <2>4. CASE x # z
        <3>1. \A u \in Tasks : Asks(u, x)' = "none"
            BY <2>1, <2>4, AsksNext
        <3>2. conn'[x] = conn[x]
            BY <1>0, <1>3, <2>4
        <3> QED BY <2>2, <3>1, <3>2, Untouched
    <2> QED BY <2>3, <2>4
<1>4. CASE Replay(y)
    <2>1. CASE subscribed \cap On(y) = {}
        BY <1>4, <2>1, AsksStays, Untouched DEF Replay
    <2>2. CASE subscribed \cap On(y) # {}
        <3>1. /\ lock = "free" /\ lock' = y /\ conn' = conn
              /\ job' = [NoJob EXCEPT !.subscribe = TRUE, !.topics = subscribed \cap On(y), !.at = y,
                                      !.req = "opening"]
            BY <1>4, <2>2 DEF Replay
        <3> QED BY <1>0, <1>3, <3>1
    <2> QED BY <2>1, <2>2
<1>5. CASE Recover
    <2>1. CASE ~RecoveryDue
        BY <1>5, <2>1, AsksStays, Untouched DEF Recover
    <2>2. CASE RecoveryDue
        <3>1. /\ lock = "free" /\ lock' = Recovery
              /\ job' = [NoJob EXCEPT !.subscribe = TRUE, !.topics = {User}, !.at = WsApi,
                                      !.req = "opening"]
              /\ conn' = IF conn[WsApi] = "absent" THEN [conn EXCEPT ![WsApi] = "opening"] ELSE conn
            BY <1>5, <2>2 DEF Recover, OpenIfAbsent
        <3> QED BY <1>0, <1>3, <3>1
    <2> QED BY <2>1, <2>2
<1>6. CASE ReplayEnds(y) \/ RecoverEnds
    <2>1. conn' = conn /\ lock' = "free"
        BY <1>6 DEF ReplayEnds, RecoverEnds, Release
    <2> QED BY <1>0, <2>1, GivesBack
<1> QED BY <1>1, <1>2, <1>4, <1>5, <1>6

\* A request that is awaited is the holder's, and goes by the connection it
\* is for.
LEMMA Awaited ==
    ASSUME IInv, Typed, job.req \in {"opening", "sent"}
    PROVE  lock \in Tasks /\ job.at \in Conns
BY DEF IInv, Consistent, JobOK, Typed, TasksTyped

\* The steps of a request: sent, answered or refused, not answered in time.
LEMMA RequestsUse ==
    ASSUME IInv, Typed, Typed', NEW x \in Conns, NEW y \in Conns,
           Transmit \/ ServerHandles(y) \/ Timeout
    PROVE  [Seen(x)!Next]_(Seen(x)!vars)
<1> USE DEF connVars
<1>0. job \in Job
    BY DEF Typed, TasksTyped
<1>1. ASSUME NEW r \in Requests
      PROVE  [job EXCEPT !.req = r].at = job.at /\ [job EXCEPT !.req = r].req = r
    BY <1>0 DEF Job
<1>2. CASE Transmit
    <2>1. /\ job.req = "opening" /\ conn[job.at] # "opening" /\ conn' = conn /\ lock' = lock
          /\ job' = [job EXCEPT !.req = IF conn[job.at] = "up" THEN "sent" ELSE "failed"]
        BY <1>2 DEF Transmit
    <2>2. lock \in Tasks
        BY <2>1, Awaited
    <2>3. /\ job'.at = job.at
          /\ job'.req = IF conn[job.at] = "up" THEN "sent" ELSE "failed"
        BY <1>1, <2>1 DEF Requests
    <2>4. ASSUME job.at = x
          PROVE  Asks(lock, x)' \in Seen(x)!Onward(Asks(lock, x))
        <3>1. Asks(lock, x) = "asked"
            BY <2>1, <2>4, AsksIs
        <3>2. Asks(lock, x)' = IF conn[x] = "up" THEN "sent" ELSE "failed"
            BY <2>1, <2>3, <2>4, AsksNext
        <3> QED BY <2>1, <2>4, <3>1, <3>2, OnwardIs
    <2> QED BY <2>1, <2>2, <2>3, <2>4, HolderServed
<1>3. CASE ServerHandles(y)
    <2>1. wire[y] \in Seq(Request) /\ wire[y] # <<>>
        BY <1>3 DEF ServerHandles, Typed, ConnsTyped
    <2>2. Head(wire[y]) = wire[y][1] /\ 1 \in 1..Len(wire[y])
        BY <2>1, HeadTailProperties
    <2>3. conn[y] = "up" /\ conn' = conn /\ lock' = lock
        BY <1>3 DEF ServerHandles
    <2>4. CASE ~Head(wire[y]).mine
        <3>1. job' = job
            BY <1>3, <2>4 DEF ServerHandles
        <3> QED BY <2>3, <3>1, AsksStays, Untouched
    <2>5. CASE Head(wire[y]).mine
        <3>1. y = job.at /\ job.req = "sent"
            BY <2>2, <2>5 DEF IInv, Consistent, WireOK
        <3>2. PICK r \in {"acked", "failed"} : job' = [job EXCEPT !.req = r]
            BY <1>3, <2>5 DEF ServerHandles
        <3>3. job'.at = job.at /\ job'.req \in {"acked", "failed"}
            BY <1>1, <3>2 DEF Requests
        <3>4. lock \in Tasks
            BY <3>1, Awaited
        <3>5. ASSUME job.at = x
              PROVE  Asks(lock, x)' \in Seen(x)!Onward(Asks(lock, x))
            <4>1. Asks(lock, x) = "sent"
                BY <3>1, <3>5, AsksIs
            <4>2. Asks(lock, x)' \in {"answered", "failed"}
                BY <2>3, <3>3, <3>5, AsksNext
            <4> QED BY <2>3, <3>1, <3>5, <4>1, <4>2, OnwardIs
        <3> QED BY <2>3, <3>3, <3>4, <3>5, HolderServed
    <2> QED BY <2>4, <2>5
<1>4. CASE Timeout
    <2>1. job.req = "sent" /\ conn' = conn /\ lock' = lock /\ job' = [job EXCEPT !.req = "failed"]
        BY <1>4 DEF Timeout
    <2>2. lock \in Tasks
        BY <2>1, Awaited
    <2>3. job'.at = job.at /\ job'.req = "failed"
        BY <1>1, <2>1 DEF Requests
    <2>4. ASSUME job.at = x
          PROVE  Asks(lock, x)' \in Seen(x)!Onward(Asks(lock, x))
        <3>1. Asks(lock, x) = "sent" /\ Asks(lock, x)' = "failed"
            BY <2>1, <2>3, <2>4, AsksIs, AsksNext
        <3> QED BY <3>1, OnwardIs
    <2> QED BY <2>1, <2>2, <2>3, <2>4, HolderServed
<1> QED BY <1>2, <1>3, <1>4

\* A socket goes, and with it the request it carried.
LEMMA GoneUse ==
    ASSUME IInv, Typed, Typed', NEW x \in Conns, NEW y \in Conns, NEW state, SocketGone(y, state)
    PROVE  /\ x = y => Seen(x)!Lose(state)
           /\ x # y => [Seen(x)!Next]_(Seen(x)!vars)
<1>0. job \in Job /\ conn \in [Conns -> ConnAt] /\ "free" \notin Tasks
    BY Routes DEF Typed, TasksTyped, ConnsTyped
<1>1. conn' = [conn EXCEPT ![y] = state]
    BY DEF SocketGone
<1>2. CASE lock = y
    <2>1. lock' = "free" /\ job.at = y
        BY <1>2 DEF SocketGone, IInv, Consistent, JobOK
    <2>2. \A t \in Tasks : Asks(t, x)' = "none"
        BY <1>0, <2>1, AsksNext
    <2>3. x # y => \A t \in Tasks : Asks(t, x) = "none"
        BY <2>1, AsksIs
    <2>4. \A t \in Tasks : Asks(t, x)' \in Seen(x)!Cut(Asks(t, x)) /\ Asks(t, x)' \in Seen(x)!Requests
        BY <2>2, AsksIs, AsksNext, CutIs
    <2>5. CASE x = y
        BY <1>0, <1>1, <2>4, <2>5 DEF Seen!Lose
    <2>6. CASE x # y
        BY <1>0, <1>1, <2>2, <2>3, <2>6, Untouched
    <2> QED BY <2>5, <2>6
<1>3. CASE lock # y
    <2>1. /\ lock' = lock
          /\ job' = IF job.at = y /\ job.req = "sent" THEN [job EXCEPT !.req = "failed"] ELSE job
        BY <1>3 DEF SocketGone
    <2>2. /\ job'.at = job.at
          /\ job'.req = IF job.at = y /\ job.req = "sent" THEN "failed" ELSE job.req
        BY <1>0, <2>1 DEF Job
    <2>3. ASSUME NEW t \in Tasks
          PROVE  /\ x # y => Asks(t, x)' = Asks(t, x)
                 /\ x = y => Asks(t, x)' \in Seen(x)!Cut(Asks(t, x))
        <3>1. CASE lock = t /\ job.at = x /\ x = y /\ job.req = "sent"
            <4>1. Asks(t, x) = "sent" /\ Asks(t, x)' = "failed"
                BY <2>1, <2>2, <3>1, AsksIs, AsksNext
            <4> QED BY <3>1, <4>1, CutIs
        <3>2. CASE lock # t \/ job.at # x
            <4>1. Asks(t, x) = "none" /\ Asks(t, x)' = "none"
                BY <2>1, <2>2, <3>2, AsksIs, AsksNext
            <4> QED BY <4>1, AsksIs, CutIs
        <3>3. CASE lock = t /\ job.at = x /\ ~(x = y /\ job.req = "sent")
            <4>1. Asks(t, x)' = Asks(t, x)
                BY <2>1, <2>2, <3>3, AsksStays
            <4>2. x = y => Asks(t, x) # "sent"
                BY <3>3 DEF Asks
            <4> QED BY <4>1, <4>2, AsksIs, CutIs
        <3> QED BY <3>1, <3>2, <3>3
    <2>4. CASE x = y
        BY <1>0, <1>1, <2>3, <2>4, AsksNext DEF Seen!Lose
    <2>5. CASE x # y
        BY <1>0, <1>1, <2>3, <2>5, Untouched
    <2> QED BY <2>4, <2>5
<1> QED BY <1>2, <1>3

\* The steps of the network, of the recycle tasks and of close().
LEMMA NetworkUse ==
    ASSUME IInv, Typed, Typed', NEW x \in Conns, NEW y \in Conns,
           \/ Drop(y) \/ ServerShutdown(y) \/ Recycle(y) \/ Terminate
           \/ Close \/ CloseStream(y) \/ StreamClosed(y) \/ CloseReturns
    PROVE  [Seen(x)!Next]_(Seen(x)!vars)
<1> USE DEF connVars, taskVars
<1>0. conn \in [Conns -> ConnAt] /\ "free" \notin Tasks
    BY Routes DEF Typed, ConnsTyped
<1>1. CASE (Drop(y) \/ Recycle(y)) /\ SocketGone(y, "lost")
    <2>1. conn[y] = "up" \/ UNCHANGED <<lock, job, conn>>
        BY <1>1 DEF Drop, Recycle
    <2>2. CASE UNCHANGED <<lock, job, conn>>
        BY <2>2, AsksStays, Untouched
    <2>3. CASE conn[y] = "up"
        <3>1. x = y => Seen(x)!Drop
            BY <1>1, <2>3, GoneUse DEF Seen!Drop
        <3> QED BY <1>1, <3>1, GoneUse DEF Seen!Next
    <2> QED BY <2>1, <2>2, <2>3
<1>2. CASE (Drop(y) \/ Recycle(y)) /\ ~SocketGone(y, "lost")
    <2>1. UNCHANGED <<lock, job, conn>>
        BY <1>2 DEF Drop, Recycle
    <2> QED BY <2>1, AsksStays, Untouched
<1>3. CASE ServerShutdown(y) \/ Terminate \/ CloseReturns
    <2>1. UNCHANGED <<lock, job, conn>>
        BY <1>3 DEF ServerShutdown, Terminate, CloseReturns
    <2> QED BY <2>1, AsksStays, Untouched
<1>4. CASE Close
    <2>1. CASE lock = Recovery
        <3>1. conn' = conn /\ lock' = "free"
            BY <1>4, <2>1 DEF Close, Release
        <3> QED BY <1>0, <3>1, GivesBack
    <2>2. CASE lock # Recovery
        BY <1>4, <2>2, AsksStays, Untouched DEF Close
    <2> QED BY <2>1, <2>2
<1>5. CASE CloseStream(y)
    <2>1. conn[y] \in {"opening", "up", "lost"} /\ SocketGone(y, "closing")
        BY <1>5 DEF CloseStream
    <2>2. x = y => Seen(x)!Close
        BY <2>1, GoneUse DEF Seen!Close, Seen!States
    <2> QED BY <2>1, <2>2, GoneUse DEF Seen!Next
<1>6. CASE StreamClosed(y)
    <2>1. /\ conn[y] = "closing" /\ conn' = [conn EXCEPT ![y] = "absent"]
          /\ \A t \in Tasks : Asks(t, x)' = Asks(t, x)
        BY <1>6, AsksStays DEF StreamClosed
    <2>2. CASE x = y
        <3>1. Seen(x)!Closed
            BY <1>0, <2>1, <2>2 DEF Seen!Closed
        <3> QED BY <3>1 DEF Seen!Next
    <2>3. CASE x # y
        BY <1>0, <2>1, <2>3, Untouched
    <2> QED BY <2>2, <2>3
<1> QED BY <1>1, <1>2, <1>3, <1>4, <1>5, <1>6

LEMMA StepUses ==
    ASSUME IInv, IInv', NEW x \in Conns, [Next]_vars
    PROVE  [Seen(x)!Next]_(Seen(x)!vars)
<1>0. Typed /\ Typed'
    BY TypeParts DEF IInv
<1>1. CASE UNCHANGED vars
    BY <1>1, AsksStays, Untouched DEF vars, taskVars, connVars
<1>2. CASE Progress
    BY <1>0, <1>2, CallersUse, ReplaysUse, RequestsUse, NetworkUse, Zenon DEF Progress
<1>3. CASE Unforced
    BY <1>0, <1>3, CallersUse, RequestsUse, NetworkUse, Zenon DEF Unforced
<1> QED BY <1>1, <1>2, <1>3 DEF Next

-----------------------------------------------------------------------------
(* The theorems *)

LEMMA InvariantHolds == Spec => []IInv
<1>1. Init => IInv
    BY InitTyped, InitConsistent, InitReserved DEF IInv
<1>2. IInv /\ [Next]_vars => IInv'
    BY TypeParts, TypePreserved, ConsistentPreserved, ReservedPreserved DEF IInv, Consistent
<1> QED BY <1>1, <1>2, PTL DEF Spec

\* Every variable keeps its type: what the server has of a topic is counted to
\* two, the leases and the requests are of connections there are, and nothing
\* is recorded that no call can be made with.
THEOREM TypeCorrect == Spec => []TypeOK
<1>1. IInv => TypeOK
    BY DEF IInv
<1> QED BY <1>1, InvariantHolds, PTL

\* Between two changes _subscribed and _stream_names tell the same names, for
\* any number of callers, paths and topics and any cap (subscription.py): also
\* those of calls that raised or were cancelled in their market part, after any
\* number of paths, but not those of calls that ended at their user part.
THEOREM RecordsAlwaysAgree == Spec => []RecordsAgree
<1>1. IInv => RecordsAgree
    <2> SUFFICES ASSUME IInv, lock = "free" PROVE \A n \in Names \ halfway :
                                                     n \in subscribed <=> n \in streamNames
        BY DEF RecordsAgree
    <2>1. lock \notin Callers
        BY Routes
    <2> QED BY <2>1 DEF IInv, Consistent, AgreeOK
<1> QED BY <1>1, InvariantHolds, PTL

\* No replay, recovery or late request brings back a topic nobody subscribed
\* to any more: the server has it only while _subscribed has it, but for the
\* topics of calls and recoveries that failed, were cancelled or dropped.
THEOREM NoGhostEver == Spec => []NoGhost
<1>1. IInv => NoGhost
    <2> SUFFICES ASSUME IInv, Quiet, NEW t \in Topics \ blurred, live[t] > 0
                 PROVE  t \in subscribed
        BY DEF NoGhost
    <2>1. lock \notin Callers
        BY Routes DEF Quiet
    <2>2. ~Absent(t)
        BY DEF Absent
    <2> QED BY <2>1, <2>2 DEF IInv, Consistent, GhostOK
<1> QED BY <1>1, InvariantHolds, PTL

\* The ws-streams pool of a path counts its committed names and, between calls,
\* nothing else but names of cancelled calls, and the server is never asked for
\* more names on a connection than its limit: for any limit, any number of
\* paths, names and callers, whatever is rolled back on the way.
THEOREM ReservationsAlwaysExact == Spec => []ReservationsExact
<1>1. IInv => ReservationsExact
    <2> SUFFICES ASSUME IInv, NEW p \in Paths
                 PROVE  /\ Cardinality({t \in On(p) \ blurred : live[t] > 0}) <= MaxStreams
                        /\ lock = "free" =>
                             reserved[p] <= Cardinality((streamNames \cup cancelled) \cap On(p))
                        /\ lock = "free" /\ closing = "no" => reserved[p] >= Committed(p)
        BY DEF ReservationsExact
    <2>1. Typed
        BY TypeParts DEF IInv
    <2>2. \A t \in On(p) : t \in Names
        BY Routes DEF On, Names
    <2>3. \A t \in On(p) \ blurred : live[t] > 0 => t \in streamNames \/ (Sending /\ t \in job.topics)
        <3> SUFFICES ASSUME NEW t \in On(p) \ blurred, live[t] > 0, ~(Sending /\ t \in job.topics)
                     PROVE  t \in streamNames
            OBVIOUS
        <3>1. t \in Topics /\ t \in Names /\ Route[t] = p
            BY <2>2 DEF On
        <3>2. ~Absent(t)
            BY DEF Absent
        <3>3. t \in subscribed
            BY <3>1, <3>2 DEF IInv, ReservedInv, SentOK
        <3>4. CASE lock \in Callers /\ t \in job.topics /\ job.at = WsApi
            <4>1. ~job.subscribe
                BY <3>4, Routes DEF Sending
            <4>2. Route[t] \in job.todo
                BY <3>2, <3>4, <4>1 DEF IInv, Consistent, GhostOK
            <4>3. job.todo \subseteq {WsApi}
                BY <3>4 DEF IInv, Consistent, JobOK
            <4> QED BY <3>1, <4>2, <4>3, Routes
        <3>5. CASE ~(lock \in Callers /\ t \in job.topics /\ job.at = WsApi)
            <4>1. t \notin halfway
                BY <2>1 DEF Typed, FlagsTyped
            <4> QED BY <3>1, <3>3, <3>5, <4>1 DEF IInv, Consistent, AgreeOK
        <3> QED BY <3>4, <3>5
    <2>4. Cardinality({t \in On(p) \ blurred : live[t] > 0}) <= MaxStreams
        <3>1. PICK L : L = {t \in On(p) \ blurred : live[t] > 0}
            OBVIOUS
        <3>2. PICK N \in SUBSET Topics : /\ L \subseteq N /\ Cardinality(N) <= MaxStreams
            <4>1. CASE Sending
                <5>1. (streamNames \cup job.topics) \cap On(p) \in SUBSET Topics
                    BY DEF On
                <5>2. L \subseteq (streamNames \cup job.topics) \cap On(p)
                    BY <2>3, <3>1
                <5>3. Projected(p) <= MaxStreams
                    BY <4>1 DEF IInv, ReservedInv, CapOK
                <5> QED BY <5>1, <5>2, <5>3 DEF Projected
            <4>2. CASE ~Sending
                <5>1. streamNames \cap On(p) \in SUBSET Topics
                    BY DEF On
                <5>2. L \subseteq streamNames \cap On(p)
                    BY <2>3, <3>1, <4>2
                <5>3. Committed(p) <= MaxStreams
                    BY DEF IInv, ReservedInv, CapOK
                <5> QED BY <5>1, <5>2, <5>3 DEF Committed
            <4> QED BY <4>1, <4>2
        <3>3. L \in SUBSET Topics
            BY <3>1 DEF On
        <3>4. Cardinality(L) <= Cardinality(N) /\ Cardinality(L) \in Nat /\ Cardinality(N) \in Nat
            BY <3>2, <3>3, Sizes, Counted
        <3> QED BY <3>1, <3>2, <3>4, SubscriptionAssumption
    <2>5. ASSUME lock = "free" PROVE reserved[p] <= Cardinality((streamNames \cup cancelled) \cap On(p))
        <3>1. lock \notin Callers
            BY <2>5, Routes
        <3>2. Claimed(p) = {}
            BY <3>1, NoneClaimed DEF IInv, ReservedInv
        <3>3. (streamNames \cup cancelled \cup Claimed(p)) \cap On(p) = (streamNames \cup cancelled) \cap On(p)
            BY <3>2
        <3> QED BY <3>3 DEF IInv, ReservedInv, PoolOK
    <2>6. lock = "free" /\ closing = "no" => reserved[p] >= Committed(p)
        BY DEF IInv, ReservedInv, OpenOK
    <2> QED BY <2>4, <2>5, <2>6
<1> QED BY <1>1, InvariantHolds, PTL

\* Each connection of the manager takes only steps that a Stream may take
\* (ImplementsConnection in StreamProofs), for any callers, paths and topics: a
\* caller, a replay or a recovery hears the outcome of its own request, and
\* never over a socket that is gone (subscription.py, stream.py).
THEOREM ConnectionsAreStreams == Spec => UsesConnections
<1>1. Init => \A x \in Conns : Seen(x)!Init
    <2> SUFFICES ASSUME Init, NEW x \in Conns PROVE Seen(x)!Init
        OBVIOUS
    <2>1. \A t \in Tasks : Asks(t, x) = "none"
        BY Routes DEF Init, Asks
    <2>2. conn[x] = "absent"
        BY DEF Init
    <2> QED BY <2>1, <2>2 DEF Seen!Init
<1>2. IInv /\ IInv' /\ [Next]_vars => [\A x \in Conns : [Seen(x)!Next]_(Seen(x)!vars)]_vars
    BY StepUses
<1> QED BY <1>1, <1>2, InvariantHolds, PTL DEF Spec, UsesConnections
=============================================================================
