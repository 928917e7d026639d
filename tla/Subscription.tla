---------------------------- MODULE Subscription ----------------------------
(***************************************************************************)
(* SubscriptionManager of the Spot client: market names over one           *)
(* connection per path, the user stream over the WS-API connection, one    *)
(* lock around every change.  A step is the code between two awaits.  The  *)
(* tasks that compete for the lock are                                     *)
(*                                                                         *)
(*   - the callers of subscribe() and unsubscribe();                       *)
(*   - per connection its on_connected hook, which replays what is         *)
(*     recorded (and logs on, on the WS-API connection);                   *)
(*   - the recovery that eventStreamTerminated starts.                     *)
(*                                                                         *)
(* A connection is a Stream seen from outside (module Connection): it      *)
(* opens in the end, may drop, and carries requests, here in order.  live  *)
(* counts what the server has subscribed: a topic subscribed twice         *)
(* delivers every event twice.                                             *)
(***************************************************************************)
EXTENDS Integers, Sequences, FiniteSets

CONSTANTS
    Callers,     \* tasks that call subscribe() and unsubscribe()
    Paths,       \* data stream paths
    WsApi,       \* the WS-API connection
    User,        \* SubType.USER
    Route,       \* connection of each topic: data_stream_router, WsApi for User
    Args,        \* the sets of topics a call is made with
    MaxStreams,  \* WS_STREAMS_RULE: names per data connection
    MaxCalls,    \* bound: calls of subscribe() and unsubscribe()
    MaxFaults    \* bound: drops, server errors, timeouts, cancellations, ...

Topics == DOMAIN Route
Names == Topics \ {User}
Conns == Paths \cup {WsApi}
On(x) == {t \in Topics : Route[t] = x}

ASSUME SubscriptionAssumption ==
    /\ Route \in [Topics -> Conns] /\ IsFiniteSet(Topics)
    /\ User \in Topics /\ On(WsApi) = {User}
    /\ WsApi \notin Paths
    /\ Args \subseteq SUBSET Topics \ {{}}
    /\ Callers \cap (Conns \cup {"recovery", "free"}) = {}
    /\ Conns \cap {"recovery", "free", "none"} = {}
    /\ {MaxStreams, MaxCalls, MaxFaults} \subseteq Nat

VARIABLES
    subscribed,   \* _subscribed
    streamNames,  \* _stream_names
    want,         \* _want_user_stream
    inflight,     \* _user_unsubscribe_inflight
    known,        \* UserProcessor._subscribed: a subscription was composed
                  \* since the last unsubscription was
    lock,         \* holder of _subscription_lock, or "free"
    pc,           \* where each task is
    call,         \* the arguments of each caller
    job,          \* what the holder of the lock is doing
    conn,         \* the Stream of each connection
    first,        \* initial_connection of each data stream
    lease,        \* the connections that hold a ConnectionLease
    reserved,     \* the ws-streams pool of each path
    wire,         \* requests sent and not handled by the server
    live,         \* how often the server has each topic subscribed
    recycle,      \* the connections with a recycle task
    terminated,   \* an eventStreamTerminated waits to be handled
    closing,      \* close(): not called, running, returned
    toClose,      \* the streams it has not closed yet
    blurred,      \* history: topics of calls and recoveries that failed, were
                  \* cancelled or dropped
    cancelled,    \* history: those of calls that were cancelled
    halfway,      \* history: those of calls that ended at their user part
    overlap,      \* history: close() began during a call
    calls, faults

recordVars == <<subscribed, streamNames>>
userVars == <<want, inflight, known>>
taskVars == <<lock, pc, job>>
connVars == <<conn, first, lease>>
serverVars == <<wire, live>>
ctlVars == <<recycle, terminated>>
closeVars == <<closing, toClose>>
historyVars == <<blurred, cancelled, halfway, overlap, calls>>
vars == <<recordVars, userVars, taskVars, call, connVars, reserved, serverVars,
          ctlVars, closeVars, historyVars, faults>>

Recovery == "recovery"
Tasks == Callers \cup Conns \cup {Recovery}
Committed(p) == Cardinality(streamNames \cap On(p))

NoCall == [subscribe |-> FALSE, topics |-> {}]
NoJob == [subscribe |-> FALSE, topics |-> {}, todo |-> {}, at |-> "none",
          req |-> "none", reserved |-> {}, prevWant |-> FALSE]

\* resolving the names; awaiting the connection; awaiting the answer;
\* answered; raised; raised before the connection was asked for anything
Requests == {"none", "prepare", "opening", "sent", "acked", "failed", "refused"}

TypeOK ==
    /\ subscribed \in SUBSET Topics /\ streamNames \in SUBSET Names
    /\ {want, inflight, known, terminated, overlap} \subseteq BOOLEAN
    /\ lock \in Tasks \cup {"free"}
    /\ pc \in [Tasks -> {"idle", "logon", "waiting", "holding"}]
    /\ call \in [Callers -> [subscribe : BOOLEAN, topics : SUBSET Topics]]
    /\ job \in [subscribe : BOOLEAN, topics : SUBSET Topics,
                todo : SUBSET Conns, at : Conns \cup {"none"}, req : Requests,
                reserved : SUBSET Paths, prevWant : BOOLEAN]
    /\ conn \in [Conns -> {"absent", "opening", "up", "lost", "closing"}]
    /\ first \in [Paths -> BOOLEAN]
    /\ lease \in SUBSET Conns
    /\ reserved \in [Paths -> Nat]
    /\ wire \in [Conns -> Seq([subscribe : BOOLEAN, topics : SUBSET Topics,
                               mine : BOOLEAN])]
    /\ live \in [Topics -> 0..2]
    /\ recycle \in SUBSET Conns
    /\ closing \in {"no", "running", "done"} /\ toClose \in SUBSET Conns
    /\ blurred \in SUBSET Topics /\ {cancelled, halfway} \subseteq SUBSET blurred
    /\ calls \in 0..MaxCalls /\ faults \in 0..MaxFaults

Init ==
    /\ subscribed = {} /\ streamNames = {}
    /\ want = FALSE /\ inflight = FALSE /\ known = FALSE
    /\ lock = "free" /\ job = NoJob
    /\ pc = [t \in Tasks |-> "idle"]
    /\ call = [c \in Callers |-> NoCall]
    /\ conn = [x \in Conns |-> "absent"]
    /\ first = [p \in Paths |-> TRUE]
    /\ lease = {} /\ reserved = [p \in Paths |-> 0]
    /\ wire = [x \in Conns |-> <<>>]
    /\ live = [t \in Topics |-> 0]
    /\ recycle = {} /\ terminated = FALSE
    /\ closing = "no" /\ toClose = {} /\ blurred = {} /\ cancelled = {} /\ halfway = {} /\ overlap = FALSE
    /\ calls = 0 /\ faults = 0

Fault == faults < MaxFaults /\ faults' = faults + 1

Release(t) == /\ lock' = "free" /\ job' = NoJob
              /\ pc' = [pc EXCEPT ![t] = "idle"]

\* A call that raises or is cancelled at its user part has committed its names
\* to one record and not to the other.
EndedHalfway == IF job.at = WsApi THEN halfway \cup job.topics ELSE halfway

\* A call is over.
Return(c) == call' = [call EXCEPT ![c] = NoCall]

\* The holder gave up on its request: a later answer is ignored.
Orphaned(q) == [i \in DOMAIN q |-> [q[i] EXCEPT !.mine = FALSE]]

-----------------------------------------------------------------------------
(* subscribe() and unsubscribe() *)

Call(c) ==
    /\ closing = "no" /\ pc[c] = "idle" /\ calls < MaxCalls
    /\ \E s \in BOOLEAN, T \in Args :
           call' = [call EXCEPT ![c] = [subscribe |-> s, topics |-> T]]
    /\ pc' = [pc EXCEPT ![c] = "waiting"]
    /\ calls' = calls + 1
    /\ UNCHANGED <<recordVars, userVars, lock, job, connVars, reserved,
                   serverVars, ctlVars, closeVars, blurred, cancelled, halfway,
                   overlap, faults>>

\* What is left of a call once the lock is taken: a user subscription that is
\* recorded already is not sent again, market names always are.
Remaining(c) ==
    {Route[t] : t \in IF call[c].subscribe /\ User \in subscribed
                      THEN call[c].topics \ {User} ELSE call[c].topics}

Recorded(c) == IF call[c].subscribe THEN subscribed \cup call[c].topics
                                    ELSE subscribed \ call[c].topics

Begin(c) ==
    /\ lock = "free" /\ pc[c] = "waiting"
    /\ IF Remaining(c) = {}
       THEN /\ subscribed' = Recorded(c)
            /\ pc' = [pc EXCEPT ![c] = "idle"]
            /\ Return(c)
            /\ UNCHANGED <<lock, job>>
       ELSE /\ lock' = c
            /\ pc' = [pc EXCEPT ![c] = "holding"]
            /\ job' = [NoJob EXCEPT !.subscribe = call[c].subscribe,
                                    !.topics = call[c].topics,
                                    !.todo = Remaining(c),
                                    !.req = "prepare"]
            /\ UNCHANGED <<subscribed, call>>
    /\ UNCHANGED <<streamNames, userVars, connVars, reserved, serverVars,
                   ctlVars, closeVars, historyVars, faults>>

Projected(p) == Cardinality((streamNames \cup job.topics) \cap On(p))

\* get_stream and _get_ws_api_stream: the connection is opened when needed.
OpenIfAbsent(x) ==
    IF conn[x] = "absent"
    THEN /\ conn' = [conn EXCEPT ![x] = "opening"]
         /\ first' = [p \in Paths |-> p = x \/ first[p]]
    ELSE UNCHANGED <<conn, first>>

\* UserStreamNotSubscribedException: the processor has no subscription to undo.
\* One that failed was forgotten when it was composed, so it cannot be retried.
NotSubscribed(x) == x = WsApi /\ ~job.subscribe /\ ~known

\* The connection that gets a stream and a lease for a part to x.
Needed(x) == IF NotSubscribed(x) THEN {} ELSE {x}

\* The next part goes to connection x, market parts before the user part.
SendTo(x, S) ==
    /\ x = WsApi => job.todo \subseteq {job.at, WsApi}
    /\ IF NotSubscribed(x) THEN UNCHANGED <<conn, first>> ELSE OpenIfAbsent(x)
    /\ job' = [job EXCEPT !.todo = @ \ {job.at}, !.at = x,
                          !.req = IF NotSubscribed(x) THEN "refused" ELSE "opening",
                          !.reserved = @ \cup S, !.prevWant = want]
    /\ want' = IF x = WsApi THEN job.subscribe ELSE want
    /\ known' = IF x = WsApi THEN job.subscribe ELSE known

\* A subscription first reserves on every path, in any order; S are those
\* that fit before one is over the cap.  Then the first part is sent.
Prepare(c) ==
    /\ lock = c /\ job.req = "prepare"
    /\ \E S \in SUBSET (job.todo \cap Paths) :
           LET rest == (job.todo \cap Paths) \ S
               over == {p \in rest : Projected(p) > MaxStreams}
           IN \/ /\ ~job.subscribe /\ S = {}
                 /\ \E x \in job.todo : /\ SendTo(x, {})
                                        /\ lease' = lease \cup Needed(x)
                                        /\ inflight' = (x = WsApi \/ inflight)
                 /\ UNCHANGED reserved
              \/ /\ job.subscribe
                 /\ \A p \in S : Projected(p) <= MaxStreams
                 /\ reserved' = [p \in Paths |-> IF p \in S THEN Projected(p)
                                                 ELSE reserved[p]]
                 /\ UNCHANGED inflight
                 /\ \/ /\ rest = {}
                       /\ \E x \in job.todo : /\ SendTo(x, S)
                                              /\ lease' = lease \cup S \cup {x}
                    \/ \E p \in over :
                          /\ lease' = lease \cup S \cup {p}
                          /\ job' = [job EXCEPT !.reserved = S, !.req = "failed"]
                          /\ UNCHANGED <<conn, first, want, known>>
    /\ UNCHANGED <<recordVars, lock, pc, call, serverVars, ctlVars,
                   closeVars, historyVars, faults>>

\* Stream.send once the socket is there; on a socket that is gone it raises.
\* While the first connection is being opened it waits, with the lock held.
Transmit ==
    /\ job.req = "opening" /\ conn[job.at] # "opening"
    /\ IF conn[job.at] = "up"
       THEN /\ wire' = [wire EXCEPT ![job.at] = Append(@,
                          [subscribe |-> job.subscribe,
                           topics |-> job.topics \cap On(job.at),
                           mine |-> TRUE])]
            /\ job' = [job EXCEPT !.req = "sent"]
       ELSE /\ job' = [job EXCEPT !.req = "failed"]
            /\ UNCHANGED wire
    /\ UNCHANGED <<recordVars, userVars, lock, pc, call, connVars, reserved,
                   live, ctlVars, closeVars, historyVars, faults>>

\* release_streams, also on the new lease of a path that was closed.
Unreserved(p, names) ==
    LET left == reserved[p] - Cardinality(names)
    IN IF left < 0 THEN 0 ELSE left

\* Mutant: each path commits the names of the call when it has answered.
PathAnswered == job.at \in Paths

\* The last path has answered: only the user part may be left.
MarketAnswered == job.at \in Paths /\ job.todo \ {job.at} \subseteq {WsApi}

\* An answer: the next part follows.  The last one of the market part commits
\* its names, the last one of all records the call.
Resume(c) ==
    /\ lock = c /\ c \in Callers /\ job.req = "acked"
    /\ LET todo == job.todo \ {job.at}
           commit == MarketAnswered
           names == job.topics \cap Names
       IN /\ streamNames' = CASE ~commit -> streamNames
                              [] commit /\ job.subscribe -> streamNames \cup names
                              [] OTHER -> streamNames \ names
          /\ reserved' = [p \in Paths |->
                 IF ~commit \/ job.subscribe THEN reserved[p]
                 ELSE Unreserved(p, streamNames \cap names \cap On(p))]
          /\ IF todo = {}
             THEN /\ Release(c) /\ Return(c) /\ subscribed' = Recorded(c)
                  /\ inflight' = FALSE
                  /\ UNCHANGED <<connVars, want, known>>
             ELSE /\ \E x \in todo :
                         /\ SendTo(x, {})
                         /\ lease' = lease \cup Needed(x)
                         /\ inflight' = (x = WsApi /\ ~job.subscribe)
                  /\ UNCHANGED <<subscribed, lock, pc, call>>
    /\ UNCHANGED <<serverVars, ctlVars, closeVars, historyVars, faults>>

\* Mutant: reservations are not rolled back.
RollBackNothing(c) ==
    /\ UNCHANGED <<reserved, lease>>
    /\ IF job.at = WsApi
       THEN want' = job.prevWant /\ inflight' = FALSE
       ELSE UNCHANGED <<want, inflight>>

\* A part failed: a subscription's reservations are rolled back, leases never
\* used are dropped, the wish is restored.  What other paths were sent stays.
RollBack(c) ==
    /\ IF job.subscribe /\ job.at # WsApi
       THEN LET unused == {x \in job.todo \cap Paths : conn[x] = "absent"}
            IN /\ lease' = lease \ unused
               /\ reserved' = [p \in Paths |->
                      CASE p \in unused -> 0
                        [] p \in (job.reserved \cap lease) \ unused -> Committed(p)
                        [] OTHER -> reserved[p]]
       ELSE UNCHANGED <<lease, reserved>>
    /\ IF job.at = WsApi
       THEN want' = job.prevWant /\ inflight' = FALSE
       ELSE UNCHANGED <<want, inflight>>

Fail(c) ==
    /\ lock = c /\ c \in Callers /\ job.req \in {"failed", "refused"}
    /\ RollBack(c)
    /\ Release(c) /\ Return(c)
    /\ blurred' = blurred \cup job.topics
    /\ halfway' = EndedHalfway
    /\ UNCHANGED <<recordVars, known, conn, first, serverVars, ctlVars,
                   closeVars, cancelled, overlap, calls, faults>>

\* A caller is cancelled (asyncio.wait_for): "except Exception" does not see
\* it, so only the flag of the finally clause is put back.
CancelCall(c) ==
    /\ Fault /\ pc[c] \in {"waiting", "holding"}
    /\ Return(c)
    /\ IF lock = c
       THEN /\ Release(c)
            /\ inflight' = FALSE
            /\ wire' = [x \in Conns |-> Orphaned(wire[x])]
            /\ blurred' = blurred \cup job.topics
            /\ cancelled' = cancelled \cup job.topics
            /\ halfway' = EndedHalfway
       ELSE /\ pc' = [pc EXCEPT ![c] = "idle"]
            /\ UNCHANGED <<lock, job, inflight, wire, blurred, cancelled, halfway>>
    /\ UNCHANGED <<recordVars, want, known, connVars, reserved, live, ctlVars,
                   closeVars, overlap, calls>>

-----------------------------------------------------------------------------
(* The replay on reconnect *)

\* Mutant: the first connection is never over.
AnyOpen(x) == x \in Paths

\* Nothing can have been subscribed before.
FirstOpen(x) == x \in Paths /\ first[x]

\* A socket is open.  The first one of a data stream replays nothing.
Opened(x) ==
    /\ conn[x] \in {"opening", "lost"}
    /\ conn' = [conn EXCEPT ![x] = "up"]
    /\ first' = [p \in Paths |-> p # x /\ first[p]]
    /\ pc' = [pc EXCEPT ![x] = CASE x = WsApi -> "logon"
                                 [] FirstOpen(x) -> "idle"
                                 [] OTHER -> "waiting"]
    /\ UNCHANGED <<recordVars, userVars, lock, call, job, lease, reserved,
                   serverVars, ctlVars, closeVars, historyVars, faults>>

\* session.logon, or nothing for keys that are not Ed25519.
Logon ==
    /\ pc[WsApi] = "logon"
    /\ \/ /\ pc' = [pc EXCEPT ![WsApi] = "waiting"]
          /\ UNCHANGED <<recycle, faults>>
       \/ /\ Fault
          /\ pc' = [pc EXCEPT ![WsApi] = "idle"]
          /\ recycle' = recycle \cup {WsApi}
    /\ UNCHANGED <<recordVars, userVars, lock, call, job, connVars, reserved,
                   serverVars, terminated, closeVars, historyVars>>

\* _resubscribe_path and _resubscribe_user send what is recorded by then.
Replay(x) ==
    /\ lock = "free" /\ pc[x] = "waiting"
    /\ LET T == subscribed \cap On(x)
       IN IF T = {}
          THEN /\ pc' = [pc EXCEPT ![x] = "idle"]
               /\ UNCHANGED <<lock, job, known>>
          ELSE /\ lock' = x
               /\ known' = (x = WsApi \/ known)
               /\ pc' = [pc EXCEPT ![x] = "holding"]
               /\ job' = [NoJob EXCEPT !.subscribe = TRUE, !.topics = T,
                                       !.at = x, !.req = "opening"]
    /\ UNCHANGED <<recordVars, want, inflight, call, connVars, reserved,
                   serverVars, ctlVars, closeVars, historyVars, faults>>

\* A replay that failed schedules a recycle of its connection.
ReplayEnds(x) ==
    /\ lock = x /\ x \in Conns /\ job.req \in {"acked", "failed"}
    /\ recycle' = IF job.req = "failed" THEN recycle \cup {x} ELSE recycle
    /\ Release(x)
    /\ UNCHANGED <<recordVars, userVars, call, connVars, reserved, serverVars,
                   terminated, closeVars, historyVars, faults>>

-----------------------------------------------------------------------------
(* eventStreamTerminated *)

\* run_once: dropped while an earlier recovery is under way.
HandleTerminated ==
    /\ terminated
    /\ terminated' = FALSE
    /\ pc' = [pc EXCEPT ![Recovery] =
                  IF closing = "no" /\ @ = "idle" THEN "waiting" ELSE @]
    /\ blurred' = IF pc[Recovery] = "idle" THEN blurred ELSE blurred \cup {User}
    /\ UNCHANGED <<recordVars, userVars, lock, call, job, connVars, reserved,
                   serverVars, recycle, closeVars, cancelled, halfway, overlap,
                   calls, faults>>

\* Mutant: the recovery trusts the event.
RecoveryTrusted == TRUE

\* Looked at again under the lock.
RecoveryDue == want /\ ~inflight /\ User \in subscribed

Recover ==
    /\ lock = "free" /\ pc[Recovery] = "waiting"
    /\ IF RecoveryDue
       THEN /\ lock' = Recovery
            /\ known' = TRUE
            /\ pc' = [pc EXCEPT ![Recovery] = "holding"]
            /\ job' = [NoJob EXCEPT !.subscribe = TRUE, !.topics = {User},
                                    !.at = WsApi, !.req = "opening"]
            /\ OpenIfAbsent(WsApi) /\ lease' = lease \cup {WsApi}
       ELSE /\ pc' = [pc EXCEPT ![Recovery] = "idle"]
            /\ UNCHANGED <<lock, job, known, connVars>>
    /\ UNCHANGED <<recordVars, want, inflight, call, reserved, serverVars,
                   ctlVars, closeVars, historyVars, faults>>

\* Mutant: a recovery that failed keeps the lock.
RecoverEndsHolding ==
    /\ lock = Recovery /\ job.req \in {"acked", "failed"}
    /\ IF job.req = "failed"
       THEN pc' = [pc EXCEPT ![Recovery] = "idle"] /\ UNCHANGED <<lock, job>>
       ELSE Release(Recovery)
    /\ blurred' = IF job.req = "failed" THEN blurred \cup {User} ELSE blurred
    /\ UNCHANGED <<recordVars, userVars, call, connVars, reserved, serverVars,
                   ctlVars, closeVars, cancelled, halfway, overlap, calls, faults>>

\* A recovery that failed is logged by the supervisor, and not tried again.
RecoverEnds ==
    /\ lock = Recovery /\ job.req \in {"acked", "failed"}
    /\ Release(Recovery)
    /\ blurred' = IF job.req = "failed" THEN blurred \cup {User} ELSE blurred
    /\ UNCHANGED <<recordVars, userVars, call, connVars, reserved, serverVars,
                   ctlVars, closeVars, cancelled, halfway, overlap, calls, faults>>

-----------------------------------------------------------------------------
(* Server and network *)

Handled(q) == [t \in Topics |->
                  CASE t \notin q.topics -> live[t]
                    [] t \in q.topics /\ ~q.subscribe -> 0
                    [] OTHER -> IF t = User /\ live[t] > 0 THEN 2 ELSE 1]

\* The server handles the oldest request of a connection, or refuses it.
ServerHandles(x) ==
    /\ conn[x] = "up" /\ wire[x] # <<>>
    /\ LET q == Head(wire[x])
           answered(r) == job' = IF q.mine THEN [job EXCEPT !.req = r] ELSE job
       IN \/ live' = Handled(q) /\ answered("acked") /\ UNCHANGED faults
          \/ UNCHANGED live /\ answered("failed") /\ Fault
    /\ wire' = [wire EXCEPT ![x] = Tail(@)]
    /\ UNCHANGED <<recordVars, userVars, lock, pc, call, connVars, reserved,
                   ctlVars, closeVars, historyVars>>

\* Mutant: a request that timed out is still resolved by its answer.
TimeoutStillWaiting ==
    /\ Fault /\ job.req = "sent"
    /\ job' = [job EXCEPT !.req = "failed"]
    /\ UNCHANGED <<recordVars, userVars, lock, pc, call, connVars, reserved,
                   serverVars, ctlVars, closeVars, historyVars>>

\* No answer in time.  The server may still handle the request.
Timeout ==
    /\ Fault /\ job.req = "sent"
    /\ job' = [job EXCEPT !.req = "failed"]
    /\ wire' = [wire EXCEPT ![job.at] = Orphaned(@)]
    /\ UNCHANGED <<recordVars, userVars, lock, pc, call, connVars, reserved,
                   live, ctlVars, closeVars, historyVars>>

\* The socket of x is gone: pending requests are rejected, the hook is
\* cancelled.
SocketGone(x, state) ==
    /\ conn' = [conn EXCEPT ![x] = state]
    /\ wire' = [wire EXCEPT ![x] = <<>>]
    /\ live' = [t \in Topics |-> IF t \in On(x) THEN 0 ELSE live[t]]
    /\ pc' = [pc EXCEPT ![x] = "idle"]
    /\ IF lock = x
       THEN lock' = "free" /\ job' = NoJob
       ELSE /\ UNCHANGED lock
            /\ job' = IF job.at = x /\ job.req = "sent"
                      THEN [job EXCEPT !.req = "failed"] ELSE job

Drop(x) ==
    /\ Fault /\ conn[x] = "up"
    /\ SocketGone(x, "lost")
    /\ UNCHANGED <<recordVars, userVars, call, first, lease, reserved, ctlVars,
                   closeVars, historyVars>>

\* serverShutdown: the connection it came by is recycled before it is cut.
ServerShutdown(x) ==
    /\ Fault /\ closing = "no"
    /\ conn[x] = "up" /\ x \notin recycle
    /\ recycle' = recycle \cup {x}
    /\ UNCHANGED <<recordVars, userVars, taskVars, call, connVars, reserved,
                   serverVars, terminated, closeVars, historyVars>>

\* A recycle task closes the socket there is; one that is gone stays gone.
Recycle(x) ==
    /\ x \in recycle
    /\ recycle' = recycle \ {x}
    /\ IF conn[x] = "up"
       THEN SocketGone(x, "lost")
       ELSE UNCHANGED <<taskVars, conn, serverVars>>
    /\ UNCHANGED <<recordVars, userVars, call, first, lease, reserved,
                   terminated, closeVars, historyVars, faults>>

\* The server ends the user stream and says so.
Terminate ==
    /\ Fault /\ live[User] > 0 /\ ~terminated
    /\ live' = [live EXCEPT ![User] = 0]
    /\ terminated' = TRUE
    /\ UNCHANGED <<recordVars, userVars, taskVars, call, connVars, reserved,
                   wire, recycle, closeVars, historyVars>>

-----------------------------------------------------------------------------
(* close() *)

\* The data streams there are, and in the end the WS-API stream.
Closable == {x \in Conns : x = WsApi \/ conn[x] # "absent"}

\* The flags, and the control tasks, of which the recovery may hold the lock.
Close ==
    /\ closing = "no" /\ closing' = "running"
    /\ toClose' = Closable
    /\ want' = FALSE /\ inflight' = FALSE
    /\ recycle' = {}
    /\ IF lock = Recovery
       THEN /\ Release(Recovery)
            /\ wire' = [x \in Conns |-> Orphaned(wire[x])]
       ELSE /\ pc' = [pc EXCEPT ![Recovery] = "idle"]
            /\ UNCHANGED <<lock, job, wire>>
    /\ overlap' = \E c \in Callers : pc[c] # "idle"
    /\ UNCHANGED <<recordVars, known, call, connVars, reserved, live, terminated,
                   blurred, cancelled, halfway, calls, faults>>

\* Stream.close up to its first await.
CloseStream(x) ==
    /\ x \in toClose /\ conn[x] \in {"opening", "up", "lost"}
    /\ x = WsApi => toClose = {WsApi}
    /\ SocketGone(x, "closing")
    /\ UNCHANGED <<recordVars, userVars, call, first, lease, reserved, ctlVars,
                   closeVars, historyVars, faults>>

\* It has returned: the stream and its lease, with what is reserved, go.
StreamClosed(x) ==
    /\ conn[x] = "closing"
    /\ conn' = [conn EXCEPT ![x] = "absent"]
    /\ lease' = lease \ {x}
    /\ reserved' = [p \in Paths |-> IF p = x THEN 0 ELSE reserved[p]]
    /\ toClose' = toClose \ {x}
    /\ UNCHANGED <<recordVars, userVars, taskVars, call, first,
                   serverVars, ctlVars, closing, historyVars, faults>>

CloseReturns ==
    /\ closing = "running"
    /\ toClose \subseteq {WsApi} /\ \A x \in toClose : conn[x] = "absent"
    /\ closing' = "done" /\ toClose' = {}
    /\ UNCHANGED <<recordVars, userVars, taskVars, call, connVars, reserved,
                   serverVars, ctlVars, historyVars, faults>>

-----------------------------------------------------------------------------

\* What the event loop, the server and the timers do in the end ...
Progress ==
    \/ \E c \in Callers : Begin(c) \/ Prepare(c) \/ Resume(c) \/ Fail(c)
    \/ \E x \in Conns : \/ Opened(x) \/ Replay(x) \/ ReplayEnds(x)
                        \/ ServerHandles(x) \/ Recycle(x)
                        \/ CloseStream(x) \/ StreamClosed(x)
    \/ Transmit \/ Logon \/ HandleTerminated \/ Recover \/ RecoverEnds
    \/ CloseReturns

\* ... and what nothing forces.
Unforced ==
    \/ \E c \in Callers : Call(c) \/ CancelCall(c)
    \/ \E x \in Conns : Drop(x) \/ ServerShutdown(x)
    \/ Timeout \/ Terminate \/ Close

Next == Progress \/ Unforced

Spec == Init /\ [][Next]_vars

\* The loop is never idle while a task is ready, a connection can open or a
\* request can be answered.
FairSpec == Spec /\ WF_vars(Progress)

-----------------------------------------------------------------------------
(* A connection, as the tasks use it *)

\* What task t is about to send over x, or has sent.
Asks(t, x) ==
    IF lock = t /\ job.at = x
    THEN CASE job.req = "opening" -> "asked"
           [] job.req = "sent" -> "sent"
           [] job.req = "acked" -> "answered"
           [] job.req = "failed" -> "failed"
           [] OTHER -> "none"
    ELSE "none"

Seen(x) == INSTANCE Connection WITH
    Users <- Tasks, state <- conn[x], request <- [t \in Tasks |-> Asks(t, x)]

-----------------------------------------------------------------------------
(* Properties *)

\* Only replays are on their way, or nothing: no call is in progress and the
\* server has handled all it was sent.
Quiet == lock = "free" /\ \A x \in Conns : wire[x] = <<>>

\* The two records of the client, _subscribed (what is replayed) and
\* _stream_names (what is counted), tell the same names.  A call that raises or
\* is cancelled in its market part, after any number of paths, changes neither.
\* Excepted are the names of one that ended at its user part: the market part
\* has changed _stream_names by then, and _subscribed is not changed any more.
RecordsAgree ==
    lock = "free" => \A n \in Names \ halfway :
                         n \in subscribed <=> n \in streamNames

\* A topic that was unsubscribed, or never subscribed, is not on the server:
\* no replay that read the record earlier brings it back.
NoGhost ==
    Quiet => \A t \in Topics \ blurred : live[t] > 0 => t \in subscribed

\* Between calls the ws-streams pool of a path counts its committed names
\* ("roll back the optimistic stream reservation on EVERY path"): no less
\* before close(), which gives all of it back, and no more, except for names of
\* calls that were cancelled; and the server is never asked for more names on a
\* connection than its limit, except for what a call that failed may have left
\* there.
ReservationsExact ==
    \A p \in Paths :
        /\ Cardinality({t \in On(p) \ blurred : live[t] > 0}) <= MaxStreams
        /\ lock = "free" =>
             reserved[p] <= Cardinality((streamNames \cup cancelled) \cap On(p))
        /\ lock = "free" /\ closing = "no" => reserved[p] >= Committed(p)

\* Every connection takes only steps that a Stream may take (module Stream,
\* ActsAsConnection): a task is told the outcome of the request it waits for, of
\* no other, and only over the socket that carried it.
UsesConnections ==
    /\ \A x \in Conns : Seen(x)!Init
    /\ [][\A x \in Conns : [Seen(x)!Next]_(Seen(x)!vars)]_vars

\* "After a WebSocket reconnect the SDK automatically replays all
\* subscriptions": in the end the server has exactly what is recorded,
\* whatever dropped, timed out or was refused on the way.
EventuallyExact ==
    <>[](closing # "no" \/ \A t \in Topics \ blurred :
                               live[t] > 0 <=> t \in subscribed)

\* Every call returns: the lock is always given back, by replays as well.
CallsEnd == \A c \in Callers : pc[c] = "waiting" ~> pc[c] = "idle"

=============================================================================
