------------------------- MODULE FuturesUserStream -------------------------
(***************************************************************************)
(* FuturesUserStreamMixin: a listen key, a stream of its own that carries  *)
(* the user events, and a task that keeps the key alive.  A step is the    *)
(* code between two awaits.  Three tasks work on the same fields:          *)
(*                                                                         *)
(*   - the caller of subscribe() or unsubscribe(), one at a time, because  *)
(*     the subscription lock is held;                                      *)
(*   - the recovery that listenKeyExpired starts, without that lock;       *)
(*   - close(), without it too.                                            *)
(*                                                                         *)
(* Every successful userDataStream.start makes the next number: it stands  *)
(* for the key, and for the stream, the lease and the keepalive task made  *)
(* with it.  0 is None.                                                    *)
(***************************************************************************)
EXTENDS Integers, FiniteSets

CONSTANTS
    MaxCalls,    \* bound: calls of subscribe() and unsubscribe()
    MaxFaults    \* bound: expired keys, failed requests, cancellations, ...

ASSUME FuturesUserStreamAssumption ==
    {MaxCalls, MaxFaults} \subseteq Nat

\* Every start is that of a call or of an expired key.
MaxKeys == MaxCalls + MaxFaults
Keys == 1..MaxKeys
Tasks == {"caller", "recovery", "closer"}

VARIABLES
    want,        \* _want_user_stream
    recorded,    \* (SubType.USER,) in _subscribed
    known,       \* FuturesUserProcessor._subscribed
    key, stream, lease, keepalive,   \* the _futures_ fields
    task,        \* where each task is, with its local variables
    closed,      \* close() has returned
    alive,       \* keys the server holds
    open,        \* streams that are connected or connecting
    leases,      \* leases registered with the limiter
    loops,       \* keepalive tasks that run
    left,        \* history: keys the client forgot, or failed to stop
    expired,     \* streams with a listenKeyExpired in their event queue
    made,        \* keys handed out
    trouble,     \* history: what came to pass, see Troubles
    calls, faults

fieldVars == <<key, stream, lease, keepalive>>
flagVars == <<want, recorded, known>>
worldVars == <<alive, open, leases, loops, left>>
boundVars == <<calls, faults>>
vars == <<flagVars, fieldVars, task, closed, worldVars, expired, made, trouble,
          boundVars>>

\* A call was cancelled; a recovery failed; an event was lost; two tasks were at
\* work at once.
Troubles == {"cancelled", "unrecovered", "unheard", "raced"}

\* called: created by run_once; waiting: for the control tasks to end;
\* starting, stopping, undoing: a request is under way; closing: Stream.close.
Places == {"idle", "called", "waiting", "starting", "started", "stopping",
           "undoing", "closing", "cleaned", "failed"}
Idle == [at |-> "idle", arg |-> 0, lease |-> 0, prev |-> FALSE,
         subscribe |-> FALSE]
At(t, place) == task[t].at = place
Busy(t) == ~At(t, "idle")

TypeOK ==
    /\ {want, recorded, known, closed} \subseteq BOOLEAN
    /\ {key, stream, lease, keepalive, made} \subseteq Nat
    /\ task \in [Tasks -> [at : Places, arg : Nat, lease : Nat, prev : BOOLEAN,
                           subscribe : BOOLEAN]]
    /\ {alive, open, leases, loops} \subseteq SUBSET (1..made) /\ left \subseteq Nat
    /\ expired \subseteq open /\ trouble \subseteq Troubles
    /\ calls \in 0..MaxCalls /\ faults \in 0..MaxFaults

Init ==
    /\ want = FALSE /\ recorded = FALSE /\ known = FALSE
    /\ key = 0 /\ stream = 0 /\ lease = 0 /\ keepalive = 0
    /\ task = [t \in Tasks |-> Idle] /\ closed = FALSE
    /\ alive = {} /\ open = {} /\ leases = {} /\ loops = {} /\ left = {}
    /\ expired = {} /\ made = 0 /\ trouble = {}
    /\ calls = 0 /\ faults = 0

Fault == faults < MaxFaults /\ faults' = faults + 1
Note(x, P) == trouble' = IF P THEN trouble \cup {x} ELSE trouble
Go(t, place) == task' = [task EXCEPT ![t].at = place]

\* The task is cancelled, or its connection closed, with a request on the wire.
\* A start may yet make a key, which nobody hears of; a key just received, or
\* one to be stopped, is forgotten, whether the server stops it or not.
Forsaken(t) ==
    \/ /\ At(t, "starting")
       /\ made' = made + 1
       /\ alive' = alive \cup {made + 1} /\ left' = left \cup {made + 1}
    \/ /\ task[t].at \in {"started", "stopping", "undoing"}
       /\ left' = left \cup {task[t].arg}
       /\ \/ UNCHANGED alive
          \/ ~At(t, "started") /\ alive' = alive \ {task[t].arg}
       /\ UNCHANGED made
    \/ /\ task[t].at \notin {"started", "stopping", "undoing"}
       /\ UNCHANGED <<made, alive, left>>

\* Mutant: the task is forgotten, not cancelled.
ForgetKeepalive == keepalive' = 0 /\ UNCHANGED loops

\* _cancel_futures_keepalive
CancelKeepalive == keepalive' = 0 /\ loops' = loops \ {keepalive}

\* The stream there is: nothing is started a second time.
Running == stream # 0 /\ key # 0 /\ lease # 0

\* A stream that is closed drops the events it has not handled.
WithoutEventsOf(k) == expired \ {k}

-----------------------------------------------------------------------------
(* _futures_cleanup, for unsubscribe() and close() *)

\* What is left of a task when the cleanup is over.
Ended(t) ==
    IF t = "closer"
    THEN task' = [task EXCEPT ![t].at = "cleaned"] /\ UNCHANGED recorded
    ELSE task' = [task EXCEPT ![t] = Idle] /\ recorded' = FALSE

\* The stream of the moment is closed, not the one the stopped key was for.
CloseStream(t) ==
    /\ stream' = 0
    /\ IF stream = 0
       THEN Ended(t)
       ELSE /\ task' = [task EXCEPT ![t] = [@ EXCEPT !.at = "closing", !.arg = stream]]
            /\ UNCHANGED recorded

\* Mutant: the key is not stopped.
BeginCleanupUnstopped(t) == CancelKeepalive /\ key' = 0 /\ CloseStream(t)

BeginCleanup(t) ==
    /\ CancelKeepalive
    /\ key' = 0
    /\ IF key = 0
       THEN CloseStream(t)
       ELSE /\ task' = [task EXCEPT ![t] = [@ EXCEPT !.at = "stopping", !.arg = key]]
            /\ UNCHANGED <<stream, recorded>>

-----------------------------------------------------------------------------
(* The caller *)

Subscribe ==
    /\ ~Busy("closer") /\ ~closed /\ ~Busy("caller") /\ calls < MaxCalls
    /\ ~recorded
    /\ calls' = calls + 1
    /\ want' = TRUE /\ known' = TRUE
    /\ IF Running
       THEN recorded' = TRUE /\ UNCHANGED task
       ELSE /\ task' = [task EXCEPT !["caller"] =
                           [Idle EXCEPT !.at = "starting", !.prev = want,
                                        !.subscribe = TRUE]]
            /\ UNCHANGED recorded
    /\ UNCHANGED <<fieldVars, closed, worldVars, expired, made, trouble, faults>>

\* When nothing was subscribed it raises before it changes anything.
Unsubscribe ==
    /\ ~Busy("closer") /\ ~closed /\ ~Busy("caller") /\ calls < MaxCalls
    /\ known
    /\ calls' = calls + 1
    /\ want' = FALSE /\ known' = FALSE
    /\ BeginCleanup("caller")
    /\ Note("raced", Busy("recovery"))
    /\ UNCHANGED <<lease, closed, alive, open, leases, left, expired, made, faults>>

\* A call that raised restores the wish; what a cancelled one left, stays.
CallFails ==
    /\ At("caller", "failed")
    /\ want' = task["caller"].prev
    /\ task' = [task EXCEPT !["caller"] = Idle]
    /\ UNCHANGED <<recorded, known, fieldVars, closed, worldVars, expired, made,
                   trouble, boundVars>>

\* A cancellation is swallowed by Stream.close.
CancelCall ==
    /\ Fault /\ Busy("caller") /\ ~At("caller", "closing")
    /\ task' = [task EXCEPT !["caller"] = Idle]
    /\ Forsaken("caller")
    /\ Note("cancelled", TRUE)
    /\ UNCHANGED <<flagVars, fieldVars, closed, open, leases, loops, expired, calls>>

-----------------------------------------------------------------------------
(* listenKeyExpired *)

\* run_once: dropped while an earlier recovery is under way.
HandleExpired(k) ==
    /\ k \in expired /\ expired' = expired \ {k}
    /\ IF want /\ ~Busy("recovery")
       THEN Go("recovery", "called")
       ELSE UNCHANGED task
    /\ UNCHANGED <<flagVars, fieldVars, closed, worldVars, made, trouble,
                   boundVars>>

\* Mutant: the fields are left to the restart.
RecoverKeepingFields ==
    /\ At("recovery", "called")
    /\ IF want
       THEN /\ CancelKeepalive
            /\ task' = [task EXCEPT !["recovery"] =
                  [Idle EXCEPT !.at = IF stream = 0 THEN "starting" ELSE "closing",
                               !.arg = stream, !.lease = lease]]
            /\ leases' = IF stream = 0 THEN leases \ {lease} ELSE leases
       ELSE /\ task' = [task EXCEPT !["recovery"] = Idle]
            /\ UNCHANGED <<keepalive, leases, loops>>
    /\ UNCHANGED <<flagVars, key, stream, lease, closed, alive, open, left,
                   expired, made, trouble, boundVars>>

\* The fields are cleared first, then the old stream is closed.
Recover ==
    /\ At("recovery", "called")
    /\ IF want
       THEN /\ CancelKeepalive
            /\ key' = 0 /\ stream' = 0 /\ lease' = 0
            /\ task' = [task EXCEPT !["recovery"] =
                  [Idle EXCEPT !.at = IF stream = 0 THEN "starting" ELSE "closing",
                               !.arg = stream, !.lease = lease]]
            /\ leases' = IF stream = 0 THEN leases \ {lease} ELSE leases
       ELSE /\ task' = [task EXCEPT !["recovery"] = Idle]
            /\ UNCHANGED <<fieldVars, leases, loops>>
    /\ UNCHANGED <<flagVars, closed, alive, open, left, expired, made, trouble,
                   boundVars>>

\* A restart that fails is reported with recovering=True; nothing tries again.
RecoverFails ==
    /\ At("recovery", "failed")
    /\ task' = [task EXCEPT !["recovery"] = Idle]
    /\ Note("unrecovered", TRUE)
    /\ UNCHANGED <<flagVars, fieldVars, closed, worldVars, expired, made,
                   boundVars>>

-----------------------------------------------------------------------------
(* Requests and what follows them *)

\* userDataStream.start is answered with a new key, or fails; a timeout or a
\* lost connection may leave a key behind.
ServeStart(t) ==
    /\ At(t, "starting")
    /\ \/ /\ made' = made + 1
          /\ alive' = alive \cup {made + 1}
          /\ \/ /\ task' = [task EXCEPT ![t] = [@ EXCEPT !.at = "started", !.arg = made + 1]]
                /\ UNCHANGED <<left, faults>>
             \/ /\ Fault /\ Go(t, "failed") /\ left' = left \cup {made + 1}
       \/ /\ Fault /\ Go(t, "failed")
          /\ UNCHANGED <<made, alive, left>>
    /\ UNCHANGED <<flagVars, fieldVars, closed, open, leases, loops, expired,
                   trouble, calls>>

\* The key was received: stream, lease and keepalive task are made with it.
Install(t) ==
    LET k == task[t].arg
    IN /\ At(t, "started")
       /\ key' = k /\ stream' = k /\ lease' = k /\ keepalive' = k
       /\ open' = open \cup {k} /\ leases' = leases \cup {k}
       /\ loops' = loops \cup {k}
       /\ task' = [task EXCEPT ![t] = Idle]
       /\ recorded' = (t = "caller" \/ recorded)
       /\ UNCHANGED <<want, known, closed, alive, left, expired, made, trouble,
                      boundVars>>

\* Mutant: the key is left in its field.
InstallFailsKeepingKey(t) ==
    /\ Fault /\ At(t, "started")
    /\ key' = task[t].arg /\ stream' = 0 /\ lease' = 0
    /\ Go(t, "undoing")
    /\ UNCHANGED <<flagVars, keepalive, closed, worldVars, expired, made,
                   trouble, calls>>

\* The Stream could not be made: the fields are cleared and the key stopped.
InstallFails(t) ==
    /\ Fault /\ At(t, "started")
    /\ key' = 0 /\ stream' = 0 /\ lease' = 0
    /\ Go(t, "undoing")
    /\ UNCHANGED <<flagVars, keepalive, closed, worldVars, expired, made,
                   trouble, calls>>

\* userDataStream.stop; an error is logged.
ServeStop(t) ==
    /\ At(t, "stopping") \/ At(t, "undoing")
    /\ \/ alive' = alive \ {task[t].arg} /\ UNCHANGED <<faults, left>>
       \/ Fault /\ left' = left \cup {task[t].arg} /\ UNCHANGED alive
    /\ IF At(t, "undoing")
       THEN Go(t, "failed") /\ UNCHANGED <<stream, recorded>>
       ELSE CloseStream(t)
    /\ UNCHANGED <<want, known, key, lease, keepalive, closed, open, leases,
                   loops, expired, made, trouble, calls>>

\* Stream.close has returned: its events are dropped, its lease unregistered.
\* A cleanup then unregisters the lease of the moment; a recovery goes on to
\* start anew.
StreamClosed(t) ==
    /\ At(t, "closing")
    /\ open' = open \ {task[t].arg}
    /\ expired' = WithoutEventsOf(task[t].arg)
    /\ IF t = "recovery"
       THEN /\ leases' = leases \ {task[t].arg, task[t].lease}
            /\ task' = [task EXCEPT ![t] =
                           IF Running THEN Idle ELSE [Idle EXCEPT !.at = "starting"]]
            /\ UNCHANGED <<lease, recorded>>
       ELSE /\ leases' = leases \ {task[t].arg, lease}
            /\ lease' = 0
            /\ Ended(t)
    /\ UNCHANGED <<want, known, key, stream, keepalive, closed, alive, loops, left,
                   made, trouble, boundVars>>

-----------------------------------------------------------------------------
(* close() *)

\* The control tasks are cancelled and awaited.  A recovery that closes its
\* old stream swallows the cancellation and goes on; one whose start is on the
\* wire leaves the key, if the server makes one, to nobody.
Close ==
    /\ ~closed /\ ~Busy("closer")
    /\ want' = FALSE
    /\ task' = [task EXCEPT
                  !["closer"] = [Idle EXCEPT !.at = "waiting"],
                  !["recovery"] = IF @.at = "closing" THEN @ ELSE Idle]
    /\ Forsaken("recovery")
    /\ Note("raced", Busy("caller"))
    /\ UNCHANGED <<recorded, known, fieldVars, closed, open, leases, loops,
                   expired, boundVars>>

\* Mutant: the keepalive task is awaited as well, before it is cancelled.
AllTasksEnded == ~Busy("recovery") /\ loops = {}

ControlTasksEnded == ~Busy("recovery")

CloserCleans ==
    /\ At("closer", "waiting") /\ ControlTasksEnded
    /\ BeginCleanup("closer")
    /\ UNCHANGED <<want, known, lease, closed, alive, open, leases, left, expired,
                   made, trouble, boundVars>>

\* super().close(): the requests of a caller are rejected with the WS-API
\* connection, the handler context is dropped.
CloseReturns ==
    /\ At("closer", "cleaned")
    /\ closed' = TRUE /\ known' = FALSE
    /\ task' = [task EXCEPT !["closer"] = Idle,
                            !["caller"].at = IF @ = "starting" THEN "failed" ELSE @]
    /\ IF At("caller", "starting")
       THEN Forsaken("caller")
       ELSE UNCHANGED <<made, alive, left>>
    /\ UNCHANGED <<want, recorded, fieldVars, open, leases, loops, expired, trouble,
                   boundVars>>

-----------------------------------------------------------------------------
(* Server, network and the keepalive loop *)

\* A key ends.  The event comes over the stream of the key, if it is there
\* and does not drop just then.
Expire(k) ==
    /\ Fault /\ k \in alive
    /\ alive' = alive \ {k}
    /\ \/ k \in open /\ expired' = expired \cup {k} /\ UNCHANGED trouble
       \/ Note("unheard", TRUE) /\ UNCHANGED expired
    /\ UNCHANGED <<flagVars, fieldVars, task, closed, open, leases, loops, left,
                   made, calls>>

\* A keepalive loop wakes up, reads the key of the moment and pings it, or
\* ends when there is none.
LoopEnds(k) ==
    /\ k \in loops /\ key = 0
    /\ loops' = loops \ {k}
    /\ UNCHANGED <<flagVars, fieldVars, task, closed, alive, open, leases, left,
                   expired, made, trouble, boundVars>>

-----------------------------------------------------------------------------

Progress ==
    \/ \E t \in Tasks : \/ ServeStart(t) \/ Install(t) \/ ServeStop(t)
                        \/ StreamClosed(t)
    \/ \E k \in Keys : LoopEnds(k) \/ HandleExpired(k)
    \/ CallFails \/ Recover \/ RecoverFails
    \/ CloserCleans \/ CloseReturns

Unforced ==
    \/ Subscribe \/ Unsubscribe \/ CancelCall \/ Close
    \/ \E t \in Tasks : InstallFails(t)
    \/ \E k \in Keys : Expire(k)

Next == Progress \/ Unforced

Spec == Init /\ [][Next]_vars

\* Tasks are scheduled, requests end and timers fire in the end.
FairSpec == Spec /\ WF_vars(Progress)

-----------------------------------------------------------------------------
(* Properties *)

Settled == \A t \in Tasks : ~Busy(t)

\* No unsubscribe() ran into a recovery and no close() into a call: a recovery
\* that goes on after an unsubscribe() starts a stream nobody wants.
Unraced == "raced" \notin trouble

Closing(k) == \E t \in Tasks : At(t, "closing") /\ task[t].arg = k

\* No task loses track of what another one made: a stream, a lease or a
\* keepalive task is in the fields, or some task is about to close it; after
\* close() there is none, though a recovery may have gone on after it was
\* cancelled.  Said of tasks that do not race, see Unraced; a call may be
\* cancelled anywhere.
NothingOrphaned ==
    Unraced =>
        /\ \A k \in open : k = stream \/ Closing(k)
        /\ leases \subseteq {lease, task["recovery"].lease}
        /\ loops \subseteq {keepalive}
        /\ closed => open = {} /\ leases = {} /\ loops = {}

\* Between calls the four fields tell of one stream, which is there with its
\* lease, or of none, whatever failed half way.  Only an unsubscribe() that was
\* cancelled leaves a stream without its key.
WholeOrNothing ==
    Settled /\ Unraced =>
        /\ lease = stream
        /\ open = {stream} \ {0} /\ leases = {stream} \ {0}
        /\ key = keepalive /\ key \in {stream, 0}
        /\ key # stream => "cancelled" \in trouble

\* No key but that of the stream is left with the server, but for those the
\* client could not stop: a stop failed, the answer to a start was lost, or
\* a call, or a recovery that close() cancelled, was starting or stopping the key
\* just then.  One such key excuses no other.
KeysStopped ==
    Settled /\ Unraced => alive \subseteq {key} \cup left

\* "SDK auto-recovers": in the end a wanted stream is there, of a key the
\* server holds and some task keeps alive, unless the event was lost or the
\* one restart there is has failed.
EventuallyListening ==
    <>[](\/ ~want \/ trouble # {}
         \/ key = stream /\ stream \in alive \cap open /\ keepalive \in loops)

\* close() returns, whatever is under way.
CloseEnds == Busy("closer") ~> closed

=============================================================================
