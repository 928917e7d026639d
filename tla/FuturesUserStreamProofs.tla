----------------------- MODULE FuturesUserStreamProofs -----------------------
(***************************************************************************)
(* Proofs about FuturesUserStream, for any number of calls and faults: who *)
(* holds which listen key, stream, lease and keepalive task, as long as no *)
(* unsubscribe() ran into a recovery and no close() into a call.           *)
(***************************************************************************)
EXTENDS FuturesUserStream, TLAPS

Making == {"starting", "started", "undoing", "failed"}

\* The fields name no stream, and there is none.
Nothing ==
    /\ key = 0 /\ stream = 0 /\ lease = 0 /\ keepalive = 0
    /\ open = {} /\ leases = {} /\ loops = {}

\* The fields name one stream whole, or none.
Whole ==
    /\ key = stream /\ lease = stream /\ keepalive = stream
    /\ open = {stream} \ {0} /\ leases = {stream} \ {0}
    /\ loops \subseteq {keepalive} \ {0}

\* The stream is still there, its key and its keepalive task no longer.
Stopping ==
    /\ stream # 0 /\ key = 0 /\ keepalive = 0 /\ loops = {} /\ lease = stream
    /\ open = {stream} \ {0} /\ leases = {stream} \ {0}

\* So an unsubscribe() leaves it that was cancelled then; nothing but close()
\* can follow.
Halted == Stopping /\ ~want /\ ~known /\ recorded /\ "cancelled" \in trouble

\* Who works, and at what: one task at a time, but for close(), which waits for
\* a recovery that closes its old stream.
OneAtATime ==
    /\ Busy("caller") => ~Busy("recovery") /\ ~Busy("closer")
    /\ Busy("closer") \/ closed => ~want /\ ~Busy("caller")
    /\ closed => ~Busy("recovery") /\ ~Busy("closer")
    /\ Busy("closer") /\ ~At("closer", "waiting") => ~Busy("recovery")
    /\ Busy("recovery") => recorded /\ (want \/ (At("closer", "waiting") /\ ~At("recovery", "called")))
    /\ task["caller"].at \notin {"called", "waiting", "cleaned"}
    /\ task["recovery"].at \notin {"waiting", "stopping", "cleaned"}
    /\ task["closer"].at \in {"idle", "waiting", "stopping", "closing", "cleaned"}
    /\ task["caller"].at \in {"stopping", "closing"} => ~want
    /\ At("caller", "stopping") => ~known
    /\ stream # 0 => recorded

\* What it has done so far.
FieldsAgree ==
    /\ (\A t \in Tasks : task[t].at \in {"idle", "waiting", "called"}) => Whole \/ Halted
    /\ \A t \in Tasks : task[t].at \in Making \cup {"cleaned"} => Nothing
    /\ \A t \in Tasks : At(t, "stopping") => Stopping
    /\ \A t \in {"caller", "closer"} : At(t, "closing") =>
          /\ key = 0 /\ stream = 0 /\ keepalive = 0 /\ lease = task[t].arg
          /\ open = {lease} /\ leases = {lease} /\ loops = {} /\ lease # 0
    /\ At("recovery", "closing") =>
          /\ key = 0 /\ stream = 0 /\ lease = 0 /\ keepalive = 0
          /\ task["recovery"].lease = task["recovery"].arg /\ task["recovery"].arg # 0
          /\ open = {task["recovery"].arg} /\ leases = open /\ loops = {}
    /\ \A t \in Tasks : task[t].at \in {"started", "stopping", "undoing"} => task[t].arg # 0
    /\ closed => Nothing

\* The keys the server holds: that of the stream, and one a task is about to
\* install or to stop.
KeysKnown ==
    /\ expired \cap alive = {}
    /\ At("recovery", "called") => key \notin alive
    /\ \A k \in alive \ left :
          \/ k = key
          \/ \E t \in Tasks : /\ task[t].at \in {"started", "stopping", "undoing"}
                              /\ k = task[t].arg

Quiet == OneAtATime /\ FieldsAgree /\ KeysKnown

\* A key that was received is one that was handed out.
Received == \A t \in Tasks : At(t, "started") => task[t].arg \in 1..made

IInv == TypeOK /\ Received /\ (Unraced => Quiet)

-----------------------------------------------------------------------------
(* Typing *)

Task == [at : Places, arg : Nat, lease : Nat, prev : BOOLEAN, subscribe : BOOLEAN]

LEMMA InitTyped == Init => TypeOK
<1> SUFFICES ASSUME Init PROVE TypeOK
    OBVIOUS
<1>1. task \in [Tasks -> Task]
    BY DEF Init, Idle, Places, Task
<1>2. MaxCalls \in Nat /\ MaxFaults \in Nat
    BY FuturesUserStreamAssumption
<1>3. calls \in 0..MaxCalls /\ faults \in 0..MaxFaults
    BY <1>2 DEF Init
<1>4. {want, recorded, known, closed} \subseteq BOOLEAN
    BY DEF Init
<1>5. {key, stream, lease, keepalive, made} \subseteq Nat
    BY DEF Init
<1>6. {alive, open, leases, loops} \subseteq SUBSET (1..made) /\ left \subseteq Nat
    BY DEF Init
<1>7. expired \subseteq open /\ trouble \subseteq Troubles
    BY DEF Init
<1> QED BY <1>1, <1>3, <1>4, <1>5, <1>6, <1>7 DEF TypeOK, Task

\* What a task's record may become.
LEMMA TaskUpdates ==
    ASSUME NEW r \in Task
    PROVE  /\ \A p \in Places : [r EXCEPT !.at = p] \in Task
           /\ \A p \in Places, k \in Nat : [r EXCEPT !.at = p, !.arg = k] \in Task
           /\ Idle \in Task
           /\ \A p \in Places, b \in BOOLEAN :
                [Idle EXCEPT !.at = p, !.prev = b, !.subscribe = TRUE] \in Task
           /\ \A p \in Places, k, l \in Nat : [Idle EXCEPT !.at = p, !.arg = k, !.lease = l] \in Task
           /\ \A p \in Places : [Idle EXCEPT !.at = p] \in Task
<1>1. Idle \in Task
    BY DEF Idle, Task, Places
<1> QED BY <1>1 DEF Task

LEMMA GoTyped ==
    ASSUME TypeOK, NEW t \in Tasks, NEW r \in Task, task' = [task EXCEPT ![t] = r]
    PROVE  task' \in [Tasks -> Task]
BY DEF TypeOK, Task

LEMMA CloseStreamTyped ==
    ASSUME TypeOK, NEW t \in Tasks, CloseStream(t)
    PROVE  /\ task' \in [Tasks -> Task] /\ stream' \in Nat /\ recorded' \in BOOLEAN
<1>1. task \in [Tasks -> Task] /\ task[t] \in Task /\ stream \in Nat
    BY DEF TypeOK, Task
<1>2. {"idle", "cleaned", "closing"} \subseteq Places
    BY DEF Places
<1>3. \/ task' = [task EXCEPT ![t] = [task[t] EXCEPT !.at = "cleaned"]]
      \/ task' = [task EXCEPT ![t] = Idle]
      \/ task' = [task EXCEPT ![t] = [task[t] EXCEPT !.at = "closing", !.arg = stream]]
    BY <1>1 DEF CloseStream, Ended
<1>4. /\ [task[t] EXCEPT !.at = "cleaned"] \in Task
      /\ Idle \in Task
      /\ [task[t] EXCEPT !.at = "closing", !.arg = stream] \in Task
    BY <1>1, <1>2, TaskUpdates
<1>5. task' \in [Tasks -> Task]
    BY <1>1, <1>3, <1>4
<1>6. stream' \in Nat
    BY DEF CloseStream
<1>7. recorded' \in BOOLEAN
    BY DEF CloseStream, Ended, TypeOK
<1> QED BY <1>5, <1>6, <1>7

LEMMA BeginCleanupTyped ==
    ASSUME TypeOK, NEW t \in Tasks, BeginCleanup(t)
    PROVE  /\ task' \in [Tasks -> Task]
           /\ stream' \in Nat /\ key' \in Nat /\ keepalive' \in Nat
           /\ recorded' \in BOOLEAN /\ loops' \subseteq loops
<1>1. key' \in Nat /\ keepalive' \in Nat /\ loops' \subseteq loops
    BY DEF BeginCleanup, CancelKeepalive
<1>2. CASE key = 0
    BY <1>1, <1>2, CloseStreamTyped DEF BeginCleanup
<1>3. CASE key # 0
    <2>1. task[t] \in Task /\ key \in Nat /\ "stopping" \in Places
        BY DEF TypeOK, Task, Places
    <2>2. /\ task' = [task EXCEPT ![t] = [task[t] EXCEPT !.at = "stopping", !.arg = key]]
          /\ stream' = stream /\ recorded' = recorded
        BY <1>3 DEF BeginCleanup
    <2>3. [task[t] EXCEPT !.at = "stopping", !.arg = key] \in Task
        BY <2>1, TaskUpdates
    <2>4. task' \in [Tasks -> Task]
        BY <2>2, <2>3, GoTyped
    <2> QED BY <1>1, <2>2, <2>4 DEF TypeOK
<1> QED BY <1>2, <1>3

\* TypeOK, one variable at a time.
Typed ==
    /\ want \in BOOLEAN /\ recorded \in BOOLEAN /\ known \in BOOLEAN /\ closed \in BOOLEAN
    /\ key \in Nat /\ stream \in Nat /\ lease \in Nat /\ keepalive \in Nat /\ made \in Nat
    /\ task \in [Tasks -> Task]
    /\ alive \subseteq 1..made /\ open \subseteq 1..made
    /\ leases \subseteq 1..made /\ loops \subseteq 1..made /\ left \subseteq Nat
    /\ expired \subseteq open /\ trouble \subseteq Troubles
    /\ calls \in 0..MaxCalls /\ faults \in 0..MaxFaults

LEMMA TypeParts == (TypeOK <=> Typed) /\ (TypeOK' <=> Typed')
<1>1. TypeOK <=> Typed
    BY DEF TypeOK, Typed, Task
<1>2. TypeOK' <=> Typed'
    BY DEF TypeOK, Typed, Task
<1> QED BY <1>1, <1>2

\* A fault is counted up to its bound.
LEMMA FaultTyped == ASSUME Typed, Fault PROVE faults' \in 0..MaxFaults
BY FuturesUserStreamAssumption DEF Typed, Fault

\* So is a call.
LEMMA CallTyped ==
    ASSUME Typed, calls < MaxCalls, calls' = calls + 1
    PROVE  calls' \in 0..MaxCalls
BY FuturesUserStreamAssumption DEF Typed

\* A request that is given up may leave a key behind.
LEMMA ForsakenTyped ==
    ASSUME Typed, NEW t \in Tasks, Forsaken(t)
    PROVE  /\ made' \in Nat /\ 1..made \subseteq 1..made'
           /\ alive' \subseteq 1..made' /\ left' \subseteq Nat
<1>1. /\ made \in Nat /\ alive \subseteq 1..made /\ left \subseteq Nat /\ task[t] \in Task
    BY DEF Typed
<1>2. task[t].arg \in Nat
    BY <1>1 DEF Task
<1>3. CASE /\ made' = made + 1 /\ alive' = alive \cup {made + 1}
           /\ left' = left \cup {made + 1}
    <2>1. 1..made \subseteq 1..made' /\ made + 1 \in 1..made' /\ made' \in Nat
        BY <1>1, <1>3
    <2> QED BY <1>1, <1>3, <2>1
<1>4. CASE made' = made /\ alive' \subseteq alive /\ left' \subseteq left \cup {task[t].arg}
    BY <1>1, <1>2, <1>4
<1> QED BY <1>3, <1>4 DEF Forsaken

LEMMA SubscribeTyped == ASSUME Typed, Subscribe PROVE Typed'
<1>1. task' \in [Tasks -> Task]
    <2>1. task["caller"] \in Task /\ want \in BOOLEAN /\ "starting" \in Places /\ "caller" \in Tasks
        BY DEF Typed, Places, Tasks
    <2>2. [Idle EXCEPT !.at = "starting", !.prev = want, !.subscribe = TRUE] \in Task
        BY <2>1, TaskUpdates
    <2> QED BY <2>1, <2>2 DEF Subscribe, Typed
<1>2. calls' \in 0..MaxCalls
    BY CallTyped DEF Subscribe
<1>3. want' \in BOOLEAN /\ known' \in BOOLEAN /\ recorded' \in BOOLEAN
    BY DEF Subscribe, Typed
<1> QED BY <1>1, <1>2, <1>3 DEF Subscribe, Typed, fieldVars, worldVars

LEMMA UnsubscribeTyped == ASSUME Typed, Unsubscribe PROVE Typed'
<1>1. /\ task' \in [Tasks -> Task] /\ stream' \in Nat /\ key' \in Nat /\ keepalive' \in Nat
      /\ recorded' \in BOOLEAN /\ loops' \subseteq loops
    <2>1. "caller" \in Tasks
        BY DEF Tasks
    <2> QED BY <2>1, BeginCleanupTyped, TypeParts DEF Unsubscribe
<1>2. calls' \in 0..MaxCalls
    BY CallTyped DEF Unsubscribe
<1>3. trouble' \subseteq Troubles
    BY DEF Unsubscribe, Note, Troubles, Typed
<1> QED BY <1>1, <1>2, <1>3 DEF Unsubscribe, Typed

LEMMA CallFailsTyped == ASSUME Typed, CallFails PROVE Typed'
<1>1. task' \in [Tasks -> Task] /\ want' \in BOOLEAN
    <2>1. task["caller"] \in Task /\ "caller" \in Tasks
        BY DEF Typed, Tasks
    <2>2. Idle \in Task
        BY <2>1, TaskUpdates
    <2> QED BY <2>1, <2>2 DEF CallFails, Typed, Task
<1> QED BY <1>1 DEF CallFails, Typed, fieldVars, worldVars, boundVars

LEMMA CancelCallTyped == ASSUME Typed, CancelCall PROVE Typed'
<1>1. "caller" \in Tasks /\ task["caller"] \in Task /\ Forsaken("caller")
    BY DEF Typed, Tasks, CancelCall
<1>2. task' \in [Tasks -> Task]
    <2>1. Idle \in Task
        BY <1>1, TaskUpdates
    <2> QED BY <1>1, <2>1 DEF CancelCall, Typed
<1>3. faults' \in 0..MaxFaults /\ trouble' \subseteq Troubles
    BY FaultTyped DEF CancelCall, Note, Troubles, Typed
<1>4. /\ made' \in Nat /\ 1..made \subseteq 1..made'
      /\ alive' \subseteq 1..made' /\ left' \subseteq Nat
    BY <1>1, ForsakenTyped
<1>5. UNCHANGED <<want, recorded, known, closed, key, stream, lease, keepalive, open, leases, loops,
                  expired, calls>>
    BY DEF CancelCall, flagVars, fieldVars
<1> QED BY <1>2, <1>3, <1>4, <1>5 DEF Typed

LEMMA HandleExpiredTyped ==
    ASSUME Typed, NEW k \in Keys, HandleExpired(k) PROVE Typed'
<1>1. task' \in [Tasks -> Task]
    <2>1. task["recovery"] \in Task /\ "recovery" \in Tasks /\ "called" \in Places
        BY DEF Typed, Tasks, Places
    <2>2. [task["recovery"] EXCEPT !.at = "called"] \in Task
        BY <2>1, TaskUpdates
    <2> QED BY <2>1, <2>2 DEF HandleExpired, Go, Typed
<1>2. expired' \subseteq open
    BY DEF HandleExpired, Typed
<1> QED BY <1>1, <1>2 DEF HandleExpired, Typed, fieldVars, worldVars, flagVars, boundVars

LEMMA RecoverTyped == ASSUME Typed, Recover PROVE Typed'
<1>1. task["recovery"] \in Task /\ "recovery" \in Tasks /\ {"starting", "closing"} \subseteq Places
    BY DEF Typed, Tasks, Places
<1>2. CASE want
    <2>1. task' \in [Tasks -> Task]
        <3> DEFINE p == IF stream = 0 THEN "starting" ELSE "closing"
        <3>1. p \in Places /\ stream \in Nat /\ lease \in Nat
            BY <1>1 DEF Typed
        <3>2. [Idle EXCEPT !.at = p, !.arg = stream, !.lease = lease] \in Task
            BY <1>1, <3>1, TaskUpdates
        <3>3. task' = [task EXCEPT !["recovery"] = [Idle EXCEPT !.at = p, !.arg = stream, !.lease = lease]]
            BY <1>2 DEF Recover
        <3> HIDE DEF p
        <3> QED BY <1>1, <3>2, <3>3 DEF Typed
    <2>2. key' = 0 /\ stream' = 0 /\ lease' = 0 /\ keepalive' = 0
        BY <1>2 DEF Recover, CancelKeepalive
    <2>3. leases' \subseteq leases /\ loops' \subseteq loops
        BY <1>2 DEF Recover, CancelKeepalive
    <2> QED BY <2>1, <2>2, <2>3 DEF Recover, Typed, flagVars, boundVars
<1>3. CASE ~want
    <2>1. Idle \in Task
        BY <1>1, TaskUpdates
    <2>2. task' \in [Tasks -> Task]
        BY <1>1, <1>3, <2>1 DEF Recover, Typed
    <2> QED BY <1>3, <2>2 DEF Recover, Typed, flagVars, fieldVars, boundVars
<1> QED BY <1>2, <1>3

LEMMA RecoverFailsTyped == ASSUME Typed, RecoverFails PROVE Typed'
<1>1. task["recovery"] \in Task /\ "recovery" \in Tasks
    BY DEF Typed, Tasks
<1>2. Idle \in Task
    BY <1>1, TaskUpdates
<1>3. task' \in [Tasks -> Task]
    BY <1>1, <1>2 DEF RecoverFails, Typed
<1>4. trouble' \subseteq Troubles
    BY DEF RecoverFails, Note, Troubles, Typed
<1> QED BY <1>3, <1>4 DEF RecoverFails, Typed, flagVars, fieldVars, worldVars, boundVars

LEMMA ServeStartTyped ==
    ASSUME Typed, NEW t \in Tasks, ServeStart(t) PROVE Typed'
<1>1. task[t] \in Task /\ {"started", "failed"} \subseteq Places /\ made + 1 \in Nat
    BY DEF Typed, Places
<1>2. /\ [task[t] EXCEPT !.at = "started", !.arg = made + 1] \in Task
      /\ [task[t] EXCEPT !.at = "failed"] \in Task
    BY <1>1, TaskUpdates
<1>3. task' \in [Tasks -> Task]
    BY <1>1, <1>2 DEF ServeStart, Go, Typed
<1>4. faults' \in 0..MaxFaults
    BY FaultTyped DEF ServeStart, Typed
<1>5. trouble' \subseteq Troubles /\ left' \subseteq Nat
    BY <1>1 DEF ServeStart, Typed
<1>6. \/ made' = made + 1 /\ alive' = alive \cup {made + 1}
      \/ made' = made /\ alive' = alive
    BY DEF ServeStart
<1>7. /\ made' \in Nat /\ 1..made \subseteq 1..made' /\ alive' \subseteq 1..made'
      /\ open' \subseteq 1..made' /\ leases' \subseteq 1..made' /\ loops' \subseteq 1..made'
    <2>1. made \in Nat /\ open' = open /\ leases' = leases /\ loops' = loops
        BY DEF ServeStart, Typed
    <2>2. made' \in Nat /\ made <= made'
        BY <1>6, <2>1
    <2>3. 1..made \subseteq 1..made'
        BY <2>1, <2>2
    <2>4. alive' \subseteq 1..made'
        <3>1. CASE made' = made + 1 /\ alive' = alive \cup {made + 1}
            <4>1. made + 1 \in 1..made'
                BY <2>1, <3>1
            <4> QED BY <2>3, <3>1, <4>1 DEF Typed
        <3> QED BY <1>6, <3>1 DEF Typed
    <2> QED BY <2>1, <2>2, <2>3, <2>4 DEF Typed
<1> QED BY <1>3, <1>4, <1>5, <1>6, <1>7 DEF ServeStart, Typed, flagVars, fieldVars

LEMMA InstallTyped ==
    ASSUME Typed, Received, NEW t \in Tasks, Install(t) PROVE Typed'
<1>1. task[t] \in Task
    BY DEF Typed
<1>2. Idle \in Task
    BY <1>1, TaskUpdates
<1>3. task' \in [Tasks -> Task]
    BY <1>1, <1>2 DEF Install, Typed
<1>4. task[t].arg \in 1..made /\ task[t].arg \in Nat
    BY <1>1 DEF Received, Install, Task
<1>5. key' \in Nat /\ stream' \in Nat /\ lease' \in Nat /\ keepalive' \in Nat
    BY <1>4 DEF Install
<1>6. /\ open' \subseteq 1..made' /\ leases' \subseteq 1..made' /\ loops' \subseteq 1..made'
      /\ open \subseteq open'
    BY <1>4 DEF Install, Typed
<1>7. recorded' \in BOOLEAN
    BY DEF Install, Typed
<1> QED BY <1>3, <1>5, <1>6, <1>7 DEF Install, Typed, boundVars

LEMMA InstallFailsTyped ==
    ASSUME Typed, NEW t \in Tasks, InstallFails(t) PROVE Typed'
<1>1. task[t] \in Task /\ "undoing" \in Places
    BY DEF Typed, Places
<1>2. [task[t] EXCEPT !.at = "undoing"] \in Task
    BY <1>1, TaskUpdates
<1>3. task' \in [Tasks -> Task]
    BY <1>1, <1>2 DEF InstallFails, Go, Typed
<1>4. faults' \in 0..MaxFaults
    BY FaultTyped DEF InstallFails
<1> QED BY <1>3, <1>4 DEF InstallFails, Typed, flagVars, worldVars

LEMMA ServeStopTyped ==
    ASSUME Typed, NEW t \in Tasks, ServeStop(t) PROVE Typed'
<1>1. faults' \in 0..MaxFaults
    BY FaultTyped DEF ServeStop, Typed
<1>2. trouble' \subseteq Troubles /\ alive' \subseteq alive /\ left' \subseteq Nat
    BY DEF ServeStop, Typed, Task
<1>3. task' \in [Tasks -> Task] /\ stream' \in Nat /\ recorded' \in BOOLEAN
    <2>1. CASE At(t, "undoing")
        <3>1. task[t] \in Task /\ "failed" \in Places
            BY DEF Typed, Places
        <3>2. [task[t] EXCEPT !.at = "failed"] \in Task
            BY <3>1, TaskUpdates
        <3> QED BY <2>1, <3>1, <3>2 DEF ServeStop, Go, Typed
    <2>2. CASE ~At(t, "undoing")
        BY <2>2, CloseStreamTyped, TypeParts DEF ServeStop
    <2> QED BY <2>1, <2>2
<1> QED BY <1>1, <1>2, <1>3 DEF ServeStop, Typed

LEMMA StreamClosedTyped ==
    ASSUME Typed, NEW t \in Tasks, StreamClosed(t) PROVE Typed'
<1>1. task[t] \in Task /\ {"starting", "cleaned"} \subseteq Places
    BY DEF Typed, Places
<1>2. /\ Idle \in Task /\ [Idle EXCEPT !.at = "starting"] \in Task
      /\ [task[t] EXCEPT !.at = "cleaned"] \in Task
    BY <1>1, TaskUpdates
<1>3. \/ task' = [task EXCEPT ![t] = Idle]
      \/ task' = [task EXCEPT ![t] = [Idle EXCEPT !.at = "starting"]]
      \/ task' = [task EXCEPT ![t] = [task[t] EXCEPT !.at = "cleaned"]]
    BY <1>1 DEF StreamClosed, Ended
<1>4. task' \in [Tasks -> Task]
    BY <1>1, <1>2, <1>3 DEF Typed
<1>5. recorded' \in BOOLEAN /\ lease' \in Nat
    <2>1. recorded' = recorded \/ recorded' = FALSE
        BY DEF StreamClosed, Ended
    <2>2. lease' = lease \/ lease' = 0
        BY DEF StreamClosed
    <2>3. recorded \in BOOLEAN /\ lease \in Nat
        BY DEF Typed
    <2>4. recorded' \in BOOLEAN
        BY <2>1, <2>3
    <2>5. lease' \in Nat
        BY <2>2, <2>3
    <2> QED BY <2>4, <2>5
<1>6. open' \subseteq open /\ leases' \subseteq leases /\ expired' \subseteq open'
    BY DEF StreamClosed, WithoutEventsOf, Typed
<1> QED BY <1>4, <1>5, <1>6 DEF StreamClosed, Typed, boundVars

LEMMA CloseTyped == ASSUME Typed, Close PROVE Typed'
<1>1. /\ task["closer"] \in Task /\ task["recovery"] \in Task /\ "waiting" \in Places
      /\ {"closer", "recovery"} \subseteq Tasks
    BY DEF Typed, Places, Tasks
<1>2. Idle \in Task /\ [Idle EXCEPT !.at = "waiting"] \in Task
    BY <1>1, TaskUpdates
<1>3. task' \in [Tasks -> Task]
    BY <1>1, <1>2 DEF Close, Typed
<1>4. trouble' \subseteq Troubles
    BY DEF Close, Note, Troubles, Typed
<1>5. /\ made' \in Nat /\ 1..made \subseteq 1..made'
      /\ alive' \subseteq 1..made' /\ left' \subseteq Nat
    BY <1>1, ForsakenTyped DEF Close
<1>6. want' \in BOOLEAN /\ UNCHANGED <<recorded, known, closed, key, stream, lease, keepalive, open,
                                       leases, loops, expired, calls, faults>>
    BY DEF Close, fieldVars, boundVars
<1> QED BY <1>3, <1>4, <1>5, <1>6 DEF Typed

LEMMA CloserCleansTyped == ASSUME Typed, CloserCleans PROVE Typed'
<1>1. /\ task' \in [Tasks -> Task] /\ stream' \in Nat /\ key' \in Nat /\ keepalive' \in Nat
      /\ recorded' \in BOOLEAN /\ loops' \subseteq loops
    <2>1. "closer" \in Tasks
        BY DEF Tasks
    <2> QED BY <2>1, BeginCleanupTyped, TypeParts DEF CloserCleans
<1> QED BY <1>1 DEF CloserCleans, Typed, boundVars

LEMMA CloseReturnsTyped == ASSUME Typed, CloseReturns PROVE Typed'
<1>1. /\ task["closer"] \in Task /\ task["caller"] \in Task /\ "failed" \in Places
      /\ {"closer", "caller"} \subseteq Tasks
    BY DEF Typed, Places, Tasks
<1>2. Idle \in Task /\ [task["caller"] EXCEPT !.at = "failed"] \in Task
    BY <1>1, TaskUpdates
<1>3. task' = [task EXCEPT !["closer"] = Idle,
                           !["caller"] = IF task["caller"].at = "starting"
                                         THEN [task["caller"] EXCEPT !.at = "failed"]
                                         ELSE task["caller"]]
    BY <1>1 DEF CloseReturns, Typed, Task
<1>4. task' \in [Tasks -> Task]
    BY <1>1, <1>2, <1>3 DEF Typed
<1>5. /\ made' \in Nat /\ 1..made \subseteq 1..made'
      /\ alive' \subseteq 1..made' /\ left' \subseteq Nat
    BY <1>1, ForsakenTyped DEF CloseReturns, Typed
<1>6. closed' \in BOOLEAN /\ known' \in BOOLEAN
      /\ UNCHANGED <<want, recorded, key, stream, lease, keepalive, open, leases, loops, expired,
                     trouble, calls, faults>>
    BY DEF CloseReturns, fieldVars, boundVars
<1> QED BY <1>4, <1>5, <1>6 DEF Typed

LEMMA ExpireTyped == ASSUME Typed, NEW k \in Keys, Expire(k) PROVE Typed'
<1>1. faults' \in 0..MaxFaults
    BY FaultTyped DEF Expire
<1>2. trouble' \subseteq Troubles /\ alive' \subseteq alive /\ expired' \subseteq open
    BY DEF Expire, Note, Troubles, Typed
<1> QED BY <1>1, <1>2 DEF Expire, Typed, flagVars, fieldVars

LEMMA LoopEndsTyped == ASSUME Typed, NEW k \in Keys, LoopEnds(k) PROVE Typed'
BY DEF LoopEnds, Typed, flagVars, fieldVars, boundVars

LEMMA TypePreserved == ASSUME Typed, Received, [Next]_vars PROVE Typed'
<1>1. CASE UNCHANGED vars
    BY <1>1 DEF vars, flagVars, fieldVars, worldVars, boundVars, Typed
<1>2. CASE Progress
    BY <1>2, ServeStartTyped, InstallTyped, ServeStopTyped, StreamClosedTyped, LoopEndsTyped,
       HandleExpiredTyped, CallFailsTyped, RecoverTyped, RecoverFailsTyped, CloserCleansTyped,
       CloseReturnsTyped DEF Progress
<1>3. CASE Unforced
    BY <1>3, SubscribeTyped, UnsubscribeTyped, CancelCallTyped, CloseTyped, InstallFailsTyped,
       ExpireTyped DEF Unforced
<1> QED BY <1>1, <1>2, <1>3 DEF Next

\* No task is at "started" that was not, but for the answer to a start.
StartedStays ==
    /\ 1..made \subseteq 1..made'
    /\ \A x \in Tasks : task'[x].at = "started" => task'[x] = task[x]

LEMMA SetStays ==
    ASSUME Typed, NEW t \in Tasks, NEW r, task' = [task EXCEPT ![t] = r], r.at # "started"
    PROVE  \A x \in Tasks : task'[x].at = "started" => task'[x] = task[x]
<1> SUFFICES ASSUME NEW x \in Tasks, task'[x].at = "started"
             PROVE  task'[x] = task[x]
    OBVIOUS
<1>1. task'[x] = IF x = t THEN r ELSE task[x]
    BY DEF Typed
<1> QED BY <1>1

LEMMA CloseStreamStays ==
    ASSUME Typed, NEW t \in Tasks, CloseStream(t)
    PROVE  \A x \in Tasks : task'[x].at = "started" => task'[x] = task[x]
<1>1. task[t] \in Task /\ task \in [Tasks -> Task]
    BY DEF Typed
<1>2. \/ task' = [task EXCEPT ![t] = [task[t] EXCEPT !.at = "cleaned"]]
      \/ task' = [task EXCEPT ![t] = Idle]
      \/ task' = [task EXCEPT ![t] = [task[t] EXCEPT !.at = "closing", !.arg = stream]]
    BY <1>1 DEF CloseStream, Ended
<1>3. /\ [task[t] EXCEPT !.at = "cleaned"].at # "started"
      /\ Idle.at # "started"
      /\ [task[t] EXCEPT !.at = "closing", !.arg = stream].at # "started"
    BY <1>1 DEF Task, Idle
<1>4. CASE task' = [task EXCEPT ![t] = [task[t] EXCEPT !.at = "cleaned"]]
    BY <1>3, <1>4, SetStays
<1>5. CASE task' = [task EXCEPT ![t] = Idle]
    BY <1>3, <1>5, SetStays
<1>6. CASE task' = [task EXCEPT ![t] = [task[t] EXCEPT !.at = "closing", !.arg = stream]]
    BY <1>3, <1>6, SetStays
<1> QED BY <1>2, <1>4, <1>5, <1>6

LEMMA BeginCleanupStays ==
    ASSUME Typed, NEW t \in Tasks, BeginCleanup(t)
    PROVE  \A x \in Tasks : task'[x].at = "started" => task'[x] = task[x]
<1>1. CASE key = 0
    BY <1>1, CloseStreamStays DEF BeginCleanup
<1>2. CASE key # 0
    BY <1>2 DEF BeginCleanup, Typed, Task
<1> QED BY <1>1, <1>2

LEMMA ReceivedPreserved == ASSUME Typed, Received, [Next]_vars PROVE Received'
<1>1. ASSUME StartedStays PROVE Received'
    BY <1>1 DEF StartedStays, Received, At
<1>2. CASE UNCHANGED vars
    BY <1>1, <1>2 DEF vars, StartedStays
<1>3. ASSUME NEW t \in Tasks, ServeStart(t) PROVE Received'
    <2>1. task \in [Tasks -> Task] /\ made \in Nat
        BY DEF Typed
    <2>2. CASE /\ made' = made + 1
               /\ task' = [task EXCEPT ![t] = [task[t] EXCEPT !.at = "started", !.arg = made + 1]]
        <3>1. 1..made \subseteq 1..made' /\ made + 1 \in 1..made'
            BY <2>1, <2>2
        <3> QED BY <2>1, <2>2, <3>1 DEF Received, At, Task
    <2>3. CASE (made' = made \/ made' = made + 1) /\ Go(t, "failed")
        <3>1. 1..made \subseteq 1..made'
            BY <2>1, <2>3
        <3> QED BY <2>1, <2>3, <3>1 DEF Received, At, Task, Go
    <2> QED BY <1>3, <2>2, <2>3 DEF ServeStart
<1>4. ASSUME NEW t \in Tasks, Install(t) \/ InstallFails(t) \/ StreamClosed(t) PROVE StartedStays
    <2>1. task[t] \in Task /\ task \in [Tasks -> Task]
        BY DEF Typed
    <2>2. made' = made
        BY <1>4 DEF Install, InstallFails, StreamClosed
    <2>3. \/ task' = [task EXCEPT ![t] = Idle]
          \/ task' = [task EXCEPT ![t] = [task[t] EXCEPT !.at = "undoing"]]
          \/ task' = [task EXCEPT ![t] = [Idle EXCEPT !.at = "starting"]]
          \/ task' = [task EXCEPT ![t] = [task[t] EXCEPT !.at = "cleaned"]]
        BY <1>4, <2>1 DEF Install, InstallFails, Go, StreamClosed, Ended
    <2> QED BY <2>1, <2>2, <2>3 DEF StartedStays, Idle, Task
<1>5. ASSUME NEW t \in Tasks, ServeStop(t) PROVE StartedStays
    <2>1. CASE At(t, "undoing")
        BY <1>5, <2>1 DEF ServeStop, Go, StartedStays, Typed, Task
    <2>2. CASE ~At(t, "undoing")
        BY <1>5, <2>2, CloseStreamStays DEF ServeStop, StartedStays
    <2> QED BY <2>1, <2>2
<1>6. ASSUME NEW k \in Keys, LoopEnds(k) \/ HandleExpired(k) \/ Expire(k) PROVE StartedStays
    BY <1>6 DEF LoopEnds, HandleExpired, Expire, Go, StartedStays, Typed, Task
<1>7. ASSUME Unsubscribe \/ CloserCleans PROVE StartedStays
    <2>1. {"caller", "closer"} \subseteq Tasks
        BY DEF Tasks
    <2> QED BY <1>7, <2>1, BeginCleanupStays DEF Unsubscribe, CloserCleans, StartedStays
<1>8. ASSUME Recover PROVE StartedStays
    <2>1. /\ made' = made
          /\ \/ task' = [task EXCEPT !["recovery"] = Idle]
             \/ task' = [task EXCEPT !["recovery"] =
                             [Idle EXCEPT !.at = "starting", !.arg = stream, !.lease = lease]]
             \/ task' = [task EXCEPT !["recovery"] =
                             [Idle EXCEPT !.at = "closing", !.arg = stream, !.lease = lease]]
        BY <1>8 DEF Recover
    <2>2. "recovery" \in Tasks
        BY DEF Tasks
    <2>3. /\ Idle.at # "started"
          /\ [Idle EXCEPT !.at = "starting", !.arg = stream, !.lease = lease].at # "started"
          /\ [Idle EXCEPT !.at = "closing", !.arg = stream, !.lease = lease].at # "started"
        BY DEF Idle
    <2>4. CASE task' = [task EXCEPT !["recovery"] = Idle]
        BY <2>1, <2>2, <2>3, <2>4, SetStays DEF StartedStays
    <2>5. CASE task' = [task EXCEPT !["recovery"] =
                            [Idle EXCEPT !.at = "starting", !.arg = stream, !.lease = lease]]
        BY <2>1, <2>2, <2>3, <2>5, SetStays DEF StartedStays
    <2>6. CASE task' = [task EXCEPT !["recovery"] =
                            [Idle EXCEPT !.at = "closing", !.arg = stream, !.lease = lease]]
        BY <2>1, <2>2, <2>3, <2>6, SetStays DEF StartedStays
    <2> QED BY <2>1, <2>4, <2>5, <2>6
<1>9. ASSUME Subscribe \/ CallFails \/ CancelCall \/ RecoverFails PROVE StartedStays
    <2>1. {"caller", "recovery"} \subseteq Tasks /\ Idle.at # "started"
        BY DEF Tasks, Idle
    <2>2. CASE Subscribe
        <3>1. [Idle EXCEPT !.at = "starting", !.prev = want, !.subscribe = TRUE].at # "started"
            BY DEF Idle
        <3>2. /\ made' = made
              /\ \/ task' = task
                 \/ task' = [task EXCEPT !["caller"] =
                                 [Idle EXCEPT !.at = "starting", !.prev = want, !.subscribe = TRUE]]
            BY <2>2 DEF Subscribe
        <3>3. CASE task' = task
            BY <3>2, <3>3 DEF StartedStays
        <3>4. CASE task' = [task EXCEPT !["caller"] =
                                 [Idle EXCEPT !.at = "starting", !.prev = want, !.subscribe = TRUE]]
            BY <2>1, <3>1, <3>2, <3>4, SetStays DEF StartedStays
        <3> QED BY <3>2, <3>3, <3>4
    <2>3. CASE CallFails \/ CancelCall
        <3>1. 1..made \subseteq 1..made' /\ task' = [task EXCEPT !["caller"] = Idle]
            BY <2>1, <2>3, ForsakenTyped DEF CallFails, CancelCall
        <3> QED BY <2>1, <3>1, SetStays DEF StartedStays
    <2>4. CASE RecoverFails
        <3>1. made' = made /\ task' = [task EXCEPT !["recovery"] = Idle]
            BY <2>4 DEF RecoverFails
        <3> QED BY <2>1, <3>1, SetStays DEF StartedStays
    <2> QED BY <1>9, <2>2, <2>3, <2>4
<1>10. ASSUME Close \/ CloseReturns PROVE StartedStays
    <2>1. 1..made \subseteq 1..made'
        BY <1>10, ForsakenTyped DEF Close, CloseReturns, Tasks
    <2> QED BY <1>10, <2>1 DEF Close, CloseReturns, StartedStays, Idle, Typed, Task
<1>11. CASE Progress
    BY <1>1, <1>3, <1>4, <1>5, <1>6, <1>7, <1>8, <1>9, <1>10, <1>11 DEF Progress
<1>12. CASE Unforced
    BY <1>1, <1>4, <1>6, <1>7, <1>9, <1>10, <1>12 DEF Unforced
<1> QED BY <1>2, <1>11, <1>12 DEF Next

-----------------------------------------------------------------------------
(* Nothing is lost sight of *)

LEMMA SubscribeQuiet ==
    ASSUME Typed, Quiet, Subscribe PROVE Quiet'
<1>1. /\ task["caller"].at = "idle" /\ task["closer"].at = "idle" /\ task["recovery"].at = "idle"
      /\ ~recorded /\ ~closed /\ stream = 0
    BY DEF Subscribe, Quiet, OneAtATime, Busy, At
<1>2. Nothing
    BY <1>1 DEF Quiet, FieldsAgree, Tasks, Whole, Halted, Nothing
<1>3. UNCHANGED <<key, stream, lease, keepalive, open, leases, loops, alive, left, expired, trouble, closed>>
    BY DEF Subscribe, fieldVars, worldVars
<1>4. /\ task'["caller"].at = "starting"
      /\ task'["closer"] = task["closer"] /\ task'["recovery"] = task["recovery"]
      /\ want'
    BY <1>1 DEF Subscribe, Running, Typed, Tasks, Idle
<1>5. OneAtATime'
    BY <1>1, <1>3, <1>4 DEF OneAtATime, Busy, At, Making
<1>6. FieldsAgree'
    BY <1>1, <1>2, <1>3, <1>4 DEF FieldsAgree, At, Whole, Nothing, Stopping, Tasks, Making
<1>7. KeysKnown'
    BY <1>1, <1>3, <1>4 DEF Quiet, KeysKnown, At, Tasks
<1> QED BY <1>5, <1>6, <1>7 DEF Quiet

LEMMA CallFailsQuiet ==
    ASSUME Typed, Quiet, CallFails PROVE Quiet'
<1>1. /\ task["caller"].at = "failed" /\ task["closer"].at = "idle" /\ task["recovery"].at = "idle"
      /\ ~closed
    BY DEF CallFails, Quiet, OneAtATime, Busy, At, Making, Typed, Tasks, Task
<1>2. Nothing
    BY <1>1 DEF Quiet, FieldsAgree, Tasks, Making
<1>3. UNCHANGED <<key, stream, lease, keepalive, open, leases, loops, alive, left, expired, trouble, closed>>
    BY DEF CallFails, fieldVars, worldVars
<1>4. /\ task'["caller"] = Idle
      /\ task'["closer"] = task["closer"] /\ task'["recovery"] = task["recovery"]
    BY <1>1 DEF CallFails, Typed, Tasks
<1>5. OneAtATime'
    BY <1>1, <1>2, <1>3, <1>4 DEF OneAtATime, Busy, At, Making, Idle, Nothing
<1>6. FieldsAgree'
    BY <1>1, <1>2, <1>3, <1>4 DEF FieldsAgree, At, Whole, Nothing, Stopping, Tasks, Making, Idle
<1>7. KeysKnown'
    BY <1>1, <1>3, <1>4 DEF Quiet, KeysKnown, At, Tasks, Idle
<1> QED BY <1>5, <1>6, <1>7 DEF Quiet

\* Who gives up a request leaves no key but those it has forgotten, when no other
\* task is about to install or stop one.
LEMMA ForsakenKeys ==
    ASSUME Typed, Quiet, NEW t \in Tasks, Forsaken(t),
           \A x \in Tasks : x # t => task[x].at \notin {"started", "stopping", "undoing"}
    PROVE  /\ \A k \in alive' \ left' : k = key
           /\ expired \cap alive' = {}
<1>1. /\ made \in Nat /\ expired \subseteq 1..made /\ expired \cap alive = {}
    BY DEF Typed, Quiet, KeysKnown
<1>2. \A k \in alive \ left :
         k = key \/ (task[t].at \in {"started", "stopping", "undoing"} /\ k = task[t].arg)
    BY DEF Quiet, KeysKnown
<1>3. CASE /\ task[t].at = "starting"
           /\ alive' = alive \cup {made + 1} /\ left' = left \cup {made + 1}
    <2>1. made + 1 \notin expired
        BY <1>1
    <2> QED BY <1>1, <1>2, <1>3, <2>1
<1>4. CASE /\ task[t].at \in {"started", "stopping", "undoing"}
           /\ alive' \subseteq alive /\ left' = left \cup {task[t].arg}
    BY <1>1, <1>2, <1>4
<1>5. CASE /\ task[t].at \notin {"started", "stopping", "undoing"}
           /\ alive' = alive /\ left' = left
    BY <1>1, <1>2, <1>5
<1> QED BY <1>3, <1>4, <1>5 DEF Forsaken, At

LEMMA CancelCallQuiet ==
    ASSUME Typed, Quiet, CancelCall PROVE Quiet'
<1>1. /\ task["caller"].at \in Making \cup {"stopping"}
      /\ task["closer"].at = "idle" /\ task["recovery"].at = "idle" /\ ~closed
    <2>1. task["caller"].at \in Places
        BY DEF Typed, Tasks, Task
    <2>2. task["caller"].at \notin {"idle", "called", "waiting", "cleaned", "closing"}
        BY DEF CancelCall, Busy, At, Quiet, OneAtATime
    <2> QED BY <2>1, <2>2 DEF Places, Making, CancelCall, Quiet, OneAtATime, Busy, At
<1>2. UNCHANGED <<want, recorded, known, key, stream, lease, keepalive, open, leases, loops, expired, closed>>
      /\ "cancelled" \in trouble'
    BY DEF CancelCall, flagVars, fieldVars, Note
<1>3. /\ task'["caller"] = Idle
      /\ task'["closer"] = task["closer"] /\ task'["recovery"] = task["recovery"]
    BY DEF CancelCall, Typed, Tasks
<1>4. Whole' \/ Halted'
    <2>1. CASE task["caller"].at \in Making
        BY <1>2, <2>1 DEF Quiet, FieldsAgree, Tasks, Nothing, Whole
    <2>2. CASE task["caller"].at = "stopping"
        <3>1. Stopping /\ ~want /\ ~known /\ recorded
            BY <2>2 DEF Quiet, FieldsAgree, OneAtATime, At, Tasks, Stopping
        <3> QED BY <1>2, <3>1 DEF Halted, Stopping
    <2> QED BY <1>1, <2>1, <2>2
<1>5. OneAtATime'
    BY <1>1, <1>2, <1>3 DEF Quiet, OneAtATime, Busy, At, Making, Idle
<1>6. FieldsAgree'
    BY <1>1, <1>2, <1>3, <1>4 DEF FieldsAgree, At, Tasks, Making, Idle
<1>7. KeysKnown'
    <2>1. \A k \in alive' \ left' : k = key
        BY <1>1, ForsakenKeys DEF CancelCall, Tasks
    <2>2. expired' \cap alive' = {}
        BY <1>1, <1>2, ForsakenKeys DEF CancelCall, Tasks
    <2> QED BY <1>1, <1>2, <1>3, <2>1, <2>2 DEF KeysKnown, At
<1> QED BY <1>5, <1>6, <1>7 DEF Quiet

LEMMA HandleExpiredQuiet ==
    ASSUME Typed, Quiet, NEW k \in Keys, HandleExpired(k) PROVE Quiet'
<1>1. UNCHANGED <<key, stream, lease, keepalive, open, leases, loops, alive, left, trouble, closed, want, recorded, known>>
    BY DEF HandleExpired, fieldVars, worldVars, flagVars
<1>2. CASE want /\ ~Busy("recovery")
    <2>1. /\ task["recovery"].at = "idle" /\ ~closed /\ task["closer"].at = "idle"
          /\ k \in open
        BY <1>2 DEF HandleExpired, Busy, At, Quiet, OneAtATime, Typed
    <2>2. task["caller"].at = "idle"
        <3>1. task["caller"].at \in Places
            BY DEF Typed, Task, Tasks
        <3>2. task["caller"].at \notin Making
            BY <2>1 DEF Quiet, FieldsAgree, Tasks, Nothing
        <3> QED BY <1>2, <3>1, <3>2 DEF Quiet, OneAtATime, Places, Making
    <2>3. Whole
        BY <1>2, <2>1, <2>2 DEF Quiet, FieldsAgree, Tasks, Halted
    <2>4. /\ task'["recovery"].at = "called"
          /\ task'["closer"] = task["closer"] /\ task'["caller"] = task["caller"]
        BY <1>2 DEF HandleExpired, Go, Typed, Tasks, Task
    <2>5. recorded
        BY <2>1, <2>3 DEF Quiet, OneAtATime, Whole
    <2>6. key = k /\ key \notin alive
        BY <2>1, <2>3 DEF Whole, Quiet, KeysKnown, HandleExpired
    <2>7. OneAtATime'
        BY <1>1, <1>2, <2>1, <2>2, <2>4, <2>5 DEF OneAtATime, Busy, At, Making
    <2>8. FieldsAgree'
        BY <1>1, <2>1, <2>2, <2>3, <2>4 DEF FieldsAgree, At, Whole, Nothing, Stopping, Tasks, Making
    <2>9. KeysKnown'
        BY <1>1, <2>1, <2>2, <2>4, <2>6 DEF Quiet, KeysKnown, At, Tasks, HandleExpired
    <2> QED BY <2>7, <2>8, <2>9 DEF Quiet
<1>3. CASE ~(want /\ ~Busy("recovery"))
    <2>1. task' = task /\ expired' \subseteq expired
        BY <1>3 DEF HandleExpired
    <2>2. OneAtATime'
        BY <1>1, <2>1 DEF Quiet, OneAtATime, Busy, At, Making
    <2>3. FieldsAgree'
        BY <1>1, <2>1 DEF Quiet, FieldsAgree, At, Whole, Nothing, Stopping, Halted
    <2>4. KeysKnown'
        BY <1>1, <2>1 DEF Quiet, KeysKnown, At
    <2> QED BY <2>2, <2>3, <2>4 DEF Quiet
<1> QED BY <1>2, <1>3

LEMMA RecoverQuiet ==
    ASSUME Typed, Quiet, Recover PROVE Quiet'
<1>1. /\ task["recovery"].at = "called" /\ task["caller"].at = "idle" /\ task["closer"].at = "idle"
      /\ want /\ recorded /\ ~closed
    BY DEF Recover, Quiet, OneAtATime, Busy, At
<1>2. Whole
    BY <1>1 DEF Quiet, FieldsAgree, Tasks, Halted
<1>3. /\ key' = 0 /\ stream' = 0 /\ lease' = 0 /\ keepalive' = 0 /\ loops' = {} /\ open' = open
      /\ UNCHANGED <<alive, left, expired, trouble, closed, want, recorded, known>>
    BY <1>1, <1>2 DEF Recover, CancelKeepalive, Whole, flagVars
<1>4. /\ task'["caller"] = task["caller"] /\ task'["closer"] = task["closer"]
      /\ task'["recovery"].arg = stream /\ task'["recovery"].lease = lease
      /\ task'["recovery"].at = IF stream = 0 THEN "starting" ELSE "closing"
    <2>1. PICK place : place = IF stream = 0 THEN "starting" ELSE "closing"
        OBVIOUS
    <2>2. task' = [task EXCEPT !["recovery"] = [Idle EXCEPT !.at = place, !.arg = stream, !.lease = lease]]
        BY <1>1, <2>1 DEF Recover
    <2>3. task'["caller"] = task["caller"] /\ task'["closer"] = task["closer"]
          /\ task'["recovery"] = [Idle EXCEPT !.at = place, !.arg = stream, !.lease = lease]
        BY <2>2 DEF Typed, Tasks
    <2> QED BY <2>1, <2>3 DEF Idle
<1>5. leases' = open
    BY <1>1, <1>2 DEF Recover, Whole
<1>6. OneAtATime'
    BY <1>1, <1>3, <1>4 DEF OneAtATime, Busy, At, Making
<1>7. FieldsAgree'
    BY <1>1, <1>2, <1>3, <1>4, <1>5 DEF FieldsAgree, At, Whole, Nothing, Stopping, Tasks, Making
<1>8. KeysKnown'
    BY <1>1, <1>3, <1>4 DEF Quiet, KeysKnown, At, Tasks
<1> QED BY <1>6, <1>7, <1>8 DEF Quiet

LEMMA RecoverFailsQuiet ==
    ASSUME Typed, Quiet, RecoverFails PROVE Quiet'
<1>1. /\ task["recovery"].at = "failed" /\ task["caller"].at = "idle"
      /\ task["closer"].at \in {"idle", "waiting"} /\ ~closed /\ recorded
    BY DEF RecoverFails, Quiet, OneAtATime, Busy, At
<1>2. Nothing
    BY <1>1 DEF Quiet, FieldsAgree, Tasks, Making
<1>3. UNCHANGED <<key, stream, lease, keepalive, open, leases, loops, alive, left, expired, closed, want, recorded, known>>
    BY DEF RecoverFails, fieldVars, worldVars, flagVars
<1>4. /\ task'["recovery"] = Idle
      /\ task'["closer"] = task["closer"] /\ task'["caller"] = task["caller"]
    BY DEF RecoverFails, Typed, Tasks
<1>5. OneAtATime'
    BY <1>1, <1>3, <1>4 DEF Quiet, OneAtATime, Busy, At, Making, Idle
<1>6. FieldsAgree'
    BY <1>1, <1>2, <1>3, <1>4 DEF FieldsAgree, At, Whole, Nothing, Stopping, Tasks, Making, Idle
<1>7. KeysKnown'
    BY <1>1, <1>3, <1>4 DEF Quiet, KeysKnown, At, Tasks, Idle, RecoverFails, Note
<1> QED BY <1>5, <1>6, <1>7 DEF Quiet

LEMMA CloseQuiet ==
    ASSUME Typed, Quiet, Close, Unraced' PROVE Quiet'
<1>1. /\ task["caller"].at = "idle" /\ task["closer"].at = "idle" /\ ~closed
    BY DEF Close, Unraced, Note, Busy, At
<1>2. UNCHANGED <<key, stream, lease, keepalive, open, leases, loops, expired, closed, recorded, known>>
      /\ trouble \subseteq trouble'
    BY DEF Close, fieldVars, Note
<1>3. /\ task'["caller"] = task["caller"] /\ task'["closer"].at = "waiting"
      /\ task'["recovery"] = IF task["recovery"].at = "closing" THEN task["recovery"] ELSE Idle
      /\ ~want'
    BY DEF Close, Typed, Tasks, Idle
<1>4. task["recovery"].at \in {"idle", "called"} \cup Making \cup {"closing"}
    <2>1. task["recovery"].at \in Places
        BY DEF Typed, Tasks, Task
    <2> QED BY <2>1 DEF Places, Making, Quiet, OneAtATime
<1>5. OneAtATime'
    BY <1>1, <1>2, <1>3 DEF Quiet, OneAtATime, Busy, At, Making, Idle
<1>6. KeysKnown'
    <2>1. /\ \A k \in alive' \ left' : k = key
          /\ expired \cap alive' = {}
        BY <1>1, ForsakenKeys DEF Close, Tasks
    <2> QED BY <1>1, <1>2, <1>3, <2>1 DEF KeysKnown, At, Idle
<1>7. FieldsAgree'
    <2>1. CASE task["recovery"].at = "closing"
        BY <1>1, <1>2, <1>3, <2>1 DEF Quiet, FieldsAgree, At, Whole, Nothing, Stopping, Tasks, Making
    <2>2. CASE task["recovery"].at # "closing"
        <3>1. Whole \/ Halted
            <4>1. CASE task["recovery"].at \in {"idle", "called"}
                BY <1>1, <4>1 DEF Quiet, FieldsAgree, Tasks
            <4>2. CASE task["recovery"].at \in Making
                BY <4>2 DEF Quiet, FieldsAgree, Tasks, Whole, Nothing
            <4> QED BY <1>4, <2>2, <4>1, <4>2
        <3>2. Whole' \/ Halted'
            BY <1>2, <1>3, <3>1 DEF Whole, Halted, Stopping
        <3> QED BY <1>1, <1>2, <1>3, <2>2, <3>2 DEF FieldsAgree, At, Tasks, Making, Idle
    <2> QED BY <2>1, <2>2
<1> QED BY <1>5, <1>6, <1>7 DEF Quiet

LEMMA CloseReturnsQuiet ==
    ASSUME Typed, Quiet, CloseReturns PROVE Quiet'
<1>1. /\ task["caller"].at = "idle" /\ task["closer"].at = "cleaned" /\ task["recovery"].at = "idle"
      /\ ~want
    BY DEF CloseReturns, Quiet, OneAtATime, Busy, At
<1>2. Nothing
    BY <1>1 DEF Quiet, FieldsAgree, Tasks
<1>3. UNCHANGED <<key, stream, lease, keepalive, open, leases, loops, alive, left, expired, trouble, want, recorded>>
    BY <1>1 DEF CloseReturns, fieldVars, At
<1>4. /\ task'["closer"] = Idle
      /\ task'["caller"].at = "idle" /\ task'["recovery"] = task["recovery"]
    BY <1>1 DEF CloseReturns, Typed, Tasks, Task
<1>5. OneAtATime'
    BY <1>1, <1>2, <1>3, <1>4 DEF OneAtATime, Busy, At, Making, Idle, Nothing
<1>6. FieldsAgree'
    BY <1>1, <1>2, <1>3, <1>4 DEF FieldsAgree, At, Whole, Nothing, Stopping, Tasks, Making, Idle
<1>7. KeysKnown'
    BY <1>1, <1>3, <1>4 DEF Quiet, KeysKnown, At, Tasks, Idle
<1> QED BY <1>5, <1>6, <1>7 DEF Quiet

LEMMA ExpireQuiet ==
    ASSUME Typed, Quiet, NEW k \in Keys, Expire(k) PROVE Quiet'
<1>1. /\ UNCHANGED <<key, stream, lease, keepalive, open, leases, loops, left, closed, want, recorded, known, task>>
      /\ alive' = alive \ {k} /\ expired' \subseteq expired \cup {k} /\ trouble \subseteq trouble'
    BY DEF Expire, fieldVars, flagVars, Note
<1>2. OneAtATime'
    BY <1>1 DEF Quiet, OneAtATime, Busy, At, Making
<1>3. FieldsAgree'
    BY <1>1 DEF Quiet, FieldsAgree, At, Whole, Nothing, Stopping, Halted
<1>4. KeysKnown'
    BY <1>1 DEF Quiet, KeysKnown, At
<1> QED BY <1>2, <1>3, <1>4 DEF Quiet

LEMMA LoopEndsQuiet ==
    ASSUME Typed, Quiet, NEW k \in Keys, LoopEnds(k) PROVE Quiet'
<1>1. /\ UNCHANGED <<key, stream, lease, keepalive, open, leases, alive, left, expired, trouble, closed, want, recorded, known, task>>
      /\ loops' \subseteq loops
    BY DEF LoopEnds, fieldVars, flagVars
<1>2. OneAtATime'
    BY <1>1 DEF Quiet, OneAtATime, Busy, At, Making
<1>3. FieldsAgree'
    BY <1>1 DEF Quiet, FieldsAgree, At, Whole, Nothing, Stopping, Halted
<1>4. KeysKnown'
    BY <1>1 DEF Quiet, KeysKnown, At
<1> QED BY <1>2, <1>3, <1>4 DEF Quiet

\* A cleanup that begins with the fields whole is over at once, or stops the key.
LEMMA CleanupFields ==
    ASSUME Typed, Whole, NEW t \in Tasks, BeginCleanup(t), UNCHANGED <<lease, open, leases>>
    PROVE  \/ stream = 0 /\ Nothing' /\ Ended(t)
           \/ /\ stream # 0 /\ Stopping' /\ stream' = stream /\ recorded' = recorded
              /\ task' = [task EXCEPT ![t] = [task[t] EXCEPT !.at = "stopping", !.arg = key]]
<1>1. key' = 0 /\ keepalive' = 0 /\ loops' = {}
    BY DEF BeginCleanup, CancelKeepalive, Whole
<1>2. CASE stream = 0
    BY <1>1, <1>2 DEF BeginCleanup, CloseStream, Whole, Nothing
<1>3. CASE stream # 0
    BY <1>1, <1>3 DEF BeginCleanup, Whole, Stopping
<1> QED BY <1>2, <1>3

LEMMA UnsubscribeQuiet ==
    ASSUME Typed, Quiet, Unsubscribe, Unraced' PROVE Quiet'
<1>1. /\ task["caller"].at = "idle" /\ task["closer"].at = "idle" /\ task["recovery"].at = "idle"
      /\ ~closed
    BY DEF Unsubscribe, Unraced, Busy, At, Note
<1>2. Whole
    BY <1>1 DEF Unsubscribe, Quiet, FieldsAgree, Tasks, Halted
<1>3. UNCHANGED <<lease, open, leases, alive, left, expired, closed>> /\ ~want' /\ ~known'
      /\ "caller" \in Tasks
    BY DEF Unsubscribe, Tasks
<1>4. key' = 0 /\ trouble \subseteq trouble'
    BY DEF Unsubscribe, BeginCleanup, Note
<1>5. CASE stream = 0 /\ Nothing' /\ Ended("caller")
    <2>1. /\ task'["caller"] = Idle /\ task'["closer"] = task["closer"]
          /\ task'["recovery"] = task["recovery"]
        BY <1>5 DEF Ended, Typed, Tasks
    <2>2. OneAtATime'
        BY <1>1, <1>3, <1>5, <2>1 DEF OneAtATime, Busy, At, Making, Idle, Nothing
    <2>3. FieldsAgree'
        BY <1>1, <1>3, <1>5, <2>1 DEF FieldsAgree, At, Whole, Nothing, Tasks, Making, Idle
    <2>4. KeysKnown'
        BY <1>1, <1>2, <1>3, <1>4, <1>5, <2>1 DEF Quiet, KeysKnown, At, Tasks, Idle, Whole
    <2> QED BY <2>2, <2>3, <2>4 DEF Quiet
<1>6. CASE /\ stream # 0 /\ Stopping' /\ stream' = stream /\ recorded' = recorded
           /\ task' = [task EXCEPT !["caller"] = [task["caller"] EXCEPT !.at = "stopping", !.arg = key]]
    <2>1. /\ task'["caller"].at = "stopping" /\ task'["caller"].arg = key
          /\ task'["closer"] = task["closer"] /\ task'["recovery"] = task["recovery"]
        BY <1>6 DEF Typed, Tasks, Task
    <2>2. OneAtATime'
        BY <1>1, <1>3, <1>6, <2>1 DEF Quiet, OneAtATime, Busy, At, Making
    <2>3. FieldsAgree'
        BY <1>1, <1>2, <1>3, <1>6, <2>1 DEF FieldsAgree, At, Whole, Tasks, Making
    <2>4. KeysKnown'
        BY <1>1, <1>3, <1>4, <2>1 DEF Quiet, KeysKnown, At, Tasks
    <2> QED BY <2>2, <2>3, <2>4 DEF Quiet
<1> QED BY <1>2, <1>3, <1>5, <1>6, CleanupFields DEF Unsubscribe

LEMMA CloserCleansQuiet ==
    ASSUME Typed, Quiet, CloserCleans PROVE Quiet'
<1>1. /\ task["caller"].at = "idle" /\ task["closer"].at = "waiting" /\ task["recovery"].at = "idle"
      /\ ~closed /\ ~want
    BY DEF CloserCleans, ControlTasksEnded, Quiet, OneAtATime, Busy, At
<1>2. Whole \/ Halted
    BY <1>1 DEF Quiet, FieldsAgree, Tasks
<1>3. UNCHANGED <<want, lease, open, leases, alive, left, expired, closed, trouble>> /\ "closer" \in Tasks
    BY DEF CloserCleans, Tasks
<1>4. key' = 0
    BY DEF CloserCleans, BeginCleanup
<1>5. CASE key = 0 /\ Nothing' /\ Ended("closer")
    <2>1. /\ task'["closer"].at = "cleaned" /\ task'["caller"] = task["caller"]
          /\ task'["recovery"] = task["recovery"]
        BY <1>5 DEF Ended, Typed, Tasks, Task
    <2>2. OneAtATime'
        BY <1>1, <1>3, <1>5, <2>1 DEF OneAtATime, Busy, At, Making, Nothing
    <2>3. FieldsAgree'
        BY <1>1, <1>3, <1>5, <2>1 DEF FieldsAgree, At, Tasks, Making
    <2>4. KeysKnown'
        BY <1>1, <1>3, <1>4, <1>5, <2>1 DEF Quiet, KeysKnown, At, Tasks
    <2> QED BY <2>2, <2>3, <2>4 DEF Quiet
<1>6. CASE /\ key # 0 /\ Stopping' /\ stream' = stream /\ recorded' = recorded
           /\ task' = [task EXCEPT !["closer"] = [task["closer"] EXCEPT !.at = "stopping", !.arg = key]]
    <2>1. /\ task'["closer"].at = "stopping" /\ task'["closer"].arg = key
          /\ task'["caller"] = task["caller"] /\ task'["recovery"] = task["recovery"]
        BY <1>6 DEF Typed, Tasks, Task
    <2>2. OneAtATime'
        BY <1>1, <1>3, <1>6, <2>1 DEF Quiet, OneAtATime, Busy, At, Making
    <2>3. FieldsAgree'
        BY <1>1, <1>3, <1>6, <2>1 DEF FieldsAgree, At, Tasks, Making
    <2>4. KeysKnown'
        BY <1>1, <1>3, <1>4, <2>1 DEF Quiet, KeysKnown, At, Tasks
    <2> QED BY <2>2, <2>3, <2>4 DEF Quiet
<1>7. CASE Halted
    <2>1. /\ key' = 0 /\ stream' = 0 /\ keepalive' = 0 /\ loops' = {} /\ recorded' = recorded
          /\ task' = [task EXCEPT !["closer"] = [task["closer"] EXCEPT !.at = "closing", !.arg = stream]]
        BY <1>7 DEF CloserCleans, BeginCleanup, CancelKeepalive, CloseStream, Halted, Stopping
    <2>2. /\ task'["closer"].at = "closing" /\ task'["closer"].arg = stream
          /\ task'["caller"] = task["caller"] /\ task'["recovery"] = task["recovery"]
        BY <2>1 DEF Typed, Tasks, Task
    <2>3. OneAtATime'
        BY <1>1, <1>3, <2>1, <2>2 DEF OneAtATime, Busy, At, Making
    <2>4. FieldsAgree'
        BY <1>1, <1>3, <1>7, <2>1, <2>2 DEF FieldsAgree, At, Halted, Stopping, Tasks, Making
    <2>5. KeysKnown'
        BY <1>1, <1>3, <1>7, <2>1, <2>2 DEF Quiet, KeysKnown, At, Tasks, Halted, Stopping
    <2> QED BY <2>3, <2>4, <2>5 DEF Quiet
<1>8. CASE Whole
    <2>1. \/ key = 0 /\ Nothing' /\ Ended("closer")
          \/ /\ key # 0 /\ Stopping' /\ stream' = stream /\ recorded' = recorded
             /\ task' = [task EXCEPT !["closer"] = [task["closer"] EXCEPT !.at = "stopping", !.arg = key]]
        BY <1>3, <1>8, CleanupFields DEF CloserCleans, Whole
    <2> QED BY <1>5, <1>6, <2>1
<1> QED BY <1>2, <1>7, <1>8

\* A task that makes a stream has nobody beside it but a close() that waits.
LEMMA MakingAlone ==
    ASSUME Typed, Quiet, NEW t \in Tasks, task[t].at \in Making
    PROVE  /\ Nothing /\ ~closed /\ alive \subseteq 1..made
           /\ \/ t = "caller" /\ task["recovery"].at = "idle" /\ task["closer"].at = "idle"
              \/ t = "recovery" /\ task["caller"].at = "idle" /\ task["closer"].at \in {"idle", "waiting"}
                 /\ recorded
<1>1. Nothing /\ alive \subseteq 1..made
    BY DEF Quiet, FieldsAgree, Typed
<1>2. t # "closer"
    BY DEF Quiet, OneAtATime, Making
<1>3. CASE t = "caller"
    BY <1>1, <1>3, Zenon DEF Quiet, OneAtATime, Busy, At, Making, Typed, Task, Tasks
<1>4. CASE t = "recovery"
    BY <1>1, <1>4 DEF Quiet, OneAtATime, Busy, At, Making
<1> QED BY <1>2, <1>3, <1>4 DEF Tasks

LEMMA ServeStartQuiet ==
    ASSUME Typed, Quiet, NEW t \in Tasks, ServeStart(t) PROVE Quiet'
<1>1. task[t].at = "starting"
    BY DEF ServeStart, At
<1>2. /\ Nothing /\ ~closed /\ alive \subseteq 1..made
      /\ \/ t = "caller" /\ task["recovery"].at = "idle" /\ task["closer"].at = "idle"
         \/ t = "recovery" /\ task["caller"].at = "idle" /\ task["closer"].at \in {"idle", "waiting"}
            /\ recorded
    BY <1>1, MakingAlone DEF Making
<1>3. /\ UNCHANGED <<key, stream, lease, keepalive, open, leases, loops, expired, closed, want, recorded, known>>
      /\ expired = {} /\ Nothing'
    BY <1>2 DEF ServeStart, fieldVars, flagVars, Nothing, Typed
<1>4. /\ task'[t].at \in {"started", "failed"}
      /\ task'[t].at = "started" => task'[t].arg = made + 1
      /\ \A x \in Tasks : x # t => task'[x] = task[x]
    <2>1. task[t] \in Task /\ task \in [Tasks -> Task]
        BY DEF Typed
    <2>2. \/ task' = [task EXCEPT ![t] = [task[t] EXCEPT !.at = "started", !.arg = made + 1]]
          \/ task' = [task EXCEPT ![t] = [task[t] EXCEPT !.at = "failed"]]
        BY <2>1 DEF ServeStart, Go
    <2>3. CASE task' = [task EXCEPT ![t] = [task[t] EXCEPT !.at = "started", !.arg = made + 1]]
        BY <2>1, <2>3 DEF Task
    <2>4. CASE task' = [task EXCEPT ![t] = [task[t] EXCEPT !.at = "failed"]]
        BY <2>1, <2>4 DEF Task
    <2> QED BY <2>2, <2>3, <2>4
<1>5. OneAtATime'
    BY <1>1, <1>2, <1>3, <1>4 DEF Quiet, OneAtATime, Busy, At, Making, Tasks
<1>6. FieldsAgree'
    <2>1. made + 1 # 0
        BY DEF Typed
    <2> QED BY <1>1, <1>2, <1>3, <1>4, <2>1 DEF FieldsAgree, At, Making, Tasks
<1>7. KeysKnown'
    <2>1. \/ /\ alive' = alive \cup {made + 1} /\ task'[t].at = "started"
             /\ task'[t].arg = made + 1 /\ left' = left
          \/ alive' = alive \cup {made + 1} /\ left' = left \cup {made + 1}
          \/ alive' = alive /\ left' = left
        <3>1. \/ /\ alive' = alive \cup {made + 1} /\ left' = left
                 /\ task' = [task EXCEPT ![t] = [task[t] EXCEPT !.at = "started", !.arg = made + 1]]
              \/ alive' = alive \cup {made + 1} /\ left' = left \cup {made + 1}
              \/ alive' = alive /\ left' = left
            BY DEF ServeStart
        <3>2. task \in [Tasks -> Task]
            BY DEF Typed
        <3> QED BY <3>1, <3>2 DEF Task
    <2>2. \A x \in Tasks : task[x].at \notin {"called", "started", "stopping", "undoing"}
        BY <1>1, <1>2 DEF Tasks
    <2>3. ~At("recovery", "called")'
        BY <1>4, <2>2 DEF At, Tasks
    <2> QED BY <1>3, <2>1, <2>2, <2>3 DEF Quiet, KeysKnown
<1> QED BY <1>5, <1>6, <1>7 DEF Quiet

LEMMA InstallQuiet ==
    ASSUME Typed, Quiet, NEW t \in Tasks, Install(t) PROVE Quiet'
<1>1. task[t].at = "started"
    BY DEF Install, At
<1>2. /\ Nothing /\ ~closed /\ alive \subseteq 1..made
      /\ \/ t = "caller" /\ task["recovery"].at = "idle" /\ task["closer"].at = "idle"
         \/ t = "recovery" /\ task["caller"].at = "idle" /\ task["closer"].at \in {"idle", "waiting"}
            /\ recorded
    BY <1>1, MakingAlone DEF Making
<1> DEFINE k == task[t].arg
<1>3. /\ k # 0 /\ expired = {} /\ UNCHANGED <<alive, left, expired, trouble, closed, want>>
    BY <1>1, <1>2 DEF Quiet, FieldsAgree, Nothing, Typed, Install
<1>4. /\ key' = k /\ stream' = k /\ lease' = k /\ keepalive' = k
      /\ open' = {k} /\ leases' = {k} /\ loops' = {k}
    BY <1>2 DEF Install, Nothing
<1>5. /\ task'[t] = Idle /\ \A x \in Tasks : x # t => task'[x] = task[x]
    BY DEF Install, Typed
<1>6. recorded'
    BY <1>2 DEF Install
<1>7. OneAtATime'
    BY <1>1, <1>2, <1>3, <1>5, <1>6 DEF Quiet, OneAtATime, Busy, At, Making, Tasks, Idle
<1>8. FieldsAgree'
    BY <1>2, <1>3, <1>4, <1>5 DEF FieldsAgree, At, Making, Tasks, Idle, Whole
<1>9. KeysKnown'
    <2>1. \A x \in Tasks \ {t} : task[x].at \notin {"called", "started", "stopping", "undoing"}
        BY <1>2 DEF Tasks
    <2>2. \A q \in alive \ left : q = k
        <3>1. \A q \in alive : q # 0
            BY <1>2 DEF Typed
        <3> QED BY <1>2, <2>1, <3>1 DEF Quiet, KeysKnown, Nothing
    <2>3. ~At("recovery", "called")'
        BY <1>5, <2>1 DEF At, Tasks, Idle
    <2> QED BY <1>3, <1>4, <2>2, <2>3 DEF KeysKnown
<1> QED BY <1>7, <1>8, <1>9 DEF Quiet

LEMMA InstallFailsQuiet ==
    ASSUME Typed, Quiet, NEW t \in Tasks, InstallFails(t) PROVE Quiet'
<1>1. task[t].at = "started"
    BY DEF InstallFails, At
<1>2. /\ Nothing /\ ~closed /\ alive \subseteq 1..made
      /\ \/ t = "caller" /\ task["recovery"].at = "idle" /\ task["closer"].at = "idle"
         \/ t = "recovery" /\ task["caller"].at = "idle" /\ task["closer"].at \in {"idle", "waiting"}
            /\ recorded
    BY <1>1, MakingAlone DEF Making
<1>3. /\ UNCHANGED <<alive, left, expired, trouble, closed, want, recorded, known>> /\ Nothing' /\ key' = key
    BY <1>2 DEF InstallFails, Nothing, flagVars, worldVars
<1>4. /\ task'[t].at = "undoing" /\ task'[t].arg = task[t].arg
      /\ \A x \in Tasks : x # t => task'[x] = task[x]
    BY DEF InstallFails, Go, Typed, Task
<1>5. OneAtATime'
    BY <1>1, <1>2, <1>3, <1>4 DEF Quiet, OneAtATime, Busy, At, Making, Tasks, Nothing
<1>6. FieldsAgree'
    BY <1>1, <1>2, <1>3, <1>4 DEF Quiet, FieldsAgree, At, Making, Tasks
<1>7. KeysKnown'
    <2>1. ~At("recovery", "called")'
        BY <1>2, <1>4 DEF At, Tasks
    <2> QED BY <1>1, <1>3, <1>4, <2>1 DEF Quiet, KeysKnown
<1> QED BY <1>5, <1>6, <1>7 DEF Quiet

\* A task that stops its key before it closes its stream has nobody beside it.
LEMMA CleaningAlone ==
    ASSUME Typed, Quiet, NEW t \in Tasks, task[t].at = "stopping" \/ (task[t].at = "closing" /\ t # "recovery")
    PROVE  /\ t \in {"caller", "closer"} /\ ~want /\ ~closed /\ alive \subseteq 1..made
           /\ \A x \in Tasks : x # t => task[x].at = "idle"
<1>1. t \in {"caller", "closer"}
    BY DEF Tasks, Quiet, OneAtATime
<1>2. CASE t = "caller"
    BY <1>2 DEF Quiet, OneAtATime, Busy, At, Typed, Tasks
<1>3. CASE t = "closer"
    BY <1>3 DEF Quiet, OneAtATime, Busy, At, Typed, Tasks
<1> QED BY <1>1, <1>2, <1>3

\* When the cleanup is over no task is at work but a close() about to return.
LEMMA EndedQuiet ==
    ASSUME Typed, NEW t \in {"caller", "closer"}, \A x \in Tasks : x # t => task[x].at = "idle",
           Ended(t), Nothing', ~want', ~closed', alive \subseteq 1..made,
           expired' \subseteq open',
           alive' \subseteq left'
    PROVE  Quiet'
<1>1. /\ task'[t].at \in {"idle", "cleaned"} /\ (task'[t].at = "cleaned" <=> t = "closer")
      /\ \A x \in Tasks : x # t => task'[x] = task[x]
    BY DEF Ended, Typed, Tasks, Task, Idle
<1>2. OneAtATime'
    BY <1>1 DEF OneAtATime, Busy, At, Making, Tasks, Nothing
<1>3. FieldsAgree'
    BY <1>1 DEF FieldsAgree, At, Making, Tasks, Whole, Nothing
<1>4. KeysKnown'
    BY <1>1 DEF KeysKnown, At, Tasks, Nothing
<1> QED BY <1>2, <1>3, <1>4 DEF Quiet

LEMMA ServeStopQuiet ==
    ASSUME Typed, Quiet, NEW t \in Tasks, ServeStop(t) PROVE Quiet'
<1>1. /\ UNCHANGED <<want, key, lease, keepalive, open, leases, loops, expired, closed>>
      /\ alive' \subseteq alive
      /\ alive' \ left' \subseteq (alive \ left) \ {task[t].arg}
    BY DEF ServeStop
<1>2. CASE At(t, "undoing")
    <2>1. task[t].at = "undoing"
        BY <1>2 DEF At
    <2>2. /\ Nothing /\ ~closed /\ alive \subseteq 1..made
          /\ \/ t = "caller" /\ task["recovery"].at = "idle" /\ task["closer"].at = "idle"
             \/ t = "recovery" /\ task["caller"].at = "idle" /\ task["closer"].at \in {"idle", "waiting"}
                /\ recorded
        BY <2>1, MakingAlone DEF Making
    <2>3. /\ task'[t].at = "failed"
          /\ \A x \in Tasks : x # t => task'[x] = task[x]
          /\ recorded' = recorded /\ Nothing'
        BY <1>1, <1>2, <2>2 DEF ServeStop, Go, Typed, Task, Nothing
    <2>4. OneAtATime'
        BY <1>1, <2>1, <2>2, <2>3 DEF Quiet, OneAtATime, Busy, At, Making, Tasks, Nothing
    <2>5. FieldsAgree'
        BY <1>1, <2>1, <2>2, <2>3 DEF FieldsAgree, At, Making, Tasks
    <2>6. KeysKnown'
        <3>1. ~At("recovery", "called")'
            BY <2>2, <2>3 DEF At, Tasks
        <3>2. \A x \in Tasks \ {t} : task[x].at \notin {"started", "stopping", "undoing"}
            BY <2>2 DEF Tasks
        <3>3. alive' \subseteq left'
            BY <1>1, <2>2, <3>2 DEF Quiet, KeysKnown, Nothing
        <3> QED BY <1>1, <3>1, <3>3 DEF Quiet, KeysKnown
    <2> QED BY <2>4, <2>5, <2>6 DEF Quiet
<1>3. CASE ~At(t, "undoing")
    <2>1. task[t].at = "stopping" /\ CloseStream(t)
        BY <1>3 DEF ServeStop, At
    <2>2. /\ t \in {"caller", "closer"} /\ ~want /\ ~closed /\ alive \subseteq 1..made
          /\ \A x \in Tasks : x # t => task[x].at = "idle"
        BY <2>1, CleaningAlone
    <2>3. Stopping /\ stream' = 0
        BY <2>1 DEF Quiet, FieldsAgree, At, CloseStream
    <2>4. alive' \subseteq left'
        BY <1>1, <2>2, <2>3 DEF Quiet, KeysKnown, Stopping
    <2>5. CASE stream = 0
        <3>1. Nothing' /\ Ended(t)
            BY <1>1, <2>1, <2>3, <2>5 DEF CloseStream, Stopping, Nothing
        <3> QED BY <1>1, <2>2, <2>4, <3>1, EndedQuiet DEF Typed
    <2>6. CASE stream # 0
        <3>1. /\ task'[t].at = "closing" /\ task'[t].arg = stream /\ recorded' = recorded
              /\ \A x \in Tasks : x # t => task'[x] = task[x]
            <4>1. task[t] \in Task /\ task \in [Tasks -> Task]
                BY DEF Typed
            <4>2. /\ task' = [task EXCEPT ![t] = [task[t] EXCEPT !.at = "closing", !.arg = stream]]
                  /\ recorded' = recorded
                BY <2>1, <2>6 DEF CloseStream
            <4> QED BY <4>1, <4>2 DEF Task
        <3>2. OneAtATime'
            BY <1>1, <2>1, <2>2, <2>3, <3>1 DEF OneAtATime, Busy, At, Making, Tasks, Nothing
        <3>3. FieldsAgree'
            BY <1>1, <2>2, <2>3, <2>6, <3>1 DEF FieldsAgree, At, Making, Tasks, Stopping
        <3>4. KeysKnown'
            BY <1>1, <2>2, <2>4, <3>1 DEF Quiet, KeysKnown, At, Tasks
        <3> QED BY <3>2, <3>3, <3>4 DEF Quiet
    <2> QED BY <2>5, <2>6
<1> QED BY <1>2, <1>3

LEMMA StreamClosedQuiet ==
    ASSUME Typed, Quiet, NEW t \in Tasks, StreamClosed(t) PROVE Quiet'
<1>1. /\ task[t].at = "closing" /\ UNCHANGED <<want, key, stream, keepalive, loops, alive, left, closed, trouble>>
      /\ open' = open \ {task[t].arg} /\ expired' \subseteq open' /\ expired' \subseteq expired
    BY DEF StreamClosed, At, WithoutEventsOf, Typed
<1>2. CASE t = "recovery"
    <2>1. /\ key = 0 /\ stream = 0 /\ lease = 0 /\ keepalive = 0 /\ loops = {}
          /\ task[t].lease = task[t].arg /\ open = {task[t].arg} /\ leases = open
        BY <1>1, <1>2 DEF Quiet, FieldsAgree, At
    <2>2. /\ ~closed /\ recorded /\ task["caller"].at = "idle" /\ task["closer"].at \in {"idle", "waiting"}
        BY <1>1, <1>2 DEF Quiet, OneAtATime, Busy, At
    <2>3. /\ task'[t].at = "starting"
          /\ \A x \in Tasks : x # t => task'[x] = task[x]
          /\ recorded' = recorded /\ lease' = lease
        BY <1>2, <2>1 DEF StreamClosed, Running, Typed, Idle
    <2>4. Nothing'
        BY <1>1, <1>2, <2>1, <2>3 DEF StreamClosed, Nothing
    <2>5. OneAtATime'
        BY <1>1, <1>2, <2>2, <2>3 DEF Quiet, OneAtATime, Busy, At, Making, Tasks
    <2>6. FieldsAgree'
        BY <1>1, <1>2, <2>2, <2>3, <2>4 DEF FieldsAgree, At, Making, Tasks
    <2>7. KeysKnown'
        BY <1>1, <1>2, <2>2, <2>3 DEF Quiet, KeysKnown, At, Tasks
    <2> QED BY <2>5, <2>6, <2>7 DEF Quiet
<1>3. CASE t # "recovery"
    <2>1. /\ t \in {"caller", "closer"} /\ ~want /\ ~closed /\ alive \subseteq 1..made
          /\ \A x \in Tasks : x # t => task[x].at = "idle"
        BY <1>1, <1>3, CleaningAlone
    <2>2. /\ key = 0 /\ stream = 0 /\ keepalive = 0 /\ loops = {} /\ lease = task[t].arg
          /\ open = {lease} /\ leases = {lease}
        BY <1>1, <2>1 DEF Quiet, FieldsAgree, At
    <2>3. Nothing' /\ Ended(t)
        BY <1>1, <1>3, <2>2 DEF StreamClosed, Nothing
    <2>4. alive' \subseteq left'
        BY <1>1, <2>1, <2>2 DEF Quiet, KeysKnown
    <2> QED BY <1>1, <2>1, <2>3, <2>4, EndedQuiet
<1> QED BY <1>2, <1>3

-----------------------------------------------------------------------------
(* The theorems *)

\* Once raced, always raced.
LEMMA RacedForGood ==
    ASSUME Typed, [Next]_vars, Unraced' PROVE Unraced
<1>1. trouble \subseteq trouble'
    BY DEF Next, Progress, Unforced, vars, ServeStart, Install, ServeStop, StreamClosed, LoopEnds,
       HandleExpired, CallFails, Recover, RecoverFails, CloserCleans, CloseReturns, Subscribe,
       Unsubscribe, CancelCall, Close, InstallFails, Expire, Note
<1> QED BY <1>1 DEF Unraced

LEMMA QuietPreserved ==
    ASSUME Typed, Quiet, [Next]_vars, Unraced' PROVE Quiet'
<1>1. CASE UNCHANGED vars
    BY <1>1 DEF vars, flagVars, fieldVars, worldVars, boundVars, Quiet, OneAtATime, FieldsAgree,
       KeysKnown, Whole, Nothing, Stopping, Halted, Busy, At
<1>2. CASE Progress
    BY <1>2, ServeStartQuiet, InstallQuiet, ServeStopQuiet, StreamClosedQuiet, LoopEndsQuiet,
       HandleExpiredQuiet, CallFailsQuiet, RecoverQuiet, RecoverFailsQuiet, CloserCleansQuiet,
       CloseReturnsQuiet DEF Progress
<1>4. CASE Unforced
    BY <1>4, SubscribeQuiet, UnsubscribeQuiet, CancelCallQuiet, CloseQuiet, InstallFailsQuiet, ExpireQuiet
       DEF Unforced
<1> QED BY <1>1, <1>2, <1>4 DEF Next

LEMMA InitQuiet == Init => Received /\ Quiet
BY DEF Init, Received, Quiet, OneAtATime, FieldsAgree, KeysKnown, Whole, Nothing, Stopping, Busy, At,
   Idle, Tasks, Making

LEMMA IndInv == Spec => []IInv
<1>1. Init => IInv
    BY InitTyped, InitQuiet DEF IInv
<1>2. IInv /\ [Next]_vars => IInv'
    <2> SUFFICES ASSUME IInv, [Next]_vars PROVE IInv'
        OBVIOUS
    <2>1. Typed
        BY TypeParts DEF IInv
    <2>2. Typed' /\ Received'
        BY <2>1, TypePreserved, ReceivedPreserved DEF IInv
    <2>3. Unraced' => Quiet'
        BY <2>1, RacedForGood, QuietPreserved DEF IInv
    <2> QED BY <2>2, <2>3, TypeParts DEF IInv
<1> QED BY <1>1, <1>2, PTL DEF Spec

\* The fields, the tasks and the server's side have their types, whatever is
\* cancelled, and whatever runs beside what.
THEOREM TypeCorrect == Spec => []TypeOK
<1>1. IInv => TypeOK
    BY DEF IInv
<1> QED BY <1>1, IndInv, PTL

LEMMA QuietNoOrphans == ASSUME Typed, Quiet PROVE NothingOrphaned
<1>1. \A t \in Tasks : task[t].at \in Places
    BY DEF Typed, Task
<1>2. CASE \E t \in Tasks : task[t].at \in Making \cup {"cleaned"}
    <2>1. Nothing
        BY <1>2 DEF Quiet, FieldsAgree
    <2> QED BY <2>1 DEF NothingOrphaned, Nothing
<1>3. CASE \E t \in Tasks : At(t, "stopping")
    <2>1. Stopping /\ ~closed
        BY <1>3 DEF Quiet, OneAtATime, FieldsAgree, Busy, At, Tasks
    <2> QED BY <2>1 DEF NothingOrphaned, Stopping
<1>4. CASE \E t \in {"caller", "closer"} : At(t, "closing")
    BY <1>4 DEF Quiet, OneAtATime, FieldsAgree, Busy, At, NothingOrphaned, Closing, Tasks
<1>5. CASE At("recovery", "closing")
    BY <1>5 DEF Quiet, OneAtATime, FieldsAgree, Busy, At, NothingOrphaned, Closing, Tasks
<1>6. CASE \A t \in Tasks : task[t].at \in {"idle", "waiting", "called"}
    <2>1. (Whole \/ Halted) /\ (closed => Nothing)
        BY <1>6 DEF Quiet, FieldsAgree
    <2> QED BY <2>1 DEF NothingOrphaned, Whole, Nothing, Halted, Stopping
<1> QED BY <1>1, <1>2, <1>3, <1>4, <1>5, <1>6 DEF Places, Making, At, Tasks

\* A stream, a lease or a keepalive task that the fields have lost is one that
\* some task is about to close, wherever a call is cancelled: _futures_recover
\* and _futures_cleanup take the fields before they await.  Said of histories in
\* which no unsubscribe() ran into a recovery and no close() into a call.
THEOREM NoOrphans == Spec => []NothingOrphaned
<1>1. IInv => NothingOrphaned
    BY QuietNoOrphans, TypeParts DEF IInv, NothingOrphaned
<1> QED BY <1>1, IndInv, PTL

\* With no task at work the fields tell of one stream, or of none, also when a
\* request failed half way through; a cancelled unsubscribe() leaves a stream
\* without its key.  Said of histories without the races that NoOrphans names.
THEOREM FieldsWhole == Spec => []WholeOrNothing
<1>1. IInv => WholeOrNothing
    BY DEF IInv, WholeOrNothing, Quiet, FieldsAgree, Settled, Busy, At, Whole, Halted, Stopping, Typed,
       TypeOK
<1> QED BY <1>1, IndInv, PTL

\* With no task at work the server holds no key of ours but that of the stream
\* and those that could not be stopped: a stop failed, or the task was cancelled,
\* or the answer lost, with the start or the stop of that very key on the wire.
\* Said of histories without the races that NoOrphans names.
THEOREM NoKeyLeft == Spec => []KeysStopped
<1>1. IInv => KeysStopped
    BY DEF IInv, KeysStopped, Quiet, KeysKnown, Settled, Busy, At
<1> QED BY <1>1, IndInv, PTL
=============================================================================
