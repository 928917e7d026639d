------------------------------ MODULE OrderBook ------------------------------
(***************************************************************************)
(* A locally maintained order book (binance.core.orderbook.OrderBook), fed *)
(* by the depth diff stream through OrderBookHandlerBase and by snapshots  *)
(* through client.get_orderbook.  The exchange is external: it numbers its *)
(* updates, publishes aggregated diffs and serves snapshots.               *)
(*                                                                         *)
(* A ladder (asks and bids together) maps each price level to the number   *)
(* of the update that last wrote it, so two ladders are equal exactly when *)
(* every level holds the same quantity of the same age; a removal is a     *)
(* write like any other: with the strings of a payload it leaves the level *)
(* in the list, at '0.00' (SequencedList).  0 stands for "never written".  *)
(*                                                                         *)
(* What runs where: the fetch task and the dispatcher run on the event     *)
(* loop; OrderBook.update and _install_snapshot run in worker threads and  *)
(* exclude each other by _state_lock.  Each critical section is one        *)
(* action, except the replay of the buffer, which takes one step per diff  *)
(* with the lock held.                                                     *)
(***************************************************************************)
EXTENDS Integers, Sequences, FiniteSets

CONSTANTS
    Levels,        \* price levels
    Chained,       \* TRUE: FuturesOrderBook, FALSE: SpotOrderBook
    MayAbandon,    \* TRUE: the retry policy may give up a fetch
    Workers,       \* diffs the dispatcher may handle at the same time
    QueueLimit,    \* OrderBookBufferPolicy.max_pending_updates
    Lag,           \* how many updates a served snapshot may be behind
    MaxId,         \* bound: updates made by the exchange
    MaxLosses,     \* bound: disconnections that lose published diffs
    MaxFailures,   \* bound: snapshot requests that fail
    MaxManual,     \* bound: calls of OrderBook.fetch by the user
    MaxDeserted    \* bound: fetches whose task is cancelled

ASSUME OrderBookAssumption ==
    /\ Levels # {}
    /\ Chained \in BOOLEAN
    /\ MayAbandon \in BOOLEAN
    /\ Workers \in Nat \ {0}
    /\ QueueLimit \in Nat \ {0}
    /\ MaxId \in Nat \ {0}
    /\ {Lag, MaxLosses, MaxFailures, MaxManual, MaxDeserted} \subseteq Nat

VARIABLES
    venue,      \* venue[n]: the exchange's ladder after update n
    lastSent,   \* u of the last diff published
    wire,       \* diffs received and not yet picked up, in stream order
    racing,     \* diffs picked up by dispatcher workers, before the book lock
    ladder,     \* asks and bids
    lastId,     \* _last_update_id
    postFirst,  \* _post_snapshot_first (FuturesOrderBook only)
    queue,      \* _unsolved_queue
    fetching,   \* _fetching
    task,       \* where the fetch task is
    caller,     \* what awaits it: "book" (a task of its own), "user", or "gone"
    snapId,     \* lastUpdateId of the last snapshot served
    replayed,   \* number of buffered diffs replayed by the running install
    updater,    \* "gap": update() found a gap and has left the lock
    budget      \* what is left of the bounds on losses, failures, fetches, cancellations

exchangeVars == <<venue, lastSent>>
bookVars == <<ladder, lastId, postFirst>>
fetchVars == <<fetching, task, caller, snapId, replayed>>
vars == <<exchangeVars, wire, racing, bookVars, queue, fetchVars, updater, budget>>

Ladder == [Levels -> 0..MaxId]
EmptyLadder == [l \in Levels |-> 0]

(***************************************************************************)
(* A depth diff: it covers the updates U..u, pu is the u of the diff       *)
(* published before it, and chg gives the levels written by U..u with      *)
(* their value at u (0: the level is not in the diff).                     *)
(***************************************************************************)
Diff == [U : Nat, u : Nat, pu : Nat, chg : Ladder]

DiffUpTo(n, prev) ==
    [U |-> prev + 1, u |-> n, pu |-> prev,
     chg |-> [l \in Levels |-> IF venue[n][l] > prev THEN venue[n][l] ELSE 0]]

\* What is bounded.
Bounded == {"loss", "failure", "manual", "cancel"}

\* No fetch task; a task not started yet; one awaiting the snapshot; one that
\* has got it; one replaying the buffer under the lock; one waiting to retry;
\* one back in _fetch after success or after giving up.
TaskStates == {"none", "start", "waiting", "served", "replay", "retry",
               "installed", "abandoned"}

Init ==
    /\ venue = <<[l \in Levels |-> 1]>>
    /\ lastSent = 1
    /\ wire = <<>>
    /\ racing = {}
    /\ ladder = EmptyLadder
    /\ lastId = 0
    /\ postFirst = Chained
    /\ queue = <<>>
    /\ fetching = TRUE      \* the handler's set_client has started a fetch
    /\ task = "start"
    /\ caller = "book"
    /\ snapId = 0
    /\ replayed = 0
    /\ updater = "idle"
    /\ budget = [loss |-> MaxLosses, failure |-> MaxFailures,
                 manual |-> MaxManual,
                 cancel |-> MaxDeserted]

Spend(kind) ==
    /\ budget[kind] > 0
    /\ budget' = [budget EXCEPT ![kind] = @ - 1]

-----------------------------------------------------------------------------
(* The exchange and the stream, external to the book *)

\* The matching engine writes level l.
Change(l) ==
    /\ Len(venue) < MaxId
    /\ venue' = Append(venue, [venue[Len(venue)] EXCEPT ![l] = Len(venue) + 1])
    /\ UNCHANGED <<lastSent, wire, racing, bookVars, queue, fetchVars, updater, budget>>

\* The depth stream publishes what changed since the diff before.
Publish ==
    /\ lastSent < Len(venue)
    /\ wire' = Append(wire, DiffUpTo(Len(venue), lastSent))
    /\ lastSent' = Len(venue)
    /\ UNCHANGED <<venue, racing, bookVars, queue, fetchVars, updater, budget>>

\* The connection drops, or the event queue overflows: diffs are lost.
Disconnect ==
    /\ wire # <<>>
    /\ Spend("loss")
    /\ wire' = <<>>
    /\ UNCHANGED <<exchangeVars, racing, bookVars, queue, fetchVars, updater>>

\* A dispatcher worker takes the next event; from here to the book's lock
\* several workers race.
Dispatch ==
    /\ wire # <<>>
    /\ Cardinality(racing) < Workers
    /\ racing' = racing \union {Head(wire)}
    /\ wire' = Tail(wire)
    /\ UNCHANGED <<exchangeVars, bookVars, queue, fetchVars, updater, budget>>

-----------------------------------------------------------------------------
(* The sequence rules: _update of SpotOrderBook and of FuturesOrderBook *)

SpotStale(d) == d.u <= lastId
SpotFits(d) == d.U <= lastId + 1

FuturesStale(d) == d.u < lastId
\* Mutant: the pu chain is not checked.
FuturesFitsUnchained(d) == postFirst => d.U <= lastId /\ lastId <= d.u

FuturesFits(d) ==
    \/ postFirst /\ d.U <= lastId /\ lastId <= d.u
    \/ ~postFirst /\ d.pu = lastId

Stale(d) == IF Chained THEN FuturesStale(d) ELSE SpotStale(d)
Fits(d) == IF Chained THEN FuturesFits(d) ELSE SpotFits(d)

\* Mutants: the diff replaces the ladders; a level already there is kept.
MergedReplaces(d) == [l \in {k \in Levels : d.chg[k] # 0} |-> d.chg[l]]
MergedKeepsOld(d) == [l \in Levels |-> IF ladder[l] # 0 THEN ladder[l] ELSE d.chg[l]]

Merged(d) == [l \in Levels |-> IF d.chg[l] # 0 THEN d.chg[l] ELSE ladder[l]]

\* _update returned True: the diff was known already, or has been merged.
Accept(d) ==
    \/ Stale(d) /\ UNCHANGED bookVars
    \/ /\ ~Stale(d)
       /\ Fits(d)
       /\ lastId' = d.u
       /\ ladder' = Merged(d)
       /\ postFirst' = FALSE

\* _update returned False.
Rejects(d) == ~Stale(d) /\ ~Fits(d)

-----------------------------------------------------------------------------
(* OrderBook.update, called by receiveDispatch for one diff at a time *)

LockFree == task # "replay"

Buffered(q, d) ==
    LET all == Append(q, d)
    IN  SubSeq(all, IF Len(all) > QueueLimit THEN 1 + Len(all) - QueueLimit ELSE 1, Len(all))

\* The part of update() under _state_lock.
Update(d) ==
    /\ updater = "idle"
    /\ LockFree
    /\ racing' = racing \ {d}
    /\ \/ /\ fetching
          /\ queue' = Buffered(queue, d)
          /\ UNCHANGED <<bookVars, updater>>
       \/ /\ ~fetching
          /\ Accept(d)
          /\ UNCHANGED <<queue, updater>>
       \/ /\ ~fetching
          /\ Rejects(d)
          /\ updater' = "gap"
          /\ UNCHANGED <<bookVars, queue>>
    /\ UNCHANGED <<exchangeVars, wire, fetchVars, budget>>

NeverMark(by) == UNCHANGED <<fetching, task, caller>>

MarkFetchingStarted(by) ==
    IF fetching THEN UNCHANGED <<fetching, task, caller>>
                ELSE fetching' = TRUE /\ task' = "start" /\ caller' = by

\* update() goes on after the lock: _start_fetching.
StartFetching ==
    /\ updater = "gap"
    /\ LockFree
    /\ updater' = "idle"
    /\ MarkFetchingStarted("book")
    /\ UNCHANGED <<exchangeVars, wire, racing, bookVars, queue, snapId, replayed, budget>>

\* The user calls fetch(), which runs _fetch in the task of the call.
ManualFetch ==
    /\ LockFree
    /\ ~fetching
    /\ Spend("manual")
    /\ MarkFetchingStarted("user")
    /\ UNCHANGED <<exchangeVars, wire, racing, bookVars, queue, snapId, replayed, updater>>

-----------------------------------------------------------------------------
(* The fetch task: _fetch, _fetch_snapshot under @retry, _install_snapshot *)

\* An attempt, up to the await of get_orderbook.  FuturesOrderBook resets its
\* flag outside the retried coroutine, so only the first attempt does.
RequestSnapshot ==
    /\ task \in {"start", "retry"}
    /\ task' = "waiting"
    /\ postFirst' = IF task = "start" THEN Chained ELSE postFirst
    /\ UNCHANGED <<exchangeVars, wire, racing, ladder, lastId, queue, fetching,
                   caller, snapId, replayed, updater, budget>>

\* The exchange takes the snapshot; its answer may travel for a while.
ServeSnapshot ==
    /\ task = "waiting"
    /\ task' = "served"
    /\ snapId' \in {n \in 1..Len(venue) : n + Lag >= Len(venue)}
    /\ UNCHANGED <<exchangeVars, wire, racing, bookVars, queue, fetching, caller,
                   replayed, updater, budget>>

\* What comes after a step of the fetch: nothing any more, when the task that
\* would go on from it has been cancelled.
Then(states) == task' \in IF caller = "gone" THEN {"none"} ELSE states

\* What the retry policy makes of an exception of an attempt.
Raise == Then(IF MayAbandon THEN {"retry", "abandoned"} ELSE {"retry"})

RequestFails ==
    /\ task = "waiting"
    /\ Spend("failure")
    /\ Raise
    /\ UNCHANGED <<exchangeVars, wire, racing, bookVars, queue, fetching, caller,
                   snapId, replayed, updater>>

SnapshotTooOld == queue # <<>> /\ snapId < queue[1].U

\* SnapshotTooOldException: the buffer is dropped, the book stays.
InstallTooOld ==
    /\ task = "served"
    /\ SnapshotTooOld
    /\ queue' = <<>>
    /\ Raise
    /\ UNCHANGED <<exchangeVars, wire, racing, bookVars, fetching, caller, snapId,
                   replayed, updater, budget>>

\* The ladders are replaced by the snapshot.
Install ==
    /\ task = "served"
    /\ ~SnapshotTooOld
    /\ ladder' = venue[snapId]
    /\ lastId' = snapId
    /\ IF queue = <<>> THEN Then({"installed"}) ELSE task' = "replay"
    /\ UNCHANGED <<exchangeVars, wire, racing, postFirst, queue, fetching, caller,
                   snapId, replayed, updater, budget>>

\* The next buffered diff is accepted; after the last one the buffer is cleared.
Replay ==
    /\ task = "replay"
    /\ Accept(queue[replayed + 1])
    /\ IF replayed + 1 = Len(queue)
         THEN queue' = <<>> /\ Then({"installed"}) /\ replayed' = 0
         ELSE replayed' = replayed + 1 /\ UNCHANGED <<queue, task>>
    /\ UNCHANGED <<exchangeVars, wire, racing, fetching, caller, snapId, updater, budget>>

\* Mutant: a rejected diff ends the replay as if it had succeeded.
ReplayStopsShort ==
    /\ task = "replay"
    /\ Rejects(queue[replayed + 1])
    /\ queue' = <<>>
    /\ replayed' = 0
    /\ Then({"installed"})
    /\ UNCHANGED <<exchangeVars, wire, racing, bookVars, fetching, caller, snapId,
                   updater, budget>>

\* 'fails to merge': the diff and those before it are dropped.
ReplayFails ==
    /\ task = "replay"
    /\ Rejects(queue[replayed + 1])
    /\ queue' = SubSeq(queue, replayed + 2, Len(queue))
    /\ replayed' = 0
    /\ Raise
    /\ UNCHANGED <<exchangeVars, wire, racing, bookVars, fetching, caller, snapId,
                   updater, budget>>

\* The task that awaits the fetch is cancelled: the call of fetch(), at each of
\* its awaits; on Spot any fetch that waits for the connection to open, whose
\* future is cancelled with any other sender's.  CancelledError is no Exception,
\* so _fetch does not reset _fetching.  A thread that installs goes on without it.
CancelFetch ==
    /\ task \notin {"none", "start"}
    /\ \/ caller = "user"
       \/ caller = "book" /\ task = "waiting" /\ ~Chained
    /\ Spend("cancel")
    /\ \/ task # "replay" /\ task' = "none" /\ UNCHANGED caller
       \/ task \in {"served", "replay"} /\ caller' = "gone" /\ UNCHANGED task
    /\ UNCHANGED <<exchangeVars, wire, racing, bookVars, queue, fetching, snapId,
                   replayed, updater>>

\* _fetch goes on after _fetch_snapshot returned or gave up.
FinishFetch ==
    /\ task \in {"installed", "abandoned"}
    /\ fetching' = FALSE
    /\ task' = "none"
    /\ UNCHANGED <<exchangeVars, wire, racing, bookVars, queue, caller, snapId,
                   replayed, updater, budget>>

-----------------------------------------------------------------------------
Exchange == (\E l \in Levels : Change(l)) \/ Publish \/ Disconnect
Handle == Dispatch \/ (\E d \in racing : Update(d)) \/ StartFetching
Fetch ==
    \/ RequestSnapshot \/ ServeSnapshot \/ RequestFails
    \/ InstallTooOld \/ Install \/ Replay \/ ReplayFails \/ FinishFetch

Next == Exchange \/ Handle \/ ManualFetch \/ CancelFetch \/ Fetch

Spec == Init /\ [][Next]_vars

\* The event loop, the worker threads and the exchange's answers do not stop
\* for ever; what the engine, the user or a lost connection does is not forced.
Fairness ==
    /\ WF_vars(Publish)
    /\ WF_vars(Dispatch)
    /\ WF_vars(\E d \in racing : Update(d))
    /\ WF_vars(StartFetching)
    /\ WF_vars(RequestSnapshot)
    /\ WF_vars(ServeSnapshot \/ RequestFails)
    /\ WF_vars(InstallTooOld \/ Install \/ Replay \/ ReplayFails)
    /\ WF_vars(FinishFetch)

FairSpec == Spec /\ Fairness

-----------------------------------------------------------------------------
(* Properties *)

\* Every variable has its type.
TypeOK ==
    /\ venue \in Seq(Ladder)
    /\ lastSent \in Nat
    /\ wire \in Seq(Diff)
    /\ racing \subseteq Diff
    /\ ladder \in Ladder
    /\ lastId \in Nat
    /\ postFirst \in BOOLEAN
    /\ queue \in Seq(Diff)
    /\ fetching \in BOOLEAN
    /\ task \in TaskStates
    /\ caller \in {"book", "user", "gone"}
    /\ snapId \in Nat
    /\ replayed \in Nat
    /\ updater \in {"idle", "gap"}
    /\ budget \in [Bounded -> Nat]

\* OrderBook.ready.
Ready == ~fetching /\ lastId # 0

\* Once it has been installed the book never shows a mixture: its ladders are
\* those the exchange had after update _last_update_id, whatever diffs were
\* lost, buffered, dropped by the buffer policy, reordered or replayed.
BookMatchesVenue ==
    lastId # 0 => lastId \in 1..Len(venue) /\ ladder = venue[lastId]

\* A fetch was cancelled and left _fetching set, with no task to reset it.
Deserted == budget.cancel < MaxDeserted /\ fetching /\ task = "none"

\* _fetching is TRUE while a fetch task is on its way to reset it, and unless a
\* fetch was cancelled it is TRUE only then: nothing else leaves the book buffering
\* diffs for a snapshot nobody is fetching.
FetchingHasTask ==
    /\ task # "none" => fetching
    /\ fetching => task # "none" \/ Deserted

\* A deserted book stays as it is, whatever arrives and whoever calls fetch().
DesertedForever == [][Deserted => Deserted' /\ UNCHANGED bookVars]_vars

\* The book keeps the promise of LocalBook: what it shows, and how it moves.
Promise == INSTANCE LocalBook WITH
    Ladders <- Ladder, Nothing <- EmptyLadder,
    history <- venue, shown <- lastId, view <- ladder, live <- ~fetching
KeepsPromise == Promise!Spec

\* A book that is live (not fetching) only moves forward; it goes back in time
\* only through a snapshot, when it is not ready.
LiveBookOnlyAdvances ==
    [][~fetching /\ ~fetching' => lastId' >= lastId]_vars

\* A fetch that succeeds leaves the book at or after every diff it had buffered.
InstallCoversBuffer ==
    [][task' = "installed" /\ task # "installed"
         => \A i \in 1..Len(queue) : queue[i].u <= lastId']_vars

\* When the exchange falls silent and nothing was lost, the book ends up ready
\* and at the last published update, unless a diff was left in the buffer, or a
\* cancelled fetch has left the book deserted.
EventuallyCurrent ==
    \/ <>[](Ready /\ (lastId >= lastSent \/ queue # <<>>))
    \/ <>[]Deserted

=============================================================================
