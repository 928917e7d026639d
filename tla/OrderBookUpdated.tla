--------------------------- MODULE OrderBookUpdated ---------------------------
(***************************************************************************)
(* OrderBook together with updated(): the future its callers share, and    *)
(* how the worker threads and the fetch task resolve it.                   *)
(***************************************************************************)
EXTENDS OrderBook

CONSTANTS
    Waiters,     \* tasks of the user that call updated()
    MaxCancels   \* bound: waits cut short by their caller (wait_for, cancel)

ASSUME OrderBookUpdatedAssumption == MaxCancels \in Nat

VARIABLES
    future,    \* the cached future: "pending", or "cancelled" through a waiter
    calls,     \* resolutions scheduled with call_soon_threadsafe
    emitting,  \* what _fetch is about to report: "none", "ok" or "exc"
    waiters,   \* the state of each call of updated()
    cancels    \* waits cut short so far

notifyVars == <<future, calls, emitting, waiters, cancels>>
allVars == <<vars, notifyVars>>

InitUpdated ==
    /\ Init
    /\ future = "pending"
    /\ calls = 0
    /\ emitting = "none"
    /\ waiters = [w \in Waiters |-> "idle"]
    /\ cancels = 0

\* _fetch runs from the end of the fetch to its report without an await: no
\* other step of the event loop comes in between, a worker thread may.
LoopFree == emitting = "none"

Waiting == {w \in Waiters : waiters[w] = "waiting"}

WakeAll(state) == waiters' = [w \in Waiters |-> IF w \in Waiting THEN state ELSE waiters[w]]

\* _emit_updated_in_loop: resolves the future and puts a fresh one in its
\* place; on a cancelled future set_result raises before the swap.
ResolveFuture(outcome) ==
    \/ /\ future = "pending"
       /\ WakeAll(IF outcome = "ok" THEN "updated" ELSE "raised")
       /\ UNCHANGED future
    \/ /\ future = "cancelled"
       /\ UNCHANGED <<future, waiters>>

\* A merge outside of a fetch schedules a resolution from its worker thread.
Merges(d) == ~fetching /\ ~Stale(d) /\ Fits(d)

UpdateEmits(d) ==
    /\ Update(d)
    /\ calls' = IF Merges(d) THEN calls + 1 ELSE calls
    /\ UNCHANGED <<future, emitting, waiters, cancels>>

RunCall ==
    /\ LoopFree
    /\ calls > 0
    /\ calls' = calls - 1
    /\ ResolveFuture("ok")
    /\ UNCHANGED <<vars, emitting, cancels>>

\* Mutant: the exception of an abandoned fetch is not reported as one.
FinishFetchReportsOk ==
    /\ LoopFree
    /\ FinishFetch
    /\ emitting' = "ok"
    /\ UNCHANGED <<future, calls, waiters, cancels>>

FinishFetchReports ==
    /\ LoopFree
    /\ FinishFetch
    /\ emitting' = IF task = "installed" THEN "ok" ELSE "exc"
    /\ UNCHANGED <<future, calls, waiters, cancels>>

\* Mutant: the end of a fetch is not reported.
EmitNothing ==
    /\ ~LoopFree
    /\ emitting' = "none"
    /\ UNCHANGED <<vars, calls, cancels, future, waiters>>

\* _emit_updated at the end of _fetch: silent if a new fetch has started.
EmitAfterFetch ==
    /\ ~LoopFree
    /\ emitting' = "none"
    /\ IF fetching THEN UNCHANGED <<future, waiters>> ELSE ResolveFuture(emitting)
    /\ UNCHANGED <<vars, calls, cancels>>

\* A task calls updated(); awaiting a cancelled future raises at once.
Await(w) ==
    /\ LoopFree
    /\ waiters[w] = "idle"
    /\ waiters' = [waiters EXCEPT ![w] = IF future = "pending" THEN "waiting" ELSE "cancelled"]
    /\ UNCHANGED <<vars, future, calls, emitting, cancels>>

\* Cancelling one task that awaits the future cancels the future of them all.
CancelWaiter(w) ==
    /\ LoopFree
    /\ waiters[w] = "waiting"
    /\ cancels < MaxCancels
    /\ cancels' = cancels + 1
    /\ future' = "cancelled"
    /\ WakeAll("cancelled")
    /\ UNCHANGED <<vars, calls, emitting>>

\* The steps of the book that neither report nor merge.
Quiet ==
    /\ \/ Exchange \/ StartFetching
       \/ ServeSnapshot \/ RequestFails
       \/ InstallTooOld \/ Install \/ Replay \/ ReplayFails
       \/ LoopFree /\ (Dispatch \/ ManualFetch \/ CancelFetch \/ RequestSnapshot)
    /\ UNCHANGED notifyVars

NextUpdated ==
    \/ Quiet
    \/ \E d \in racing : UpdateEmits(d)
    \/ FinishFetchReports \/ EmitAfterFetch \/ RunCall
    \/ \E w \in Waiters : Await(w) \/ CancelWaiter(w)

\* As Fairness of OrderBook, with the steps that report.
FairnessUpdated ==
    /\ WF_allVars(Publish /\ UNCHANGED notifyVars)
    /\ WF_allVars(LoopFree /\ Dispatch /\ UNCHANGED notifyVars)
    /\ WF_allVars(\E d \in racing : UpdateEmits(d))
    /\ WF_allVars(StartFetching /\ UNCHANGED notifyVars)
    /\ WF_allVars(LoopFree /\ RequestSnapshot /\ UNCHANGED notifyVars)
    /\ WF_allVars((ServeSnapshot \/ RequestFails) /\ UNCHANGED notifyVars)
    /\ WF_allVars((InstallTooOld \/ Install \/ Replay \/ ReplayFails) /\ UNCHANGED notifyVars)
    /\ WF_allVars(FinishFetchReports)
    /\ WF_allVars(EmitAfterFetch)
    /\ WF_allVars(RunCall)

SpecUpdated == InitUpdated /\ [][NextUpdated]_allVars
FairSpecUpdated == SpecUpdated /\ FairnessUpdated

-----------------------------------------------------------------------------
(* Properties *)

\* "if not orderbook.ready: await orderbook.updated()": when that wait returns,
\* the book has been installed, although the notification travels from a worker
\* thread or from the fetch task while other fetches start and fail.
UpdatedMeansInstalled ==
    (\E w \in Waiters : waiters[w] = "updated") => lastId # 0

\* A task that waits while a fetch is under way is notified in the end, although
\* a report is dropped when the next fetch starts before it; only a cancelled fetch,
\* which leaves the book deserted, keeps it waiting.
WaiterIsNotified ==
    \A w \in Waiters :
        (waiters[w] = "waiting" /\ fetching) ~> (waiters[w] # "waiting" \/ Deserted)

=============================================================================
