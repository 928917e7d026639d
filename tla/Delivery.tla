------------------------------ MODULE Delivery ------------------------------
(***************************************************************************)
(* From the socket to the handlers: the bounded queue and the workers of    *)
(* StreamEventDispatcher, the overflow that replaces the dispatcher and     *)
(* recycles the connection (Stream._schedule_event_overflow_recycle), the   *)
(* per-symbol lock and worker thread of OrderBookHandlerBase.receiveDispatch*)
(* and Stream.close(), called from outside, from the on_message callback or *)
(* from a handler that HandlerDispatcher runs in a task of its own.         *)
(*                                                                          *)
(* Asyncio and websockets, as the code uses them: a cancelled task releases *)
(* its lock at once, a thread cannot be cancelled, a handler may clean up   *)
(* before it ends, and socket.close() returns with the loss of the socket.  *)
(***************************************************************************)
EXTENDS Naturals, FiniteSets, Sequences, SequencesExt

CONSTANTS
  Symbols,       \* symbols of the order book streams
  MaxMessages,   \* bound: messages the server sends
  MaxSockets,    \* bound: connections made
  QueueLimit,    \* StreamEventDispatcher max_queue_size
  Workers,       \* StreamEventDispatcher max_workers
  Callers        \* who may call close(): "client", "callback", "handler"

ASSUME DeliveryAssumption ==
  /\ {MaxMessages, MaxSockets, QueueLimit, Workers} \subseteq Nat \ {0}
  /\ Callers \subseteq {"client", "callback", "handler"}

Messages == 1 .. MaxMessages

VARIABLES
  where,     \* how far each message has come
  symbol,    \* its symbol
  link,      \* the connection that delivered it
  queue,     \* messages in the queue of _event_dispatcher
  stale,     \* messages of the dispatcher an overflow replaced, its queue in order
  old,       \* messages the replaced dispatcher was given
  line,      \* at the asyncio.Lock of its symbol: itself and those before it
  threads,   \* messages whose update() runs in a worker thread
  socket,    \* number of the connection in _socket
  up,        \* whether its receive loop runs
  paused,    \* _event_dispatch_paused
  overflow,  \* step of _event_overflow_task
  closing,   \* step of close()
  caller,    \* who called it
  from       \* the message whose callback or handler called it, or 0

vars == <<where, symbol, link, queue, stale, old, line, threads,
          socket, up, paused, overflow, closing, caller, from>>

message == <<symbol, link, old>>
connection == <<socket, up, paused>>
close == <<closing, caller, from>>

Busy == {"calling", "waiting", "updating", "receiving", "closing", "cancelling"}
Settled == {"done", "ended", "drained", "overflowed", "refused", "ignored"}

TypeOK ==
  /\ where \in [Messages -> Busy \cup Settled \cup {"new", "queued"}]
  /\ symbol \in [Messages -> Symbols]
  /\ link \in [Messages -> 0 .. MaxSockets]
  /\ queue \in Seq(Messages) /\ Len(queue) <= QueueLimit
  /\ stale \in Seq(Messages) /\ Len(stale) <= QueueLimit
  /\ old \subseteq Messages
  /\ line \in [Messages -> SUBSET Messages]
  /\ threads \subseteq Messages
  /\ socket \in 1 .. MaxSockets
  /\ up \in BOOLEAN /\ paused \in BOOLEAN
  /\ overflow \in {"none", "scheduled", "draining", "recycling", "orphaned"}
  /\ closing \in {"no", "called", "waiting", "closed"}
  /\ caller \in Callers \cup {"none"}
  /\ from \in Messages \cup {0}

Init ==
  /\ where = [m \in Messages |-> "new"]
  /\ symbol \in [Messages -> Symbols]
  /\ link = [m \in Messages |-> 0]
  /\ queue = << >> /\ stale = << >> /\ old = {}
  /\ line = [m \in Messages |-> {}]
  /\ threads = {}
  /\ socket = 1 /\ up = TRUE /\ paused = FALSE
  /\ overflow = "none"
  /\ closing = "no" /\ caller = "none" /\ from = 0

Move(m, step) == where' = [where EXCEPT ![m] = step]

InFlight(dispatched) == {m \in dispatched : where[m] \in Busy}

-----------------------------------------------------------------------------
(* The socket reader: _handle_message, _schedule_message_callback.          *)

Newest(m) == where[m] = "new" /\ \A n \in 1 .. m - 1 : where[n] # "new"

Reads(m) == Newest(m) /\ up /\ link' = [link EXCEPT ![m] = socket]

\* A message that arrives while the dispatch is paused is not looked at.
Ignore(m) ==
  /\ Reads(m) /\ paused
  /\ Move(m, "ignored")
  /\ UNCHANGED <<symbol, queue, stale, old, line, threads, connection, overflow, close>>

Submit(m) ==
  /\ Reads(m) /\ ~paused /\ Len(queue) < QueueLimit
  /\ queue' = Append(queue, m)
  /\ Move(m, "queued")
  /\ UNCHANGED <<symbol, stale, old, line, threads, connection, overflow, close>>

\* The queue is full: the dispatcher is replaced, the dispatch paused and a
\* task scheduled that recycles the connection.
Overflow(m) ==
  /\ Reads(m) /\ ~paused /\ Len(queue) = QueueLimit
  /\ overflow = "none"
  /\ Move(m, "overflowed")
  /\ stale' = queue
  /\ old' = {n \in Messages : where[n] \in Busy \cup {"queued"}}
  /\ queue' = << >>
  /\ paused' = TRUE
  /\ overflow' = "scheduled"
  /\ UNCHANGED <<symbol, line, threads, socket, up, close>>

\* It is full and such a task has not ended: the message is dropped.
Refuse(m) ==
  /\ Reads(m) /\ ~paused /\ Len(queue) = QueueLimit
  /\ overflow # "none"
  /\ Move(m, "refused")
  /\ UNCHANGED <<symbol, queue, stale, old, line, threads, connection, overflow, close>>

-----------------------------------------------------------------------------
(* The workers: StreamEventDispatcher._worker down to receiveDispatch.      *)

\* Workers of the current dispatcher live until close() cancels them; those of
\* the replaced one until the overflow task does.
Take(m) ==
  /\ closing = "no"
  /\ queue # << >> /\ m = Head(queue)
  /\ Cardinality(InFlight(Messages \ old)) < Workers
  /\ queue' = Tail(queue)
  /\ Move(m, "calling")
  /\ UNCHANGED <<message, stale, line, threads, connection, overflow, close>>

TakeStale(m) ==
  /\ stale # << >> /\ m = Head(stale)
  /\ Cardinality(InFlight(old)) < Workers
  /\ stale' = Tail(stale)
  /\ Move(m, "calling")
  /\ UNCHANGED <<message, queue, line, threads, connection, overflow, close>>

\* to_thread(handler.receiveDispatch) has returned the coroutine, in whatever
\* order the threads do, and it asks for the lock of its symbol.
Ask(m) ==
  /\ where[m] = "calling"
  /\ line' = [line EXCEPT ![m] =
       {n \in Messages : symbol[n] = symbol[m] /\ n \in line[n]} \cup {m}]
  /\ Move(m, "waiting")
  /\ UNCHANGED <<message, queue, stale, threads, connection, overflow, close>>

\* Mutant: receiveDispatch takes no lock.
HoldsAlways(m) == TRUE

Holds(m) == line[m] = {m}

Lock(m) ==
  /\ where[m] = "waiting" /\ Holds(m)
  /\ threads' = threads \cup {m}
  /\ Move(m, "updating")
  /\ UNCHANGED <<message, queue, stale, line, connection, overflow, close>>

\* update() returns; a coroutine that still waits for it gives up the lock.
Updated(m) ==
  /\ m \in threads
  /\ threads' = threads \ {m}
  /\ IF where[m] = "updating"
     THEN /\ Move(m, "receiving")
          /\ line' = [n \in Messages |-> line[n] \ {m}]
     ELSE UNCHANGED <<where, line>>
  /\ UNCHANGED <<message, queue, stale, connection, overflow, close>>

\* receive(), the handler's own code, returns or raises.
Finish(m) ==
  /\ where[m] = "receiving"
  /\ Move(m, "done")
  /\ UNCHANGED <<message, queue, stale, line, threads, connection, overflow, close>>

\* A handler that was cancelled has cleaned up.
End(m) ==
  /\ where[m] = "cancelling"
  /\ Move(m, "ended")
  /\ UNCHANGED <<message, queue, stale, line, threads, connection, overflow, close>>

\* A cancelled worker: its coroutine lets go of the lock, or leaves the queue for
\* it, while the thread goes on; the handler's own code may take time to end.
Stopped(step) ==
  CASE step \in {"calling", "waiting", "updating"} -> "ended"
    [] step = "receiving" -> "cancelling"
    [] OTHER -> step

\* Mutant: a cancelled coroutine does not give up the lock it holds.
ReleaseWaiting(messages) ==
  line' = [n \in Messages |-> line[n] \ {m \in messages : where[m] = "waiting"}]

\* A coroutine that leaves lets those behind it move up.
Release(messages) == line' = [n \in Messages |-> line[n] \ messages]

\* StreamEventDispatcher.close: queued messages are dropped, workers cancelled.
Discard(dispatched, dropped) ==
  /\ where' = [m \in Messages |->
       IF m \in ToSet(dropped) THEN "drained"
       ELSE IF m \in dispatched THEN Stopped(where[m])
       ELSE where[m]]
  /\ Release(dispatched)

-----------------------------------------------------------------------------
(* _event_overflow_task.                                                    *)

\* StreamEventDispatcher.close up to its gather, without a suspension.
DiscardStale ==
  /\ overflow = "scheduled"
  /\ Discard(old, stale)
  /\ stale' = << >>
  /\ overflow' = "draining"
  /\ UNCHANGED <<message, queue, threads, connection, close>>

\* Mutant: the task closes the dispatcher and forgets the connection.
DrainOnly ==
  /\ overflow = "draining"
  /\ InFlight(old) = {}
  /\ overflow' = "none"
  /\ UNCHANGED <<where, message, queue, stale, line, threads, connection, close>>

\* Once the cancelled workers have ended, recycle() closes whatever connection is
\* in _socket by then; one that is lost already needs no closing.
Recycle ==
  /\ overflow = "draining"
  /\ InFlight(old) = {}
  /\ overflow' = IF up THEN "recycling" ELSE "none"
  /\ UNCHANGED <<where, message, queue, stale, line, threads, connection, close>>

-----------------------------------------------------------------------------
(* The connection.                                                          *)

\* The socket is lost. The task that closes it wakes with the loss.
Lose ==
  /\ up
  /\ up' = FALSE
  /\ overflow' = IF overflow = "recycling" THEN "none" ELSE overflow
  /\ UNCHANGED <<where, message, queue, stale, line, threads, socket, paused, close>>

\* _set_socket of the next connection, a handshake later: an overflow task that
\* waits for no handler has gone on.
Reconnect ==
  /\ ~up /\ closing = "no" /\ socket < MaxSockets
  /\ overflow = "none" \/ (overflow = "draining" /\ InFlight(old) # {})
  /\ socket' = socket + 1 /\ up' = TRUE /\ paused' = FALSE
  /\ UNCHANGED <<where, message, queue, stale, line, threads, overflow, close>>

-----------------------------------------------------------------------------
(* Stream.close().                                                          *)

\* Its synchronous part: the receive loop, the workers and the overflow task are
\* cancelled. A task that has not started never runs: the replaced dispatcher
\* keeps its workers. One that gathers cancelled workers waits for them.
Call(who, m) ==
  /\ closing = "no" /\ who \in Callers
  /\ closing' = "called" /\ caller' = who /\ from' = m
  /\ up' = FALSE
  /\ overflow' = CASE overflow = "scheduled" -> "orphaned"
                    [] overflow = "draining" -> "draining"
                    [] OTHER -> "none"
  /\ Release(Messages \ old)
  /\ UNCHANGED <<message, queue, stale, threads, socket, paused>>

CloseByClient ==
  /\ Call("client", 0)
  /\ where' = [m \in Messages |-> IF m \in old THEN where[m] ELSE Stopped(where[m])]

\* The on_message callback runs in the worker's task, which close() spares.
CloseByHandler(who, m) ==
  /\ where[m] = "receiving" /\ who # "client"
  /\ Call(who, m)
  /\ where' = [n \in Messages |->
       IF n = m THEN "closing" ELSE IF n \in old THEN where[n] ELSE Stopped(where[n])]

\* Mutant: close() cancels the workers and leaves the queue.
CloseWorkers ==
  /\ closing = "called"
  /\ Discard(Messages \ old, << >>)
  /\ closing' = "waiting"
  /\ UNCHANGED <<message, queue, stale, threads, connection, overflow, caller, from>>

\* The tasks as_completed() runs: event_dispatcher.close() drops the queue and
\* cancels every worker. It is a task of its own, so the caller's worker is not
\* current_task() and is cancelled too.
CloseDispatcher ==
  /\ closing = "called"
  /\ Discard(Messages \ old, queue)
  /\ queue' = << >>
  /\ closing' = "waiting"
  /\ UNCHANGED <<message, stale, threads, connection, overflow, caller, from>>

\* Tasks close() awaits that cannot end before it returns. A handler is run by
\* gather() in a task of its own: its worker is no longer spared either.
Entangled ==
  IF from = 0 \/ from \in old THEN {}
  ELSE IF caller = "callback" THEN {"dispatcher"}
  ELSE {"dispatcher", "worker"}

\* Mutant: the cancellation ends the wait instead of shortening it by one.
SwallowsNone == 0

\* CancelledError is swallowed by the loop over as_completed(), which then awaits
\* one task less; the two cancellations of a handler's worker come as one.
Swallowed == IF Entangled = {} THEN 0 ELSE 1

Return ==
  /\ closing = "waiting"
  /\ overflow \in {"none", "orphaned"}
  /\ Cardinality(Entangled) <= Swallowed
  /\ InFlight(Messages \ (old \cup {from})) = {}
  /\ closing' = "closed"
  /\ where' = [m \in Messages |-> IF m = from THEN "receiving" ELSE where[m]]
  /\ UNCHANGED <<message, queue, stale, line, threads, connection, overflow, caller, from>>

-----------------------------------------------------------------------------
Arrive(m) == Ignore(m) \/ Submit(m) \/ Overflow(m) \/ Refuse(m)

Handle(m) == Ask(m) \/ Lock(m) \/ Updated(m) \/ Finish(m) \/ End(m)

Next ==
  \/ \E m \in Messages :
       \/ Arrive(m)
       \/ Take(m)
       \/ TakeStale(m)
       \/ Handle(m)
       \/ \E who \in Callers : CloseByHandler(who, m)
  \/ DiscardStale \/ Recycle
  \/ Lose \/ Reconnect
  \/ CloseByClient \/ CloseDispatcher \/ Return

\* Tasks and threads go on, handlers return, a socket that close() was called on
\* is lost and a lost one replaced. The server, the network and close() may act
\* or not.
Fairness ==
  /\ \A m \in Messages :
       WF_vars(Take(m)) /\ WF_vars(TakeStale(m)) /\ WF_vars(Handle(m))
  /\ WF_vars(DiscardStale) /\ WF_vars(Recycle)
  /\ WF_vars(overflow = "recycling" /\ Lose) /\ WF_vars(Reconnect)
  /\ WF_vars(CloseDispatcher) /\ WF_vars(Return)

Spec == Init /\ [][Next]_vars /\ Fairness

-----------------------------------------------------------------------------
(* Properties.                                                              *)

\* Two threads update the book of one symbol at a time only where a worker was
\* cancelled (overflow, close) and left its thread behind.
UpdatesExclude ==
  \A m, n \in threads :
    m # n /\ symbol[m] = symbol[n] => "ended" \in {where[m], where[n]}

\* A connection of which a message was dropped, by the overflow itself or while
\* the task of an earlier one was still at work, does not stay up, and a paused
\* dispatch resumes on the next one: the handlers never go on past the gap on a
\* connection that looks healthy, and never stay deaf.
EveryGapIsRepaired ==
  /\ \A m \in Messages :
       where[m] \in {"overflowed", "refused"} ~> ~(up /\ socket = link[m])
  /\ paused ~> (~paused \/ closing # "no" \/ (~up /\ socket = MaxSockets))

\* Every message a worker or the queue holds is handled, dropped or given up:
\* none waits for ever behind a lock a cancelled worker held.
EveryMessageSettles ==
  \A m \in Messages : where[m] \in Busy \cup {"queued"} ~> where[m] \in Settled

\* When close() has returned no handler runs but the one that called it, unless
\* it cancelled an overflow task that had not started.
QuietAfterClose ==
  closing = "closed" /\ overflow # "orphaned"
    => queue = << >> /\ stale = << >> /\ InFlight(Messages \ {from}) = {}

\* close() returns, also to the callback of the stream it closes, which a worker
\* runs itself.  It does not to a handler: close() waits for the worker, and the
\* worker for the task the handler runs in.
CloseReturns == closing = "called" ~> closing = "closed"
=============================================================================
