# A TLA+ verification of python-binance-sdk

The SDK (`src/binance`) is an asyncio client for Binance Spot, USDⓈ-M and COIN-M. It keeps
WebSocket connections alive, correlates requests with answers on them, replays subscriptions,
routes messages to handlers, maintains local order books out of snapshots and diffs, and holds
requests back so that the exchange's limits are kept. This directory models those parts in
TLA+, checks them with TLC on small instances, and proves what matters most with TLAPS for
every instance.

Read `OrderBook.tla` first, then `Subscription.tla` and `ApiCalls.tla`. `PROJECT.json` says,
definition by definition, which lines of the source each one models.

## The system

| Component | State it keeps | Operations | Hard behaviour |
| --- | --- | --- | --- |
| Order book (`core/orderbook.py`, `core/orderbook_buffer.py`, `spot/orderbook.py`, `futures/orderbook.py`) | ladders, `_last_update_id`, `_fetching`, `_unsolved_queue`, `_post_snapshot_first`, the future of `updated()` | `update`, `fetch`, `_fetch_snapshot`, `_install_snapshot`, `updated` | worker threads against the event loop; late and stale snapshots; retries that meet what an attempt left behind; a bounded buffer |
| Sequenced list (`core/common/sequenced_list.py`) | sorted pairs, and their keys beside them | `add`, `merge`, `clear` | two lists that must change alike |
| Order book handler (`core/handlers/orderbook.py`) | a book and a lock per symbol | `receiveDispatch`, `set_client` | diffs of a symbol overtake each other; a cancelled worker leaves its thread behind |
| Event dispatcher (`core/transport/event_dispatcher.py`, `core/handlers/dispatcher.py`) | bounded queue, workers, handler tasks | `submit`, `close` | overflow; close from within a handler |
| Stream transport (`core/transport/stream.py`) | `_socket`, `_open_future`, `_conn_task`, `_connected_task`, `_closing`, overflow task | `connect`, `send`, `recycle`, `close`, retry loop | reconnects under waiting callers; cancellation; `close` against everything |
| Request registry (`core/transport/request_registry.py`) | `_next_id`, `_pending` | `create`, `resolve_*`, `reject_all`, `wait_for` | late answers, timeouts |
| Subscription manager, data stream registry, control supervisor (`core/transport/subscription.py`, `data_streams.py`, `control.py`) | `_subscribed`, `_stream_names`, streams, leases and reservations per path, user-stream flags, tasks by key | `subscribe`, `unsubscribe`, replay on reconnect, recovery, `close` | partial failure over several connections; replay against unsubscribe; recovery of what ends twice |
| Spot user stream (`spot/user_processor.py`) | subscription id | signature subscription | terminated streams |
| Futures user stream (`futures/user_stream.py`) | listen key, stream, lease, keepalive task | start, keepalive, expiry, stop, `close` | restart against `unsubscribe` and `close`; what is left behind half way |
| WS-API client (`core/transport/subscription.py`, `core/client_base.py`) | `_ws_api_authenticated`, `_time_synced`, `_time_offset` | `_ws_api_request`, `session_logout`, the `on_connected` hook, `_sync_time` | flags read when a request is composed and stale when it arrives |
| Rate limiter (`core/rate_limit/`) | per pool: charges, a reading, a limit; the ban; leases | `acquire_request`, `acquire_connection`, `acquire_message`, `sync_*`, `note_retry_after` | sleepers that wake together; two clocks of windows; readings that grow old |
| REST transport (`core/transport/rest.py`) | latest readings, session | `_request`, `_handle_response` | feeds the limiter, shares the clock flags |
| Handler context and processors (`core/handlers/context.py`, `*/streams*`) | handlers, active processors, per-market tables | `subscribe` overloads, `handler`, `receive` | a set iterated over awaits; two processors that match one message |
| Endpoint registries and getters (`*/endpoints/`) | tables | getters, weights | the weight is worked out from other arguments than are sent |

How they interact. `Client` merges the subscription manager and the REST transport. A data
`Stream` hands every event to its `StreamEventDispatcher`, whose workers call
`SubscriptionManager._receive`, which routes by type to a processor and its handlers; the
order book handler takes the lock of the symbol and runs `OrderBook.update` in a worker
thread. A book that finds a gap starts a fetch task, which asks `client.get_orderbook`, that
is `_ws_api_request`: the limiter's gate, then `Stream.send` on the WS-API connection, then the
registry's `wait_for`. Each connection attempt passes the limiter too, and its `on_connected`
hook replays what `_subscribed` records under the same lock `subscribe` takes.

What makes each component correct: a book always shows a state the exchange has had and
recovers from every gap; a stream gives every caller its own answer or an error, and `close`
ends everything; a dropped message costs the connection it came on; what is recorded as
subscribed is, in the end, what the server has; the futures user stream is whole or not there;
a refusal (-1021, -2015) is not met twice for one cause; the limiter keeps the exchange's count
within the limit, charges a request once, never less than what is sent, and lets it through in
the end; a message reaches the handlers it is due to.

## The modules

| Module | Content |
| --- | --- |
| `LocalBook` | abstract specification: what a local book promises its reader |
| `OrderBook` | the book of either market (`Chained`), its fetch task, the exchange's diffs and snapshots |
| `OrderBookUpdated` | `OrderBook` composed with `updated()`: shared future, notifications from two sides, cancelled waits |
| `SequencedList` | the ladders' data structure as operators, with a definition by price to compare with |
| `Delivery` | from the socket to the handlers: queue, workers, overflow and recycling, per-symbol lock, worker threads, `close()` |
| `Connection` | abstract specification: what a connection promises the tasks that use it |
| `Stream` | one connection with its registry: connection task, connected task, `send`, answers, `close` |
| `Subscription` | `SubscriptionManager` of the Spot client: paths, WS-API, one lock, replays, recovery, reservations |
| `FuturesUserStream` | listen key, stream, lease and keepalive, as three tasks share them |
| `Routing` | processors of the three markets as tables; from `subscribe()` to wire names, from messages to handlers |
| `Endpoints` | the three registries, row by row, and the weight helpers |
| `ApiCalls` | a call from getter to result over both transports, with clock and session |
| `RateLimiter` | the gate over five pools, bans, readings, limits, and the server's own windows |
| `*Proofs` (eight modules) | lemmas and theorems about the module they are named after; `OrderBookProofs` also about `OrderBookUpdated` and `SequencedList` |
| `MC*` | what TLC needs on top: symmetry, small tables and limits |

A step is in every module the code between two awaits (or a critical section, where threads are
involved), so that the order of steps is an order in which the event loop may run the tasks.

### OrderBook and OrderBookUpdated

A ladder maps each price level to the number of the update that last wrote it. Asks and bids
are one ladder: the code treats both alike and always together. Equal ladders then mean equal
books, and a mixture of two states of the exchange is visible as such. That a ladder may be a
function at all, when the code keeps sorted lists, is what `SequencedList` is for: it compares
`merge` with a definition by price on bounded lists, and the theorem `MergeIsRight` proves it for
lists of any length. Python compares whatever the payload holds, so the module takes the order of
prices (`Below`), the quantities and the `Zero` they are compared with as parameters, and
`MCOrderBook` gives them twice: numbers, and the strings the exchange sends, ordered by characters
and none of them equal to 0. The exchange (`Change`, `Publish`) numbers its
updates and publishes aggregated diffs with `U`, `u` and `pu`. `Disconnect` loses diffs;
`Dispatch` lets up to `Workers` of them wait for the book's lock at once, in any order.

`Update` is `update()` up to the release of the lock, `StartFetching` what follows;
`RequestSnapshot`, `ServeSnapshot` or `RequestFails`, `InstallTooOld` or `Install`, `Replay`
(one buffered diff per step, with the lock held), `ReplayFails` and `FinishFetch` are the fetch
task. `caller` says who runs it: the book's own task, or a user who awaits `fetch()` and can be
cancelled at each await (`CancelFetch`; "gone" is a user whose installing thread goes on without
them). Nothing resets `_fetching` then: the book is `Deserted`, buffers and never fetches again. In
`OrderBookUpdated`, worker threads schedule `_emit_updated_in_loop` on the loop
(`calls`), and `_fetch` reports on its own between two awaits (`emitting`).

### Stream and Delivery

`Stream` is the request side of a connection. `conn` is the connection task inside the retry
loop: it waits for the limiter, opens the socket (`Opened` starts the connected task), receives,
and after a failure rejects all pending requests and cleans up (`Reconnect`, `Cleanup`) before
it retries or gives up. A call of `send()` is `Send`, `Admitted`, possibly a wait for
`_open_future`, then `Register`, `Written`, `SendReturns` and one of the ends. Answers are
resolved at once, or by a task that first runs the `on_response` hook under a lock. `close()` is
`Close` up to its first await, then `CloseSocket` and `CloseReturns`.

`Connection` is the same connection for those who only use it: its state (absent, opening, up,
lost, abandoned, closing), and per user one request that is asked, sent, answered or failed.
`Stream` says how its own state is seen as that (`Seen`, `SeenBy`), so does `Subscription`
(`Asks`), and both are checked and proved to take no other steps.

`Delivery` is the event side. A message has a place (`where`): in the queue, with a worker, at
the lock, in a thread, with a handler, or settled. The lock of a symbol is the `line` of those who
wait for it: a message holds it when nobody is before it. A thread outlives the message it was
started for when that is cancelled (`threads`). An overflow replaces the dispatcher, pauses
dispatch and starts the task that closes the old one and recycles the connection. `close()` is
called by the client, by the `on_message` callback or (see Findings) by a handler.

### Subscription

A connection is a `Stream` seen from outside: it opens in the end, may drop, and carries requests
in order (`wire`). That no step of it is one a `Stream` cannot take is `UsesConnections`. `job` is what the holder of the lock does: the parts of a call that are left
(`todo`), the one at work (`at`), how far its request has come (`req`), what has been reserved.
`live` counts what the server has subscribed, per topic: a topic subscribed twice delivers
everything twice. Each connection is an actor of its own (the replay of its hook), and so is the
recovery. `blurred` is history: topics of a call that raised or was cancelled, for which the
code itself promises nothing; `cancelled` those of cancelled calls, `halfway` those of calls that
ended at their user part. `known` is the flag of the user processor: an `unsubscribe` it does not
expect raises before anything is sent ("refused").

### FuturesUserStream

Each successful `userDataStream.start` makes the next number, which stands for the key and for
the stream, the lease and the keepalive task made with it; the four fields, and the sets of what
really exists (`alive`, `open`, `leases`, `loops`), hold such numbers. Three tasks work on the
fields: a call (at most one, under the subscription lock), the recovery and `close()`.
A cancelled start has been sent: the server may still make the key (`Forsaken`). `left` is
history: the keys whose answer was lost, whose stop failed, or that a cancelled task was starting
or stopping. `trouble` is history too: which failures, cancellations and races have occurred.

### Routing

Markets are tables of processors, one row each: sub type, handler classes, arguments, how a
message is recognised. `Subscribe` goes from the overloads of `subscribe()` to wire names, with
validation; `SetHandler` activates processors; `Receive`, `Return` and `Raise` iterate over the live
set of active processors while handlers register other handlers or raise. `MCRouting` makes the
documented calls, bulk calls and calls that must be refused, and those that cross the two COIN-M mark
prices: their processors check only that they were given a name, so either may be asked for by the
other's kind of symbol (`Misnamed`), and then both have one wire name. A handler class stands for the
sub types it handles. `FuturesAggTradeHandlerBase`, documented for USDⓈ-M
(docs `README.md:362`, `:726`) but refused there because `um/streams.py:215` names its subclass, is
therefore not in the model.

### ApiCalls and Endpoints

`Endpoints` holds 146 registry rows: name, transport, security tier, weight, ORDERS flag. Rows and
helpers were compared with the Python registries by evaluation, and are equal. A call is made with
any argument its weight looks at: left out, `None`, false, a number, anything. In `ApiCalls` a call
is validated and weighed (`Started`), perhaps preceded by `get_server_time`, composed, held by the
limiter, sent and answered. `wire` is the WS-API connection, a FIFO that the server answers in
order. `hook` is `_on_ws_api_connected` with its `session.logon`. Two scenarios share the
module: with an Ed25519 key, two callers of signed calls with faults; with any other key, one
caller that makes every call of the market.

### RateLimiter

Time is relative: everything that expires holds the ticks it has left, one tick being half a
second, because `_retry_after` rounds to whole seconds with ties to even. The locks of the
buckets are never held over an await, so a request passes the pools in one step until the first
that is full. `server` counts our requests in fixed windows, aligned in any way to the
client's sliding ones. Requests are counted the moment they are sent: a network delay that
varies could move requests of two windows into one, which no client-side window rules out.

## Runs

| Run | Question | Distinct states |
| --- | --- | --- |
| `orderbook_spot` | Spot book under reordering, one loss, stale snapshots, a failed request, abandoned fetches, a manual fetch that may be cancelled: types, buffered diffs, refinement of `LocalBook` | 1,618,313 |
| `orderbook_futures` | Futures book with diffs that overtake each other: always a state of the exchange, and current in the end or deserted by a cancelled fetch | 1,474,513 |
| `updated` | who waits for `updated()` is told, and told the truth | 441,143 |
| `stream` | answers go to who asked, the registry is exact, refinement of `Connection`; every `send` and `close` ends | 116,980 |
| `delivery` | overflow, recycling and `close` under workers and threads | 66,843 |
| `subscription` | the client's records, the reservations, the server and the connections as `Connection`s, under two faults | 284,452 |
| `futures_user` | the four fields, what exists, what the server holds, under four faults | 197,421 |
| `routing` | documented subscriptions and their messages on three markets | 330,486 |
| `api` | every getter with every key; and clock, session and connection under faults | 344,316 |
| `limiter_gate` | the server's limit, single charges, sleeps, progress | 362,400 |
| `limiter_stale`, `api_futures_time` | two places where the code departs from what it says of itself, see Findings | |

What the properties say:

- `BookMatchesVenue`: the ladders are those of update `_last_update_id`, exactly.
  `InstallCoversBuffer`: a fetch that succeeds leaves no buffered diff ahead of the book.
  `KeepsPromise`: the book implements `LocalBook`. `EventuallyCurrent`: once the feed is silent the book becomes
  ready and current, or has a diff stranded in its buffer, or has been deserted by a cancelled fetch.
- `UpdatedMeansInstalled`, `WaiterIsNotified`: `updated()` returns only for an installed book,
  and a wait begun during a fetch is notified.
- `AnswerMatches`, `RegistryIsExact`: an answer goes to the request it answers, and the registry
  holds the requests that wait. `ActsAsConnection`: `Stream` implements `Connection`; what is sent
  fails in the very step in which its socket is given up, an answer never comes over a later
  socket, and none once `close()` is called. `SendEndsUnlessAbandoned`, `CloseEnds`.
- `UpdatesExclude`: two threads update one book only where a worker was cancelled.
  `EveryGapIsRepaired`: a connection that lost a message does not stay up, and a paused dispatch
  resumes. `EveryMessageSettles`, `QuietAfterClose`, `CloseReturns`.
- `RecordsAgree`: `_subscribed` and `_stream_names` tell the same names, also those of calls that
  failed on their way over the paths; not those of calls that ended at their user part, which has
  no way back. `NoGhost`: nothing unsubscribed comes back by a replay. `ReservationsExact`: the
  stream pools count the committed names. `UsesConnections`: to calls, replays and recovery each connection is a
  `Connection`. `EventuallyExact`: in the end the server has exactly what is recorded. `CallsEnd`.
- `NothingOrphaned`, `WholeOrNothing`, `KeysStopped`, `EventuallyListening`, `CloseEnds`: of
  `FuturesUserStream`. Calls, recovery and `close()` may be cancelled anywhere; excepted are the
  runs in which an `unsubscribe()` met a recovery or `close()` a call (`Unraced`), where the code
  gives no such guarantee. `KeysStopped` counts the keys that are `left` one by one: the server holds
  no other but the stream's.
- `DueReceive`, `OnlyBookOverhears`, `StreamsNamed`: messages reach the handlers they are due to and
  no others, and subscriptions have exact and distinct names, with the exceptions named in the
  properties. A documented request is accepted if and only if it is not `Unreachable`: the
  documented forms the code refuses are listed there and below.
- `ChargeCoversRequest`: the weight charged covers what the server counts for what is sent.
  `TimestampRefusalHeals`, `SessionRefusalHeals`: a caller is not refused twice for one cause.
  `CallsEnd`, `SessionReturns`.
- `ServerWithinLimit`, `ChargedOnce`, `NoOversleep`, `AcquireEnds`: of the limiter.

Every property comes with a mutant of the code (an operator marked `Mutant` beside the one it
replaces) under which TLC finds it violated in the same run.

### Bounds, and why they are enough

- Order book: two levels, so that a diff may write one and not the other; five updates: a
  snapshot, a diff before it, one across it and two after; two workers, the least that reorders;
  a buffer of two, so that it overflows; one loss, failure, manual fetch and
  cancelled fetch (`MaxDeserted`) each; `Lag` 1, so a snapshot may be older than a buffered diff. The live run has no losses: a loss on a stream that
  then stays silent is not noticed by any client of this protocol.
- `updated`: two waiters, so that cancelling one can hurt the other; up to four updates.
- `stream`: two callers, two sockets (one loss and reconnection). One call of `send()` per caller,
  which suffices because ids are never reset and a caller that calls again is another caller.
- `delivery`: five messages, a queue of one and two workers, so that a message is queued, one is
  locked out, one overflows and one comes after; two connections. One symbol: locks of different
  symbols do not interact.
- `subscription`: one caller with two calls, two paths (one with two names), the user stream, one
  name per connection allowed, so that calls are refused too; two faults, the least for a fault
  during the repair of another. The calls compete with replays and the recovery for the lock; two
  callers only queue behind each other, and the theorems are for any number. An `unsubscribe` of
  a stream nobody asked for is refused; one that failed and is tried again takes a third call,
  which the theorems have and the run has not.
- `futures_user`: four calls and four faults, since a start, its expiry and a failed restart
  already take three.
- `routing`: three calls and a registration in the middle of a message; the documented forms of
  subscription per market, bulk calls included, and calls that must be refused.
- `api`: two callers, two faults; numbers on both sides of each threshold of a weight.
- `limiter_gate`: three things to send against a weight pool of 2, so that two, one and none fit;
  windows of 1 and 2 ticks with every alignment of the server's; one ban of one second. The raw
  pool is never exhausted before the weight pool, as with the SDK's `DEFAULT_RULES` and an address
  of one's own. Where it were, a request could sleep in the raw pool until its weight charge had
  expired, and the server could count more than the limit: with `Shared = {"weight", "raw"}`,
  others draining the raw pool too, TLC shows `ServerWithinLimit` violated. Its theorem has the
  condition as a hypothesis (`RawIsRoomy`).

Deadlock is checked for the limiter, where time always passes, and for `api`, where a caller can
always call. The other models stop when their bounds are used up.

### Fairness

But for one action of `Stream`, all fairness is weak; it is on steps the event loop, a thread or a timer takes of itself, and nothing
forces the user, the engine or a fault, and faults are bounded.

- Book: threads, dispatcher and fetch task are scheduled; the exchange publishes and answers.
- `Stream`: started tasks are scheduled and timers fire; callbacks return; a server that is
  tried again and again accepts a connection at last (strong fairness on `Opened`, because a
  failed attempt disables it each time). Nothing makes the server answer: a request ends by its
  timeout.
- `Delivery`: tasks and threads go on, handlers return, a lost connection is replaced.
- `Subscription` and `FuturesUserStream`: `Progress` is the disjunction of all steps the loop and
  an answering server take, so the loop is never idle while something is ready. Nothing more is
  assumed between tasks, not even that `asyncio.Lock` is first come, first served.
- `ApiCalls`: the same, action by action; sleeps of the limiter end.
- `RateLimiter`: time passes, and a task whose sleep is over is scheduled.

## Proofs

The theorems hold for every value of the constants; all that is assumed is the named assumption
of the module. `PROJECT.json` lists the theorems with the properties they state. The argument is
the same everywhere: an inductive invariant `IInv`, shown to hold at first and to be kept action
by action, implies the property.

- **`OrderBookProofs`**: `TypeCorrect`, `BookCorrect`, `FetchTaskAlive` (unless a cancelled fetch
  deserted the book), `DesertedStays` (it never recovers then), `LiveAdvances`, `InstallCovers`,
  `Implements` (refinement of `LocalBook`). `BookMatchesVenue` is not inductive: a
  merge keeps it only if the diff is true to the exchange's history and fits the book. `VenueOK`: a
  level not written since update k is as it was after k. `DiffsOK`: every diff in flight, racing or
  buffered is `Genuine`. `FetchOK`: how flag, task, snapshot and replay position relate. The key
  lemma is `MergeLemma`: merging a genuine diff with `pu <= lastId <= u` turns the ladder of
  `lastId` into that of `u`. The refinement maps a merge to `Follow`, an install or a replayed
  diff to `Resync`, a gap to `LoseSync`, the end of a fetch to `GoLive`.

  On top of it, `BookUnaware`: the book that is waited for implements the book without waiters, so
  that all of the above holds of it too. `UpdatedFindsBook` uses that no step clears
  `_last_update_id`, and that whoever reports success, or has scheduled a report, does so for an
  installed book (`ReportsOK`).

  Below it, `AddIsRight`, for a sorted list of any length, a strict total order of prices, whatever it
  is, and any kind of quantity: the list stays sorted by that order, without levels equal to `Zero`
  and in step with its keys, and changes at one price only. For the strings of a payload the order is
  that of characters and nothing equals `Zero`; `NothingRemoved` says what follows. The least index `bisect_left` promises
  exists by well-founded induction; the three cases (pop, set, insert) are lemmas. `MergeIsRight`:
  after a batch of any length each price has the quantity of its last pair. Induction over the
  batch is replaced by the least length that goes wrong, both for the existence of the recursive
  function `Merging` and for what it yields.
- **`StreamProofs`**: `TypeCorrect`, `RegistryExact`, `AnswersMatch`, `Closed`, `ImplementsConnection`
  (refinement of `Connection`). `RequestOK` adds that ids
  in flight are distinct and below `_next_id` (`IdsOK`), and that a message on the wire or with a
  response task belongs to the caller registered under its id (`OwnersOK`), so that a late answer
  can only find its own request or none. The refinement needs more: where the connection task is
  while a socket is open, `close()` under way or over (`TaskOK`, which also gives `Closed`), and
  that a request the server has, or whose answer is on its way, has gone out and is still pending
  only while its socket is (`CarriedOK`). It maps the opening of a socket to `Up`, a failed receive
  to `Drop`, the end of the retries to `Abandon`, `close()` to `Close` and its return to `Closed`;
  calls and answers are `Serve`.
- **`DeliveryProofs`**: `QuietOnceClosed` (but for the dispatcher of an overflow task that `close()`
  cancelled before it started), `UpdatesNeverMeet` (but for the thread of a cancelled worker). `OldRests` and `Rests` say what of the old and the new
  dispatcher is still at work at each step of the overflow task and of `close()`, `CallWaits` that
  the connection is gone by then. `LocksOK`: of two messages at the lock of one symbol one is ahead
  of the other, the one whose `update()` is awaited is the first, and a thread nobody awaits is that
  of a message that was given up.
- **`SubscriptionProofs`**: `TypeCorrect`, `RecordsAlwaysAgree`, `NoGhostEver`,
  `ReservationsAlwaysExact`, `ConnectionsAreStreams`. The two records do
  differ while a call is at its user part, and for the names of calls that ended there (`AgreeOK`,
  `halfway`); that a call failed on its way over the paths is no excuse. `NoGhostEver` and
  `ReservationsAlwaysExact` do except what failed calls and cancelled ones leave. A topic outside the record is absent from
  the server and from everything on its way there, unless the holder of the lock is about to add
  it (`GhostOK`); that a replay reads the record under the lock, and that a request which is awaited
  is the last on its connection (`WireOK`), is what keeps an older replay from undoing an
  unsubscription. The count of a pool may be ahead of the committed names by those the holder of the
  lock has reserved (`PoolOK`), and is never behind them while the path is open (`OpenOK`); a call
  that has sent its first part fits on every path (`CapOK`), and only such a call brings a topic to
  the server that is not recorded (`SentOK`). `ConnectionsAreStreams` takes the steps of
  `Connection` one connection at a time: only the holder of the lock has asked for anything, and of
  one connection (`AsksIs`), so that the others see a step as none of theirs (`Untouched`). With
  `ImplementsConnection` it ties the two modules to one specification: `Stream` does nothing to its
  users that `Connection` does not allow, and the connections modelled here take only steps that it
  allows. It does not say that they take every such step: none is given up here (`Abandon`), as
  with the SDK's `DEFAULT_RETRY_POLICY`.
- **`FuturesUserStreamProofs`**: `TypeCorrect`, `NoOrphans`, `FieldsWhole`, `NoKeyLeft`. `OneAtATime` says
  which tasks can be at work together although only one of them takes the lock, `FieldsAgree` what
  the fields name at each of their steps, `KeysKnown` which keys the server may hold; `Halted`, that
  only a cancelled `unsubscribe` leaves a stream without its key. All three results are for `Unraced`
  runs. Cancellation is not excepted, but a key is `left` when its start or stop was cancelled.
- **`ApiCallsProofs`**: `OneTimestampRefusal`, `OneSessionRefusal`, `ChargeCovers`. After a refusal either the answer is
  still on its way, and then nothing the caller sent can be refused again; or the client was told,
  and then `_time_synced` is down until some call has put the clock right, or
  `_ws_api_authenticated` is down until the answer to an accepted logon is delivered. `FramesOK`
  (one frame per caller, answers in order) is why an older "ok" cannot raise the flag again.
  For weights, which are those of the SDK's own table on both sides, every row of the three tables
  is shown to be of one of seven kinds (`Sound`), and for
  each kind, whatever value its argument has, the weight worked out of what was passed covers the
  weight of what is sent; `Passed` says that a call that was charged came from such a row and got
  past the validation of its arguments. A narrowing argument given as `None` over the WS-API is
  excepted.
- **`RateLimiterProofs`**: `TypeCorrect`, `ChargedExactlyOnce`, `NeverOversleeps`, `ServerLimitKept`,
  `OtherPoolsKept`. `ChargesOK` ties the charges of a request to the pools below the one it is in;
  `SleepOK` its sleep to what may expire there. For the server's windows the invariant compares two
  sums over sets of charges: what the server counts in a pool is at most what the client charged
  there since the server's window began (`ServerOK`), and that is at most what it admits. This needs
  that a request is sent when it is charged, in other words that none charged for its weight waits
  in a later pool: `RoomOK`, under `RawIsRoomy`. Without it the same holds of all pools but the
  weight's, which is `OtherPoolsKept`.
- **`RoutingProofs`**: `EveryDueHandlerReceives`, `OnlyTheBookOverhears`, `NamesStayExact`. Every row of the
  three tables is shown to be of a kind: told by its event types, by its stream, by an array under
  a pair's name, or the user's; a row's class is a function of its event types or of its wire
  name (`Known`), an event's class one of the stream that carries it (`CarryOK`). Then no pair of
  rows has to be compared: a row that takes a message is for its class, or is the book's
  (`TakenByItsOwn`), and a row that claims a class takes what is for it (`ClaimantTakes`). The
  invariant `MessageOK` says of a message under way that what is owed and not yet given is what the
  rows left will give. The pair that does share a wire name, `Crosses`, takes a `Misnamed` request
  to come about; all else is told of requests made `Rightly`.

Only model-checked: all liveness, which is out of the prover's reach (`WaiterIsNotified` is of that
kind too), and the first part of `StreamsNamed`, that a new client accepts the documented
requests: a finite list, which evaluation decides. All other
properties of the passing runs are theorems. `FetchTaskAlive`, `DesertedStays` and `Closed` are proved and have
no run of their own: the invariants they are part of are what `KeepsPromise` and
`ActsAsConnection` rest on.

## Findings

1. Readings that never age (`limiter_stale`, `core/transport/rest.py:289`). Each response syncs all
   readings remembered so far; an order count read once is renewed by every query, and orders
   are refused on a window the server has left long ago.
2. No signed call on a futures client (`api_futures_time`, `core/client_base.py:230`). The lazy time
   sync calls `get_server_time`, which only the Spot client has; the tests set `_time_synced`.

Seen while modelling, and not the subject of a run:

- Book: a task that awaits `fetch()` and is cancelled leaves `_fetching` set for ever
  (`core/orderbook.py:414`, `:420`, `:464`): the book buffers and no fetch is started again. On Spot
  the background fetch can be cancelled the same way, by whoever cancels another caller of the
  shared `_open_future` (`core/transport/stream.py:759`). `_start_fetching` sets the flag before
  `_get_loop()`, which raises when there is no loop to be had (`core/orderbook.py:431`): only on a
  book whose loop was never captured or is closed, for `set_client` captures it.
- Ladder: `SequencedList` is annotated with floats (`core/sequenced_list.py:9`) and the book promises
  prices in ascending order (`core/orderbook.py:117`), but levels are merged as the payload has
  them, as strings: "0.00" is not 0 and removes no level, and prices are ordered by characters
  ("10.0" before "9.0").
- Book: a diff handled after `_install_snapshot` released the lock and before `_fetching` is reset
  stays in the buffer of a ready book and costs another fetch (`core/orderbook.py:420`). Cancelling
  one caller of `updated()`, as `asyncio.wait_for` does, cancels all, and later resolutions raise
  (`core/orderbook.py:314`).
- Stream: a `close()` that arrives during `_reconnect` has its cancellation swallowed, and another
  socket is opened before the task ends (`core/transport/stream.py:600`). When the policy gives up
  before a connection, nothing resolves `_open_future` and `send()` hangs (`stream.py:759`). A
  `close()` that cancels an overflow task not yet started leaves the old dispatcher's workers
  running (`stream.py:675`), which `QuietAfterClose` excepts. `close()` spares the worker it is
  called on (`event_dispatcher.py:81`), but a handler runs in a task of its own, for which that
  worker waits: `close()` awaited in a handler never returns. With `Callers = {"handler"}` TLC
  shows `CloseReturns` violated; the run takes the client and the `on_message` callback.
- Subscription: the first `subscribe(USER)` sends `userDataStream.subscribe.signature` twice, by the
  hook and by the call (`subscription.py:851`). `session.logon` is signed without a time sync, its
  -1021 does not re-arm the sync, so with a clock that is off the connection is recycled for ever
  (`subscription.py:436`; `SessionReturns` excepts it), and its weight is not charged.
  An `unsubscribe(USER)` that failed after its request was composed cannot be tried again: the
  processor's flag is down (`spot/user_processor.py:65`), so that it raises
  `UserStreamNotSubscribedException`, while `subscribe(USER)` is dropped as recorded already
  (`subscription.py:738`), until a reconnect replays it.
- Futures user stream: a start that is cancelled, by its caller or by a `close()` that cancels the
  recovery, is on the wire (`user_stream.py:201`, `:269`): the key the server makes for it is stopped
  by nobody. A recovery that waits for its start while `unsubscribe` runs starts a stream
  nobody wants (`user_stream.py:276`).
- Routing: the futures order book processor also matches partial and RPI depth events
  (`streams/book.py:286`). A handler that registers a handler of a new class changes the set being
  iterated. The long forms of seven futures sub types are documented, or written down in their
  processors, but `client.subscribe` refuses them (`core/handlers/context.py:127`): the continuous,
  index-price and mark-price klines, and the speeds of `MARK_PRICE`, `PAIR_MARK_PRICE`
  (`cm/streams.py:658`), `INDEX_PRICE` (`<pair>@indexPrice[@1s]`, docs `README.md:389`, `:752`;
  `cm/streams.py:728`) and `RPI_DIFF_DEPTH` (`um/streams.py:341`). The asset index of all assets is
  shadowed (`um/streams.py:541`). All are `Unreachable` in the model. COIN-M `MARK_PRICE` of a pair and
  `PAIR_MARK_PRICE` of that pair have one wire name (`cm/streams.py:350`, `:664`): nothing checks
  which kind of symbol either is given, and unsubscribing one then silences the other.
- Calls: `symbol=None` over the WS-API is charged as a present symbol and dropped before it is sent.
  Futures batch orders are documented to cost more of the ORDERS pool than is charged. A float is
  refused over REST only after it was charged. A 429 over the WS-API is not noted as a ban. A
  request held in the limiter when the client closes reopens the WS-API connection.

## Not modelled, and why

- Payload formats: columns of data frames, handlers that only build them (`*/handlers.py`), wire
  names of REST endpoints and their URLs, docstring stubs, exception classes and their texts.
- Pure I/O: HTTP and socket calls, encoding, decoding, logging. Signatures: calls of cryptographic
  libraries; which of them applies is in `ApiCalls`.
- The weights of the exchange: what the server counts for a call is, in `ApiCalls`, what the SDK's
  own table says of the request that is sent. Whether that table is right is not checked.
- `core/rate_limit/snapshot.py` and the disabled guard, which read and record and change nothing a
  request depends on; the replacement of message buckets when a lease is dropped.
- Reads of `asks` and `bids` on the event loop while a worker thread merges: Python gives a reader
  that takes no lock no guarantee, and the SDK states none.
- The placeholder books `OrderBookHandlerBase` hands out before `set_client`: synchronous, one step.
- `list_subscriptions`, `start` and `stop` (whether messages are looked at): no state but a flag.
- Unbounded counters and real durations: expirations are ticks, and ids are small numbers.

Left for later: two markets' clients that share one account's limits; `ApiCalls` on `Connection`, as
`Subscription` is.
