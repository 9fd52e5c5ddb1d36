# Formal verification of cpp-redis

cpp-redis is a C++ client for Redis: a synchronous client over a pool of hiredis
connections, a Sentinel-aware variant that follows failovers, and an asynchronous
publish/subscribe client on a libevent loop. This directory holds TLA+ models of
its logic, the TLC configurations that check them on small instances, and TLAPS
proofs of what must hold for every instance. Paths below are relative to
`src/src/` of the repository.

## The system

| Component | State | Operations | Properties that make it correct |
|---|---|---|---|
| `ConnectionPool`, `ConnectionGuard` (`connection_pool.*`) | `connq_`, `size_`, `max_size_`, `mtx_`; `conn_` of each guard | constructor, `initialize`, `acquire` (pops, or opens one more connection while it holds `mtx_`), `release`, destructor | a connection has one user at a time; the pool never passes `max_size_`; `size_` agrees with reality through partial failures; every call ends |
| `Connection` (`connection.*`) | a hiredis context with a sticky error flag | `connect`, `select`, `send_command`, `disconnect` | a command is answered in the selected database; I/O errors are told apart from server errors |
| `Client` (`redis_client.*`, `command.hpp`) | `pool_` | `connect`, `execute`, about ninety command methods | what a method sends is a form Redis accepts, and its decoder fits the reply |
| Reply decoders (`reply.*`, `redis_exception.hpp`) | none | `recv_*` | errors surface; values keep their keys; integers survive |
| `Sentinel` (`sentinel.*`) | `urls_`, `master_ip_`, `master_port_`, `sentinel_url_`, a timer | `discover_master`, `start_client_connect`, `check_master`, `subscribe_sentinel_notification` | no Sentinel is lost from the list; the pool follows failovers; the subscriber listens to a live Sentinel |
| `AsyncConnection` (`async_connection.*`) | `status_`, `async_context_`, `host_`, `port_` | `connect`, `reconnect`, `disconnect`, `send_command`, two callbacks | the status agrees with the context; callbacks run; a lost connection can be re-established |
| `Subscriber` (`pubsub.*`) | `channels_`, `patterns_`, `listener_` | `subscribe` ..., `reconnect`, `sub_callback` | it agrees with hiredis and Redis on what is subscribed; after a reconnect that is what the user asked for |
| `AsyncService` (`async_service.*`) | the event base and its thread | `start`, `stop`, `attach` | no callback runs after `stop` |
| `URI` (`uri.*`) | none | `parse` | a client connects where its url says |

**Interaction.** Application threads call `Client` methods; each runs `execute`,
whose guard borrows a connection from the pool for the duration of one command.
`Client::connect(url list)` hands the list to a `Sentinel`, which discovers the
master and calls `Client::connect(host, port, db)` back. From then on a one-second
libevent timer runs `check_master` on the event loop thread, which may call
`Client::connect` again and so deletes and replaces the pool. A `Subscriber` on the
same loop listens to the Sentinels' notifications; its callback only prints them.
`Client` and `Sentinel` share no lock: `mtx_` protects the queue inside one pool.
`Subscriber` owns an `AsyncConnection`, whose hiredis context is attached to
`AsyncService`'s loop; hiredis calls `on_connect`, `on_disconnect` and `sub_callback`
from there.

**What is hard.** Threads interleave at every point where `mtx_` is free, and
`connect` and `SELECT` block while it is held. Initialisation and growth can fail
half way, by return value or by exception. Refused calls push a NULL pointer into the
queue that later calls pop. Contexts stay broken once they saw an I/O error.
Discovery changes `urls_` inside the loop over it, while Sentinels disappear and
change their answer. The monitor compares with members it never updates, and replaces
a pool that threads are using. The asynchronous side keeps its own idea of a
connection that hiredis opens, closes and frees on another thread, and of
subscriptions that commands ask for and confirmations carry out. All of these, with
the line where each bites and the properties that cover it, are under `hazards` in
`PROJECT.json`.

## Modules

| Module | Models | Status |
|---|---|---|
| `ConnectionLease` | abstract: connections leased to threads, one thread each, within what is affordable | done |
| `ConnectionPool` | pool, guard, the part of `Connection` the pool uses, `Client::execute`, a failing server | done |
| `ConnectionPoolProofs`, `ConnectionPoolUseProofs` | theorems about `ConnectionPool` for all parameters | done |
| `FailoverService` | abstract: calls of a client that moves between masters, each answered once by the master it began on | done |
| `ClientFailover` | `Client::connect` against `Client::execute`: a pool replaced while threads use it | done |
| `ClientFailoverProofs`, `SentinelMonitorProofs`, `ClientCommandsProofs`, `AsyncConnectionProofs`, `SubscriberProofs` | theorems about the module of that name | done |
| `AsyncContextProofs` | lemmas about the building blocks of `AsyncContext` | done |
| `SentinelMonitor` | discovery, start and `check_master` against Sentinels that fail and change their mind | done |
| `Replies` | the decoders as operators | done |
| `ClientCommands` | all command methods as a table, and one call of any of them or of `connect(url)` | done |
| `Uri` | `URI::parse` as an operator | done |
| `AsyncContext` | the life of hiredis's contexts, and `status_` | done |
| `AsyncService` | the loop thread, `start` and `stop` | done |
| `AsyncConnection` | composes the two above with commands, replies and `disconnect` | done |
| `Subscriber` | composes `AsyncContext` with subscriptions, hiredis's handlers and Redis | done |
| `MC*` | the values TLC uses | done |

Neither proofs nor models use RECURSIVE operators.

### ConnectionPool

`connq`, `size` and `mtx` are the members. `conn[t]` is the guard of thread `t`, `pc[t]`
where it stands in `execute`:

    idle --StartExecute--> acquire --AcquirePop/AcquireFull--> send | release
                           acquire --GrowBegin--> grow --GrowOpened/GrowRefused--> send | release
                                                  grow --GrowSelectThrows--> idle
    send --SendReply/SendFails--> release --Release--> idle

Each action is one critical section of `mtx_`, or one blocking network call. A
thread in `grow` holds `mtx_` (`mtx = t`), and everyone who needs it waits: this is
why growth has two steps while a pop has one. `GrowOpened` pushes the new connection
and pops the head in one step, as the code does before it unlocks. `Receive` is what
`execute` does with the pointer it got: NULL makes it throw, and the guard's
destructor still pushes the NULL back. `GrowSelectThrows` is the `ValueException`
that leaves `acquire` before there is a guard: `mtx_` is released by its
`lock_guard`, the new context is leaked.

`initialize` runs before the threads see the pool (`phase = "initialize"`), one
connection per step; it ends early when `connect` is refused or `select` throws,
and a `Client` then still owns the pool, so `phase` becomes `ready` all the same.
`Destroy` is the destructor, called when no thread is in a call.

`ctx[c]` is a connection's hiredis context: `open`; `dropped` when the server
closed it and the client has not noticed; `error` after a failed call, for good;
`freed`. `selected` is the server's knowledge of which connections ran `SELECT`.
`select` answers true, or false when the reply is lost (both callers ignore it),
or throws when the server replies with an error. The server crashes, drops
connections and restarts at any time. `outcome[t]` is what the call ended with.

### ClientFailover

`Client::connect` of the event loop thread is three kinds of step (`step`): `Delete`,
`New`, which already publishes `pool_`, and one `InitializeOpens` per round of
`initialize`'s loop, whose bound `size_` is read anew each time. A thread of `execute`
copies `pool_` into its guard (`at`), waits for that pool's mutex (`Locks`), and later
gives back to the same pool. Pools are numbered, so a dangling pointer is a number
that is no longer in `live`; `size`, `connq` and `opened` exist per pool and a
connection is reduced to the master it goes to. Using a deleted pool, or its queue
while `initialize` pushes, is undefined behaviour: `victim` names the thread and the
behaviour ends. Replacements may come at any time and for any master, which is
more than `SentinelMonitor` lets happen and so covers it. What callers are promised
meanwhile is `FailoverService`: `current` is the master of the pool that `pool_` points
to, `bound` the master of the pool a call's guard points to, `answer` the call's
outcome; building a pool moves the client, and all the rest of a replacement is a
stutter. Failing `SELECT`s and broken
contexts are left to `ConnectionPool`.

### SentinelMonitor

`urls`, `master` (for `master_ip_` and `master_port_`) and `sentinelUrl` are the members.
`pc = "probe"` is one iteration of `discover_master`'s loop with the iterator `it`;
each probe is a step, so that Sentinels go up and down and learn of failovers between
two probes. `decide` is what the caller does with the result: `StartConnects` or
`StartFails` in `start_client_connect`, `CheckMaster` afterwards. The pool appears as
`target`, the address it connects to; a subscriber as `feed`, the Sentinel it listens to. NULL is the address `("", 0)`
that `addr` holds when no Sentinel answered. `ProbeLost` is the
Sentinel that dies between `connect` and its answer: the exception is not caught, so
the start fails, or the process ends when it happens in the timer's callback.
`ReconnectThrows` is the same for a new master that refuses `SELECT`.

### Replies and ClientCommands

A reply is a type and a payload; a decoder gives the exception's class, the return
value and what it left in the output argument. `ToInt` is the conversion of
`redisReply::integer` (64 bits) to `int`, with `IntBits` for the width. A C++ map is
the set of its entries, and `Assigned` says what a loop of assignments leaves in it.

A method is a row: command word, number of single operands, the operand of variable
length, and decoder. Overloads that send the same form are one row. `Early` are the
early returns, `Argc` is what `MakeCmd` builds. What Redis accepts and replies
(`Server`, `Accepts`, `OfKind`) is external: arities and reply kinds of the commands
the library sends. `Call`, `ServerReplies` and `Return` are one call; `Unanswered` is one
whose command gets no answer: `execute` found no connection, the `SELECT` of a
connection that `acquire` opened was refused, or `send_command` failed. When each of
these happens is `ConnectionPool`'s subject; here they are what the caller sees.
`Connect` is `connect(url)`: `Text` writes a url from its parts, `Uri!Parse` cuts it up
again as the code does, each part at the first separator in what is left, and
`ConnectsWhereUrlSays` compares with the parts. A url is
a sequence of separators, words and numerals; `stoi` reads the leading numeral,
and throws `invalid_argument` when there is none and `out_of_range` when it does not fit
an `int`; the port comes before the database. Everything that makes `parse`
return false is looked at before `stoi` can throw. A `SELECT` that the server refuses
comes out of `connect` too, after the pool was made. `Escaped` names the urls the
property is about: those whose parts have none of the separators the parser looks for
there, as a url must escape them; a colon in a password or anything in a query is
allowed.

### AsyncContext, AsyncService, AsyncConnection

A slot of `Links` is one hiredis context: `failed` (connect failed at once),
`connecting`, `interrupted` (connecting while the server went down or came back, so that
it may still be refused, or established and lost), `connected`, `broken` (the server
closed it, the loop has not read that yet), or `none` when it was freed, while `current`, for `async_context_`, may still
point there. `Open`, `Reopen`, `Establish`, `Refuse` and `Free` are the building
blocks of both modules that use them: `Establish` runs `on_connect` and `Free` runs
`on_disconnect` if the context had been connected, as hiredis does.

`AsyncConnection` counts, for each context, the commands in the output buffer
(`unsent`) and those whose reply has not been read (`unanswered`). `Read(l, n, d)` is one
read event: it completes `n` replies and the callback of the `d`-th, if any, calls
`disconnect`; when the reader is empty, a closing context with an empty buffer is
freed, and hiredis asserts that no callback is left. `Disconnect` outside a callback
frees at once or defers. Whatever the application does that the class does not
survive is a habit (`early`, `pending`) and the properties say which habits they exclude.
`connect` looks at nothing: called beside a live context it leaves that one attached to
the loop and never to be reached again. `reconnect` looks at `status_` only. `overlaps`
counts the calls of `connect` beside any live context and of `reconnect` while one is
connecting; a `reconnect` beside a context that is up is not counted, so that
`OverlapsPaid` fails if `status_` ever says DISCONNECTED of it without an overlap behind.

`AsyncService` has `stop` in two steps: `loopexit` in a second (`StopService`) and the
join, which returns when the thread in `event_thread_` has ended. A second `start`
makes a thread whose dispatch returns at once (`ended` from the beginning).

### Subscriber

Commands go to the server and replies come back in order (`toServer`, `toClient`).
`Subscribes` and `Unsubscribes` are what hiredis does with a command: it registers
handlers and sets `subscribed`, appends a regular callback for a command it takes
for a regular one (a `SUBSCRIBE` without names), or does not send at all.
The server confirms each name with the number of subscriptions left, and answers a
command without names with an error. The loop reads one reply at a time.
`ReadRegular`, `ReadError`, `ReadSubscribed` and `ReadAborts` are the four ways
through `redisProcessCallbacks`; the `batch` of `ReadSubscribed` says whether the reply
came in the same read as the one before, as hiredis's local `cb` keeps its value
between the replies of one read. `SubCallback` is `sub_callback` with the four
`on_` methods. `wanted` and `request` record what the application asked for, and
`pipelined` whether it ever sent a command before an earlier unsubscribe was confirmed.

## Runs

| Run | Instance | Shows |
|---|---|---|
| `pool_safety` | 3 threads, 3 connections, size 1 growing to 2, 6 calls, 1 SELECT error, all faults, symmetry | `ExclusiveUse`, `PoolBound`, `Accounting`, `AnsweredInDb`, `TokenBound`, `OnlyThrownSelectsLeak`, `TypeOK` |
| `pool_lease` | 2 threads, 4 connections, size 1 growing to 3, 4 calls, all faults, fairness | `LeaseSpec` (refinement), `EveryCallReturns`, `RefusedOnlyAfterFailure` |
| `pool_refused` | 2 threads, size 1, 4 calls, no faults | violated: `RefusedOnlyWithoutIdle` |
| `failover` | 2 threads, 2 masters, size 1 growing to 2, 3 pools, 4 calls, fairness | `DangerEndsWithConnect`, `ServiceSpec` (refinement), `OvershootCounted`, `CallsEnd`, `TypeOK` |
| `sentinel` | 3 Sentinels, 2 masters, 4 changes, fairness | `UrlsKept`, `AsksInOrder`, `ReplierFirst`, `FollowsFailover`, `ChecksEnd`, `TypeOK` |
| `sentinel_stale_pool` | 2 Sentinels, 2 masters, 3 changes | violated: `CheckedPoolOnMaster` |
| `commands` | every method, lists and arrays up to 4, 2 keys, 2 values, 3-bit `int`, 15,680 urls, numerals within and beyond `int` on both sides | `AcceptedByRedis`, `DecoderFits`, `ErrorsSurface`, `MapsByPosition`, `ConnectsWhereUrlSays`, `TypeOK` |
| `commands_expiry` | the same, lists up to 2 | violated: `ExpiryUnitKept` |
| `async` | 3 contexts at a time, 2 outages, 2 starts, 2 commands, 1 disconnect, 1 overlap, fairness | `StatusTruthful`, `OverlapsPaid`, `AbortsOnPendingOnly`, `QuietAfterStop`, `CallbacksRun`, `Recovers`, `TypeOK` |
| `async_disconnect` | the same with 2 contexts and 1 outage | violated: `CleanDisconnect` |
| `subscriber` | 2 channels, 1 pattern, 2 outages, 4 commands, 1 message, fairness | `InStep`, `IntentKept`, `NothingMissed`, `AbortsOnPipeliningOnly`, `Restored`, `TypeOK` |
| `subscriber_pipeline` | 1 channel, 1 pattern, no outage, 3 commands | violated: `ContextSubscribed` |

Each property has a mutant: a definition with a plausible bug in it (a forgotten pop, a
lock not released, an index not stepped), defined next to the one it would replace and
used by no run. With the mutant in place the property is violated, which is how we know
that it constrains the code.

`CHECK_DEADLOCK FALSE` is set because behaviours end: when the bounds on calls or
changes are used up, when the pool is destroyed, when a single command is done, when
a Sentinel-aware client failed to start or was terminated, and after undefined
behaviour or a failed assertion.

### Bounds, and why they are enough

- *Connections.* Identities are used once. `size_` never passes `MaxSize`, and every
  leaked connection needs a SELECT error, so `MaxSize + MaxSelectErrors` identities are
  never exhausted: the bound does not hide a growth.
- *Threads and calls.* Three threads against a pool of two: one refused thread,
  its NULL, and two that trade connections around it. Six calls give each thread
  two, so that what one call pushes is popped by another, by a thread that then meets
  the same pool again. Two threads with a pool of three is the case where the pool is
  never full; there the interest lies in growth racing with release.
- *SELECT errors.* One: the leak and the release of `mtx_` happen once; the counter in
  `OnlyThrownSelectsLeak` compares per error.
- *Changes.* `MaxChanges = 4` lets a first failover, an outage of every Sentinel but one,
  or a failover and failback seen by two Sentinels happen within one behaviour.
- *Lists.* Four elements: two fields and two values, a repeated key, or a missing value
  before, between and after present ones.
- *Pools.* Three: a call that began on the first can end when the second is deleted
  or the third is in place. Size 1 growing to 2 is the smallest pool that `initialize`
  and `acquire` can fill at the same time.
- *Contexts.* A slot is used again once its context was freed. With one overlap two
  contexts may be alive; the third slot is the one that would be too many for
  `OverlapsPaid`. Which free slot a context takes is of no consequence, so it is the
  same one each time (`Unused`), which saves a factor of four.
- *Outages.* Two: the second hits what the first left behind, a reconnect under way or
  subscriptions sent again and not yet confirmed.
- *Commands of the subscriber.* Four: subscribe, unsubscribe and subscribe of one name
  with another one beside it, which is what hiredis needs to confuse them.
- *Messages.* One: it is delivered for a channel, for the pattern or for both.
- *Urls.* Every combination of five schemes, seven forms of userinfo, two hosts, eight
  forms of port, seven of path and four of query: malformed ones, and ones with a
  separator that should have been escaped: without `Escaped` the property fails on them.
- *`IntBits = 3`* with answers from -5 to 8: both ends of the range, one step past
  them, and values that wrap to -1 and -2.

### Fairness

All of it is weak fairness. No specification has fairness of what the environment
or the application starts (calls, outages, changes of the Sentinels, `connect`,
`disconnect`, `stop`), with one exception, `Retry`, below.

- `ConnectionPool`: `Run(t)` for each thread. A thread inside `execute` keeps running, and
  blocking calls end. `std::mutex` gives no order to its waiters, and none is assumed:
  a waiting thread's step is disabled while another holds `mtx_`, and weak fairness
  serves it only because the number of calls is finite, so that it is eventually never
  disabled. The model therefore claims that no call is blocked for ever, not that it
  waits a bounded time under endless load.
- `ClientFailover`: `Run(t)`, or the undefined behaviour the same thread would meet, for
  each thread, for the same reasons and with the same caveat, as pools are
  finite too. `connect` on the event loop thread has none: no call waits for it.
- `SentinelMonitor`: the monitor as a whole. It is one thread, the timer is persistent,
  and every probe ends (a connection is accepted or refused, a command is answered or
  its connection lost).
- `AsyncConnection`: the handlers of each context (`Handle(l)`), as libevent serves every
  descriptor that is ready and TCP refuses, accepts or reports a loss in the end; the
  end of the loop and the join, once `stop` asked for them. `ReadsPart` has none, so
  replies need not come in parts. `Retry` is the application that calls `reconnect` while
  it has no connection; nothing in the library does, so without it there is nothing
  to recover, and `Recovers` is a promise to such an application only. It also says
  that the network does not refuse for ever at once.
- `Subscriber`: the handlers (`Handle`), the server answering what it received (`Serve`),
  and `Retry` as above, which `Restored` rests on.

## Proofs

The proof modules state, for every value of the constants, what the runs check on a
small instance. Each assumes only the named assumptions of the modules it is about.

| Theorem | States | Module |
|---|---|---|
| `TypeCorrect` | `Spec => []TypeOK` | all but `ConnectionPoolUseProofs` |
| `ConnectionsAreExclusive` | `Spec => []ExclusiveUse` | `ConnectionPoolProofs` |
| `SizeAccountsForConnections` | `Spec => []Accounting` | |
| `PoolStaysBounded` | `Spec => []PoolBound` | |
| `PoolImplementsLease` | `Spec => LeaseSpec` | |
| `RepliesComeFromTheSelectedDb` | `Spec => []AnsweredInDb` | `ConnectionPoolUseProofs` |
| `OnlyErrorsLeakSockets` | `Spec => []OnlyThrownSelectsLeak` | |
| `NullsNeverPileUp` | `Spec => []TokenBound` | |
| `RefusalsHaveAReason` | `Spec => RefusedOnlyAfterFailure` | |
| `DangerIsConfined` | `Spec => []DangerEndsWithConnect` | `ClientFailoverProofs` |
| `AnswersFollowThePool` | `Spec => []AnsweredByCurrentMaster` | |
| `FailoverImplementsService` | `Spec => ServiceSpec` | |
| `OvershootIsBounded` | `Spec => []OvershootCounted` | |
| `NoSentinelIsLost` | `Spec => []UrlsKept` | `SentinelMonitorProofs` |
| `EverySentinelIsAsked` | `Spec => []AsksInOrder` | |
| `ReplierIsAskedFirst` | `Spec => []ReplierFirst` | |
| `CommandsAreAccepted` | `Spec => []AcceptedByRedis` | `ClientCommandsProofs` |
| `DecodersFit` | `Spec => []DecoderFits` | |
| `ErrorsAreReported` | `Spec => []ErrorsSurface` | |
| `MapsAreByPosition` | `Spec => []MapsByPosition` | |
| `ConnectsAsDocumented` | `Spec => []ConnectsWhereUrlSays` | |
| `StopIsQuiet` | `Spec => []QuietAfterStop` | `AsyncConnectionProofs` |
| `AbortsTakePending` | `Spec => []AbortsOnPendingOnly` | |
| `ConnectionsArePaidFor` | `Spec => []OverlapsPaid` | |
| `StatusTellsTheTruth` | `Spec => []StatusTruthful` | |
| `AbortsNeedPipelining` | `Spec => []AbortsOnPipeliningOnly` | `SubscriberProofs` |
| `IntentIsKept` | `Spec => []IntentKept` | |
| `NoMessageIsMissed` | `Spec => []NothingMissed` | |
| `TablesAgree` | `Spec => []InStep` | |

None of these is inductive as it stands. TLC checked each strengthening on the run's
instance before it was proved.

**Assumptions.** Sets of threads, connections, contexts, channels and patterns are
finite, bounds are natural numbers, `InitSize <= MaxSize`, NULL is none of the objects it
stands beside. `FailoverAssumption` also says that a master is not confused with the
values `"none"` and `"ConnectionException"` that `outcome` holds beside masters.
`RepliesAssumption` and `CommandsAssumption` want a width for `int`, a natural bound on
lists, numerals that are integers, and a NULL that is none; `NullIsNoReply` that it is no
reply either. `UrlsAssumption` says that the
parts of a url are texts over `Tokens`, among which are the separators. What Redis accepts and answers is the external
table `Server`: the theorems about commands are relative to it.

### ConnectionPool

1. `ControlInv` = `TypeOK` with `LockInv`, `PhaseInv`, `GuardInv`. `size \in 0 .. MaxSize`
   already needs `LockInv`: `GrowOpened` increments without looking at `max_size_`
   again, and is right because the thread kept `mtx_` since it compared. `PhaseInv`
   says that during `initialize` nobody runs and the queue is as long as the loop
   counter; `GuardInv` when a guard may hold a connection.
2. `OwnershipInv` adds `ExclusiveUse` and `LiveInv`, that reachable contexts are live.
   Opening a connection keeps exclusiveness because what is `unborn` is not reachable.
   The step is proved together with `Moves`: every step leaves the reachable set and
   the guards as they are, lends, returns, opens, opens for a thread or closes. The
   lemmas `PopOwned`, `PushOwned`, `QueueOwned` and `HoldOwned` are about queues and
   guards only, whatever the action that uses them.
3. `Accounting` follows from the layer below, `Moves` and cardinalities; `PoolBound`
   from `Accounting`, `opened <= size` while initialising and `size <= MaxSize`.
4. The refinement maps `known` to the reachable connections and `lessee` to the
   guards. Each case of `Moves` is a step of `ConnectionLease` or a stutter;
   `PoolBound'` gives what `Affordable` requires.
5. `ConnectionPoolUseProofs` stands on that. `Treats` is to contexts what `Moves` is to
   queues: a step keeps them, gains one, leaks one or frees all. `AnsweredInDb` follows
   because what answers is open, and what is open and reachable ran `SELECT`; the leak is
   one orphan for each `Leaks`. `TokenBound` counts the guards of threads in a call
   together with the queue. `RefusedOnlyAfterFailure` is an action property: when
   `AcquireFull` finds an empty queue and a full pool, `Accounting` puts each connection
   in the hands of another thread.

### ClientFailover

`ControlInv` has the types, which pools exist (`PoolInv`) and who holds which mutex
(`GrowInv`). Three invariants stand on it, independent of each other. `DangerInv`: a call
that met no replacement is on the current pool and `connect` is not running, so what it
touches is neither deleted nor half built. `PurityInv`: the queue of a pool, and what its
users hold and answer, lead to its own master; a guard gives back to the pool it came
from, so this survives calls that outlive their pool. `AnswerInv`: a call has an
outcome exactly while its guard is about to give back. With `PurityInv` it gives the
refinement: what answers is the master of the guard's pool, which `New` never changes for
a pool that was built (`ServiceStep`, one case for each action). `AnsweredByCurrentMaster`,
that a call on the pool in use is answered by the master of that pool, follows from
`PurityInv` alone. `CountInv`: growths are counted in
`size`, and those that happened during `initialize` (`crowded`) are what its loop bound
rises by.

### SentinelMonitor

The list changes while the loop over it runs, but only in the step that ends the loop.
`DiscoveryInv` therefore describes the Sentinels asked in vain as a slice of the list:
the first `it - 1` while probing, the 2nd to the `it`-th once the replier is in front.
`MovedToFront` and `MoveKeepsElements` are about erasing and inserting in any sequence;
with `Distinct` they give `UrlsKept`.

### Replies and ClientCommands

1. *The tables.* A method's row (word, operands, decoder) meets Redis's row of its word.
   `Exactly`, `AtLeast` and `Wanting` sort the words by length and by the decoder their
   replies want; each table is compared with these classes, and each class with `Server`
   (`EveryRow`, `WantedKinds`). `RowsAccepted` is the arithmetic for lists of any length:
   what a map or a list of keys and values makes of the parity Redis asks for.
2. *The decoders.* `FailureSurfaces`: an error is thrown, or is the -1 of the string
   decoder. `FittingReplies`: a decoder throws a `RedisException` for none of the kinds
   it is made for. `MapDecoded`: the map that a loop over keys and elements leaves
   behind, when keys repeat and elements are missing, is by position; the last
   assignment to a key exists because positions are well-founded downwards
   (`LastPosition`). `HashDecoded`: a reply of pairs is used up, and each field keeps
   its value, which needs that the odd positions of `1 .. n` are half of them.
3. *The call.* `CallInv`: what is sent is the method's row with its arguments, a reply is
   one Redis has for that, an outcome is the decoder's result or comes from no reply, and
   what `connect` left is what `Parse` made of the url (`ConnectedBy`).
   `ParsedInRange` bounds port and database by the `int` that `stoi` returns, and names
   the exceptions it throws otherwise. `TypeCorrect` is from there which exceptions can
   reach the caller of which method.
4. *The urls.* `First` chooses the least place of a separator, so no induction is needed:
   `CutAtToken` and `CutAtScheme` say what is before and after it in a text joined from
   two parts of any length, the second also that a scheme ending in `:` or `:/` does not
   move the cut. `TextParts` writes a url as its parser will cut it and
   `ParseFindsParts` follows the cuts one by one. Concatenation is kept folded there
   (`Join`), as the provers rewrite it and then find no instance of a lemma about it.

### AsyncConnection and AsyncService

`AsyncContextProofs` has one lemma for each building block of `AsyncContext`, used here and
for `Subscriber`: what it does to types, to `Alone` (no context but the current one is
alive) and to `Tells` (the status tells about it). `TypeInv` is `TypeOK` with the bound
of each context's callbacks by the commands sent, without which the types would not be
inductive. `LiveInv` keeps `Alone` while there is no overlap. `StatusInv` says that the status tells
about the current context, deferred disconnects included. `PaidInv` strengthens
`OverlapsPaid` by what `reconnect` relies on: when the status is DISCONNECTED and no
connect is in flight (`Quiet`), one connection less is alive than the overlaps allow.
A step becomes quiet only when a connection goes (`Fades`, `StepFades`), so the
connection that a `reconnect` opens then is covered. `PendingInv` says that a
deferred disconnect takes an outstanding reply; `LoopInv` that the thread which dispatches is the one `stop` joins.

### Subscriber

The argument is about the order of what is under way. While the application awaits its
confirmations (`~pipelined`):

1. `OrderInv`: an unsubscribe is the last command, and only messages of other names come
   after its confirmation. `UnsubscribedInv`: when hiredis left subscribed mode, nothing is
   under way but empty subscribes and their errors. So every reply hiredis could not
   place is an error, which gives `AbortsOnPipeliningOnly`.
2. `IntentInv`: what is settled is held exactly when it is wanted, and a subscribe under
   way that is not wanted any more has an unsettled request behind it.
3. `HandlersInv`: whatever is served, or named by anything under way, has a handler. The
   unsubscribe's confirmation may remove it because of `OrderInv`. This gives
   `NothingMissed` in every batching, as it never relies on `cb`.
4. `RegularInv`: callbacks that wait for a regular reply are no more than the errors to
   come, so none of them swallows a confirmation. `TablesInv` relates the three
   tables up to what is under way, name by name; with empty pipes it is `InStep`.

`StepCases` reduces the next-state relation to eight effects, and a lemma for each effect
says which names it leaves under way (`ReadUnderway`, `ServeUnderway`, ...); the invariants
are proved from those.

### Only model-checked

`EveryCallReturns`, `FollowsFailover`, `ChecksEnd`, `CallsEnd`, `CallbacksRun`, `Recovers`
and `Restored` rest on fairness, which is out of the prover's reach, and stay with TLC.
Every other property of a passing run, each invariant, both refinements and the action
property, is a theorem.

## What the checks found

- **Refused although a connection is idle** (`pool_refused`). The guard's destructor
  pushes the NULL of a refused call (`connection_pool.cpp:71`); a later call pops it and
  is refused as well, before the connections behind it. `TokenBound` shows that the
  NULLs do not pile up, and `RefusedOnlyAfterFailure` that without a failure none
  arises while the threads are no more than `max_size_`.
- **A failback is not followed** (`sentinel_stale_pool`): the members compared with are
  those of the start. `FollowsFailover` holds for masters other than the first, at the
  price of a new pool every second.
- **psetex expires a thousand times too late** (`commands_expiry`).
- **disconnect with an unanswered command can end the process** (`async_disconnect`).
  `AbortsOnPendingOnly` shows when it is safe: with every reply in, or in the callback
  of the last.
- **unsubscribe and subscribe in a row can end the process** (`subscriber_pipeline`).
  `AbortsOnPipeliningOnly` shows that awaiting the confirmation of an unsubscribe avoids it.

Seen while modelling, where no comment or test says otherwise, or not checked as a
run of its own:

- *Failover under load.* A call that meets `Client::connect` can use a deleted pool, or a
  queue that `initialize` is pushing to. `DangerEndsWithConnect` bounds the damage to
  those calls. What `acquire` opens while `initialize` runs raises the bound of
  `initialize`'s loop too: a pool can open `2 * max_size_ - size_` connections, 15
  with the defaults instead of 10 (`OvershootCounted`).
- *A subscriber with channels only never stays reconnected.* `reconnect` sends `SUBSCRIBE`
  with the channels and `PSUBSCRIBE` with no pattern. Redis answers the latter with an
  error, which hiredis, in subscribed mode, takes as fatal; the next connection ends
  the same way. This is why `Restored` asks for a pattern, or no channel.
- *A first connect that fails at once is not repaired by reconnect*, which reports success:
  `host_` and `port_` are set only after it succeeded (`addressed` in `Recovers`).
- *reconnect during a connect* makes a second context beside the first, because
  `status_` is never `CONNECTING`, and so does *connect* beside a live context. The one
  replaced stays attached to the loop until the server closes it, and the callbacks of
  both write the same `status_` (`overlaps`; `OverlapsPaid` bounds what it costs);
  *disconnect before the connection is up* leaves `DISCONNECTING` for good (`early`), and no reconnect is possible.
- When no Sentinel answers, `check_master` goes on with the address `("", 0)` and replaces
  a working pool. When the first Sentinel replies again, the subscriber stays with the
  one that replaced it (`feed`).
- `Client::connect(sentinels, ...)` returns 1 for success and 0 for failure; the other
  forms return 0 and -1.
- A failed socket is a `CommandException`, which `redis_exception.hpp` reserves for bad
  commands. `rpoplpush` and `brpoplpush` decode the string Redis answers as an array and
  throw a `RedisException` on success (`DecoderFits` excludes them).
- The password of a url is parsed and used by nobody; `AsyncConnection::connect(url)` drops
  the database, and `Subscriber` passes one that is never selected. `connect(url)` lets
  what `stoi` throws pass instead of returning -1. The default port 6379 is never used:
  a url without port is refused.

## Not modelled

Left out, with the reason:

- *Overlapping calls and handlers of the asynchronous side.* hiredis contexts are not
  thread safe; an application thread that sends while the loop reads is a data race
  without defined outcomes. Calls and handlers alternate in the models.
- *Freed contexts.* hiredis frees a context that `async_context_` still points to; any
  call that uses it then is undefined. The models' applications make none.
- *A second connect of a Subscriber* makes another `AsyncConnection` and leaks the first,
  whose context keeps calling back; the model's subscriber connects once and then
  reconnects, when it has no connection: a `reconnect` during a connect is the subject of
  `AsyncConnection`.
- *Several names in one command, and none.* `subscribe`, `unsubscribe` and their pattern
  forms take one name at a time, and `unsubscribe` without names, which drops all, is
  not called. `reconnect` sends all names, as the code does.
- *The operation of BITOP*: NOT takes one source key, which is not in `Accepts`.
- *Callbacks* disconnect `async_context_`, while it is their own context, at most; they
  do not send, and those of a context that was replaced do nothing.
- *The listener.* `listener_` is not initialized until `set_listener`, and is only called.
- *stop without start, a second stop, and destructors of running services, of
  asynchronous connections and of Sentinel-aware clients*: each is undefined or ends the process
  when it happens, whatever came before (see `hazards`).
- *reconnect* of the subscriber is one step: its commands are buffered before the loop
  can run, as calls and handlers alternate.
- hiredis apart from what `async.c` does with callbacks, libevent and gtest (vendored),
  the tests and the build. `Connection::auth` is an empty stub and `ping` has no caller
  in the library. Operand values, formatting and float precision are abstracted: no
  property is about them. Memory that `Sentinel` and `Subscriber` never free has no
  effect on what is modelled.
