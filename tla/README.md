# Formal models of adbc-poolhouse

TLA+ models, TLC configurations and TLAPS proofs for `adbc_poolhouse`
(`src/src/adbc_poolhouse`), a library that puts a SQLAlchemy `QueuePool` in
front of ADBC drivers and wraps it for asyncio and trio code with anyio.
Line numbers below refer to that directory; every definition's own lines are in
`PROJECT.json` under `map`.

## 1. Inventory

| Part | Source | State it keeps | Operations | Talks to |
|---|---|---|---|---|
| Offload chokepoint | `_async/_offload.py` | a borrowed limiter token | `offload` | anyio limiter, worker threads |
| Cancellable offload | `_async/_cancel.py` | `worker_started`, `done`, `aborted_by_us`, `abort_error`, `result` | two tasks of a task group, and its join | `offload`, driver `adbc_cancel`, `on_abort` |
| Async connection | `_async/_connection.py` | `_in_use`, the fairy, a one-token teardown limiter | `cursor`, `commit`, `rollback`, `close`, `invalidate`, `__aexit__` | `offload`, the pool, its cursors |
| Async cursor | `_async/_cursor.py` | the driver's cursor | `execute`, `executemany`, `fetch*`, `close`, `__aexit__` | cancellable offload, its owner's guard |
| Async pool | `_async/_pool.py` | one `CapacityLimiter(pool_size + max_overflow)` | `connect`, `close` | `offload`, `QueuePool`, `close_pool` |
| Async factories | `_async/_factory.py` | none of their own | `create_async_pool`, `managed_async_pool`, `close_async_pool` | sync factory, async pool |
| Sync factory | `_pool_factory.py` | source connection, `QueuePool`, reset listener | `create_pool`, `managed_pool`, `close_pool`, `_release_arrow_allocators` | driver dispatch, SQLAlchemy |
| Driver dispatch | `_driver_api.py` | none | `create_adbc_connection` | dbapi modules, driver manager |
| Configurations | `_base_config.py`, `_*_config.py` | validated fields | validators, `_driver_path`, `_dbapi_module`, `to_adbc_kwargs` | sync factory |
| Exceptions, package root | `_exceptions.py`, `__init__.py` | none | lazy `__getattr__` | async layer |
| External | SQLAlchemy, anyio, ADBC drivers | records, overflow count; queue of waiters; connections and cursors | | everything above |

How they interact: a task on the event loop calls a method of a connection or a
cursor, which claims the connection (`_in_use`), queues for a token of the pool's
limiter and has a worker thread make the blocking call. For `execute` and the
fetches a second task, the watcher, waits beside the worker; a cancellation makes
it call `adbc_cancel`, drop the connection through the teardown limiter and
re-raise; the first two may themselves raise, and by the time it runs the call may
be over. The checkout and the check-in are offloads under the same limiter.

What is hard, and what makes each part correct:

- **Cancellable offload.** A cancellation can arrive in the limiter's queue,
  between token and thread, before the thread is in the driver, in the driver, or
  between the thread's end and the worker's resumption; it is delivered to the
  watcher's wait before the watcher runs, and the worker may end in between; the
  hook and the recovery can fail. Correct: no token lost or over-issued, no thread outlives its call, no
  call runs unwatched, an abort never looks like a success or a query error, an
  error never aborts, a cancelled call ends.
- **Pool and sessions.** Tokens and connections are two resources acquired in
  opposite orders: a checkout waits for a connection with a token in hand, a
  session with a connection waits for a token. `invalidate` and the later check-in both give
  the record back. A cursor may outlive its connection. The pool can be closed under
  its sessions. Correct: a connection is with one session, the count is exact, an
  aborted connection never goes back to the pool but when to abort or to drop it has
  failed, a leaving session is never stuck.
- **Connection and cursors.** Several tasks may share a connection by accident;
  two operations bypass the guard. Correct: one call at a time, the flag matches
  its call, the connection goes back clean, with the same exception.
- **Factories and dispatch.** Four constructions in a row can fail. Correct: what
  was opened is closed, every argument reaches the driver once.
- **Configurations.** Which fields go into the uri, which get a key of their own
  and which are dropped depends on what else is set and differs per warehouse; whether the
  driver wants a uri depends on what is installed. Correct: an accepted
  configuration renders, and no field is lost but the known ones.

The hazards, each at its line with the properties about it, are in
`PROJECT.json`.

## 2. Modules

| Module | What it is |
|---|---|
| `CancellableOffload` | `_cancel.py` and `_offload.py`: several calls on one limiter |
| `OffloadContract` | what a cancellable offload promises, without tasks, flags or scopes |
| `AsyncPool` | sessions of several tasks over `QueuePool` with one limiter; a call is seen through the contract |
| `ConnectionPool` | what a pool promises, without threads, limiter, queue or counters |
| `AsyncConnection` | one connection shared by several tasks: the guard, the cursors, the calls past the guard |
| `Configurations` | the thirteen warehouses and a caller's own class: validators, driver, keyword arguments; operators only |
| `PoolFactory` | the life of one pool from `create_pool` to `close_pool`, over any configuration, with the driver dispatch and the lazy import |
| `MC*` | instances for TLC: symmetry sets and constants that a `.cfg` cannot write |
| `CancellableOffloadProofs`, `CancellableOffloadRefinementProofs` | theorems about `CancellableOffload`, and that it implements its contract |
| `AsyncPoolProofs`, `AsyncPoolRefinementProofs` | the same for `AsyncPool` |
| `AsyncConnectionProofs` | theorems about `AsyncConnection` |
| `PoolFactoryProofs` | theorems about `Configurations` and `PoolFactory` |

`CancellableOffload` implements `OffloadContract`, `AsyncPool` implements
`ConnectionPool`. Operators named `Defect...` are not part of any specification:
each is a definition with a plausible bug, kept to show that the properties
notice it (the pairs are in `PROJECT.json` under `mutants`).

### 2.1 CancellableOffload

| Model | Code |
|---|---|
| `worker` queued, entering | `async with limiter` in `offload`; `on_dispatch` sets `worker_started` in the same loop step (`_offload.py` 101-103) |
| `CancelAtCheckpoint`, `PassCheckpoint` | the checkpoint that opens `to_thread.run_sync`; past it the await is shielded (`abandon_on_cancel=False`) |
| `thread` | the worker thread; *spawned* is the window in which the call has not yet entered the driver |
| `WatcherReleased` | `done.wait()` returns (`_cancel.py` 178-181) |
| `watcher` woken | a cancellation was delivered to `done.wait()`; the watcher has yet to run |
| `WatcherStandsDown`, `WatcherAborts`, `HookFails` | the three ways through the `except` (182-200) |
| `recovery` | `on_abort`, i.e. `AsyncConnection.invalidate`, under its own limiter, its error kept in `abort_error` |
| `ReturnsValue` ... `RaisesGroup` | the end of the task group and the `except BaseExceptionGroup` (213-246) |

Whether a cancellation interrupts the watcher's wait is decided when it is delivered:
by `CancelScope`, or by `GroupCancels` when the worker fails and the task group cancels
its other child. An event that is set by then wins; one that is set afterwards does not undo
the cancellation. So between the waking and the `except` branch the worker may be cancelled at
its checkpoint, or join its thread, give its token back and set `done`: the abort
then hits a call that is over. What holds is that a call that was over before it was
cancelled is never aborted (`LateCancelKeepsConnection`).

`interrupt` is
the driver's memory of an `adbc_cancel`. Whether a driver remembers one that
comes before its call has entered the driver is not known in general, so
`CancelLands` allows both. An aborted call may return with an error or without
one: drivers do both. The cursor always supplies `on_abort`, and so does the model.
`Backends` are the event loops: trio's task groups keep the cancellations of
their children beside an error, asyncio's drop them (`GroupMembers`), and the
code counts the members. Native `asyncio.Task.cancel` is not modelled.

### 2.2 AsyncPool

| Model | Code |
|---|---|
| `step`, `Connect`, `Execute`, `Commit`, `CheckIn`, `Close` | the session's operations; each starts an offload, `CheckIn` and `Close` shielded |
| `stage` | how far that offload is; the thread's end and the token's return are one step |
| `WatcherWoken` ... `AbortedCallEnds` | a cancelled `execute`, the two tasks of `CancellableOffload` seen as one; *returned* is a call whose thread is over and whose watcher is not |
| `recovery` | *stood_down*: cancelled in the queue; *skipped*: `adbc_cancel` raised; *running*, *done*, *failed*: of `invalidate` |
| `RecoveryEnds`, `RecoveryFails` | `AsyncConnection.invalidate`: driver connection closed and record put back, or it raises and the session keeps both |
| `TakeIdle` ... `CloneFails` | `QueuePool._do_get` on the thread: idle record, wait, timeout, count first and create then |
| `PutBack` | `QueuePool._do_return_conn`: into the queue, or out when that is full |
| `Dispose`, `CloseSource` | `close_pool`: two steps, the pool between them usable |

`QueuePool` is external; its counter (`overflow`), queue (`idle`) and the fact
that an invalidated record goes back without a driver connection are modelled as
the library uses them. `TakeStale` is a record whose connection was dropped or is older
than `recycle`; it is out of the queue until `Reconnected` or `ReconnectFails`. `pre_ping`
ends in the same way and is not told apart.

A session whose connection was dropped can leave, and it can call its cursors: each such
call is offloaded, takes its turn at the limiter, may be aborted and have a recovery that
finds nothing to drop, and is refused by the driver (`CallRefused`). Only `commit` and
`rollback` fail before they are offloaded.

An abort, early or late, makes the connection `dirty`. When the abort or the drop raises
(`AbortMayFail`), the connection is `botched` as well: it stays with its session, and
unless a later call is aborted on it with more success, the check-in puts it back into the
queue. `botched` is a history variable that no guard reads; the properties and the
contract (`Keep`) use it to say that an aborted connection comes back in no other way.

`Observed` are the tasks the liveness formulas speak of: tasks are
interchangeable, so one is enough, and the check needs a fraction of the time.

### 2.3 AsyncConnection

`Claim` is `_enter_offload` and everything up to the first await; `EndCall` is
the end of `_offloading`; `TurnAway` is `ConnectionBusyError`. `execute` stands
for `executemany` and the fetches, `commit` for `rollback`. `Exit` and `Invalidate`
do not look at the flag. `CursorsReleased` is the reset handler
`_release_arrow_allocators` and, for a dropped connection, the driver's own
closing of its cursors; a cursor that was closed can still be called, and refuses.
Abort and recovery are those of `AsyncPool`, early, late or failing, with the same names.
Tokens are abstract here. Two
regimes: with `Nested` the other tasks live in a task group inside the owner's
`async with` block, which is how structured concurrency nests them; without it
the owner may leave while they work.

### 2.4 PoolFactory

Sequential: for the async entry points first `ImportAsync`, the package's
`__getattr__`; then `Resolve` (the `TypeError`s and the rendering of a
configuration), `ConnectSource` or `ConnectFails`
(dispatch by the shape of the driver's `connect()`), `BuildPool` or `PoolFails`,
for the async factories `WrapPool` or `WrapFails`, then `StartClose`, `Dispose`,
`CloseSource`. `CreateAgain` is a caller that makes a second pool from the same
arguments: a configuration renders a new dict, a raw request passes the same one.
A pool may be closed twice.

`Configurations` gives each warehouse a record of what is particular to it: the fields
its uri is built from and those of which one suffices to build it, the keys of their
own, the validators' modes and exclusions, what `to_adbc_kwargs` asserts.
Fields that are treated alike are one ("option", "flag"). A configuration is the set of
the fields that were given a value, `AdbcKeys` the keys that `to_adbc_kwargs`
returns, `Carried` the fields whose values are in them. The `custom` warehouse is
any class that implements the protocol. A driver module's signature is what
`_driver_api.py` says of it (line 116); a custom one may have any.

## 3. What TLC checks

Between them, the passing runs exercise every action of every module.

| Run | Bounds | Question and answer |
|---|---|---|
| `offload_safety` | 2 calls, 1 token, both event loops, everything may fail or hang | the safety properties and the contract hold; a cancelled call ends unless unheeded, recoveries complete, every call ends if none hangs |
| `pool_safety` | 3 sessions, 1 + 1 connections, 4 names, the pool may be closed, aborts and recoveries may fail | the pool stays the abstract pool of two; exclusive, counted, bounded, with a token left for who leaves; an aborted connection comes back only when its abort or its drop has raised |
| `pool_liveness` | 3 sessions, 1 + 1 connections | check-ins complete and checkouts end although all other calls hang; every step ends if none does |
| `conn_guard` | 3 tasks, nested, aborts and recoveries may fail | the flag, serialization and the clean return |
| `factory` | sizes 0, 1, 5; overflows -1, 3; every accepted set of fields of every warehouse, all raw requests | leaks only on a failure, arguments arrive once, accepted configurations render, only the listed fields get lost |
| `offload_joined` | 1 call | **violated**, see 6 |
| `offload_hook` | 1 call, hook may fail | **violated** |
| `pool_holdwait` | 4 sessions, 1 + 1 connections | **violated** |
| `pool_dropped` | 2 sessions, 1 connection | **violated** |
| `conn_shared` | 2 tasks, not nested | **violated** |
| `factory_memory` | defaults | **violated** |
| `factory_empty` | defaults | **violated** |

Why the bounds are enough. Safety at any other size is proved (section 5); the bounds
matter for the mutants and for liveness. *Offload*: calls meet only at the limiter, so one that
holds the token and one that queues show every meeting. *Pool*: three sessions on two connections give two holders
and one waiter, a full queue and an overflow connection; a fourth session is needed only for the
circle of `pool_holdwait`, which has as many waiting checkouts as tokens. Four
names suffice because a disposed pool forgets at most the three that are out. *Connection*: an
owner, a task in flight and one turned away. *Factory*: every combination is
enumerated; the sums of size and overflow are negative, zero and positive.

`AbortMayFail` is TRUE in `pool_safety` and `conn_guard`. It is FALSE in the runs whose
counterexample needs no failure, so that it cannot come from one, and in `pool_liveness`,
which has three sessions instead: with both its state space is too large for a routine
check. For liveness a failed abort adds only a session whose call goes on, on a connection it
keeps, and every call may do that there. With two sessions the three formulas
hold with TRUE as well. The inductive invariants cover both values.

The largest runs are `factory` (646 000 states), `pool_safety` (255 000 up to symmetry),
`conn_guard` (205 000) and `pool_liveness`, which takes the longest, some three minutes.
No counter is cut off: every model is finite by itself. Symmetry is used in the
safety runs of the pool only; the one temporal formula checked there,
`ImplementsPool`, is a safety formula that permuting names leaves unchanged.

## 4. Fairness

- `CancelSpec`: ready tasks run, dispatched threads reach the driver, and a driver
  call with an `adbc_cancel` pending returns. The event loop and the operating
  system provide the first two, the ADBC contract the third. No fairness on
  `DriverReturns`: a call may hang for ever. A cancellation may go unheeded in
  two ways (`Unheeded`): the hook raises, or it is fired, once, before the call is
  in a driver that forgets it. `CancelledCallEnds` says that there is no third.
- `HangingSpec`: one weak fairness per task, for what its step does next; a checkout
  ends because `QueuePool` has a timeout; check-ins, reconnections, recoveries and
  `dispose` end; a call that was aborted returns, so this module speaks of drivers that
  heed `adbc_cancel` (those that forget it are in the first). `CallReturns` is not
  fair, except for `CallRefused`: on a connection that it has closed, a driver refuses a
  call instead of hanging in it. Nor are callers: nobody has to check in, cancel or close.
- `FairSpec` (`AsyncConnection`): driver calls end, since how one that hangs is
  aborted is the subject of the first module.

`EveryCallEnds` and `EveryStepEnds` take as hypothesis that no thread stays in
the driver for ever. The limiter's queue is FIFO, so weak fairness is enough.

## 5. What is proved

Every safety invariant, action property and refinement that a passing run checks is
also a theorem, for every value of the constants that meets the modules' named
assumptions. The proofs assume nothing else. Every argument is an inductive invariant `IInv`, which TLC checked
on the runs' instances before it was proved, and one step per action.

### 5.1 CancellableOffload

Assumed (`CallsAssumption`, `TokensAssumption`, `DriverAssumption`, `BackendsAssumption`):
`Calls` is finite, `Tokens` positive, two switches are Boolean, `Backends` some of the
two event loops.

| Theorem | States |
|---|---|
| `TypeCorrect` | the type invariant |
| `TokensSafe`, `DriverBounded` | tokens match workers; at most `Tokens` threads in the driver |
| `NothingOutlives` | no thread, token or recovery outlives its call |
| `NoUnwatched` | no thread in the driver without a watcher |
| `AbortedRaises`, `ErrorsDoNotAbort`, `ErrorsSurface` | outcomes of aborted and of failed calls |
| `FailedRecoveries` | a failed recovery surfaces when the aborted call raised |
| `SurvivorsSettled` | a connection that survives a cancelled call is in a known state |
| `SameOnBothBackends` | asyncio and trio give a call the same exception group |
| `LateCancels` | a call that was over before it was cancelled is never aborted |
| `Refinement` | `CancellableOffload` implements `OffloadContract` |

    IInv == TypeOK /\ TokensMatchWorkers /\ \A c : WorkerInv(c) /\ WatcherInv(c) /\ CallerInv(c)

None of the safety properties is inductive alone. `WorkerInv` ties the worker's place to its
thread and its two flags; `WatcherInv` ties the watcher to the cancellation and
to the recovery, and says nothing of the token of a call whose watcher was woken, which
may be back; `CallerInv` says what was known when the group was joined. The
conjunct that matters most is in `WatcherInv`: a watcher that raised without an
abort has a worker that is still queued, at the checkpoint or cancelled. It is
inductive because such a watcher has seen a cancellation, so `PassCheckpoint` is
no longer possible for its worker. That is the argument for the absence of a race on
`worker_started`. Preservation has a step per action, with lemmas for the two
shapes that recur (a worker's end, a step that leaves the tokens alone).
`LoneError` shows that the group of a call that was not aborted, and whose hook did not
fail, holds the worker's error and nothing else on either event loop, so that counting
its members is sound there.
`Refinement` classifies each step as one of the contract or a stutter; the only one
that needs counting is the dispatch, where the token in the worker's hand shows that
fewer than `Tokens` others run (`RoomToBegin`).

### 5.2 AsyncPool

Assumed (`PoolAssumption`): finitely many tasks and connection names, a `PoolSize` of at least one,
a `MaxOverflow` of at least zero, as many names as the pool can need.

| Theorem | States |
|---|---|
| `TypeCorrect` | the type invariant |
| `TokensTransient` | tokens are out exactly for the offloads under way |
| `CheckoutsExclusive` | a connection is with one session, and not idle then |
| `PoisonNeverIdle` | an aborted connection never waits in the pool, unless its abort or its drop has raised |
| `CountsExact` | `QueuePool`'s counter is exact, and bounded, until the pool is disposed |
| `ThreadsBounded` | at most twice `pool_size + max_overflow` threads, the recoveries with a connection to drop included |
| `CheckInsFindTokens` | sessions on connections never hold every token while another with one waits to leave |
| `Refinement` | `AsyncPool` implements `ConnectionPool` |

    IInv == TypeOK /\ (\A t : TaskInv(t)) /\ DirtyInv /\ QueueInv
            /\ TransientTokens /\ ExclusiveCheckout /\ CountExact

`TaskInv` ties step, stage, recovery and record together: a checkout has no record
unless it is reconnecting one, and a recovery under way either has no record to drop or
one that is aborted and not botched. Without it a checkout could overwrite a record that
its session still has. `DirtyInv` gives each connection that is aborted and not botched
a recovery under way, by the session that has it, so that `NoPoisonedIdle` follows from
exclusiveness; a recovery that fails leaves it by making its connection botched. `QueueInv`
gives each waiting task one place in the limiter's queue; without it a cancelled task
could be served. The three counted properties are inductive together with these.

The steps are first sorted by what they do to the limiter (`LimiterSteps`) and to the
records (`RecordSteps`: take, make, give back, reserve, unreserve, empty, or nothing), and
each kind is counted once. `ThreadsBounded` and `CheckInsFindTokens` follow by an
injection of tasks into records (`HoldersBounded`); the former counts the borrowers by the
limiter and the recoveries by their records, because a call on the cursor of a dropped
session has a token and no record. `Refinement` uses the same sorting: a failed abort
or recovery is the contract's `Keep`, and `RoomToCheckOut` shows that an idle or a reserved
connection means that fewer than the ceiling are out. `CheckInsFindTokens` is why the
limiter has `pool_size + max_overflow` tokens and not one fewer; with it `CheckInCompletes`
needs only that checkouts and recoveries end, which stays with TLC.

### 5.3 AsyncConnection

Assumed (`ConnectionAssumption`): the owner is one of the tasks, of which there may be any number.

| Theorem | States | For |
|---|---|---|
| `TypeCorrect` | the type invariant | every use |
| `GuardExact` | the flag is set exactly while one guarded call is in flight | every use |
| `BusyWhenShared` | a caller is turned away only beside another's call (an action property) | every use |
| `OneThread` | one thread at a time works on the driver connection | `Nested` |
| `ReturnsClean` | the connection goes back clean, but for an abort or a drop that has raised | `Nested` |

`IInv` (every use) adds to the guard's property how call, stage and recovery go
together (`CallInv`): only an `execute` is recovered, only the owner passes the guard.
The last two theorems have `Nested` as a hypothesis, and need it: `conn_shared` is their
counterexample without it. `NestedInv` adds `OneAtWork`, that one call is under way at most,
past the guard or not, and `ConnInv`, that a thread, an open cursor or an aborted
call means that the connection is out, or just closed by the recovery of that very call.

### 5.4 PoolFactory and Configurations

Assumed (`SizesAssumption`, `OverflowsAssumption`): sizes are natural numbers, overflows
integers, the defaults among them. The warehouses are those of the code; the
sets of fields, the requests and the shapes of drivers are all covered.

| Theorem | States |
|---|---|
| `TypeCorrect` | the type invariant; an open pool has a source and its reset handler |
| `SourceClosed` | the source is left open only by the four failures listed |
| `KeysArrive` | every keyword argument reaches the driver once |
| `UriSurvives` | the caller's dict keeps its uri |
| `AcceptedRender` | an accepted configuration renders |
| `FieldsArrive` | every field arrives but those of `MayGetLost` |

`IInv` ties the phase of a pool to its source (`PhaseSource`), the caller's dict to
the request (`DictKept`) and what was sent to both (`SentIsArguments`): a later pool
made of the same dict is where the properties would fail first. The configurations are
proved about without the state machine. `Tables` looks at the fourteen warehouses one by one
for two facts: a mode without a uri names every field that `to_adbc_kwargs` asserts, and
a part of a uri other than the port makes the uri be built. From these
`AcceptedRenders` and `FieldsCarried` follow for all of them alike.

### 5.5 Only model-checked

The liveness properties, which are out of the prover's reach: `RecoveryCompletes`, `EveryCallEnds`,
`CancelledCallEnds`, `CheckInCompletes`, `CheckoutEnds`, `EveryStepEnds`, `GuardReleased`.
The counterexamples of section 6 are TLC's.

## 6. Where the code and its documents disagree

With a run that shows it:

- `offload_joined`: the recovery closes the connection while the aborted worker
  may still be in the driver (`_cancel.py` 185-193); the async guide says the
  worker is joined first.
- `offload_hook`: an `adbc_cancel` that raises replaces the cancellation and skips
  the recovery, so the connection is not dropped.
- `pool_holdwait`: checkouts that wait for a connection hold all the tokens, and the
  sessions that have the connections wait for one, until a checkout times out.
- `pool_dropped`: the check-in of a session whose connection was already dropped
  waits, shielded, for a token that calls that hang may hold.
- `conn_shared`: leaving the `async with` block while another task's call is in
  flight puts the connection back with the call still at work in it.
- `factory_empty`: `PostgreSQLConfig()` renders no arguments so that libpq may look at
  its environment, but with the driver's package installed its `connect()` requires
  the uri and `create_pool` raises `KeyError`. `FlightSQLConfig()` does the same.
- `factory_memory`: the configuration's `pool_size` is never read; the pool of
  an in-memory DuckDB has `create_pool`'s default of five connections.

Without one, but visible in the models:

- `adbc_cancel` may also be called before the driver call, and after it, when the
  worker has given its token back and another call may have it (`WatcherAborts` looks at
  `worker_started` only), against `_cancel.py` 129.
- An aborted connection whose `adbc_cancel` or whose `invalidate` has raised stays with its
  session, and `__aexit__` checks it in for the next one (`RecoveryFails`, `HookFails` in
  `AsyncPool` and their siblings in `AsyncConnection`), against the guarantee of
  `_connection.py` 70 that none comes back in an unknown state.
- If the recovery failed and the aborted call returned without an error, the
  caller gets the cancellation and `abort_error` is dropped (`RaisesCancelled`
  with no group members), against `_cancel.py` 154.
- A recovery runs outside the pool's limiter, so offloads at work can exceed
  `pool_size + max_overflow` by one per cancelled call, against the async guide, line 133.
  `OffloadsBounded` is the bound that holds for those with a connection to drop; a
  recovery that finds none (a cursor of a dropped session, cancelled again) is over at once
  and not counted.
- The checkout's `timeout` starts when its thread does; the wait for a token before
  it is not bounded (`CheckoutTimesOut`), against the configuration guide, line 62.
- A connection that is out while the pool is closed comes back into the disposed
  pool and stays open (`Dispose` then `CheckedIn`), against the lifecycle guide, line 64.
- Fields that never arrive (`MayGetLost`): a PostgreSQL or Redshift `port` set alone, a
  `password` without a `user`, `use_copy`; Databricks' `auth_type`, `client_id` and
  `client_secret`, without a `token` not even accepted, against `_databricks_config.py` 22.
- `schema` fields with a `validation_alias` do not get the prefix their docstrings name
  for the environment variable (`_snowflake_config.py` 77-79 and its siblings); the
  reading of the environment is pydantic's and not in the model.
- A half-installed anyio is reported as a missing extra (`AnyioAbsent`), against the
  comment at `__init__.py` 92-96.
- The source is left open if `QueuePool(...)` or the limiter of the async pool
  refuses its arguments, or `dispose` raises (`SourceLeaksOnlyOnFailure` lists
  the four).

## 7. Not modelled

- The values, quoting and key names of the configurations, the environment and secrets;
  a field assigned after the construction, which pydantic does not validate again.
- Exceptions as classes, wording, logging.
- Native asyncio cancellation, which may end a plain offload under its thread.
- That a deadline around `commit` or `rollback` does not end it while its thread runs,
  and that tasks taking turns on a connection share its transaction: both are in the
  models, neither is promised otherwise.
- A connection shared by tasks inside `AsyncPool`: `conn_shared` already shows that it
  goes back with a call at work; its next session adds only the consequence.
- The rows of a cursor: a fetch that ends as it is cancelled has consumed rows that
  nobody gets; `SurvivorSettled` says that it ran to its end.
- `pre_ping`, and the reset's rollback on the driver side.
- Tests, benchmarks, documents and examples; they are read as statements of intent.

## 8. Plan

Done, in this order: `CancellableOffload` with its contract and proofs,
`AsyncPool` over `ConnectionPool`, `AsyncConnection`, `PoolFactory`; then both
event loops, recycling and failed reconnections, the bound on threads,
`Configurations` and the lazy import; then the proofs of `AsyncPool`, its refinement,
`AsyncConnection` and `PoolFactory`; then the late abort, failing aborts and recoveries in the
pool and on the connection, and cursors that outlive their connection, with the
proofs of all three modules redone for them.

Left open:

1. What the contracts themselves promise (`OffloadContract`, `ConnectionPool`), as
   theorems about them that the refinements carry over to the detailed modules.
2. The safety halves of `CheckoutEnds` and `EveryStepEnds`: every borrower has a step
   to take, or is in a driver call.
