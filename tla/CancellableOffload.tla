--------------------------- MODULE CancellableOffload ---------------------------
(***************************************************************************)
(* One cancellable offload (_async/_cancel.py, _async/_offload.py): a      *)
(* driver call that runs on a worker thread while a watcher task waits, on *)
(* the event loop, to abort it.  A call is a task group of two tasks       *)
(*                                                                         *)
(*   worker    queued -> entering -> committed -> awaiting -> returned     *)
(*             (limiter)  (token)    (no way back) (thread runs)  / failed *)
(*   watcher   parked -> quit | woken -> recovering -> raised | hook_failed *)
(*                                                                         *)
(* plus a thread inside the driver and the enclosing cancel scope.  The    *)
(* calls share one CapacityLimiter; each has a connection of its own, so   *)
(* the recovery of one never waits for the recovery of another.            *)
(***************************************************************************)
EXTENDS SequencesExt

CONSTANTS
    Calls,              \* the cancellable_offload calls, each made once
    Tokens,             \* CapacityLimiter(pool_size + max_overflow)
    HookMayFail,        \* adbc_cancel may itself raise
    RecoveryMayFail,    \* on_abort (fairy.invalidate) may raise
    Backends            \* the event loops a call may run on: they differ in
                        \* the exception group that a task group raises

ASSUME CallsAssumption  == IsFiniteSet(Calls)
ASSUME TokensAssumption == Tokens \in Nat \ {0}
ASSUME DriverAssumption == /\ HookMayFail \in BOOLEAN
                           /\ RecoveryMayFail \in BOOLEAN
ASSUME BackendsAssumption == Backends \subseteq {"asyncio", "trio"} /\ Backends # {}

VARIABLES
    cancelled,       \* the scope around the call has been cancelled
    caller,          \* what `await cancellable_offload(...)` gave its caller
    watcher, worker, \* the two tasks of the call's task group
    worker_started, done, aborted_by_us,   \* the flags the two tasks share
    waiters,         \* FIFO of the calls queued at the limiter
    borrowers,       \* the calls that hold one of its tokens
    thread,          \* the worker thread, outside or inside the driver
    interrupt,       \* the driver has an adbc_cancel to honour for this call
    recovery         \* the poison recovery (AsyncConnection.invalidate)

vars == <<cancelled, caller, watcher, worker, worker_started, done,
          aborted_by_us, waiters, borrowers, thread, interrupt, recovery>>

Outcome == {"value", "cancelled", "worker_error", "hook_error", "abort_error", "group"}

TypeOK ==
    /\ cancelled \in [Calls -> BOOLEAN]
    /\ caller \in [Calls -> {"idle", "joining"} \cup Outcome]
    /\ watcher \in [Calls -> {"off", "parked", "woken", "recovering", "quit", "raised", "hook_failed"}]
    /\ worker \in [Calls -> {"off", "queued", "entering", "committed", "awaiting",
                             "returned", "failed", "cancelled"}]
    /\ worker_started \in [Calls -> BOOLEAN]
    /\ done \in [Calls -> BOOLEAN]
    /\ aborted_by_us \in [Calls -> BOOLEAN]
    /\ waiters \in Seq(Calls)
    /\ borrowers \subseteq Calls
    /\ thread \in [Calls -> {"none", "spawned", "driver", "ok", "error", "interrupted"}]
    /\ interrupt \in [Calls -> BOOLEAN]
    /\ recovery \in [Calls -> {"none", "queued", "running", "ok", "failed"}]
    \* A recovery is only ever run for a call that is marked as ours to attribute.
    /\ \A c \in Calls : recovery[c] # "none" <=> aborted_by_us[c]

Init ==
    /\ cancelled = [c \in Calls |-> FALSE]
    /\ caller = [c \in Calls |-> "idle"]
    /\ watcher = [c \in Calls |-> "off"]
    /\ worker = [c \in Calls |-> "off"]
    /\ worker_started = [c \in Calls |-> FALSE]
    /\ done = [c \in Calls |-> FALSE]
    /\ aborted_by_us = [c \in Calls |-> FALSE]
    /\ waiters = <<>>
    /\ borrowers = {}
    /\ thread = [c \in Calls |-> "none"]
    /\ interrupt = [c \in Calls |-> FALSE]
    /\ recovery = [c \in Calls |-> "none"]

---------------------------------------------------------------------------
(* Helpers *)

InDriverThread(c) == thread[c] \in {"spawned", "driver"}

\* The watcher's wait can still be interrupted: the event is not set.
Waits(c) == watcher[c] = "parked" /\ ~done[c]

\* A child that fails cancels its task group, and with it a watcher that waits.
GroupCancels(c, how) ==
    watcher' = IF how = "failed" /\ watcher[c] = "parked" /\ ~done'[c]
               THEN [watcher EXCEPT ![c] = "woken"] ELSE watcher

\* Defect: the watcher is released on the success path only.
DefectDoneOnlyOnSuccess(c, how) ==
    /\ worker' = [worker EXCEPT ![c] = how]
    /\ borrowers' = borrowers \ {c}
    /\ done' = [done EXCEPT ![c] = (how = "returned")]
    /\ GroupCancels(c, how)

\* Defect: a failed call keeps its token.
DefectTokenKept(c, how) ==
    /\ worker' = [worker EXCEPT ![c] = how]
    /\ borrowers' = IF how = "failed" THEN borrowers ELSE borrowers \ {c}
    /\ done' = [done EXCEPT ![c] = TRUE]
    /\ GroupCancels(c, how)

\* The worker task ends as `how`: the token goes back (async with limiter) and
\* the `finally` releases the watcher, with no checkpoint between the two, before
\* the task group hears of it.
WorkerEnds(c, how) ==
    /\ worker' = [worker EXCEPT ![c] = how]
    /\ borrowers' = borrowers \ {c}
    /\ done' = [done EXCEPT ![c] = TRUE]
    /\ GroupCancels(c, how)

---------------------------------------------------------------------------
(* The caller and its scope *)

\* The task group starts the watcher, which parks, and the worker, which joins
\* the limiter's queue.
StartCall(c) ==
    /\ caller[c] = "idle"
    /\ caller' = [caller EXCEPT ![c] = "joining"]
    /\ watcher' = [watcher EXCEPT ![c] = "parked"]
    /\ worker' = [worker EXCEPT ![c] = "queued"]
    /\ waiters' = Append(waiters, c)
    /\ UNCHANGED <<cancelled, worker_started, done, aborted_by_us, borrowers,
                   thread, interrupt, recovery>>

\* A timeout or an explicit cancel of the scope around the call.  What becomes of
\* the watcher is decided here, when the cancellation is delivered to its wait,
\* and not when the watcher next runs: an event already set wins, and one that is
\* set later does not undo the cancellation.
CancelScope(c) ==
    /\ caller[c] = "joining"
    /\ ~cancelled[c]
    /\ cancelled' = [cancelled EXCEPT ![c] = TRUE]
    /\ watcher' = IF Waits(c) THEN [watcher EXCEPT ![c] = "woken"] ELSE watcher
    /\ UNCHANGED <<caller, worker, worker_started, done, aborted_by_us,
                   waiters, borrowers, thread, interrupt, recovery>>

---------------------------------------------------------------------------
(* The worker task *)

\* Defect: worker_started is set by the thread, not when the token is acquired.
DefectFlagNotSetAtAcquire(c) ==
    /\ waiters # <<>> /\ Head(waiters) = c
    /\ worker[c] = "queued"
    /\ Cardinality(borrowers) < Tokens
    /\ borrowers' = borrowers \cup {c}
    /\ waiters' = Tail(waiters)
    /\ worker' = [worker EXCEPT ![c] = "entering"]
    /\ UNCHANGED <<cancelled, caller, watcher, worker_started, done, aborted_by_us,
                   thread, interrupt, recovery>>

\* The first waiter borrows a free token and, in the same loop step, on_dispatch
\* (_mark_started) sets worker_started.
AcquireToken(c) ==
    /\ waiters # <<>> /\ Head(waiters) = c
    /\ worker[c] = "queued"
    /\ Cardinality(borrowers) < Tokens
    /\ borrowers' = borrowers \cup {c}
    /\ waiters' = Tail(waiters)
    /\ worker' = [worker EXCEPT ![c] = "entering"]
    /\ worker_started' = [worker_started EXCEPT ![c] = TRUE]
    /\ UNCHANGED <<cancelled, caller, watcher, done, aborted_by_us, thread,
                   interrupt, recovery>>

\* A cancellation reaches the worker while it waits for a token: it leaves the
\* queue without ever having had one.
CancelQueued(c) ==
    /\ worker[c] = "queued"
    /\ cancelled[c]
    /\ \E i \in DOMAIN waiters : waiters[i] = c /\ waiters' = RemoveAt(waiters, i)
    /\ WorkerEnds(c, "cancelled")
    /\ UNCHANGED <<cancelled, caller, worker_started, aborted_by_us,
                   thread, interrupt, recovery>>

\* to_thread.run_sync opens with a checkpoint: a pending cancellation is raised
\* there, after worker_started and before the thread exists.
CancelAtCheckpoint(c) ==
    /\ worker[c] = "entering"
    /\ cancelled[c]
    /\ WorkerEnds(c, "cancelled")
    /\ UNCHANGED <<cancelled, caller, worker_started, aborted_by_us,
                   waiters, thread, interrupt, recovery>>

PassCheckpoint(c) ==
    /\ worker[c] = "entering"
    /\ ~cancelled[c]
    /\ worker' = [worker EXCEPT ![c] = "committed"]
    /\ UNCHANGED <<cancelled, caller, watcher, worker_started, done, aborted_by_us,
                   waiters, borrowers, thread, interrupt, recovery>>

\* The thread gets the call; from here the await is shielded
\* (abandon_on_cancel=False) and ends only when the thread returns.
DispatchThread(c) ==
    /\ worker[c] = "committed"
    /\ worker' = [worker EXCEPT ![c] = "awaiting"]
    /\ thread' = [thread EXCEPT ![c] = "spawned"]
    /\ UNCHANGED <<cancelled, caller, watcher, worker_started, done, aborted_by_us,
                   waiters, borrowers, interrupt, recovery>>

\* Defect: abandon_on_cancel=True, a cancelled worker leaves its thread behind.
DefectAbandonOnCancel(c) ==
    /\ worker[c] = "awaiting"
    /\ IF thread[c] = "ok" THEN WorkerEnds(c, "returned")
       ELSE IF InDriverThread(c) THEN cancelled[c] /\ WorkerEnds(c, "cancelled")
       ELSE WorkerEnds(c, "failed")
    /\ UNCHANGED <<cancelled, caller, worker_started, aborted_by_us,
                   waiters, thread, interrupt, recovery>>

\* The thread has returned: its result, or its error, is the worker's.
JoinThread(c) ==
    /\ worker[c] = "awaiting"
    /\ ~InDriverThread(c)
    /\ WorkerEnds(c, IF thread[c] = "ok" THEN "returned" ELSE "failed")
    /\ UNCHANGED <<cancelled, caller, worker_started, aborted_by_us,
                   waiters, thread, interrupt, recovery>>

---------------------------------------------------------------------------
(* The thread and the driver (external: adbc_driver_manager) *)

\* The call enters the driver; on a connection the recovery has already closed
\* it fails at once.
DriverEnters(c) ==
    /\ thread[c] = "spawned"
    /\ thread' = [thread EXCEPT ![c] = IF recovery[c] = "ok" THEN "interrupted" ELSE "driver"]
    /\ UNCHANGED <<cancelled, caller, watcher, worker, worker_started, done,
                   aborted_by_us, waiters, borrowers, interrupt, recovery>>

\* The call ends by itself, with a result or with an error of its own.
DriverReturns(c) ==
    /\ thread[c] = "driver"
    /\ \E how \in {"ok", "error"} : thread' = [thread EXCEPT ![c] = how]
    /\ UNCHANGED <<cancelled, caller, watcher, worker, worker_started, done,
                   aborted_by_us, waiters, borrowers, interrupt, recovery>>

\* The call ends because of adbc_cancel: it raises the driver's interrupt, or
\* returns early without an error.
DriverInterrupted(c) ==
    /\ thread[c] = "driver"
    /\ interrupt[c]
    /\ \E how \in {"ok", "interrupted"} : thread' = [thread EXCEPT ![c] = how]
    /\ UNCHANGED <<cancelled, caller, watcher, worker, worker_started, done,
                   aborted_by_us, waiters, borrowers, interrupt, recovery>>

---------------------------------------------------------------------------
(* The watcher task *)

\* Defect: the try covers a second await, at which a late cancellation is raised.
DefectAwaitsAfterDone(c) ==
    /\ watcher[c] = "parked"
    /\ done[c]
    /\ watcher' = [watcher EXCEPT ![c] = IF cancelled[c] THEN "woken" ELSE "quit"]
    /\ UNCHANGED <<cancelled, caller, worker, worker_started, done, aborted_by_us,
                   waiters, borrowers, thread, interrupt, recovery>>

\* done.wait() returns: the call is over and there is nothing to abort.
WatcherReleased(c) ==
    /\ watcher[c] = "parked"
    /\ done[c]
    /\ watcher' = [watcher EXCEPT ![c] = "quit"]
    /\ UNCHANGED <<cancelled, caller, worker, worker_started, done, aborted_by_us,
                   waiters, borrowers, thread, interrupt, recovery>>

\* The cancellation was delivered to the wait: the watcher runs its except branch,
\* even if the worker has meanwhile given its token back and set done.
WatcherWoken(c) == watcher[c] = "woken"

\* The worker holds no token yet: there is nothing to abort, the cancellation
\* is re-raised.
WatcherStandsDown(c) ==
    /\ WatcherWoken(c)
    /\ ~worker_started[c]
    /\ watcher' = [watcher EXCEPT ![c] = "raised"]
    /\ UNCHANGED <<cancelled, caller, worker, worker_started, done, aborted_by_us,
                   waiters, borrowers, thread, interrupt, recovery>>

\* adbc_cancel reaches a call that is inside the driver; of one that has yet to
\* enter it, some drivers remember it and others do not.
CancelLands(c) == IF thread[c] = "driver" THEN {TRUE}
                  ELSE IF thread[c] \in {"none", "spawned"} THEN BOOLEAN ELSE {FALSE}

\* Defect: aborted_by_us is set after on_abort, too late for a recovery that fails.
DefectFlagAfterRecovery(c) ==
    /\ WatcherWoken(c)
    /\ worker_started[c]
    /\ \E lands \in CancelLands(c) : interrupt' = [interrupt EXCEPT ![c] = lands]
    /\ watcher' = [watcher EXCEPT ![c] = "recovering"]
    /\ recovery' = [recovery EXCEPT ![c] = "queued"]
    /\ UNCHANGED <<cancelled, caller, worker, worker_started, done, aborted_by_us,
                   waiters, borrowers, thread>>

\* Defect: the recovery is skipped for a call that has ended by now.
DefectNoRecoveryOnceOver(c) ==
    /\ WatcherWoken(c)
    /\ worker_started[c]
    /\ aborted_by_us' = [aborted_by_us EXCEPT ![c] = TRUE]
    /\ \E lands \in CancelLands(c) : interrupt' = [interrupt EXCEPT ![c] = lands]
    /\ watcher' = [watcher EXCEPT ![c] = IF done[c] THEN "raised" ELSE "recovering"]
    /\ recovery' = IF done[c] THEN recovery ELSE [recovery EXCEPT ![c] = "queued"]
    /\ UNCHANGED <<cancelled, caller, worker, worker_started, done, waiters,
                   borrowers, thread>>

\* adbc_cancel() and, still shielded, on_abort(): gated on worker_started alone, so
\* the call may be over by now.
WatcherAborts(c) ==
    /\ WatcherWoken(c)
    /\ worker_started[c]
    /\ aborted_by_us' = [aborted_by_us EXCEPT ![c] = TRUE]
    /\ \E lands \in CancelLands(c) : interrupt' = [interrupt EXCEPT ![c] = lands]
    /\ watcher' = [watcher EXCEPT ![c] = "recovering"]
    /\ recovery' = [recovery EXCEPT ![c] = "queued"]
    /\ UNCHANGED <<cancelled, caller, worker, worker_started, done, waiters,
                   borrowers, thread>>

\* adbc_cancel() raises: outside the inner try, so neither aborted_by_us is set
\* nor the recovery run, and the error leaves the watcher.
HookFails(c) ==
    /\ HookMayFail
    /\ WatcherWoken(c)
    /\ worker_started[c]
    /\ watcher' = [watcher EXCEPT ![c] = "hook_failed"]
    /\ UNCHANGED <<cancelled, caller, worker, worker_started, done, aborted_by_us,
                   waiters, borrowers, thread, interrupt, recovery>>

\* Defect: invalidate offloads under the pool's limiter.
DefectRecoveryUsesPoolToken(c) ==
    /\ recovery[c] = "queued"
    /\ Cardinality(borrowers) < Tokens
    /\ recovery' = [recovery EXCEPT ![c] = "running"]
    /\ UNCHANGED <<cancelled, caller, watcher, worker, worker_started, done,
                   aborted_by_us, waiters, borrowers, thread, interrupt>>

\* invalidate is offloaded under the connection's private teardown limiter: it
\* needs no token of the pool.
RecoveryStarts(c) ==
    /\ recovery[c] = "queued"
    /\ recovery' = [recovery EXCEPT ![c] = "running"]
    /\ UNCHANGED <<cancelled, caller, watcher, worker, worker_started, done,
                   aborted_by_us, waiters, borrowers, thread, interrupt>>

RecoveryEnds(c) ==
    /\ recovery[c] = "running"
    /\ \E how \in {"ok"} \cup (IF RecoveryMayFail THEN {"failed"} ELSE {}) :
          recovery' = [recovery EXCEPT ![c] = how]
    /\ UNCHANGED <<cancelled, caller, watcher, worker, worker_started, done,
                   aborted_by_us, waiters, borrowers, thread, interrupt>>

\* Defect: without the shield the watcher leaves its recovery half-way.
DefectRecoveryNotShielded(c) ==
    /\ watcher[c] = "recovering"
    /\ watcher' = [watcher EXCEPT ![c] = "raised"]
    /\ UNCHANGED <<cancelled, caller, worker, worker_started, done, aborted_by_us,
                   waiters, borrowers, thread, interrupt, recovery>>

\* Defect: the watcher swallows the cancellation it caught.
DefectWatcherSwallows(c) ==
    /\ watcher[c] = "recovering"
    /\ recovery[c] \in {"ok", "failed"}
    /\ watcher' = [watcher EXCEPT ![c] = "quit"]
    /\ UNCHANGED <<cancelled, caller, worker, worker_started, done, aborted_by_us,
                   waiters, borrowers, thread, interrupt, recovery>>

\* The recovery has ended, its error if any is kept in abort_error; the watcher
\* re-raises the cancellation.
WatcherReraises(c) ==
    /\ watcher[c] = "recovering"
    /\ recovery[c] \in {"ok", "failed"}
    /\ watcher' = [watcher EXCEPT ![c] = "raised"]
    /\ UNCHANGED <<cancelled, caller, worker, worker_started, done, aborted_by_us,
                   waiters, borrowers, thread, interrupt, recovery>>

---------------------------------------------------------------------------
(* The task group ends and the caller gets an outcome *)

ChildrenDone(c) == /\ caller[c] = "joining"
                   /\ watcher[c] \in {"quit", "raised", "hook_failed"}
                   /\ worker[c] \in {"returned", "failed", "cancelled"}

\* The errors among the two tasks' ends.
Errors(c) == {t \in {"watcher", "worker"} :
                 \/ t = "watcher" /\ watcher[c] = "hook_failed"
                 \/ t = "worker" /\ worker[c] = "failed"}

\* The tasks that ended in a cancellation.
Cancellations(c) == {t \in {"watcher", "worker"} :
                        \/ t = "watcher" /\ watcher[c] = "raised"
                        \/ t = "worker" /\ worker[c] = "cancelled"}

\* The members of the group the task group raises.  asyncio's drops the
\* cancellations of its children; trio's keeps those that a scope outside asked
\* for, beside the errors.
GroupMembers(c, backend) ==
    IF backend = "trio" /\ cancelled[c] /\ Errors(c) # {}
    THEN Errors(c) \cup Cancellations(c) ELSE Errors(c)

CallerGets(c, outcome) ==
    /\ ChildrenDone(c)
    /\ caller' = [caller EXCEPT ![c] = outcome]
    /\ UNCHANGED <<cancelled, watcher, worker, worker_started, done, aborted_by_us,
                   waiters, borrowers, thread, interrupt, recovery>>

\* return result["v"]
ReturnsValue(c) ==
    /\ Errors(c) = {} /\ watcher[c] = "quit" /\ worker[c] = "returned"
    /\ CallerGets(c, "value")

\* Without a group the cancellation reaches the task that joins; with one, our
\* own interrupt is swallowed and the cancellation raised in its place.
RaisesCancelled(c) ==
    /\ \/ Errors(c) = {} /\ cancelled[c]
       \/ Errors(c) # {} /\ aborted_by_us[c] /\ recovery[c] # "failed"
    /\ CallerGets(c, "cancelled")

\* Defect: the interrupt is swallowed before the failed recovery is looked at.
DefectAbortErrorSwallowed(c) ==
    /\ Errors(c) # {} /\ aborted_by_us[c] /\ recovery[c] = "failed"
    /\ CallerGets(c, "cancelled")

\* The failed recovery, in place of the interrupt.
RaisesAbortError(c) ==
    /\ Errors(c) # {} /\ aborted_by_us[c] /\ recovery[c] = "failed"
    /\ CallerGets(c, "abort_error")

\* A lone error leaves bare.
UnwrapsLoneError(c, backend) ==
    /\ Cardinality(GroupMembers(c, backend)) = 1 /\ ~aborted_by_us[c]
    /\ CallerGets(c, IF worker[c] = "failed" THEN "worker_error" ELSE "hook_error")

\* Defect: a lone error is left in its group.
DefectGroupLeaks(c, backend) ==
    /\ Errors(c) # {} /\ ~aborted_by_us[c]
    /\ CallerGets(c, "group")

\* Several errors leave as the group.
RaisesGroup(c, backend) ==
    /\ Cardinality(GroupMembers(c, backend)) > 1 /\ ~aborted_by_us[c]
    /\ CallerGets(c, "group")

---------------------------------------------------------------------------

Over(c) == caller[c] \in Outcome

\* Every call has been made and is over: nothing is left to do.
Finished == (\A c \in Calls : Over(c)) /\ UNCHANGED vars

WorkerStep(c) == \/ AcquireToken(c) \/ CancelQueued(c) \/ CancelAtCheckpoint(c)
                 \/ PassCheckpoint(c) \/ DispatchThread(c) \/ JoinThread(c)

WatcherStep(c) == \/ WatcherReleased(c) \/ WatcherStandsDown(c) \/ WatcherAborts(c)
                  \/ HookFails(c) \/ WatcherReraises(c)

RecoveryStep(c) == RecoveryStarts(c) \/ RecoveryEnds(c)

JoinStep(c) == \/ ReturnsValue(c) \/ RaisesCancelled(c) \/ RaisesAbortError(c)
               \/ \E backend \in Backends : UnwrapsLoneError(c, backend) \/ RaisesGroup(c, backend)

Next == \/ \E c \in Calls : \/ StartCall(c) \/ CancelScope(c)
                            \/ WorkerStep(c) \/ WatcherStep(c) \/ RecoveryStep(c)
                            \/ DriverEnters(c) \/ DriverReturns(c) \/ DriverInterrupted(c)
                            \/ JoinStep(c)
        \/ Finished

Spec == Init /\ [][Next]_vars

\* The event loop runs every ready task and the operating system every thread;
\* nothing is assumed of callers, of scopes, or of how long the driver takes.
LoopFairness == \A c \in Calls : /\ WF_vars(WorkerStep(c))
                                 /\ WF_vars(WatcherStep(c))
                                 /\ WF_vars(RecoveryStep(c))
                                 /\ WF_vars(DriverEnters(c))
                                 /\ WF_vars(JoinStep(c))

\* A driver that honours adbc_cancel.
HonoursCancel == \A c \in Calls : WF_vars(DriverInterrupted(c))

CancelSpec == Spec /\ LoopFairness /\ HonoursCancel

---------------------------------------------------------------------------
(* Safety *)

\* The tokens of the limiter match the workers that are between acquire and
\* release, whatever ended the worker: none is leaked by a cancellation in the
\* queue, at the checkpoint or by an error, and never more than Tokens are out
\* (offload, `async with limiter`).
TokensMatchWorkers ==
    /\ borrowers = {c \in Calls : worker[c] \in {"entering", "committed", "awaiting"}}
    /\ Cardinality(borrowers) <= Tokens

\* At most Tokens threads are at work for the pool at any time, cancelled calls
\* included: a cancelled worker is joined, not abandoned, so its token is not
\* handed on while its thread is still in the driver (abandon_on_cancel=False).
DriverConcurrencyBounded == Cardinality({c \in Calls : InDriverThread(c)}) <= Tokens

\* A call that has returned to its caller left nothing behind that could touch
\* the connection: no thread, no token, no recovery under way (the shield around
\* the abort, the task group's join).
NothingOutlivesTheCall ==
    \A c \in Calls : Over(c) => /\ ~InDriverThread(c)
                                /\ c \notin borrowers
                                /\ recovery[c] \notin {"queued", "running"}

\* No call blocks in the driver without a watcher able to abort it, or one that
\* has: a watcher that stood down because it read worker_started as FALSE never
\* belongs to a call whose thread is dispatched later (CR-01), and one that is
\* about to run will find the flag set.
NoUnwatchedThread ==
    \A c \in Calls : InDriverThread(c) => \/ watcher[c] = "parked"
                                          \/ WatcherWoken(c) /\ worker_started[c]
                                          \/ aborted_by_us[c]
                                          \/ watcher[c] = "hook_failed"

\* A call whose connection was recovered never looks like a success nor like a
\* failure of the query: its caller sees the cancellation or the failed recovery
\* (WR-01/WR-04, the aborted_by_us branch).
AbortedCallRaises ==
    \A c \in Calls : Over(c) /\ recovery[c] # "none" => caller[c] \in {"cancelled", "abort_error"}

\* Only a cancellation from outside poisons a connection: an error of the worker
\* cancels the task group, but the watcher has been released by then and neither
\* aborts nor recovers (the `finally` of _worker).
ErrorNeverAborts == \A c \in Calls : recovery[c] # "none" => cancelled[c]

\* An error of the driver call itself reaches the caller bare, unless the call
\* was aborted or the hook failed as well (EDGE-17/19).
GenuineErrorSurfacesBare ==
    \A c \in Calls : /\ Over(c) /\ thread[c] = "error"
                     /\ ~aborted_by_us[c] /\ watcher[c] # "hook_failed"
                     => caller[c] = "worker_error"

\* A recovery that failed while the aborted call raised is what the caller sees,
\* not the cancellation: the connection may still be in the pool (WR-02, the
\* abort_error branch).  Of an aborted call that did not raise it is lost.
FailedRecoverySurfaces ==
    \A c \in Calls : Over(c) /\ recovery[c] = "failed" /\ worker[c] = "failed"
                     => caller[c] = "abort_error"

\* A connection that survives the cancellation of a call is in a known state: the
\* call never had a thread, or ran to its end there and only its value is lost
\* (the rows of a fetch with it); whatever was cut short is dropped.
SurvivorSettled ==
    \A c \in Calls : caller[c] = "cancelled" /\ recovery[c] = "none"
                     => thread[c] \in {"none", "ok"}

\* The same call gets the same outcome on both event loops unless the hook
\* failed: where the groups differ, the call is known to be aborted and their
\* members are not looked at (`len(eg.exceptions) == 1` counts trio's
\* cancellations too).
BackendParity ==
    \A c \in Calls : ChildrenDone(c) /\ ~aborted_by_us[c] /\ watcher[c] # "hook_failed"
                     => GroupMembers(c, "trio") = GroupMembers(c, "asyncio")

\* A call that was over before it was cancelled is never aborted, and its connection
\* stays in the pool: the event was set, so the cancellation finds no wait to
\* interrupt.  (A call cancelled first may be over by the time its abort begins.)
LateCancelKeepsConnection ==
    \A c \in Calls : [](done[c] /\ ~cancelled[c] => [](recovery[c] = "none"))

---------------------------------------------------------------------------
(* The contract *)

Phase(c) == IF caller[c] = "joining"
            THEN IF thread[c] = "none" THEN "waiting"
                 ELSE IF InDriverThread(c) THEN "running" ELSE "settling"
            ELSE IF caller[c] \in {"idle", "value", "cancelled"} THEN caller[c] ELSE "error"

Conn(c) == IF recovery[c] = "none" THEN "clean"
           ELSE IF recovery[c] \in {"queued", "running"} THEN "dropping"
           ELSE IF recovery[c] = "failed" THEN "kept" ELSE "dropped"

phaseBar == [c \in Calls |-> Phase(c)]
connBar  == [c \in Calls |-> Conn(c)]

Contract == INSTANCE OffloadContract WITH phase <- phaseBar, conn <- connBar

\* cancellable_offload keeps the contract of OffloadContract.
ImplementsContract == Contract!Spec

---------------------------------------------------------------------------
(* Liveness *)

\* The two ways in which a cancellation goes unheeded: the hook raised, or it was
\* fired, once, before the call was in a driver that forgets such a cancel.
Unheeded(c) == \/ watcher[c] = "hook_failed"
               \/ aborted_by_us[c] /\ ~interrupt[c] /\ thread[c] = "driver"

\* A cancelled call ends, whether it is queued behind calls that hang, about to
\* be dispatched, or blocked in the driver itself, unless its cancellation goes
\* unheeded in one of two ways.  (CancelSpec)
CancelledCallEnds == \A c \in Calls : cancelled[c] ~> (Over(c) \/ Unheeded(c))

\* A recovery that was begun completes even if no driver call ever returns: it
\* needs neither the token of the call it recovers nor any other (WR-03).
RecoveryCompletes == \A c \in Calls : (recovery[c] = "queued") ~> (recovery[c] \in {"ok", "failed"})

\* If no driver call stays in the driver for ever, every call that was made ends
\* too: no token is lost and no waiter is overtaken for ever.
EveryCallEnds == (\A c \in Calls : []<>(~InDriverThread(c)))
                 => \A c \in Calls : (caller[c] = "joining") ~> Over(c)

---------------------------------------------------------------------------
(* What the documentation says and the code does not do *)

\* The worker is joined before its connection is dropped (docs, async guide).
WorkerJoinedBeforeRecovery ==
    \A c \in Calls : recovery[c] = "running" => ~InDriverThread(c)

\* A watcher that was cancelled re-raises the cancellation, always: the call
\* ends in it, or in the failed recovery that stands for it.
CancellationAlwaysReraised ==
    \A c \in Calls : Over(c) /\ watcher[c] # "quit" => caller[c] \in {"cancelled", "abort_error"}
===============================================================================
