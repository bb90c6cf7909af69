-------------------------------- MODULE AsyncPool --------------------------------
(*******************************************************************************)
(* The async pool (_async/_pool.py, _async/_connection.py) over SQLAlchemy's   *)
(* QueuePool: tasks check connections out, run calls on them and check them    *)
(* in.  Every blocking call, the checkout and the check-in included, is an     *)
(* offload that borrows a token of ONE limiter while its thread works:         *)
(*                                                                             *)
(*   outside -connect-> holding -execute/commit-> holding -__aexit__-> outside *)
(*                                                                             *)
(*   each arrow:  queued -> entering -> running -> (returned)                  *)
(*                (limiter) (token)     (thread)                               *)
(*                                                                             *)
(* A cancellable call (execute, fetch) is the one of CancellableOffload with   *)
(* its two tasks seen as one: a cancellation in the queue leaves no trace,     *)
(* later it aborts the call and recovers its connection with `invalidate`,     *)
(* which runs under a limiter of the connection's own.  Abort and recovery may *)
(* fail: then the connection stays with its session and goes back with it.     *)
(*******************************************************************************)
EXTENDS SequencesExt

CONSTANTS
    Tasks,        \* each runs one session at a time, on a connection of its own
    Observed,     \* those the liveness formulas speak of: tasks differ in nothing
                  \* but their name, so that one can stand for all
    Conns,        \* the pool's connection records
    NoConn,
    PoolSize, MaxOverflow,
    MayClose,     \* a task may close the pool (once)
    AbortMayFail  \* adbc_cancel and fairy.invalidate may raise

ASSUME PoolAssumption ==
    /\ Observed \subseteq Tasks
    /\ IsFiniteSet(Tasks) /\ IsFiniteSet(Conns) /\ NoConn \notin Conns
    /\ PoolSize \in Nat \ {0}
    /\ MaxOverflow \in Nat
    /\ MayClose \in BOOLEAN /\ AbortMayFail \in BOOLEAN
    \* so that a new connection always finds a name: the pool counts at most
    \* PoolSize + MaxOverflow; disposed, it forgets those that the tasks hold
    /\ Cardinality(Conns) >= IF MayClose THEN PoolSize + Cardinality(Tasks)
                                         ELSE PoolSize + MaxOverflow

VARIABLES
    step,       \* what the task's session is doing
    stage,      \* how far the offload of that step is
    cancelled,  \* the scope around that step has been cancelled
    recovery,   \* the abort of a cancelled call and its poison recovery
    fairy,      \* the record the task has taken out of the pool, if any
    waiters, borrowers,  \* the limiter: FIFO of tasks, tasks with a token
    idle,       \* the records in the pool's queue
    live,       \* the records with an open driver connection
    dirty,      \* the driver connections with an aborted call in them
    botched,    \* history: those whose abort or whose recovery raised, so that
                \* they are not dropped
    overflow,   \* QueuePool's counter: records out or idle, less PoolSize
    source      \* the ADBC source connection, and close_pool's progress on it

session == <<step, stage, cancelled, recovery, fairy>>
limiter == <<waiters, borrowers>>
pool    == <<idle, live, dirty, botched, overflow, source>>
vars    == <<session, limiter, pool>>

Step  == {"outside", "connecting", "holding", "executing", "committing",
          "closing", "disposing"}
Stage == {"none", "queued", "entering", "running", "waiting", "creating",
          "reconnecting", "disposed", "returned"}

\* stood_down: the watcher found the call in the queue; skipped: adbc_cancel
\* raised; running, done, failed: of the recovery itself.
Abort == {"none", "stood_down", "skipped", "running", "done", "failed"}

TypeOK ==
    /\ step \in [Tasks -> Step]
    /\ stage \in [Tasks -> Stage]
    /\ cancelled \in [Tasks -> BOOLEAN]
    /\ recovery \in [Tasks -> Abort]
    /\ fairy \in [Tasks -> Conns \cup {NoConn}]
    /\ waiters \in Seq(Tasks)
    /\ borrowers \subseteq Tasks
    /\ idle \subseteq Conns
    /\ live \subseteq Conns
    /\ botched \subseteq dirty /\ dirty \subseteq live
    /\ overflow \in Int
    /\ source \in {"open", "disposed", "closed"}
    \* A session's record has its driver connection, but for a checkout's own.
    /\ \A t \in Tasks : fairy[t] # NoConn /\ stage[t] # "reconnecting" => fairy[t] \in live

\* create_async_pool: no connection yet, the source is open.
Init ==
    /\ step = [t \in Tasks |-> "outside"]
    /\ stage = [t \in Tasks |-> "none"]
    /\ cancelled = [t \in Tasks |-> FALSE]
    /\ recovery = [t \in Tasks |-> "none"]
    /\ fairy = [t \in Tasks |-> NoConn]
    /\ waiters = <<>>
    /\ borrowers = {}
    /\ idle = {}
    /\ live = {}
    /\ dirty = {}
    /\ botched = {}
    /\ overflow = -PoolSize
    /\ source = "open"

---------------------------------------------------------------------------
(* The offload of a step *)

\* Defect: the limiter is sized to the steady state, overflow forgotten.
DefectTokensWithoutOverflow == PoolSize

\* Defect: one token more than there are connections.
DefectTokenToSpare == PoolSize + MaxOverflow + 1

\* CapacityLimiter(pool_size + max_overflow)
Tokens == PoolSize + MaxOverflow

\* The step joins the limiter's queue.
Offload(t, what) ==
    /\ stage[t] = "none"
    /\ step' = [step EXCEPT ![t] = what]
    /\ stage' = [stage EXCEPT ![t] = "queued"]
    /\ waiters' = Append(waiters, t)
    /\ UNCHANGED <<cancelled, recovery, fairy, borrowers, pool>>

\* Defect: a connection keeps the token of its checkout.
DefectKeepsToken(t, next) ==
    /\ step' = [step EXCEPT ![t] = next]
    /\ stage' = [stage EXCEPT ![t] = "none"]
    /\ cancelled' = [cancelled EXCEPT ![t] = FALSE]
    /\ recovery' = [recovery EXCEPT ![t] = "none"]
    /\ borrowers' = IF step[t] = "connecting" THEN borrowers ELSE borrowers \ {t}

\* The step is over, its token is back and its cancel scope left.
EndStep(t, next) ==
    /\ step' = [step EXCEPT ![t] = next]
    /\ stage' = [stage EXCEPT ![t] = "none"]
    /\ cancelled' = [cancelled EXCEPT ![t] = FALSE]
    /\ recovery' = [recovery EXCEPT ![t] = "none"]
    /\ borrowers' = borrowers \ {t}

\* A failed or cancelled call leaves the session on its connection; a failed
\* checkout leaves none.
GivesUp(t) == EndStep(t, IF step[t] = "connecting" THEN "outside" ELSE "holding")

AcquireToken(t) ==
    /\ waiters # <<>> /\ Head(waiters) = t
    /\ Cardinality(borrowers) < Tokens
    /\ borrowers' = borrowers \cup {t}
    /\ waiters' = Tail(waiters)
    /\ stage' = [stage EXCEPT ![t] = "entering"]
    /\ UNCHANGED <<step, cancelled, recovery, fairy, pool>>

\* Past the checkpoint of run_sync.  A cancellation that came before is raised
\* there; one that finds a cancellable call past it goes to the watcher.
DispatchThread(t) ==
    /\ stage[t] = "entering"
    /\ cancelled[t] => step[t] = "executing" /\ recovery[t] # "stood_down"
    /\ stage' = [stage EXCEPT ![t] = "running"]
    /\ UNCHANGED <<step, cancelled, recovery, fairy, limiter, pool>>

\* A timeout or a cancel of the scope around the step; the check-in and the
\* close of the pool are shielded from it, and a plain offload whose thread runs
\* defers it until the step is over.
CancelScope(t) ==
    /\ \/ step[t] \in {"connecting", "committing"} /\ stage[t] \in {"queued", "entering"}
       \/ step[t] = "executing"
    /\ ~cancelled[t]
    /\ cancelled' = [cancelled EXCEPT ![t] = TRUE]
    /\ UNCHANGED <<step, stage, recovery, fairy, limiter, pool>>

\* The cancellation finds the step in the limiter's queue.
CancelQueued(t) ==
    /\ stage[t] = "queued" /\ cancelled[t]
    /\ \E i \in DOMAIN waiters : waiters[i] = t /\ waiters' = RemoveAt(waiters, i)
    /\ GivesUp(t)
    /\ UNCHANGED <<fairy, pool>>

\* The cancellation has reached the watcher of a cancellable call, which runs next
\* (CancellableOffload, "woken").
WatcherWoken(t) == step[t] = "executing" /\ cancelled[t] /\ recovery[t] = "none"

\* The worker of such a call gives its token back before its watcher has run, or
\* before the recovery is over: the call waits for the watcher.
WorkerReturns(t) ==
    /\ stage' = [stage EXCEPT ![t] = "returned"]
    /\ borrowers' = borrowers \ {t}
    /\ UNCHANGED <<step, cancelled, recovery, fairy, waiters, pool>>

\* It finds the step with its token, before the thread is dispatched; once the
\* thread runs it is deferred.
CancelAtCheckpoint(t) ==
    /\ stage[t] = "entering" /\ cancelled[t]
    /\ \/ WatcherWoken(t) /\ WorkerReturns(t)
       \/ /\ \/ step[t] \in {"connecting", "committing"}
             \/ recovery[t] \in {"stood_down", "skipped"}
          /\ GivesUp(t)
          /\ UNCHANGED <<waiters, fairy, pool>>

---------------------------------------------------------------------------
(* The session's steps *)

\* AsyncPool.connect
Connect(t) == step[t] = "outside" /\ Offload(t, "connecting")

\* AsyncCursor.execute, executemany, fetchone ... fetch_arrow_table: each is a
\* cancellable offload, on a cursor that may have outlived its connection: there
\* the driver refuses the call, but only once it has been offloaded.
Execute(t) == step[t] = "holding" /\ Offload(t, "executing")

\* AsyncConnection.commit, rollback: plain offloads; a fairy whose connection was
\* dropped has no `commit` to offload.
Commit(t) == /\ step[t] = "holding" /\ fairy[t] # NoConn
             /\ Offload(t, "committing")

\* AsyncConnection.close and __aexit__: shielded.
CheckIn(t) == step[t] = "holding" /\ Offload(t, "closing")

\* AsyncPool.close: shielded.
Close(t) == /\ MayClose /\ source = "open"
            /\ \A u \in Tasks : step[u] # "disposing"
            /\ step[t] = "outside" /\ Offload(t, "disposing")

---------------------------------------------------------------------------
(* The cancellable call and the recovery of its connection *)

\* The call ends by itself: a value or the driver's error.  If a cancellation has
\* woken its watcher meanwhile, that is yet to come.
CallReturns(t) ==
    /\ step[t] \in {"executing", "committing"} /\ stage[t] = "running"
    /\ \/ WatcherWoken(t) /\ WorkerReturns(t)
       \/ /\ ~WatcherWoken(t) /\ recovery[t] \in {"none", "skipped"}
          /\ GivesUp(t)
          /\ UNCHANGED <<waiters, fairy, pool>>

\* The watcher finds its call in the queue: worker_started is FALSE.
WatcherStandsDown(t) ==
    /\ WatcherWoken(t) /\ stage[t] = "queued"
    /\ recovery' = [recovery EXCEPT ![t] = "stood_down"]
    /\ UNCHANGED <<step, stage, cancelled, fairy, limiter, pool>>

\* worker_started: the call has, or has had, its token.
Started(t) == stage[t] \in {"entering", "running", "returned"}

\* cancellable_offload aborts the call, which may not have been dispatched yet, or
\* be over already: its connection is no longer fit for use.
AbortCall(t) ==
    /\ WatcherWoken(t) /\ Started(t)
    /\ recovery' = [recovery EXCEPT ![t] = "running"]
    /\ dirty' = dirty \cup ({fairy[t]} \ {NoConn})
    /\ botched' = botched \ {fairy[t]}
    /\ UNCHANGED <<step, stage, cancelled, fairy, limiter, idle, live, overflow, source>>

\* adbc_cancel raises, whatever it did to the call: no recovery is begun, and the
\* call ends as it will.
HookFails(t) ==
    /\ AbortMayFail
    /\ WatcherWoken(t) /\ Started(t)
    /\ recovery' = [recovery EXCEPT ![t] = "skipped"]
    /\ dirty' = dirty \cup ({fairy[t]} \ {NoConn})
    /\ botched' = botched \cup ({fairy[t]} \ {NoConn})
    /\ UNCHANGED <<step, stage, cancelled, fairy, limiter, idle, live, overflow, source>>

\* The aborted call gives its token back, interrupted in the driver or never
\* dispatched.
AbortedReturns(t) ==
    /\ stage[t] \in {"entering", "running"}
    /\ recovery[t] \in {"running", "done", "failed"}
    /\ WorkerReturns(t)

\* QueuePool._do_return_conn: the record goes back to the queue, or, when the
\* queue is full, out of the pool; `dropped`: its driver connection was closed.
PutBack(c, dropped) ==
    LET full == Cardinality(idle) >= PoolSize
        closed == IF full \/ dropped THEN {c} ELSE {}
    IN  /\ idle' = IF full THEN idle ELSE idle \cup {c}
        /\ overflow' = IF full THEN overflow - 1 ELSE overflow
        /\ live' = live \ closed
        /\ dirty' = dirty \ closed
        /\ botched' = botched \ closed
        /\ UNCHANGED source

\* Defect: invalidate closes the driver connection behind the fairy's back.
DefectRecoveryClosesDriverOnly(t) ==
    /\ recovery[t] = "running"
    /\ live' = live \ {fairy[t]}
    /\ dirty' = dirty \ {fairy[t]}
    /\ recovery' = [recovery EXCEPT ![t] = "done"]
    /\ UNCHANGED <<step, stage, cancelled, fairy, limiter, idle, botched, overflow, source>>

\* Defect: invalidate puts the record back and leaves it with the session.
DefectRecoveryKeepsFairy(t) ==
    /\ recovery[t] = "running"
    /\ IF fairy[t] = NoConn THEN UNCHANGED pool ELSE PutBack(fairy[t], TRUE)
    /\ recovery' = [recovery EXCEPT ![t] = "done"]
    /\ UNCHANGED <<step, stage, cancelled, fairy, limiter>>

\* Defect: the recovery checks the connection in instead of dropping it.
DefectRecoveryChecksIn(t) ==
    /\ recovery[t] = "running"
    /\ IF fairy[t] = NoConn THEN UNCHANGED pool ELSE PutBack(fairy[t], FALSE)
    /\ fairy' = [fairy EXCEPT ![t] = NoConn]
    /\ recovery' = [recovery EXCEPT ![t] = "done"]
    /\ UNCHANGED <<step, stage, cancelled, limiter>>

\* AsyncConnection.invalidate: the driver connection is closed and the record
\* returned without one; the session's fairy is empty from here on.  On one that
\* is empty already, invalidate does nothing.
RecoveryEnds(t) ==
    /\ recovery[t] = "running"
    /\ IF fairy[t] = NoConn THEN UNCHANGED pool ELSE PutBack(fairy[t], TRUE)
    /\ fairy' = [fairy EXCEPT ![t] = NoConn]
    /\ recovery' = [recovery EXCEPT ![t] = "done"]
    /\ UNCHANGED <<step, stage, cancelled, limiter>>

\* It raises instead: the session keeps the aborted connection.
RecoveryFails(t) ==
    /\ AbortMayFail
    /\ recovery[t] = "running"
    /\ recovery' = [recovery EXCEPT ![t] = "failed"]
    /\ botched' = botched \cup ({fairy[t]} \ {NoConn})
    /\ UNCHANGED <<step, stage, cancelled, fairy, limiter, idle, live, dirty, overflow, source>>

\* Defect: the cancelled call does not wait for its recovery.
DefectLeavesBeforeRecovery(t) ==
    /\ stage[t] = "returned"
    /\ GivesUp(t)
    /\ UNCHANGED <<waiters, fairy, pool>>

\* Worker and watcher are over: the cancellation, or what stands for it, reaches
\* the session.
AbortedCallEnds(t) ==
    /\ stage[t] = "returned" /\ recovery[t] \in {"done", "failed", "skipped"}
    /\ GivesUp(t)
    /\ UNCHANGED <<waiters, fairy, pool>>

---------------------------------------------------------------------------
(* The checkout, on its thread (QueuePool._do_get) *)

CheckingOut(t) == step[t] = "connecting" /\ stage[t] \in {"running", "waiting"}

\* An idle record whose driver connection is open and young enough.
TakeIdle(t, c) ==
    /\ CheckingOut(t) /\ c \in idle \cap live
    /\ fairy' = [fairy EXCEPT ![t] = c]
    /\ idle' = idle \ {c}
    /\ EndStep(t, "holding")
    /\ UNCHANGED <<waiters, live, dirty, botched, overflow, source>>

\* One whose driver connection was dropped, or is older than `recycle` seconds
\* and closed now: it is out of the queue while the driver makes another.
TakeStale(t, c) ==
    /\ CheckingOut(t) /\ c \in idle
    /\ fairy' = [fairy EXCEPT ![t] = c]
    /\ idle' = idle \ {c}
    /\ live' = live \ {c}
    /\ dirty' = dirty \ {c}
    /\ botched' = botched \ {c}
    /\ stage' = [stage EXCEPT ![t] = "reconnecting"]
    /\ UNCHANGED <<step, cancelled, recovery, limiter, overflow, source>>

\* source.adbc_clone() for the record
Reconnected(t) ==
    /\ stage[t] = "reconnecting" /\ source # "closed"
    /\ live' = live \cup {fairy[t]}
    /\ EndStep(t, "holding")
    /\ UNCHANGED <<waiters, fairy, idle, dirty, botched, overflow, source>>

\* Defect: a record that could not be reconnected is not put back.
DefectReconnectLosesRecord(t) ==
    /\ stage[t] = "reconnecting"
    /\ fairy' = [fairy EXCEPT ![t] = NoConn]
    /\ EndStep(t, "outside")
    /\ UNCHANGED <<waiters, pool>>

\* The driver refuses: the record goes back without a driver connection.
ReconnectFails(t) ==
    /\ stage[t] = "reconnecting"
    /\ PutBack(fairy[t], TRUE)
    /\ fairy' = [fairy EXCEPT ![t] = NoConn]
    /\ EndStep(t, "outside")
    /\ UNCHANGED waiters

\* Everything is out: the thread blocks in the queue, its token in hand.
WaitForConnection(t) ==
    /\ step[t] = "connecting" /\ stage[t] = "running"
    /\ idle = {} /\ overflow >= MaxOverflow
    /\ stage' = [stage EXCEPT ![t] = "waiting"]
    /\ UNCHANGED <<step, cancelled, recovery, fairy, limiter, pool>>

\* Defect: a checkout waits for as long as the pool is open.
DefectNoTimeout(t) ==
    /\ step[t] = "connecting" /\ stage[t] = "waiting"
    /\ idle = {} /\ overflow >= MaxOverflow
    /\ source # "open"
    /\ EndStep(t, "outside")
    /\ UNCHANGED <<waiters, fairy, pool>>

\* `timeout` seconds later, still nothing: TimeoutError.
CheckoutTimesOut(t) ==
    /\ step[t] = "connecting" /\ stage[t] = "waiting"
    /\ idle = {} /\ overflow >= MaxOverflow
    /\ EndStep(t, "outside")
    /\ UNCHANGED <<waiters, fairy, pool>>

\* Below the ceiling a new connection is counted first and made afterwards.
ReserveConnection(t) ==
    /\ CheckingOut(t)
    /\ idle = {} /\ overflow < MaxOverflow
    /\ overflow' = overflow + 1
    /\ stage' = [stage EXCEPT ![t] = "creating"]
    /\ UNCHANGED <<step, cancelled, recovery, fairy, limiter, idle, live, dirty, botched, source>>

\* source.adbc_clone()
CloneSource(t, c) ==
    /\ stage[t] = "creating" /\ source # "closed"
    /\ c \notin idle \cup Range(fairy)
    /\ fairy' = [fairy EXCEPT ![t] = c]
    /\ live' = live \cup {c}
    /\ EndStep(t, "holding")
    /\ UNCHANGED <<waiters, idle, dirty, botched, overflow, source>>

CloneFails(t) ==
    /\ stage[t] = "creating"
    /\ overflow' = overflow - 1
    /\ EndStep(t, "outside")
    /\ UNCHANGED <<waiters, fairy, idle, live, dirty, botched, source>>

---------------------------------------------------------------------------
(* The check-in and the close of the pool, on their threads *)

\* fairy.close(): nothing to do for a connection that was dropped.
CheckedIn(t) ==
    /\ step[t] = "closing" /\ stage[t] = "running"
    /\ IF fairy[t] = NoConn THEN UNCHANGED pool ELSE PutBack(fairy[t], FALSE)
    /\ fairy' = [fairy EXCEPT ![t] = NoConn]
    /\ EndStep(t, "outside")
    /\ UNCHANGED waiters

\* pool.dispose(): closes what is idle, and forgets what is out.
Dispose(t) ==
    /\ step[t] = "disposing" /\ stage[t] = "running"
    /\ live' = live \ idle
    /\ dirty' = dirty \ idle
    /\ botched' = botched \ idle
    /\ idle' = {}
    /\ overflow' = -PoolSize
    /\ source' = "disposed"
    /\ stage' = [stage EXCEPT ![t] = "disposed"]
    /\ UNCHANGED <<step, cancelled, recovery, fairy, limiter>>

\* pool._adbc_source.close()
CloseSource(t) ==
    /\ stage[t] = "disposed"
    /\ source' = "closed"
    /\ EndStep(t, "outside")
    /\ UNCHANGED <<waiters, fairy, idle, live, dirty, botched, overflow>>

---------------------------------------------------------------------------

Limiter(t) == AcquireToken(t) \/ DispatchThread(t) \/ CancelQueued(t) \/ CancelAtCheckpoint(t)

Recovery(t) == /\ step[t] = "executing"
               /\ \/ WatcherStandsDown(t) \/ AbortCall(t) \/ HookFails(t)
                  \/ RecoveryEnds(t) \/ RecoveryFails(t)
                  \/ AbortedReturns(t) \/ AbortedCallEnds(t)

Checkout(t) == /\ step[t] = "connecting"
               /\ \/ \E c \in Conns : TakeIdle(t, c) \/ TakeStale(t, c) \/ CloneSource(t, c)
                  \/ Reconnected(t) \/ ReconnectFails(t)
                  \/ WaitForConnection(t) \/ CheckoutTimesOut(t)
                  \/ ReserveConnection(t) \/ CloneFails(t)

Teardown(t) == CheckedIn(t) \/ Dispose(t) \/ CloseSource(t)

\* A call on a connection that was closed: the driver refuses it at once.
CallRefused(t) == fairy[t] = NoConn /\ CallReturns(t)

\* What goes on by itself once a task has begun a step.
Progress(t) == stage[t] # "none" /\ (Limiter(t) \/ Recovery(t) \/ Checkout(t) \/ Teardown(t))

Next == \E t \in Tasks :
            \/ Connect(t) \/ Execute(t) \/ Commit(t) \/ CheckIn(t) \/ Close(t)
            \/ CancelScope(t) \/ CallReturns(t)
            \/ Progress(t)

Spec == Init /\ [][Next]_vars

\* The loop runs every ready task, the operating system every thread; a checkout
\* ends, by QueuePool's timeout if by nothing else; the driver opens, resets and
\* closes connections in finite time, honours an adbc_cancel that it accepts, and
\* refuses a call on a connection it has closed.  Nothing is assumed of how long
\* any other call takes, nor of callers.
LoopFairness == \A t \in Tasks : WF_vars(Progress(t) \/ CallRefused(t))

HangingSpec == Spec /\ LoopFairness
---------------------------------------------------------------------------
(* Safety *)

Held == Range(fairy) \ {NoConn}

\* A connection is with one session at most, and never idle in the pool while a
\* session has it: an invalidated one is not checked in a second time by the
\* session's `__aexit__` (invalidate, then close, are safe in a row).
ExclusiveCheckout ==
    /\ \A t, u \in Tasks : t # u /\ fairy[t] = fairy[u] => fairy[t] = NoConn
    /\ Held \cap idle = {}

\* The pool's count is exact until it is disposed: what it believes to be in use
\* or idle is what is, with cancelled checkouts, failed connections, dropped
\* connections and queued waiters in between; so a pool never shrinks for good
\* nor grows beyond pool_size + max_overflow (CANCEL-02, D-25-07).
CountExact ==
    source = "open" =>
        /\ overflow + PoolSize
               = Cardinality(idle \cup Held) + Cardinality({t \in Tasks : stage[t] = "creating"})
        /\ overflow <= MaxOverflow

\* Tokens are transient: they are out exactly for the offloads under way, so a
\* session holds none between two calls, however its last one ended (D-24-01).
TransientTokens ==
    /\ borrowers = {t \in Tasks : stage[t] \notin {"none", "queued", "returned"}}
    /\ Cardinality(borrowers) <= Tokens

\* Recoveries run beside the limiter, one per cancelled call, but those that have
\* a connection to drop are never more than there are connections: at most twice
\* as many threads as pool_size + max_overflow work on an open pool, not just as
\* many (invalidate).  A cursor that outlived its connection can be cancelled
\* again; its recovery finds nothing to drop, and is not counted.
OffloadsBounded ==
    source = "open" =>
        Cardinality(borrowers)
            + Cardinality({t \in Tasks : recovery[t] = "running" /\ fairy[t] # NoConn})
                <= 2 * (PoolSize + MaxOverflow)

\* Why calls that hang cannot keep a session of an open pool from leaving: while
\* one that has a connection waits for a token, those that have the others do not
\* have all the tokens; one is free, or with a step that ends by itself
\* (AsyncPool.__init__: as many tokens as connections).
TokenLeftForCheckIn ==
    source = "open" =>
        \A t \in Tasks : fairy[t] # NoConn /\ stage[t] = "queued"
                         => Cardinality({u \in borrowers : fairy[u] # NoConn}) < Tokens

\* A connection in which a call was aborted never waits in the pool, from the late
\* abort of a call that was over to the one of a dropped cursor: it is dropped
\* before the session that cancelled goes on, hence before its check-in.  What
\* does come back is a connection whose abort or whose drop itself raised.
NoPoisonedIdle == idle \cap dirty \subseteq botched

\* The pool is a ConnectionPool of pool_size + max_overflow connections.
Contract == INSTANCE ConnectionPool WITH held <- fairy, broken <- dirty \ botched,
                                         Ceiling <- PoolSize + MaxOverflow,
                                         closed <- source # "open"
ImplementsPool == Contract!Spec

---------------------------------------------------------------------------
(* Liveness *)

\* A session that leaves gets its connection back into the pool even if every
\* call of every other session hangs in the driver: at most pool_size +
\* max_overflow - 1 of them have a connection to hang on, checkouts time out, so
\* a token is always left for the check-in.  (HangingSpec)
CheckInCompletes ==
    \A t \in Observed : (step[t] = "closing" /\ fairy[t] # NoConn) ~> (fairy[t] = NoConn)

\* A checkout whose thread has begun ends, with a connection or without one, even
\* if every connection is out on a call that hangs and every reconnection fails:
\* the timeout runs from there, not from connect().  (HangingSpec)
CheckoutEnds == \A t \in Observed : CheckingOut(t) ~> (step[t] # "connecting")

\* If no call stays in the driver for ever, every step that joins the limiter's
\* queue comes to its end, cancelled, timed out or refused ones around it
\* included: no token and no place in the queue is lost.  (HangingSpec)
CallsReturn == \A t \in Tasks : []<>(stage[t] # "running")
EveryStepEnds == CallsReturn => \A t \in Observed : (stage[t] = "queued") ~> (stage[t] = "none")

---------------------------------------------------------------------------
(* What the documentation says and the code does not do *)

\* No hold-and-wait: the tokens are never all with checkouts that wait for a
\* connection while the session that has one waits for a token.
NoHoldAndWait ==
    \A t \in Tasks : fairy[t] # NoConn /\ stage[t] = "queued"
                     => \/ Cardinality(borrowers) < Tokens
                        \/ \E u \in borrowers : stage[u] # "waiting"

\* "A close() after an invalidate() is a safe no-op": the session whose call was
\* cancelled and its connection dropped can leave.
DroppedSessionLeaves ==
    \A t \in Observed : (step[t] = "closing" /\ fairy[t] = NoConn) ~> (step[t] = "outside")
===============================================================================
