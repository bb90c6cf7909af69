----------------------------- MODULE AsyncConnection -----------------------------
(***************************************************************************)
(* One AsyncConnection and its cursors (_async/_connection.py,             *)
(* _async/_cursor.py) that several tasks got hold of.  A call claims the   *)
(* connection with the `_in_use` flag before it is queued for a token and  *)
(* keeps it until it is over, recovery included; a second caller is turned *)
(* away with ConnectionBusyError.  The exit of `async with` and invalidate *)
(* do not look at the flag.  A cancelled execute or fetch is the one of    *)
(* CancellableOffload with its two tasks seen as one.                      *)
(***************************************************************************)
EXTENDS Naturals, FiniteSets

CONSTANTS
    Tasks,
    Owner,      \* the task whose `async with` the connection belongs to
    AbortMayFail,  \* adbc_cancel and fairy.invalidate may raise
    Nested      \* structured use: the other tasks live in a task group inside
                \* that block, so the owner leaves it (and invalidates by hand)
                \* when they are gone

ASSUME ConnectionAssumption ==
    Owner \in Tasks /\ Nested \in BOOLEAN /\ AbortMayFail \in BOOLEAN

VARIABLES
    in_use,
    call,       \* what each task calls
    stage,      \* how far that call is
    cancelled,  \* the scope around the call has been cancelled
    recovery,   \* the abort of the cancelled call and its poison recovery
    outcome,    \* how the task's last call ended
    cursor,     \* the task's cursor
    fairy,      \* the checked-out connection, or nothing any more
    conn,       \* the driver connection: out, back in the pool or closed
    dirty,      \* a call was aborted in it
    botched     \* history: that abort or its recovery raised

calls      == <<call, stage, cancelled, recovery, outcome>>
connection == <<fairy, conn, dirty, botched>>
vars       == <<in_use, calls, cursor, connection>>

Guarded == {"execute", "commit", "close_cursor", "close"}
Call    == Guarded \cup {"exit", "invalidate"}
Stage   == {"idle", "queued", "entering", "running", "returned", "left"}

\* stood_down: the watcher found the call in the queue; skipped: adbc_cancel
\* raised; running, done, failed: of the recovery itself.
Abort == {"none", "stood_down", "skipped", "running", "done", "failed"}

TypeOK ==
    /\ in_use \in BOOLEAN
    /\ call \in [Tasks -> Call \cup {"none"}]
    /\ stage \in [Tasks -> Stage]
    /\ cancelled \in [Tasks -> BOOLEAN]
    /\ recovery \in [Tasks -> Abort]
    /\ outcome \in [Tasks -> {"none", "ended", "cancelled", "busy"}]
    /\ cursor \in [Tasks -> {"none", "open", "closed"}]
    /\ fairy \in {"out", "empty"}
    /\ conn \in {"out", "idle", "closed"}
    /\ fairy = "out" <=> conn = "out"
    /\ dirty \in BOOLEAN /\ botched \in BOOLEAN
    /\ botched => dirty

Init ==
    /\ in_use = FALSE
    /\ call = [t \in Tasks |-> "none"]
    /\ stage = [t \in Tasks |-> "idle"]
    /\ cancelled = [t \in Tasks |-> FALSE]
    /\ recovery = [t \in Tasks |-> "none"]
    /\ outcome = [t \in Tasks |-> "none"]
    /\ cursor = [t \in Tasks |-> "none"]
    /\ fairy = "out"
    /\ conn = "out"
    /\ dirty = FALSE
    /\ botched = FALSE

---------------------------------------------------------------------------
(* Claiming the connection *)

Present(t) == /\ stage[t] = "idle"
              /\ Nested => call[Owner] \notin {"exit", "invalidate"} /\ stage[Owner] # "left"

Enqueue(t, what) ==
    /\ Present(t)
    /\ stage' = [stage EXCEPT ![t] = "queued"]
    /\ call' = [call EXCEPT ![t] = what]
    /\ UNCHANGED <<cancelled, recovery, outcome, cursor, connection>>

\* Defect: the flag is read when the call is made and set when its token is there.
DefectClaimAfterAwait(t, what) ==
    /\ ~in_use
    /\ Enqueue(t, what)
    /\ UNCHANGED in_use

\* _enter_offload: read and set with no await between them.
Claim(t, what) ==
    /\ ~in_use
    /\ in_use' = TRUE
    /\ Enqueue(t, what)

\* Defect: the flag is set inside the `try`, so the caller turned away clears it.
DefectTurnAwayReleases(t) ==
    /\ Present(t) /\ in_use
    /\ in_use' = FALSE
    /\ outcome' = [outcome EXCEPT ![t] = "busy"]
    /\ UNCHANGED <<call, stage, cancelled, recovery, cursor, connection>>

\* ConnectionBusyError; the cursor of a caller whose `async with` was to close
\* it stays open.
TurnAway(t) ==
    /\ Present(t) /\ in_use
    /\ outcome' = [outcome EXCEPT ![t] = "busy"]
    /\ UNCHANGED <<in_use, call, stage, cancelled, recovery, cursor, connection>>

\* AsyncConnection.cursor: no guard, no offload; fails on an emptied fairy.
OpenCursor(t) ==
    /\ Present(t) /\ cursor[t] # "open" /\ fairy = "out"
    /\ cursor' = [cursor EXCEPT ![t] = "open"]
    /\ UNCHANGED <<in_use, calls, connection>>

\* AsyncCursor.execute, fetch...
Execute(t) == cursor[t] # "none" /\ Claim(t, "execute")

\* AsyncConnection.commit, rollback: an emptied fairy has none to offload.
Commit(t) == fairy = "out" /\ Claim(t, "commit")

\* AsyncCursor.close and its __aexit__
CloseCursor(t) == cursor[t] # "none" /\ Claim(t, "close_cursor")

\* AsyncConnection.close
Close(t) == Claim(t, "close")

OthersQuiet(t) == \A u \in Tasks \ {t} : stage[u] = "idle"

\* AsyncConnection.__aexit__, past the guard.
Exit(t) == /\ t = Owner
           /\ Nested => OthersQuiet(t)
           /\ Enqueue(t, "exit")
           /\ UNCHANGED in_use

\* AsyncConnection.invalidate called by hand, past the guard.
Invalidate(t) == /\ t = Owner
                 /\ Nested => OthersQuiet(t)
                 /\ Enqueue(t, "invalidate")
                 /\ UNCHANGED in_use

---------------------------------------------------------------------------
(* The offloaded call *)

\* Defect: a cancelled call does not clear the flag.
DefectCancelKeepsFlag(t, how) ==
    /\ in_use' = (in_use /\ (call[t] \notin Guarded \/ how = "cancelled"))
    /\ outcome' = [outcome EXCEPT ![t] = how]
    /\ stage' = [stage EXCEPT ![t] = IF call[t] = "exit" THEN "left" ELSE "idle"]
    /\ call' = [call EXCEPT ![t] = "none"]
    /\ cancelled' = [cancelled EXCEPT ![t] = FALSE]
    /\ recovery' = [recovery EXCEPT ![t] = "none"]

\* The call leaves `_offloading`, however it ended; after the exit the owner is
\* done with the connection.
EndCall(t, how) ==
    /\ in_use' = (in_use /\ call[t] \notin Guarded)
    /\ outcome' = [outcome EXCEPT ![t] = how]
    /\ stage' = [stage EXCEPT ![t] = IF call[t] = "exit" THEN "left" ELSE "idle"]
    /\ call' = [call EXCEPT ![t] = "none"]
    /\ cancelled' = [cancelled EXCEPT ![t] = FALSE]
    /\ recovery' = [recovery EXCEPT ![t] = "none"]

\* A token of the pool's limiter, or for invalidate of the connection's own.
AcquireToken(t) ==
    /\ stage[t] = "queued"
    /\ stage' = [stage EXCEPT ![t] = "entering"]
    /\ UNCHANGED <<in_use, call, cancelled, recovery, outcome, cursor, connection>>

\* Cancels reach execute, fetch, commit and rollback; the rest is shielded.  A
\* plain offload whose thread runs defers them until it is over.
CancelScope(t) ==
    /\ \/ call[t] = "commit" /\ stage[t] \in {"queued", "entering"}
       \/ call[t] = "execute"
    /\ ~cancelled[t]
    /\ cancelled' = [cancelled EXCEPT ![t] = TRUE]
    /\ UNCHANGED <<in_use, call, stage, recovery, outcome, cursor, connection>>

\* The cancellation has reached the watcher of an execute or fetch, which runs
\* next (CancellableOffload, "woken").
WatcherWoken(t) == call[t] = "execute" /\ cancelled[t] /\ recovery[t] = "none"

\* The thread is back before the watcher has run, or before the recovery is over:
\* the call waits for the watcher.
WorkerReturns(t) ==
    /\ stage' = [stage EXCEPT ![t] = "returned"]
    /\ UNCHANGED <<in_use, call, cancelled, recovery, outcome, cursor, connection>>

\* The cancellation finds the call before its thread runs.
CancelBeforeDispatch(t) ==
    /\ cancelled[t] /\ stage[t] \in {"queued", "entering"}
    /\ \/ stage[t] = "entering" /\ WatcherWoken(t) /\ WorkerReturns(t)
       \/ /\ stage[t] = "queued" \/ call[t] = "commit" \/ recovery[t] \in {"stood_down", "skipped"}
          /\ EndCall(t, "cancelled")
          /\ UNCHANGED <<cursor, connection>>

Touches(t) == IF call[t] \in {"execute", "close_cursor"} THEN cursor[t] = "open"
              ELSE fairy = "out"

\* run_sync is past its checkpoint: a cancellation that comes now finds the call
\* dispatched.
PastCheckpoint(t) ==
    /\ stage[t] = "entering"
    /\ cancelled[t] => call[t] = "execute" /\ recovery[t] # "stood_down"

\* The thread works on the connection ...
DispatchThread(t) ==
    /\ PastCheckpoint(t) /\ Touches(t)
    /\ stage' = [stage EXCEPT ![t] = "running"]
    /\ UNCHANGED <<in_use, call, cancelled, recovery, outcome, cursor, connection>>

\* The call ends by itself.  If a cancellation has woken its watcher meanwhile,
\* that is yet to come.
Returns(t) ==
    \/ WatcherWoken(t) /\ WorkerReturns(t)
    \/ /\ ~WatcherWoken(t) /\ recovery[t] \in {"none", "skipped"}
       /\ EndCall(t, "ended")
       /\ UNCHANGED <<cursor, connection>>

\* ... or is refused at once by a closed cursor or an emptied fairy; check-in
\* and invalidate are no-ops there.
NothingToTouch(t) == PastCheckpoint(t) /\ ~Touches(t) /\ Returns(t)

CallReturns(t) == /\ stage[t] = "running" /\ call[t] \in {"execute", "commit"}
                  /\ Returns(t)

CursorClosed(t) ==
    /\ stage[t] = "running" /\ call[t] = "close_cursor"
    /\ cursor' = [cursor EXCEPT ![t] = "closed"]
    /\ EndCall(t, "ended")
    /\ UNCHANGED connection

\* _release_arrow_allocators, and the driver connection's own close.
CursorsReleased == [t \in Tasks |-> IF cursor[t] = "open" THEN "closed" ELSE cursor[t]]

\* fairy.close(): reset, and back into the pool.  Emptied by another task while
\* this one was dispatched, it is a no-op.
CheckedIn(t) ==
    /\ stage[t] = "running" /\ call[t] \in {"close", "exit"}
    /\ IF fairy = "out"
       THEN /\ fairy' = "empty" /\ conn' = "idle" /\ cursor' = CursorsReleased
       ELSE UNCHANGED <<fairy, conn, cursor>>
    /\ EndCall(t, "ended")
    /\ UNCHANGED <<dirty, botched>>

\* Defect: invalidate closes the driver connection and keeps the fairy.
DefectDropKeepsFairy ==
    /\ conn' = "closed" /\ cursor' = CursorsReleased
    /\ dirty' = FALSE /\ botched' = FALSE
    /\ UNCHANGED fairy

\* fairy.invalidate(): a warning and nothing else once the fairy is empty.
Drop ==
    IF fairy = "out"
    THEN /\ fairy' = "empty" /\ conn' = "closed" /\ cursor' = CursorsReleased
         /\ dirty' = FALSE /\ botched' = FALSE
    ELSE UNCHANGED <<cursor, connection>>

Invalidated(t) ==
    /\ stage[t] = "running" /\ call[t] = "invalidate"
    /\ Drop
    /\ EndCall(t, "ended")

---------------------------------------------------------------------------
(* Abort and recovery of a cancelled execute or fetch *)

\* The watcher finds its call in the queue: worker_started is FALSE.
WatcherStandsDown(t) ==
    /\ WatcherWoken(t) /\ stage[t] = "queued"
    /\ recovery' = [recovery EXCEPT ![t] = "stood_down"]
    /\ UNCHANGED <<in_use, call, stage, cancelled, outcome, cursor, connection>>

\* worker_started: the call has, or has had, its token.
Started(t) == stage[t] \in {"entering", "running", "returned"}

\* cancellable_offload aborts the call, which may not have been dispatched yet, or
\* be over already: the connection that its cursor is open on is unfit for use.
AbortCall(t) ==
    /\ WatcherWoken(t) /\ Started(t)
    /\ recovery' = [recovery EXCEPT ![t] = "running"]
    /\ dirty' = (dirty \/ Touches(t))
    /\ botched' = (botched /\ ~Touches(t))
    /\ UNCHANGED <<in_use, call, stage, cancelled, outcome, cursor, fairy, conn>>

\* adbc_cancel raises, whatever it did to the call: no recovery is begun, and the
\* call ends as it will.
HookFails(t) ==
    /\ AbortMayFail
    /\ WatcherWoken(t) /\ Started(t)
    /\ recovery' = [recovery EXCEPT ![t] = "skipped"]
    /\ dirty' = (dirty \/ Touches(t))
    /\ botched' = dirty'
    /\ UNCHANGED <<in_use, call, stage, cancelled, outcome, cursor, fairy, conn>>

\* Interrupted in the driver, or never dispatched.
AbortedReturns(t) ==
    /\ stage[t] \in {"entering", "running"}
    /\ recovery[t] \in {"running", "done", "failed"}
    /\ WorkerReturns(t)

\* owner.invalidate, past the guard that the aborted call itself holds.
Recover(t) ==
    /\ recovery[t] = "running"
    /\ Drop
    /\ recovery' = [recovery EXCEPT ![t] = "done"]
    /\ UNCHANGED <<in_use, call, stage, cancelled, outcome>>

\* It raises instead: the aborted connection stays checked out.
RecoverFails(t) ==
    /\ AbortMayFail
    /\ recovery[t] = "running"
    /\ recovery' = [recovery EXCEPT ![t] = "failed"]
    /\ botched' = dirty
    /\ UNCHANGED <<in_use, call, stage, cancelled, outcome, cursor, fairy, conn, dirty>>

\* Defect: the cancelled call does not wait for its recovery.
DefectLeavesBeforeRecovery(t) ==
    /\ stage[t] = "returned"
    /\ EndCall(t, "cancelled")
    /\ UNCHANGED <<cursor, connection>>

\* Worker and watcher are over.
AbortedCallEnds(t) ==
    /\ stage[t] = "returned" /\ recovery[t] \in {"done", "failed", "skipped"}
    /\ EndCall(t, "cancelled")
    /\ UNCHANGED <<cursor, connection>>

---------------------------------------------------------------------------

Request(t) == \/ OpenCursor(t) \/ Execute(t) \/ Commit(t) \/ CloseCursor(t) \/ Close(t)
              \/ Exit(t) \/ Invalidate(t) \/ TurnAway(t)

Progress(t) == \/ AcquireToken(t) \/ CancelBeforeDispatch(t)
               \/ DispatchThread(t) \/ NothingToTouch(t)
               \/ CallReturns(t) \/ CursorClosed(t) \/ CheckedIn(t) \/ Invalidated(t)
               \/ AbortedReturns(t) \/ AbortedCallEnds(t)

Recovery(t) == \/ WatcherStandsDown(t) \/ AbortCall(t) \/ HookFails(t)
               \/ Recover(t) \/ RecoverFails(t)

\* The owner has left and nobody is at work: nothing is left to do.
Finished == stage[Owner] = "left" /\ OthersQuiet(Owner) /\ UNCHANGED vars

Next == \/ \E t \in Tasks : Request(t) \/ CancelScope(t) \/ Progress(t) \/ Recovery(t)
        \/ Finished

Spec == Init /\ [][Next]_vars

\* Loop and threads run; the driver's calls end (how a call that hangs is
\* aborted is CancellableOffload's matter).
FairSpec == Spec /\ \A t \in Tasks : WF_vars(Progress(t)) /\ WF_vars(Recovery(t))

---------------------------------------------------------------------------
(* Properties *)

InFlight(t) == stage[t] \notin {"idle", "left"} /\ call[t] \in Guarded

\* The flag belongs to exactly one call, from its entry to the end of its
\* recovery: a caller turned away does not clear it, a check-in past the guard
\* does not either (_enter_offload, _exit_offload).
GuardMatchesCall ==
    /\ in_use <=> \E t \in Tasks : InFlight(t)
    /\ \A t, u \in Tasks : InFlight(t) /\ InFlight(u) => t = u

\* A caller is turned away only while another task's call is in flight: no
\* cancellation, error or rejection leaves the connection marked busy.
BusyOnlyWhenShared ==
    [][\A t \in Tasks : outcome[t] # "busy" /\ outcome'[t] = "busy"
                        => \E u \in Tasks \ {t} : InFlight(u)]_vars

\* Access to the driver connection is serialized: one thread at a time works on
\* it, check-in and by-hand invalidate included (an aborted call and its own
\* recovery count as one).
OneCallAtATime == Cardinality({t \in Tasks : stage[t] = "running"}) <= 1

\* What goes back into the pool is in a known state: no call at work in it, no
\* cursor open on it, and no aborted call left in it unless the abort or the drop
\* itself raised.
ReturnedClean ==
    conn = "idle" => /\ \A t \in Tasks : stage[t] # "running" /\ cursor[t] # "open"
                     /\ dirty => botched

\* Whatever happens to a call, the connection can be used again afterwards.
GuardReleased == in_use ~> ~in_use
===============================================================================
