----------------------- MODULE CancellableOffloadProofs -----------------------
(*************************************************************************)
(* Proofs about CancellableOffload, for every set of calls and every     *)
(* number of tokens.                                                     *)
(*************************************************************************)
EXTENDS CancellableOffload, FiniteSetTheorems, TLAPS

USE DEF Outcome

---------------------------------------------------------------------------
(* The end of the task group *)

\* What a caller may get, given how the two tasks ended.
LEMMA JoinOutcome ==
  ASSUME NEW c \in Calls, JoinStep(c)
  PROVE  \E outcome \in Outcome :
            /\ CallerGets(c, outcome)
            /\ outcome = "value" => watcher[c] = "quit" /\ worker[c] = "returned"
            /\ aborted_by_us[c] => outcome \in {"value", "cancelled", "abort_error"}
            /\ ~aborted_by_us[c] /\ worker[c] = "failed" => outcome \in {"worker_error", "group"}
            /\ outcome = "group" => \E backend \in Backends : RaisesGroup(c, backend)
            /\ /\ aborted_by_us[c] /\ worker[c] = "failed" /\ recovery[c] = "failed"
               => outcome = "abort_error"
<1>e. worker[c] = "failed" => Errors(c) # {}
  <2>1. worker[c] = "failed" => "worker" \in Errors(c)
    BY DEF Errors
  <2>2. QED BY <2>1
<1>1. CASE ReturnsValue(c)
  <2>1. worker[c] = "returned" /\ watcher[c] = "quit" /\ CallerGets(c, "value")
    BY <1>1 DEF ReturnsValue
  <2>2. QED BY <2>1
<1>2. CASE RaisesCancelled(c)
  BY <1>2, <1>e DEF RaisesCancelled
<1>3. CASE RaisesAbortError(c)
  BY <1>3 DEF RaisesAbortError
<1>4. ASSUME NEW backend \in Backends, UnwrapsLoneError(c, backend)
      PROVE  /\ ~aborted_by_us[c]
             /\ CallerGets(c, IF worker[c] = "failed" THEN "worker_error" ELSE "hook_error")
  BY <1>4 DEF UnwrapsLoneError
<1>5. ASSUME NEW backend \in Backends, RaisesGroup(c, backend)
      PROVE  ~aborted_by_us[c] /\ CallerGets(c, "group")
  BY <1>5 DEF RaisesGroup
<1>6. QED BY <1>1, <1>2, <1>3, <1>4, <1>5 DEF JoinStep

---------------------------------------------------------------------------
(* Type correctness *)

LEMMA InitType == Init => TypeOK
  BY DEF Init, TypeOK

\* Leaving the limiter's queue keeps it a sequence of calls.
LEMMA RemoveAtType ==
  ASSUME NEW S, NEW s \in Seq(S), NEW i \in DOMAIN s
  PROVE  RemoveAt(s, i) \in Seq(S)
  BY DEF RemoveAt

\* The end of a worker keeps the types of what it writes.
LEMMA WorkerEndsType ==
  ASSUME TypeOK, NEW c \in Calls, NEW how \in {"returned", "failed", "cancelled"},
         WorkerEnds(c, how)
  PROVE  /\ worker' \in [Calls -> {"off", "queued", "entering", "committed", "awaiting",
                                   "returned", "failed", "cancelled"}]
         /\ done' \in [Calls -> BOOLEAN]
         /\ borrowers' \subseteq Calls
         /\ watcher' \in [Calls -> {"off", "parked", "woken", "recovering", "quit",
                                    "raised", "hook_failed"}]
  BY DEF TypeOK, WorkerEnds, GroupCancels

LEMMA TypeStep == TypeOK /\ [Next]_vars => TypeOK'
<1> SUFFICES ASSUME TypeOK, [Next]_vars PROVE TypeOK'
  OBVIOUS
<1> USE DEF TypeOK
<1>1. ASSUME NEW c \in Calls, StartCall(c) PROVE TypeOK'
  BY <1>1 DEF StartCall
<1>2. ASSUME NEW c \in Calls, CancelScope(c) PROVE TypeOK'
  BY <1>2 DEF CancelScope, Waits
<1>3. ASSUME NEW c \in Calls, WorkerStep(c) PROVE TypeOK'
  <2>1. CASE AcquireToken(c)
    BY <2>1 DEF AcquireToken
  <2>2. CASE CancelQueued(c)
    <3>1. waiters' \in Seq(Calls)
      BY <2>2, RemoveAtType DEF CancelQueued
    <3>2. QED BY <2>2, <3>1, WorkerEndsType DEF CancelQueued
  <2>3. CASE CancelAtCheckpoint(c)
    BY <2>3, WorkerEndsType DEF CancelAtCheckpoint
  <2>4. CASE PassCheckpoint(c)
    BY <2>4 DEF PassCheckpoint
  <2>5. CASE DispatchThread(c)
    BY <2>5 DEF DispatchThread
  <2>6. CASE JoinThread(c)
    BY <2>6, WorkerEndsType DEF JoinThread
  <2>7. QED BY <1>3, <2>1, <2>2, <2>3, <2>4, <2>5, <2>6 DEF WorkerStep
<1>4. ASSUME NEW c \in Calls, WatcherStep(c) PROVE TypeOK'
  <2>1. CASE WatcherReleased(c)
    BY <2>1 DEF WatcherReleased
  <2>2. CASE WatcherStandsDown(c)
    BY <2>2 DEF WatcherStandsDown
  <2>3. CASE WatcherAborts(c)
    <3>1. CancelLands(c) \subseteq BOOLEAN
      BY DEF CancelLands
    <3>2. QED BY <2>3, <3>1 DEF WatcherAborts
  <2>4. CASE HookFails(c)
    BY <2>4 DEF HookFails
  <2>5. CASE WatcherReraises(c)
    BY <2>5 DEF WatcherReraises
  <2>6. QED BY <1>4, <2>1, <2>2, <2>3, <2>4, <2>5 DEF WatcherStep
<1>5. ASSUME NEW c \in Calls, RecoveryStep(c) PROVE TypeOK'
  BY <1>5 DEF RecoveryStep, RecoveryStarts, RecoveryEnds
<1>6. ASSUME NEW c \in Calls, DriverEnters(c) \/ DriverReturns(c) \/ DriverInterrupted(c)
      PROVE TypeOK'
  BY <1>6 DEF DriverEnters, DriverReturns, DriverInterrupted
<1>7. ASSUME NEW c \in Calls, JoinStep(c) PROVE TypeOK'
  <2>1. PICK outcome \in Outcome : CallerGets(c, outcome)
    BY <1>7, JoinOutcome
  <2>2. QED BY <2>1 DEF CallerGets
<1>8. CASE UNCHANGED vars
  BY <1>8 DEF vars
<1>9. QED
  BY <1>1, <1>2, <1>3, <1>4, <1>5, <1>6, <1>7, <1>8 DEF Next, Finished

\* Every variable keeps its type, whatever the set of calls and the number of
\* tokens: the states named in the code's flags and results are all there are.
THEOREM TypeCorrect == Spec => []TypeOK
<1>1. QED BY InitType, TypeStep, PTL DEF Spec
---------------------------------------------------------------------------
(* The inductive invariant *)

Holding == {"entering", "committed", "awaiting"}
Ended   == {"returned", "failed", "cancelled"}

\* How the worker, its thread and the shared flags go together.
WorkerInv(c) ==
    /\ worker[c] = "off" <=> caller[c] = "idle"
    /\ done[c] <=> worker[c] \in Ended
    /\ worker[c] \in {"off", "queued"} => ~worker_started[c]
    /\ worker[c] \in Holding \cup {"returned", "failed"} => worker_started[c]
    /\ worker[c] = "cancelled" => cancelled[c]
    /\ thread[c] = "none" <=> worker[c] \in {"off", "queued", "entering", "committed", "cancelled"}
    /\ InDriverThread(c) => worker[c] = "awaiting"
    /\ worker[c] = "returned" => thread[c] = "ok"
    /\ worker[c] = "failed" => thread[c] \in {"error", "interrupted"}

\* How the watcher, its recovery and the cancellation go together.  The fourth
\* conjunct is what rules out the race on worker_started: a watcher that stood
\* down saw a cancellation, so its worker cannot pass the checkpoint any more.
\* Nothing is said of the token of a call whose watcher was woken: it may be back.
WatcherInv(c) ==
    /\ watcher[c] = "off" <=> caller[c] = "idle"
    /\ watcher[c] \in {"woken", "recovering", "raised", "hook_failed"} => cancelled[c]
    /\ watcher[c] = "quit" => done[c]
    /\ watcher[c] = "raised" /\ ~aborted_by_us[c] => worker[c] \in {"queued", "entering", "cancelled"}
    /\ recovery[c] # "none" <=> aborted_by_us[c]
    /\ aborted_by_us[c] => watcher[c] \in {"recovering", "raised"}
    /\ watcher[c] = "recovering" => aborted_by_us[c]
    /\ watcher[c] = "raised" => recovery[c] \notin {"queued", "running"}

\* What the caller of a call that is over was told.
CallerInv(c) ==
    Over(c) =>
        /\ watcher[c] \in {"quit", "raised", "hook_failed"}
        /\ worker[c] \in Ended
        /\ aborted_by_us[c] => caller[c] \in {"cancelled", "abort_error"}
        /\ worker[c] = "failed" /\ ~aborted_by_us[c] /\ watcher[c] # "hook_failed"
           => caller[c] = "worker_error"
        /\ worker[c] = "failed" /\ recovery[c] = "failed" => caller[c] = "abort_error"
        /\ worker[c] = "failed" /\ ~aborted_by_us[c] => caller[c] # "cancelled"

CallInv(c) == WorkerInv(c) /\ WatcherInv(c) /\ CallerInv(c)

IInv == /\ TypeOK
        /\ TokensMatchWorkers
        /\ \A c \in Calls : CallInv(c)

\* Of a call that was not aborted, and whose hook did not fail, the worker's
\* error is alone in the group, trio's included.
LEMMA LoneError ==
  ASSUME NEW c, WatcherInv(c), ~aborted_by_us[c], watcher[c] # "hook_failed",
         worker[c] \in Ended, NEW backend
  PROVE  GroupMembers(c, backend) = IF worker[c] = "failed" THEN {"worker"} ELSE {}
<1>1. Errors(c) = IF worker[c] = "failed" THEN {"worker"} ELSE {}
  BY DEF Errors
<1>2. worker[c] = "failed" => Cancellations(c) = {}
  BY DEF Cancellations, WatcherInv
<1>3. QED BY <1>1, <1>2 DEF GroupMembers

\* So no group reaches its caller.
LEMMA NoGroup ==
  ASSUME NEW c, WatcherInv(c), watcher[c] # "hook_failed", NEW backend, RaisesGroup(c, backend)
  PROVE  FALSE
<1>1. ~aborted_by_us[c] /\ worker[c] \in Ended /\ Cardinality(GroupMembers(c, backend)) > 1
  BY DEF RaisesGroup, CallerGets, ChildrenDone, Ended
<1>2. GroupMembers(c, backend) = {"worker"} \/ GroupMembers(c, backend) = {}
  BY <1>1, LoneError
<1>3. Cardinality({"worker"}) = 1 /\ Cardinality({}) = 0
  BY FS_Singleton, FS_EmptySet
<1>4. QED BY <1>1, <1>2, <1>3

LEMMA InitInv == Init => IInv
<1> SUFFICES ASSUME Init PROVE IInv
  OBVIOUS
<1>1. TypeOK
  BY InitType
<1>2. TokensMatchWorkers
  <2>1. borrowers = {} /\ Cardinality(borrowers) = 0
    BY FS_EmptySet DEF Init
  <2>2. QED BY <2>1, TokensAssumption DEF Init, TokensMatchWorkers
<1>3. ASSUME NEW c \in Calls PROVE CallInv(c)
  BY DEF Init, CallInv, WorkerInv, WatcherInv, CallerInv, Over, InDriverThread, Holding, Ended
<1>4. QED BY <1>1, <1>2, <1>3 DEF IInv

\* The limiter's set is finite, so that taking a member out makes it smaller.
LEMMA BorrowersFinite ==
  ASSUME TypeOK
  PROVE  IsFiniteSet(borrowers) /\ Cardinality(borrowers) \in Nat
  BY CallsAssumption, FS_Subset, FS_CardinalityType DEF TypeOK

LEMMA WorkerEndsTokens ==
  ASSUME TypeOK, TokensMatchWorkers, NEW c \in Calls, NEW how \in Ended, WorkerEnds(c, how)
  PROVE  TokensMatchWorkers'
<1>1. borrowers' = {d \in Calls : worker'[d] \in {"entering", "committed", "awaiting"}}
  BY DEF TypeOK, TokensMatchWorkers, WorkerEnds, Ended
<1>2. Cardinality(borrowers') <= Cardinality(borrowers) /\ Cardinality(borrowers') \in Nat
  BY BorrowersFinite, FS_Subset, FS_CardinalityType DEF WorkerEnds
<1>3. QED BY <1>1, <1>2, BorrowersFinite, TokensAssumption DEF TokensMatchWorkers

\* A step that neither takes nor returns a token.
LEMMA TokensUnchanged ==
  ASSUME TypeOK, TokensMatchWorkers, borrowers' = borrowers,
         \A d \in Calls : worker'[d] \in Holding <=> worker[d] \in Holding
  PROVE  TokensMatchWorkers'
  BY DEF TokensMatchWorkers, Holding

LEMMA TokensStep == IInv /\ [Next]_vars => TokensMatchWorkers'
<1> SUFFICES ASSUME IInv, [Next]_vars PROVE TokensMatchWorkers'
  OBVIOUS
<1>a. TypeOK /\ TokensMatchWorkers
  BY DEF IInv
<1>1. ASSUME NEW c \in Calls, StartCall(c) PROVE TokensMatchWorkers'
  <2>1. worker[c] = "off"
    BY <1>1 DEF StartCall, IInv, CallInv, WorkerInv
  <2>2. QED BY <1>a, <1>1, <2>1, TokensUnchanged DEF StartCall, TypeOK, Holding
<1>2. ASSUME NEW c \in Calls, AcquireToken(c) PROVE TokensMatchWorkers'
  <2>1. borrowers' = {d \in Calls : worker'[d] \in {"entering", "committed", "awaiting"}}
    BY <1>a, <1>2 DEF AcquireToken, TypeOK, TokensMatchWorkers
  <2>2. borrowers' = borrowers \cup {c} /\ Cardinality(borrowers) < Tokens
    BY <1>2 DEF AcquireToken
  <2>3. /\ IsFiniteSet(borrowers')
        /\ Cardinality(borrowers') \in {Cardinality(borrowers), Cardinality(borrowers) + 1}
    BY <1>a, <2>2, BorrowersFinite, FS_AddElement
  <2>4. QED BY <1>a, <2>1, <2>2, <2>3, BorrowersFinite, TokensAssumption DEF TokensMatchWorkers
<1>3. ASSUME NEW c \in Calls, CancelQueued(c) \/ CancelAtCheckpoint(c) \/ JoinThread(c)
      PROVE  TokensMatchWorkers'
  BY <1>a, <1>3, WorkerEndsTokens DEF CancelQueued, CancelAtCheckpoint, JoinThread, Ended
<1>4. ASSUME NEW c \in Calls, PassCheckpoint(c) \/ DispatchThread(c)
      PROVE  TokensMatchWorkers'
  <2>1. borrowers' = borrowers
    BY <1>4 DEF PassCheckpoint, DispatchThread
  <2>2. \A d \in Calls : worker'[d] \in Holding <=> worker[d] \in Holding
    BY <1>a, <1>4 DEF PassCheckpoint, DispatchThread, TypeOK, Holding
  <2>3. QED BY <1>a, <2>1, <2>2, TokensUnchanged
<1>5. CASE UNCHANGED <<worker, borrowers>>
  BY <1>a, <1>5 DEF TokensMatchWorkers
<1>6. ASSUME NEW c \in Calls,
             \/ CancelScope(c) \/ WatcherStep(c) \/ RecoveryStep(c)
             \/ DriverEnters(c) \/ DriverReturns(c) \/ DriverInterrupted(c)
      PROVE  UNCHANGED <<worker, borrowers>>
  BY <1>6 DEF CancelScope, WatcherStep, WatcherReleased, WatcherStandsDown, WatcherAborts,
              HookFails, WatcherReraises, RecoveryStep, RecoveryStarts, RecoveryEnds,
              DriverEnters, DriverReturns, DriverInterrupted
<1>7. ASSUME NEW c \in Calls, JoinStep(c) PROVE UNCHANGED <<worker, borrowers>>
  BY <1>a, <1>7, JoinOutcome DEF CallerGets
<1>8. CASE UNCHANGED vars
  BY <1>8, <1>5 DEF vars
<1>9. QED
  BY <1>1, <1>2, <1>3, <1>4, <1>5, <1>6, <1>7, <1>8 DEF Next, Finished, WorkerStep

LEMMA CallInvStep == IInv /\ [Next]_vars => \A d \in Calls : CallInv(d)'
<1> SUFFICES ASSUME IInv, [Next]_vars, NEW d \in Calls PROVE CallInv(d)'
  OBVIOUS
<1>a. TypeOK /\ CallInv(d)
  BY DEF IInv
<1> USE <1>a DEF TypeOK, CallInv, WorkerInv, WatcherInv, CallerInv, Over, InDriverThread,
                 Holding, Ended
<1>1. ASSUME NEW c \in Calls, StartCall(c) PROVE CallInv(d)'
  BY <1>1 DEF StartCall
<1>2. ASSUME NEW c \in Calls, CancelScope(c) PROVE CallInv(d)'
  BY <1>2 DEF CancelScope, Waits
<1>3. ASSUME NEW c \in Calls, AcquireToken(c) PROVE CallInv(d)'
  BY <1>3 DEF AcquireToken
<1>4. ASSUME NEW c \in Calls, CancelQueued(c) PROVE CallInv(d)'
  BY <1>4 DEF CancelQueued, WorkerEnds, GroupCancels
<1>5. ASSUME NEW c \in Calls, CancelAtCheckpoint(c) PROVE CallInv(d)'
  BY <1>5 DEF CancelAtCheckpoint, WorkerEnds, GroupCancels
<1>6. ASSUME NEW c \in Calls, PassCheckpoint(c) PROVE CallInv(d)'
  BY <1>6 DEF PassCheckpoint
<1>7. ASSUME NEW c \in Calls, DispatchThread(c) PROVE CallInv(d)'
  BY <1>7 DEF DispatchThread
<1>8. ASSUME NEW c \in Calls, JoinThread(c) PROVE CallInv(d)'
  BY <1>8 DEF JoinThread, WorkerEnds, GroupCancels
<1>9. ASSUME NEW c \in Calls, WatcherReleased(c) PROVE CallInv(d)'
  BY <1>9 DEF WatcherReleased
<1>10. ASSUME NEW c \in Calls, WatcherStandsDown(c) PROVE CallInv(d)'
  BY <1>10 DEF WatcherStandsDown, WatcherWoken
<1>11. ASSUME NEW c \in Calls, WatcherAborts(c) PROVE CallInv(d)'
  BY <1>11 DEF WatcherAborts, WatcherWoken
<1>12. ASSUME NEW c \in Calls, HookFails(c) PROVE CallInv(d)'
  BY <1>12 DEF HookFails, WatcherWoken
<1>13. ASSUME NEW c \in Calls, WatcherReraises(c) PROVE CallInv(d)'
  BY <1>13 DEF WatcherReraises
<1>14. ASSUME NEW c \in Calls, RecoveryStarts(c) PROVE CallInv(d)'
  BY <1>14 DEF RecoveryStarts
<1>15. ASSUME NEW c \in Calls, RecoveryEnds(c) PROVE CallInv(d)'
  BY <1>15 DEF RecoveryEnds
<1>16. ASSUME NEW c \in Calls, DriverEnters(c) PROVE CallInv(d)'
  BY <1>16 DEF DriverEnters
<1>17. ASSUME NEW c \in Calls, DriverReturns(c) PROVE CallInv(d)'
  BY <1>17 DEF DriverReturns
<1>18. ASSUME NEW c \in Calls, DriverInterrupted(c) PROVE CallInv(d)'
  BY <1>18 DEF DriverInterrupted
<1>19. ASSUME NEW c \in Calls, JoinStep(c) PROVE CallInv(d)'
  <2>1. PICK outcome \in Outcome :
           /\ CallerGets(c, outcome)
           /\ outcome = "value" => watcher[c] = "quit" /\ worker[c] = "returned"
           /\ aborted_by_us[c] => outcome \in {"value", "cancelled", "abort_error"}
           /\ ~aborted_by_us[c] /\ worker[c] = "failed" => outcome \in {"worker_error", "group"}
           /\ outcome = "group" => \E backend \in Backends : RaisesGroup(c, backend)
           /\ /\ aborted_by_us[c] /\ worker[c] = "failed" /\ recovery[c] = "failed"
              => outcome = "abort_error"
    BY <1>19, JoinOutcome
  <2>2. watcher[c] # "hook_failed" => outcome # "group"
    <3>1. WatcherInv(c)
      BY DEF IInv
    <3>2. QED BY <2>1, <3>1, NoGroup
  <2>3. /\ WatcherInv(c) /\ ChildrenDone(c)
    BY <2>1 DEF IInv, CallerGets
  <2>4. QED BY <2>1, <2>2, <2>3 DEF CallerGets, ChildrenDone
<1>20. CASE UNCHANGED vars
  BY <1>20 DEF vars
<1>21. QED
  BY <1>1, <1>2, <1>3, <1>4, <1>5, <1>6, <1>7, <1>8, <1>9, <1>10, <1>11, <1>12, <1>13, <1>14, <1>15, <1>16, <1>17, <1>18, <1>19, <1>20
  DEF Next, Finished, WorkerStep, WatcherStep, RecoveryStep

LEMMA InvStep == IInv /\ [Next]_vars => IInv'
  BY TypeStep, TokensStep, CallInvStep DEF IInv

THEOREM Invariance == Spec => []IInv
  BY InitInv, InvStep, PTL DEF Spec

---------------------------------------------------------------------------
(* The properties the runs check *)

\* No token is leaked and never more than Tokens are out.
THEOREM TokensSafe == Spec => []TokensMatchWorkers
<1>1. IInv => TokensMatchWorkers
  BY DEF IInv
<1>2. QED BY <1>1, Invariance, PTL

\* At most Tokens threads are at work, cancelled calls included: every thread
\* belongs to a worker that still holds its token.
THEOREM DriverBounded == Spec => []DriverConcurrencyBounded
<1>1. IInv => DriverConcurrencyBounded
  <2> SUFFICES ASSUME IInv PROVE DriverConcurrencyBounded
    OBVIOUS
  <2> DEFINE Threads == {c \in Calls : InDriverThread(c)}
  <2>1. Threads \subseteq borrowers
    BY DEF IInv, CallInv, WorkerInv, TokensMatchWorkers
  <2>2. IsFiniteSet(borrowers) /\ Cardinality(borrowers) <= Tokens
    BY BorrowersFinite DEF IInv, TokensMatchWorkers
  <2>3. Cardinality(Threads) <= Cardinality(borrowers) /\ Cardinality(Threads) \in Nat
    BY <2>1, <2>2, FS_Subset, FS_CardinalityType
  <2>4. Cardinality(borrowers) \in Nat
    BY <2>2, FS_CardinalityType
  <2>5. QED BY <2>2, <2>3, <2>4, TokensAssumption DEF DriverConcurrencyBounded
<1>2. QED BY <1>1, Invariance, PTL

\* A call that is over left no thread, no token and no recovery behind.
THEOREM NothingOutlives == Spec => []NothingOutlivesTheCall
<1>1. IInv => NothingOutlivesTheCall
  BY DEF IInv, CallInv, WorkerInv, WatcherInv, CallerInv, TokensMatchWorkers, TypeOK,
         NothingOutlivesTheCall, InDriverThread, Ended
<1>2. QED BY <1>1, Invariance, PTL

\* No thread in the driver without a watcher that can abort it or has: the race
\* on worker_started cannot happen.
THEOREM NoUnwatched == Spec => []NoUnwatchedThread
<1>1. IInv => NoUnwatchedThread
  BY DEF IInv, CallInv, WorkerInv, WatcherInv, TypeOK, NoUnwatchedThread, InDriverThread, WatcherWoken,
         Holding, Ended
<1>2. QED BY <1>1, Invariance, PTL

\* A call whose connection was recovered ends in the cancellation or in the
\* failed recovery, never in a value or an error of the query.
THEOREM AbortedRaises == Spec => []AbortedCallRaises
<1>1. IInv => AbortedCallRaises
  BY DEF IInv, CallInv, WatcherInv, CallerInv, AbortedCallRaises
<1>2. QED BY <1>1, Invariance, PTL

\* Only a cancellation from outside poisons a connection.
THEOREM ErrorsDoNotAbort == Spec => []ErrorNeverAborts
<1>1. IInv => ErrorNeverAborts
  BY DEF IInv, CallInv, WatcherInv, ErrorNeverAborts
<1>2. QED BY <1>1, Invariance, PTL

\* A genuine error of the driver call reaches the caller bare.
THEOREM ErrorsSurface == Spec => []GenuineErrorSurfacesBare
<1>1. IInv => GenuineErrorSurfacesBare
  BY DEF IInv, CallInv, WorkerInv, CallerInv, TypeOK, GenuineErrorSurfacesBare, Ended
<1>2. QED BY <1>1, Invariance, PTL

\* A failed recovery is what the caller of an aborted call that raised sees.
THEOREM FailedRecoveries == Spec => []FailedRecoverySurfaces
<1>1. IInv => FailedRecoverySurfaces
  BY DEF IInv, CallInv, CallerInv, FailedRecoverySurfaces
<1>2. QED BY <1>1, Invariance, PTL

\* A connection that survives a cancelled call was not touched by it, or the call
\* ran to its end on it.
THEOREM SurvivorsSettled == Spec => []SurvivorSettled
<1>1. IInv => SurvivorSettled
  BY DEF IInv, CallInv, WorkerInv, WatcherInv, CallerInv, TypeOK, SurvivorSettled, Over,
         Outcome, Ended
<1>2. QED BY <1>1, Invariance, PTL

\* Without a hook failure both event loops give a call the same group.
THEOREM SameOnBothBackends == Spec => []BackendParity
<1>1. IInv => BackendParity
  BY LoneError DEF IInv, CallInv, BackendParity, ChildrenDone, Ended
<1>2. QED BY <1>1, Invariance, PTL

\* A call that was over before its cancellation: the watcher has been released, or
\* will be.
OverUncancelled(c) == done[c] /\ watcher[c] \in {"parked", "quit"} /\ recovery[c] = "none"

LEMMA OverUncancelledStep ==
  ASSUME IInv, [Next]_vars, NEW d \in Calls, OverUncancelled(d)
  PROVE  OverUncancelled(d)'
<1>a. TypeOK /\ CallInv(d)
  BY DEF IInv
<1> USE <1>a DEF TypeOK, OverUncancelled
<1>1. ASSUME NEW c \in Calls, StartCall(c) PROVE OverUncancelled(d)'
  BY <1>1 DEF StartCall, CallInv, WatcherInv
<1>2. ASSUME NEW c \in Calls, CancelScope(c) PROVE OverUncancelled(d)'
  BY <1>2 DEF CancelScope, Waits
<1>3. ASSUME NEW c \in Calls, CancelQueued(c) \/ CancelAtCheckpoint(c) \/ JoinThread(c)
      PROVE  OverUncancelled(d)'
  BY <1>3 DEF CancelQueued, CancelAtCheckpoint, JoinThread, WorkerEnds, GroupCancels
<1>4. ASSUME NEW c \in Calls, AcquireToken(c) \/ PassCheckpoint(c) \/ DispatchThread(c)
      PROVE  OverUncancelled(d)'
  BY <1>4 DEF AcquireToken, PassCheckpoint, DispatchThread
<1>5. ASSUME NEW c \in Calls, WatcherStep(c) PROVE OverUncancelled(d)'
  BY <1>5 DEF WatcherStep, WatcherReleased, WatcherStandsDown, WatcherAborts, HookFails,
              WatcherReraises, WatcherWoken
<1>6. ASSUME NEW c \in Calls, RecoveryStep(c) PROVE OverUncancelled(d)'
  BY <1>6 DEF RecoveryStep, RecoveryStarts, RecoveryEnds
<1>7. ASSUME NEW c \in Calls, DriverEnters(c) \/ DriverReturns(c) \/ DriverInterrupted(c)
      PROVE  OverUncancelled(d)'
  BY <1>7 DEF DriverEnters, DriverReturns, DriverInterrupted
<1>8. ASSUME NEW c \in Calls, JoinStep(c) PROVE OverUncancelled(d)'
  BY <1>8, JoinOutcome DEF CallerGets
<1>9. CASE UNCHANGED vars
  BY <1>9 DEF vars
<1>10. QED
  BY <1>1, <1>2, <1>3, <1>4, <1>5, <1>6, <1>7, <1>8, <1>9 DEF Next, Finished, WorkerStep

\* A call that was over before it was cancelled is never aborted.
THEOREM LateCancels == Spec => LateCancelKeepsConnection
<1> SUFFICES ASSUME NEW c \in Calls
             PROVE  Spec => [](done[c] /\ ~cancelled[c] => [](recovery[c] = "none"))
  BY DEF LateCancelKeepsConnection
<1>1. IInv /\ done[c] /\ ~cancelled[c] => OverUncancelled(c)
  BY DEF IInv, TypeOK, CallInv, WorkerInv, WatcherInv, OverUncancelled, Ended
<1>2. IInv /\ OverUncancelled(c) /\ [Next]_vars => OverUncancelled(c)'
  BY OverUncancelledStep
<1>3. OverUncancelled(c) => recovery[c] = "none"
  BY DEF OverUncancelled
<1>4. QED BY <1>1, <1>2, <1>3, Invariance, PTL DEF Spec
===============================================================================
