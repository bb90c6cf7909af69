------------------------- MODULE AsyncConnectionProofs -------------------------
(*************************************************************************)
(* Proofs about AsyncConnection, for every set of tasks.  What its guard *)
(* promises holds for every use; what is promised of the connection      *)
(* behind it holds for structured use (Nested).                          *)
(*************************************************************************)
EXTENDS AsyncConnection, FiniteSetTheorems, TLAPS

USE DEF Guarded, Call, Stage, Abort

---------------------------------------------------------------------------
(* The inductive invariant of every use *)

\* How a task's call, its stage and the abort of it go together: only the owner goes
\* past the guard, and only a cancelled execute or fetch has an abort or waits for
\* one.
CallInv(t) ==
    /\ call[t] = "none" <=> stage[t] \in {"idle", "left"}
    /\ call[t] \in {"exit", "invalidate"} => t = Owner
    /\ stage[t] = "left" => t = Owner
    /\ recovery[t] # "none" => /\ call[t] = "execute"
                               /\ stage[t] \in {"queued", "entering", "running", "returned"}
                               /\ stage[t] = "queued" => recovery[t] = "stood_down"
    /\ recovery[t] = "stood_down" => stage[t] \in {"queued", "entering"} /\ cancelled[t]
    /\ stage[t] = "returned" => call[t] = "execute"

IInv == TypeOK /\ GuardMatchesCall /\ \A t \in Tasks : CallInv(t)

---------------------------------------------------------------------------
(* ... and of structured use *)

AtWork(t) == stage[t] \notin {"idle", "left"}

\* One call at most is under way, guarded or past the guard.
OneAtWork == \A t, u \in Tasks : AtWork(t) /\ AtWork(u) => t = u

\* While a thread works in the driver, the connection is out, or its own recovery
\* has just closed it; an open cursor has a connection, and so has an aborted
\* call, whose recovery is on its way, unless abort or recovery has failed.
ConnInv ==
    /\ \A t \in Tasks : stage[t] = "running"
                        => IF recovery[t] = "done" THEN conn = "closed" ELSE fairy = "out"
    /\ \A t \in Tasks : recovery[t] = "done" => fairy = "empty"
    /\ \A t \in Tasks : cursor[t] = "open" => fairy = "out"
    /\ dirty /\ ~botched => fairy = "out" /\ \E t \in Tasks : recovery[t] = "running"

NestedInv == IInv /\ OneAtWork /\ ConnInv

---------------------------------------------------------------------------
(* The kinds of step *)

\* A call that passed or went past the guard.
Begins(t) ==
    \/ \E what \in Guarded : Claim(t, what)
    \/ /\ t = Owner
       /\ Nested => OthersQuiet(t)
       /\ \E what \in {"exit", "invalidate"} : Enqueue(t, what)
       /\ UNCHANGED in_use

\* A call that is over.
Ends(t) == AtWork(t) /\ \E how \in {"ended", "cancelled"} : EndCall(t, how)

\* A call that goes on.
GoesOn(t) ==
    /\ AtWork(t) /\ AtWork(t)'
    /\ \E s : stage' = [stage EXCEPT ![t] = s]
    /\ UNCHANGED <<in_use, call>>

\* Nothing begins, ends or goes on.
Quiet == UNCHANGED <<in_use, call, stage>>

LEMMA Steps ==
  ASSUME IInv, [Next]_vars
  PROVE  Quiet \/ \E t \in Tasks : Begins(t) \/ Ends(t) \/ GoesOn(t)
<1>a. TypeOK /\ \A t \in Tasks : CallInv(t)
  BY DEF IInv
<1>1. ASSUME NEW t \in Tasks, Request(t) PROVE Begins(t) \/ Quiet
  <2>1. CASE OpenCursor(t) \/ TurnAway(t)
    BY <2>1 DEF OpenCursor, TurnAway, Quiet, calls
  <2>2. CASE Execute(t) \/ Commit(t) \/ CloseCursor(t) \/ Close(t)
    BY <2>2 DEF Execute, Commit, CloseCursor, Close, Begins
  <2>3. CASE Exit(t) \/ Invalidate(t)
    BY <2>3 DEF Exit, Invalidate, Begins
  <2>4. QED BY <1>1, <2>1, <2>2, <2>3 DEF Request
<1>r. ASSUME NEW t \in Tasks, AtWork(t), WorkerReturns(t) PROVE GoesOn(t)
  BY <1>a, <1>r DEF WorkerReturns, GoesOn, AtWork, TypeOK
<1>2. ASSUME NEW t \in Tasks,
             CancelBeforeDispatch(t) \/ NothingToTouch(t) \/ CallReturns(t)
      PROVE  Ends(t) \/ GoesOn(t)
  <2>1. AtWork(t)
    BY <1>2 DEF CancelBeforeDispatch, NothingToTouch, CallReturns, PastCheckpoint, AtWork
  <2>2. QED BY <1>2, <1>r, <2>1 DEF CancelBeforeDispatch, NothingToTouch, CallReturns, Returns, Ends
<1>2a. ASSUME NEW t \in Tasks,
              CursorClosed(t) \/ CheckedIn(t) \/ Invalidated(t) \/ AbortedCallEnds(t)
       PROVE  Ends(t)
  BY <1>2a DEF CursorClosed, CheckedIn, Invalidated, AbortedCallEnds, Ends, AtWork
<1>3. ASSUME NEW t \in Tasks, AcquireToken(t) \/ DispatchThread(t) PROVE GoesOn(t)
  BY <1>a, <1>3 DEF AcquireToken, DispatchThread, PastCheckpoint, GoesOn, AtWork, TypeOK
<1>3a. ASSUME NEW t \in Tasks, AbortedReturns(t) PROVE GoesOn(t)
  <2>1. AtWork(t)
    BY <1>3a DEF AbortedReturns, AtWork
  <2>2. QED BY <1>3a, <1>r, <2>1 DEF AbortedReturns
<1>4. ASSUME NEW t \in Tasks, CancelScope(t) \/ Recovery(t) PROVE Quiet
  BY <1>4 DEF CancelScope, Recovery, WatcherStandsDown, AbortCall, HookFails, Recover,
              RecoverFails, Quiet
<1>5. CASE UNCHANGED vars
  BY <1>5 DEF vars, calls, Quiet
<1>6. QED BY <1>1, <1>2, <1>2a, <1>3, <1>3a, <1>4, <1>5 DEF Next, Progress, Finished

---------------------------------------------------------------------------
(* The guard *)

LEMMA EndCallType ==
  ASSUME TypeOK, NEW t \in Tasks, NEW how \in {"ended", "cancelled"}, EndCall(t, how)
  PROVE  /\ in_use' \in BOOLEAN
         /\ call' \in [Tasks -> Call \cup {"none"}]
         /\ stage' \in [Tasks -> Stage]
         /\ cancelled' \in [Tasks -> BOOLEAN]
         /\ recovery' \in [Tasks -> Abort]
         /\ outcome' \in [Tasks -> {"none", "ended", "cancelled", "busy"}]
  BY DEF TypeOK, EndCall

LEMMA TypeStep == TypeOK /\ [Next]_vars => TypeOK'
<1> SUFFICES ASSUME TypeOK, [Next]_vars PROVE TypeOK'
  OBVIOUS
<1> USE DEF TypeOK, connection
<1>1. ASSUME NEW t \in Tasks, Request(t) PROVE TypeOK'
  <2>1. CASE OpenCursor(t)
    BY <2>1 DEF OpenCursor, calls
  <2>2. CASE TurnAway(t)
    BY <2>2 DEF TurnAway
  <2>3. ASSUME NEW what \in Guarded, Claim(t, what) PROVE TypeOK'
    BY <2>3 DEF Claim, Enqueue
  <2>4. ASSUME NEW what \in Call, Enqueue(t, what), UNCHANGED in_use PROVE TypeOK'
    BY <2>4 DEF Enqueue
  <2>5. QED BY <1>1, <2>1, <2>2, <2>3, <2>4
            DEF Request, Execute, Commit, CloseCursor, Close, Exit, Invalidate
<1>r. ASSUME NEW t \in Tasks, WorkerReturns(t) PROVE TypeOK'
  BY <1>r DEF WorkerReturns
<1>e. ASSUME NEW t \in Tasks, NEW how \in {"ended", "cancelled"}, EndCall(t, how),
             UNCHANGED <<cursor, connection>>
      PROVE  TypeOK'
  BY <1>e, EndCallType
<1>2. ASSUME NEW t \in Tasks,
             \/ CancelBeforeDispatch(t) \/ NothingToTouch(t) \/ CallReturns(t) \/ AbortedCallEnds(t)
      PROVE  TypeOK'
  BY <1>r, <1>e, <1>2 DEF CancelBeforeDispatch, NothingToTouch, CallReturns, Returns, AbortedCallEnds
<1>3. ASSUME NEW t \in Tasks, CursorClosed(t) PROVE TypeOK'
  BY <1>3, EndCallType DEF CursorClosed
<1>4. CursorsReleased \in [Tasks -> {"none", "open", "closed"}]
  BY DEF CursorsReleased
<1>5. ASSUME NEW t \in Tasks, CheckedIn(t) PROVE TypeOK'
  BY <1>4, <1>5, EndCallType DEF CheckedIn
<1>6. ASSUME NEW t \in Tasks, Invalidated(t) PROVE TypeOK'
  BY <1>4, <1>6, EndCallType DEF Invalidated, Drop
<1>7. ASSUME NEW t \in Tasks, AcquireToken(t) PROVE TypeOK'
  BY <1>7 DEF AcquireToken
<1>8. ASSUME NEW t \in Tasks, DispatchThread(t) PROVE TypeOK'
  BY <1>8 DEF DispatchThread
<1>9. ASSUME NEW t \in Tasks, AbortedReturns(t) PROVE TypeOK'
  BY <1>r, <1>9 DEF AbortedReturns
<1>10. ASSUME NEW t \in Tasks, CancelScope(t) PROVE TypeOK'
  BY <1>10 DEF CancelScope
<1>11. ASSUME NEW t \in Tasks, AbortCall(t) PROVE TypeOK'
  BY <1>11 DEF AbortCall
<1>12. ASSUME NEW t \in Tasks, Recover(t) PROVE TypeOK'
  BY <1>4, <1>12 DEF Recover, Drop
<1>12a. ASSUME NEW t \in Tasks, HookFails(t) PROVE TypeOK'
  BY <1>12a DEF HookFails
<1>12b. ASSUME NEW t \in Tasks, RecoverFails(t) PROVE TypeOK'
  BY <1>12b DEF RecoverFails
<1>12c. ASSUME NEW t \in Tasks, WatcherStandsDown(t) PROVE TypeOK'
  BY <1>12c DEF WatcherStandsDown
<1>13. CASE UNCHANGED vars
  BY <1>13 DEF vars, calls
<1>14. QED
  BY <1>1, <1>2, <1>3, <1>5, <1>6, <1>7, <1>8, <1>9, <1>10, <1>11, <1>12, <1>12a,
     <1>12b, <1>12c, <1>13
  DEF Next, Progress, Recovery, Finished

LEMMA GuardStep == IInv /\ [Next]_vars => GuardMatchesCall'
<1> SUFFICES ASSUME IInv, [Next]_vars PROVE GuardMatchesCall'
  OBVIOUS
<1>a. TypeOK /\ GuardMatchesCall /\ \A t \in Tasks : CallInv(t)
  BY DEF IInv
<1> USE <1>a DEF TypeOK
<1>1. ASSUME in_use' = in_use, \A u \in Tasks : InFlight(u)' <=> InFlight(u)
      PROVE  GuardMatchesCall'
  BY <1>1 DEF GuardMatchesCall
<1>2. ASSUME NEW t \in Tasks, NEW what \in Guarded, Claim(t, what) PROVE GuardMatchesCall'
  <2>1. \A u \in Tasks : ~InFlight(u)
    BY <1>2 DEF Claim, GuardMatchesCall
  <2>2. \A u \in Tasks : InFlight(u)' <=> u = t
    BY <1>2, <2>1 DEF Claim, Enqueue, InFlight
  <2>3. in_use'
    BY <1>2 DEF Claim
  <2>4. QED BY <2>2, <2>3 DEF GuardMatchesCall
<1>3. ASSUME NEW t \in Tasks, NEW what \in {"exit", "invalidate"}, Enqueue(t, what), UNCHANGED in_use
      PROVE  GuardMatchesCall'
  <2>1. \A u \in Tasks : InFlight(u)' <=> InFlight(u)
    BY <1>3 DEF Enqueue, Present, InFlight
  <2>2. QED BY <1>1, <1>3, <2>1
<1>4. ASSUME NEW t \in Tasks, Ends(t) PROVE GuardMatchesCall'
  <2>1. PICK how \in {"ended", "cancelled"} : EndCall(t, how)
    BY <1>4 DEF Ends
  <2>2. \A u \in Tasks : InFlight(u)' <=> InFlight(u) /\ u # t
    BY <2>1 DEF EndCall, InFlight
  <2>3. CASE call[t] \in Guarded
    <3>1. InFlight(t)
      BY <1>4, <2>3 DEF Ends, AtWork, InFlight
    <3>2. \A u \in Tasks : ~InFlight(u)'
      BY <2>2, <3>1 DEF GuardMatchesCall
    <3>3. ~in_use'
      BY <2>1, <2>3 DEF EndCall
    <3>4. QED BY <3>2, <3>3 DEF GuardMatchesCall
  <2>4. CASE call[t] \notin Guarded
    <3>1. \A u \in Tasks : InFlight(u)' <=> InFlight(u)
      BY <2>2, <2>4 DEF InFlight
    <3>2. in_use' = in_use
      BY <2>1, <2>4 DEF EndCall
    <3>3. QED BY <1>1, <3>1, <3>2
  <2>5. QED BY <2>3, <2>4
<1>5. ASSUME NEW t \in Tasks, GoesOn(t) PROVE GuardMatchesCall'
  <2>1. \A u \in Tasks : InFlight(u)' <=> InFlight(u)
    BY <1>5 DEF GoesOn, AtWork, InFlight
  <2>2. QED BY <1>1, <1>5, <2>1 DEF GoesOn
<1>6. CASE Quiet
  BY <1>1, <1>6 DEF Quiet, InFlight
<1>7. QED BY <1>2, <1>3, <1>4, <1>5, <1>6, Steps DEF Begins

LEMMA CallStep == IInv /\ [Next]_vars => \A u \in Tasks : CallInv(u)'
<1> SUFFICES ASSUME IInv, [Next]_vars, NEW u \in Tasks PROVE CallInv(u)'
  OBVIOUS
<1>a. TypeOK /\ CallInv(u)
  BY DEF IInv
<1> USE <1>a DEF TypeOK, CallInv
<1>1. ASSUME NEW t \in Tasks, Begins(t) PROVE CallInv(u)'
  <2>1. ASSUME NEW what \in Call, Enqueue(t, what), what \in {"exit", "invalidate"} => t = Owner
        PROVE  CallInv(u)'
    BY <2>1 DEF Enqueue, Present
  <2>2. ASSUME NEW what \in Guarded, Claim(t, what) PROVE CallInv(u)'
    BY <2>1, <2>2 DEF Claim
  <2>3. ASSUME t = Owner, NEW what \in {"exit", "invalidate"}, Enqueue(t, what)
        PROVE  CallInv(u)'
    BY <2>1, <2>3
  <2>4. CASE \E what \in Guarded : Claim(t, what)
    BY <2>2, <2>4
  <2>5. CASE t = Owner /\ \E what \in {"exit", "invalidate"} : Enqueue(t, what)
    BY <2>3, <2>5
  <2>6. QED BY <1>1, <2>4, <2>5 DEF Begins
<1>2. ASSUME NEW t \in Tasks, Ends(t) PROVE CallInv(u)'
  <2>1. PICK how \in {"ended", "cancelled"} : EndCall(t, how)
    BY <1>2 DEF Ends
  <2>2. CallInv(t)
    BY DEF IInv
  <2>3. QED BY <2>1, <2>2 DEF EndCall
<1>3. ASSUME NEW t \in Tasks, AcquireToken(t) PROVE CallInv(u)'
  BY <1>3 DEF AcquireToken
<1>4. ASSUME NEW t \in Tasks, DispatchThread(t) PROVE CallInv(u)'
  BY <1>4 DEF DispatchThread, PastCheckpoint
<1>r. ASSUME NEW t \in Tasks, call[t] = "execute", recovery[t] # "stood_down",
             stage[t] \in {"entering", "running"}, WorkerReturns(t)
      PROVE  CallInv(u)'
  BY <1>r DEF WorkerReturns
<1>5. ASSUME NEW t \in Tasks, AbortedReturns(t) PROVE CallInv(u)'
  <2>1. CallInv(t)
    BY DEF IInv
  <2>2. QED BY <1>r, <1>5, <2>1 DEF AbortedReturns
<1>6. ASSUME NEW t \in Tasks, AbortCall(t) \/ HookFails(t) PROVE CallInv(u)'
  BY <1>6 DEF AbortCall, HookFails, WatcherWoken, Started
<1>7. ASSUME NEW t \in Tasks, Recover(t) \/ RecoverFails(t) PROVE CallInv(u)'
  BY <1>7 DEF Recover, RecoverFails
<1>7a. ASSUME NEW t \in Tasks, WatcherStandsDown(t) PROVE CallInv(u)'
  BY <1>7a DEF WatcherStandsDown, WatcherWoken
<1>8. ASSUME NEW t \in Tasks, CancelScope(t) PROVE CallInv(u)'
  BY <1>8 DEF CancelScope
<1>9. ASSUME UNCHANGED calls PROVE CallInv(u)'
  BY <1>9 DEF calls
<1>10. ASSUME NEW t \in Tasks, OpenCursor(t) PROVE CallInv(u)'
  BY <1>9, <1>10 DEF OpenCursor
<1>11. ASSUME NEW t \in Tasks, TurnAway(t) PROVE CallInv(u)'
  BY <1>11 DEF TurnAway
<1>12. CASE UNCHANGED vars
  BY <1>9, <1>12 DEF vars
<1>13. ASSUME NEW t \in Tasks,
              CursorClosed(t) \/ CheckedIn(t) \/ Invalidated(t) \/ AbortedCallEnds(t)
       PROVE  Ends(t)
  BY <1>13 DEF CursorClosed, CheckedIn, Invalidated, AbortedCallEnds, Ends, AtWork
<1>13a. ASSUME NEW t \in Tasks,
               CancelBeforeDispatch(t) \/ NothingToTouch(t) \/ CallReturns(t)
        PROVE  CallInv(u)'
  <2>1. AtWork(t) /\ stage[t] \in {"queued", "entering", "running"}
    BY <1>13a DEF CancelBeforeDispatch, NothingToTouch, CallReturns, PastCheckpoint, AtWork
  <2>2. ASSUME NEW how \in {"ended", "cancelled"}, EndCall(t, how) PROVE CallInv(u)'
    BY <1>2, <2>1, <2>2 DEF Ends
  <2>3. ASSUME WatcherWoken(t), stage[t] \in {"entering", "running"}, WorkerReturns(t)
        PROVE  CallInv(u)'
    BY <1>r, <2>3 DEF WatcherWoken
  <2>4. QED BY <1>13a, <2>2, <2>3
            DEF CancelBeforeDispatch, NothingToTouch, CallReturns, PastCheckpoint, Returns
<1>14. ASSUME NEW t \in Tasks,
              Execute(t) \/ Commit(t) \/ CloseCursor(t) \/ Close(t) \/ Exit(t) \/ Invalidate(t)
       PROVE  Begins(t)
  BY <1>14 DEF Execute, Commit, CloseCursor, Close, Exit, Invalidate, Begins
<1>15. QED
  BY <1>1, <1>2, <1>3, <1>4, <1>5, <1>6, <1>7, <1>7a, <1>8, <1>10, <1>11, <1>12, <1>13,
     <1>13a, <1>14
  DEF Next, Request, Progress, Recovery, Finished

LEMMA InitInv == Init => IInv
<1> SUFFICES ASSUME Init PROVE IInv
  OBVIOUS
<1> USE DEF Init
<1>1. TypeOK
  BY DEF TypeOK
<1>2. GuardMatchesCall
  BY DEF GuardMatchesCall, InFlight
<1>3. \A t \in Tasks : CallInv(t)
  BY DEF CallInv
<1>4. QED BY <1>1, <1>2, <1>3 DEF IInv

LEMMA InvStep == IInv /\ [Next]_vars => IInv'
  BY TypeStep, GuardStep, CallStep DEF IInv

THEOREM Invariance == Spec => []IInv
  BY InitInv, InvStep, PTL DEF Spec

\* Flag, calls, cursors and connection keep their types; the fairy is emptied
\* exactly when its driver connection leaves, whoever calls what.
THEOREM TypeCorrect == Spec => []TypeOK
<1>1. IInv => TypeOK
  BY DEF IInv
<1>2. QED BY <1>1, Invariance, PTL

\* The `_in_use` flag is set exactly while one call is in flight, for every
\* number of tasks that share the connection, structured or not.
THEOREM GuardExact == Spec => []GuardMatchesCall
<1>1. IInv => GuardMatchesCall
  BY DEF IInv
<1>2. QED BY <1>1, Invariance, PTL

\* ConnectionBusyError is raised only while the call of another task is in flight.
THEOREM BusyWhenShared == Spec => BusyOnlyWhenShared
<1> DEFINE P == \A t \in Tasks : outcome[t] # "busy" /\ outcome'[t] = "busy"
                                 => \E u \in Tasks \ {t} : InFlight(u)
<1>1. IInv /\ [Next]_vars => [P]_vars
  <2> SUFFICES ASSUME IInv, Next, NEW t \in Tasks, outcome[t] # "busy", outcome'[t] = "busy"
               PROVE  \E u \in Tasks \ {t} : InFlight(u)
    OBVIOUS
  <2>a. TypeOK /\ GuardMatchesCall
    BY DEF IInv
  <2>1. ASSUME NEW u \in Tasks, NEW how \in {"ended", "cancelled"}, EndCall(u, how) PROVE FALSE
    BY <2>a, <2>1 DEF EndCall, TypeOK
  <2>2. outcome' # outcome
    OBVIOUS
  <2>3. TurnAway(t)
    <3>1. ASSUME NEW u \in Tasks, TurnAway(u) PROVE u = t
      BY <2>a, <3>1 DEF TurnAway, TypeOK
    <3>2. PICK u \in Tasks : TurnAway(u)
      BY <2>1, <2>2
      DEF Next, Finished, vars, calls, Request, OpenCursor, Execute, Commit, CloseCursor, Close,
          Exit, Invalidate, Claim, Enqueue, CancelScope, Progress, AcquireToken,
          CancelBeforeDispatch, DispatchThread, NothingToTouch, CallReturns, Returns,
          WorkerReturns, CursorClosed, CheckedIn, Invalidated, AbortedReturns, AbortedCallEnds,
          Recovery, WatcherStandsDown, AbortCall, HookFails, Recover, RecoverFails
    <3>3. QED BY <3>1, <3>2
  <2>4. QED BY <2>a, <2>3 DEF TurnAway, Present, GuardMatchesCall, InFlight
<1>2. QED BY <1>1, Invariance, PTL DEF BusyOnlyWhenShared, Spec

---------------------------------------------------------------------------
(* The connection, under structured use *)

LEMMA OneAtWorkStep == Nested /\ NestedInv /\ [Next]_vars => OneAtWork'
<1> SUFFICES ASSUME Nested, NestedInv, [Next]_vars PROVE OneAtWork'
  OBVIOUS
<1>a. IInv /\ TypeOK /\ GuardMatchesCall /\ OneAtWork /\ \A t \in Tasks : CallInv(t)
  BY DEF NestedInv, IInv
<1> USE <1>a, ConnectionAssumption DEF TypeOK
<1>1. ASSUME NEW t \in Tasks, NEW what \in Call, Enqueue(t, what),
             \A u \in Tasks \ {t} : ~AtWork(u)
      PROVE  OneAtWork'
  BY <1>1 DEF Enqueue, OneAtWork, AtWork
<1>2. ASSUME NEW t \in Tasks, NEW what \in Guarded, Claim(t, what) PROVE OneAtWork'
  <2>1. \A u \in Tasks : ~InFlight(u)
    BY <1>2 DEF Claim, GuardMatchesCall
  <2>2. call[Owner] \notin {"exit", "invalidate"}
    BY <1>2 DEF Claim, Enqueue, Present
  <2>3. \A u \in Tasks : ~AtWork(u)
    BY <2>1, <2>2 DEF CallInv, InFlight, AtWork
  <2>4. QED BY <1>1, <1>2, <2>3 DEF Claim
<1>3. ASSUME NEW t \in Tasks, OthersQuiet(t), NEW what \in {"exit", "invalidate"}, Enqueue(t, what)
      PROVE  OneAtWork'
  BY <1>1, <1>3 DEF OthersQuiet, AtWork
<1>4. ASSUME NEW t \in Tasks, Begins(t) PROVE OneAtWork'
  BY <1>2, <1>3, <1>4 DEF Begins
<1>5. ASSUME \A u \in Tasks : AtWork(u)' => AtWork(u) PROVE OneAtWork'
  BY <1>5 DEF OneAtWork
<1>6. ASSUME NEW t \in Tasks, Ends(t) PROVE OneAtWork'
  BY <1>5, <1>6 DEF Ends, EndCall, AtWork
<1>7. ASSUME NEW t \in Tasks, GoesOn(t) PROVE OneAtWork'
  BY <1>5, <1>7 DEF GoesOn, AtWork
<1>8. CASE Quiet
  BY <1>5, <1>8 DEF Quiet, AtWork
<1>9. QED BY <1>4, <1>6, <1>7, <1>8, Steps

LEMMA ConnStep == Nested /\ NestedInv /\ [Next]_vars => ConnInv'
<1> SUFFICES ASSUME Nested, NestedInv, [Next]_vars PROVE ConnInv'
  OBVIOUS
<1>a. TypeOK /\ OneAtWork /\ ConnInv /\ \A t \in Tasks : CallInv(t)
  BY DEF NestedInv, IInv
<1>b. \A t \in Tasks : recovery[t] # "none" \/ stage[t] = "running" => AtWork(t)
  BY <1>a DEF CallInv, AtWork
<1>c. \A t \in Tasks : cursor[t] = "open" => CursorsReleased[t] # "open"
  BY DEF CursorsReleased
<1>d. \A t \in Tasks : CursorsReleased[t] # "open"
  BY DEF CursorsReleased
<1> USE <1>a DEF TypeOK, connection
<1>1. ASSUME UNCHANGED <<cursor, connection>>,
             \A t \in Tasks : stage'[t] = "running" => stage[t] = "running" /\ recovery'[t] = recovery[t],
             \A t \in Tasks : recovery'[t] = "done" => recovery[t] = "done",
             \A t \in Tasks : recovery[t] = "running" => recovery'[t] = "running"
      PROVE  ConnInv'
  BY <1>1 DEF ConnInv
<1>2. ASSUME NEW t \in Tasks, NEW how \in {"ended", "cancelled"}, EndCall(t, how),
             recovery[t] # "running", UNCHANGED <<cursor, connection>>
      PROVE  ConnInv'
  BY <1>1, <1>2 DEF EndCall
<1>r. ASSUME NEW t \in Tasks, WorkerReturns(t) PROVE ConnInv'
  BY <1>1, <1>r DEF WorkerReturns
<1>3. ASSUME NEW t \in Tasks, CancelBeforeDispatch(t) PROVE ConnInv'
  <2>1. CASE WorkerReturns(t)
    BY <1>r, <2>1
  <2>2. CASE EndCall(t, "cancelled") /\ UNCHANGED <<cursor, connection>>
    <3>1. recovery[t] # "running"
      BY <1>3, <2>2 DEF CancelBeforeDispatch, CallInv, WatcherWoken
    <3>2. QED BY <1>2, <2>2, <3>1
  <2>3. QED BY <1>3, <2>1, <2>2 DEF CancelBeforeDispatch
<1>3a. ASSUME NEW t \in Tasks, NothingToTouch(t) \/ CallReturns(t) PROVE ConnInv'
  <2>1. Returns(t)
    BY <1>3a DEF NothingToTouch, CallReturns
  <2>2. QED BY <1>r, <1>2, <2>1 DEF Returns
<1>3b. ASSUME NEW t \in Tasks, AbortedCallEnds(t) PROVE ConnInv'
  BY <1>2, <1>3b DEF AbortedCallEnds
<1>4. ASSUME NEW t \in Tasks, NEW what \in Call, Enqueue(t, what) PROVE ConnInv'
  BY <1>1, <1>4 DEF Enqueue
<1>5. ASSUME NEW t \in Tasks, OpenCursor(t) PROVE ConnInv'
  BY <1>5 DEF OpenCursor, calls, ConnInv
<1>6. ASSUME NEW t \in Tasks, TurnAway(t) \/ CancelScope(t) \/ AcquireToken(t) \/ AbortedReturns(t)
      PROVE  ConnInv'
  BY <1>1, <1>r, <1>6 DEF TurnAway, CancelScope, AcquireToken, AbortedReturns
<1>7. ASSUME NEW t \in Tasks, DispatchThread(t) PROVE ConnInv'
  <2>1. fairy = "out" /\ recovery[t] # "done"
    BY <1>7 DEF DispatchThread, Touches, ConnInv
  <2>2. QED BY <1>7, <2>1 DEF DispatchThread, ConnInv
<1>8. ASSUME NEW t \in Tasks, CursorClosed(t) PROVE ConnInv'
  BY <1>8 DEF CursorClosed, EndCall, ConnInv, CallInv
<1>9. ASSUME NEW t \in Tasks, AbortCall(t) PROVE ConnInv'
  <2>1. Touches(t) => fairy = "out"
    BY <1>9 DEF AbortCall, WatcherWoken, Touches, ConnInv
  <2>2. \A u \in Tasks : recovery'[u] = "done" <=> recovery[u] = "done"
    BY <1>9 DEF AbortCall, WatcherWoken
  <2>3. dirty' /\ ~botched' => fairy = "out"
    BY <1>9, <2>1 DEF AbortCall, ConnInv
  <2>4. QED BY <1>9, <2>2, <2>3 DEF AbortCall, ConnInv
<1>9a. ASSUME NEW t \in Tasks, HookFails(t) PROVE ConnInv'
  <2>1. \A u \in Tasks : recovery'[u] = "done" <=> recovery[u] = "done"
    BY <1>9a DEF HookFails, WatcherWoken
  <2>2. QED BY <1>9a, <2>1 DEF HookFails, ConnInv
<1>9b. ASSUME NEW t \in Tasks, RecoverFails(t) PROVE ConnInv'
  <2>1. \A u \in Tasks : recovery'[u] = "done" <=> recovery[u] = "done"
    BY <1>9b DEF RecoverFails
  <2>2. QED BY <1>9b, <2>1 DEF RecoverFails, ConnInv
<1>9c. ASSUME NEW t \in Tasks, WatcherStandsDown(t) PROVE ConnInv'
  BY <1>9c DEF WatcherStandsDown, WatcherWoken, ConnInv
<1>10. ASSUME NEW t \in Tasks, AtWork(t), NEW u \in Tasks \ {t}
       PROVE  stage[u] # "running" /\ recovery[u] = "none"
  BY <1>b, <1>10 DEF OneAtWork
<1>11. ASSUME NEW t \in Tasks, CheckedIn(t) PROVE ConnInv'
  <2>1. AtWork(t) /\ recovery[t] = "none" /\ fairy = "out"
    BY <1>11 DEF CheckedIn, AtWork, CallInv, ConnInv
  <2>2. \A u \in Tasks : recovery[u] = "none" /\ recovery'[u] = "none"
    BY <1>10, <1>11, <2>1 DEF CheckedIn, EndCall
  <2>2a. ~(dirty /\ ~botched)
    BY <2>2 DEF ConnInv
  <2>3. \A u \in Tasks : stage'[u] # "running"
    BY <1>10, <1>11, <2>1 DEF CheckedIn, EndCall
  <2>4. cursor' = CursorsReleased /\ dirty' = dirty /\ botched' = botched
    BY <1>11, <2>1 DEF CheckedIn
  <2>5. QED BY <1>d, <2>2, <2>2a, <2>3, <2>4 DEF ConnInv
<1>12. ASSUME NEW t \in Tasks, Invalidated(t) PROVE ConnInv'
  <2>1. AtWork(t) /\ recovery[t] = "none" /\ fairy = "out"
    BY <1>12 DEF Invalidated, AtWork, CallInv, ConnInv
  <2>2. \A u \in Tasks : stage'[u] # "running" /\ recovery'[u] = "none"
    BY <1>10, <1>12, <2>1 DEF Invalidated, EndCall
  <2>3. cursor' = CursorsReleased /\ dirty' = FALSE
    BY <1>12, <2>1 DEF Invalidated, Drop
  <2>4. QED BY <1>d, <2>2, <2>3 DEF ConnInv
<1>13. ASSUME NEW t \in Tasks, Recover(t) PROVE ConnInv'
  <2>1. AtWork(t)
    BY <1>b, <1>13 DEF Recover
  <2>2. \A u \in Tasks : stage'[u] = "running" => u = t /\ recovery'[u] = "done"
    BY <1>10, <1>13, <2>1 DEF Recover
  <2>3. CASE fairy = "out"
    <3>1. /\ fairy' = "empty" /\ conn' = "closed"
          /\ cursor' = CursorsReleased /\ dirty' = FALSE
      BY <1>13, <2>3 DEF Recover, Drop
    <3>2. QED BY <1>d, <2>2, <3>1 DEF ConnInv
  <2>4. CASE fairy = "empty"
    <3>1. UNCHANGED <<cursor, connection>> /\ stage' = stage
      BY <1>13, <2>4 DEF Recover, Drop
    <3>2. ~(dirty /\ ~botched) /\ stage[t] # "running"
      BY <1>13, <2>4 DEF Recover, ConnInv
    <3>3. \A u \in Tasks : stage'[u] # "running"
      BY <2>2, <3>1, <3>2
    <3>4. QED BY <2>4, <3>1, <3>2, <3>3 DEF ConnInv
  <2>5. QED BY <2>3, <2>4
<1>14. CASE UNCHANGED vars
  BY <1>1, <1>14 DEF vars, calls
<1>15. QED
  BY <1>3, <1>3a, <1>3b, <1>4, <1>5, <1>6, <1>7, <1>8, <1>9, <1>9a, <1>9b, <1>9c, <1>11, <1>12,
     <1>13, <1>14
  DEF Next, Finished, Progress, Recovery, Request, Execute, Commit, CloseCursor, Close, Exit, Invalidate,
      Claim

LEMMA NestedInit == Init => NestedInv
<1> SUFFICES ASSUME Init PROVE NestedInv
  OBVIOUS
<1>1. OneAtWork /\ ConnInv
  BY DEF Init, OneAtWork, AtWork, ConnInv
<1>2. QED BY <1>1, InitInv DEF NestedInv

LEMMA NestedStep == Nested /\ NestedInv /\ [Next]_vars => NestedInv'
  BY InvStep, OneAtWorkStep, ConnStep DEF NestedInv

THEOREM NestedInvariance == Nested => (Spec => []NestedInv)
<1> SUFFICES ASSUME Nested PROVE Spec => []NestedInv
  OBVIOUS
<1>1. NestedInv /\ [Next]_vars => NestedInv'
  BY NestedStep
<1>2. QED BY <1>1, NestedInit, PTL DEF Spec

\* Used as documented, one thread at a time works on the driver connection,
\* check-in and by-hand invalidate included.
THEOREM OneThread == Nested => (Spec => []OneCallAtATime)
<1> SUFFICES ASSUME Nested PROVE Spec => []OneCallAtATime
  OBVIOUS
<1>1. NestedInv => OneCallAtATime
  <2> SUFFICES ASSUME NestedInv PROVE OneCallAtATime
    OBVIOUS
  <2> DEFINE Running == {t \in Tasks : stage[t] = "running"}
  <2>1. \A t, u \in Running : t = u
    BY DEF NestedInv, OneAtWork, AtWork
  <2>2. Running = {} \/ \E t : Running = {t}
    BY <2>1
  <2>3. Cardinality(Running) = 0 \/ Cardinality(Running) = 1
    <3>1. CASE Running = {}
      BY <3>1, FS_EmptySet
    <3>2. CASE \E t : Running = {t}
      BY <3>2, FS_Singleton
    <3>3. QED BY <2>2, <3>1, <3>2
  <2>4. QED BY <2>3 DEF OneCallAtATime
<1>2. QED BY <1>1, NestedInvariance, PTL

\* ... and what goes back into the pool has no call at work in it, no cursor open
\* on it and, unless an abort or a drop has raised, no aborted call left in it.
THEOREM ReturnsClean == Nested => (Spec => []ReturnedClean)
<1> SUFFICES ASSUME Nested PROVE Spec => []ReturnedClean
  OBVIOUS
<1>1. NestedInv => ReturnedClean
  BY DEF NestedInv, IInv, TypeOK, ConnInv, ReturnedClean
<1>2. QED BY <1>1, NestedInvariance, PTL
===============================================================================
