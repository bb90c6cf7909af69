---------------------------- MODULE AsyncPoolProofs ----------------------------
(*************************************************************************)
(* Proofs about AsyncPool, for every finite set of tasks and of          *)
(* connections, every pool size and every overflow.                      *)
(*************************************************************************)
EXTENDS AsyncPool, FiniteSetTheorems, SequenceTheorems, TLAPS

---------------------------------------------------------------------------
(* The inductive invariant *)

\* How a task's step, the stage of its offload, the record it has and the abort of
\* its call go together.  A record is with a task from its checkout to its check-in,
\* except that a recovery takes it away; a checkout has one only while it reconnects
\* it.
TaskInv(t) ==
    /\ step[t] \in {"outside", "holding"} <=> stage[t] = "none"
    /\ step[t] \in {"outside", "disposing"} => fairy[t] = NoConn
    /\ step[t] = "connecting" => (fairy[t] # NoConn <=> stage[t] = "reconnecting")
    /\ stage[t] \in {"waiting", "creating", "reconnecting"} => step[t] = "connecting"
    /\ stage[t] = "disposed" => step[t] = "disposing" /\ source # "open"
    /\ recovery[t] # "none" => /\ step[t] = "executing"
                               /\ stage[t] \in {"queued", "entering", "running", "returned"}
                               /\ stage[t] = "queued" => recovery[t] = "stood_down"
    /\ recovery[t] = "stood_down" => stage[t] \in {"queued", "entering"} /\ cancelled[t]
    /\ stage[t] = "returned" => step[t] = "executing"
    /\ recovery[t] = "running" /\ fairy[t] # NoConn => fairy[t] \in dirty \ botched

\* A connection with an aborted call in it is with the task whose recovery is on its
\* way, but those whose abort or whose recovery has failed.
DirtyInv == \A c \in dirty \ botched : \E t \in Tasks : fairy[t] = c /\ recovery[t] = "running"

\* Every task that waits for a token has one place in the queue, nobody else any.
QueueInv ==
    /\ \A t \in Tasks : stage[t] = "queued" <=> \E i \in DOMAIN waiters : waiters[i] = t
    /\ \A i, j \in DOMAIN waiters : waiters[i] = waiters[j] => i = j

IInv ==
    /\ TypeOK
    /\ \A t \in Tasks : TaskInv(t)
    /\ DirtyInv
    /\ QueueInv
    /\ TransientTokens
    /\ ExclusiveCheckout
    /\ CountExact

\* A record is with one task at most and not idle then, task by task.
Exclusive ==
    /\ \A t, u \in Tasks : t # u /\ fairy[t] = fairy[u] => fairy[t] = NoConn
    /\ \A t \in Tasks : fairy[t] \notin idle

LEMMA ExclusiveByTask == ASSUME TypeOK PROVE ExclusiveCheckout <=> Exclusive
  BY PoolAssumption DEF TypeOK, ExclusiveCheckout, Exclusive, Held, Range

---------------------------------------------------------------------------
(* The limiter's queue *)

Occurs(x, s) == \E i \in DOMAIN s : s[i] = x
Distinct(s)  == \A i, j \in DOMAIN s : s[i] = s[j] => i = j

LEMMA AppendOccurs ==
  ASSUME NEW S, NEW s \in Seq(S), NEW x \in S, Distinct(s), ~Occurs(x, s)
  PROVE  /\ Append(s, x) \in Seq(S) /\ Distinct(Append(s, x))
         /\ \A y \in S : Occurs(y, Append(s, x)) <=> Occurs(y, s) \/ y = x
<1>1. /\ Append(s, x) \in Seq(S) /\ DOMAIN Append(s, x) = 1 .. Len(s) + 1
      /\ DOMAIN s = 1 .. Len(s) /\ Len(s) \in Nat
      /\ \A i \in 1 .. Len(s) : Append(s, x)[i] = s[i]
      /\ Append(s, x)[Len(s) + 1] = x
  OBVIOUS
<1>2. Distinct(Append(s, x))
  BY <1>1 DEF Distinct, Occurs
<1>3. ASSUME NEW y \in S PROVE Occurs(y, Append(s, x)) <=> Occurs(y, s) \/ y = x
  BY <1>1 DEF Occurs
<1>4. QED BY <1>1, <1>2, <1>3

LEMMA RemoveAtOccurs ==
  ASSUME NEW S, NEW s \in Seq(S), NEW k \in DOMAIN s, Distinct(s)
  PROVE  /\ RemoveAt(s, k) \in Seq(S) /\ Distinct(RemoveAt(s, k))
         /\ \A y \in S : Occurs(y, RemoveAt(s, k)) <=> Occurs(y, s) /\ y # s[k]
<1> DEFINE r == RemoveAt(s, k)
<1>a. DOMAIN s = 1 .. Len(s) /\ Len(s) \in Nat /\ k \in 1 .. Len(s)
  OBVIOUS
<1>b. /\ SubSeq(s, 1, k - 1) \in Seq(S) /\ Len(SubSeq(s, 1, k - 1)) = k - 1
      /\ \A i \in 1 .. k - 1 : SubSeq(s, 1, k - 1)[i] = s[i]
  BY <1>a
<1>c. /\ SubSeq(s, k + 1, Len(s)) \in Seq(S) /\ Len(SubSeq(s, k + 1, Len(s))) = Len(s) - k
      /\ \A i \in 1 .. Len(s) - k : SubSeq(s, k + 1, Len(s))[i] = s[k + i]
  BY <1>a
<1>1. /\ r \in Seq(S)
      /\ DOMAIN r = 1 .. Len(s) - 1
      /\ \A i \in 1 .. k - 1 : r[i] = s[i]
      /\ \A i \in k .. Len(s) - 1 : r[i] = s[i + 1]
  <2> DEFINE p == SubSeq(s, 1, k - 1)
             q == SubSeq(s, k + 1, Len(s))
  <2> HIDE DEF p, q
  <2>1. /\ p \in Seq(S) /\ q \in Seq(S) /\ Len(p) = k - 1 /\ Len(q) = Len(s) - k
        /\ \A i \in 1 .. k - 1 : p[i] = s[i]
        /\ \A i \in 1 .. Len(s) - k : q[i] = s[k + i]
    BY <1>b, <1>c DEF p, q
  <2>2. r = p \o q
    BY DEF RemoveAt, p, q
  <2>3. r \in Seq(S) /\ DOMAIN r = 1 .. Len(s) - 1
    <3>1. p \o q \in Seq(S) /\ Len(p \o q) = Len(p) + Len(q)
      BY <2>1, ConcatProperties
    <3>2. Len(p) + Len(q) = Len(s) - 1
      BY <1>a, <2>1
    <3>3. QED BY <2>2, <3>1, <3>2
  <2>4. \A i \in 1 .. k - 1 : r[i] = s[i]
    BY <1>a, <2>1, <2>2
  <2>5. ASSUME NEW i \in k .. Len(s) - 1 PROVE r[i] = s[i + 1]
    <3>1. r[i] = q[i - (k - 1)] /\ i - (k - 1) \in 1 .. Len(s) - k
      BY <1>a, <2>1, <2>2
    <3>2. QED BY <1>a, <2>1, <3>1
  <2>6. QED BY <2>3, <2>4, <2>5
<1> HIDE DEF r
<1>2. ASSUME NEW i \in DOMAIN r, NEW j \in DOMAIN r, r[i] = r[j] PROVE i = j
  <2> DEFINE at(n) == IF n < k THEN n ELSE n + 1
  <2>1. \A n \in DOMAIN r : at(n) \in DOMAIN s /\ r[n] = s[at(n)]
    BY <1>a, <1>1
  <2>2. at(i) = at(j)
    BY <1>2, <2>1 DEF Distinct
  <2>3. QED BY <1>a, <1>1, <2>2
<1>3. ASSUME NEW y \in S PROVE Occurs(y, r) <=> Occurs(y, s) /\ y # s[k]
  <2>1. ASSUME NEW i \in DOMAIN r, r[i] = y PROVE Occurs(y, s) /\ y # s[k]
    BY <1>a, <1>1, <2>1 DEF Occurs, Distinct
  <2>2. ASSUME NEW i \in DOMAIN s, s[i] = y, y # s[k] PROVE Occurs(y, r)
    <3>1. CASE i < k
      BY <1>a, <1>1, <2>2, <3>1 DEF Occurs
    <3>2. CASE i > k
      <4>1. i - 1 \in k .. Len(s) - 1 /\ r[i - 1] = y
        BY <1>a, <1>1, <2>2, <3>2
      <4>2. QED BY <1>a, <4>1, <1>1 DEF Occurs
    <3>3. QED BY <1>a, <1>1, <2>2, <3>1, <3>2
  <2>3. QED BY <2>1, <2>2 DEF Occurs
<1>4. QED BY <1>1, <1>2, <1>3 DEF r, Distinct

\* Taking the head is taking the first.
LEMMA TailRemoves ==
  ASSUME NEW S, NEW s \in Seq(S), s # <<>>
  PROVE  Tail(s) = RemoveAt(s, 1) /\ 1 \in DOMAIN s /\ Head(s) = s[1]
<1>1. Len(s) \in Nat \ {0} /\ DOMAIN s = 1 .. Len(s)
  OBVIOUS
<1>2. Tail(s) = SubSeq(s, 2, Len(s))
  BY <1>1
<1>3. SubSeq(s, 1, 0) = <<>> /\ SubSeq(s, 2, Len(s)) \in Seq(S)
  BY <1>1
<1>4. <<>> \o SubSeq(s, 2, Len(s)) = SubSeq(s, 2, Len(s))
  BY <1>3
<1>5. QED BY <1>1, <1>2, <1>3, <1>4 DEF RemoveAt

---------------------------------------------------------------------------
(* Every step preserves the invariant *)

USE DEF Step, Stage, Abort

\* What an aborted call left is with its task, so nothing poisoned is idle but what
\* could not be dropped.
LEMMA DirtyHeld ==
  ASSUME TypeOK, DirtyInv, ExclusiveCheckout
  PROVE  idle \cap (dirty \ botched) = {}
  BY ExclusiveByTask DEF DirtyInv, Exclusive

\* What a record that goes back leaves of the pool.
LEMMA PutBackType ==
  ASSUME TypeOK, NEW c \in Conns, NEW dropped \in BOOLEAN, PutBack(c, dropped)
  PROVE  /\ idle' \in {idle, idle \cup {c}} /\ idle' \subseteq Conns
         /\ live' \in {live, live \ {c}} /\ live' \subseteq Conns
         /\ botched' \subseteq dirty' /\ dirty' \subseteq live'
         /\ dirty' \ botched' \subseteq dirty \ botched
         /\ dropped => c \notin dirty'
         /\ overflow' \in Int /\ source' = source
  BY DEF TypeOK, PutBack

\* What the end of a step writes.
LEMMA EndStepType ==
  ASSUME TypeOK, NEW t \in Tasks, NEW next \in {"outside", "holding"}, EndStep(t, next)
  PROVE  /\ step' \in [Tasks -> Step] /\ stage' \in [Tasks -> Stage]
         /\ cancelled' \in [Tasks -> BOOLEAN]
         /\ recovery' \in [Tasks -> Abort]
         /\ borrowers' \subseteq Tasks
  BY DEF TypeOK, EndStep

LEMMA GivesUpType ==
  ASSUME TypeOK, NEW t \in Tasks, GivesUp(t)
  PROVE  /\ step' \in [Tasks -> Step] /\ stage' \in [Tasks -> Stage]
         /\ cancelled' \in [Tasks -> BOOLEAN]
         /\ recovery' \in [Tasks -> Abort]
         /\ borrowers' \subseteq Tasks
  BY EndStepType DEF GivesUp

\* A record that goes back takes nothing from the other tasks.
LEMMA PutBackFrame ==
  ASSUME TypeOK, Exclusive, NEW t \in Tasks, fairy[t] # NoConn,
         NEW dropped \in BOOLEAN, PutBack(fairy[t], dropped)
  PROVE  /\ \A u \in Tasks \ {t} : /\ fairy[u] \in live' <=> fairy[u] \in live
                                   /\ fairy[u] \in dirty' <=> fairy[u] \in dirty
                                   /\ fairy[u] \in botched' <=> fairy[u] \in botched
         /\ source' = source
  BY PoolAssumption DEF TypeOK, PutBack, Exclusive

LEMMA TypeStep == IInv /\ [Next]_vars => TypeOK'
<1> SUFFICES ASSUME IInv, [Next]_vars PROVE TypeOK'
  OBVIOUS
<1>a. TypeOK /\ Exclusive
  BY ExclusiveByTask DEF IInv
<1>b. \A t \in Tasks : TaskInv(t) /\ (fairy[t] # NoConn => fairy[t] \in Conns)
  BY <1>a DEF IInv, TypeOK
<1> USE <1>a DEF TypeOK
<1>1. ASSUME NEW t \in Tasks, NEW what \in Step, Offload(t, what) PROVE TypeOK'
  <2>1. waiters' \in Seq(Tasks)
    BY <1>1 DEF Offload
  <2>2. QED BY <1>1, <2>1 DEF Offload, pool
<1>2. ASSUME NEW t \in Tasks, Connect(t) \/ Execute(t) \/ Commit(t) \/ CheckIn(t) \/ Close(t)
      PROVE  TypeOK'
  BY <1>1, <1>2 DEF Connect, Execute, Commit, CheckIn, Close
<1>r. ASSUME NEW t \in Tasks, stage[t] # "reconnecting", WorkerReturns(t) PROVE TypeOK'
  BY <1>r DEF WorkerReturns, pool
<1>g. ASSUME NEW t \in Tasks, stage[t] # "reconnecting", GivesUp(t), UNCHANGED <<fairy, pool>>,
             waiters' \in Seq(Tasks)
      PROVE  TypeOK'
  <2>1. \A u \in Tasks : stage'[u] # "reconnecting" => stage[u] # "reconnecting"
    BY <1>g DEF GivesUp, EndStep
  <2>2. QED BY <1>g, <2>1, GivesUpType DEF pool
<1>3. ASSUME NEW t \in Tasks, Limiter(t) PROVE TypeOK'
  <2>1. CASE AcquireToken(t)
    <3>1. stage[t] = "queued" /\ waiters' \in Seq(Tasks)
      BY <2>1, TailRemoves DEF AcquireToken, IInv, QueueInv
    <3>2. QED BY <2>1, <3>1 DEF AcquireToken, pool
  <2>2. CASE CancelQueued(t)
    <3>1. waiters' \in Seq(Tasks)
      <4>1. PICK i \in DOMAIN waiters : waiters' = RemoveAt(waiters, i)
        BY <2>2 DEF CancelQueued
      <4>2. QED BY <4>1 DEF RemoveAt
    <3>2. QED BY <1>g, <2>2, <3>1 DEF CancelQueued
  <2>3. CASE DispatchThread(t)
    BY <2>3 DEF DispatchThread, pool, limiter
  <2>4. CASE CancelAtCheckpoint(t)
    BY <1>r, <1>g, <2>4 DEF CancelAtCheckpoint
  <2>5. QED BY <1>3, <2>1, <2>2, <2>3, <2>4 DEF Limiter
<1>4. ASSUME NEW t \in Tasks, Recovery(t) PROVE TypeOK'
  <2>a. stage[t] # "reconnecting" /\ step[t] = "executing"
    BY <1>4, <1>b DEF Recovery, TaskInv
  <2>1. CASE RecoveryEnds(t) /\ fairy[t] # NoConn
    <3>1. \A u \in Tasks \ {t} : fairy[u] \in live' <=> fairy[u] \in live
      BY <1>b, <2>1, PutBackFrame DEF RecoveryEnds
    <3>2. QED BY <1>b, <2>1, <3>1, PutBackType DEF RecoveryEnds, limiter
  <2>2. CASE RecoveryEnds(t) /\ fairy[t] = NoConn
    BY <2>2 DEF RecoveryEnds, limiter, pool
  <2>3. CASE AbortCall(t)
    <3>1. fairy[t] # NoConn => fairy[t] \in live
      BY <2>a
    <3>2. QED BY <2>3, <3>1 DEF AbortCall, limiter
  <2>4. CASE HookFails(t)
    <3>1. fairy[t] # NoConn => fairy[t] \in live
      BY <2>a
    <3>2. QED BY <2>4, <3>1 DEF HookFails, limiter
  <2>5. CASE RecoveryFails(t)
    <3>1. fairy[t] # NoConn => fairy[t] \in dirty
      BY <1>b, <2>5 DEF RecoveryFails, TaskInv
    <3>2. QED BY <2>5, <3>1 DEF RecoveryFails, limiter
  <2>6. CASE WatcherStandsDown(t)
    BY <2>6 DEF WatcherStandsDown, limiter, pool
  <2>7. CASE AbortedCallEnds(t)
    BY <1>g, <2>7 DEF AbortedCallEnds
  <2>8. CASE AbortedReturns(t)
    BY <1>r, <2>8 DEF AbortedReturns
  <2>9. QED BY <1>4, <2>1, <2>2, <2>3, <2>4, <2>5, <2>6, <2>7, <2>8 DEF Recovery
<1>5. ASSUME NEW t \in Tasks, Checkout(t) PROVE TypeOK'
  <2>1. ASSUME NEW c \in Conns, TakeIdle(t, c) PROVE TypeOK'
    <3>1. \A u \in Tasks \ {t} : stage'[u] = stage[u]
      BY <2>1 DEF TakeIdle, EndStep
    <3>2. QED BY <2>1, <3>1, EndStepType DEF TakeIdle
  <2>2. ASSUME NEW c \in Conns, TakeStale(t, c) PROVE TypeOK'
    BY <2>2 DEF TakeStale, limiter, Exclusive
  <2>3. ASSUME NEW c \in Conns, CloneSource(t, c) PROVE TypeOK'
    <3>1. \A u \in Tasks \ {t} : stage'[u] = stage[u]
      BY <2>3 DEF CloneSource, EndStep
    <3>2. QED BY <2>3, <3>1, EndStepType DEF CloneSource
  <2>4. CASE Reconnected(t)
    <3>1. fairy[t] \in Conns /\ \A u \in Tasks \ {t} : stage'[u] = stage[u]
      BY <1>b, <2>4, <1>5 DEF Reconnected, EndStep, Checkout, TaskInv
    <3>2. QED BY <2>4, <3>1, EndStepType DEF Reconnected
  <2>5. CASE ReconnectFails(t)
    <3>1. fairy[t] # NoConn /\ fairy[t] \in Conns
      BY <1>b, <2>5, <1>5 DEF ReconnectFails, Checkout, TaskInv
    <3>2. \A u \in Tasks \ {t} : stage'[u] = stage[u] /\ (fairy[u] \in live' <=> fairy[u] \in live)
      BY <2>5, <3>1, PutBackFrame DEF ReconnectFails, EndStep
    <3>3. QED BY <2>5, <3>1, <3>2, PutBackType, EndStepType DEF ReconnectFails
  <2>6. CASE WaitForConnection(t)
    BY <2>6 DEF WaitForConnection, limiter, pool
  <2>7. CASE CheckoutTimesOut(t)
    <3>1. \A u \in Tasks : stage'[u] # "reconnecting" => stage[u] # "reconnecting"
      BY <2>7 DEF CheckoutTimesOut, EndStep
    <3>2. QED BY <2>7, <3>1, EndStepType DEF CheckoutTimesOut, pool
  <2>8. CASE ReserveConnection(t)
    BY <2>8 DEF ReserveConnection, CheckingOut, limiter
  <2>9. CASE CloneFails(t)
    <3>1. \A u \in Tasks : stage'[u] # "reconnecting" => stage[u] # "reconnecting"
      BY <2>9 DEF CloneFails, EndStep
    <3>2. QED BY <2>9, <3>1, EndStepType DEF CloneFails
  <2>10. QED BY <1>5, <2>1, <2>2, <2>3, <2>4, <2>5, <2>6, <2>7, <2>8, <2>9 DEF Checkout
<1>6. ASSUME NEW t \in Tasks, Teardown(t) PROVE TypeOK'
  <2>1. CASE CheckedIn(t) /\ fairy[t] # NoConn
    <3>1. \A u \in Tasks \ {t} : stage'[u] = stage[u] /\ (fairy[u] \in live' <=> fairy[u] \in live)
      BY <2>1, PutBackFrame DEF CheckedIn, EndStep
    <3>2. QED BY <1>b, <2>1, <3>1, PutBackType, EndStepType DEF CheckedIn
  <2>2. CASE CheckedIn(t) /\ fairy[t] = NoConn
    <3>1. \A u \in Tasks \ {t} : stage'[u] = stage[u]
      BY <2>2 DEF CheckedIn, EndStep
    <3>2. QED BY <2>2, <3>1, EndStepType DEF CheckedIn, pool
  <2>3. CASE Dispose(t)
    BY <2>3, PoolAssumption DEF Dispose, Exclusive, limiter
  <2>4. CASE CloseSource(t)
    <3>1. \A u \in Tasks : stage'[u] # "reconnecting" => stage[u] # "reconnecting"
      BY <2>4 DEF CloseSource, EndStep
    <3>2. QED BY <2>4, <3>1, EndStepType DEF CloseSource
  <2>5. QED BY <1>6, <2>1, <2>2, <2>3, <2>4 DEF Teardown
<1>7. ASSUME NEW t \in Tasks, CancelScope(t) PROVE TypeOK'
  BY <1>7 DEF CancelScope, limiter, pool
<1>8. ASSUME NEW t \in Tasks, CallReturns(t) PROVE TypeOK'
  BY <1>r, <1>g, <1>8 DEF CallReturns
<1>9. CASE UNCHANGED vars
  BY <1>9 DEF vars, session, limiter, pool
<1>10. QED
  BY <1>2, <1>3, <1>4, <1>5, <1>6, <1>7, <1>8, <1>9 DEF Next, Progress

LEMMA TaskStep == IInv /\ [Next]_vars => \A u \in Tasks : TaskInv(u)'
<1> SUFFICES ASSUME IInv, [Next]_vars, NEW u \in Tasks PROVE TaskInv(u)'
  OBVIOUS
<1>a. TypeOK /\ TaskInv(u) /\ Exclusive
  BY ExclusiveByTask DEF IInv
<1>b. NoConn \notin Conns /\ NoConn \notin idle /\ NoConn \notin dirty
  BY <1>a, PoolAssumption DEF TypeOK
<1>t. \A t \in Tasks : TaskInv(t)
  BY DEF IInv
<1> USE <1>a, <1>b DEF TypeOK, TaskInv
<1>1. ASSUME NEW t \in Tasks, Connect(t) PROVE TaskInv(u)'
  BY <1>1 DEF Connect, Offload, pool
<1>2. ASSUME NEW t \in Tasks, Execute(t) PROVE TaskInv(u)'
  BY <1>2 DEF Execute, Offload, pool
<1>3. ASSUME NEW t \in Tasks, Commit(t) PROVE TaskInv(u)'
  BY <1>3 DEF Commit, Offload, pool
<1>4. ASSUME NEW t \in Tasks, CheckIn(t) PROVE TaskInv(u)'
  BY <1>4 DEF CheckIn, Offload, pool
<1>5. ASSUME NEW t \in Tasks, Close(t) PROVE TaskInv(u)'
  BY <1>5 DEF Close, Offload, pool
<1>6. ASSUME NEW t \in Tasks, CancelScope(t) PROVE TaskInv(u)'
  BY <1>6 DEF CancelScope, pool
<1>r. ASSUME NEW t \in Tasks, step[t] = "executing", recovery[t] # "stood_down",
             stage[t] \in {"entering", "running"}, WorkerReturns(t)
      PROVE  TaskInv(u)'
  BY <1>r DEF WorkerReturns, pool
<1>g. ASSUME NEW t \in Tasks, stage[t] # "reconnecting", GivesUp(t), UNCHANGED <<fairy, pool>>
      PROVE  TaskInv(u)'
  <2>1. CASE u = t
    <3>1. step[t] = "connecting" => fairy[t] = NoConn
      BY <1>g, <2>1
    <3>2. step[t] # "connecting" => step'[t] = "holding"
      BY <1>g DEF GivesUp, EndStep
    <3>3. QED BY <1>g, <2>1, <3>1, <3>2 DEF GivesUp, EndStep
  <2>2. CASE u # t
    BY <1>g, <2>2 DEF GivesUp, EndStep, pool
  <2>3. QED BY <2>1, <2>2
<1>7. ASSUME NEW t \in Tasks, CallReturns(t) PROVE TaskInv(u)'
  BY <1>7, <1>r, <1>g DEF CallReturns, WatcherWoken
<1>8. ASSUME NEW t \in Tasks, AcquireToken(t) PROVE TaskInv(u)'
  <2>1. stage[t] = "queued"
    BY <1>8, TailRemoves DEF AcquireToken, IInv, QueueInv
  <2>2. QED BY <1>8, <2>1 DEF AcquireToken, pool
<1>9. ASSUME NEW t \in Tasks, DispatchThread(t) PROVE TaskInv(u)'
  BY <1>9 DEF DispatchThread, pool
<1>10. ASSUME NEW t \in Tasks, CancelQueued(t) PROVE TaskInv(u)'
  BY <1>10, <1>g DEF CancelQueued
<1>11. ASSUME NEW t \in Tasks, CancelAtCheckpoint(t) PROVE TaskInv(u)'
  BY <1>11, <1>r, <1>g DEF CancelAtCheckpoint, WatcherWoken
<1>12. ASSUME NEW t \in Tasks, AbortCall(t) PROVE TaskInv(u)'
  BY <1>12 DEF AbortCall, WatcherWoken, Started, Exclusive
<1>12a. ASSUME NEW t \in Tasks, HookFails(t) PROVE TaskInv(u)'
  BY <1>12a DEF HookFails, WatcherWoken, Started, Exclusive
<1>12b. ASSUME NEW t \in Tasks, WatcherStandsDown(t) PROVE TaskInv(u)'
  BY <1>12b DEF WatcherStandsDown, WatcherWoken, pool
<1>13. ASSUME NEW t \in Tasks, RecoveryEnds(t), fairy[t] # NoConn PROVE TaskInv(u)'
  <2>1. /\ source' = source
        /\ u # t => /\ fairy[u] \in dirty' <=> fairy[u] \in dirty
                    /\ fairy[u] \in botched' <=> fairy[u] \in botched
    BY <1>13, PutBackFrame DEF RecoveryEnds
  <2>2. step[t] = "executing"
    BY <1>13, <1>t DEF RecoveryEnds
  <2>3. QED BY <1>13, <2>1, <2>2 DEF RecoveryEnds
<1>13a. ASSUME NEW t \in Tasks, RecoveryEnds(t), fairy[t] = NoConn PROVE TaskInv(u)'
  BY <1>13a DEF RecoveryEnds, pool
<1>13b. ASSUME NEW t \in Tasks, RecoveryFails(t) PROVE TaskInv(u)'
  BY <1>13b DEF RecoveryFails, Exclusive
<1>14. ASSUME NEW t \in Tasks, AbortedCallEnds(t) PROVE TaskInv(u)'
  BY <1>14, <1>g DEF AbortedCallEnds
<1>15. ASSUME NEW t \in Tasks, AbortedReturns(t) PROVE TaskInv(u)'
  <2>1. step[t] = "executing"
    BY <1>15, <1>t DEF AbortedReturns
  <2>2. QED BY <1>15, <1>r, <2>1 DEF AbortedReturns
<1>16. ASSUME NEW t \in Tasks, NEW c \in Conns, TakeIdle(t, c) PROVE TaskInv(u)'
  BY <1>16 DEF TakeIdle, CheckingOut, EndStep
<1>17. ASSUME NEW t \in Tasks, NEW c \in Conns, TakeStale(t, c) PROVE TaskInv(u)'
  <2>1. recovery[t] = "none" /\ fairy[t] = NoConn
    BY <1>17, <1>t DEF TakeStale, CheckingOut
  <2>2. QED BY <1>17, <2>1 DEF TakeStale, CheckingOut, Exclusive
<1>18. ASSUME NEW t \in Tasks, NEW c \in Conns, CloneSource(t, c) PROVE TaskInv(u)'
  BY <1>18 DEF CloneSource, EndStep
<1>19. ASSUME NEW t \in Tasks, Reconnected(t) PROVE TaskInv(u)'
  BY <1>19 DEF Reconnected, EndStep
<1>20. ASSUME NEW t \in Tasks, ReconnectFails(t) PROVE TaskInv(u)'
  <2>1. /\ source' = source
        /\ u # t => /\ fairy[u] \in dirty' <=> fairy[u] \in dirty
                    /\ fairy[u] \in botched' <=> fairy[u] \in botched
    BY <1>20, <1>t, PutBackFrame DEF ReconnectFails
  <2>2. QED BY <1>20, <2>1 DEF ReconnectFails, EndStep
<1>21. ASSUME NEW t \in Tasks, WaitForConnection(t) PROVE TaskInv(u)'
  BY <1>21 DEF WaitForConnection, pool
<1>22. ASSUME NEW t \in Tasks, CheckoutTimesOut(t) PROVE TaskInv(u)'
  BY <1>22 DEF CheckoutTimesOut, EndStep, pool
<1>23. ASSUME NEW t \in Tasks, ReserveConnection(t) PROVE TaskInv(u)'
  BY <1>23 DEF ReserveConnection, CheckingOut
<1>24. ASSUME NEW t \in Tasks, CloneFails(t) PROVE TaskInv(u)'
  BY <1>24 DEF CloneFails, EndStep
<1>25. ASSUME NEW t \in Tasks, CheckedIn(t) PROVE TaskInv(u)'
  <2>1. /\ source' = source
        /\ u # t => /\ fairy[u] \in dirty' <=> fairy[u] \in dirty
                    /\ fairy[u] \in botched' <=> fairy[u] \in botched
    BY <1>25, PutBackFrame DEF CheckedIn, pool
  <2>2. QED BY <1>25, <2>1 DEF CheckedIn, EndStep
<1>26. ASSUME NEW t \in Tasks, Dispose(t) PROVE TaskInv(u)'
  BY <1>26 DEF Dispose, Exclusive
<1>27. ASSUME NEW t \in Tasks, CloseSource(t) PROVE TaskInv(u)'
  BY <1>27 DEF CloseSource, EndStep
<1>28. CASE UNCHANGED vars
  BY <1>28 DEF vars, session, pool
<1>29. CASE \E t \in Tasks : Limiter(t) \/ CallReturns(t) \/ CancelScope(t)
  BY <1>6, <1>7, <1>8, <1>9, <1>10, <1>11, <1>29 DEF Limiter
<1>30. CASE \E t \in Tasks : Recovery(t)
  BY <1>12, <1>12a, <1>12b, <1>13, <1>13a, <1>13b, <1>14, <1>15, <1>30 DEF Recovery
<1>31. CASE \E t \in Tasks : Checkout(t)
  BY <1>16, <1>17, <1>18, <1>19, <1>20, <1>21, <1>22, <1>23, <1>24, <1>31 DEF Checkout
<1>32. CASE \E t \in Tasks : Teardown(t)
  BY <1>25, <1>26, <1>27, <1>32 DEF Teardown
<1>33. QED
  BY <1>1, <1>2, <1>3, <1>4, <1>5, <1>28, <1>29, <1>30, <1>31, <1>32 DEF Next, Progress

\* The steps that move records: nothing else touches what the pool's part of the
\* invariant speaks of.
MovesRecords(t) ==
    \/ AbortCall(t) \/ HookFails(t) \/ RecoveryEnds(t) \/ RecoveryFails(t)
    \/ Reconnected(t) \/ ReconnectFails(t) \/ ReserveConnection(t)
    \/ CloneFails(t) \/ CheckedIn(t) \/ Dispose(t) \/ CloseSource(t)
    \/ \E c \in Conns : TakeIdle(t, c) \/ TakeStale(t, c) \/ CloneSource(t, c)

\* The others leave pool and records alone, and begin or end no aborted call nor
\* the making of a connection.
LEMMA OtherSteps ==
  ASSUME IInv, [Next]_vars
  PROVE  \/ \E t \in Tasks : MovesRecords(t)
         \/ /\ UNCHANGED <<fairy, idle, live, dirty, botched, overflow, source>>
            /\ \A u \in Tasks : /\ recovery'[u] = "running" <=> recovery[u] = "running"
                                /\ stage'[u] = "creating" <=> stage[u] = "creating"
<1> DEFINE Quiet == /\ UNCHANGED <<fairy, idle, live, dirty, botched, overflow, source>>
                    /\ \A u \in Tasks : /\ recovery'[u] = "running" <=> recovery[u] = "running"
                                        /\ stage'[u] = "creating" <=> stage[u] = "creating"
<1>a. TypeOK /\ \A t \in Tasks : TaskInv(t)
  BY DEF IInv
<1> USE <1>a DEF TypeOK, TaskInv, pool, limiter
<1>1. ASSUME NEW t \in Tasks, Connect(t) \/ Execute(t) \/ Commit(t) \/ CheckIn(t) \/ Close(t)
      PROVE  Quiet
  <2>1. PICK what \in Step : Offload(t, what)
    BY <1>1 DEF Connect, Execute, Commit, CheckIn, Close
  <2>2. QED BY <2>1 DEF Offload
<1>2. ASSUME NEW t \in Tasks, AcquireToken(t) PROVE Quiet
  <2>1. stage[t] = "queued"
    BY <1>2, TailRemoves DEF AcquireToken, IInv, QueueInv
  <2>2. QED BY <1>2, <2>1 DEF AcquireToken
<1>3. ASSUME NEW t \in Tasks, DispatchThread(t) PROVE Quiet
  BY <1>3 DEF DispatchThread
<1>4. ASSUME NEW t \in Tasks, CancelQueued(t) PROVE Quiet
  BY <1>4 DEF CancelQueued, GivesUp, EndStep
<1>5. ASSUME NEW t \in Tasks, CancelAtCheckpoint(t) PROVE Quiet
  BY <1>5 DEF CancelAtCheckpoint, WatcherWoken, WorkerReturns, GivesUp, EndStep
<1>6. ASSUME NEW t \in Tasks, CancelScope(t) PROVE Quiet
  BY <1>6 DEF CancelScope
<1>7. ASSUME NEW t \in Tasks, CallReturns(t) PROVE Quiet
  BY <1>7 DEF CallReturns, WatcherWoken, WorkerReturns, GivesUp, EndStep
<1>8. ASSUME NEW t \in Tasks, AbortedCallEnds(t) PROVE Quiet
  BY <1>8 DEF AbortedCallEnds, GivesUp, EndStep
<1>9. ASSUME NEW t \in Tasks, AbortedReturns(t) PROVE Quiet
  BY <1>9 DEF AbortedReturns, WorkerReturns
<1>10. ASSUME NEW t \in Tasks, WaitForConnection(t) PROVE Quiet
  BY <1>10 DEF WaitForConnection
<1>11. ASSUME NEW t \in Tasks, CheckoutTimesOut(t) PROVE Quiet
  BY <1>11 DEF CheckoutTimesOut, EndStep
<1>12. ASSUME NEW t \in Tasks, WatcherStandsDown(t) PROVE Quiet
  BY <1>12 DEF WatcherStandsDown, WatcherWoken
<1>13. ASSUME UNCHANGED vars PROVE Quiet
  BY <1>13 DEF vars, session
<1> HIDE DEF Quiet, TaskInv, TypeOK
<1>14. ASSUME NEW t \in Tasks, Progress(t) PROVE Quiet \/ MovesRecords(t)
  BY <1>2, <1>3, <1>4, <1>5, <1>8, <1>9, <1>10, <1>11, <1>12, <1>14
  DEF Progress, Limiter, Recovery, Checkout, Teardown, MovesRecords
<1>15. Quiet \/ \E t \in Tasks : MovesRecords(t)
  BY <1>1, <1>6, <1>7, <1>13, <1>14 DEF Next
<1>16. QED BY <1>15 DEF Quiet

LEMMA DirtyStep == IInv /\ [Next]_vars => DirtyInv'
<1> SUFFICES ASSUME IInv, [Next]_vars, NEW c \in dirty', c \notin botched'
             PROVE  \E t \in Tasks : fairy'[t] = c /\ recovery'[t] = "running"
  BY DEF DirtyInv
<1>a. /\ TypeOK /\ Exclusive /\ DirtyInv /\ \A t \in Tasks : TaskInv(t)
  BY ExclusiveByTask DEF IInv
<1>b. NoConn \notin dirty
  BY <1>a, PoolAssumption DEF TypeOK
\* Enough: c was aborted before, and is with a recovering task that keeps it.
<1>c. ASSUME c \in dirty \ botched,
             \A u \in Tasks : fairy[u] = c /\ recovery[u] = "running"
                              => fairy'[u] = c /\ recovery'[u] = "running"
      PROVE  \E u \in Tasks : fairy'[u] = c /\ recovery'[u] = "running"
  BY <1>a, <1>c DEF DirtyInv
<1>1. ASSUME NEW t \in Tasks, AbortCall(t)
      PROVE  \E u \in Tasks : fairy'[u] = c /\ recovery'[u] = "running"
  <2>1. CASE c = fairy[t]
    BY <1>a, <1>1, <2>1 DEF AbortCall, TypeOK
  <2>2. CASE c # fairy[t]
    <3>1. c \in dirty \ botched
      BY <1>1, <2>2 DEF AbortCall
    <3>2. QED BY <1>a, <1>c, <1>1, <2>2, <3>1 DEF AbortCall, TypeOK
  <2>3. QED BY <2>1, <2>2
<1>2. ASSUME NEW t \in Tasks, HookFails(t)
      PROVE  \E u \in Tasks : fairy'[u] = c /\ recovery'[u] = "running"
  <2>1. c # NoConn
    <3>1. c \in dirty \/ c \in {fairy[t]} \ {NoConn}
      BY <1>2 DEF HookFails
    <3>2. QED BY <1>b, <3>1
  <2>2. c # fairy[t]
    BY <1>2, <2>1 DEF HookFails
  <2>3. c \in dirty \ botched
    BY <1>2, <2>2 DEF HookFails
  <2>4. QED BY <1>a, <1>c, <1>2, <2>2, <2>3 DEF HookFails, TypeOK
<1>3. ASSUME NEW t \in Tasks, RecoveryFails(t)
      PROVE  \E u \in Tasks : fairy'[u] = c /\ recovery'[u] = "running"
  <2>1. c \in dirty \ botched /\ c # NoConn
    BY <1>b, <1>3 DEF RecoveryFails
  <2>2. c # fairy[t]
    BY <1>3, <2>1 DEF RecoveryFails
  <2>3. QED BY <1>a, <1>c, <1>3, <2>1, <2>2 DEF RecoveryFails, TypeOK
<1>4. ASSUME NEW t \in Tasks, RecoveryEnds(t)
      PROVE  \E u \in Tasks : fairy'[u] = c /\ recovery'[u] = "running"
  <2>1. c \in dirty \ botched /\ c # fairy[t]
    <3>1. CASE fairy[t] = NoConn
      BY <1>b, <1>4, <3>1 DEF RecoveryEnds, pool
    <3>2. CASE fairy[t] # NoConn
      BY <1>4, <3>2 DEF RecoveryEnds, PutBack
    <3>3. QED BY <3>1, <3>2
  <2>2. QED BY <1>a, <1>c, <1>4, <2>1 DEF RecoveryEnds, TypeOK
<1>5. ASSUME NEW t \in Tasks,
             \/ Reconnected(t) \/ ReconnectFails(t) \/ ReserveConnection(t) \/ CloneFails(t)
             \/ CheckedIn(t) \/ Dispose(t) \/ CloseSource(t)
             \/ \E d \in Conns : TakeIdle(t, d) \/ TakeStale(t, d) \/ CloneSource(t, d)
      PROVE  \E u \in Tasks : fairy'[u] = c /\ recovery'[u] = "running"
  <2>1. c \in dirty \ botched
    <3>1. CASE ReconnectFails(t)
      BY <1>a, <3>1 DEF ReconnectFails, PutBack, TypeOK
    <3>2. CASE CheckedIn(t)
      BY <1>a, <3>2 DEF CheckedIn, PutBack, pool, TypeOK
    <3>3. QED BY <1>5, <3>1, <3>2 DEF Reconnected, ReserveConnection, CloneFails, Dispose,
                                      CloseSource, TakeIdle, TakeStale, CloneSource
  <2>2. recovery[t] = "none"
    BY <1>a, <1>5 DEF Reconnected, ReconnectFails, ReserveConnection, CloneFails, CheckedIn,
                      Dispose, CloseSource, TakeIdle, TakeStale, CloneSource, CheckingOut,
                      TaskInv, TypeOK
  <2>3. \A u \in Tasks \ {t} : fairy'[u] = fairy[u] /\ recovery'[u] = recovery[u]
    BY <1>a, <1>5 DEF Reconnected, ReconnectFails, ReserveConnection, CloneFails, CheckedIn,
                      Dispose, CloseSource, TakeIdle, TakeStale, CloneSource, EndStep, TypeOK
  <2>4. QED BY <1>c, <2>1, <2>2, <2>3
<1>6. CASE \E t \in Tasks : MovesRecords(t)
  BY <1>1, <1>2, <1>3, <1>4, <1>5, <1>6 DEF MovesRecords
<1>7. CASE /\ UNCHANGED <<fairy, idle, live, dirty, botched, overflow, source>>
           /\ \A u \in Tasks : /\ recovery'[u] = "running" <=> recovery[u] = "running"
                               /\ stage'[u] = "creating" <=> stage[u] = "creating"
  BY <1>c, <1>7
<1>8. QED BY <1>6, <1>7, OtherSteps

---------------------------------------------------------------------------
(* The limiter *)

WithoutToken == {"none", "queued", "returned"}

\* The offload of t gives its token back.
Releases(t) ==
    /\ stage[t] # "queued"
    /\ \/ stage' = [stage EXCEPT ![t] = "none"]
       \/ stage' = [stage EXCEPT ![t] = "returned"]
    /\ borrowers' = borrowers \ {t}
    /\ waiters' = waiters

\* Nobody joins or leaves the queue, takes or returns a token.
LimiterIdle ==
    /\ UNCHANGED limiter
    /\ \A u \in Tasks : /\ stage'[u] = "queued" <=> stage[u] = "queued"
                        /\ stage'[u] \in WithoutToken <=> stage[u] \in WithoutToken

LEMMA LimiterSteps ==
  ASSUME IInv, [Next]_vars
  PROVE  \/ \E t \in Tasks : \/ \E what \in Step : Offload(t, what)
                             \/ AcquireToken(t) \/ CancelQueued(t) \/ Releases(t)
         \/ LimiterIdle
<1>a. TypeOK /\ \A t \in Tasks : TaskInv(t)
  BY DEF IInv
<1> USE <1>a DEF TypeOK, WithoutToken, limiter
<1>1. ASSUME NEW t \in Tasks, Connect(t) \/ Execute(t) \/ Commit(t) \/ CheckIn(t) \/ Close(t)
      PROVE  \E what \in Step : Offload(t, what)
  BY <1>1 DEF Connect, Execute, Commit, CheckIn, Close
<1>2. ASSUME NEW t \in Tasks,
             CallReturns(t) \/ AbortedCallEnds(t) \/ CancelAtCheckpoint(t)
      PROVE  Releases(t)
  BY <1>2 DEF CallReturns, AbortedCallEnds, CancelAtCheckpoint, WorkerReturns, GivesUp, EndStep,
              Releases
<1>3. ASSUME NEW t \in Tasks,
             \/ Reconnected(t) \/ ReconnectFails(t) \/ CheckoutTimesOut(t) \/ CloneFails(t)
             \/ CheckedIn(t) \/ CloseSource(t)
      PROVE  Releases(t)
  BY <1>3 DEF Reconnected, ReconnectFails, CheckoutTimesOut, CloneFails, CheckedIn, CloseSource,
              EndStep, Releases
<1>4. ASSUME NEW t \in Tasks, NEW c \in Conns, TakeIdle(t, c) \/ CloneSource(t, c)
      PROVE  Releases(t)
  BY <1>4 DEF TakeIdle, CloneSource, CheckingOut, EndStep, Releases
<1>5. ASSUME NEW t \in Tasks, AbortedReturns(t) PROVE Releases(t)
  BY <1>5 DEF AbortedReturns, WorkerReturns, Releases
<1>6. ASSUME NEW t \in Tasks,
             \/ AbortCall(t) \/ HookFails(t) \/ WatcherStandsDown(t)
             \/ RecoveryEnds(t) \/ RecoveryFails(t) \/ CancelScope(t)
      PROVE  LimiterIdle
  BY <1>6 DEF AbortCall, HookFails, WatcherStandsDown, RecoveryEnds, RecoveryFails, CancelScope,
              LimiterIdle
<1>7. ASSUME NEW t \in Tasks,
             DispatchThread(t) \/ WaitForConnection(t) \/ ReserveConnection(t) \/ Dispose(t)
      PROVE  LimiterIdle
  BY <1>7 DEF DispatchThread, WaitForConnection, ReserveConnection, CheckingOut, Dispose,
              LimiterIdle
<1>8. ASSUME NEW t \in Tasks, NEW c \in Conns, TakeStale(t, c) PROVE LimiterIdle
  BY <1>8 DEF TakeStale, CheckingOut, LimiterIdle
<1>9. CASE UNCHANGED vars
  BY <1>9 DEF vars, session, LimiterIdle
<1>10. QED
  BY <1>1, <1>2, <1>3, <1>4, <1>5, <1>6, <1>7, <1>8, <1>9
  DEF Next, Progress, Limiter, Recovery, Checkout, Teardown

LEMMA QueueStep == IInv /\ [Next]_vars => QueueInv'
<1> SUFFICES ASSUME IInv, [Next]_vars PROVE QueueInv'
  OBVIOUS
<1> DEFINE Waits == /\ \A u \in Tasks : stage[u] = "queued" <=> Occurs(u, waiters)
                    /\ Distinct(waiters)
<1>a. TypeOK /\ Waits
  BY DEF IInv, QueueInv, Occurs, Distinct
<1> USE <1>a DEF TypeOK
<1> SUFFICES Waits'
  BY DEF QueueInv, Occurs, Distinct
<1>1. ASSUME NEW t \in Tasks, NEW what \in Step, Offload(t, what) PROVE Waits'
  <2>1. ~Occurs(t, waiters) /\ waiters' = Append(waiters, t)
    BY <1>1 DEF Offload
  <2>2. /\ Distinct(waiters')
        /\ \A u \in Tasks : Occurs(u, waiters') <=> Occurs(u, waiters) \/ u = t
    BY <2>1, AppendOccurs
  <2>3. \A u \in Tasks : stage'[u] = "queued" <=> stage[u] = "queued" \/ u = t
    BY <1>1 DEF Offload
  <2>4. QED BY <2>2, <2>3 DEF Occurs, Distinct
<1>2. ASSUME NEW t \in Tasks, NEW k \in DOMAIN waiters, waiters[k] = t,
             waiters' = RemoveAt(waiters, k),
             \A u \in Tasks : stage'[u] = "queued" <=> stage[u] = "queued" /\ u # t
      PROVE  Waits'
  <2>1. /\ Distinct(waiters')
        /\ \A u \in Tasks : Occurs(u, waiters') <=> Occurs(u, waiters) /\ u # t
    BY <1>2, RemoveAtOccurs
  <2>2. QED BY <1>2, <2>1 DEF Occurs, Distinct
<1>3. ASSUME NEW t \in Tasks, AcquireToken(t) PROVE Waits'
  <2>1. 1 \in DOMAIN waiters /\ waiters[1] = t /\ waiters' = RemoveAt(waiters, 1)
    BY <1>3, TailRemoves DEF AcquireToken
  <2>2. \A u \in Tasks : stage'[u] = "queued" <=> stage[u] = "queued" /\ u # t
    BY <1>3 DEF AcquireToken
  <2>3. QED BY <1>2, <2>1, <2>2
<1>4. ASSUME NEW t \in Tasks, CancelQueued(t) PROVE Waits'
  <2>1. PICK k \in DOMAIN waiters : waiters[k] = t /\ waiters' = RemoveAt(waiters, k)
    BY <1>4 DEF CancelQueued
  <2>2. \A u \in Tasks : stage'[u] = "queued" <=> stage[u] = "queued" /\ u # t
    BY <1>4 DEF CancelQueued, GivesUp, EndStep
  <2>3. QED BY <1>2, <2>1, <2>2
<1>5. ASSUME waiters' = waiters, \A u \in Tasks : stage'[u] = "queued" <=> stage[u] = "queued"
      PROVE  Waits'
  BY <1>5 DEF Occurs, Distinct
<1>6. ASSUME NEW t \in Tasks, Releases(t) PROVE Waits'
  BY <1>5, <1>6 DEF Releases
<1>7. CASE LimiterIdle
  BY <1>5, <1>7 DEF LimiterIdle, limiter
<1>8. QED BY <1>1, <1>3, <1>4, <1>6, <1>7, LimiterSteps

\* The tokens that are out are finitely many, as the tasks are.
LEMMA BorrowersFinite ==
  ASSUME TypeOK
  PROVE  IsFiniteSet(borrowers) /\ Cardinality(borrowers) \in Nat
  BY PoolAssumption, FS_Subset, FS_CardinalityType DEF TypeOK

LEMMA TokensStep == IInv /\ [Next]_vars => TransientTokens'
<1> SUFFICES ASSUME IInv, [Next]_vars PROVE TransientTokens'
  OBVIOUS
<1>a. TypeOK /\ TransientTokens /\ QueueInv
  BY DEF IInv
<1>b. IsFiniteSet(borrowers) /\ Cardinality(borrowers) \in Nat /\ Cardinality(borrowers) <= Tokens
  BY <1>a, BorrowersFinite DEF TransientTokens
<1>c. Tokens \in Nat
  BY PoolAssumption DEF Tokens
<1> USE <1>a DEF TypeOK, TransientTokens, WithoutToken
<1>1. ASSUME borrowers' = borrowers,
             \A u \in Tasks : stage'[u] \in WithoutToken <=> stage[u] \in WithoutToken
      PROVE  TransientTokens'
  BY <1>1, <1>b
<1>2. ASSUME NEW t \in Tasks, borrowers' = borrowers \ {t}, stage'[t] \in WithoutToken,
             \A u \in Tasks \ {t} : stage'[u] = stage[u]
      PROVE  TransientTokens'
  <2>1. borrowers' = {u \in Tasks : stage'[u] \notin {"none", "queued", "returned"}}
    BY <1>2
  <2>2. Cardinality(borrowers') <= Cardinality(borrowers) /\ Cardinality(borrowers') \in Nat
    BY <1>b, <1>2, FS_Subset, FS_CardinalityType
  <2>3. QED BY <1>b, <1>c, <2>1, <2>2
<1>3. ASSUME NEW t \in Tasks, NEW what \in Step, Offload(t, what) PROVE TransientTokens'
  BY <1>1, <1>3 DEF Offload
<1>4. ASSUME NEW t \in Tasks, AcquireToken(t) PROVE TransientTokens'
  <2>1. borrowers' = {u \in Tasks : stage'[u] \notin {"none", "queued", "returned"}}
    BY <1>4 DEF AcquireToken
  <2>2. borrowers' = borrowers \cup {t} /\ Cardinality(borrowers) < Tokens
    BY <1>4 DEF AcquireToken
  <2>3. /\ IsFiniteSet(borrowers')
        /\ Cardinality(borrowers') \in {Cardinality(borrowers), Cardinality(borrowers) + 1}
    BY <1>b, <2>2, FS_AddElement
  <2>4. QED BY <1>b, <1>c, <2>1, <2>2, <2>3
<1>5. ASSUME NEW t \in Tasks, CancelQueued(t) PROVE TransientTokens'
  BY <1>2, <1>5 DEF CancelQueued, GivesUp, EndStep
<1>6. ASSUME NEW t \in Tasks, Releases(t) PROVE TransientTokens'
  BY <1>2, <1>6 DEF Releases
<1>7. CASE LimiterIdle
  BY <1>1, <1>7 DEF LimiterIdle, limiter
<1>8. QED BY <1>3, <1>4, <1>5, <1>6, <1>7, LimiterSteps

---------------------------------------------------------------------------
(* The records *)

Creating == {t \in Tasks : stage[t] = "creating"}

\* A task takes an idle record out of the pool ...
Takes(t, c) ==
    /\ c \in idle /\ fairy[t] = NoConn
    /\ fairy' = [fairy EXCEPT ![t] = c]
    /\ idle' = idle \ {c}
    /\ Creating' = Creating
    /\ UNCHANGED <<overflow, source>>

\* ... or one that it made on the place it had reserved ...
Makes(t, c) ==
    /\ t \in Creating /\ fairy[t] = NoConn /\ c \notin idle \cup Range(fairy)
    /\ fairy' = [fairy EXCEPT ![t] = c]
    /\ Creating' = Creating \ {t}
    /\ UNCHANGED <<idle, overflow, source>>

\* ... and gives it back.
GivesBack(t) ==
    /\ fairy[t] # NoConn
    /\ \E dropped \in BOOLEAN : PutBack(fairy[t], dropped)
    /\ fairy' = [fairy EXCEPT ![t] = NoConn]
    /\ Creating' = Creating

\* A place is counted before its connection is made, and again when that failed.
Reserves(t) ==
    /\ t \in Tasks \ Creating /\ overflow < MaxOverflow
    /\ overflow' = overflow + 1
    /\ Creating' = Creating \cup {t}
    /\ UNCHANGED <<fairy, idle, source>>

Unreserves(t) ==
    /\ t \in Creating
    /\ overflow' = overflow - 1
    /\ Creating' = Creating \ {t}
    /\ UNCHANGED <<fairy, idle, source>>

\* The pool is emptied, or nothing moves at all.
Empties == idle' = {} /\ source' # "open" /\ UNCHANGED fairy
Still   == /\ UNCHANGED <<fairy, idle, overflow>> /\ Creating' = Creating
           /\ source' = source \/ source' # "open"

LEMMA RecordSteps ==
  ASSUME IInv, [Next]_vars
  PROVE  \/ \E t \in Tasks : \/ \E c \in Conns : Takes(t, c) \/ Makes(t, c)
                             \/ GivesBack(t) \/ Reserves(t) \/ Unreserves(t)
         \/ Empties \/ Still
<1>a. TypeOK /\ \A t \in Tasks : TaskInv(t)
  BY DEF IInv
<1> USE <1>a DEF TypeOK, TaskInv, Creating
<1>1. ASSUME NEW t \in Tasks, NEW c \in Conns, TakeIdle(t, c) PROVE Takes(t, c)
  BY <1>1 DEF TakeIdle, CheckingOut, EndStep, Takes
<1>2. ASSUME NEW t \in Tasks, NEW c \in Conns, TakeStale(t, c) PROVE Takes(t, c)
  BY <1>2 DEF TakeStale, CheckingOut, Takes
<1>3. ASSUME NEW t \in Tasks, NEW c \in Conns, CloneSource(t, c) PROVE Makes(t, c)
  BY <1>3 DEF CloneSource, EndStep, Makes
<1>4. ASSUME NEW t \in Tasks, RecoveryEnds(t) PROVE GivesBack(t) \/ Still
  <2>1. CASE fairy[t] # NoConn
    BY <1>4, <2>1 DEF RecoveryEnds, GivesBack
  <2>2. CASE fairy[t] = NoConn
    BY <1>4, <2>2 DEF RecoveryEnds, pool, Still
  <2>3. QED BY <2>1, <2>2
<1>5. ASSUME NEW t \in Tasks, ReconnectFails(t) PROVE GivesBack(t)
  BY <1>5 DEF ReconnectFails, EndStep, GivesBack
<1>6. ASSUME NEW t \in Tasks, CheckedIn(t), fairy[t] # NoConn PROVE GivesBack(t)
  BY <1>6 DEF CheckedIn, EndStep, GivesBack
<1>7. ASSUME NEW t \in Tasks, CheckedIn(t), fairy[t] = NoConn PROVE Still
  BY <1>7 DEF CheckedIn, EndStep, pool, Still
<1>8. ASSUME NEW t \in Tasks, ReserveConnection(t) PROVE Reserves(t)
  BY <1>8 DEF ReserveConnection, CheckingOut, Reserves
<1>9. ASSUME NEW t \in Tasks, CloneFails(t) PROVE Unreserves(t)
  BY <1>9 DEF CloneFails, EndStep, Unreserves
<1>10. ASSUME NEW t \in Tasks, Dispose(t) PROVE Empties
  BY <1>10 DEF Dispose, Empties
<1>11. ASSUME NEW t \in Tasks,
              \/ AbortCall(t) \/ HookFails(t) \/ RecoveryFails(t)
              \/ Reconnected(t) \/ CloseSource(t)
       PROVE  Still
  BY <1>11 DEF AbortCall, HookFails, RecoveryFails, Reconnected, CloseSource, EndStep, Still
<1>12. ASSUME UNCHANGED <<fairy, idle, live, dirty, botched, overflow, source>>,
              \A u \in Tasks : stage'[u] = "creating" <=> stage[u] = "creating"
       PROVE  Still
  BY <1>12 DEF Still
<1>13. QED
  BY <1>1, <1>2, <1>3, <1>4, <1>5, <1>6, <1>7, <1>8, <1>9, <1>10, <1>11, <1>12, OtherSteps
  DEF MovesRecords

LEMMA ExclusiveStep == IInv /\ [Next]_vars => ExclusiveCheckout'
<1> SUFFICES ASSUME IInv, [Next]_vars PROVE ExclusiveCheckout'
  OBVIOUS
<1>a. TypeOK /\ Exclusive /\ TypeOK'
  BY ExclusiveByTask, TypeStep DEF IInv
<1>b. NoConn \notin Conns
  BY PoolAssumption
<1>c. SUFFICES Exclusive'
  BY <1>a DEF TypeOK, ExclusiveCheckout, Exclusive, Held, Range
<1> USE <1>a, <1>b DEF TypeOK, Exclusive
<1>1. ASSUME NEW t \in Tasks, NEW c \in Conns, Takes(t, c) PROVE Exclusive'
  BY <1>1 DEF Takes
<1>2. ASSUME NEW t \in Tasks, NEW c \in Conns, Makes(t, c) PROVE Exclusive'
  BY <1>2 DEF Makes, Range
<1>3. ASSUME NEW t \in Tasks, GivesBack(t) PROVE Exclusive'
  BY <1>3 DEF GivesBack, PutBack
<1>4. CASE \/ \E t \in Tasks : Reserves(t) \/ Unreserves(t)
           \/ Empties \/ Still
  BY <1>4 DEF Reserves, Unreserves, Empties, Still
<1>5. QED BY <1>1, <1>2, <1>3, <1>4, RecordSteps

\* What is with the tasks, after one of them took or gave back a record.
LEMMA HeldAfterTaking ==
  ASSUME TypeOK, NEW t \in Tasks, NEW c \in Conns, fairy[t] = NoConn,
         fairy' = [fairy EXCEPT ![t] = c]
  PROVE  Held' = Held \cup {c}
<1>1. ASSUME NEW d PROVE d \in Held' <=> d \in Held \cup {c}
  BY PoolAssumption DEF TypeOK, Held, Range
<1>2. QED BY <1>1

LEMMA HeldAfterGiving ==
  ASSUME TypeOK, Exclusive, NEW t \in Tasks, fairy[t] # NoConn,
         fairy' = [fairy EXCEPT ![t] = NoConn]
  PROVE  Held' = Held \ {fairy[t]} /\ fairy[t] \in Held
<1>1. ASSUME NEW d PROVE d \in Held' <=> d \in Held \ {fairy[t]}
  BY DEF TypeOK, Exclusive, Held, Range
<1>2. fairy[t] \in Held
  BY DEF TypeOK, Held, Range
<1>3. QED BY <1>1, <1>2

LEMMA RecordsFinite ==
  ASSUME TypeOK
  PROVE  /\ IsFiniteSet(idle \cup Held) /\ Cardinality(idle \cup Held) \in Nat
         /\ IsFiniteSet(Creating) /\ Cardinality(Creating) \in Nat
         /\ Held \subseteq Conns
<1>1. Held \subseteq Conns
  BY DEF TypeOK, Held, Range
<1>2. QED BY <1>1, PoolAssumption, FS_Subset, FS_CardinalityType DEF TypeOK, Creating

LEMMA CountStep == IInv /\ [Next]_vars => CountExact'
<1> SUFFICES ASSUME IInv, [Next]_vars, source' = "open"
             PROVE  /\ overflow' + PoolSize
                           = Cardinality(idle' \cup Held') + Cardinality(Creating')
                    /\ overflow' <= MaxOverflow
  BY DEF CountExact, Creating
<1>a. TypeOK /\ Exclusive
  BY ExclusiveByTask DEF IInv
<1>b. ASSUME source = "open"
      PROVE  /\ overflow + PoolSize = Cardinality(idle \cup Held) + Cardinality(Creating)
             /\ overflow <= MaxOverflow
  BY <1>b DEF IInv, CountExact, Creating
<1>c. /\ IsFiniteSet(idle \cup Held) /\ Cardinality(idle \cup Held) \in Nat
      /\ IsFiniteSet(Creating) /\ Cardinality(Creating) \in Nat
      /\ overflow \in Int /\ PoolSize \in Nat /\ MaxOverflow \in Nat
  BY <1>a, RecordsFinite, PoolAssumption DEF TypeOK
<1>1. ASSUME NEW t \in Tasks, NEW c \in Conns, Takes(t, c)
      PROVE  /\ idle' \cup Held' = idle \cup Held
             /\ Creating' = Creating /\ overflow' = overflow /\ source' = source
  BY <1>a, <1>1, HeldAfterTaking DEF Takes
<1>2. ASSUME NEW t \in Tasks, NEW c \in Conns, Makes(t, c)
      PROVE  /\ Cardinality(idle' \cup Held') = Cardinality(idle \cup Held) + 1
             /\ Cardinality(Creating') = Cardinality(Creating) - 1
             /\ overflow' = overflow /\ source' = source
  <2>1. idle' \cup Held' = (idle \cup Held) \cup {c} /\ c \notin idle \cup Held
    BY <1>a, <1>2, HeldAfterTaking DEF Makes, Held
  <2>2. Creating' = Creating \ {t} /\ t \in Creating /\ overflow' = overflow /\ source' = source
    BY <1>2 DEF Makes
  <2>3. Cardinality(idle' \cup Held') = Cardinality(idle \cup Held) + 1
    BY <1>c, <2>1, FS_AddElement
  <2>4. Cardinality(Creating') = Cardinality(Creating) - 1
    BY <1>c, <2>2, FS_RemoveElement
  <2>5. QED BY <2>2, <2>3, <2>4
<1>3. ASSUME NEW t \in Tasks, GivesBack(t)
      PROVE  /\ Creating' = Creating /\ source' = source
             /\ \/ Cardinality(idle' \cup Held') = Cardinality(idle \cup Held) /\ overflow' = overflow
                \/ /\ Cardinality(idle' \cup Held') = Cardinality(idle \cup Held) - 1
                   /\ overflow' = overflow - 1
  <2>1. /\ Held' = Held \ {fairy[t]} /\ fairy[t] \in Held /\ fairy[t] \notin idle
        /\ Creating' = Creating /\ source' = source
    BY <1>a, <1>3, HeldAfterGiving DEF GivesBack, PutBack, Exclusive
  <2>2. \/ idle' = idle \cup {fairy[t]} /\ overflow' = overflow
        \/ idle' = idle /\ overflow' = overflow - 1
    BY <1>3 DEF GivesBack, PutBack
  <2>3. CASE idle' = idle \cup {fairy[t]} /\ overflow' = overflow
    <3>1. idle' \cup Held' = idle \cup Held
      BY <2>1, <2>3
    <3>2. QED BY <2>1, <2>3, <3>1
  <2>4. CASE idle' = idle /\ overflow' = overflow - 1
    <3>1. idle' \cup Held' = (idle \cup Held) \ {fairy[t]} /\ fairy[t] \in idle \cup Held
      BY <2>1, <2>4
    <3>2. QED BY <1>c, <2>1, <2>4, <3>1, FS_RemoveElement
  <2>5. QED BY <2>2, <2>3, <2>4
<1>4. ASSUME NEW t \in Tasks, Reserves(t) \/ Unreserves(t)
      PROVE  /\ idle' \cup Held' = idle \cup Held /\ source' = source
             /\ \/ /\ Cardinality(Creating') = Cardinality(Creating) + 1
                   /\ overflow' = overflow + 1 /\ overflow < MaxOverflow
                \/ /\ Cardinality(Creating') = Cardinality(Creating) - 1
                   /\ overflow' = overflow - 1
  <2>1. idle' \cup Held' = idle \cup Held /\ source' = source
    BY <1>4 DEF Reserves, Unreserves, Held
  <2>2. CASE Reserves(t)
    <3>1. Creating' = Creating \cup {t} /\ t \notin Creating
      BY <2>2 DEF Reserves
    <3>2. Cardinality(Creating') = Cardinality(Creating) + 1
      BY <1>c, <3>1, FS_AddElement
    <3>3. QED BY <2>1, <2>2, <3>2 DEF Reserves
  <2>3. CASE Unreserves(t)
    <3>1. Creating' = Creating \ {t} /\ t \in Creating
      BY <2>3 DEF Unreserves
    <3>2. Cardinality(Creating') = Cardinality(Creating) - 1
      BY <1>c, <3>1, FS_RemoveElement
    <3>3. QED BY <2>1, <2>3, <3>2 DEF Unreserves
  <2>4. QED BY <1>4, <2>2, <2>3
<1> DEFINE Counted == /\ overflow' + PoolSize
                             = Cardinality(idle' \cup Held') + Cardinality(Creating')
                      /\ overflow' <= MaxOverflow
<1>5. ASSUME Still PROVE Counted
  BY <1>b, <1>5 DEF Still, Held
<1>6. ~Empties
  BY DEF Empties
<1>7. ASSUME NEW t \in Tasks, NEW c \in Conns, Takes(t, c) PROVE Counted
  BY <1>b, <1>1, <1>7
<1>8. ASSUME NEW t \in Tasks, NEW c \in Conns, Makes(t, c) PROVE Counted
  <2>1. /\ Cardinality(idle' \cup Held') = Cardinality(idle \cup Held) + 1
        /\ Cardinality(Creating') = Cardinality(Creating) - 1
        /\ overflow' = overflow /\ source' = source
    BY <1>2, <1>8
  <2>2. QED BY <1>b, <1>c, <2>1
<1>9. ASSUME NEW t \in Tasks, GivesBack(t) PROVE Counted
  <2>1. Cardinality(Creating') = Cardinality(Creating) /\ source = "open"
    BY <1>3, <1>9
  <2>2. \/ Cardinality(idle' \cup Held') = Cardinality(idle \cup Held) /\ overflow' = overflow
        \/ /\ Cardinality(idle' \cup Held') = Cardinality(idle \cup Held) - 1
           /\ overflow' = overflow - 1
    BY <1>3, <1>9
  <2>3. overflow + PoolSize = Cardinality(idle \cup Held) + Cardinality(Creating)
    BY <1>b, <2>1
  <2>4. overflow <= MaxOverflow
    BY <1>b, <2>1
  <2>5. overflow' + PoolSize = Cardinality(idle' \cup Held') + Cardinality(Creating')
    BY <1>c, <2>1, <2>2, <2>3
  <2>6. overflow' <= MaxOverflow
    BY <1>c, <2>2, <2>4
  <2>7. QED BY <2>5, <2>6
<1>10. ASSUME NEW t \in Tasks, Reserves(t) \/ Unreserves(t) PROVE Counted
  <2>1. Cardinality(idle' \cup Held') = Cardinality(idle \cup Held) /\ source = "open"
    BY <1>4, <1>10
  <2>2. \/ /\ Cardinality(Creating') = Cardinality(Creating) + 1
           /\ overflow' = overflow + 1 /\ overflow < MaxOverflow
        \/ /\ Cardinality(Creating') = Cardinality(Creating) - 1
           /\ overflow' = overflow - 1
    BY <1>4, <1>10
  <2>3. overflow + PoolSize = Cardinality(idle \cup Held) + Cardinality(Creating)
    BY <1>b, <2>1
  <2>4. overflow <= MaxOverflow
    BY <1>b, <2>1
  <2>5. overflow' + PoolSize = Cardinality(idle' \cup Held') + Cardinality(Creating')
    <3>1. CASE overflow' = overflow + 1 /\ Cardinality(Creating') = Cardinality(Creating) + 1
      BY <1>c, <2>1, <2>3, <3>1
    <3>2. CASE overflow' = overflow - 1 /\ Cardinality(Creating') = Cardinality(Creating) - 1
      BY <1>c, <2>1, <2>3, <3>2
    <3>3. QED BY <2>2, <3>1, <3>2
  <2>6. overflow' <= MaxOverflow
    BY <1>c, <2>2, <2>4
  <2>7. QED BY <2>5, <2>6
<1> HIDE DEF Counted
<1>11. Counted
  BY <1>5, <1>6, <1>7, <1>8, <1>9, <1>10, RecordSteps
<1>12. QED BY <1>11 DEF Counted

---------------------------------------------------------------------------
(* The invariant holds, and with it the properties the runs check *)

LEMMA InitInv == Init => IInv
<1> SUFFICES ASSUME Init PROVE IInv
  OBVIOUS
<1> USE PoolAssumption DEF Init
<1>1. TypeOK
  BY DEF TypeOK
<1>2. \A t \in Tasks : TaskInv(t)
  BY DEF TaskInv
<1>3. DirtyInv
  BY DEF DirtyInv
<1>4. QueueInv
  BY DEF QueueInv
<1>5. TransientTokens
  <2>1. borrowers = {} /\ Cardinality(borrowers) = 0
    BY FS_EmptySet
  <2>2. borrowers = {t \in Tasks : stage[t] \notin {"none", "queued", "returned"}}
    BY <2>1
  <2>3. QED BY <2>1, <2>2 DEF TransientTokens, Tokens
<1>6. Held = {} /\ idle = {}
  BY DEF Held, Range
<1>7. ExclusiveCheckout
  BY <1>6 DEF ExclusiveCheckout
<1>8. CountExact
  <2>1. idle \cup Held = {} /\ {t \in Tasks : stage[t] = "creating"} = {}
    BY <1>6
  <2>2. /\ Cardinality(idle \cup Held) = 0
        /\ Cardinality({t \in Tasks : stage[t] = "creating"}) = 0
    BY <2>1, FS_EmptySet
  <2>3. overflow + PoolSize = 0 /\ overflow <= MaxOverflow
    OBVIOUS
  <2>4. QED BY <2>2, <2>3 DEF CountExact
<1>9. QED BY <1>1, <1>2, <1>3, <1>4, <1>5, <1>7, <1>8 DEF IInv

LEMMA InvStep == IInv /\ [Next]_vars => IInv'
  BY TypeStep, TaskStep, DirtyStep, QueueStep, TokensStep, ExclusiveStep, CountStep DEF IInv

THEOREM Invariance == Spec => []IInv
  BY InitInv, InvStep, PTL DEF Spec

\* Every variable of tasks, limiter and pool keeps its type, whatever the number
\* of tasks and the sizes of the pool.
THEOREM TypeCorrect == Spec => []TypeOK
<1>1. IInv => TypeOK
  BY DEF IInv
<1>2. QED BY <1>1, Invariance, PTL

\* Tokens are out exactly for the offloads under way, and never more than
\* pool_size + max_overflow of them.
THEOREM TokensTransient == Spec => []TransientTokens
<1>1. IInv => TransientTokens
  BY DEF IInv
<1>2. QED BY <1>1, Invariance, PTL

\* No two sessions ever have the same connection, and none has one that is idle
\* in the pool: the check-in after an invalidate returns nothing twice.
THEOREM CheckoutsExclusive == Spec => []ExclusiveCheckout
<1>1. IInv => ExclusiveCheckout
  BY DEF IInv
<1>2. QED BY <1>1, Invariance, PTL

\* A connection in which a call was aborted, however late, never waits in the pool,
\* unless its abort or the drop itself raised.
THEOREM PoisonNeverIdle == Spec => []NoPoisonedIdle
<1>1. IInv => NoPoisonedIdle
  BY DirtyHeld DEF IInv, NoPoisonedIdle
<1>2. QED BY <1>1, Invariance, PTL

\* The overflow counter counts what is out, idle or being made, until the pool is
\* disposed: the pool neither shrinks for good nor grows beyond its ceiling.
THEOREM CountsExact == Spec => []CountExact
<1>1. IInv => CountExact
  BY DEF IInv
<1>2. QED BY <1>1, Invariance, PTL

\* Tasks that each have a record are no more than an open pool has connections.
LEMMA HoldersBounded ==
  ASSUME IInv, source = "open", NEW S \in SUBSET Tasks, \A t \in S : fairy[t] # NoConn
  PROVE  /\ IsFiniteSet(S) /\ Cardinality(S) \in Nat
         /\ Cardinality(S) <= PoolSize + MaxOverflow
<1> DEFINE Record == [t \in S |-> fairy[t]]
<1>a. TypeOK /\ Exclusive
  BY ExclusiveByTask DEF IInv
<1>1. \A t \in S : fairy[t] \in Held
  BY <1>a DEF TypeOK, Held, Range
<1>2. Record \in Injection(S, Held)
  BY <1>a, <1>1 DEF Exclusive, Injection, IsInjective
<1>3. /\ IsFiniteSet(idle \cup Held) /\ Cardinality(idle \cup Held) \in Nat
      /\ Cardinality(Creating) \in Nat
  BY <1>a, RecordsFinite
<1>4. IsFiniteSet(Held) /\ Cardinality(Held) \in Nat /\ Cardinality(Held) <= Cardinality(idle \cup Held)
  BY <1>3, FS_Subset, FS_CardinalityType
<1>5. IsFiniteSet(S) /\ Cardinality(S) \in Nat /\ Cardinality(S) <= Cardinality(Held)
  BY <1>2, <1>4, FS_Injection, FS_CardinalityType
<1>6. Cardinality(idle \cup Held) <= PoolSize + MaxOverflow
  BY <1>a, <1>3, PoolAssumption DEF IInv, CountExact, Creating, TypeOK
<1>7. QED BY <1>3, <1>4, <1>5, <1>6, PoolAssumption

\* At most twice as many threads work for an open pool as it has connections: each
\* recovery that has a connection to drop has another one.
THEOREM ThreadsBounded == Spec => []OffloadsBounded
<1>1. IInv => OffloadsBounded
  <2> DEFINE Dropping == {t \in Tasks : recovery[t] = "running" /\ fairy[t] # NoConn}
  <2> SUFFICES ASSUME IInv, source = "open"
               PROVE  Cardinality(borrowers) + Cardinality(Dropping)
                          <= 2 * (PoolSize + MaxOverflow)
    BY DEF OffloadsBounded
  <2>1. Cardinality(borrowers) \in Nat /\ Cardinality(borrowers) <= PoolSize + MaxOverflow
    BY BorrowersFinite DEF IInv, TransientTokens, Tokens
  <2>2. Dropping \in SUBSET Tasks /\ \A t \in Dropping : fairy[t] # NoConn
    OBVIOUS
  <2> HIDE DEF Dropping
  <2>3. Cardinality(Dropping) \in Nat /\ Cardinality(Dropping) <= PoolSize + MaxOverflow
    BY <2>2, HoldersBounded
  <2>4. QED BY <2>1, <2>3, PoolAssumption
<1>2. QED BY <1>1, Invariance, PTL

\* However large the pool and whatever hangs: the sessions that have the other
\* connections cannot have every token while a session waits for one to leave.
THEOREM CheckInsFindTokens == Spec => []TokenLeftForCheckIn
<1>1. IInv => TokenLeftForCheckIn
  <2> SUFFICES ASSUME IInv, source = "open",
                      NEW t \in Tasks, fairy[t] # NoConn, stage[t] = "queued"
               PROVE  Cardinality({u \in borrowers : fairy[u] # NoConn}) < Tokens
    BY DEF TokenLeftForCheckIn
  <2> DEFINE Working == {u \in borrowers : fairy[u] # NoConn}
  <2>1. borrowers \subseteq Tasks /\ t \notin borrowers
    BY DEF IInv, TypeOK, TransientTokens
  <2>2. /\ IsFiniteSet(Working) /\ Cardinality(Working) \in Nat
    <3>1. Working \in SUBSET Tasks
      BY <2>1
    <3>2. QED BY <3>1, HoldersBounded
  <2>3. Cardinality(Working \cup {t}) = Cardinality(Working) + 1
    BY <2>1, <2>2, FS_AddElement
  <2>4. Cardinality(Working \cup {t}) <= PoolSize + MaxOverflow
    <3>1. Working \cup {t} \in SUBSET Tasks /\ \A u \in Working \cup {t} : fairy[u] # NoConn
      BY <2>1
    <3> HIDE DEF Working
    <3>2. QED BY <3>1, HoldersBounded
  <2>5. Cardinality(Working) < PoolSize + MaxOverflow
    BY <2>2, <2>3, <2>4, PoolAssumption
  <2>6. QED BY <2>5 DEF Tokens
<1>2. QED BY <1>1, Invariance, PTL
===============================================================================
