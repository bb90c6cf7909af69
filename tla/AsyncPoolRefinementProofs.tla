----------------------- MODULE AsyncPoolRefinementProofs -----------------------
(*************************************************************************)
(* AsyncPool implements ConnectionPool, for every finite set of tasks    *)
(* and of connections, every pool size and every overflow.               *)
(*************************************************************************)
EXTENDS AsyncPoolProofs

\* The contract counts with the same Cardinality.
LEMMA SameCardinality ==
  ASSUME NEW S
  PROVE  Contract!Cardinality(S) = Cardinality(S)
  BY DEF Contract!Cardinality, Cardinality

\* While there is something to take or a place to fill, not everything is out.
LEMMA RoomToCheckOut ==
  ASSUME IInv, source = "open", idle # {} \/ Creating # {}
  PROVE  Cardinality(Contract!Out) < PoolSize + MaxOverflow
<1> DEFINE Record == [t \in Contract!Out |-> fairy[t]]
<1>a. TypeOK /\ Exclusive /\ Held \cap idle = {}
  BY ExclusiveByTask DEF IInv, ExclusiveCheckout
<1>1. /\ IsFiniteSet(idle \cup Held) /\ Cardinality(idle \cup Held) \in Nat
      /\ IsFiniteSet(Creating) /\ Cardinality(Creating) \in Nat
  BY <1>a, RecordsFinite
<1>2. /\ IsFiniteSet(idle) /\ Cardinality(idle) \in Nat
      /\ IsFiniteSet(Held) /\ Cardinality(Held) \in Nat
  BY <1>1, FS_Subset, FS_CardinalityType
<1>3. Record \in Injection(Contract!Out, Held)
  BY <1>a DEF Contract!Out, TypeOK, Exclusive, Held, Range, Injection, IsInjective
<1>4. Cardinality(Contract!Out) \in Nat /\ Cardinality(Contract!Out) <= Cardinality(Held)
  BY <1>2, <1>3, FS_Injection, FS_CardinalityType
<1>5. Cardinality(idle \cup Held) = Cardinality(idle) + Cardinality(Held)
  <2>1. idle \cap Held = {}
    BY <1>a
  <2>2. Cardinality(idle \cup Held)
            = Cardinality(idle) + Cardinality(Held) - Cardinality(idle \cap Held)
    BY <1>2, FS_Union
  <2>3. Cardinality(idle \cap Held) = 0
    BY <2>1, FS_EmptySet
  <2>4. QED BY <1>2, <2>2, <2>3
<1>6. Cardinality(idle) > 0 \/ Cardinality(Creating) > 0
  BY <1>1, <1>2, FS_EmptySet
<1>7. /\ overflow + PoolSize = Cardinality(idle \cup Held) + Cardinality(Creating)
      /\ overflow <= MaxOverflow /\ overflow \in Int
  BY <1>a DEF IInv, CountExact, Creating, TypeOK
<1>8. QED BY <1>1, <1>2, <1>4, <1>5, <1>6, <1>7, PoolAssumption

\* A step that leaves records, poison and the pool's being open alone is a
\* stutter of the contract.
LEMMA StutterStep ==
  ASSUME fairy' = fairy, (dirty \ botched)' = dirty \ botched,
         (source # "open")' = (source # "open")
  PROVE  UNCHANGED Contract!vars
  BY DEF Contract!vars

\* A checkout of a record nobody has, in which nothing was aborted.
LEMMA CheckoutStep ==
  ASSUME IInv, NEW t \in Tasks, NEW c \in Conns, fairy[t] = NoConn,
         \A u \in Tasks : fairy[u] # c, c \notin dirty \ botched, idle # {} \/ Creating # {},
         fairy' = [fairy EXCEPT ![t] = c], (dirty \ botched)' = dirty \ botched, source' = source
  PROVE  Contract!Checkout(t, c)
  BY RoomToCheckOut, SameCardinality DEF Contract!Checkout

\* A connection given back for good: one that works, or a broken one dropped.
LEMMA GiveBackStep ==
  ASSUME IInv, NEW t \in Tasks, fairy[t] # NoConn, NEW dropped \in BOOLEAN,
         PutBack(fairy[t], dropped), fairy' = [fairy EXCEPT ![t] = NoConn],
         dropped \/ fairy[t] \notin dirty \ botched
  PROVE  Contract!Return(t) \/ Contract!Discard(t)
<1>a. source' = source /\ botched \subseteq dirty
  BY DEF PutBack, IInv, TypeOK
<1>1. CASE fairy[t] \in dirty \ botched
  <2>1. (dirty \ botched)' = (dirty \ botched) \ {fairy[t]}
    BY <1>1 DEF PutBack
  <2>2. QED BY <1>a, <2>1 DEF Contract!Discard, Contract!Out
<1>2. CASE fairy[t] \notin dirty \ botched
  <2>1. (dirty \ botched)' = dirty \ botched
    BY <1>a, <1>2 DEF PutBack
  <2>2. QED BY <1>a, <1>2, <2>1 DEF Contract!Return, Contract!Out
<1>3. QED BY <1>1, <1>2

LEMMA RefinementInit == Init => Contract!Init
  BY DEF Init, Contract!Init

LEMMA RefinementStep == IInv /\ [Next]_vars => [Contract!Next]_(Contract!vars)
<1> SUFFICES ASSUME IInv, [Next]_vars PROVE [Contract!Next]_(Contract!vars)
  OBVIOUS
<1>a. /\ TypeOK /\ Exclusive /\ DirtyInv /\ idle \cap (dirty \ botched) = {}
      /\ botched \subseteq dirty /\ NoConn \notin Conns /\ NoConn \notin dirty
      /\ \A t \in Tasks : TaskInv(t)
  BY ExclusiveByTask, DirtyHeld, PoolAssumption DEF IInv, TypeOK
<1>1. ASSUME NEW t \in Tasks, NEW c \in Conns, TakeIdle(t, c) \/ TakeStale(t, c)
      PROVE  Contract!Checkout(t, c)
  <2>1. fairy[t] = NoConn
    BY <1>a, <1>1 DEF TakeIdle, TakeStale, CheckingOut, TaskInv
  <2>2. c \in idle /\ c \notin dirty \ botched /\ \A u \in Tasks : fairy[u] # c
    BY <1>a, <1>1 DEF TakeIdle, TakeStale, Exclusive
  <2>3. (dirty \ botched)' = dirty \ botched
    BY <1>1, <2>2 DEF TakeIdle, TakeStale
  <2>4. fairy' = [fairy EXCEPT ![t] = c] /\ source' = source
    BY <1>1 DEF TakeIdle, TakeStale
  <2>5. QED BY <2>1, <2>2, <2>3, <2>4, CheckoutStep
<1>2. ASSUME NEW t \in Tasks, NEW c \in Conns, CloneSource(t, c)
      PROVE  Contract!Checkout(t, c)
  <2>1. fairy[t] = NoConn /\ t \in Creating
    BY <1>a, <1>2 DEF CloneSource, TaskInv, Creating
  <2>2. \A u \in Tasks : fairy[u] # c
    BY <1>a, <1>2 DEF CloneSource, Range, TypeOK
  <2>3. c \notin dirty \ botched
    BY <1>a, <2>2 DEF DirtyInv
  <2>4. /\ fairy' = [fairy EXCEPT ![t] = c] /\ source' = source
        /\ (dirty \ botched)' = dirty \ botched
    BY <1>2 DEF CloneSource
  <2>5. QED BY <2>1, <2>2, <2>3, <2>4, CheckoutStep
\* The abort of a call whose session has no connection left breaks none.
<1>3. ASSUME NEW t \in Tasks, AbortCall(t) PROVE Contract!Break(t) \/ UNCHANGED Contract!vars
  <2>1. CASE fairy[t] # NoConn
    <3>1. (dirty \ botched)' = (dirty \ botched) \cup {fairy[t]}
      BY <1>3, <2>1 DEF AbortCall
    <3>2. QED BY <1>3, <2>1, <3>1 DEF AbortCall, Contract!Break, Contract!Out
  <2>2. CASE fairy[t] = NoConn
    <3>1. (dirty \ botched)' = dirty \ botched
      BY <1>a, <1>3, <2>2 DEF AbortCall
    <3>2. QED BY <1>3, <3>1, StutterStep DEF AbortCall
  <2>3. QED BY <2>1, <2>2
\* A hook that raises leaves its connection as good as it is: it was not broken.
<1>4. ASSUME NEW t \in Tasks, HookFails(t) PROVE UNCHANGED Contract!vars
  <2>1. fairy[t] \notin dirty \ botched
    BY <1>a, <1>4 DEF HookFails, WatcherWoken, DirtyInv, Exclusive
  <2>2. (dirty \ botched)' = dirty \ botched
    BY <2>1, <1>4 DEF HookFails
  <2>3. QED BY <1>4, <2>2, StutterStep DEF HookFails
<1>5. ASSUME NEW t \in Tasks, RecoveryEnds(t)
      PROVE  \/ Contract!Return(t) \/ Contract!Discard(t)
             \/ UNCHANGED Contract!vars
  <2>1. CASE fairy[t] # NoConn
    BY <1>5, <2>1, GiveBackStep DEF RecoveryEnds
  <2>2. CASE fairy[t] = NoConn
    <3>1. fairy' = fairy
      BY <1>a, <1>5, <2>2 DEF RecoveryEnds, TypeOK
    <3>2. QED BY <1>5, <2>2, <3>1, StutterStep DEF RecoveryEnds, pool
  <2>3. QED BY <2>1, <2>2
<1>6. ASSUME NEW t \in Tasks, RecoveryFails(t)
      PROVE  Contract!Keep(t) \/ UNCHANGED Contract!vars
  <2>1. CASE fairy[t] # NoConn
    <3>1. fairy[t] \in dirty \ botched /\ (dirty \ botched)' = (dirty \ botched) \ {fairy[t]}
      BY <1>a, <1>6, <2>1 DEF RecoveryFails, TaskInv
    <3>2. QED BY <1>6, <2>1, <3>1 DEF RecoveryFails, Contract!Keep, Contract!Out
  <2>2. CASE fairy[t] = NoConn
    <3>1. (dirty \ botched)' = dirty \ botched
      BY <1>a, <1>6, <2>2 DEF RecoveryFails
    <3>2. QED BY <1>6, <3>1, StutterStep DEF RecoveryFails
  <2>3. QED BY <2>1, <2>2
<1>7. ASSUME NEW t \in Tasks, ReconnectFails(t)
      PROVE  Contract!Return(t) \/ Contract!Discard(t)
  <2>1. fairy[t] # NoConn
    BY <1>a, <1>7 DEF ReconnectFails, TaskInv
  <2>2. QED BY <1>7, <2>1, GiveBackStep DEF ReconnectFails
<1>8. ASSUME NEW t \in Tasks, CheckedIn(t), fairy[t] # NoConn
      PROVE  Contract!Return(t) \/ Contract!Discard(t)
  <2>1. fairy[t] \notin dirty \ botched
    BY <1>a, <1>8 DEF CheckedIn, DirtyInv, Exclusive, TaskInv
  <2>2. QED BY <1>8, <2>1, GiveBackStep DEF CheckedIn
<1>9. ASSUME NEW t \in Tasks, CheckedIn(t), fairy[t] = NoConn PROVE UNCHANGED Contract!vars
  <2>1. fairy' = fairy
    BY <1>a, <1>9 DEF CheckedIn, TypeOK
  <2>2. QED BY <1>9, <2>1, StutterStep DEF CheckedIn, pool
<1>10. ASSUME NEW t \in Tasks, Dispose(t)
       PROVE  Contract!Close \/ UNCHANGED Contract!vars
  <2>1. (dirty \ botched)' = dirty \ botched /\ fairy' = fairy /\ source' # "open"
    BY <1>a, <1>10 DEF Dispose
  <2>2. CASE source = "open"
    BY <2>1, <2>2 DEF Contract!Close
  <2>3. CASE source # "open"
    BY <2>1, <2>3, StutterStep
  <2>4. QED BY <2>2, <2>3
<1>11. ASSUME NEW t \in Tasks, CloseSource(t) PROVE UNCHANGED Contract!vars
  <2>1. source # "open"
    BY <1>a, <1>11 DEF CloseSource, TaskInv
  <2>2. QED BY <1>11, <2>1, StutterStep DEF CloseSource
<1>12. ASSUME NEW t \in Tasks, Reconnected(t) \/ ReserveConnection(t) \/ CloneFails(t)
       PROVE  UNCHANGED Contract!vars
  BY <1>12, StutterStep DEF Reconnected, ReserveConnection, CloneFails
<1>13. ASSUME UNCHANGED <<fairy, idle, live, dirty, botched, overflow, source>>
       PROVE  UNCHANGED Contract!vars
  BY <1>13, StutterStep
<1>14. ASSUME NEW t \in Tasks, MovesRecords(t)
       PROVE  \/ \/ Contract!Close
                 \/ \E c \in Conns : Contract!Checkout(t, c)
                 \/ Contract!Break(t) \/ Contract!Return(t)
                 \/ Contract!Discard(t) \/ Contract!Keep(t)
              \/ UNCHANGED Contract!vars
  BY <1>1, <1>2, <1>3, <1>4, <1>5, <1>6, <1>7, <1>8, <1>9, <1>10, <1>11, <1>12, <1>14
  DEF MovesRecords
<1>15. QED BY <1>13, <1>14, OtherSteps DEF Contract!Next

\* The pool keeps its contract: a connection is with one session at a time, at
\* most pool_size + max_overflow are out of an open pool, and one in which a call
\* was aborted is replaced, never handed out, unless its abort or the drop raised:
\* then it stays in use.
THEOREM Refinement == Spec => ImplementsPool
<1>1. QED BY RefinementInit, RefinementStep, Invariance, PTL DEF ImplementsPool, Contract!Spec, Spec
===============================================================================
