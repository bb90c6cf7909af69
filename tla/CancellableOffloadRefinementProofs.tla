------------------ MODULE CancellableOffloadRefinementProofs ------------------
(*************************************************************************)
(* CancellableOffload implements OffloadContract, for every set of calls *)
(* and every number of tokens.                                           *)
(*************************************************************************)
EXTENDS CancellableOffloadProofs

\* A step that leaves phase and connection of every call alone is a stutter of
\* the contract.
LEMMA StutterStep ==
  ASSUME \A d \in Calls : Phase(d)' = Phase(d) /\ Conn(d)' = Conn(d)
  PROVE  UNCHANGED Contract!vars
  BY DEF Contract!vars, phaseBar, connBar

\* A step that changes the phase of one call only.
LEMMA PhaseStep ==
  ASSUME NEW c \in Calls,
         \A d \in Calls : Conn(d)' = Conn(d) /\ (d # c => Phase(d)' = Phase(d))
  PROVE  /\ connBar' = connBar
         /\ phaseBar' = [phaseBar EXCEPT ![c] = Phase(c)']
  BY DEF phaseBar, connBar

\* A step that changes the connection of one call only.
LEMMA ConnStep ==
  ASSUME NEW c \in Calls,
         \A d \in Calls : Phase(d)' = Phase(d) /\ (d # c => Conn(d)' = Conn(d))
  PROVE  /\ phaseBar' = phaseBar
         /\ connBar' = [connBar EXCEPT ![c] = Conn(c)']
  BY DEF phaseBar, connBar

\* The contract counts with the same Cardinality.
LEMMA SameCardinality ==
  ASSUME NEW S
  PROVE  Contract!Cardinality(S) = Cardinality(S)
  BY DEF Contract!Cardinality, Cardinality

\* A worker that still has to dispatch its thread holds a token no running call
\* holds: the bound of the contract is open to it.
LEMMA RoomToBegin ==
  ASSUME IInv, NEW c \in Calls, worker[c] = "committed"
  PROVE  Cardinality(Contract!Running) < Tokens
<1> DEFINE Others == borrowers \ {c}
<1>1. c \in borrowers /\ Contract!Running \subseteq Others
  BY DEF Contract!Running, phaseBar, Phase, IInv, CallInv, WorkerInv, InDriverThread,
         TokensMatchWorkers
<1>2. IsFiniteSet(borrowers) /\ Cardinality(borrowers) \in Nat /\ Cardinality(borrowers) <= Tokens
  BY BorrowersFinite DEF IInv, TokensMatchWorkers
<1>3. IsFiniteSet(Others) /\ Cardinality(Others) = Cardinality(borrowers) - 1
  BY <1>1, <1>2, FS_RemoveElement
<1>4. Cardinality(Contract!Running) <= Cardinality(Others) /\ Cardinality(Contract!Running) \in Nat
  BY <1>1, <1>3, FS_Subset, FS_CardinalityType
<1>5. QED BY <1>2, <1>3, <1>4, TokensAssumption

LEMMA RefinementInit == Init => Contract!Init
  BY DEF Init, Contract!Init, phaseBar, connBar, Phase, Conn

LEMMA RefinementStep == IInv /\ [Next]_vars => [Contract!Next]_(Contract!vars)
<1> SUFFICES ASSUME IInv, [Next]_vars PROVE [Contract!Next]_(Contract!vars)
  OBVIOUS
<1>a. TypeOK /\ \A d \in Calls : CallInv(d)
  BY DEF IInv
<1>1. ASSUME NEW c \in Calls, StartCall(c) PROVE Contract!Request(c)
  <2>1. caller[c] = "idle" /\ thread[c] = "none"
    BY <1>1, <1>a DEF StartCall, CallInv, WorkerInv
  <2>2. Phase(c) = "idle" /\ Phase(c)' = "waiting"
    BY <1>1, <1>a, <2>1 DEF StartCall, Phase, TypeOK
  <2>3. \A d \in Calls : Conn(d)' = Conn(d) /\ (d # c => Phase(d)' = Phase(d))
    BY <1>1, <1>a DEF StartCall, Phase, Conn, TypeOK, InDriverThread
  <2>4. QED BY <2>2, <2>3, PhaseStep DEF Contract!Request, Contract!Move, phaseBar
<1>2. ASSUME NEW c \in Calls, DispatchThread(c) PROVE Contract!Begin(c)
  <2>1. caller[c] = "joining" /\ thread[c] = "none"
    BY <1>2, <1>a DEF DispatchThread, CallInv, WorkerInv, CallerInv, Over, TypeOK, Ended
  <2>2. Phase(c) = "waiting" /\ Phase(c)' = "running"
    BY <1>2, <1>a, <2>1 DEF DispatchThread, Phase, TypeOK, InDriverThread
  <2>3. \A d \in Calls : Conn(d)' = Conn(d) /\ (d # c => Phase(d)' = Phase(d))
    BY <1>2, <1>a DEF DispatchThread, Phase, Conn, TypeOK, InDriverThread
  <2>4. Cardinality(Contract!Running) < Tokens
    BY <1>2, RoomToBegin DEF DispatchThread
  <2>5. QED BY <2>2, <2>3, <2>4, PhaseStep, SameCardinality
            DEF Contract!Begin, Contract!Move, phaseBar
<1>3. ASSUME NEW c \in Calls, DriverEnters(c) \/ DriverReturns(c) \/ DriverInterrupted(c)
      PROVE  Contract!Finish(c) \/ UNCHANGED Contract!vars
  <2>1. caller[c] = "joining" /\ Phase(c) = "running"
    BY <1>3, <1>a DEF DriverEnters, DriverReturns, DriverInterrupted, CallInv, WorkerInv,
                      CallerInv, Over, TypeOK, Ended, InDriverThread, Phase
  <2>2. Phase(c)' \in {"running", "settling"}
    BY <1>3, <1>a, <2>1 DEF DriverEnters, DriverReturns, DriverInterrupted, Phase, TypeOK,
                            InDriverThread
  <2>3. \A d \in Calls : Conn(d)' = Conn(d) /\ (d # c => Phase(d)' = Phase(d))
    BY <1>3, <1>a DEF DriverEnters, DriverReturns, DriverInterrupted, Phase, Conn, TypeOK,
                      InDriverThread
  <2>4. CASE Phase(c)' = "running"
    BY <2>1, <2>3, <2>4, StutterStep
  <2>5. CASE Phase(c)' = "settling"
    BY <2>1, <2>3, <2>5, PhaseStep DEF Contract!Finish, Contract!Move, phaseBar
  <2>6. QED BY <2>2, <2>4, <2>5
<1>4. ASSUME NEW c \in Calls, WatcherAborts(c) PROVE Contract!Drop(c)
  <2>1. caller[c] = "joining" /\ recovery[c] = "none"
    BY <1>4, <1>a DEF WatcherAborts, WatcherWoken, CallInv, WatcherInv, CallerInv, Over, TypeOK
  <2>2. Phase(c) \in {"waiting", "running", "settling"}
    BY <2>1 DEF Phase
  <2>3. Conn(c) = "clean" /\ Conn(c)' = "dropping"
    BY <1>4, <1>a, <2>1 DEF WatcherAborts, Conn, TypeOK
  <2>4. \A d \in Calls : Phase(d)' = Phase(d) /\ (d # c => Conn(d)' = Conn(d))
    BY <1>4, <1>a DEF WatcherAborts, Phase, Conn, TypeOK, InDriverThread
  <2>5. QED BY <2>2, <2>3, <2>4, ConnStep DEF Contract!Drop, phaseBar, connBar
<1>5. ASSUME NEW c \in Calls, RecoveryEnds(c) PROVE Contract!DropEnds(c)
  <2>1. caller[c] = "joining"
    BY <1>5, <1>a DEF RecoveryEnds, CallInv, WatcherInv, CallerInv, Over, TypeOK
  <2>2. Phase(c) \in {"waiting", "running", "settling"}
    BY <2>1 DEF Phase
  <2>3. Conn(c) = "dropping" /\ Conn(c)' \in {"dropped", "kept"}
    BY <1>5, <1>a DEF RecoveryEnds, Conn, TypeOK
  <2>4. \A d \in Calls : Phase(d)' = Phase(d) /\ (d # c => Conn(d)' = Conn(d))
    BY <1>5, <1>a DEF RecoveryEnds, Phase, Conn, TypeOK, InDriverThread
  <2>5. QED BY <2>2, <2>3, <2>4, ConnStep DEF Contract!DropEnds, phaseBar, connBar
<1>6. ASSUME NEW c \in Calls, JoinStep(c) PROVE Contract!Value(c) \/ Contract!Raise(c)
  <2>1. PICK outcome \in Outcome :
           /\ CallerGets(c, outcome)
           /\ outcome = "value" => watcher[c] = "quit" /\ worker[c] = "returned"
    BY <1>6, JoinOutcome
  <2>2. /\ caller[c] = "joining" /\ caller'[c] = outcome /\ thread' = thread
        /\ worker[c] \in Ended /\ watcher[c] \in {"quit", "raised", "hook_failed"}
    BY <2>1, <1>a DEF CallerGets, ChildrenDone, TypeOK, Ended
  <2>3. Phase(c) \in {"waiting", "settling"} /\ Conn(c) # "dropping"
    BY <2>2, <1>a DEF Phase, Conn, CallInv, WorkerInv, WatcherInv, TypeOK, Ended, InDriverThread
  <2>4. \A d \in Calls : Conn(d)' = Conn(d) /\ (d # c => Phase(d)' = Phase(d))
    BY <2>1, <1>a DEF CallerGets, Phase, Conn, TypeOK, InDriverThread
  <2>5. CASE outcome = "value"
    <3>1. thread[c] = "ok" /\ recovery[c] = "none"
      BY <2>1, <2>5, <1>a DEF CallInv, WorkerInv, WatcherInv, TypeOK
    <3>2. Phase(c) = "settling" /\ Conn(c) = "clean" /\ Phase(c)' = "value"
      BY <2>2, <2>5, <3>1 DEF Phase, Conn, InDriverThread
    <3>3. QED BY <3>2, <2>4, PhaseStep DEF Contract!Value, Contract!Move, phaseBar, connBar
  <2>6. CASE outcome # "value"
    <3>1. Phase(c)' \in {"error", "cancelled"}
      BY <2>2, <2>6 DEF Phase, Outcome
    <3>2. QED BY <3>1, <2>3, <2>4, PhaseStep DEF Contract!Raise, Contract!Move, phaseBar, connBar
  <2>7. QED BY <2>5, <2>6
<1>7. ASSUME NEW c \in Calls,
             \/ CancelScope(c) \/ AcquireToken(c) \/ CancelQueued(c) \/ CancelAtCheckpoint(c)
             \/ PassCheckpoint(c) \/ JoinThread(c) \/ WatcherReleased(c)
             \/ WatcherStandsDown(c) \/ HookFails(c) \/ WatcherReraises(c)
      PROVE  UNCHANGED Contract!vars
  <2>1. UNCHANGED <<caller, thread, recovery>>
    BY <1>7 DEF CancelScope, AcquireToken, CancelQueued, CancelAtCheckpoint, PassCheckpoint,
                JoinThread, WatcherReleased, WatcherStandsDown, HookFails, WatcherReraises
  <2>2. QED BY <2>1, StutterStep DEF Phase, Conn, InDriverThread
<1>8. ASSUME NEW c \in Calls, RecoveryStarts(c) PROVE UNCHANGED Contract!vars
  <2>1. \A d \in Calls : Phase(d)' = Phase(d) /\ Conn(d)' = Conn(d)
    BY <1>8, <1>a DEF RecoveryStarts, Phase, Conn, TypeOK, InDriverThread
  <2>2. QED BY <2>1, StutterStep
<1>9. CASE UNCHANGED vars
  BY <1>9, StutterStep DEF vars, Phase, Conn, InDriverThread
<1>10. QED
  BY <1>1, <1>2, <1>3, <1>4, <1>5, <1>6, <1>7, <1>8, <1>9
  DEF Next, Finished, WorkerStep, WatcherStep, RecoveryStep, Contract!Next

\* cancellable_offload keeps the contract: bounded concurrency, a value only from
\* an untouched connection, nothing under way once the call has returned.
THEOREM Refinement == Spec => ImplementsContract
<1>1. QED BY RefinementInit, RefinementStep, Invariance, PTL DEF ImplementsContract, Contract!Spec, Spec
===============================================================================
