------------------------------ MODULE ConnectionPool ------------------------------
(**************************************************************************)
(* What a connection pool promises to the tasks that use it, without      *)
(* threads, limiters, queues or overflow counters: a connection is with   *)
(* one task at a time, at most Ceiling of them are out unless the pool is *)
(* closed, and a connection that was broken by a cancelled call goes back *)
(* to nobody, unless to replace it has been tried and has failed.         *)
(**************************************************************************)
EXTENDS Naturals, FiniteSets

CONSTANTS Tasks, Conns, NoConn, Ceiling

VARIABLES
    held,    \* the connection each task has checked out
    broken,  \* the connections with an aborted call in them, to be replaced
    closed

vars == <<held, broken, closed>>

Init == held = [t \in Tasks |-> NoConn] /\ broken = {} /\ closed = FALSE

Out == {t \in Tasks : held[t] # NoConn}

Checkout(t, c) == /\ held[t] = NoConn
                  /\ \A u \in Tasks : held[u] # c
                  /\ closed \/ Cardinality(Out) < Ceiling
                  /\ c \notin broken
                  /\ held' = [held EXCEPT ![t] = c]
                  /\ UNCHANGED <<broken, closed>>

Break(t) == /\ t \in Out
            /\ broken' = broken \cup {held[t]}
            /\ UNCHANGED <<held, closed>>

\* Only a connection that works goes back.
Return(t) == /\ t \in Out
             /\ held[t] \notin broken
             /\ held' = [held EXCEPT ![t] = NoConn]
             /\ UNCHANGED <<broken, closed>>

\* A broken one is closed; its place in the pool may be filled again.
Discard(t) == /\ t \in Out
              /\ held' = [held EXCEPT ![t] = NoConn]
              /\ broken' = broken \ {held[t]}
              /\ UNCHANGED closed

\* A broken one cannot be replaced: it stays, as good as it is.
Keep(t) == /\ t \in Out
           /\ held[t] \in broken
           /\ broken' = broken \ {held[t]}
           /\ UNCHANGED <<held, closed>>

Close == ~closed /\ closed' = TRUE /\ UNCHANGED <<held, broken>>

Next == \/ Close
        \/ \E t \in Tasks : \/ \E c \in Conns : Checkout(t, c)
                            \/ Break(t) \/ Return(t) \/ Discard(t) \/ Keep(t)

Spec == Init /\ [][Next]_vars
===============================================================================
