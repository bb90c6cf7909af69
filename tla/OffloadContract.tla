----------------------------- MODULE OffloadContract -----------------------------
(***************************************************************************)
(* What a cancellable offload promises to the code that awaits it, without *)
(* tasks, flags or cancel scopes: at most Tokens driver calls run at once; *)
(* a call returns a value only on a connection nothing was done to; it     *)
(* returns only when its driver call and its recovery are both over; and   *)
(* once it has returned it never touches its connection again.             *)
(***************************************************************************)
EXTENDS Naturals, FiniteSets

CONSTANTS Calls, Tokens

VARIABLES
    phase,  \* how far the call is
    conn    \* what the call did to its connection besides running on it

vars == <<phase, conn>>

Init == /\ phase = [c \in Calls |-> "idle"]
        /\ conn = [c \in Calls |-> "clean"]

Running == {c \in Calls : phase[c] = "running"}

Move(c, from, to) == phase[c] \in from /\ phase' = [phase EXCEPT ![c] = to]

Request(c) == Move(c, {"idle"}, "waiting") /\ UNCHANGED conn

\* The driver call begins, within the bound.
Begin(c) == /\ Cardinality(Running) < Tokens
            /\ Move(c, {"waiting"}, "running")
            /\ UNCHANGED conn

Finish(c) == Move(c, {"running"}, "settling") /\ UNCHANGED conn

\* The connection of a call under way is taken away from the pool.
Drop(c) == /\ phase[c] \in {"waiting", "running", "settling"}
           /\ conn[c] = "clean"
           /\ conn' = [conn EXCEPT ![c] = "dropping"]
           /\ UNCHANGED phase

\* It is gone, or taking it away has failed: then it is still the pool's.
DropEnds(c) == /\ phase[c] \in {"waiting", "running", "settling"}
               /\ conn[c] = "dropping"
               /\ \E how \in {"dropped", "kept"} : conn' = [conn EXCEPT ![c] = how]
               /\ UNCHANGED phase

Value(c) == Move(c, {"settling"}, "value") /\ conn[c] = "clean" /\ UNCHANGED conn

\* The other outcomes: never while the driver or the recovery is at work.
Raise(c) == /\ \E how \in {"error", "cancelled"} : Move(c, {"waiting", "settling"}, how)
            /\ conn[c] # "dropping"
            /\ UNCHANGED conn

Next == \E c \in Calls : \/ Request(c) \/ Begin(c) \/ Finish(c)
                         \/ Drop(c) \/ DropEnds(c) \/ Value(c) \/ Raise(c)

Spec == Init /\ [][Next]_vars
===============================================================================
