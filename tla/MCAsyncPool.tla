------------------------------- MODULE MCAsyncPool -------------------------------
(* Model-checking instances of AsyncPool. *)
EXTENDS AsyncPool

\* Connections differ in nothing but their name, and so do tasks: sound for the
\* safety runs.  The liveness runs, whose formulas name a task each, use none.
Symmetry == Permutations(Tasks) \cup Permutations(Conns)
===============================================================================
