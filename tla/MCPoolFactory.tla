------------------------------ MODULE MCPoolFactory ------------------------------
(* Model-checking instances of PoolFactory. *)
EXTENDS PoolFactory

MCOverflows == {-1, 3}
===============================================================================
