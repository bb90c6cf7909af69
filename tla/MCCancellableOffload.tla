------------------------- MODULE MCCancellableOffload -------------------------
(* Model-checking instances of CancellableOffload. *)
EXTENDS CancellableOffload
===============================================================================
