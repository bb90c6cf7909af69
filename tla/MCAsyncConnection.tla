---------------------------- MODULE MCAsyncConnection ----------------------------
(* Model-checking instances of AsyncConnection. *)
EXTENDS AsyncConnection
===============================================================================
