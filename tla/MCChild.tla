------------------------------- MODULE MCChild -------------------------------
(* Model checking of Child: the configurations MCChild*.cfg give its bounds. *)
EXTENDS Child
==============================================================================
