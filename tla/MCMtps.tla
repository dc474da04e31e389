------------------------------- MODULE MCMtps -------------------------------
(* Model checking of Mtps: MCMtps.cfg gives its bounds. *)
EXTENDS Mtps
==============================================================================
