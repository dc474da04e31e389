------------------------------- MODULE MCPool -------------------------------
(* Pool.tla with the constants given by the configurations MCPool*.cfg.      *)
EXTENDS Pool
==============================================================================
