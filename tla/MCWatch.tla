------------------------------- MODULE MCWatch -------------------------------
(* Watch with the sizes of the configurations.                             *)
EXTENDS Watch
==============================================================================
