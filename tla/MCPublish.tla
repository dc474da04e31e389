------------------------------ MODULE MCPublish ------------------------------
(* Publish with the publishers 1 and 2 of the configurations.              *)
EXTENDS Publish
==============================================================================
