----------------------------- MODULE MCCoalesce ------------------------------
(* Coalesce with the names of the configuration. The code compares names for  *)
(* equality only, so those it can convert are interchangeable.                *)
EXTENDS Coalesce, TLC

NameSymmetry == Permutations(Names \ Unnamable)
==============================================================================
