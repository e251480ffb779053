----------------------------- MODULE MCCondvar ------------------------------
(***************************************************************************)
(* Small instances of SgxCondvar for TLC.                                  *)
(***************************************************************************)
EXTENDS SgxCondvar

Symmetry == Permutations(Thread)
=============================================================================
