------------------------------ MODULE MCMutex -------------------------------
(***************************************************************************)
(* Small instances of SgxMutex for TLC.                                    *)
(***************************************************************************)
EXTENDS SgxMutex

Symmetry == Permutations(Thread)
=============================================================================
