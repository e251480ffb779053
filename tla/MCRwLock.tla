------------------------------ MODULE MCRwLock ------------------------------
(***************************************************************************)
(* A small instance of SgxRwLock for TLC.                                  *)
(***************************************************************************)
EXTENDS SgxRwLock
=============================================================================
