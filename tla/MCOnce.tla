------------------------------- MODULE MCOnce -------------------------------
(***************************************************************************)
(* A small instance of Once for TLC.                                       *)
(***************************************************************************)
EXTENDS Once
=============================================================================
