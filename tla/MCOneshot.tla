----------------------------- MODULE MCOneshot ------------------------------
(***************************************************************************)
(* A small instance of Oneshot for TLC.                                    *)
(***************************************************************************)
EXTENDS Oneshot
=============================================================================
