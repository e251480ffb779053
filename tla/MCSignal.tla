------------------------------ MODULE MCSignal ------------------------------
(***************************************************************************)
(* A small instance of SgxSignal for TLC.                                  *)
(***************************************************************************)
EXTENDS SgxSignal

CONSTANTS s1, s2

\* The actions that rsgx_sigaction is given: one with an sa_mask, one with
\* SA_RESETHAND.
MCActs == {[mask |-> {s1}, reset |-> FALSE], [mask |-> {}, reset |-> TRUE]}
=============================================================================
