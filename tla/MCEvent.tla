------------------------------ MODULE MCEvent -------------------------------
(***************************************************************************)
(* A small instance of EventSystem for TLC.                                *)
(***************************************************************************)
EXTENDS EventSystem

\* Every list of two different TCSs.
MCSetLists == {s \in Thread \X Thread : s[1] # s[2]}
=============================================================================
