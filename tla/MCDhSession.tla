---------------------------- MODULE MCDhSession -----------------------------
(***************************************************************************)
(* A small instance of DhSession for TLC: two initiators that share an     *)
(* enclave, and a responder in another one.                                *)
(***************************************************************************)
EXTENDS DhSession, TLC

CONSTANTS r1, r2, i1, i2, e1, e2

MCEnclaveOf == (r1 :> e1) @@ (r2 :> e2) @@ (i1 :> e2) @@ (i2 :> e2)

Symmetry == Permutations({i1, i2})
=============================================================================
