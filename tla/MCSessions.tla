----------------------------- MODULE MCSessions -----------------------------
(***************************************************************************)
(* Requests that share sessions of two users, one of whom may elevate.     *)
(***************************************************************************)
EXTENDS Sessions, TLC

Symmetry == Permutations(Handler)
=============================================================================
