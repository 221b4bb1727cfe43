---------------------------- MODULE MCBookParts ----------------------------
(***************************************************************************)
(* Part 0 and a few interchangeable parts.                                 *)
(***************************************************************************)
EXTENDS BookParts, TLC

Symmetry == Permutations(ModulePart) \cup Permutations(Node \ ({Root} \cup ModulePart)) \cup Permutations(Handler)
=============================================================================
