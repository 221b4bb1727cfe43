------------------------------ MODULE MCEvents ------------------------------
(***************************************************************************)
(* Two users; the first may have two event streams at a time.              *)
(***************************************************************************)
EXTENDS Events, TLC

CONSTANTS l1, l2

Users == {1, 2}
Listeners == {l1, l2}
Owners == (l1 :> 1) @@ (l2 :> 1)
BothOrFirst == {<<1>>, <<2, 1>>}
=============================================================================
