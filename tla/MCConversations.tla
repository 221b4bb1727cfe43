-------------------------- MODULE MCConversations --------------------------
(***************************************************************************)
(* One conversation of three members, one of them with two connections.    *)
(***************************************************************************)
EXTENDS Conversations, TLC

CONSTANTS c1, c2

SaidBefore == <<3>>
Members == {1, 2, 3}
Clients == {c1, c2}
Users == (c1 :> 2) @@ (c2 :> 2)

\* The double iteration against what it computes, for every way up to four
\* connections of up to four members can be listed.
Sorted(L) == \A i \in 1..(Len(L) - 1) : L[i] <= L[i + 1]
ASSUME WalkIsExact ==
    \A n \in 0..4 :
        \A L \in {s \in BoundedSeq(1..n, 4) : Sorted(s)} :
            Walk(L, Ascending(1..n)) = (1..n) \ ToSet(L)
=============================================================================
