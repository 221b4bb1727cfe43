----------------------------- MODULE MCAccounts -----------------------------
(***************************************************************************)
(* Instances of Accounts for TLC.  Teams, users and requests are each      *)
(* interchangeable.                                                        *)
(***************************************************************************)
EXTENDS Accounts, TLC

Interchangeable ==
    Permutations(Teams) \cup Permutations(Users) \cup Permutations(Requests)

\* Bounds: TLC goes on from states with few rows and requests, and of the
\* two invitations one at most expires.
CONSTANT MaxThings
Explored ==
    /\ Cardinality(DOMAIN members) + Cardinality(DOMAIN invites)
           + Cardinality(UnderWay) + Cardinality(accounts) <= MaxThings
    /\ Cardinality({i \in DOMAIN invites : invites[i].expired}) <= 1
=============================================================================
