------------------------------ MODULE MCXrefs ------------------------------
(***************************************************************************)
(* Instances of Xrefs for TLC.                                             *)
(***************************************************************************)
EXTENDS Xrefs

E(name, id, parent) == [name |-> name, id |-> id, parent |-> parent, type |-> None]
Root == [E("document", "new", 1) EXCEPT !.parent = 0]

\* An exercise with a problem and a solution; a document that shares ids with
\* it but says otherwise; one without targets; one with an id twice; one whose
\* scoped counters start over.
Exercise == <<Root, E("exercise", "e", 1), E("problem", None, 2), E("para", None, 3),
              E("solution", "s", 2), E("para", None, 5)>>
Other == <<Root, E("solution", "s", 1)>>
Plain == <<Root, E("para", "p", 1)>>
Twice == <<Root, E("figure", "f", 1), E("caption", None, 2), E("subfigure", "s", 2),
           [E("note", "n", 1) EXCEPT !.type = "warning"], E("figure", None, 1),
           E("subfigure", "s", 6)>>
Series == <<Root, E("exercise", "e", 1), E("exercise", "f", 1), E("solution", "s", 2),
            E("commentary", "c", 2), E("solution", "t", 3), E("commentary", "d", 3)>>

\* Bound: other indices have as many elements, in any tree, with or without
\* an id.
Elements == <<"exercise", "solution", "figure", "note">>
Size == 3
Ids == <<"new", "a", "b", "c">>
Tree(k, parents) ==
    <<Root>> \o [i \in 1..Size |->
        E(Elements[1 + ((k \div 4 ^ (i - 1)) % 4)],
          IF (k \div (4 ^ Size * 2 ^ (i - 1))) % 2 = 0 THEN None ELSE Ids[i + 1],
          parents[i])]
Trees(parents) == [k \in 1..8 ^ Size |-> Tree(k - 1, parents)]
MCTexts ==
    <<Exercise, Other, Plain, Twice, Series>> \o
        Trees(<<1, 1, 1>>) \o Trees(<<1, 1, 2>>) \o Trees(<<1, 1, 3>>) \o
        Trees(<<1, 2, 1>>) \o Trees(<<1, 2, 2>>) \o Trees(<<1, 2, 3>>)
MCUploads == {1, 2}

\* Bounds: documents that were not deleted (counted twice), tasks under way,
\* messages, failures and the pass of the first processor at once.  A third
\* document is followed when somebody is late in deleting the second.  An
\* index that cannot be uploaded is only processed.
CONSTANT MaxThings
Busy(is) == {x \in DOMAIN is : is[x] # Idle}
Explored ==
    /\ 2 * Cardinality({d \in DOMAIN documents : documents[d].is # "deleted"})
           + Cardinality(Busy(underway)) + Len(mailbox)
           + Cardinality({k \in DOMAIN queue["registered"] :
                 queue["registered"][k] # ProcessStale})
           + Cardinality(Busy(worker) \cap {"first"}) + Len(failed) <= MaxThings
    /\ Len(documents) > 2 =>
          /\ documents[2].is = "deleted"
          /\ \/ documents[3].is = "orphan"
             \/ \E q \in Doing("delete") : underway[q].document = 2
    /\ \/ documents[1].index \in MCUploads \cup {Broken}
       \/ Len(documents) = 1 /\ Busy(underway) = {}
=============================================================================
