----------------------------- MODULE BookParts -----------------------------
(***************************************************************************)
(* The outline of one book: rows of book_parts, ordered within their group *)
(* by an index (crates/models/src/models/{book,bookpart}.rs), edited by    *)
(* the handlers of crates/rest-api/src/books.rs and, in bulk, by the       *)
(* importer (processing/import.rs).                                        *)
(*                                                                         *)
(* update_part reads the part and its new parent before its transaction,   *)
(* and reparent then works from the place the part had when it was read:   *)
(* `requests` holds that memory.  Every other handler writes by identity,  *)
(* and what it reads of a part (its kind) never changes, so it is one      *)
(* step.  A transaction takes effect at once.                              *)
(***************************************************************************)
EXTENDS Integers, Sequences, FiniteSets, SequencesExt

CONSTANTS
    Node,     \* numbers of parts, book_parts.id
    Root,     \* part 0, the main group of the book
    ModulePart, \* the parts that are modules: book_parts.module is set when a
                \* part is created and never updated
    Handler,  \* worker threads that may be moving a part
    MaxIndex, \* the greatest value of the index column
    MaxNew,   \* bound: how many parts a request creates
    Null      \* no row

ASSUME BookAssumption ==
    /\ IsFiniteSet(Node)
    /\ Root \in Node /\ ModulePart \subseteq Node \ {Root}
    /\ MaxIndex \in Nat /\ MaxNew \in Nat
    /\ Null \notin [parent : Node, index : Int]
    /\ Null \notin [part : Node, target : Node, parent : Node, index : Int]

VARIABLES
    parts,    \* the rows of book_parts
    requests  \* what each handler has read of the part it is moving

vars == <<parts, requests>>

Index == 0..MaxIndex
PartRow == [parent : Node, index : Index]
Request == [part : Node, target : Node, parent : Node, index : Index]

TypeOK ==
    /\ parts \in [Node -> PartRow \cup {Null}]
    /\ requests \in [Handler -> Request \cup {Null}]

NoParts == [n \in Node |-> Null]

Init ==
    /\ parts = NoParts
    /\ requests = [h \in Handler |-> Null]

-----------------------------------------------------------------------------
(* Operations on the rows P of one book *)

Rows(P) == {n \in Node : P[n] # Null}

\* The rows whose parent is g; part 0 is a row of its own group.
IsIn(P, n, g) == P[n] # Null /\ P[n].parent = g
Siblings(P, g) == {n \in Node : IsIn(P, n, g)}

\* BookPart::get_parts: the siblings by rising index.
GetParts(P, g) ==
    LET S == Siblings(P, g) \ {g} IN
    [k \in 1..Cardinality(S) |->
        CHOOSE n \in S :
            Cardinality({m \in S : P[m].index <= P[n].index}) = k]

\* What the foreign key, checked at each statement, and the unique constraint
\* on (book, parent, index), checked at commit, allow; and no index overflows.
Allowed(P) ==
    /\ P \in [Node -> PartRow \cup {Null}]
    /\ \A n \in Rows(P) : P[P[n].parent] # Null
    /\ \A m, n \in Rows(P) :
        P[m].parent = P[n].parent /\ P[m].index = P[n].index => m = n

\* The rows S and everything below them, as the foreign key cascades.
Below(P, S) ==
    LET Reach[k \in 0..Cardinality(Node)] ==
            IF k = 0 THEN S \cap Rows(P)
            ELSE LET R == Reach[k - 1] IN
                 R \cup {n \in Node : P[n] # Null /\ P[n].parent \in R}
    IN  Reach[Cardinality(Node)]

\* Mutant: room is made by shifting the siblings before i down.
MakeRoomBelow(P, g, i) ==
    [n \in Node |-> IF IsIn(P, n, g) /\ P[n].index <= i
                    THEN [P[n] EXCEPT !.index = @ - 1] ELSE P[n]]

\* Shift the siblings in g from index i on by one.
MakeRoom(P, g, i) ==
    [n \in Node |-> IF IsIn(P, n, g) /\ P[n].index >= i
                    THEN [P[n] EXCEPT !.index = @ + 1] ELSE P[n]]

\* Shift the siblings in g after index i back by one.
FillGap(P, g, i) ==
    [n \in Node |-> IF IsIn(P, n, g) /\ P[n].index > i
                    THEN [P[n] EXCEPT !.index = @ - 1] ELSE P[n]]

\* Mutant: the new row is its own parent.
CreateInItself(P, n, g, i) ==
    [MakeRoom(P, g, i) EXCEPT ![n] = [parent |-> n, index |-> i]]

\* BookPart::create_at: n in group g at index i.
CreateAt(P, n, g, i) ==
    [MakeRoom(P, g, i) EXCEPT
        ![n] = [parent |-> g, index |-> i]]

\* BookPart::create_part_inner: a part, and what it contains at 0, 1, ...
CreateTree(P, g, i, tree) ==
    LET Made[k \in 0..Len(tree.kids)] ==
            IF k = 0 THEN CreateAt(P, tree.node, g, i)
            ELSE CreateAt(Made[k - 1], tree.kids[k], tree.node, k - 1)
    IN  Made[Len(tree.kids)]

\* Mutant: the part changes places with the one it finds there.
ReparentBySwap(P, r, i) ==
    [n \in Node |->
        CASE n = r.part ->
                [P[n] EXCEPT !.parent = r.target, !.index = i]
          [] n # r.part /\ IsIn(P, n, r.target) /\ P[n].index = i ->
                [P[n] EXCEPT !.parent = r.parent, !.index = r.index]
          [] OTHER -> P[n]]

\* BookPart::reparent, from what request r remembers to index i.
Reparent(P, r, i) ==
    FillGap([MakeRoom(P, r.target, i) EXCEPT
                ![r.part].parent = r.target, ![r.part].index = i],
            r.parent, r.index)

DeleteRows(P, S) == [n \in Node |-> IF n \in S THEN Null ELSE P[n]]

-----------------------------------------------------------------------------
(* Handlers *)

Remembered == {Null} \cup UNION {{requests[h].part, requests[h].target} :
                                    h \in {k \in Handler : requests[k] # Null}}

\* Numbers come from a sequence: none is given out twice.
Fresh == Node \ (Rows(parts) \cup Remembered \cup {Root})

\* The trees a request may ask for: a module, or a group and what is in it.
NewTrees ==
    {t \in [node : Fresh, kids : BoundedSeq(Fresh, MaxNew - 1)] :
        /\ IsInjective(<<t.node>> \o t.kids)
        /\ t.node \in ModulePart => t.kids = <<>>}

\* The rows become P, unless a constraint or the trigger that protects part 0
\* rolls the transaction back.
Commit(P) ==
    /\ parts[Root] # Null /\ P[Root] # Null
    /\ Allowed(P)
    /\ parts' = P

\* Book::create; a trigger inserts part 0.  The model follows one book after
\* another, the next once no request for the last is left.
CreateBook ==
    /\ parts = NoParts
    /\ \A h \in Handler : requests[h] = Null
    /\ parts' = [NoParts EXCEPT
                    ![Root] = [parent |-> Root, index |-> 0]]
    /\ UNCHANGED requests

DeleteBook ==
    /\ parts[Root] # Null
    /\ parts' = NoParts
    /\ UNCHANGED requests

CreatePart(g, i) ==
    /\ parts[g] # Null /\ g \notin ModulePart
    /\ \E tree \in NewTrees : Commit(CreateTree(parts, g, i, tree))
    /\ UNCHANGED requests

DeletePart(n) ==
    /\ n # Root /\ parts[n] # Null
    /\ Commit(DeleteRows(parts, Below(parts, {n})))
    /\ UNCHANGED requests

\* BookPart::clear of part 0.
Clear(P) == DeleteRows(P, Below(P, Siblings(P, Root) \ {Root}))

\* Importer::replace_book: clear part 0 and load a collection into it; a
\* collection of two elements is of two plain ones.
ReplaceBook ==
    /\ parts[Root] # Null
    /\ LET P == Clear(parts) IN
        \/ Commit(P)
        \/ \E tree \in NewTrees : Commit(CreateTree(P, Root, 0, tree))
        \/ \E m, n \in Fresh :
            /\ MaxNew >= 2 /\ m # n
            /\ Commit(CreateAt(CreateAt(P, m, Root, 0), n, Root, 1))
    /\ UNCHANGED requests

\* Mutant: the kind of the new parent is not checked.
LoadForMoveAnywhere(h, n, g) ==
    /\ requests[h] = Null
    /\ parts[n] # Null /\ parts[g] # Null
    /\ requests' = [requests EXCEPT
            ![h] = [part |-> n, target |-> g, parent |-> parts[n].parent,
                    index |-> parts[n].index]]
    /\ UNCHANGED parts

\* update_part reads the part and where it is to go.
LoadForMove(h, n, g) ==
    /\ requests[h] = Null
    /\ parts[n] # Null /\ parts[g] # Null /\ g \notin ModulePart
    /\ requests' = [requests EXCEPT
            ![h] = [part |-> n, target |-> g, parent |-> parts[n].parent,
                    index |-> parts[n].index]]
    /\ UNCHANGED parts

MovePart(h, i) ==
    /\ requests[h] # Null
    /\ parts[requests[h].part] # Null
    /\ Commit(Reparent(parts, requests[h], i))
    /\ requests' = [requests EXCEPT ![h] = Null]

\* The part or its new group is gone, or a constraint does not hold.
RefuseMove(h) ==
    /\ requests[h] # Null
    /\ requests' = [requests EXCEPT ![h] = Null]
    /\ UNCHANGED parts

Next ==
    \/ CreateBook \/ DeleteBook \/ ReplaceBook
    \/ \E g \in Node, i \in Index : CreatePart(g, i)
    \/ \E n \in Node : DeletePart(n)
    \/ \E h \in Handler :
        \/ \E n, g \in Node : LoadForMove(h, n, g)
        \/ \E i \in Index : MovePart(h, i)
        \/ RefuseMove(h)

Spec == Init /\ [][Next]_vars

-----------------------------------------------------------------------------
(* Properties *)

\* Every part is in a part of the book that is no module, no two parts share
\* a place, and part 0 lives as long as the book, however moves overlap with
\* deletions (the check that a new parent is no module is made on a part read
\* earlier; a cascade may reach part 0 once that has been moved).
PartsSound ==
    /\ \A n \in Rows(parts) :
        /\ parts[n].parent \in Rows(parts)
        /\ parts[n].parent \notin ModulePart
    /\ \A m, n \in Rows(parts) :
        /\ parts[m].parent = parts[n].parent
        /\ parts[m].index = parts[n].index
        => m = n
    /\ parts # NoParts => parts[Root] # Null

\* Part n of P is in group g, behind those of its siblings in the present rows
\* that were before index i and before all others.
LandsAt(P, n, g, i) ==
    /\ P[n].parent = g
    /\ \A q \in Siblings(parts, g) \ {n} :
        IF parts[q].index < i THEN P[q].index < P[n].index
                              ELSE P[q].index > P[n].index

\* The parts other than n are in P in the groups they are in now, and no two
\* of one group have changed order.
OthersKeepOrder(P, n) ==
    /\ \A a \in Rows(parts) \ {n} : P[a].parent = parts[a].parent
    /\ \A a, b \in Rows(parts) \ {n} :
        parts[a].parent = parts[b].parent /\ parts[a].index < parts[b].index
        => P[a].index < P[b].index

\* Wherever the part was when the request read it, a move that goes through
\* puts it behind those of its new siblings that were before the index asked
\* for and before all others, and reorders no two other parts: neither in the
\* group it goes to, nor in the one it was read in, nor anywhere else.
MovesWhereAsked ==
    \A h \in Handler : requests[h] # Null => \A i \in Index :
        LET r == requests[h]
            P == Reparent(parts, r, i)
        IN  parts[r.part] # Null /\ Allowed(P) =>
                LandsAt(P, r.part, r.target, i) /\ OthersKeepOrder(P, r.part)

\* BookPart::get_tree, from part 0 down, meets every part once.
InTree(P) ==
    P # NoParts => P[Root].parent = Root /\ Rows(P) = Below(P, {Root})

\* A part is cut off from part 0 only by moving a part to somewhere below
\* itself; no other edit, and no overlap of edits, loses a part.
OnlyMovingBelowItselfCutsOff ==
    [][parts' # parts /\ InTree(parts) /\ ~InTree(parts') =>
        \E h \in Handler :
            /\ requests[h] # Null /\ requests'[h] = Null
            /\ requests[h].target \in Below(parts, {requests[h].part})]_vars

\* The outline changes only as its editors expect.
O == INSTANCE Outline WITH
        present <- Rows(parts),
        contents <- [g \in Node |-> GetParts(parts, g)]
ImplementsOutline == O!Spec
=============================================================================
