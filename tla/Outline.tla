------------------------------ MODULE Outline ------------------------------
(***************************************************************************)
(* What an editor of a book expects of its outline, whoever else edits it: *)
(* no part is listed twice; an edit adds parts, removes parts with         *)
(* everything below them, or moves one part, and leaves the order of all   *)
(* other parts alone.                                                      *)
(***************************************************************************)
EXTENDS Naturals, Sequences, SequencesExt

CONSTANTS Node, Root

VARIABLES
    present,  \* the parts of the book
    contents  \* the parts directly inside each part, in order

\* a stands before b in s.
Before(s, a, b) == \E i, j \in DOMAIN s : i < j /\ s[i] = a /\ s[j] = b

\* The parts whose contents c list n.
Listed(c, n) == {g \in DOMAIN c : n \in ToSet(c[g])}

\* No part of P is listed twice.  The root starts out in no group, and a part
\* that is put into itself is in no list either.
ListedOnce(P, c) ==
    /\ c \in [Node -> Seq(P)]
    /\ \A g \in Node \ P : c[g] = <<>>
    /\ \A g \in Node : IsInjective(c[g])
    /\ \A n \in P : \A g, h \in Listed(c, n) : g = h

Init ==
    /\ present = {}
    /\ contents = [n \in Node |-> <<>>]

\* Whatever is not in S keeps its group and its place among what else does.
KeepsOrder(old, new, S) ==
    \A g \in (present \cap present') :
        /\ ToSet(old[g]) \ S = ToSet(new[g]) \ S
        /\ \A i, j \in DOMAIN old[g] :
            i < j /\ old[g][i] \notin S /\ old[g][j] \notin S
            => Before(new[g], old[g][i], old[g][j])

Create ==
    /\ present = {} /\ present' = {Root}
    /\ UNCHANGED contents

Discard ==
    /\ present' = {}
    /\ contents' = [n \in Node |-> <<>>]

\* A set of parts that holds everything below each of its members.
Closed(gone) == \A n \in gone : ToSet(contents[n]) \subseteq gone

Gone == present \ present'
New == present' \ present

Edit ==
    /\ Root \in present \cap present'
    /\ Closed(Gone)
    /\ ListedOnce(present', contents')
    /\ KeepsOrder(contents, contents', Gone \cup New)
    /\ \A n \in New : Listed(contents', n) # {}

Insert == Gone = {} /\ New # {} /\ Edit
Drop == Gone # {} /\ New = {} /\ Edit
Replace ==
    /\ Gone # {} /\ New # {}
    /\ ToSet(contents[Root]) \ {Root} \subseteq Gone
    /\ Edit

Move ==
    /\ present' = present
    /\ LET old == contents  new == contents' IN
       /\ new # old
       /\ \E n \in present : KeepsOrder(old, new, {n})
       /\ ListedOnce(present, new)

Next == Create \/ Discard \/ Insert \/ Drop \/ Replace \/ Move

Spec == Init /\ [][Next]_<<present, contents>>
=============================================================================
