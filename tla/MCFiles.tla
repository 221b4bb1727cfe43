------------------------------ MODULE MCFiles ------------------------------
(***************************************************************************)
(* Instances of Files for TLC.  Requests are interchangeable.              *)
(***************************************************************************)
EXTENDS Files

Symmetric == Permutations(Requests)

\* Bound: TLC goes on from states with few documents, resources and requests,
\* and from few resources besides documents.
CONSTANT MaxThings
Explored ==
    LET things == Cardinality(DOMAIN documents) + Cardinality(DOMAIN resources)
                      + Cardinality(Active)
    IN  things <= MaxThings /\ (Cardinality(DOMAIN resources) > 1 => things < MaxThings)

Entry(dir, name, content) == [dir |-> dir, name |-> name, content |-> content]

\* Archives: the index at the top or in a directory, files below and beside
\* it, what is skipped, a name twice, and no index.
MCArchives == {
    <<Entry(<<>>, "pic", "a"), Entry(<<>>, Index, "b"), Entry(<<>>, "m", Empty)>>,
    <<Entry(<<"m">>, Index, "a"), Entry(<<"m", "media">>, "pic", "b"),
      Entry(<<>>, "map", "a"), Entry(<<"m">>, "index.cnxml.html", "b")>>,
    <<Entry(<<>>, Index, "a"), Entry(<<"x">>, "pic", "a"), Entry(<<"y">>, "pic", "b")>>,
    <<Entry(<<>>, "pic", "a")>>}

\* Collections: a module's directory below another's; a module that is not
\* there.
MCCollections == {
    [archive |-> <<Entry(<<"m">>, "pic", "b"), Entry(<<"m", "n">>, Index, "a"),
                   Entry(<<"m">>, Index, "b"), Entry(<<"m", "n">>, "map", "b")>>,
     modules |-> <<<<"m">>, <<"m", "n">>>>],
    [archive |-> <<Entry(<<"m">>, Index, "b")>>, modules |-> <<<<"m">>, <<"k">>>>]}
=============================================================================
