-------------------------- MODULE BookPartsProofs --------------------------
(***************************************************************************)
(* Proofs about BookParts for every number of parts, groups and handlers.  *)
(***************************************************************************)
EXTENDS BookParts, TLAPS, FiniteSetTheorems, WellFoundedInduction

-----------------------------------------------------------------------------
(***************************************************************************)
(* Induction.  The induction theorems of the library have an operator as   *)
(* parameter; what follows states them of sets, from the theorem that < is *)
(* well-founded on the naturals.                                           *)
(***************************************************************************)
LEMMA LeastNatural ==
  ASSUME NEW T \in SUBSET Nat, T # {}
  PROVE  \E n \in T : \A m \in T : n <= m
<1> DEFINE R == {ss \in Nat \X Nat : ss[1] < ss[2]}
<1>1. \E x \in T : \A y \in T : ~ (<<y, x>> \in R)
  <2>1. OpToRel(<, Nat) = R
    BY DEF OpToRel
  <2>2. IsWellFoundedOn(OpToRel(<, Nat), Nat)
    BY NatLessThanWellFounded, Zenon
  <2>3. IsWellFoundedOn(R, Nat)
    BY <2>1, <2>2, Zenon
  <2> HIDE DEF R
  <2> QED BY <2>3, WFMin
<1>2. \A x, y \in Nat : y < x => <<y, x>> \in R
  OBVIOUS
<1> HIDE DEF R
<1>3. PICK n \in T : \A m \in T : ~(<<m, n>> \in R)
  BY <1>1
<1>4. /\ n \in Nat
      /\ \A m \in T : m \in Nat /\ ~(m < n)
  BY <1>2, <1>3
<1>5. \A m \in T : n <= m
  BY <1>4
<1> QED BY <1>3, <1>5

\* What holds of 0 and of k whenever of k - 1 holds up to n.
LEMMA Induction ==
  ASSUME NEW n \in Nat, NEW S, 0 \in S,
         \A k \in 1..n : k - 1 \in S => k \in S
  PROVE  0..n \subseteq S
<1> SUFFICES ASSUME (0..n) \ S # {} PROVE FALSE
  OBVIOUS
<1> DEFINE T == (0..n) \ S
<1>1. T \in SUBSET Nat /\ T # {}
  OBVIOUS
<1> HIDE DEF T
<1>2. PICK k \in T : \A m \in T : k <= m
  BY <1>1, LeastNatural
<1>3. k \in 1..n /\ k \notin S
  BY <1>2 DEF T
<1>4. k - 1 \in T
  BY <1>3 DEF T
<1>5. ~(k <= k - 1)
  BY <1>3
<1> QED BY <1>2, <1>4, <1>5

\* A function on 0..n is defined by its start and its steps.
Steps(n, T) == [1..n -> [T -> T]]
IsIterated(f, n, T, start, step) ==
    /\ f \in [0..n -> T]
    /\ f[0] = start
    /\ \A k \in 1..n : f[k] = step[k][f[k - 1]]

LEMMA Iteration ==
  ASSUME NEW n \in Nat, NEW T, NEW start \in T, NEW step, step \in Steps(n, T)
  PROVE  \E f : IsIterated(f, n, T, start, step)
<1> USE DEF Steps
<1> DEFINE Good(m) == \E f \in [0..m -> T] :
                f[0] = start /\ \A k \in 1..m : f[k] = step[k][f[k - 1]]
           S == {m \in 0..n : Good(m)}
<1>1. 0 \in S
  <2> DEFINE f == [k \in 0..0 |-> start]
  <2>1. f \in [0..0 -> T] /\ f[0] = start /\ \A k \in 1..0 : f[k] = step[k][f[k - 1]]
    OBVIOUS
  <2> HIDE DEF f
  <2>2. Good(0)
    BY <2>1
  <2> HIDE DEF Good
  <2> QED BY <2>2
<1>2. ASSUME NEW m \in 1..n, m - 1 \in S
      PROVE  m \in S
  <2>1. PICK f \in [0..(m - 1) -> T] :
            f[0] = start /\ \A k \in 1..(m - 1) : f[k] = step[k][f[k - 1]]
    BY <1>2
  <2> DEFINE g == [k \in 0..m |-> IF k = m THEN step[m][f[m - 1]] ELSE f[k]]
  <2>2. f[m - 1] \in T /\ step[m] \in [T -> T]
    BY <2>1
  <2>3. step[m][f[m - 1]] \in T
    BY <2>2
  <2>4. g \in [0..m -> T]
    BY <2>1, <2>3
  <2>5. g[0] = start
    BY <2>1
  <2>6. ASSUME NEW k \in 1..m PROVE g[k] = step[k][g[k - 1]]
    <3>1. k - 1 \in 0..(m - 1) /\ g[k - 1] = f[k - 1]
      OBVIOUS
    <3>2. CASE k = m
      <4>1. g[m] = step[m][f[m - 1]]
        OBVIOUS
      <4> HIDE DEF g
      <4> QED BY <3>1, <3>2, <4>1
    <3>3. CASE k # m
      <4>1. g[k] = f[k] /\ k \in 1..(m - 1)
        BY <3>3
      <4> HIDE DEF g
      <4> QED BY <2>1, <3>1, <4>1
    <3> QED BY <3>2, <3>3
  <2> HIDE DEF g
  <2>7. Good(m)
    BY <2>4, <2>5, <2>6
  <2> HIDE DEF Good
  <2> QED BY <2>7
<1> HIDE DEF S
<1>3. 0..n \subseteq S
  BY <1>1, <1>2, Induction
<1>4. n \in S
  BY <1>3
<1> QED BY <1>4 DEF S, IsIterated

-----------------------------------------------------------------------------
(***************************************************************************)
(* Below: what it computes is the least set that holds the rows of S and,  *)
(* with a row, the rows in it.                                             *)
(***************************************************************************)
Grown(P, R) == R \cup {n \in Node : P[n] # Null /\ P[n].parent \in R}

LEMMA BelowIsIterated ==
  ASSUME NEW P, NEW S
  PROVE  \E f \in [0..Cardinality(Node) -> SUBSET Node] :
            /\ f[0] = S \cap Rows(P)
            /\ \A k \in 1..Cardinality(Node) : f[k] = Grown(P, f[k - 1])
            /\ Below(P, S) = f[Cardinality(Node)]
<1> DEFINE C == Cardinality(Node)
           IsReach(g) == g = [k \in 0..C |->
                IF k = 0 THEN S \cap Rows(P)
                ELSE LET R == g[k - 1] IN
                     R \cup {n \in Node : P[n] # Null /\ P[n].parent \in R}]
           step == [k \in 1..C |-> [R \in SUBSET Node |-> Grown(P, R)]]
<1>1. C \in Nat
  BY BookAssumption, FS_CardinalityType
<1>2. step \in [1..C -> [SUBSET Node -> SUBSET Node]]
  BY DEF Grown
<1>3. S \cap Rows(P) \in SUBSET Node
  BY DEF Rows
<1>4. \A k \in 1..C, R \in SUBSET Node : step[k][R] = Grown(P, R)
  OBVIOUS
<1> HIDE DEF C, step
<1>5. PICK f \in [0..C -> SUBSET Node] :
        f[0] = S \cap Rows(P) /\ \A k \in 1..C : f[k] = step[k][f[k - 1]]
  <2> DEFINE T == SUBSET Node  start == S \cap Rows(P)
  <2>1. start \in T /\ step \in Steps(C, T)
    BY <1>2, <1>3 DEF Steps
  <2> HIDE DEF T, start
  <2>2. \E f : IsIterated(f, C, T, start, step)
    BY <1>1, <2>1, Iteration
  <2> QED BY <2>2 DEF T, start, IsIterated
<1>6. \A k \in 1..C : f[k - 1] \in SUBSET Node /\ f[k] = Grown(P, f[k - 1])
  <2> SUFFICES ASSUME NEW k \in 1..C
               PROVE  f[k - 1] \in SUBSET Node /\ f[k] = Grown(P, f[k - 1])
    OBVIOUS
  <2>1. k - 1 \in 0..C
    BY <1>1
  <2>2. f[k - 1] \in SUBSET Node
    BY <1>5, <2>1
  <2> QED BY <1>4, <1>5, <2>2
<1>7. f = [k \in 0..C |-> IF k = 0 THEN S \cap Rows(P) ELSE Grown(P, f[k - 1])]
  BY <1>1, <1>5, <1>6
<1>8. IsReach(f)
  BY <1>7 DEF Grown
<1> DEFINE h == CHOOSE g : IsReach(g)
<1>9. IsReach(h)
  <2> HIDE DEF IsReach
  <2> QED BY <1>8, Zenon DEF h
<1>10. Below(P, S) = h[C]
  BY DEF Below, C
<1>11. h = [k \in 0..C |-> IF k = 0 THEN S \cap Rows(P) ELSE Grown(P, h[k - 1])]
  BY <1>9 DEF Grown
<1> HIDE DEF h, IsReach
<1>12. h[0] = S \cap Rows(P) /\ \A k \in 1..C : h[k] = Grown(P, h[k - 1])
  BY <1>1, <1>11
<1>13. h \in [0..C -> SUBSET Node]
  <2> DEFINE T == {k \in 0..C : h[k] \in SUBSET Node}
  <2>1. 0 \in T
    BY <1>1, <1>3, <1>12
  <2>2. \A k \in 1..C : k - 1 \in T => k \in T
    BY <1>1, <1>12 DEF Grown
  <2> HIDE DEF T
  <2>3. 0..C \subseteq T
    BY <1>1, <2>1, <2>2, Induction
  <2>4. \A k \in 0..C : h[k] \in SUBSET Node
    BY <2>3 DEF T
  <2> QED BY <2>4, <1>11
<1> QED BY <1>10, <1>12, <1>13 DEF C

IsClosed(P, T) == \A n \in Rows(P) : P[n].parent \in T => n \in T

LEMMA BelowIsLeastClosed ==
  ASSUME NEW P, NEW S
  PROVE  /\ Below(P, S) \subseteq Rows(P)
         /\ S \cap Rows(P) \subseteq Below(P, S)
         /\ IsClosed(P, Below(P, S))
         /\ \A T : S \cap Rows(P) \subseteq T /\ IsClosed(P, T)
                     => Below(P, S) \subseteq T
<1> DEFINE C == Cardinality(Node)
<1>1. C \in Nat /\ IsFiniteSet(Node)
  BY BookAssumption, FS_CardinalityType
<1>2. PICK f \in [0..C -> SUBSET Node] :
        /\ f[0] = S \cap Rows(P)
        /\ \A k \in 1..C : f[k] = Grown(P, f[k - 1])
        /\ Below(P, S) = f[C]
  BY BelowIsIterated
<1> HIDE DEF C
<1>3. ASSUME NEW T, S \cap Rows(P) \subseteq T, IsClosed(P, T)
      PROVE  Below(P, S) \subseteq T
  <2> DEFINE K == {k \in 0..C : f[k] \subseteq T}
  <2>1. 0 \in K
    BY <1>1, <1>2, <1>3
  <2>2. \A k \in 1..C : k - 1 \in K => k \in K
    BY <1>2, <1>3 DEF Grown, IsClosed, Rows
  <2> HIDE DEF K
  <2>3. C \in K
    BY <1>1, <2>1, <2>2, Induction
  <2> QED BY <1>2, <2>3 DEF K
<1>4. Below(P, S) \subseteq Rows(P)
  BY <1>3 DEF IsClosed
<1>5. S \cap Rows(P) \subseteq Below(P, S)
  <2> DEFINE K == {k \in 0..C : S \cap Rows(P) \subseteq f[k]}
  <2>1. 0 \in K
    BY <1>1, <1>2
  <2>2. \A k \in 1..C : k - 1 \in K => k \in K
    BY <1>2 DEF Grown
  <2> HIDE DEF K
  <2>3. C \in K
    BY <1>1, <2>1, <2>2, Induction
  <2> QED BY <1>2, <2>3 DEF K
<1>6. IsClosed(P, f[C])
  <2> DEFINE K == {k \in 0..C : IsClosed(P, f[k]) \/ Cardinality(f[k]) >= k}
  <2>1. \A k \in 0..C : IsFiniteSet(f[k]) /\ Cardinality(f[k]) \in Nat
    BY <1>1, <1>2, FS_Subset, FS_CardinalityType
  <2>2. 0 \in K
    BY <1>1, <2>1
  <2>3. ASSUME NEW k \in 1..C, k - 1 \in K
        PROVE  k \in K
    <3>1. k - 1 \in 0..C /\ f[k] = Grown(P, f[k - 1])
      BY <1>1, <1>2
    <3>2. CASE IsClosed(P, f[k - 1])
      <4>1. f[k] = f[k - 1]
        BY <3>1, <3>2, <1>2 DEF Grown, IsClosed, Rows
      <4> QED BY <4>1, <3>2
    <3>3. CASE ~IsClosed(P, f[k - 1])
      <4>1. PICK n \in Rows(P) : P[n].parent \in f[k - 1] /\ n \notin f[k - 1]
        BY <3>3 DEF IsClosed
      <4>2. f[k - 1] \cup {n} \in SUBSET f[k]
        BY <3>1, <4>1 DEF Grown, Rows
      <4>3. /\ IsFiniteSet(f[k - 1] \cup {n})
            /\ Cardinality(f[k - 1] \cup {n}) = Cardinality(f[k - 1]) + 1
        BY <2>1, <3>1, <4>1, FS_AddElement
      <4>4. Cardinality(f[k - 1] \cup {n}) <= Cardinality(f[k])
        BY <2>1, <4>2, FS_Subset
      <4>5. Cardinality(f[k - 1]) >= k - 1
        BY <2>3, <3>3
      <4>6. Cardinality(f[k]) >= k
        BY <2>1, <3>1, <4>3, <4>4, <4>5
      <4> QED BY <4>6
    <3> QED BY <3>2, <3>3
  <2> HIDE DEF K
  <2>4. C \in K
    BY <1>1, <2>2, <2>3, Induction
  <2>5. CASE Cardinality(f[C]) >= C
    <3>1. f[C] \in SUBSET Node /\ Cardinality(f[C]) <= C
      BY <1>1, <1>2, FS_Subset DEF C
    <3>2. Cardinality(f[C]) = C
      BY <1>1, <2>1, <2>5, <3>1
    <3>3. f[C] = Node
      BY <1>1, <3>1, <3>2, FS_Subset DEF C
    <3> QED BY <3>3 DEF IsClosed, Rows
  <2> QED BY <2>4, <2>5 DEF K
<1> QED BY <1>2, <1>3, <1>4, <1>5, <1>6

-----------------------------------------------------------------------------
(***************************************************************************)
(* The operations on rows.  Before the constraints are checked an index    *)
(* may be out of range.                                                    *)
(***************************************************************************)
WideRow == [parent : Node, index : Int]
WideRows == [Node -> WideRow \cup {Null}]

LEMMA NullIsNoRow == /\ Null \notin WideRow
                     /\ PartRow \subseteq WideRow
                     /\ [Node -> PartRow \cup {Null}] \subseteq WideRows
<1>1. Index \subseteq Int
  BY BookAssumption DEF Index
<1>2. PartRow \subseteq WideRow
  BY <1>1 DEF PartRow, WideRow
<1> QED BY <1>2, BookAssumption DEF WideRow, WideRows

\* P and Q have the same rows with the same parents.
SameParents(P, Q) ==
    \A n \in Node : /\ Q[n] = Null <=> P[n] = Null
                    /\ P[n] # Null => Q[n].parent = P[n].parent

LEMMA MakeRoomShifts ==
  ASSUME NEW P \in WideRows, NEW g, NEW i \in Int, NEW Q, Q = MakeRoom(P, g, i)
  PROVE  /\ Q \in WideRows /\ SameParents(P, Q)
         /\ \A n \in Node : P[n] # Null =>
                Q[n].index = IF P[n].parent = g /\ P[n].index >= i
                             THEN P[n].index + 1 ELSE P[n].index
<1> SUFFICES ASSUME NEW n \in Node
             PROVE  /\ Q[n] \in WideRow \cup {Null}
                    /\ Q[n] = Null <=> P[n] = Null
                    /\ P[n] # Null =>
                        /\ Q[n].parent = P[n].parent
                        /\ Q[n].index = IF P[n].parent = g /\ P[n].index >= i
                                        THEN P[n].index + 1 ELSE P[n].index
  BY DEF MakeRoom, WideRows, SameParents
<1>1. Q[n] = IF IsIn(P, n, g) /\ P[n].index >= i
             THEN [P[n] EXCEPT !.index = @ + 1] ELSE P[n]
  BY DEF MakeRoom
<1>2. CASE P[n] = Null
  BY <1>1, <1>2 DEF IsIn
<1>3. CASE P[n] # Null
  <2>1. P[n] \in WideRow
    BY <1>3 DEF WideRows
  <2>2. [P[n] EXCEPT !.index = @ + 1] = [parent |-> P[n].parent, index |-> P[n].index + 1]
    BY <2>1 DEF WideRow
  <2>3. Q[n] \in WideRow
    BY <1>1, <2>1, <2>2 DEF WideRow
  <2> QED BY <1>1, <1>3, <2>1, <2>2, <2>3, NullIsNoRow DEF IsIn
<1> QED BY <1>2, <1>3

LEMMA FillGapShifts ==
  ASSUME NEW P \in WideRows, NEW g, NEW i \in Int, NEW Q, Q = FillGap(P, g, i)
  PROVE  /\ Q \in WideRows /\ SameParents(P, Q)
         /\ \A n \in Node : P[n] # Null =>
                Q[n].index = IF P[n].parent = g /\ P[n].index > i
                             THEN P[n].index - 1 ELSE P[n].index
<1> SUFFICES ASSUME NEW n \in Node
             PROVE  /\ Q[n] \in WideRow \cup {Null}
                    /\ Q[n] = Null <=> P[n] = Null
                    /\ P[n] # Null =>
                        /\ Q[n].parent = P[n].parent
                        /\ Q[n].index = IF P[n].parent = g /\ P[n].index > i
                                        THEN P[n].index - 1 ELSE P[n].index
  BY DEF FillGap, WideRows, SameParents
<1>1. Q[n] = IF IsIn(P, n, g) /\ P[n].index > i
             THEN [P[n] EXCEPT !.index = @ - 1] ELSE P[n]
  BY DEF FillGap
<1>2. CASE P[n] = Null
  BY <1>1, <1>2 DEF IsIn
<1>3. CASE P[n] # Null
  <2>1. P[n] \in WideRow
    BY <1>3 DEF WideRows
  <2>2. [P[n] EXCEPT !.index = @ - 1] = [parent |-> P[n].parent, index |-> P[n].index - 1]
    BY <2>1 DEF WideRow
  <2>3. Q[n] \in WideRow
    BY <1>1, <2>1, <2>2 DEF WideRow
  <2> QED BY <1>1, <1>3, <2>1, <2>2, <2>3, NullIsNoRow DEF IsIn
<1> QED BY <1>2, <1>3

\* The rows K are in the same order in P and in Q.
KeepsIndices(P, Q, K) ==
    \A a, b \in K :
        P[a].parent = P[b].parent /\ P[a].index < P[b].index
        => Q[a].index < Q[b].index

\* Q has the rows of P, with the same parents and in the same order, and a new
\* row n in g.
AddsRow(P, Q, n, g) ==
    /\ Q[n] # Null /\ Q[n].parent = g
    /\ \A m \in Node \ {n} : /\ Q[m] = Null <=> P[m] = Null
                             /\ P[m] # Null => Q[m].parent = P[m].parent
    /\ KeepsIndices(P, Q, Rows(P) \ {n})

LEMMA CreateAtAdds ==
  ASSUME NEW P \in WideRows, NEW n \in Node, NEW g \in Node, NEW i \in Int,
         NEW Q, Q = CreateAt(P, n, g, i)
  PROVE  Q \in WideRows /\ AddsRow(P, Q, n, g)
<1> DEFINE M == MakeRoom(P, g, i)
<1>1. /\ M \in WideRows /\ SameParents(P, M)
      /\ \A m \in Node : P[m] # Null =>
            M[m].index = IF P[m].parent = g /\ P[m].index >= i
                         THEN P[m].index + 1 ELSE P[m].index
  BY MakeRoomShifts
<1>2. Q = [M EXCEPT ![n] = [parent |-> g, index |-> i]]
  BY DEF CreateAt
<1>3. [parent |-> g, index |-> i] \in WideRow
  BY DEF WideRow
<1> HIDE DEF M
<1>4. Q \in WideRows
  BY <1>1, <1>2, <1>3 DEF WideRows
<1>5. Q[n] = [parent |-> g, index |-> i] /\ \A m \in Node \ {n} : Q[m] = M[m]
  BY <1>1, <1>2 DEF WideRows
<1>6. Q[n] # Null /\ Q[n].parent = g
  BY <1>3, <1>5, NullIsNoRow
<1>7. ASSUME NEW a \in Rows(P) \ {n}, NEW b \in Rows(P) \ {n},
             P[a].parent = P[b].parent, P[a].index < P[b].index
      PROVE  Q[a].index < Q[b].index
  <2>1. /\ a \in Node /\ b \in Node /\ Q[a] = M[a] /\ Q[b] = M[b]
        /\ P[a] # Null /\ P[b] # Null
    BY <1>5 DEF Rows
  <2>2. P[a].index \in Int /\ P[b].index \in Int
    BY <2>1 DEF WideRows, WideRow
  <2> QED BY <1>1, <1>7, <2>1, <2>2
<1>8. KeepsIndices(P, Q, Rows(P) \ {n})
  BY <1>7 DEF KeepsIndices
<1> QED BY <1>1, <1>4, <1>5, <1>6, <1>8 DEF AddsRow, SameParents

LEMMA DeleteRowsKeeps ==
  ASSUME NEW P \in WideRows, NEW S, NEW Q, Q = DeleteRows(P, S)
  PROVE  /\ Q \in WideRows
         /\ \A n \in Node : Q[n] = IF n \in S THEN Null ELSE P[n]
BY DEF DeleteRows, WideRows

\* Q has the rows of P, where they were, and those of a new tree, whose node is
\* in g.
AddsTree(P, Q, g, tree) ==
    LET new == {tree.node} \cup {tree.kids[k] : k \in 1..Len(tree.kids)} IN
    /\ Rows(Q) = Rows(P) \cup new
    /\ \A n \in Rows(P) : Q[n].parent = P[n].parent
    /\ KeepsIndices(P, Q, Rows(P))
    /\ Q[tree.node].parent = g
    /\ \A k \in 1..Len(tree.kids) : Q[tree.kids[k]].parent = tree.node

\* What NewTrees asks of a tree, for rows P.
IsNewTree(P, tree) ==
    /\ tree.node \in Node \ Rows(P)
    /\ tree.kids \in Seq(Node \ Rows(P))
    /\ \A k \in 1..Len(tree.kids) :
        /\ tree.kids[k] # tree.node
        /\ \A j \in 1..Len(tree.kids) : tree.kids[j] = tree.kids[k] => j = k
    /\ tree.node \in ModulePart => tree.kids = <<>>

LEMMA CreateTreeIsIterated ==
  ASSUME NEW P \in WideRows, NEW g \in Node, NEW i \in Int,
         NEW tree, tree.node \in Node, tree.kids \in Seq(Node)
  PROVE  \E f \in [0..Len(tree.kids) -> WideRows] :
            /\ f[0] = CreateAt(P, tree.node, g, i)
            /\ \A k \in 1..Len(tree.kids) :
                    f[k] = CreateAt(f[k - 1], tree.kids[k], tree.node, k - 1)
            /\ CreateTree(P, g, i, tree) = f[Len(tree.kids)]
<1> DEFINE C == Len(tree.kids)
           IsMade(m) == m = [k \in 0..C |->
                IF k = 0 THEN CreateAt(P, tree.node, g, i)
                ELSE CreateAt(m[k - 1], tree.kids[k], tree.node, k - 1)]
           start == CreateAt(P, tree.node, g, i)
           step == [k \in 1..C |-> [Q \in WideRows |->
                        CreateAt(Q, tree.kids[k], tree.node, k - 1)]]
<1>1. C \in Nat /\ \A k \in 1..C : tree.kids[k] \in Node
  OBVIOUS
<1>2. start \in WideRows
  BY CreateAtAdds
<1>3. step \in Steps(C, WideRows)
  <2>1. ASSUME NEW k \in 1..C, NEW Q \in WideRows
        PROVE  CreateAt(Q, tree.kids[k], tree.node, k - 1) \in WideRows
    <3>1. k - 1 \in Int /\ tree.kids[k] \in Node
      BY <1>1
    <3> QED BY <3>1, CreateAtAdds
  <2> HIDE DEF C
  <2> QED BY <2>1 DEF Steps
<1>4. \A k \in 1..C, Q \in WideRows :
        step[k][Q] = CreateAt(Q, tree.kids[k], tree.node, k - 1)
  OBVIOUS
<1> HIDE DEF C, start, step
<1>5. PICK f : IsIterated(f, C, WideRows, start, step)
  BY <1>1, <1>2, <1>3, Iteration
<1>6. ASSUME NEW k \in 1..C
      PROVE  f[k] = CreateAt(f[k - 1], tree.kids[k], tree.node, k - 1)
  <2>1. k - 1 \in 0..C
    BY <1>1
  <2>2. f[k - 1] \in WideRows
    BY <1>5, <2>1 DEF IsIterated
  <2> QED BY <1>4, <1>5, <2>2 DEF IsIterated
<1>7. IsMade(f)
  <2>1. f = [k \in 0..C |-> f[k]] /\ f[0] = start
    BY <1>5 DEF IsIterated
  <2>2. \A k \in 0..C : f[k] = IF k = 0 THEN start
                ELSE CreateAt(f[k - 1], tree.kids[k], tree.node, k - 1)
    <3> SUFFICES ASSUME NEW k \in 0..C
                 PROVE  f[k] = IF k = 0 THEN start
                               ELSE CreateAt(f[k - 1], tree.kids[k], tree.node, k - 1)
      OBVIOUS
    <3>1. k # 0 => k \in 1..C
      BY <1>1
    <3> QED BY <1>6, <2>1, <3>1
  <2> QED BY <2>1, <2>2, Zenon DEF start
<1> DEFINE h == CHOOSE m : IsMade(m)
<1>8. IsMade(h)
  <2> HIDE DEF IsMade
  <2> QED BY <1>7, Zenon DEF h
<1>9. CreateTree(P, g, i, tree) = h[C]
  BY DEF CreateTree, C
<1>10. h = [k \in 0..C |-> IF k = 0 THEN start
                ELSE CreateAt(h[k - 1], tree.kids[k], tree.node, k - 1)]
  BY <1>8 DEF start
<1> HIDE DEF h, IsMade
<1>11. /\ h[0] = start
       /\ \A k \in 1..C : h[k] = CreateAt(h[k - 1], tree.kids[k], tree.node, k - 1)
  BY <1>1, <1>10
<1>12. h \in [0..C -> WideRows]
  <2> DEFINE T == {k \in 0..C : h[k] \in WideRows}
  <2>1. 0 \in T
    BY <1>1, <1>2, <1>11
  <2>2. ASSUME NEW k \in 1..C, k - 1 \in T PROVE k \in T
    <3>1. k - 1 \in Int /\ tree.kids[k] \in Node /\ h[k - 1] \in WideRows
      BY <1>1, <2>2
    <3>2. h[k] \in WideRows
      BY <1>11, <3>1, CreateAtAdds
    <3> QED BY <1>1, <3>2
  <2> HIDE DEF T
  <2>3. 0..C \subseteq T
    BY <1>1, <2>1, <2>2, Induction
  <2>4. \A k \in 0..C : h[k] \in WideRows
    BY <2>3 DEF T
  <2> QED BY <2>4, <1>10
<1> QED BY <1>9, <1>11, <1>12 DEF C, start

LEMMA CreateTreeAdds ==
  ASSUME NEW P \in WideRows, NEW g \in Node, NEW i \in Int,
         NEW tree, IsNewTree(P, tree),
         NEW Q, Q = CreateTree(P, g, i, tree)
  PROVE  Q \in WideRows /\ AddsTree(P, Q, g, tree)
<1> DEFINE C == Len(tree.kids)
<1>1. /\ tree.node \in Node \ Rows(P)
      /\ tree.kids \in Seq(Node)
      /\ C \in Nat
      /\ \A k \in 1..C : /\ tree.kids[k] \in Node \ Rows(P)
                         /\ tree.kids[k] # tree.node
                         /\ \A j \in 1..C : tree.kids[j] = tree.kids[k] => j = k
  BY DEF IsNewTree
<1>2. PICK f \in [0..C -> WideRows] :
        /\ f[0] = CreateAt(P, tree.node, g, i)
        /\ \A k \in 1..C : f[k] = CreateAt(f[k - 1], tree.kids[k], tree.node, k - 1)
        /\ Q = f[C]
  BY <1>1, CreateTreeIsIterated
<1> HIDE DEF C
<1> DEFINE Up(k) ==
        /\ f[k][tree.node] # Null /\ f[k][tree.node].parent = g
        /\ \A j \in 1..k : /\ f[k][tree.kids[j]] # Null
                           /\ f[k][tree.kids[j]].parent = tree.node
        /\ \A n \in Node :
            /\ P[n] # Null => f[k][n] # Null /\ f[k][n].parent = P[n].parent
            /\ f[k][n] # Null => \/ P[n] # Null \/ n = tree.node
                                 \/ \E j \in 1..k : n = tree.kids[j]
        /\ KeepsIndices(P, f[k], Rows(P))
<1>3. Up(0)
  <2>1. AddsRow(P, f[0], tree.node, g)
    BY <1>1, <1>2, CreateAtAdds
  <2>2. Rows(P) \ {tree.node} = Rows(P)
    BY <1>1
  <2>3. KeepsIndices(P, f[0], Rows(P))
    BY <2>1, <2>2 DEF AddsRow
  <2> QED BY <1>1, <2>1, <2>3 DEF AddsRow, Rows
<1>4. ASSUME NEW k \in 1..C, Up(k - 1)
      PROVE  Up(k)
  <2>1. /\ k - 1 \in 0..C /\ k - 1 \in Int /\ f[k - 1] \in WideRows
        /\ tree.kids[k] \in Node
    BY <1>1, <1>2
  <2>2. AddsRow(f[k - 1], f[k], tree.kids[k], tree.node)
    BY <1>1, <1>2, <2>1, CreateAtAdds
  <2>3. /\ tree.node # tree.kids[k] /\ P[tree.kids[k]] = Null
        /\ tree.node \in Node
        /\ \A j \in 1..(k - 1) : tree.kids[j] \in Node /\ tree.kids[j] # tree.kids[k]
    BY <1>1 DEF Rows
  <2>4. \A j \in 1..k : j = k \/ j \in 1..(k - 1)
    OBVIOUS
  <2>5. \A j \in 1..(k - 1) : j \in 1..k
    OBVIOUS
  <2>6. k \in 1..k
    OBVIOUS
  <2>7. f[k][tree.node] # Null /\ f[k][tree.node].parent = g
    BY <1>4, <2>2, <2>3 DEF AddsRow
  <2>8. ASSUME NEW j \in 1..k
        PROVE  f[k][tree.kids[j]] # Null /\ f[k][tree.kids[j]].parent = tree.node
    BY <1>4, <2>2, <2>3, <2>4 DEF AddsRow
  <2>9. ASSUME NEW n \in Node
        PROVE  /\ P[n] # Null => f[k][n] # Null /\ f[k][n].parent = P[n].parent
               /\ f[k][n] # Null => \/ P[n] # Null \/ n = tree.node
                                    \/ \E j \in 1..k : n = tree.kids[j]
    <3>1. CASE n = tree.kids[k]
      BY <2>3, <2>6, <3>1
    <3>2. CASE n # tree.kids[k]
      BY <1>4, <2>2, <2>5, <3>2 DEF AddsRow
    <3> QED BY <3>1, <3>2
  <2>10. ASSUME NEW a \in Rows(P), NEW b \in Rows(P),
                P[a].parent = P[b].parent, P[a].index < P[b].index
         PROVE  f[k][a].index < f[k][b].index
    <3>1. /\ a \in Node /\ b \in Node /\ a # tree.kids[k] /\ b # tree.kids[k]
          /\ P[a] # Null /\ P[b] # Null
      BY <2>3 DEF Rows
    <3>2. /\ f[k - 1][a] # Null /\ f[k - 1][b] # Null
          /\ f[k - 1][a].parent = f[k - 1][b].parent
          /\ f[k - 1][a].index < f[k - 1][b].index
      BY <1>4, <2>10, <3>1 DEF KeepsIndices
    <3>3. a \in Rows(f[k - 1]) \ {tree.kids[k]} /\ b \in Rows(f[k - 1]) \ {tree.kids[k]}
      BY <3>1, <3>2 DEF Rows
    <3> QED BY <2>2, <3>2, <3>3 DEF AddsRow, KeepsIndices
  <2>11. KeepsIndices(P, f[k], Rows(P))
    BY <2>10 DEF KeepsIndices
  <2> QED BY <2>7, <2>8, <2>9, <2>11
<1>5. Up(C)
  <2> DEFINE T == {k \in 0..C : Up(k)}
  <2> HIDE DEF Up
  <2>1. 0 \in T
    BY <1>1, <1>3
  <2>2. \A k \in 1..C : k - 1 \in T => k \in T
    BY <1>1, <1>4
  <2> HIDE DEF T
  <2>3. C \in Nat
    BY <1>1
  <2>4. 0..C \subseteq T
    BY <2>1, <2>2, <2>3, Induction
  <2>5. C \in T
    BY <2>3, <2>4
  <2> QED BY <2>5 DEF T
<1>6. Q \in WideRows
  BY <1>1, <1>2
<1>7. AddsTree(P, Q, g, tree)
  BY <1>1, <1>2, <1>5 DEF AddsTree, Rows, C
<1> QED BY <1>6, <1>7

-----------------------------------------------------------------------------
(***************************************************************************)
(* The invariant.                                                          *)
(***************************************************************************)
\* A request remembers a target that was no module, and no part becomes one.
TargetsAreGroups ==
    \A h \in Handler : requests[h] # Null => requests[h].target \notin ModulePart

IInv == TypeOK /\ PartsSound /\ TargetsAreGroups

OutsideModules(P) == \A n \in Rows(P) : P[n].parent \notin ModulePart

LEMMA PartsAreWide ==
  ASSUME TypeOK
  PROVE  parts \in WideRows
BY NullIsNoRow DEF TypeOK

LEMMA NewTreesAreNew ==
  ASSUME NEW tree \in NewTrees
  PROVE  IsNewTree(parts, tree) /\ tree.node \in Fresh /\ tree.kids \in Seq(Fresh)
<1>1. Fresh \subseteq Node \ Rows(parts)
  BY DEF Fresh
<1>2. /\ tree.node \in Fresh
      /\ tree.kids \in BoundedSeq(Fresh, MaxNew - 1)
      /\ IsInjective(<<tree.node>> \o tree.kids)
      /\ tree.node \in ModulePart => tree.kids = <<>>
  BY DEF NewTrees
<1>3. tree.kids \in Seq(Fresh)
  BY <1>2, BookAssumption DEF BoundedSeq, SeqOf
<1>4. tree.kids \in Seq(Node \ Rows(parts))
  BY <1>1, <1>3
<1> DEFINE all == <<tree.node>> \o tree.kids
<1>5. /\ <<tree.node>> \in Seq(Fresh) /\ Len(<<tree.node>>) = 1
      /\ Len(all) = 1 + Len(tree.kids)
      /\ Len(tree.kids) \in Nat
      /\ DOMAIN all = 1..Len(all)
      /\ all[1] = tree.node
      /\ \A k \in 1..Len(tree.kids) : all[k + 1] = tree.kids[k]
  BY <1>2, <1>3
<1>6. \A a, b \in 1..Len(all) : all[a] = all[b] => a = b
  BY <1>2, <1>5 DEF IsInjective
<1> HIDE DEF all
<1>7. ASSUME NEW k \in 1..Len(tree.kids)
      PROVE  /\ tree.kids[k] # tree.node
             /\ \A j \in 1..Len(tree.kids) : tree.kids[j] = tree.kids[k] => j = k
  <2>1. \A j \in 1..Len(tree.kids) : j + 1 \in 1..Len(all) /\ j + 1 # 1
    BY <1>5
  <2>2. 1 \in 1..Len(all)
    BY <1>5
  <2>3. tree.kids[k] # tree.node
    BY <1>5, <1>6, <2>1, <2>2
  <2>4. ASSUME NEW j \in 1..Len(tree.kids), tree.kids[j] = tree.kids[k]
        PROVE  j = k
    <3>1. j + 1 = k + 1
      BY <1>5, <1>6, <2>1, <2>4
    <3> QED BY <1>5, <3>1
  <2> QED BY <2>3, <2>4
<1> QED BY <1>1, <1>2, <1>3, <1>4, <1>7 DEF IsNewTree

LEMMA CreateTreeOutside ==
  ASSUME NEW P \in WideRows, OutsideModules(P), NEW g \in Node \ ModulePart,
         NEW i \in Int, NEW tree, IsNewTree(P, tree)
  PROVE  OutsideModules(CreateTree(P, g, i, tree))
<1> DEFINE Q == CreateTree(P, g, i, tree)
<1>1. AddsTree(P, Q, g, tree)
  BY CreateTreeAdds
<1> HIDE DEF Q
<1>2. SUFFICES ASSUME NEW n \in Rows(Q) PROVE Q[n].parent \notin ModulePart
  BY DEF OutsideModules, Q
<1>3. CASE n \in Rows(P)
  BY <1>1, <1>3 DEF AddsTree, OutsideModules
<1>4. CASE n = tree.node
  BY <1>1, <1>4 DEF AddsTree
<1>5. CASE \E k \in 1..Len(tree.kids) : n = tree.kids[k]
  <2>1. PICK k \in 1..Len(tree.kids) : n = tree.kids[k]
    BY <1>5
  <2>2. tree.kids # <<>>
    BY <2>1
  <2> QED BY <1>1, <2>1, <2>2 DEF AddsTree, IsNewTree
<1> QED BY <1>1, <1>3, <1>4, <1>5 DEF AddsTree

\* What DeleteRows leaves of P.
LEMMA DeleteRowsOutside ==
  ASSUME NEW P \in WideRows, OutsideModules(P), NEW S
  PROVE  OutsideModules(DeleteRows(P, S))
BY DEF OutsideModules, DeleteRows, Rows

LEMMA CreateAtOutside ==
  ASSUME NEW P \in WideRows, OutsideModules(P), NEW g \in Node \ ModulePart,
         NEW n \in Node, NEW i \in Int
  PROVE  OutsideModules(CreateAt(P, n, g, i))
<1> DEFINE Q == CreateAt(P, n, g, i)
<1>1. AddsRow(P, Q, n, g)
  BY CreateAtAdds
<1> HIDE DEF Q
<1>2. OutsideModules(Q)
  BY <1>1 DEF OutsideModules, AddsRow, Rows
<1> QED BY <1>2 DEF Q

\* The index x in group r.target once the gap that r left is filled.
Filled(r, x) == IF r.parent = r.target /\ x > r.index THEN x - 1 ELSE x

\* What a move makes of the rows, before the constraints are checked.
LEMMA ReparentMoves ==
  ASSUME NEW P \in WideRows, NEW r \in Request, P[r.part] # Null,
         NEW i \in Index, NEW Q, Q = Reparent(P, r, i)
  PROVE  /\ Q \in WideRows
         /\ Rows(Q) = Rows(P)
         /\ Q[r.part].parent = r.target
         /\ \A n \in Rows(P) \ {r.part} : Q[n].parent = P[n].parent
         /\ Q[r.part].index = Filled(r, i)
         /\ \A n \in Siblings(P, r.target) \ {r.part} :
                Q[n].index = Filled(r, IF P[n].index >= i THEN P[n].index + 1
                                       ELSE P[n].index)
         /\ \A a, b \in Rows(P) \ {r.part} :
                P[a].parent = P[b].parent /\ P[a].index < P[b].index
                => Q[a].index <= Q[b].index
<1> DEFINE M == MakeRoom(P, r.target, i)
           N == [M EXCEPT ![r.part].parent = r.target, ![r.part].index = i]
<1>1. i \in Int /\ r.part \in Node /\ r.target \in Node /\ r.index \in Int
  BY BookAssumption DEF Index, Request
<1>2. /\ M \in WideRows /\ SameParents(P, M)
      /\ \A n \in Node : P[n] # Null =>
            M[n].index = IF P[n].parent = r.target /\ P[n].index >= i
                         THEN P[n].index + 1 ELSE P[n].index
  BY <1>1, MakeRoomShifts
<1>3. Q = FillGap(N, r.parent, r.index)
  BY DEF Reparent
<1> HIDE DEF M
<1>4. M[r.part] \in WideRow
  BY <1>1, <1>2 DEF WideRows, SameParents
<1>5. /\ N[r.part] = [parent |-> r.target, index |-> i]
      /\ \A n \in Node \ {r.part} : N[n] = M[n]
  BY <1>1, <1>2, <1>4 DEF WideRows, WideRow
<1>6. [parent |-> r.target, index |-> i] \in WideRow
  BY <1>1 DEF WideRow
<1>7. N \in WideRows
  <2>1. N = [n \in Node |-> N[n]]
    BY <1>2 DEF WideRows
  <2> HIDE DEF N
  <2>2. \A n \in Node : N[n] \in WideRow \cup {Null}
    BY <1>2, <1>5, <1>6 DEF WideRows
  <2> QED BY <2>1, <2>2 DEF WideRows
<1> HIDE DEF N
<1>8. /\ Q \in WideRows /\ SameParents(N, Q)
      /\ \A n \in Node : N[n] # Null =>
            Q[n].index = IF N[n].parent = r.parent /\ N[n].index > r.index
                         THEN N[n].index - 1 ELSE N[n].index
  BY <1>1, <1>3, <1>7, FillGapShifts
<1>9. /\ N[r.part] # Null /\ N[r.part].parent = r.target
      /\ N[r.part].index = i
  BY <1>5, <1>6, NullIsNoRow
<1>10. Q[r.part].index = Filled(r, i)
  BY <1>1, <1>8, <1>9 DEF Filled
<1>11. ASSUME NEW n \in Siblings(P, r.target) \ {r.part}
       PROVE  Q[n].index = Filled(r, IF P[n].index >= i THEN P[n].index + 1
                                     ELSE P[n].index)
  <2>1. n \in Node \ {r.part} /\ P[n] # Null /\ P[n].parent = r.target
    BY DEF Siblings, IsIn
  <2>2. /\ N[n] # Null /\ N[n].parent = r.target
        /\ N[n].index = IF P[n].index >= i THEN P[n].index + 1 ELSE P[n].index
    BY <1>2, <1>5, <2>1 DEF SameParents
  <2> QED BY <1>8, <2>1, <2>2 DEF Filled
<1>12. ASSUME NEW a \in Rows(P) \ {r.part}, NEW b \in Rows(P) \ {r.part},
              P[a].parent = P[b].parent, P[a].index < P[b].index
       PROVE  Q[a].index <= Q[b].index
  <2>1. /\ a \in Node \ {r.part} /\ b \in Node \ {r.part}
        /\ P[a] # Null /\ P[b] # Null
    BY DEF Rows
  <2>2. P[a].index \in Int /\ P[b].index \in Int
    BY <2>1 DEF WideRows, WideRow
  <2>3. /\ N[a] # Null /\ N[b] # Null /\ N[a].parent = N[b].parent
        /\ N[a].index \in Int /\ N[b].index \in Int /\ N[a].index < N[b].index
    BY <1>1, <1>2, <1>5, <1>12, <2>1, <2>2 DEF SameParents
  <2> QED BY <1>1, <1>8, <2>1, <2>3
<1> QED BY <1>1, <1>2, <1>5, <1>8, <1>9, <1>10, <1>11, <1>12 DEF SameParents, Rows

LEMMA InitInvariant == Init => IInv
<1> SUFFICES ASSUME Init PROVE IInv
  OBVIOUS
<1>1. Rows(parts) = {}
  BY DEF Init, NoParts, Rows
<1>2. TypeOK
  BY DEF Init, TypeOK, NoParts
<1>3. PartsSound
  BY <1>1 DEF PartsSound, Init
<1> QED BY <1>2, <1>3 DEF IInv, TargetsAreGroups, Init

LEMMA CommitInvariant ==
  ASSUME IInv, NEW P, Commit(P), OutsideModules(P),
         requests' \in [Handler -> Request \cup {Null}], TargetsAreGroups'
  PROVE  IInv'
<1>1. parts' = P /\ Allowed(P) /\ P[Root] # Null
  BY DEF Commit
<1>2. P \in [Node -> PartRow \cup {Null}]
  BY <1>1 DEF Allowed
<1>3. TypeOK'
  BY <1>1, <1>2 DEF TypeOK
<1>4. \A n \in Rows(P) : P[n].parent \in Rows(P)
  BY <1>1, <1>2 DEF Allowed, PartRow, Rows
<1>5. PartsSound'
  BY <1>1, <1>4 DEF PartsSound, Allowed, OutsideModules, Rows
<1> QED BY <1>3, <1>5 DEF IInv

\* What stays as it is when no request is read or ends.
LEMMA RequestsKept ==
  ASSUME IInv, UNCHANGED requests
  PROVE  requests' \in [Handler -> Request \cup {Null}] /\ TargetsAreGroups'
BY DEF IInv, TypeOK, TargetsAreGroups

LEMMA RequestEnds ==
  ASSUME IInv, NEW h \in Handler, requests' = [requests EXCEPT ![h] = Null]
  PROVE  requests' \in [Handler -> Request \cup {Null}] /\ TargetsAreGroups'
BY DEF IInv, TypeOK, TargetsAreGroups

LEMMA PartsOutside ==
  ASSUME IInv
  PROVE  parts \in WideRows /\ OutsideModules(parts)
BY PartsAreWide DEF IInv, PartsSound, OutsideModules

LEMMA CreateBookInvariant == IInv /\ CreateBook => IInv'
<1> SUFFICES ASSUME IInv, CreateBook PROVE IInv'
  OBVIOUS
<1> DEFINE row == [parent |-> Root, index |-> 0]
<1>1. row \in PartRow /\ row # Null
  BY BookAssumption, NullIsNoRow DEF PartRow, Index
<1>2. parts' = [n \in Node |-> IF n = Root THEN row ELSE Null]
  BY BookAssumption DEF CreateBook, NoParts
<1>3. row.parent = Root
  OBVIOUS
<1> HIDE DEF row
<1>4. TypeOK'
  BY <1>1, <1>2 DEF IInv, TypeOK, CreateBook
<1>5. \A n \in Node : parts'[n] # Null <=> n = Root
  BY <1>1, <1>2
<1>6. parts'[Root].parent = Root
  BY <1>2, <1>3, BookAssumption
<1>7. PartsSound'
  BY <1>5, <1>6, BookAssumption DEF PartsSound, Rows
<1> QED BY <1>4, <1>7, RequestsKept DEF IInv, CreateBook

LEMMA DeleteBookInvariant == IInv /\ DeleteBook => IInv'
<1> SUFFICES ASSUME IInv, DeleteBook PROVE IInv'
  OBVIOUS
<1>1. parts' = NoParts
  BY DEF DeleteBook
<1>2. TypeOK'
  BY <1>1 DEF IInv, TypeOK, NoParts, DeleteBook
<1>3. PartsSound'
  BY <1>1 DEF PartsSound, NoParts, Rows
<1> QED BY <1>2, <1>3, RequestsKept DEF IInv, DeleteBook

LEMMA CreatePartInvariant ==
  ASSUME IInv, NEW g \in Node, NEW i \in Index, CreatePart(g, i)
  PROVE  IInv'
<1>1. PICK tree \in NewTrees : Commit(CreateTree(parts, g, i, tree))
  BY DEF CreatePart
<1>2. i \in Int /\ g \in Node \ ModulePart
  BY BookAssumption DEF CreatePart, Index
<1>3. OutsideModules(CreateTree(parts, g, i, tree))
  BY <1>2, NewTreesAreNew, PartsOutside, CreateTreeOutside
<1> QED BY <1>1, <1>3, CommitInvariant, RequestsKept DEF CreatePart

LEMMA DeletePartInvariant ==
  ASSUME IInv, NEW n \in Node, DeletePart(n)
  PROVE  IInv'
<1>1. OutsideModules(DeleteRows(parts, Below(parts, {n})))
  BY PartsOutside, DeleteRowsOutside
<1> QED BY <1>1, CommitInvariant, RequestsKept DEF DeletePart

\* Clear takes rows away and adds none.
LEMMA ClearKeeps ==
  ASSUME IInv, NEW P, P = Clear(parts)
  PROVE  /\ P \in WideRows /\ OutsideModules(P)
         /\ Rows(P) \subseteq Rows(parts)
<1>1. P = DeleteRows(parts, Below(parts, Siblings(parts, Root) \ {Root}))
  BY DEF Clear
<1> DEFINE S == Below(parts, Siblings(parts, Root) \ {Root})
<1> HIDE DEF S
<1>2. P \in WideRows /\ OutsideModules(P)
  BY <1>1, PartsOutside, DeleteRowsKeeps, DeleteRowsOutside DEF S
<1> QED BY <1>1, <1>2 DEF DeleteRows, Rows

LEMMA ReplaceBookInvariant == IInv /\ ReplaceBook => IInv'
<1> SUFFICES ASSUME IInv, ReplaceBook PROVE IInv'
  OBVIOUS
<1> DEFINE P == Clear(parts)
<1>1. /\ P \in WideRows /\ OutsideModules(P)
      /\ Rows(P) \subseteq Rows(parts)
  BY ClearKeeps
<1>2. Root \in Node \ ModulePart
  BY BookAssumption
<1>3. requests' \in [Handler -> Request \cup {Null}] /\ TargetsAreGroups'
  BY RequestsKept DEF ReplaceBook
<1>4. \/ Commit(P)
      \/ \E tree \in NewTrees : Commit(CreateTree(P, Root, 0, tree))
      \/ \E m, n \in Fresh : Commit(CreateAt(CreateAt(P, m, Root, 0), n, Root, 1))
  BY DEF ReplaceBook
<1> HIDE DEF P
<1>5. CASE Commit(P)
  BY <1>1, <1>3, <1>5, CommitInvariant
<1>6. ASSUME NEW tree \in NewTrees, Commit(CreateTree(P, Root, 0, tree))
      PROVE  IInv'
  <2>1. IsNewTree(P, tree)
    BY <1>1, NewTreesAreNew DEF IsNewTree
  <2>2. OutsideModules(CreateTree(P, Root, 0, tree))
    BY <1>1, <1>2, <2>1, CreateTreeOutside
  <2> QED BY <1>3, <1>6, <2>2, CommitInvariant
<1>7. ASSUME NEW m \in Fresh, NEW n \in Fresh,
             Commit(CreateAt(CreateAt(P, m, Root, 0), n, Root, 1))
      PROVE  IInv'
  <2>1. m \in Node /\ n \in Node
    BY DEF Fresh
  <2> DEFINE Q == CreateAt(P, m, Root, 0)
  <2>2. Q \in WideRows /\ OutsideModules(Q)
    BY <1>1, <1>2, <2>1, CreateAtAdds, CreateAtOutside
  <2> HIDE DEF Q
  <2>3. OutsideModules(CreateAt(Q, n, Root, 1))
    BY <1>2, <2>1, <2>2, CreateAtOutside
  <2> QED BY <1>3, <1>7, <2>3, CommitInvariant DEF Q
<1> QED BY <1>4, <1>5, <1>6, <1>7

LEMMA LoadForMoveInvariant ==
  ASSUME IInv, NEW h \in Handler, NEW n \in Node, NEW g \in Node, LoadForMove(h, n, g)
  PROVE  IInv'
<1> DEFINE r == [part |-> n, target |-> g, parent |-> parts[n].parent,
                 index |-> parts[n].index]
<1>1. parts[n] \in PartRow /\ Index \subseteq Int
  BY BookAssumption DEF IInv, TypeOK, LoadForMove, Index
<1>2. r \in Request /\ r.target \notin ModulePart
  BY <1>1 DEF Request, PartRow, LoadForMove
<1>3. requests' = [requests EXCEPT ![h] = r] /\ parts' = parts
  BY DEF LoadForMove
<1> HIDE DEF r
<1> QED BY <1>2, <1>3 DEF IInv, TypeOK, PartsSound, TargetsAreGroups, Rows

LEMMA MovePartInvariant ==
  ASSUME IInv, NEW h \in Handler, NEW i \in Index, MovePart(h, i)
  PROVE  IInv'
<1> DEFINE r == requests[h]  Q == Reparent(parts, r, i)
<1>1. r \in Request /\ r.target \notin ModulePart /\ parts[r.part] # Null
  BY DEF MovePart, IInv, TypeOK, TargetsAreGroups
<1>2. Commit(Q) /\ requests' = [requests EXCEPT ![h] = Null]
  BY DEF MovePart
<1> HIDE DEF r
<1>3. /\ Rows(Q) = Rows(parts)
      /\ Q[r.part].parent = r.target
      /\ \A n \in Rows(parts) \ {r.part} : Q[n].parent = parts[n].parent
  BY <1>1, PartsOutside, ReparentMoves
<1> HIDE DEF Q
<1>4. OutsideModules(Q)
  BY <1>1, <1>3, PartsOutside DEF OutsideModules
<1> QED BY <1>2, <1>4, CommitInvariant, RequestEnds

LEMMA RefuseMoveInvariant ==
  ASSUME IInv, NEW h \in Handler, RefuseMove(h)
  PROVE  IInv'
<1>1. requests' \in [Handler -> Request \cup {Null}] /\ TargetsAreGroups'
  BY RequestEnds DEF RefuseMove
<1> QED BY <1>1 DEF RefuseMove, IInv, TypeOK, PartsSound, Rows

LEMMA StepInvariant == IInv /\ [Next]_vars => IInv'
<1> SUFFICES ASSUME IInv, [Next]_vars PROVE IInv'
  OBVIOUS
<1>1. CASE CreateBook
  BY <1>1, CreateBookInvariant
<1>2. CASE DeleteBook
  BY <1>2, DeleteBookInvariant
<1>3. CASE ReplaceBook
  BY <1>3, ReplaceBookInvariant
<1>4. CASE \E g \in Node, i \in Index : CreatePart(g, i)
  BY <1>4, CreatePartInvariant
<1>5. CASE \E n \in Node : DeletePart(n)
  BY <1>5, DeletePartInvariant
<1>6. CASE \E h \in Handler, n, g \in Node : LoadForMove(h, n, g)
  BY <1>6, LoadForMoveInvariant
<1>7. CASE \E h \in Handler, i \in Index : MovePart(h, i)
  BY <1>7, MovePartInvariant
<1>8. CASE \E h \in Handler : RefuseMove(h)
  BY <1>8, RefuseMoveInvariant
<1>9. CASE UNCHANGED vars
  BY <1>9 DEF vars, IInv, TypeOK, PartsSound, TargetsAreGroups, Rows
<1> QED BY <1>1, <1>2, <1>3, <1>4, <1>5, <1>6, <1>7, <1>8, <1>9 DEF Next

LEMMA Invariance == Spec => []IInv
BY InitInvariant, StepInvariant, PTL DEF Spec

-----------------------------------------------------------------------------
(* Theorems *)

\* Rows and requests have their types whatever handlers do, in any order: an
\* index that would overflow or fall below zero is never committed.
THEOREM TypeCorrect == Spec => []TypeOK
<1>1. IInv => TypeOK
  BY DEF IInv
<1> QED BY <1>1, Invariance, PTL

\* Every part is in a part of the book that is no module, no two share a
\* place, and part 0 stays, however moves overlap with deletions: the kind of
\* the new parent, checked on a row read before the transaction, cannot be
\* stale, and the rest is checked when the transaction commits.
THEOREM PartsStaySound == Spec => []PartsSound
<1>1. IInv => PartsSound
  BY DEF IInv
<1> QED BY <1>1, Invariance, PTL

\* A move that goes through lands where it was asked to and reorders no two
\* other parts, wherever the part was when the request read it: the rows shift
\* by what was read, not by what is there, which keeps their order up to equal
\* places, and the constraint on places rejects every outcome in which two
\* parts would come to share one.
THEOREM MovesLandWhereAsked == Spec => []MovesWhereAsked
<1>1. ASSUME IInv PROVE MovesWhereAsked
  <2> SUFFICES ASSUME NEW h \in Handler, requests[h] # Null, NEW i \in Index,
                      NEW r, r = requests[h], NEW P, P = Reparent(parts, r, i),
                      parts[r.part] # Null, Allowed(P)
               PROVE  /\ LandsAt(P, r.part, r.target, i)
                      /\ OthersKeepOrder(P, r.part)
    BY DEF MovesWhereAsked
  <2>1. r \in Request /\ r.index \in Int /\ r.part \in Node
    <3>1. requests \in [Handler -> Request \cup {Null}]
      BY <1>1 DEF IInv, TypeOK
    <3>2. requests[h] \in Request
      BY <3>1
    <3> QED BY <3>2, BookAssumption DEF Request, Index
  <2>2. /\ Rows(P) = Rows(parts)
        /\ P[r.part].parent = r.target
        /\ \A n \in Rows(parts) \ {r.part} : P[n].parent = parts[n].parent
        /\ P[r.part].index = Filled(r, i)
        /\ \A q \in Siblings(parts, r.target) \ {r.part} :
              P[q].index = Filled(r, IF parts[q].index >= i
                                     THEN parts[q].index + 1
                                     ELSE parts[q].index)
        /\ \A a, b \in Rows(parts) \ {r.part} :
              parts[a].parent = parts[b].parent /\ parts[a].index < parts[b].index
              => P[a].index <= P[b].index
    BY <1>1, <2>1, PartsOutside, ReparentMoves
  <2>3. \A n \in Rows(parts) : parts[n].index \in Int
    BY <1>1, BookAssumption DEF IInv, TypeOK, PartRow, Index, Rows
  <2>4. \A n \in Rows(P) : P[n].index \in Int
    BY BookAssumption DEF Allowed, PartRow, Index, Rows
  <2>5. \A m, n \in Rows(P) :
           P[m].parent = P[n].parent /\ P[m].index = P[n].index => m = n
    BY DEF Allowed
  <2>6. ASSUME NEW q \in Siblings(parts, r.target) \ {r.part}
        PROVE  IF parts[q].index < i THEN P[q].index < P[r.part].index
                                     ELSE P[q].index > P[r.part].index
    <3>1. /\ q \in Rows(parts) /\ q # r.part /\ parts[q].parent = r.target
          /\ r.part \in Rows(parts)
      BY <2>1 DEF Siblings, IsIn, Rows
    <3>2. parts[q].index \in Int /\ i \in Int
      BY <2>3, <3>1, BookAssumption DEF Index
    <3>3. P[q].index # P[r.part].index
      BY <2>2, <2>5, <3>1
    <3> QED BY <2>1, <2>2, <3>2, <3>3 DEF Filled
  <2>7. ASSUME NEW a \in Rows(parts) \ {r.part},
               NEW b \in Rows(parts) \ {r.part},
               parts[a].parent = parts[b].parent,
               parts[a].index < parts[b].index
        PROVE  P[a].index < P[b].index
    <3>1. a \in Rows(P) /\ b \in Rows(P) /\ P[a].parent = P[b].parent
      BY <2>2, <2>7
    <3>2. P[a].index <= P[b].index
      BY <2>2, <2>7
    <3>3. P[a].index # P[b].index
      BY <2>3, <2>5, <2>7, <3>1
    <3> QED BY <2>4, <3>1, <3>2, <3>3
  <2>8. LandsAt(P, r.part, r.target, i)
    BY <2>2, <2>6 DEF LandsAt
  <2>9. OthersKeepOrder(P, r.part)
    BY <2>2, <2>7 DEF OthersKeepOrder
  <2> QED BY <2>8, <2>9
<1> QED BY <1>1, Invariance, PTL

-----------------------------------------------------------------------------
(***************************************************************************)
(* The tree.  A set that holds part 0 and is closed holds every part, and  *)
(* that is what it means that every part is below part 0.                  *)
(***************************************************************************)
Spanned(P) ==
    /\ P[Root] # Null /\ P[Root].parent = Root
    /\ \A T : Root \in T /\ IsClosed(P, T) => Rows(P) \subseteq T

LEMMA InTreeIsSpanned ==
  ASSUME NEW P, P # NoParts, P[Root] # Null
  PROVE  InTree(P) <=> Spanned(P)
<1> DEFINE B == Below(P, {Root})
<1>1. /\ B \subseteq Rows(P)
      /\ {Root} \cap Rows(P) \subseteq B
      /\ IsClosed(P, B)
      /\ \A T : {Root} \cap Rows(P) \subseteq T /\ IsClosed(P, T) => B \subseteq T
  BY BelowIsLeastClosed
<1>2. Root \in Rows(P)
  BY BookAssumption DEF Rows
<1>3. InTree(P) <=> P[Root].parent = Root /\ Rows(P) = B
  BY DEF InTree
<1> HIDE DEF B
<1>4. ASSUME Rows(P) = B, NEW T, Root \in T, IsClosed(P, T)
      PROVE  Rows(P) \subseteq T
  BY <1>1, <1>4
<1>5. ASSUME \A T : Root \in T /\ IsClosed(P, T) => Rows(P) \subseteq T
      PROVE  Rows(P) = B
  BY <1>1, <1>2, <1>5
<1> QED BY <1>3, <1>4, <1>5 DEF Spanned

\* A tree put into a row of a book that hangs together leaves it so.
LEMMA CreateTreeSpanned ==
  ASSUME NEW P \in WideRows, Spanned(P), NEW g \in Rows(P), NEW i \in Int,
         NEW tree, IsNewTree(P, tree)
  PROVE  Spanned(CreateTree(P, g, i, tree))
<1> DEFINE Q == CreateTree(P, g, i, tree)
<1>1. AddsTree(P, Q, g, tree)
  BY CreateTreeAdds DEF Rows
<1> HIDE DEF Q
<1>2. Root \in Rows(P)
  BY BookAssumption DEF Spanned, Rows
<1>3. Q[Root] # Null /\ Q[Root].parent = Root
  BY <1>1, <1>2 DEF AddsTree, Spanned, Rows
<1>4. ASSUME NEW T, Root \in T, IsClosed(Q, T)
      PROVE  Rows(Q) \subseteq T
  <2>1. IsClosed(P, T)
    BY <1>1, <1>4 DEF IsClosed, AddsTree
  <2>2. Rows(P) \subseteq T
    BY <1>4, <2>1 DEF Spanned
  <2>3. tree.node \in T
    BY <1>1, <1>4, <2>2 DEF AddsTree, IsClosed
  <2>4. \A k \in 1..Len(tree.kids) : tree.kids[k] \in T
    BY <1>1, <1>4, <2>3 DEF AddsTree, IsClosed
  <2> QED BY <1>1, <2>2, <2>3, <2>4 DEF AddsTree
<1>5. Spanned(Q)
  BY <1>3, <1>4 DEF Spanned
<1> QED BY <1>5 DEF Q

LEMMA CreateAtSpanned ==
  ASSUME NEW P \in WideRows, Spanned(P), NEW g \in Rows(P), NEW i \in Int,
         NEW n \in Node \ Rows(P)
  PROVE  Spanned(CreateAt(P, n, g, i))
<1> DEFINE Q == CreateAt(P, n, g, i)
<1>1. AddsRow(P, Q, n, g)
  BY CreateAtAdds DEF Rows
<1> HIDE DEF Q
<1>2. Root \in Rows(P) /\ n # Root
  BY BookAssumption DEF Spanned, Rows
<1>3. Q[Root] # Null /\ Q[Root].parent = Root
  BY <1>1, <1>2 DEF AddsRow, Spanned, Rows
<1>4. ASSUME NEW T, Root \in T, IsClosed(Q, T)
      PROVE  Rows(Q) \subseteq T
  <2>1. IsClosed(P, T)
    BY <1>1, <1>4 DEF IsClosed, AddsRow, Rows
  <2>2. Rows(P) \subseteq T
    BY <1>4, <2>1 DEF Spanned
  <2>3. n \in T
    BY <1>1, <1>4, <2>2 DEF AddsRow, IsClosed, Rows
  <2> QED BY <1>1, <2>2, <2>3 DEF AddsRow, Rows
<1>5. Spanned(Q)
  BY <1>3, <1>4 DEF Spanned
<1> QED BY <1>5 DEF Q

\* So does taking away rows with all that is below them, but for part 0.
LEMMA DeleteSpanned ==
  ASSUME NEW P \in WideRows, Spanned(P), NEW S, NEW Q,
         Q = DeleteRows(P, Below(P, S)), Q[Root] # Null
  PROVE  Spanned(Q)
<1> DEFINE B == Below(P, S)
<1>1. IsClosed(P, B)
  BY BelowIsLeastClosed
<1>2. \A n \in Node : Q[n] = IF n \in B THEN Null ELSE P[n]
  BY DEF DeleteRows
<1> HIDE DEF B
<1>3. Q[Root].parent = Root
  BY <1>2, BookAssumption DEF Spanned
<1>4. ASSUME NEW T, Root \in T, IsClosed(Q, T)
      PROVE  Rows(Q) \subseteq T
  <2>1. IsClosed(P, T \cup B)
    BY <1>1, <1>2, <1>4 DEF IsClosed, Rows
  <2>2. Rows(P) \subseteq T \cup B
    BY <1>4, <2>1 DEF Spanned
  <2> QED BY <1>2, <2>2 DEF Rows
<1> QED BY <1>3, <1>4 DEF Spanned

\* So does moving a part, unless it is moved to somewhere below itself.
LEMMA ReparentSpanned ==
  ASSUME NEW P \in WideRows, Spanned(P), NEW r \in Request, NEW i \in Index,
         P[r.part] # Null, P[r.target] # Null,
         r.target \notin Below(P, {r.part})
  PROVE  Spanned(Reparent(P, r, i))
<1> DEFINE Q == Reparent(P, r, i)  B == Below(P, {r.part})
<1>1. r.part \in Rows(P) /\ r.target \in Rows(P) /\ Root \in Rows(P)
  BY BookAssumption DEF Request, Rows, Spanned
<1>2. /\ Rows(Q) = Rows(P)
      /\ Q[r.part].parent = r.target
      /\ \A n \in Rows(P) \ {r.part} : Q[n].parent = P[n].parent
  BY ReparentMoves
<1>3. /\ {r.part} \cap Rows(P) \subseteq B
      /\ IsClosed(P, B)
      /\ \A T : {r.part} \cap Rows(P) \subseteq T /\ IsClosed(P, T) => B \subseteq T
  BY BelowIsLeastClosed
<1>4. r.target \notin B
  OBVIOUS
<1> HIDE DEF Q, B
<1>5. r.part # Root
  <2>1. SUFFICES ASSUME r.part = Root PROVE FALSE
    OBVIOUS
  <2>2. Root \in B
    BY <1>1, <1>3, <2>1
  <2>3. Rows(P) \subseteq B
    BY <1>3, <2>2 DEF Spanned
  <2> QED BY <1>1, <1>4, <2>3
<1>6. Q[Root] # Null /\ Q[Root].parent = Root
  BY <1>1, <1>2, <1>5 DEF Spanned, Rows
<1>7. ASSUME NEW T, Root \in T, IsClosed(Q, T)
      PROVE  Rows(Q) \subseteq T
  <2>1. IsClosed(P, T \cup B)
    BY <1>1, <1>2, <1>3, <1>7 DEF IsClosed
  <2>2. Rows(P) \subseteq T \cup B
    BY <1>7, <2>1 DEF Spanned
  <2>3. r.part \in T
    BY <1>1, <1>2, <1>4, <1>7, <2>2 DEF IsClosed
  <2>4. IsClosed(P, T)
    BY <1>2, <1>7, <2>3 DEF IsClosed
  <2> QED BY <1>2, <1>7, <2>4 DEF Spanned
<1>8. Spanned(Q)
  BY <1>6, <1>7 DEF Spanned
<1> QED BY <1>8 DEF Q

\* The rows a request moves are rows of the book, and so is where they go.
LEMMA MoveIsBetweenRows ==
  ASSUME IInv, NEW h \in Handler, NEW i \in Index, MovePart(h, i)
  PROVE  /\ requests[h] \in Request
         /\ parts[requests[h].part] # Null
         /\ parts[requests[h].target] # Null
<1> DEFINE r == requests[h]  Q == Reparent(parts, r, i)
<1>1. r \in Request /\ parts[r.part] # Null /\ Allowed(Q)
  BY DEF MovePart, IInv, TypeOK, Commit
<1> HIDE DEF r
<1>2. /\ Rows(Q) = Rows(parts)
      /\ Q[r.part].parent = r.target
  BY <1>1, PartsOutside, ReparentMoves
<1> HIDE DEF Q
<1>3. r.part \in Rows(Q) /\ r.target \in Node
  BY <1>1, <1>2 DEF Request, Rows
<1>4. r.target \in Rows(Q)
  BY <1>1, <1>2, <1>3 DEF Allowed, Rows
<1> QED BY <1>1, <1>2, <1>4 DEF Rows, r

LEMMA ReplaceBookSpanned ==
  ASSUME IInv, Spanned(parts), ReplaceBook
  PROVE  Spanned(parts')
<1> DEFINE S == Siblings(parts, Root) \ {Root}  P == Clear(parts)
<1>1. /\ P \in WideRows
      /\ Rows(P) \subseteq Rows(parts)
  BY ClearKeeps
<1>2. P = DeleteRows(parts, Below(parts, S))
  BY DEF Clear
<1>3. \A n \in Fresh : n \in Node \ Rows(P)
  BY <1>1 DEF Fresh
<1>4. \/ Commit(P)
      \/ \E tree \in NewTrees : Commit(CreateTree(P, Root, 0, tree))
      \/ \E m, n \in Fresh : m # n /\ Commit(CreateAt(CreateAt(P, m, Root, 0), n, Root, 1))
  BY DEF ReplaceBook
<1>5. P[Root] # Null
  <2> SUFFICES Root \notin Below(parts, S)
    BY <1>2, BookAssumption DEF DeleteRows, Spanned
  <2> DEFINE T == Rows(parts) \ {Root}
  <2>1. IsClosed(parts, T)
    BY DEF IsClosed, Spanned
  <2>2. S \cap Rows(parts) \subseteq T
    OBVIOUS
  <2> HIDE DEF T, S
  <2>3. Below(parts, S) \subseteq T
    BY <2>1, <2>2, BelowIsLeastClosed
  <2> QED BY <2>3 DEF T
<1> HIDE DEF P, S
<1>6. Spanned(P) /\ Root \in Rows(P)
  BY <1>2, <1>5, PartsOutside, DeleteSpanned, BookAssumption DEF Rows
<1>7. CASE Commit(P)
  BY <1>6, <1>7 DEF Commit
<1>8. ASSUME NEW tree \in NewTrees, Commit(CreateTree(P, Root, 0, tree))
      PROVE  Spanned(parts')
  <2>1. IsNewTree(P, tree)
    BY <1>1, NewTreesAreNew DEF IsNewTree
  <2> QED BY <1>1, <1>6, <1>8, <2>1, CreateTreeSpanned DEF Commit
<1>9. ASSUME NEW m \in Fresh, NEW n \in Fresh, m # n,
             Commit(CreateAt(CreateAt(P, m, Root, 0), n, Root, 1))
      PROVE  Spanned(parts')
  <2> DEFINE Q == CreateAt(P, m, Root, 0)
  <2>1. Q \in WideRows /\ AddsRow(P, Q, m, Root)
    BY <1>1, <1>3, BookAssumption, CreateAtAdds
  <2>2. Spanned(Q)
    BY <1>1, <1>3, <1>6, CreateAtSpanned
  <2> HIDE DEF Q
  <2>3. n \in Node \ Rows(Q) /\ Root \in Rows(Q)
    BY <1>3, <1>6, <1>9, <2>1, <2>2, BookAssumption DEF AddsRow, Rows, Spanned
  <2>4. Spanned(CreateAt(Q, n, Root, 1))
    BY <2>1, <2>2, <2>3, CreateAtSpanned
  <2> QED BY <1>9, <2>4 DEF Commit, Q
<1> QED BY <1>4, <1>7, <1>8, <1>9

\* No edit, and no overlap of edits, cuts a part off from part 0 but the move
\* of a part to somewhere below itself: what the update handler does not rule
\* out is the only thing that can go wrong.
THEOREM OnlySuchMovesCutOff == Spec => OnlyMovingBelowItselfCutsOff
<1> DEFINE Body ==
        parts' # parts /\ InTree(parts) /\ ~InTree(parts') =>
            \E h \in Handler :
                /\ requests[h] # Null /\ requests'[h] = Null
                /\ requests[h].target \in Below(parts, {requests[h].part})
<1>1. IInv /\ [Next]_vars => [Body]_vars
  <2> SUFFICES ASSUME IInv, Next, parts' # parts, InTree(parts), ~InTree(parts')
               PROVE  \E h \in Handler :
                        /\ requests[h] # Null /\ requests'[h] = Null
                        /\ requests[h].target \in Below(parts, {requests[h].part})
    OBVIOUS
  <2>1. parts \in WideRows
    BY PartsOutside
  <2>2. IInv'
    BY StepInvariant
  <2>3. parts' # NoParts
    BY DEF InTree
  <2>4. parts'[Root] # Null
    BY <2>2, <2>3 DEF IInv, PartsSound
  <2>5. ~Spanned(parts')
    BY <2>3, <2>4, InTreeIsSpanned
  <2>6. CASE parts = NoParts
    <3>1. \A n \in Node : parts[n] = Null
      BY <2>6 DEF NoParts
    <3>2. CreateBook
      BY <3>1, <2>6, BookAssumption DEF Next, DeleteBook, ReplaceBook, CreatePart,
         DeletePart, LoadForMove, MovePart, RefuseMove, Commit
    <3>3. /\ Rows(parts') = {Root}
          /\ parts'[Root].parent = Root
      BY <2>4, <3>2, BookAssumption DEF CreateBook, NoParts, Rows
    <3> QED BY <2>4, <2>5, <3>3 DEF Spanned
  <2>7. CASE parts # NoParts
    <3>1. parts[Root] # Null
      BY <2>7 DEF IInv, PartsSound
    <3>2. Spanned(parts)
      BY <2>7, <3>1, InTreeIsSpanned
    <3>3. CASE CreateBook
      BY <2>7, <3>3 DEF CreateBook
    <3>4. CASE DeleteBook
      BY <2>3, <3>4 DEF DeleteBook
    <3>5. CASE ReplaceBook
      BY <2>5, <3>2, <3>5, ReplaceBookSpanned
    <3>6. ASSUME NEW g \in Node, NEW i \in Index, CreatePart(g, i)
          PROVE  FALSE
      <4>1. g \in Rows(parts) /\ i \in Int
        BY <3>6, BookAssumption DEF CreatePart, Rows, Index
      <4>2. PICK tree \in NewTrees : parts' = CreateTree(parts, g, i, tree)
        BY <3>6 DEF CreatePart, Commit
      <4> QED BY <2>1, <2>5, <3>2, <4>1, <4>2, NewTreesAreNew, CreateTreeSpanned
    <3>7. ASSUME NEW n \in Node, DeletePart(n)
          PROVE  FALSE
      <4>1. parts' = DeleteRows(parts, Below(parts, {n}))
        BY <3>7 DEF DeletePart, Commit
      <4> QED BY <2>1, <2>4, <2>5, <3>2, <4>1, DeleteSpanned
    <3>8. ASSUME NEW h \in Handler, NEW i \in Index, MovePart(h, i)
          PROVE  /\ requests[h] # Null /\ requests'[h] = Null
                 /\ requests[h].target \in Below(parts, {requests[h].part})
      <4>1. /\ requests[h] \in Request
            /\ parts[requests[h].part] # Null
            /\ parts[requests[h].target] # Null
        BY <3>8, MoveIsBetweenRows
      <4>2. parts' = Reparent(parts, requests[h], i)
        BY <3>8 DEF MovePart, Commit
      <4>3. requests[h] # Null /\ requests'[h] = Null
        BY <3>8 DEF MovePart, IInv, TypeOK
      <4> QED BY <2>1, <2>5, <3>2, <4>1, <4>2, <4>3, ReparentSpanned
    <3>9. CASE \E h \in Handler :
                  (\E n, g \in Node : LoadForMove(h, n, g)) \/ RefuseMove(h)
      BY <3>9 DEF LoadForMove, RefuseMove
    <3> QED BY <3>3, <3>4, <3>5, <3>6, <3>7, <3>8, <3>9 DEF Next
  <2> QED BY <2>6, <2>7
<1> QED BY <1>1, Invariance, PTL DEF Spec, OnlyMovingBelowItselfCutsOff
-----------------------------------------------------------------------------
(***************************************************************************)
(* The outline.  GetParts lists a group by rising index because the rank   *)
(* of a part, how many of its siblings do not come after it, is a          *)
(* bijection from the group to 1, 2, ..., its size.                        *)
(***************************************************************************)
\* No two rows of a group have the same index.
PlacesDiffer(P) ==
    \A m, n \in Rows(P) :
        P[m].parent = P[n].parent /\ P[m].index = P[n].index => m = n

\* s is S by rising index.
IsInOrder(P, s, S) ==
    /\ s \in Seq(S)
    /\ \A n \in S : \E k \in DOMAIN s : s[k] = n
    /\ \A i, j \in DOMAIN s : P[s[i]].index < P[s[j]].index <=> i < j

LEMMA GetPartsInOrder ==
  ASSUME NEW P \in WideRows, PlacesDiffer(P), NEW g \in Node
  PROVE  IsInOrder(P, GetParts(P, g), Siblings(P, g) \ {g})
<1> DEFINE S == Siblings(P, g) \ {g}
           C == Cardinality(S)
           UpTo(n) == {m \in S : P[m].index <= P[n].index}
           rank == [n \in S |-> Cardinality(UpTo(n))]
           s == [k \in 1..C |-> CHOOSE n \in S : Cardinality(UpTo(n)) = k]
<1>1. GetParts(P, g) = s
  BY DEF GetParts
<1>2. IsFiniteSet(S) /\ C \in Nat
  <2>1. S \in SUBSET Node
    BY DEF Siblings
  <2> HIDE DEF S
  <2> QED BY <2>1, BookAssumption, FS_Subset, FS_CardinalityType
<1>3. /\ \A n \in S : P[n].index \in Int
      /\ \A m, n \in S : P[m].index = P[n].index => m = n
  BY DEF Siblings, IsIn, WideRows, WideRow, PlacesDiffer, Rows
<1> HIDE DEF S
<1>4. ASSUME NEW n \in S
      PROVE  /\ UpTo(n) \in SUBSET S /\ IsFiniteSet(UpTo(n))
             /\ Cardinality(UpTo(n)) \in 1..C
  <2>1. UpTo(n) \in SUBSET S /\ n \in UpTo(n)
    BY <1>3
  <2> HIDE DEF UpTo
  <2>2. IsFiniteSet(UpTo(n)) /\ Cardinality(UpTo(n)) <= C
    BY <1>2, <2>1, FS_Subset
  <2>3. Cardinality(UpTo(n)) \in Nat /\ Cardinality(UpTo(n)) # 0
    BY <2>1, <2>2, FS_CardinalityType, FS_EmptySet
  <2> QED BY <1>2, <2>1, <2>2, <2>3
<1>5. ASSUME NEW m \in S, NEW n \in S, P[m].index < P[n].index
      PROVE  Cardinality(UpTo(m)) < Cardinality(UpTo(n))
  <2>1. UpTo(m) \in SUBSET UpTo(n) /\ n \in UpTo(n) /\ n \notin UpTo(m)
    BY <1>3, <1>5
  <2>2. /\ IsFiniteSet(UpTo(n))
        /\ Cardinality(UpTo(m)) \in Int /\ Cardinality(UpTo(n)) \in Int
    BY <1>4
  <2> HIDE DEF UpTo
  <2>3. /\ Cardinality(UpTo(m)) <= Cardinality(UpTo(n))
        /\ Cardinality(UpTo(n)) = Cardinality(UpTo(m)) => UpTo(n) = UpTo(m)
    BY <2>1, <2>2, FS_Subset
  <2> QED BY <2>1, <2>2, <2>3
<1> HIDE DEF UpTo, C
<1>6. \A m, n \in S :
        /\ rank[m] \in 1..C
        /\ P[m].index < P[n].index <=> rank[m] < rank[n]
        /\ rank[m] = rank[n] => m = n
  <2> SUFFICES ASSUME NEW m \in S, NEW n \in S
               PROVE  /\ rank[m] \in 1..C
                      /\ P[m].index < P[n].index <=> rank[m] < rank[n]
                      /\ rank[m] = rank[n] => m = n
    OBVIOUS
  <2>1. /\ rank[m] = Cardinality(UpTo(m)) /\ rank[n] = Cardinality(UpTo(n))
        /\ rank[m] \in 1..C /\ rank[n] \in 1..C
    BY <1>4
  <2>2. P[m].index \in Int /\ P[n].index \in Int
    BY <1>3
  <2> HIDE DEF rank
  <2>3. CASE P[m].index < P[n].index
    BY <1>5, <2>1, <2>2, <2>3
  <2>4. CASE P[n].index < P[m].index
    BY <1>5, <2>1, <2>2, <2>4
  <2>5. CASE P[m].index = P[n].index
    BY <1>3, <2>1, <2>2, <2>5
  <2> QED BY <2>2, <2>3, <2>4, <2>5
<1>7. \A k \in 1..C : \E n \in S : rank[n] = k
  <2>1. rank \in Injection(S, 1..C)
    <3>1. rank \in [S -> 1..C]
      BY <1>4
    <3> HIDE DEF rank
    <3> QED BY <1>6, <3>1 DEF Injection, IsInjective
  <2>2. IsFiniteSet(1..C) /\ Cardinality(1..C) = C
    BY <1>2, FS_Interval
  <2>3. rank \in Surjection(S, 1..C)
    <3> HIDE DEF rank
    <3> QED BY <2>1, <2>2, FS_Injection DEF C
  <2> HIDE DEF rank
  <2> QED BY <2>3 DEF Surjection
<1>8. \A k \in 1..C : s[k] \in S /\ rank[s[k]] = k
  <2> SUFFICES ASSUME NEW k \in 1..C PROVE s[k] \in S /\ rank[s[k]] = k
    OBVIOUS
  <2>1. \E n \in S : Cardinality(UpTo(n)) = k
    BY <1>7
  <2>2. s[k] \in S /\ Cardinality(UpTo(s[k])) = k
    BY <2>1
  <2> QED BY <2>2
<1>9. DOMAIN s = 1..C /\ s \in Seq(S)
  <2>1. s \in [1..C -> S]
    BY <1>8
  <2> HIDE DEF s
  <2> QED BY <1>2, <2>1
<1> HIDE DEF s, rank
<1>10. \A n \in S : \E k \in DOMAIN s : s[k] = n
  BY <1>6, <1>8, <1>9
<1>11. \A i, j \in DOMAIN s : P[s[i]].index < P[s[j]].index <=> i < j
  BY <1>6, <1>8, <1>9
<1> QED BY <1>1, <1>9, <1>10, <1>11 DEF IsInOrder, S

Contents(P) == [g \in Node |-> GetParts(P, g)]

\* What the contents of sound rows are.
LEMMA ContentsInOrder ==
  ASSUME NEW P \in WideRows, PlacesDiffer(P), NEW g \in Node
  PROVE  /\ Contents(P)[g] \in Seq(Rows(P))
         /\ ToSet(Contents(P)[g]) = Siblings(P, g) \ {g}
         /\ IsInjective(Contents(P)[g])
         /\ \A i, j \in DOMAIN Contents(P)[g] :
                P[Contents(P)[g][i]].index < P[Contents(P)[g][j]].index <=> i < j
<1> DEFINE s == Contents(P)[g]  S == Siblings(P, g) \ {g}
<1>1. IsInOrder(P, s, S)
  BY GetPartsInOrder DEF Contents
<1>2. S \subseteq Rows(P)
  BY DEF Siblings, IsIn, Rows
<1> HIDE DEF s, S
<1>3. ToSet(s) = S
  BY <1>1 DEF IsInOrder, ToSet
<1>4. IsInjective(s)
  <2> SUFFICES ASSUME NEW i \in DOMAIN s, NEW j \in DOMAIN s, s[i] = s[j]
               PROVE  i = j
    BY DEF IsInjective
  <2>1. i \in Int /\ j \in Int
    BY <1>1 DEF IsInOrder
  <2>2. ~(i < j) /\ ~(j < i)
    BY <1>1, <2>1 DEF IsInOrder
  <2> QED BY <2>1, <2>2
<1> QED BY <1>1, <1>2, <1>3, <1>4 DEF IsInOrder, s, S
\* Sound rows list no part twice.
LEMMA PartsListedOnce ==
  ASSUME NEW P \in WideRows, PlacesDiffer(P),
         \A n \in Rows(P) : P[n].parent \in Rows(P)
  PROVE  O!ListedOnce(Rows(P), Contents(P))
<1> DEFINE c == Contents(P)
<1>1. \A g \in Node : /\ c[g] \in Seq(Rows(P)) /\ IsInjective(c[g])
                      /\ ToSet(c[g]) = Siblings(P, g) \ {g}
  BY ContentsInOrder
<1>2. DOMAIN c = Node /\ c = [g \in Node |-> c[g]]
  BY DEF Contents
<1> HIDE DEF c
<1>3. c \in [Node -> Seq(Rows(P))]
  BY <1>1, <1>2
<1>4. ASSUME NEW g \in Node \ Rows(P) PROVE c[g] = <<>>
  <2>1. Siblings(P, g) = {}
    BY DEF Siblings, IsIn, Rows
  <2>2. c[g] \in Seq(Rows(P)) /\ Len(c[g]) \in Nat /\ DOMAIN c[g] = 1..Len(c[g])
    BY <1>1
  <2>3. ToSet(c[g]) = {}
    BY <1>1, <2>1
  <2>4. ~(1 \in DOMAIN c[g])
    BY <2>3 DEF ToSet
  <2>5. Len(c[g]) = 0
    BY <2>2, <2>4
  <2> QED BY <2>2, <2>5
<1>5. ASSUME NEW n \in Rows(P), NEW g \in O!Listed(c, n)
      PROVE  g = P[n].parent
  <2>1. g \in Node /\ n \in ToSet(c[g])
    BY <1>2 DEF O!Listed, O!ToSet, ToSet
  <2> QED BY <1>1, <2>1 DEF Siblings, IsIn
<1>6. \A g \in Node : O!IsInjective(c[g])
  BY <1>1 DEF O!IsInjective, IsInjective
<1> QED BY <1>3, <1>4, <1>5, <1>6 DEF O!ListedOnce, c

\* A group whose rows outside S are the same in P and Q, in the same order, is
\* listed in the same order but for S.
LEMMA SameOrder ==
  ASSUME NEW P \in WideRows, PlacesDiffer(P), NEW Q \in WideRows, PlacesDiffer(Q),
         NEW S, NEW g \in Node,
         \A n \in Node \ S : IsIn(P, n, g) <=> IsIn(Q, n, g),
         KeepsIndices(P, Q, Rows(P) \ S)
  PROVE  /\ ToSet(Contents(P)[g]) \ S = ToSet(Contents(Q)[g]) \ S
         /\ \A i, j \in DOMAIN Contents(P)[g] :
                i < j /\ Contents(P)[g][i] \notin S /\ Contents(P)[g][j] \notin S
                => O!Before(Contents(Q)[g], Contents(P)[g][i], Contents(P)[g][j])
<1> DEFINE old == Contents(P)[g]  new == Contents(Q)[g]
<1>1. /\ ToSet(old) = Siblings(P, g) \ {g}
      /\ \A i, j \in DOMAIN old : P[old[i]].index < P[old[j]].index <=> i < j
  BY ContentsInOrder
<1>2. /\ ToSet(new) = Siblings(Q, g) \ {g}
      /\ \A i, j \in DOMAIN new : Q[new[i]].index < Q[new[j]].index <=> i < j
  BY ContentsInOrder
<1> HIDE DEF old, new
<1>3. ToSet(old) \ S = ToSet(new) \ S
  BY <1>1, <1>2 DEF Siblings
<1>4. ASSUME NEW i \in DOMAIN old, NEW j \in DOMAIN old,
             i < j, old[i] \notin S, old[j] \notin S
      PROVE  O!Before(new, old[i], old[j])
  <2>1. old[i] \in ToSet(old) \ S /\ old[j] \in ToSet(old) \ S
    BY <1>4 DEF ToSet
  <2>2. PICK k \in DOMAIN new : new[k] = old[i]
    BY <1>3, <2>1 DEF ToSet
  <2>3. PICK l \in DOMAIN new : new[l] = old[j]
    BY <1>3, <2>1 DEF ToSet
  <2>4. /\ old[i] \in Rows(P) \ S /\ old[j] \in Rows(P) \ S
        /\ P[old[i]].parent = P[old[j]].parent
    BY <1>1, <2>1 DEF Siblings, IsIn, Rows
  <2>5. Q[new[k]].index < Q[new[l]].index
    BY <1>1, <1>4, <2>2, <2>3, <2>4 DEF KeepsIndices
  <2> QED BY <1>2, <2>2, <2>3, <2>5 DEF O!Before
<1> QED BY <1>3, <1>4 DEF old, new

\* What the invariant says of the rows, for the outline.
LEMMA PartsOrdered ==
  ASSUME IInv
  PROVE  /\ parts \in WideRows /\ PlacesDiffer(parts)
         /\ \A n \in Rows(parts) : parts[n].parent \in Rows(parts)
         /\ O!ListedOnce(Rows(parts), Contents(parts))
<1>1. /\ parts \in WideRows /\ PlacesDiffer(parts)
      /\ \A n \in Rows(parts) : parts[n].parent \in Rows(parts)
  BY PartsAreWide DEF IInv, PartsSound, PlacesDiffer
<1> QED BY <1>1, PartsListedOnce

LEMMA PartsOrderedAfter ==
  ASSUME IInv'
  PROVE  /\ parts' \in WideRows /\ PlacesDiffer(parts')
         /\ \A n \in Rows(parts') : parts'[n].parent \in Rows(parts')
         /\ O!ListedOnce(Rows(parts'), Contents(parts'))
<1>1. parts' \in WideRows
  BY NullIsNoRow DEF IInv, TypeOK
<1>2. PlacesDiffer(parts') /\ \A n \in Rows(parts') : parts'[n].parent \in Rows(parts')
  BY DEF IInv, PartsSound, PlacesDiffer, Rows
<1> QED BY <1>1, <1>2, PartsListedOnce

\* A step that takes away the rows B, with all that is below them, and adds
\* rows F, and leaves all others where they are, is an edit of the outline.
LEMMA EditStep ==
  ASSUME IInv, IInv', NEW B \in SUBSET Rows(parts), NEW F \in SUBSET Node,
         F \cap Rows(parts) = {},
         Root \in Rows(parts) /\ Root \in Rows(parts'),
         IsClosed(parts, B),
         Rows(parts') = (Rows(parts) \ B) \cup F,
         \A n \in Rows(parts) \ B : parts'[n].parent = parts[n].parent,
         KeepsIndices(parts, parts', Rows(parts) \ B),
         \A n \in F : parts'[n].parent # n
  PROVE  O!Gone = B /\ O!New = F /\ O!Edit
<1>1. O!Gone = B /\ O!New = F
  BY DEF O!Gone, O!New, Rows
<1>2. /\ parts \in WideRows /\ PlacesDiffer(parts)
      /\ \A n \in Rows(parts) : parts[n].parent \in Rows(parts)
  BY PartsOrdered
<1>3. /\ parts' \in WideRows /\ PlacesDiffer(parts')
      /\ \A n \in Rows(parts') : parts'[n].parent \in Rows(parts')
      /\ O!ListedOnce(Rows(parts'), Contents(parts'))
  BY PartsOrderedAfter
<1>4. O!Closed(B)
  <2> SUFFICES ASSUME NEW n \in B PROVE O!ToSet(Contents(parts)[n]) \subseteq B
    BY DEF O!Closed, Contents
  <2>1. ToSet(Contents(parts)[n]) = Siblings(parts, n) \ {n}
    BY <1>2, ContentsInOrder DEF Rows
  <2>2. Siblings(parts, n) \subseteq B
    BY DEF IsClosed, Siblings, IsIn, Rows
  <2> QED BY <2>1, <2>2 DEF O!ToSet, ToSet
<1>5. O!KeepsOrder(Contents(parts), Contents(parts'), B \cup F)
  <2> SUFFICES ASSUME NEW g \in Rows(parts) \cap Rows(parts')
        PROVE  LET old == Contents(parts)  new == Contents(parts') IN
               /\ O!ToSet(old[g]) \ (B \cup F) = O!ToSet(new[g]) \ (B \cup F)
               /\ \A i, j \in DOMAIN old[g] :
                    i < j /\ old[g][i] \notin B \cup F /\ old[g][j] \notin B \cup F
                    => O!Before(new[g], old[g][i], old[g][j])
    BY DEF O!KeepsOrder, Rows
  <2>1. \A n \in Node \ (B \cup F) : IsIn(parts, n, g) <=> IsIn(parts', n, g)
    BY DEF IsIn, Rows
  <2>2. KeepsIndices(parts, parts', Rows(parts) \ (B \cup F))
    BY DEF KeepsIndices
  <2>3. g \in Node
    BY DEF Rows
  <2> QED BY <1>2, <1>3, <2>1, <2>2, <2>3, SameOrder DEF O!ToSet, ToSet
<1>6. ASSUME NEW n \in F PROVE O!Listed(Contents(parts'), n) # {}
  <2>1. /\ n \in Rows(parts') /\ parts'[n].parent \in Rows(parts')
        /\ parts'[n].parent # n
    BY <1>3
  <2> DEFINE g == parts'[n].parent
  <2>2. g \in Node /\ n \in Siblings(parts', g) \ {g}
    BY <2>1 DEF Siblings, IsIn, Rows
  <2> HIDE DEF g
  <2>3. n \in O!ToSet(Contents(parts')[g])
    BY <1>3, <2>2, ContentsInOrder DEF O!ToSet, ToSet
  <2>4. DOMAIN Contents(parts') = Node
    BY DEF Contents
  <2> QED BY <2>2, <2>3, <2>4 DEF O!Listed
<1>7. O!ListedOnce(Rows(parts'), Contents(parts')) <=>
        O!ListedOnce(Rows(parts)', [g \in Node |-> GetParts(parts, g)]')
  BY DEF Contents
<1>8. O!KeepsOrder(Contents(parts), Contents(parts'), B \cup F) <=>
        O!KeepsOrder([g \in Node |-> GetParts(parts, g)],
                     [g \in Node |-> GetParts(parts, g)]', O!Gone \cup O!New)
  BY <1>1 DEF Contents
<1>9. \A n \in O!New : O!Listed([g \in Node |-> GetParts(parts, g)]', n) # {}
  BY <1>1, <1>6 DEF Contents
<1> QED BY <1>1, <1>3, <1>4, <1>5, <1>7, <1>8, <1>9 DEF O!Edit

\* A book of no part, or of part 0 in itself, lists nothing.
LEMMA NothingListed ==
  ASSUME NEW P \in WideRows, \A n \in Rows(P) : P[n].parent = n
  PROVE  Contents(P) = [n \in Node |-> <<>>]
<1> SUFFICES ASSUME NEW g \in Node PROVE GetParts(P, g) = <<>>
  BY DEF Contents
<1>1. Siblings(P, g) \ {g} = {}
  BY DEF Siblings, IsIn, Rows
<1>2. PlacesDiffer(P)
  BY DEF PlacesDiffer
<1> DEFINE s == GetParts(P, g)
<1>3. s \in Seq({})
  BY <1>1, <1>2, GetPartsInOrder DEF IsInOrder
<1> HIDE DEF s
<1>4. Len(s) = 0
  BY <1>3
<1>5. s = <<>>
  BY <1>3, <1>4
<1> QED BY <1>5 DEF s

LEMMA CreateBookStep == IInv /\ CreateBook => O!Next
<1> SUFFICES ASSUME IInv, CreateBook PROVE O!Next
  OBVIOUS
<1>1. IInv' /\ parts \in WideRows /\ parts' \in WideRows
  BY CreateBookInvariant, PartsOrdered, PartsOrderedAfter
<1>2. Rows(parts) = {}
  BY DEF CreateBook, NoParts, Rows
<1> DEFINE row == [parent |-> Root, index |-> 0]
<1>3. row # Null /\ row.parent = Root
  BY BookAssumption DEF PartRow, Index
<1>4. parts' = [n \in Node |-> IF n = Root THEN row ELSE Null]
  BY BookAssumption DEF CreateBook, NoParts
<1> HIDE DEF row
<1>5. Rows(parts') = {Root} /\ parts'[Root].parent = Root
  BY <1>3, <1>4, BookAssumption DEF Rows
<1>6. Contents(parts) = Contents(parts')
  BY <1>1, <1>2, <1>5, NothingListed
<1>7. O!Create
  BY <1>2, <1>5, <1>6 DEF O!Create, Contents, Rows
<1> QED BY <1>7 DEF O!Next

LEMMA DeleteBookStep == IInv /\ DeleteBook => O!Next
<1> SUFFICES ASSUME IInv, DeleteBook PROVE O!Next
  OBVIOUS
<1>1. parts' \in WideRows
  BY DeleteBookInvariant, PartsOrderedAfter
<1>2. Rows(parts') = {}
  BY DEF DeleteBook, NoParts, Rows
<1>3. Contents(parts') = [n \in Node |-> <<>>]
  BY <1>1, <1>2, NothingListed
<1>4. O!Discard
  BY <1>2, <1>3 DEF O!Discard, Contents, Rows
<1> QED BY <1>4 DEF O!Next

\* What is below rows is taken away with them.
LEMMA DeleteRowsLeaves ==
  ASSUME NEW P \in WideRows, NEW S, NEW Q, Q = DeleteRows(P, Below(P, S))
  PROVE  /\ Below(P, S) \subseteq Rows(P) /\ IsClosed(P, Below(P, S))
         /\ Rows(Q) = Rows(P) \ Below(P, S)
         /\ \A n \in Rows(Q) : Q[n] = P[n]
<1> DEFINE B == Below(P, S)
<1>1. B \subseteq Rows(P) /\ IsClosed(P, B)
  BY BelowIsLeastClosed
<1> HIDE DEF B
<1>2. Q = [n \in Node |-> IF n \in B THEN Null ELSE P[n]]
  BY DEF DeleteRows, B
<1>3. Rows(Q) = Rows(P) \ B /\ \A n \in Rows(Q) : Q[n] = P[n]
  BY <1>2 DEF Rows
<1> QED BY <1>1, <1>3 DEF B

LEMMA DeletePartStep ==
  ASSUME IInv, NEW n \in Node, DeletePart(n)
  PROVE  O!Next
<1> DEFINE B == Below(parts, {n})
<1>1. parts \in WideRows /\ IInv'
  BY PartsOrdered, DeletePartInvariant
<1>2. parts' = DeleteRows(parts, B) /\ parts'[Root] # Null
  BY DEF DeletePart, Commit
<1>3. /\ B \in SUBSET Rows(parts) /\ IsClosed(parts, B)
      /\ Rows(parts') = Rows(parts) \ B
      /\ \A m \in Rows(parts') : parts'[m] = parts[m]
  BY <1>1, <1>2, DeleteRowsLeaves
<1>4. n \in B
  <2>1. n \in {n} \cap Rows(parts)
    BY DEF DeletePart, Rows
  <2> QED BY <2>1, BelowIsLeastClosed
<1> HIDE DEF B
<1>5. Root \in Rows(parts') /\ Root \in Rows(parts)
  BY <1>2, <1>3, BookAssumption DEF Rows
<1>6. KeepsIndices(parts, parts', Rows(parts) \ B)
  BY <1>3 DEF KeepsIndices
<1>7. \A m \in Rows(parts) \ B : parts'[m].parent = parts[m].parent
  BY <1>3
<1> DEFINE F == {}
<1>8. /\ F \in SUBSET Node /\ F \cap Rows(parts) = {}
      /\ Rows(parts') = (Rows(parts) \ B) \cup F
      /\ \A m \in F : parts'[m].parent # m
  BY <1>3
<1> HIDE DEF F
<1>9. O!Gone = B /\ O!New = F /\ O!Edit
  BY <1>1, <1>3, <1>5, <1>6, <1>7, <1>8, EditStep
<1> QED BY <1>4, <1>9 DEF O!Drop, O!Next, F

\* A new tree is an edit that adds its parts.
LEMMA AddsTreeStep ==
  ASSUME IInv, IInv', NEW P \in WideRows, NEW B \in SUBSET Rows(parts),
         IsClosed(parts, B), Rows(P) = Rows(parts) \ B,
         \A n \in Rows(P) : P[n] = parts[n],
         NEW g \in Rows(P), NEW tree \in NewTrees, AddsTree(P, parts', g, tree),
         Root \in Rows(P)
  PROVE  O!Gone = B /\ O!New # {} /\ O!Edit
<1> DEFINE F == {tree.node} \cup {tree.kids[k] : k \in 1..Len(tree.kids)}
<1>1. IsNewTree(parts, tree)
  BY NewTreesAreNew
<1>2. F \in SUBSET (Node \ Rows(parts)) /\ F # {}
  BY <1>1 DEF IsNewTree
<1>3. \A n \in F : parts'[n].parent # n
  <2>1. parts'[tree.node].parent = g /\ g # tree.node
    BY <1>1 DEF AddsTree, IsNewTree
  <2>2. \A k \in 1..Len(tree.kids) :
            parts'[tree.kids[k]].parent = tree.node /\ tree.kids[k] # tree.node
    BY <1>1 DEF AddsTree, IsNewTree
  <2> QED BY <2>1, <2>2
<1>4. /\ Rows(parts') = Rows(P) \cup F
      /\ \A n \in Rows(P) : parts'[n].parent = P[n].parent
      /\ KeepsIndices(P, parts', Rows(P))
  BY DEF AddsTree
<1> HIDE DEF F
<1>5. \A n \in Rows(parts) \ B : parts'[n].parent = parts[n].parent
  BY <1>4
<1>6. KeepsIndices(parts, parts', Rows(parts) \ B)
  BY <1>4 DEF KeepsIndices
<1>7. O!Gone = B /\ O!New = F /\ O!Edit
  BY <1>2, <1>3, <1>4, <1>5, <1>6, EditStep
<1> QED BY <1>2, <1>7

LEMMA CreatePartStep ==
  ASSUME IInv, NEW g \in Node, NEW i \in Index, CreatePart(g, i)
  PROVE  O!Next
<1>1. PICK tree \in NewTrees : Commit(CreateTree(parts, g, i, tree))
  BY DEF CreatePart
<1>2. /\ parts \in WideRows /\ IInv' /\ i \in Int
      /\ g \in Rows(parts) /\ Root \in Rows(parts)
  BY <1>1, PartsOrdered, CreatePartInvariant, BookAssumption
  DEF CreatePart, Commit, Rows, Index
<1>3. AddsTree(parts, parts', g, tree)
  BY <1>1, <1>2, NewTreesAreNew, CreateTreeAdds DEF Commit
<1>4. IsClosed(parts, {})
  BY DEF IsClosed
<1>5. O!Gone = {} /\ O!New # {} /\ O!Edit
  BY <1>2, <1>3, <1>4, AddsTreeStep
<1> QED BY <1>5 DEF O!Insert, O!Next

OutlineView == <<Rows(parts), [g \in Node |-> GetParts(parts, g)]>>

LEMMA ReplaceBookStep ==
  ASSUME IInv, ReplaceBook
  PROVE  O!Next \/ UNCHANGED OutlineView
<1> DEFINE S == Siblings(parts, Root) \ {Root}
           B == Below(parts, S)
           P == Clear(parts)
<1>1. /\ parts \in WideRows /\ PlacesDiffer(parts) /\ P \in WideRows /\ IInv'
  BY PartsOrdered, ClearKeeps, ReplaceBookInvariant
<1>2. /\ B \in SUBSET Rows(parts) /\ IsClosed(parts, B)
      /\ Rows(P) = Rows(parts) \ B
      /\ \A n \in Rows(P) : P[n] = parts[n]
  BY <1>1, DeleteRowsLeaves DEF Clear
<1>3. S \subseteq B
  <2>1. S \subseteq Rows(parts)
    BY DEF Siblings, IsIn, Rows
  <2>2. S \cap Rows(parts) \subseteq B
    BY BelowIsLeastClosed
  <2> QED BY <2>1, <2>2
<1>4. Root \in Rows(parts)
  BY BookAssumption DEF ReplaceBook, Rows
<1>5. O!ToSet([g \in Node |-> GetParts(parts, g)][Root]) = S
  <2>1. ToSet(Contents(parts)[Root]) = S
    BY <1>1, ContentsInOrder, BookAssumption
  <2> HIDE DEF S
  <2> QED BY <2>1, BookAssumption DEF O!ToSet, ToSet, Contents
<1>6. \/ Commit(P)
      \/ \E tree \in NewTrees : Commit(CreateTree(P, Root, 0, tree))
      \/ \E m, n \in Fresh : m # n /\ Commit(CreateAt(CreateAt(P, m, Root, 0), n, Root, 1))
  BY DEF ReplaceBook
<1>7. \A n \in Fresh : n \in Node \ Rows(parts) /\ n # Root
  BY DEF Fresh
<1>8. \A n \in Node : n \notin Rows(P) => P[n] = Null
  BY DEF Rows
<1>9. Root \in Node
  BY BookAssumption
<1> HIDE DEF P, B, S
<1>10. IsClosed(parts, B) /\ KeepsIndices(parts, P, Rows(P))
  BY <1>2 DEF KeepsIndices
<1>11. ASSUME Commit(P)
       PROVE  O!Next \/ UNCHANGED OutlineView
  <2>1. parts' = P /\ Root \in Rows(P)
    BY <1>9, <1>11 DEF Commit, Rows
  <2>2. CASE B = {}
    <3>1. \A n \in Node : P[n] = parts[n]
      BY <1>2, <1>8, <2>2 DEF Rows
    <3>2. P = parts
      BY <1>1, <3>1 DEF WideRows
    <3> QED BY <2>1, <3>2 DEF OutlineView
  <2>3. CASE B # {}
    <3> DEFINE F == {}
    <3>1. /\ F \in SUBSET Node /\ F \cap Rows(parts) = {}
          /\ Rows(parts') = (Rows(parts) \ B) \cup F
          /\ \A m \in F : parts'[m].parent # m
          /\ \A n \in Rows(parts) \ B : parts'[n].parent = parts[n].parent
          /\ KeepsIndices(parts, parts', Rows(parts) \ B)
      BY <1>2, <1>10, <2>1
    <3> HIDE DEF F
    <3>2. O!Gone = B /\ O!New = F /\ O!Edit
      BY <1>1, <1>2, <1>4, <2>1, <3>1, EditStep
    <3> QED BY <2>3, <3>2 DEF O!Drop, O!Next, F
  <2> QED BY <2>2, <2>3
<1>12. ASSUME O!Gone = B, O!New # {}, O!Edit
       PROVE  O!Next
  <2>1. CASE B = {}
    BY <1>12, <2>1 DEF O!Insert, O!Next
  <2>2. CASE B # {}
    BY <1>3, <1>5, <1>12, <2>2 DEF O!Replace, O!Next
  <2> QED BY <2>1, <2>2
<1>13. ASSUME NEW tree \in NewTrees, Commit(CreateTree(P, Root, 0, tree))
       PROVE  O!Next
  <2>1. IsNewTree(P, tree)
    BY <1>2, NewTreesAreNew DEF IsNewTree
  <2>2. AddsTree(P, parts', Root, tree)
    BY <1>1, <1>9, <1>13, <2>1, CreateTreeAdds DEF Commit
  <2>3. Root \in Rows(parts')
    BY <1>9, <1>13 DEF Commit, Rows
  <2>4. tree.node # Root /\ \A k \in 1..Len(tree.kids) : tree.kids[k] # Root
    BY <1>7, NewTreesAreNew
  <2>5. Root \in Rows(P)
    BY <2>2, <2>3, <2>4 DEF AddsTree
  <2> QED BY <1>1, <1>2, <1>12, <2>2, <2>5, AddsTreeStep
<1>14. ASSUME NEW m \in Fresh, NEW n \in Fresh, m # n,
              Commit(CreateAt(CreateAt(P, m, Root, 0), n, Root, 1))
       PROVE  O!Next
  <2> DEFINE Q == CreateAt(P, m, Root, 0)  F == {m, n}
  <2>1. /\ m \in Node \ Rows(parts) /\ m # Root
        /\ n \in Node \ Rows(parts) /\ n # Root
    BY <1>7
  <2>2. Q \in WideRows /\ AddsRow(P, Q, m, Root)
    BY <1>1, <1>9, <2>1, CreateAtAdds
  <2> HIDE DEF Q
  <2>3. parts' = CreateAt(Q, n, Root, 1) /\ Root \in Rows(parts')
    BY <1>9, <1>14 DEF Commit, Rows, Q
  <2>4. AddsRow(Q, parts', n, Root)
    BY <1>9, <2>1, <2>2, <2>3, CreateAtAdds
  <2>5. Rows(Q) = Rows(P) \cup {m} /\ Rows(parts') = Rows(Q) \cup {n}
    BY <2>1, <2>2, <2>4 DEF AddsRow, Rows
  <2>6. F \in SUBSET Node /\ F \cap Rows(parts) = {} /\ F # {}
    BY <2>1
  <2>7. Rows(parts') = (Rows(parts) \ B) \cup F /\ Root \in Rows(P)
    BY <1>2, <2>1, <2>3, <2>5
  <2>8. \A k \in F : parts'[k].parent # k
    BY <1>14, <2>1, <2>2, <2>4 DEF AddsRow
  <2>9. ASSUME NEW k \in Rows(parts) \ B PROVE parts'[k].parent = parts[k].parent
    <3>1. k \in Node /\ P[k] = parts[k] /\ P[k] # Null /\ k # m /\ k # n
      BY <1>2, <2>1 DEF Rows
    <3> QED BY <2>2, <2>4, <3>1 DEF AddsRow
  <2>10. ASSUME NEW a \in Rows(P), NEW b \in Rows(P),
                P[a].parent = P[b].parent, P[a].index < P[b].index
         PROVE  parts'[a].index < parts'[b].index
    <3>1. /\ a \in Node \ {m} /\ a # n /\ b \in Node \ {m} /\ b # n
          /\ P[a] # Null /\ P[b] # Null
      BY <1>2, <2>1 DEF Rows
    <3>2. /\ a \in Rows(P) \ {m} /\ b \in Rows(P) \ {m}
          /\ a \in Rows(Q) \ {n} /\ b \in Rows(Q) \ {n}
      BY <2>5, <3>1
    <3>3. Q[a].parent = Q[b].parent /\ Q[a].index < Q[b].index
      BY <2>2, <2>10, <3>1, <3>2 DEF AddsRow, KeepsIndices
    <3> QED BY <2>4, <3>2, <3>3 DEF AddsRow, KeepsIndices
  <2>11. KeepsIndices(parts, parts', Rows(parts) \ B)
    BY <1>2, <2>10 DEF KeepsIndices
  <2> HIDE DEF F
  <2>12. O!Gone = B /\ O!New = F /\ O!Edit
    BY <1>1, <1>2, <1>4, <2>3, <2>6, <2>7, <2>8, <2>9, <2>11, EditStep
  <2> QED BY <1>12, <2>6, <2>12
<1> QED BY <1>6, <1>11, <1>13, <1>14

LEMMA MovePartStep ==
  ASSUME IInv, NEW h \in Handler, NEW i \in Index, MovePart(h, i)
  PROVE  O!Next \/ UNCHANGED OutlineView
<1> DEFINE r == requests[h]
<1>1. r \in Request /\ parts[r.part] # Null /\ parts' = Reparent(parts, r, i)
  BY MoveIsBetweenRows DEF MovePart, Commit
<1> HIDE DEF r
<1>2. parts \in WideRows /\ PlacesDiffer(parts)
  BY PartsOrdered
<1>3. /\ parts' \in WideRows /\ PlacesDiffer(parts')
      /\ O!ListedOnce(Rows(parts'), Contents(parts'))
  BY MovePartInvariant, PartsOrderedAfter
<1>4. /\ Rows(parts') = Rows(parts)
      /\ \A n \in Rows(parts) \ {r.part} : parts'[n].parent = parts[n].parent
      /\ \A a, b \in Rows(parts) \ {r.part} :
            parts[a].parent = parts[b].parent /\ parts[a].index < parts[b].index
            => parts'[a].index <= parts'[b].index
  BY <1>1, <1>2, ReparentMoves
<1>5. r.part \in Rows(parts)
  BY <1>1 DEF Request, Rows
<1>6. \A n \in Node \ {r.part}, g \in Node : IsIn(parts, n, g) <=> IsIn(parts', n, g)
  BY <1>4 DEF IsIn, Rows
<1>7. ASSUME NEW a \in Rows(parts) \ {r.part}, NEW b \in Rows(parts) \ {r.part},
             parts[a].parent = parts[b].parent, parts[a].index < parts[b].index
      PROVE  parts'[a].index < parts'[b].index
  <2>1. /\ parts[a].index \in Int /\ parts[b].index \in Int
        /\ parts'[a].index \in Int /\ parts'[b].index \in Int
    BY <1>2, <1>3, <1>4 DEF WideRows, WideRow, Rows
  <2>2. a # b /\ parts'[a].parent = parts'[b].parent
    BY <1>4, <1>7, <2>1
  <2>3. parts'[a].index # parts'[b].index
    BY <1>3, <1>4, <2>2 DEF PlacesDiffer
  <2> QED BY <1>4, <1>7, <2>1, <2>3
<1>8. KeepsIndices(parts, parts', Rows(parts) \ {r.part})
  BY <1>7 DEF KeepsIndices
<1>9. O!KeepsOrder(Contents(parts), Contents(parts'), {r.part})
  <2> SUFFICES ASSUME NEW g \in Rows(parts) \cap Rows(parts')
        PROVE  LET old == Contents(parts)  new == Contents(parts') IN
               /\ O!ToSet(old[g]) \ {r.part} = O!ToSet(new[g]) \ {r.part}
               /\ \A j, k \in DOMAIN old[g] :
                    j < k /\ old[g][j] \notin {r.part} /\ old[g][k] \notin {r.part}
                    => O!Before(new[g], old[g][j], old[g][k])
    BY DEF O!KeepsOrder, Rows
  <2>1. g \in Node /\ \A n \in Node \ {r.part} : IsIn(parts, n, g) <=> IsIn(parts', n, g)
    BY <1>6 DEF Rows
  <2> QED BY <1>2, <1>3, <1>8, <2>1, SameOrder DEF O!ToSet, ToSet
<1>10. CASE Contents(parts') = Contents(parts)
  BY <1>4, <1>10 DEF Contents, OutlineView, Rows
<1>11. CASE Contents(parts') # Contents(parts)
  <2>1. Rows(parts)' = Rows(parts)
    BY <1>4 DEF Rows
  <2>2. [g \in Node |-> GetParts(parts, g)]' # [g \in Node |-> GetParts(parts, g)]
    BY <1>11 DEF Contents
  <2>3. \E n \in Rows(parts) :
            O!KeepsOrder([g \in Node |-> GetParts(parts, g)],
                         [g \in Node |-> GetParts(parts, g)]', {n})
    BY <1>5, <1>9 DEF Contents
  <2>4. O!ListedOnce(Rows(parts), [g \in Node |-> GetParts(parts, g)]')
    BY <1>3, <1>4 DEF Contents
  <2>5. O!Move
    BY <2>1, <2>2, <2>3, <2>4 DEF O!Move
  <2> QED BY <2>5 DEF O!Next
<1> QED BY <1>10, <1>11

LEMMA OutlineStep == IInv /\ [Next]_vars => [O!Next]_OutlineView
<1> SUFFICES ASSUME IInv, [Next]_vars PROVE O!Next \/ UNCHANGED OutlineView
  OBVIOUS
<1>1. ASSUME UNCHANGED parts PROVE UNCHANGED OutlineView
  BY <1>1 DEF OutlineView
<1>2. ASSUME NEW h \in Handler,
             (\E n, g \in Node : LoadForMove(h, n, g)) \/ RefuseMove(h)
      PROVE  UNCHANGED parts
  BY <1>2 DEF LoadForMove, RefuseMove
<1> QED BY <1>1, <1>2, CreateBookStep, DeleteBookStep, ReplaceBookStep, CreatePartStep,
           DeletePartStep, MovePartStep DEF Next, vars

\* Whatever handlers do, in any order, the outline that readers are shown only
\* changes by whole edits: parts with all that is below them go, new parts come,
\* or one part moves, and the order of all other parts stays.
THEOREM OutlineImplemented == Spec => ImplementsOutline
<1>1. Init => O!Init
  <2> SUFFICES ASSUME Init PROVE O!Init
    OBVIOUS
  <2>1. Rows(parts) = {} /\ parts \in WideRows
    BY DEF Init, NoParts, Rows, WideRows
  <2>2. Contents(parts) = [n \in Node |-> <<>>]
    BY <2>1, NothingListed
  <2> QED BY <2>1, <2>2 DEF O!Init, Contents
<1>2. IInv /\ [Next]_vars =>
        [O!Next]_<<Rows(parts), [g \in Node |-> GetParts(parts, g)]>>
  BY OutlineStep DEF OutlineView
<1> QED BY <1>1, <1>2, Invariance, PTL DEF Spec, O!Spec, ImplementsOutline
=============================================================================
