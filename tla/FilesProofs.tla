----------------------------- MODULE FilesProofs -----------------------------
(***************************************************************************)
(* Proofs about Files for every set of contents, names, archives and       *)
(* collections and every number of requests, documents and resources.      *)
(***************************************************************************)
EXTENDS Files, TLAPS, FiniteSetTheorems, WellFoundedInduction

All == Contents \cup {Empty}
Steps == {"look", "place", "fill", "insert"}

\* Requests that are under way.
Under(is, args) ==
    [is : {is}, stores : Seq(All), at : Steps, rows : SUBSET All, args : args,
     overtaken : BOOLEAN]
Uploads ==
    Under("upload", [file : Nat \X (Names \cup {Index}), content : Contents,
                     condition : Conditions])
Updates == Under("update", [file : Nat, content : Contents, condition : Conditions])
Adds == Under("add", [name : ResourceNames, parent : Nat \cup {Root}, file : Contents])
Modules == Under("module", [content : Contents])
Imports == Under("import", [archive : {a \in Archives : Indices(a) # {}}])
Loads == Under("collection", [collection : Collections])
Requested == Uploads \cup Updates \cup Adds \cup Modules \cup Imports \cup Loads

AllNames == Names \cup {Index} \cup STRING
Document ==
    [index : All, files : UNION {[N -> All] : N \in SUBSET AllNames},
     is : {"module", "draft", "deleted"}]
Resource ==
    [name : ResourceNames, parent : Nat \cup {Root}, file : Contents \cup {NoFile}]

Types ==
    /\ \E n \in Nat : documents \in [1..n -> Document]
    /\ \E n \in Nat : resources \in [1..n -> Resource]
    /\ requests \in [Requests -> Requested \cup {Idle}]

-----------------------------------------------------------------------------
(***************************************************************************)
(* What becomes of a request.                                              *)
(***************************************************************************)
Same(r, s) == s.is = r.is /\ s.args = r.args

LEMMA FieldsOf ==
  ASSUME NEW r \in Requested
  PROVE  /\ r # Idle /\ r.at \in Steps /\ r.stores \in Seq(All)
         /\ r.rows \in SUBSET All
         /\ r.is \in {"upload", "update", "add", "module", "import", "collection"}
         /\ r.is = "upload" => r \in Uploads
         /\ r.is = "update" => r \in Updates
         /\ r.is = "add" => r \in Adds
         /\ r.is = "module" => r \in Modules
         /\ r.is = "import" => r \in Imports
         /\ r.is = "collection" => r \in Loads
<1>1. \A i, A : Idle \notin Under(i, A)
  BY DEF Under, Idle, Steps
<1>2. \A i, A : r \in Under(i, A) =>
        r.at \in Steps /\ r.stores \in Seq(All) /\ r.rows \in SUBSET All /\ r.is = i
  BY DEF Under
<1> QED BY <1>1, <1>2 DEF Requested, Uploads, Updates, Adds, Modules, Imports, Loads

\* A request goes on to another step, ...
LEMMA Stepped ==
  ASSUME NEW r \in Requested, NEW a \in Steps, NEW s, s = [r EXCEPT !.at = a]
  PROVE  /\ s \in Requested /\ Same(r, s) /\ s.at = a /\ s.stores = r.stores
         /\ s.rows = r.rows /\ s.overtaken = r.overtaken
<1>1. \A i, A : r \in Under(i, A) =>
        /\ s \in Under(i, A) /\ s.is = r.is /\ s.args = r.args /\ s.at = a
        /\ s.stores = r.stores /\ s.rows = r.rows /\ s.overtaken = r.overtaken
  BY DEF Under
<1> QED BY <1>1 DEF Requested, Uploads, Updates, Adds, Modules, Imports, Loads, Same

\* ... has stored a content, ...
LEMMA StoredIs ==
  ASSUME NEW r \in Requested, r.stores # <<>>, NEW s, s = Stored(r)
  PROVE  /\ s \in Requested /\ Same(r, s) /\ s.at = "look" /\ s.stores = Tail(r.stores)
         /\ s.rows = r.rows /\ s.overtaken = r.overtaken
<1> DEFINE rest == Tail(r.stores)
<1>1. rest \in Seq(All)
  BY FieldsOf
<1> HIDE DEF rest
<1>2. s = [r EXCEPT !.stores = rest, !.at = "look"]
  BY DEF Stored, rest
<1>3. \A i, A : r \in Under(i, A) =>
        /\ s \in Under(i, A) /\ s.is = r.is /\ s.args = r.args /\ s.at = "look"
        /\ s.stores = rest /\ s.rows = r.rows /\ s.overtaken = r.overtaken
  BY <1>1, <1>2 DEF Under, Steps
<1> QED BY <1>3 DEF Requested, Uploads, Updates, Adds, Modules, Imports, Loads, Same, rest

\* ... and inserted a row in its transaction, ...
LEMMA InsertedIs ==
  ASSUME NEW r \in Requested, NEW c \in All, NEW s, s = [r EXCEPT !.rows = @ \cup {c}]
  PROVE  /\ s \in Requested /\ Same(r, s) /\ s.at = r.at /\ s.stores = r.stores
         /\ s.rows = r.rows \cup {c} /\ s.overtaken = r.overtaken
<1>1. \A i, A : r \in Under(i, A) =>
        /\ s \in Under(i, A) /\ s.is = r.is /\ s.args = r.args /\ s.at = r.at
        /\ s.stores = r.stores /\ s.rows = r.rows \cup {c} /\ s.overtaken = r.overtaken
  BY DEF Under
<1> QED BY <1>1 DEF Requested, Uploads, Updates, Adds, Modules, Imports, Loads, Same

\* ... or is overtaken.
LEMMA OvertakenIs ==
  ASSUME NEW r \in Requested, NEW s, s = [r EXCEPT !.overtaken = TRUE]
  PROVE  /\ s \in Requested /\ Same(r, s) /\ s.at = r.at /\ s.stores = r.stores
         /\ s.rows = r.rows /\ s.overtaken
<1>1. \A i, A : r \in Under(i, A) =>
        /\ s \in Under(i, A) /\ s.is = r.is /\ s.args = r.args /\ s.at = r.at
        /\ s.stores = r.stores /\ s.rows = r.rows /\ s.overtaken
  BY DEF Under
<1> QED BY <1>1 DEF Requested, Uploads, Updates, Adds, Modules, Imports, Loads, Same

-----------------------------------------------------------------------------
(***************************************************************************)
(* Induction, stated of sets, from the theorem that < is well-founded on   *)
(* the naturals.                                                           *)
(***************************************************************************)
LEMMA LeastNatural ==
  ASSUME NEW T \in SUBSET Nat, T # {}
  PROVE  \E n \in T : \A m \in T : n <= m
<1> DEFINE R == {ss \in Nat \X Nat : ss[1] < ss[2]}
<1>1. \E x \in T : \A y \in T : ~ (<<y, x>> \in R)
  <2>1. OpToRel(<, Nat) = R
    BY DEF OpToRel
  <2>2. IsWellFoundedOn(OpToRel(<, Nat), Nat)
    BY NatLessThanWellFounded, Zenon
  <2>3. IsWellFoundedOn(R, Nat)
    BY <2>1, <2>2, Zenon
  <2> HIDE DEF R
  <2> QED BY <2>3, WFMin
<1>2. \A x, y \in Nat : y < x => <<y, x>> \in R
  OBVIOUS
<1> HIDE DEF R
<1>3. PICK n \in T : \A m \in T : ~(<<m, n>> \in R)
  BY <1>1
<1>4. /\ n \in Nat
      /\ \A m \in T : m \in Nat /\ ~(m < n)
  BY <1>2, <1>3
<1>5. \A m \in T : n <= m
  BY <1>4
<1> QED BY <1>3, <1>5

\* What holds of 0 and of k whenever of k - 1 holds up to n.
LEMMA Induction ==
  ASSUME NEW n \in Nat, NEW S, 0 \in S,
         \A k \in 1..n : k - 1 \in S => k \in S
  PROVE  0..n \subseteq S
<1> SUFFICES ASSUME (0..n) \ S # {} PROVE FALSE
  OBVIOUS
<1> DEFINE T == (0..n) \ S
<1>1. T \in SUBSET Nat /\ T # {}
  OBVIOUS
<1> HIDE DEF T
<1>2. PICK k \in T : \A m \in T : k <= m
  BY <1>1, LeastNatural
<1>3. k \in 1..n /\ k \notin S
  BY <1>2 DEF T
<1>4. k - 1 \in T
  BY <1>3 DEF T
<1>5. ~(k <= k - 1)
  BY <1>3
<1> QED BY <1>2, <1>4, <1>5

-----------------------------------------------------------------------------
(***************************************************************************)
(* Archives.                                                               *)
(***************************************************************************)
\* Every element of a finite set is listed, and nothing else is.
LEMMA AscendingIs ==
  ASSUME NEW S \in SUBSET Nat, IsFiniteSet(S), NEW s, s = Ascending(S)
  PROVE  /\ Cardinality(S) \in Nat /\ s \in [1..Cardinality(S) -> S]
         /\ \A n \in S : \E k \in 1..Cardinality(S) : s[k] = n
<1> DEFINE C == Cardinality(S)
           UpTo(n) == {m \in S : m <= n}
           rank == [n \in S |-> Cardinality(UpTo(n))]
<1>0. \A n \in S : n \in Int
  OBVIOUS
<1>1. s = [k \in 1..C |-> CHOOSE n \in S : Cardinality(UpTo(n)) = k]
  BY DEF Ascending
<1>2. C \in Nat
  BY FS_CardinalityType
<1>3. ASSUME NEW n \in S
      PROVE  /\ UpTo(n) \in SUBSET S /\ IsFiniteSet(UpTo(n))
             /\ Cardinality(UpTo(n)) \in 1..C
  <2>1. UpTo(n) \in SUBSET S /\ n \in UpTo(n)
    BY <1>0
  <2> HIDE DEF UpTo
  <2>2. IsFiniteSet(UpTo(n)) /\ Cardinality(UpTo(n)) <= C
    BY <2>1, FS_Subset
  <2>3. Cardinality(UpTo(n)) \in Nat /\ Cardinality(UpTo(n)) # 0
    BY <2>1, <2>2, FS_CardinalityType, FS_EmptySet
  <2> QED BY <1>2, <2>1, <2>2, <2>3
<1>4. ASSUME NEW m \in S, NEW n \in S, m < n
      PROVE  Cardinality(UpTo(m)) < Cardinality(UpTo(n))
  <2>1. /\ UpTo(m) \in SUBSET UpTo(n) /\ n \in UpTo(n) /\ n \notin UpTo(m)
    <3>1. \A x \in S : x <= m => x <= n
      BY <1>0, <1>4
    <3>2. n <= n /\ ~(n <= m)
      BY <1>0, <1>4
    <3> QED BY <3>1, <3>2
  <2>2. /\ IsFiniteSet(UpTo(n))
        /\ Cardinality(UpTo(m)) \in Int /\ Cardinality(UpTo(n)) \in Int
    BY <1>3
  <2> HIDE DEF UpTo
  <2>3. /\ Cardinality(UpTo(m)) <= Cardinality(UpTo(n))
        /\ Cardinality(UpTo(n)) = Cardinality(UpTo(m)) => UpTo(n) = UpTo(m)
    BY <2>1, <2>2, FS_Subset
  <2> QED BY <2>1, <2>2, <2>3
<1> HIDE DEF UpTo, C
<1>5. \A m, n \in S :
        /\ rank[m] \in 1..C
        /\ m < n <=> rank[m] < rank[n]
        /\ rank[m] = rank[n] => m = n
  <2> SUFFICES ASSUME NEW m \in S, NEW n \in S
               PROVE  /\ rank[m] \in 1..C
                      /\ m < n <=> rank[m] < rank[n]
                      /\ rank[m] = rank[n] => m = n
    OBVIOUS
  <2>1. /\ rank[m] = Cardinality(UpTo(m)) /\ rank[n] = Cardinality(UpTo(n))
        /\ rank[m] \in 1..C /\ rank[n] \in 1..C
    BY <1>3
  <2> HIDE DEF rank
  <2>2. m < n \/ n < m \/ m = n
    OBVIOUS
  <2> QED BY <1>4, <2>1, <2>2
<1>6. \A k \in 1..C : \E n \in S : rank[n] = k
  <2>1. rank \in Injection(S, 1..C)
    <3>1. rank \in [S -> 1..C]
      BY <1>3
    <3> HIDE DEF rank
    <3> QED BY <1>5, <3>1 DEF Injection, IsInjective
  <2>2. IsFiniteSet(1..C) /\ Cardinality(1..C) = C
    BY <1>2, FS_Interval
  <2>3. rank \in Surjection(S, 1..C)
    <3> HIDE DEF rank
    <3> QED BY <2>1, <2>2, FS_Injection DEF C
  <2> HIDE DEF rank
  <2> QED BY <2>3 DEF Surjection
<1>7. \A k \in 1..C : s[k] \in S /\ rank[s[k]] = k
  <2> SUFFICES ASSUME NEW k \in 1..C PROVE s[k] \in S /\ rank[s[k]] = k
    OBVIOUS
  <2>1. \E n \in S : Cardinality(UpTo(n)) = k
    BY <1>6
  <2>2. s[k] \in S /\ Cardinality(UpTo(s[k])) = k
    BY <1>1, <2>1
  <2> QED BY <2>2
<1>8. s \in [1..C -> S]
  BY <1>1, <1>7
<1> HIDE DEF rank
<1>9. ASSUME NEW n \in S PROVE \E k \in 1..C : s[k] = n
  <2>1. rank[n] \in 1..C
    BY <1>5
  <2>2. s[rank[n]] = n
    BY <1>5, <1>7, <2>1
  <2> QED BY <2>1, <2>2
<1> QED BY <1>2, <1>8, <1>9 DEF C

LEMMA PositionsFinite ==
  ASSUME NEW E, NEW a \in Seq(E), NEW S \in SUBSET DOMAIN a
  PROVE  S \in SUBSET Nat /\ IsFiniteSet(S)
<1>1. Len(a) \in Nat /\ DOMAIN a = 1..Len(a) /\ 1 \in Int /\ Len(a) \in Int
  OBVIOUS
<1>2. IsFiniteSet(1..Len(a))
  BY <1>1, FS_Interval
<1>3. IsFiniteSet(S)
  BY <1>1, <1>2, FS_Subset
<1> QED BY <1>1, <1>3

LEMMA PickedIs ==
  ASSUME NEW E, NEW a \in Seq(E), NEW S \in SUBSET DOMAIN a, NEW p, p = Picked(a, S)
  PROVE  /\ p \in Seq(E) /\ Len(p) = Cardinality(S) /\ Cardinality(S) \in Nat
         /\ DOMAIN p = 1..Cardinality(S)
         /\ \A k \in DOMAIN p : \E i \in S : p[k] = a[i]
         /\ \A i \in S : \E k \in DOMAIN p : p[k] = a[i]
<1> DEFINE s == Ascending(S)  C == Cardinality(S)
<1>1. S \in SUBSET Nat /\ IsFiniteSet(S)
  BY PositionsFinite
<1>2. /\ C \in Nat /\ s \in [1..C -> S]
      /\ \A n \in S : \E k \in 1..C : s[k] = n
  BY <1>1, AscendingIs
<1>3. p = [k \in 1..C |-> a[s[k]]]
  BY DEF Picked
<1> HIDE DEF s, C
<1>4. \A k \in 1..C : p[k] = a[s[k]] /\ s[k] \in S /\ a[s[k]] \in E
  BY <1>2, <1>3
<1>5. p \in [1..C -> E]
  BY <1>3, <1>4
<1>6. p \in Seq(E) /\ Len(p) = C /\ DOMAIN p = 1..C
  BY <1>2, <1>5
<1>7. \A i \in S : \E k \in 1..C : p[k] = a[i]
  BY <1>2, <1>4
<1> QED BY <1>2, <1>4, <1>6, <1>7 DEF C

LEMMA IndexOfIs ==
  ASSUME NEW E, NEW a \in Seq(E), Indices(a) # {}
  PROVE  /\ IndexOf(a) \in Indices(a) /\ IndexOf(a) \in DOMAIN a
         /\ a[IndexOf(a)].name = Index
         /\ \A j \in Indices(a) : IndexOf(a) <= j
<1>1. Indices(a) \in SUBSET Nat /\ Indices(a) \subseteq DOMAIN a
  BY DEF Indices
<1>2. \E i \in Indices(a) : \A j \in Indices(a) : i <= j
  BY <1>1, LeastNatural
<1>3. /\ IndexOf(a) \in Indices(a)
      /\ \A j \in Indices(a) : IndexOf(a) <= j
  BY <1>2 DEF IndexOf
<1> QED BY <1>1, <1>3 DEF Indices

Joins(u, s, t) == u = s \o t

LEMMA ConcatIs ==
  ASSUME NEW S, NEW s \in Seq(S), NEW t \in Seq(S), NEW u, Joins(u, s, t)
  PROVE  /\ u \in Seq(S) /\ Len(u) = Len(s) + Len(t)
         /\ DOMAIN u = 1..(Len(s) + Len(t))
         /\ \A k \in 1..Len(s) : u[k] = s[k]
         /\ \A k \in 1..Len(t) : u[Len(s) + k] = t[k]
<1>1. Len(s) \in Nat /\ Len(t) \in Nat /\ u \in Seq(S) /\ Len(u) = Len(s) + Len(t)
  BY DEF Joins
<1>2. DOMAIN u = 1..(Len(s) + Len(t))
  BY <1>1
<1>3. \A k \in 1..Len(s) : u[k] = s[k]
  BY <1>1 DEF Joins
<1>4. ASSUME NEW k \in 1..Len(t) PROVE u[Len(s) + k] = t[k]
  <2>1. Len(s) + k \in 1..(Len(s) + Len(t)) /\ ~(Len(s) + k <= Len(s))
        /\ (Len(s) + k) - Len(s) = k
    BY <1>1
  <2> QED BY <1>1, <2>1 DEF Joins
<1> QED BY <1>1, <1>2, <1>3, <1>4

LEMMA UnpackedIs ==
  ASSUME NEW a \in Seq(Entries), Indices(a) # {}
  PROVE  /\ Unpacked(a) \in Seq(All)
         /\ a[IndexOf(a)].content \in ToSet(Unpacked(a))
         /\ \A i \in Imported(a) : a[i].content \in ToSet(Unpacked(a))
<1> DEFINE files == Picked(a, Imported(a))
           head == <<a[IndexOf(a)].content>>
           tail == [k \in DOMAIN files |-> files[k].content]
<1>1. Imported(a) \in SUBSET DOMAIN a
  BY DEF Imported
<1>2. /\ files \in Seq(Entries) /\ Len(files) \in Nat
      /\ \A i \in Imported(a) : \E k \in DOMAIN files : files[k] = a[i]
  BY <1>1, PickedIs
<1>3. \A e \in Entries : e.content \in All
  BY DEF Entries, All
<1>4. a[IndexOf(a)] \in Entries
  BY IndexOfIs
<1> DEFINE first == a[IndexOf(a)].content
<1>5. first \in All /\ head = <<first>>
  BY <1>3, <1>4
<1> HIDE DEF files, first
<1>6. tail \in Seq(All) /\ Len(tail) = Len(files) /\ DOMAIN tail = DOMAIN files
      /\ \A k \in DOMAIN files : tail[k] = files[k].content
  <2>1. tail \in [1..Len(files) -> All] /\ DOMAIN files = 1..Len(files)
    BY <1>2, <1>3
  <2> QED BY <1>2, <2>1
<1>7. Unpacked(a) = head \o tail
  BY DEF Unpacked, files
<1> DEFINE u == Unpacked(a)
<1> HIDE DEF tail, head, u
<1>8. u \in Seq(All) /\ Len(u) = Len(files) + 1 /\ u[1] = first
      /\ \A k \in 1..Len(files) : u[k + 1] = tail[k]
  <2>0. Len(head) = 1 /\ head[1] = first
    BY <1>5
  <2>1. head \in Seq(All)
    BY <1>5
  <2>2. tail \in Seq(All)
    BY <1>6
  <2>3. Joins(u, head, tail)
    BY <1>7 DEF u, Joins
  <2>4. /\ u \in Seq(All) /\ Len(u) = Len(head) + Len(tail)
        /\ DOMAIN u = 1..(Len(head) + Len(tail))
        /\ \A k \in 1..Len(head) : u[k] = head[k]
        /\ \A k \in 1..Len(tail) : u[Len(head) + k] = tail[k]
    BY <2>1, <2>2, <2>3, ConcatIs
  <2>5. \A k \in 1..Len(tail) : Len(head) + k = k + 1
    BY <2>0
  <2>6. u[1] = first
    BY <2>0, <2>4
  <2>7. \A k \in 1..Len(files) : u[k + 1] = tail[k]
    BY <1>6, <2>4, <2>5
  <2> QED BY <1>2, <1>6, <2>0, <2>4, <2>6, <2>7
<1>9. 1 \in DOMAIN u /\ \A k \in DOMAIN files : k + 1 \in DOMAIN u
  BY <1>2, <1>8
<1>10. first \in ToSet(u)
  BY <1>8, <1>9 DEF ToSet
<1>11. ASSUME NEW i \in Imported(a) PROVE a[i].content \in ToSet(u)
  <2>1. PICK k \in DOMAIN files : files[k] = a[i]
    BY <1>2
  <2>2. u[k + 1] = a[i].content
    BY <1>2, <1>6, <1>8, <2>1
  <2> QED BY <1>9, <2>2 DEF ToSet
<1> QED BY <1>8, <1>10, <1>11 DEF first, u

LEMMA ConcatHolds ==
  ASSUME NEW S, NEW s \in Seq(S), NEW t \in Seq(S), NEW u, Joins(u, s, t)
  PROVE  u \in Seq(S) /\ ToSet(u) = ToSet(s) \cup ToSet(t)
<1>1. /\ u \in Seq(S) /\ Len(u) = Len(s) + Len(t)
      /\ DOMAIN u = 1..(Len(s) + Len(t))
      /\ \A k \in 1..Len(s) : u[k] = s[k]
      /\ \A k \in 1..Len(t) : u[Len(s) + k] = t[k]
  BY ConcatIs
<1> DEFINE a == Len(s)  b == Len(t)
<1>2. a \in Nat /\ b \in Nat /\ DOMAIN s = 1..a /\ DOMAIN t = 1..b
  OBVIOUS
<1>3. /\ DOMAIN u = 1..(a + b)
      /\ \A k \in 1..a : u[k] = s[k]
      /\ \A k \in 1..b : u[a + k] = t[k]
  BY <1>1
<1> HIDE DEF a, b
<1>4. /\ \A k \in 1..a : k \in 1..(a + b)
      /\ \A k \in 1..b : a + k \in 1..(a + b)
      /\ \A k \in 1..(a + b) : k \in 1..a \/ (k - a \in 1..b /\ a + (k - a) = k)
  BY <1>2
<1>5. ASSUME NEW k \in DOMAIN s PROVE s[k] \in ToSet(u)
  BY <1>2, <1>3, <1>4 DEF ToSet
<1>6. ASSUME NEW k \in DOMAIN t PROVE t[k] \in ToSet(u)
  <2>1. a + k \in DOMAIN u /\ u[a + k] = t[k]
    BY <1>2, <1>3, <1>4
  <2> QED BY <2>1 DEF ToSet
<1>7. ASSUME NEW k \in DOMAIN u PROVE u[k] \in ToSet(s) \cup ToSet(t)
  <2>1. CASE k \in 1..a
    BY <1>2, <1>3, <2>1 DEF ToSet
  <2>2. CASE k - a \in 1..b /\ a + (k - a) = k
    <3>1. u[k] = t[k - a]
      BY <1>3, <2>2
    <3> QED BY <1>2, <2>2, <3>1 DEF ToSet
  <2> QED BY <1>3, <1>4, <2>1, <2>2
<1>8. ToSet(u) = ToSet(s) \cup ToSet(t)
  BY <1>5, <1>6, <1>7 DEF ToSet
<1> QED BY <1>1, <1>8

LEMMA PickedHolds ==
  ASSUME NEW E, NEW a \in Seq(E), NEW S \in SUBSET DOMAIN a, NEW p, p = Picked(a, S)
  PROVE  p \in Seq(E) /\ ToSet(p) = {a[i] : i \in S}
<1>1. /\ p \in Seq(E)
      /\ \A k \in DOMAIN p : \E i \in S : p[k] = a[i]
      /\ \A i \in S : \E k \in DOMAIN p : p[k] = a[i]
  BY PickedIs
<1> QED BY <1>1 DEF ToSet

\* What is taken of a collection for one of its modules is an archive with the
\* module's index first.
LEMMA ModuleInIs ==
  ASSUME NEW a \in Seq(Entries), NEW dir, IndexIn(a, dir) # {},
         NEW m, m = ModuleIn(a, dir)
  PROVE  /\ m \in Seq(Entries) /\ Indices(m) # {}
         /\ ToSet(m) = {a[i] : i \in IndexIn(a, dir) \cup FilesIn(a, dir)}
         /\ \E i \in IndexIn(a, dir) : m[IndexOf(m)] = a[i]
<1> DEFINE S == IndexIn(a, dir)  T == FilesIn(a, dir)
           s == Picked(a, S)  t == Picked(a, T)
<1>1. S \in SUBSET DOMAIN a /\ T \in SUBSET DOMAIN a /\ S # {}
         /\ Joins(m, s, t)
  BY DEF IndexIn, FilesIn, ModuleIn, Joins
<1>2. /\ s \in Seq(Entries) /\ Len(s) = Cardinality(S) /\ Cardinality(S) \in Nat
      /\ DOMAIN s = 1..Cardinality(S)
      /\ \A k \in DOMAIN s : \E i \in S : s[k] = a[i]
      /\ \A i \in S : \E k \in DOMAIN s : s[k] = a[i]
  BY <1>1, PickedIs
<1>3. s \in Seq(Entries) /\ ToSet(s) = {a[i] : i \in S}
  BY <1>1, PickedHolds
<1>4. t \in Seq(Entries) /\ ToSet(t) = {a[i] : i \in T}
  BY <1>1, PickedHolds
<1>5. \A i \in S : a[i].name = Index
  BY DEF IndexIn
<1> HIDE DEF s, t, S, T
<1>6. m \in Seq(Entries) /\ ToSet(m) = ToSet(s) \cup ToSet(t)
  <2>1. s \in Seq(Entries)
    BY <1>3
  <2>2. t \in Seq(Entries)
    BY <1>4
  <2>3. Joins(m, s, t)
    BY <1>1
  <2> QED BY <2>1, <2>2, <2>3, ConcatHolds
<1>7. /\ m \in Seq(Entries) /\ Len(m) = Len(s) + Len(t)
      /\ DOMAIN m = 1..(Len(s) + Len(t))
      /\ \A k \in 1..Len(s) : m[k] = s[k]
      /\ \A k \in 1..Len(t) : m[Len(s) + k] = t[k]
  BY <1>1, <1>3, <1>4, ConcatIs
<1>8. 1 \in DOMAIN s /\ 1 \in 1..Len(s) /\ 1 \in DOMAIN m
  <2>1. Len(s) > 0
    BY <1>1, <1>2
  <2>2. Len(t) \in Nat
    BY <1>4
  <2> QED BY <1>2, <1>7, <2>1, <2>2
<1>9. PICK i \in S : m[1] = a[i]
  BY <1>2, <1>7, <1>8, SMTT(30)
<1>10. 1 \in Indices(m)
  BY <1>5, <1>8, <1>9 DEF Indices
<1>11. IndexOf(m) = 1
  <2>1. IndexOf(m) \in DOMAIN m /\ IndexOf(m) <= 1
    BY <1>6, <1>10, IndexOfIs
  <2>2. IndexOf(m) \in 1..Len(m)
    BY <1>6, <2>1
  <2> QED BY <2>1, <2>2
<1> QED BY <1>3, <1>4, <1>6, <1>9, <1>10, <1>11 DEF S, T

LEMMA ModulesAre ==
  ASSUME NEW c \in Collections, NEW m \in DOMAIN c.modules, ~IsMissing(c, m),
         NEW a, a = ModulesIn(c)[m]
  PROVE  /\ c.archive \in Seq(Entries) /\ a = ModuleIn(c.archive, c.modules[m])
         /\ a \in Seq(Entries) /\ Indices(a) # {} /\ a[IndexOf(a)].content # Empty
<1>1. /\ c.archive \in Seq(Entries)
      /\ \A i \in IndexIn(c.archive, c.modules[m]) : c.archive[i].content # Empty
      /\ IndexIn(c.archive, c.modules[m]) # {}
      /\ a = ModuleIn(c.archive, c.modules[m])
  BY CollectionsAssumption DEF IsMissing, ModulesIn
<1> DEFINE all == c.archive  dir == c.modules[m]
<1>2. /\ all \in Seq(Entries) /\ IndexIn(all, dir) # {} /\ a = ModuleIn(all, dir)
      /\ \A i \in IndexIn(all, dir) : all[i].content # Empty
  BY <1>1
<1> HIDE DEF all, dir
<1>3. /\ a \in Seq(Entries) /\ Indices(a) # {}
      /\ \E i \in IndexIn(all, dir) : a[IndexOf(a)] = all[i]
  BY <1>2, ModuleInIs
<1> QED BY <1>1, <1>2, <1>3

\* A function on 0..n is defined by its start and its steps.
Advances(n, T) == [1..n -> [T -> T]]
IsIterated(f, n, T, start, step) ==
    /\ f \in [0..n -> T]
    /\ f[0] = start
    /\ \A k \in 1..n : f[k] = step[k][f[k - 1]]

LEMMA Iteration ==
  ASSUME NEW n \in Nat, NEW T, NEW start \in T, NEW step, step \in Advances(n, T)
  PROVE  \E f : IsIterated(f, n, T, start, step)
<1> USE DEF Advances
<1> DEFINE Good(m) == \E f \in [0..m -> T] :
                f[0] = start /\ \A k \in 1..m : f[k] = step[k][f[k - 1]]
           S == {m \in 0..n : Good(m)}
<1>1. 0 \in S
  <2> DEFINE f == [k \in 0..0 |-> start]
  <2>1. f \in [0..0 -> T] /\ f[0] = start /\ \A k \in 1..0 : f[k] = step[k][f[k - 1]]
    OBVIOUS
  <2> HIDE DEF f
  <2>2. Good(0)
    BY <2>1
  <2> HIDE DEF Good
  <2> QED BY <2>2
<1>2. ASSUME NEW m \in 1..n, m - 1 \in S
      PROVE  m \in S
  <2>1. PICK f \in [0..(m - 1) -> T] :
            f[0] = start /\ \A k \in 1..(m - 1) : f[k] = step[k][f[k - 1]]
    BY <1>2
  <2> DEFINE g == [k \in 0..m |-> IF k = m THEN step[m][f[m - 1]] ELSE f[k]]
  <2>2. f[m - 1] \in T /\ step[m] \in [T -> T]
    BY <2>1
  <2>3. step[m][f[m - 1]] \in T
    BY <2>2
  <2>4. g \in [0..m -> T]
    BY <2>1, <2>3
  <2>5. g[0] = start
    BY <2>1
  <2>6. ASSUME NEW k \in 1..m PROVE g[k] = step[k][g[k - 1]]
    <3>1. k - 1 \in 0..(m - 1) /\ g[k - 1] = f[k - 1]
      OBVIOUS
    <3>2. CASE k = m
      <4>1. g[m] = step[m][f[m - 1]]
        OBVIOUS
      <4> HIDE DEF g
      <4> QED BY <3>1, <3>2, <4>1
    <3>3. CASE k # m
      <4>1. g[k] = f[k] /\ k \in 1..(m - 1)
        BY <3>3
      <4> HIDE DEF g
      <4> QED BY <2>1, <3>1, <4>1
    <3> QED BY <3>2, <3>3
  <2> HIDE DEF g
  <2>7. Good(m)
    BY <2>4, <2>5, <2>6
  <2> HIDE DEF Good
  <2> QED BY <2>7
<1> HIDE DEF S
<1>3. 0..n \subseteq S
  BY <1>1, <1>2, Induction
<1>4. n \in S
  BY <1>3
<1> QED BY <1>4 DEF S, IsIterated

\* What the importer stores for a collection holds what it stores for each
\* module that it loads.
LEMMA LoadedIs ==
  ASSUME NEW c \in Collections
  PROVE  /\ Loaded(c) \in Seq(All)
         /\ \A m \in DOMAIN c.modules : IsLoaded(c, m) =>
                ToSet(Unpacked(ModulesIn(c)[m])) \subseteq ToSet(Loaded(c))
<1> DEFINE C == Len(c.modules)
           part == [m \in 1..C |-> IF IsLoaded(c, m) THEN Unpacked(ModulesIn(c)[m])
                                                     ELSE << >>]
           IsMade(u) == u = [m \in 0..C |->
                IF m = 0 THEN << >>
                ELSE u[m - 1] \o IF IsLoaded(c, m) THEN Unpacked(ModulesIn(c)[m])
                                 ELSE << >>]
           empty == << >>
           step == [k \in 1..C |-> [Q \in Seq(All) |-> Q \o part[k]]]
<1>1. C \in Nat /\ DOMAIN c.modules = 1..C
  <2>1. c.modules \in Seq(Seq(STRING))
    BY CollectionsAssumption
  <2> QED BY <2>1
<1>2. part \in [1..C -> Seq(All)]
  <2>1. ASSUME NEW m \in 1..C, IsLoaded(c, m) PROVE Unpacked(ModulesIn(c)[m]) \in Seq(All)
    <3>1. m \in DOMAIN c.modules /\ ~IsMissing(c, m)
      BY <1>1, <2>1 DEF IsLoaded
    <3> DEFINE a == ModulesIn(c)[m]
    <3>2. a \in Seq(Entries) /\ Indices(a) # {}
      BY <3>1, ModulesAre
    <3> HIDE DEF a
    <3>3. Unpacked(a) \in Seq(All)
      BY <3>2, UnpackedIs
    <3> QED BY <3>3 DEF a
  <2>2. << >> \in Seq(All)
    OBVIOUS
  <2> HIDE DEF C
  <2> QED BY <2>1, <2>2
<1>3. \A k \in 1..C : part[k] = IF IsLoaded(c, k) THEN Unpacked(ModulesIn(c)[k]) ELSE << >>
  OBVIOUS
<1>4. empty \in Seq(All)
  OBVIOUS
<1> HIDE DEF C, part, empty
<1>5. step \in Advances(C, Seq(All))
  <2>1. \A k \in 1..C : \A Q \in Seq(All) : Q \o part[k] \in Seq(All)
    BY <1>2
  <2> QED BY <2>1 DEF Advances
<1>6. \A k \in 1..C, Q \in Seq(All) : step[k][Q] = Q \o part[k]
  OBVIOUS
<1> HIDE DEF step
<1>7. PICK f : IsIterated(f, C, Seq(All), empty, step)
  BY <1>1, <1>4, <1>5, Iteration
<1>8. ASSUME NEW k \in 1..C
      PROVE  f[k] = f[k - 1] \o part[k]
  <2>1. k - 1 \in 0..C
    BY <1>1
  <2>2. f[k - 1] \in Seq(All)
    BY <1>7, <2>1 DEF IsIterated
  <2> QED BY <1>6, <1>7, <2>2 DEF IsIterated
<1>9. IsMade(f)
  <2>1. f = [k \in 0..C |-> f[k]] /\ f[0] = empty
    BY <1>7 DEF IsIterated
  <2>2. \A k \in 0..C : f[k] = IF k = 0 THEN << >> ELSE f[k - 1] \o
            IF IsLoaded(c, k) THEN Unpacked(ModulesIn(c)[k]) ELSE << >>
    BY <1>1, <1>3, <1>8, <2>1 DEF empty
  <2> QED BY <2>1, <2>2, Zenon
<1> DEFINE h == CHOOSE u : IsMade(u)
<1>10. IsMade(h)
  BY <1>9, Zenon
<1>11. Loaded(c) = h[C]
  BY DEF Loaded, C
<1>12. h = [m \in 0..C |-> IF m = 0 THEN << >> ELSE h[m - 1] \o
            IF IsLoaded(c, m) THEN Unpacked(ModulesIn(c)[m]) ELSE << >>]
  BY <1>10
<1> HIDE DEF h, IsMade
<1>13. /\ h[0] = empty
       /\ \A k \in 1..C : Joins(h[k], h[k - 1], part[k])
  <2>1. h[0] = empty
    BY <1>1, <1>12 DEF empty
  <2>2. ASSUME NEW k \in 1..C PROVE h[k] = h[k - 1] \o part[k]
    <3>1. k \in 0..C /\ k # 0
      BY <1>1
    <3>2. h[k] = h[k - 1] \o
            IF IsLoaded(c, k) THEN Unpacked(ModulesIn(c)[k]) ELSE << >>
      BY <1>12, <3>1
    <3> QED BY <1>3, <3>2
  <2> QED BY <2>1, <2>2 DEF Joins
<1> DEFINE T == {m \in 0..C : /\ h[m] \in Seq(All)
                             /\ \A j \in 1..m : ToSet(part[j]) \subseteq ToSet(h[m])}
<1>14. 0 \in T
  BY <1>1, <1>4, <1>13
<1>15. ASSUME NEW k \in 1..C, k - 1 \in T PROVE k \in T
  <2> DEFINE x == h[k - 1]  y == part[k]  z == h[k]
  <2>1. x \in Seq(All)
    BY <1>15
  <2>2. y \in Seq(All)
    BY <1>2
  <2>3. Joins(z, x, y)
    BY <1>13
  <2>4. \A j \in 1..(k - 1) : ToSet(part[j]) \subseteq ToSet(x)
    BY <1>15
  <2>5. \A j \in 1..k : j = k \/ j \in 1..(k - 1)
    OBVIOUS
  <2> HIDE DEF x, y, z
  <2>6. z \in Seq(All) /\ ToSet(z) = ToSet(x) \cup ToSet(y)
    BY <2>1, <2>2, <2>3, ConcatHolds
  <2>7. \A j \in 1..k : ToSet(part[j]) \subseteq ToSet(z)
    BY <2>4, <2>5, <2>6 DEF y
  <2>8. k \in 0..C
    BY <1>1
  <2> QED BY <2>6, <2>7, <2>8 DEF z
<1> HIDE DEF T
<1>16. C \in T
  <2>1. 0..C \subseteq T
    BY <1>1, <1>14, <1>15, Induction
  <2> QED BY <1>1, <2>1
<1> QED BY <1>1, <1>3, <1>11, <1>16 DEF T

-----------------------------------------------------------------------------
(***************************************************************************)
(* The document that is made of an archive.                                *)
(***************************************************************************)
LEMMA DocumentOfIs ==
  ASSUME NEW a \in Seq(Entries), Indices(a) # {}, NEW d, d = DocumentOf(a)
  PROVE  /\ d \in Document /\ d.is = "module"
         /\ d.index \in ToSet(Unpacked(a))
         /\ \A n \in DOMAIN d.files : d.files[n] \in ToSet(Unpacked(a))
<1> DEFINE names == {a[i].name : i \in Imported(a)}
           at(n) == CHOOSE i \in Imported(a) : a[i].name = n
           files == [n \in names |-> a[at(n)].content]
           first == a[IndexOf(a)].content
<1>1. d = [index |-> first, files |-> files, is |-> "module"]
  BY DEF DocumentOf
<1>2. /\ first \in ToSet(Unpacked(a))
      /\ \A i \in Imported(a) : a[i].content \in ToSet(Unpacked(a))
  BY UnpackedIs
<1>3. ASSUME NEW n \in names PROVE at(n) \in Imported(a) /\ a[at(n)].name = n
  OBVIOUS
<1>4. /\ \A e \in Entries : e.content \in All /\ e.name \in STRING
      /\ \A i \in Imported(a) : a[i] \in Entries
      /\ a[IndexOf(a)] \in Entries
  <2>1. \A e \in Entries : e.content \in All /\ e.name \in STRING
    BY DEF Entries, All
  <2>2. Imported(a) \subseteq DOMAIN a /\ IndexOf(a) \in DOMAIN a
    BY IndexOfIs DEF Imported
  <2> QED BY <2>1, <2>2
<1>5. first \in All /\ names \in SUBSET STRING
  BY <1>4
<1>6. \A n \in names : a[at(n)].content \in All /\ a[at(n)].content \in ToSet(Unpacked(a))
  BY <1>2, <1>3, <1>4
<1> HIDE DEF first, names, at
<1>7. files \in [names -> All]
  BY <1>6
<1>8. DOMAIN files = names /\ \A n \in names : files[n] \in ToSet(Unpacked(a))
  BY <1>6
<1> HIDE DEF files
<1>9. files \in UNION {[N -> All] : N \in SUBSET AllNames}
  BY <1>5, <1>7 DEF AllNames
<1>10. d \in Document
  BY <1>1, <1>5, <1>9 DEF Document
<1>11. d.is = "module" /\ d.index = first /\ d.files = files
  BY <1>1
<1> QED BY <1>2, <1>8, <1>10, <1>11

\* It has every file that is below the index, and no other.
LEMMA DocumentKeeps ==
  ASSUME NEW a \in Seq(Entries), Indices(a) # {}, ~NamesRepeat(a),
         a[IndexOf(a)].content # Empty
  PROVE  IsMadeOf(DocumentOf(a), Below(a, a[IndexOf(a)].dir))
<1> DEFINE names == {a[i].name : i \in Imported(a)}
           at(n) == CHOOSE i \in Imported(a) : a[i].name = n
           files == [n \in names |-> a[at(n)].content]
           p == IndexOf(a)
           dir == a[p].dir
           d == DocumentOf(a)
           below == Below(a, dir)
<1>1. d = [index |-> a[p].content, files |-> files, is |-> "module"]
  BY DEF DocumentOf
<1>2. d.index = a[p].content /\ d.files = files
  BY <1>1
<1>3. p \in DOMAIN a /\ a[p].name = Index
  BY IndexOfIs
<1>4. /\ \A e \in Entries : e.dir \in Seq(STRING)
      /\ \A i \in DOMAIN a : a[i] \in Entries
  <2>1. \A e \in Entries : e.dir \in Seq(STRING)
    BY DEF Entries
  <2>2. \A i \in DOMAIN a : a[i] \in Entries
    OBVIOUS
  <2> QED BY <2>1, <2>2
<1>5. dir \in Seq(STRING) /\ \A i \in DOMAIN a : a[i].dir \in Seq(STRING)
  BY <1>3, <1>4
<1>6. \A i \in DOMAIN a : a[i] \in below <=>
        /\ a[i].content # Empty /\ a[i].name \notin SkipFiles
        /\ IsPrefix(dir, a[i].dir)
  <2>1. SubSeq(dir, 1, Len(dir)) = dir
    BY <1>5
  <2>2. ASSUME NEW i \in DOMAIN a
        PROVE  IsPrefix(dir, a[i].dir) <=>
                 Len(a[i].dir) >= Len(dir) /\ SubSeq(a[i].dir, 1, Len(dir)) = dir
    <3>1. Len(a[i].dir) \in Nat /\ Len(dir) \in Nat
      BY <1>5
    <3> QED BY <2>1, <3>1 DEF IsPrefix
  <2>3. \A i \in DOMAIN a : a[i] \in ToSet(a)
    BY DEF ToSet
  <2> QED BY <2>2, <2>3 DEF Below
<1>7. \A e \in below : \E i \in DOMAIN a : e = a[i]
  BY DEF Below, ToSet
<1>8. \A i \in DOMAIN a : i \in Imported(a) <=> i # p /\ a[i] \in below
  BY <1>6 DEF Imported
<1>9. a[p] \in below
  <2>1. IsPrefix(dir, a[p].dir)
    <3>1. Len(dir) \in Nat
      BY <1>5
    <3> QED BY <3>1 DEF IsPrefix
  <2>2. a[p].name \notin SkipFiles
    BY <1>3 DEF SkipFiles, Index
  <2> QED BY <1>3, <1>6, <2>1, <2>2
<1>10. ASSUME NEW i \in Imported(a) PROVE at(a[i].name) = i
  <2>1. at(a[i].name) \in Imported(a) /\ a[at(a[i].name)].name = a[i].name
    BY <1>10
  <2> HIDE DEF at
  <2> QED BY <2>1 DEF NamesRepeat
<1>11. Imported(a) \subseteq DOMAIN a
  BY DEF Imported
<1> HIDE DEF at, p, dir, below, d
<1>12. DOMAIN files = names /\ \A i \in Imported(a) :
            a[i].name \in names /\ files[a[i].name] = a[i].content
  BY <1>10
<1>13. \A n \in names : \E i \in Imported(a) : n = a[i].name
  OBVIOUS
<1> HIDE DEF files, names
<1> DEFINE kept == {<<Index, d.index>>} \cup {<<n, d.files[n]>> : n \in DOMAIN d.files}
           wanted == {<<e.name, e.content>> : e \in below}
<1>14. ASSUME NEW x \in kept PROVE x \in wanted
  <2>1. CASE x = <<Index, d.index>>
    BY <1>2, <1>3, <1>9, <2>1
  <2>2. CASE \E n \in names : x = <<n, files[n]>>
    <3>1. PICK i \in Imported(a) : x = <<a[i].name, files[a[i].name]>>
      BY <1>13, <2>2
    <3>2. x = <<a[i].name, a[i].content>> /\ a[i] \in below
      BY <1>8, <1>11, <1>12, <3>1
    <3> QED BY <3>2
  <2> QED BY <1>2, <1>12, <1>14, <2>1, <2>2
<1>15. ASSUME NEW x \in wanted PROVE x \in kept
  <2>1. PICK i \in DOMAIN a : a[i] \in below /\ x = <<a[i].name, a[i].content>>
    BY <1>7, <1>15
  <2>2. CASE i = p
    BY <1>2, <1>3, <2>1, <2>2
  <2>3. CASE i # p
    <3>1. i \in Imported(a)
      BY <1>8, <2>1, <2>3
    <3> QED BY <1>2, <1>12, <2>1, <3>1
  <2> QED BY <2>2, <2>3
<1> QED BY <1>14, <1>15 DEF IsMadeOf, d, below, dir, p


-----------------------------------------------------------------------------
(***************************************************************************)
(* The inductive invariant.  What a request is to keep in the end is       *)
(* waiting to be stored or has a row; what has a row, or is about to get   *)
(* one, is on disk; and what a conditional upload is to replace is what    *)
(* its condition names unless it was overtaken.                            *)
(***************************************************************************)
Wants(r) ==
    IF r.is = "add" THEN {r.args.file}
    ELSE IF r.is = "import" THEN ToSet(Unpacked(r.args.archive))
    ELSE IF r.is = "collection" THEN ToSet(Loaded(r.args.collection))
    ELSE {r.args.content}

Fits(r) ==
    /\ r.is = "upload" => r.args.file[1] \in DOMAIN documents
    /\ r.is = "update" => r.args.file \in DOMAIN resources
    /\ r.is = "add" => r.args.parent \in DOMAIN resources \cup {Root}
    /\ r.rows # {} => InTransaction(r)

Gathered(r) == Wants(r) \subseteq ToSet(r.stores) \cup rows \cup r.rows

ReplacedBy(r) ==
    IF r.is = "update" THEN {resources[r.args.file].file}
    ELSE IF r.args.file[2] \in FilesOf(r.args.file[1])
    THEN {FileOf(r.args.file[1], r.args.file[2])} ELSE {}

Conditional(r) == r.is \in {"upload", "update"} /\ r.args.condition # AnyTag
Unlost(r) == Conditional(r) => r.overtaken \/ ReplacedBy(r) \subseteq r.args.condition

RequestSound(r) == Fits(r) /\ Gathered(r) /\ Unlost(r)
RequestsSound ==
    \A q \in Requests, r \in Requested : requests[q] = r => RequestSound(r)

\* Where a request is: At, of the request itself.
Is(r, step) == r # Idle /\ r.at = step /\ r.stores # << >>
FillsIn(r, c) == Is(r, "fill") /\ Head(r.stores) = c
Places(r, c) == r # Idle /\ (c \in r.rows \/ (Is(r, "insert") /\ Head(r.stores) = c))

OnDisk(c) ==
    /\ c \in DOMAIN disk
    /\ disk[c] = "whole" \/ c \in cut \/ \E q \in Requests : FillsIn(requests[q], c)
DiskSound ==
    /\ \A c \in rows : OnDisk(c)
    /\ \A q \in Requests, c \in All : Places(requests[q], c) => OnDisk(c)

IInv == Types /\ ResourceTreeSound /\ RequestsSound /\ Held \subseteq rows /\ DiskSound

LEMMA InitInvariant == Init => IInv
<1> SUFFICES ASSUME Init PROVE IInv
  OBVIOUS
<1>1. documents \in [1..0 -> Document] /\ resources \in [1..0 -> Resource]
  BY DEF Init
<1>2. DOMAIN documents = {} /\ DOMAIN resources = {}
  BY <1>1
<1>3. rows = {} /\ \A q \in Requests : requests[q] = Idle
  BY DEF Init
<1>4. Types
  BY <1>1 DEF Init, Types
<1>5. Held = {}
  BY <1>2 DEF Held, Live, Stocked
<1>6. ResourceTreeSound
  BY <1>2 DEF ResourceTreeSound
<1>7. DiskSound
  BY <1>3 DEF DiskSound, Places
<1>8. RequestsSound
  BY <1>3, FieldsOf DEF RequestsSound
<1> QED BY <1>3, <1>4, <1>5, <1>6, <1>7, <1>8 DEF IInv

LEMMA RequestAre ==
  ASSUME Types, NEW q \in Requests
  PROVE  /\ requests[q] \in Requested \cup {Idle}
         /\ requests[q] \in Requested <=> requests[q] # Idle
         /\ q \in Active <=> requests[q] # Idle
<1>1. requests[q] \in Requested \cup {Idle}
  BY DEF Types
<1> QED BY <1>1, FieldsOf DEF Active

\* A request stays sound while the tables grow, and what it is to replace is
\* not changed.
LEMMA RequestFrame ==
  ASSUME NEW r, RequestSound(r), rows \subseteq rows',
         DOMAIN documents \subseteq DOMAIN documents',
         DOMAIN resources \subseteq DOMAIN resources',
         Conditional(r) => ReplacedBy(r)' \subseteq ReplacedBy(r)
  PROVE  RequestSound(r)'
<1>1. Fits(r)'
  BY DEF RequestSound, Fits, InTransaction
<1>2. Gathered(r)'
  BY DEF RequestSound, Gathered
<1>3. Unlost(r)'
  BY DEF RequestSound, Unlost, Conditional
<1> QED BY <1>1, <1>2, <1>3 DEF RequestSound

\* Tables that hold what they held, and perhaps more.
Grown ==
    /\ \A d \in DOMAIN documents :
            /\ d \in DOMAIN documents'
            /\ documents'[d].index = documents[d].index
            /\ documents'[d].files = documents[d].files
    /\ \A x \in DOMAIN resources :
            x \in DOMAIN resources' /\ resources'[x].file = resources[x].file

LEMMA GrownKeeps ==
  ASSUME NEW r \in Requested, RequestSound(r), rows \subseteq rows', Grown
  PROVE  RequestSound(r)'
<1>1. ASSUME Conditional(r) PROVE ReplacedBy(r)' = ReplacedBy(r)
  <2>1. CASE r.is = "update"
    BY <2>1 DEF ReplacedBy, Grown, RequestSound, Fits
  <2>2. CASE r.is = "upload"
    <3>1. r.args.file[1] \in DOMAIN documents
      BY <2>2 DEF RequestSound, Fits
    <3> QED BY <2>2, <3>1 DEF ReplacedBy, Grown, FilesOf, FileOf
  <2> QED BY <1>1, <2>1, <2>2 DEF Conditional
<1> QED BY <1>1, RequestFrame DEF Grown

LEMMA SameTables ==
  ASSUME UNCHANGED <<documents, resources>>
  PROVE  Held' = Held /\ Grown /\ (ResourceTreeSound => ResourceTreeSound')
BY DEF Held, Live, Stocked, Kept, ResourceTreeSound, Taken, Grown

\* What is on disk stays there while nobody who fills a file in stops.
LEMMA DiskFrame ==
  ASSUME UNCHANGED <<disk, cut>>, NEW c, OnDisk(c),
         \A q \in Requests : FillsIn(requests[q], c) => FillsIn(requests'[q], c)
  PROVE  OnDisk(c)'
BY DEF OnDisk

\* The invariant, from its parts.
LEMMA StepKeeps ==
  ASSUME IInv,
         requests' \in [Requests -> Requested \cup {Idle}],
         \E n \in Nat : documents' \in [1..n -> Document],
         \E n \in Nat : resources' \in [1..n -> Resource],
         ResourceTreeSound', Held' \subseteq rows', rows \subseteq rows',
         \A q \in Requests, r \in Requested :
            requests'[q] = r => (requests[q] = r /\ Grown) \/ RequestSound(r)',
         \A c : OnDisk(c) => OnDisk(c)',
         \A c \in rows' : c \in rows \/ OnDisk(c),
         \A q \in Requests, c \in All :
            Places(requests'[q], c) => Places(requests[q], c) \/ OnDisk(c)'
  PROVE  IInv'
<1>1. Types'
  BY DEF Types
<1>2. RequestsSound'
  <2> SUFFICES ASSUME NEW q \in Requests, NEW r \in Requested, requests'[q] = r
               PROVE  RequestSound(r)'
    BY DEF RequestsSound
  <2>1. ASSUME requests[q] = r, Grown PROVE RequestSound(r)'
    BY <2>1, GrownKeeps DEF IInv, RequestsSound
  <2> QED BY <2>1
<1>3. \A c \in rows' : OnDisk(c)'
  BY DEF IInv, DiskSound
<1>4. \A q \in Requests, c \in All : Places(requests'[q], c) => OnDisk(c)'
  BY DEF IInv, DiskSound
<1>5. DiskSound'
  BY <1>3, <1>4 DEF DiskSound, Places, Is
<1> QED BY <1>1, <1>2, <1>5 DEF IInv

\* One request goes on to s, the others stay as they are.
LEMMA OneRequest ==
  ASSUME Types, NEW q \in Requests, NEW s \in Requested \cup {Idle},
         requests' = [requests EXCEPT ![q] = s]
  PROVE  /\ requests' \in [Requests -> Requested \cup {Idle}]
         /\ requests'[q] = s
         /\ \A p \in Requests \ {q} : requests'[p] = requests[p]
BY DEF Types

LEMMA OneStepKeeps ==
  ASSUME IInv, NEW q \in Requests, NEW s \in Requested \cup {Idle},
         requests' = [requests EXCEPT ![q] = s],
         \E n \in Nat : documents' \in [1..n -> Document],
         \E n \in Nat : resources' \in [1..n -> Resource],
         ResourceTreeSound', Held' \subseteq rows', rows \subseteq rows', Grown,
         s # Idle => RequestSound(s)',
         \A c : OnDisk(c) => OnDisk(c)',
         \A c \in rows' : c \in rows \/ OnDisk(c),
         \A c \in All : Places(s, c) => OnDisk(c)'
  PROVE  IInv'
<1>1. Types
  BY DEF IInv
<1>2. /\ requests' \in [Requests -> Requested \cup {Idle}]
      /\ requests'[q] = s
      /\ \A p \in Requests \ {q} : requests'[p] = requests[p]
  BY <1>1, OneRequest
<1>3. \A p \in Requests, r \in Requested :
            requests'[p] = r => (requests[p] = r /\ Grown) \/ RequestSound(r)'
  BY <1>2, FieldsOf
<1>4. \A p \in Requests, c \in All :
            Places(requests'[p], c) => Places(requests[p], c) \/ OnDisk(c)'
  BY <1>2
<1> QED BY <1>2, <1>3, <1>4, StepKeeps

\* While the disk is left alone, and the request did not fill a file in.
LEMMA DiskKept ==
  ASSUME Types, NEW q \in Requests, NEW s \in Requested \cup {Idle},
         requests' = [requests EXCEPT ![q] = s], UNCHANGED <<disk, cut>>,
         \A c : ~FillsIn(requests[q], c)
  PROVE  \A c : OnDisk(c) => OnDisk(c)'
<1>1. \A p \in Requests \ {q} : requests'[p] = requests[p]
  BY OneRequest
<1> QED BY <1>1, DiskFrame

LEMMA BeginKeeps ==
  ASSUME IInv, NEW q \in Requests \ Active, NEW r \in Requested,
         requests' = [requests EXCEPT ![q] = r],
         UNCHANGED <<rows, disk, documents, resources, cut>>,
         r.at = "look", r.rows = {}, RequestSound(r)
  PROVE  IInv'
<1>1. Types
  BY DEF IInv
<1>2. requests[q] = Idle
  BY DEF Active
<1>3. Held' \subseteq rows' /\ ResourceTreeSound' /\ Grown
  BY SameTables DEF IInv
<1>4. RequestSound(r)'
  BY <1>3, GrownKeeps
<1>5. \A c : OnDisk(c) => OnDisk(c)'
  BY <1>1, <1>2, DiskKept DEF FillsIn, Is
<1>6. \A c \in All : ~Places(r, c)
  BY DEF Places, Is
<1> QED BY <1>1, <1>3, <1>4, <1>5, <1>6, OneStepKeeps DEF Types


-----------------------------------------------------------------------------
(***************************************************************************)
(* Requests begin.                                                         *)
(***************************************************************************)
LEMMA RequestIs ==
  ASSUME NEW is, NEW stores \in Seq(All), NEW A, NEW args \in A,
         NEW r, r = Request(is, stores, args)
  PROVE  /\ r \in Under(is, A) /\ r.is = is /\ r.stores = stores /\ r.args = args
         /\ r.at = "look" /\ r.rows = {} /\ ~r.overtaken
BY DEF Request, Under, Steps

\* A content is waiting to be stored.
LEMMA OneContent ==
  ASSUME NEW c \in All
  PROVE  <<c>> \in Seq(All) /\ ToSet(<<c>>) = {c}
BY DEF ToSet

LEMMA BeginIs ==
  ASSUME IInv, NEW is, NEW stores \in Seq(All), NEW A, NEW args \in A,
         Under(is, A) \subseteq Requested, Begin(is, stores, args),
         \A r \in Under(is, A) :
            r.is = is /\ r.stores = stores /\ r.args = args /\ r.rows = {} => RequestSound(r)
  PROVE  IInv'
<1> DEFINE r == Request(is, stores, args)
<1>1. PICK q \in Requests \ Active :
        /\ requests' = [requests EXCEPT ![q] = r]
        /\ UNCHANGED <<rows, disk, documents, resources, cut>>
  BY DEF Begin
<1>2. r = Request(is, stores, args)
  OBVIOUS
<1> HIDE DEF r
<1>3. /\ r \in Under(is, A) /\ r.is = is /\ r.stores = stores /\ r.args = args
      /\ r.at = "look" /\ r.rows = {} /\ ~r.overtaken
  BY <1>2, RequestIs
<1>4. r \in Requested /\ RequestSound(r)
  BY <1>3
<1> QED BY <1>1, <1>3, <1>4, BeginKeeps

LEMMA TablesAre ==
  ASSUME Types
  PROVE  /\ DOMAIN documents \in SUBSET Nat /\ DOMAIN resources \in SUBSET Nat
         /\ \A d \in DOMAIN documents : documents[d] \in Document /\ d \in Nat \ {0}
         /\ \A x \in DOMAIN resources : resources[x] \in Resource /\ x \in Nat \ {0}
BY DEF Types

LEMMA ContentsAreAll == Contents \subseteq All
BY DEF All

LEMMA BeginUploadKeeps ==
  ASSUME IInv, BeginUpload PROVE IInv'
<1>1. PICK d \in DOMAIN documents, n \in Names \cup {Index}, c \in Contents, m \in Conditions :
        /\ m # AnyTag => n \in FilesOf(d) /\ Matches(m, FileOf(d, n))
        /\ Begin("upload", <<c>>, [file |-> <<d, n>>, content |-> c, condition |-> m])
  BY DEF BeginUpload
<1> DEFINE args == [file |-> <<d, n>>, content |-> c, condition |-> m]
           A == [file : Nat \X (Names \cup {Index}), content : Contents,
                 condition : Conditions]
<1>2. args \in A
  BY TablesAre DEF IInv
<1>3. args.file[1] = d /\ args.file[2] = n /\ args.content = c /\ args.condition = m
  OBVIOUS
<1>4. Under("upload", A) \subseteq Requested
  BY DEF Requested, Uploads
<1> HIDE DEF args, A
<1>5. <<c>> \in Seq(All) /\ ToSet(<<c>>) = {c}
  BY OneContent, ContentsAreAll
<1>6. ASSUME NEW r \in Under("upload", A), r.is = "upload", r.stores = <<c>>,
             r.args = args, r.rows = {}
      PROVE  RequestSound(r)
  <2>1. Fits(r)
    BY <1>3, <1>6 DEF Fits
  <2>2. Gathered(r)
    BY <1>3, <1>5, <1>6 DEF Gathered, Wants
  <2>3. Unlost(r)
    BY <1>1, <1>3, <1>6 DEF Unlost, Conditional, ReplacedBy, Matches
  <2> QED BY <2>1, <2>2, <2>3 DEF RequestSound
<1>7. Begin("upload", <<c>>, args)
  BY <1>1 DEF args
<1> QED BY <1>2, <1>4, <1>5, <1>6, <1>7, BeginIs

LEMMA BeginUpdateKeeps ==
  ASSUME IInv, BeginUpdate PROVE IInv'
<1>1. PICK f \in DOMAIN resources, c \in Contents, m \in Conditions :
        /\ m # AnyTag => Matches(m, resources[f].file)
        /\ Begin("update", <<c>>, [file |-> f, content |-> c, condition |-> m])
  BY DEF BeginUpdate
<1> DEFINE args == [file |-> f, content |-> c, condition |-> m]
           A == [file : Nat, content : Contents, condition : Conditions]
<1>2. args \in A
  BY TablesAre DEF IInv
<1>3. args.file = f /\ args.content = c /\ args.condition = m
  OBVIOUS
<1>4. Under("update", A) \subseteq Requested
  BY DEF Requested, Updates
<1> HIDE DEF args, A
<1>5. <<c>> \in Seq(All) /\ ToSet(<<c>>) = {c}
  BY OneContent, ContentsAreAll
<1>6. ASSUME NEW r \in Under("update", A), r.is = "update", r.stores = <<c>>,
             r.args = args, r.rows = {}
      PROVE  RequestSound(r)
  <2>1. Fits(r)
    BY <1>3, <1>6 DEF Fits
  <2>2. Gathered(r)
    BY <1>3, <1>5, <1>6 DEF Gathered, Wants
  <2>3. Unlost(r)
    BY <1>1, <1>3, <1>6 DEF Unlost, Conditional, ReplacedBy, Matches
  <2> QED BY <2>1, <2>2, <2>3 DEF RequestSound
<1>7. Begin("update", <<c>>, args)
  BY <1>1 DEF args
<1> QED BY <1>2, <1>4, <1>5, <1>6, <1>7, BeginIs

LEMMA BeginAddResourceKeeps ==
  ASSUME IInv, BeginAddResource PROVE IInv'
<1>1. PICK n \in ResourceNames, p \in DOMAIN resources \cup {Root}, c \in Contents :
        Begin("add", <<c>>, [name |-> n, parent |-> p, file |-> c])
  BY DEF BeginAddResource
<1> DEFINE args == [name |-> n, parent |-> p, file |-> c]
           A == [name : ResourceNames, parent : Nat \cup {Root}, file : Contents]
<1>2. args \in A
  BY TablesAre DEF IInv
<1>3. args.name = n /\ args.parent = p /\ args.file = c
  OBVIOUS
<1>4. Under("add", A) \subseteq Requested
  BY DEF Requested, Adds
<1> HIDE DEF args, A
<1>5. <<c>> \in Seq(All) /\ ToSet(<<c>>) = {c}
  BY OneContent, ContentsAreAll
<1>6. ASSUME NEW r \in Under("add", A), r.is = "add", r.stores = <<c>>,
             r.args = args, r.rows = {}
      PROVE  RequestSound(r)
  <2>1. Fits(r)
    BY <1>3, <1>6 DEF Fits
  <2>2. Gathered(r)
    BY <1>3, <1>5, <1>6 DEF Gathered, Wants
  <2> QED BY <1>6, <2>1, <2>2 DEF RequestSound, Unlost, Conditional
<1>7. Begin("add", <<c>>, args)
  BY <1>1 DEF args
<1> QED BY <1>2, <1>4, <1>5, <1>6, <1>7, BeginIs

LEMMA BeginModuleKeeps ==
  ASSUME IInv, BeginModule PROVE IInv'
<1>1. PICK c \in Templates : Begin("module", <<c>>, [content |-> c])
  BY DEF BeginModule
<1> DEFINE args == [content |-> c]
           A == [content : Contents]
<1>2. args \in A /\ c \in Contents
  BY TemplatesAssumption
<1>3. args.content = c
  OBVIOUS
<1>4. Under("module", A) \subseteq Requested
  BY DEF Requested, Modules
<1> HIDE DEF args, A
<1>5. <<c>> \in Seq(All) /\ ToSet(<<c>>) = {c}
  BY <1>2, OneContent, ContentsAreAll
<1>6. ASSUME NEW r \in Under("module", A), r.is = "module", r.stores = <<c>>,
             r.args = args, r.rows = {}
      PROVE  RequestSound(r)
  <2>1. Gathered(r)
    BY <1>3, <1>5, <1>6 DEF Gathered, Wants
  <2> QED BY <1>6, <2>1 DEF RequestSound, Fits, Unlost, Conditional
<1>7. Begin("module", <<c>>, args)
  BY <1>1 DEF args
<1> QED BY <1>2, <1>4, <1>5, <1>6, <1>7, BeginIs

LEMMA BeginImportKeeps ==
  ASSUME IInv, BeginImport PROVE IInv'
<1>1. PICK a \in Archives : Indices(a) # {} /\ Begin("import", Unpacked(a), [archive |-> a])
  BY DEF BeginImport
<1> DEFINE args == [archive |-> a]
           A == [archive : {x \in Archives : Indices(x) # {}}]
           stores == Unpacked(a)
<1>2. args \in A
  BY <1>1
<1>3. args.archive = a
  OBVIOUS
<1>4. Under("import", A) \subseteq Requested
  BY DEF Requested, Imports
<1>5. stores \in Seq(All)
  BY <1>1, UnpackedIs, ArchivesAssumption
<1>6. stores = Unpacked(args.archive)
  OBVIOUS
<1>7. Begin("import", stores, args)
  BY <1>1
<1> HIDE DEF args, A, stores
<1>8. ASSUME NEW r \in Under("import", A), r.is = "import", r.stores = stores,
             r.args = args, r.rows = {}
      PROVE  RequestSound(r)
  <2>1. Gathered(r)
    BY <1>6, <1>8 DEF Gathered, Wants
  <2> QED BY <1>8, <2>1 DEF RequestSound, Fits, Unlost, Conditional
<1> QED BY <1>2, <1>4, <1>5, <1>7, <1>8, BeginIs

LEMMA BeginCollectionKeeps ==
  ASSUME IInv, BeginCollection PROVE IInv'
<1>1. PICK c \in Collections : Begin("collection", Loaded(c), [collection |-> c])
  BY DEF BeginCollection
<1> DEFINE args == [collection |-> c]
           A == [collection : Collections]
           stores == Loaded(c)
<1>2. args \in A
  OBVIOUS
<1>3. Under("collection", A) \subseteq Requested
  BY DEF Requested, Loads
<1>4. stores \in Seq(All)
  BY LoadedIs
<1>5. stores = Loaded(args.collection)
  OBVIOUS
<1>6. Begin("collection", stores, args)
  BY <1>1
<1> HIDE DEF args, A, stores
<1>7. ASSUME NEW r \in Under("collection", A), r.is = "collection", r.stores = stores,
             r.args = args, r.rows = {}
      PROVE  RequestSound(r)
  <2>1. Gathered(r)
    BY <1>5, <1>7 DEF Gathered, Wants
  <2> QED BY <1>7, <2>1 DEF RequestSound, Fits, Unlost, Conditional
<1> QED BY <1>2, <1>3, <1>4, <1>6, <1>7, BeginIs


-----------------------------------------------------------------------------
(***************************************************************************)
(* Requests store their contents.                                          *)
(***************************************************************************)
LEMMA RequestAdvances ==
  ASSUME NEW r \in Requested, NEW s \in Requested, RequestSound(r), Same(r, s),
         s.overtaken = r.overtaken, rows \subseteq rows', Grown,
         s.rows # {} => InTransaction(s),
         ToSet(r.stores) \cup r.rows \subseteq ToSet(s.stores) \cup rows' \cup s.rows
  PROVE  RequestSound(s)'
<1>1. RequestSound(r)'
  BY GrownKeeps
<1>2. Fits(s)'
  BY <1>1 DEF RequestSound, Fits, Same, InTransaction
<1>3. Wants(s) = Wants(r)
  BY DEF Wants, Same
<1>4. Gathered(r)
  BY DEF RequestSound
<1>5. Gathered(s)'
  BY <1>3, <1>4 DEF Gathered
<1>6. ReplacedBy(s)' = ReplacedBy(r)' /\ (Conditional(s) <=> Conditional(r))
  BY DEF ReplacedBy, Conditional, Same
<1>7. Unlost(s)'
  BY <1>1, <1>6 DEF RequestSound, Unlost, Conditional, Same
<1> QED BY <1>2, <1>5, <1>7 DEF RequestSound

LEMMA TailHolds ==
  ASSUME NEW S, NEW s \in Seq(S), s # << >>
  PROVE  Head(s) \in S /\ ToSet(s) = {Head(s)} \cup ToSet(Tail(s))
<1>1. /\ Len(s) \in Nat /\ Len(s) >= 1 /\ DOMAIN s = 1..Len(s) /\ Head(s) = s[1]
      /\ s[1] \in S
      /\ Tail(s) \in Seq(S) /\ Len(Tail(s)) = Len(s) - 1
      /\ DOMAIN Tail(s) = 1..(Len(s) - 1)
  OBVIOUS
<1>2. \A k \in 1..(Len(s) - 1) : Tail(s)[k] = s[k + 1]
  OBVIOUS
<1> DEFINE t == Tail(s)  n == Len(s)
<1>3. /\ DOMAIN s = 1..n /\ DOMAIN t = 1..(n - 1) /\ n \in Nat /\ n >= 1
      /\ \A k \in 1..(n - 1) : t[k] = s[k + 1]
  BY <1>1, <1>2
<1> HIDE DEF t, n
<1>4. ASSUME NEW k \in DOMAIN s PROVE s[k] = s[1] \/ s[k] \in ToSet(t)
  <2>1. CASE k = 1
    BY <2>1
  <2>2. CASE k # 1
    <3>1. k - 1 \in 1..(n - 1) /\ (k - 1) + 1 = k
      BY <1>3, <2>2
    <3>2. t[k - 1] = s[k]
      BY <1>3, <3>1
    <3> QED BY <1>3, <3>1, <3>2 DEF ToSet
  <2> QED BY <2>1, <2>2
<1>5. ASSUME NEW k \in DOMAIN t PROVE t[k] \in ToSet(s)
  <2>1. k + 1 \in DOMAIN s /\ t[k] = s[k + 1]
    BY <1>3
  <2> QED BY <2>1 DEF ToSet
<1>6. s[1] \in ToSet(s)
  BY <1>3 DEF ToSet
<1>7. ToSet(s) = {s[1]} \cup ToSet(t)
  BY <1>4, <1>5, <1>6 DEF ToSet
<1> QED BY <1>1, <1>7 DEF t

LEMMA AtIs ==
  ASSUME Types, NEW q \in Requests, NEW step, At(q, step)
  PROVE  /\ requests[q] \in Requested /\ Is(requests[q], step)
         /\ requests[q].stores \in Seq(All) /\ requests[q].stores # << >>
         /\ Content(q) = Head(requests[q].stores) /\ Content(q) \in All
         /\ ToSet(requests[q].stores) = {Content(q)} \cup ToSet(Tail(requests[q].stores))
<1>1. requests[q] \in Requested /\ requests[q].stores # << >>
  BY RequestAre DEF At
<1>2. requests[q].stores \in Seq(All)
  BY <1>1, FieldsOf
<1> DEFINE stores == requests[q].stores
<1> HIDE DEF stores
<1>3. Head(stores) \in All /\ ToSet(stores) = {Head(stores)} \cup ToSet(Tail(stores))
  BY <1>1, <1>2, TailHolds DEF stores
<1> QED BY <1>1, <1>2, <1>3 DEF At, Is, Content, stores

\* A step of the store, which leaves the tables but rows alone.
LEMMA StoreKeeps ==
  ASSUME IInv, NEW q \in Requests, NEW r \in Requested, requests[q] = r,
         NEW s \in Requested, requests' = [requests EXCEPT ![q] = s], Same(r, s),
         s.overtaken = r.overtaken, s.rows # {} => InTransaction(s),
         ToSet(r.stores) \cup r.rows \subseteq ToSet(s.stores) \cup rows' \cup s.rows,
         UNCHANGED <<documents, resources>>, rows \subseteq rows',
         \A c : OnDisk(c) => OnDisk(c)',
         \A c \in rows' : c \in rows \/ OnDisk(c),
         \A c \in All : Places(s, c) => Places(r, c) \/ OnDisk(c)'
  PROVE  IInv'
<1>1. RequestSound(r)
  BY DEF IInv, RequestsSound
<1>2. Held' \subseteq rows' /\ ResourceTreeSound' /\ Grown
  BY SameTables DEF IInv
<1>3. RequestSound(s)'
  BY <1>1, <1>2, RequestAdvances
<1>4. \A c \in All : Places(s, c) => OnDisk(c)'
  BY DEF IInv, DiskSound
<1>5. /\ \E n \in Nat : documents' \in [1..n -> Document]
      /\ \E n \in Nat : resources' \in [1..n -> Resource]
  BY DEF IInv, Types
<1> QED BY <1>2, <1>3, <1>4, <1>5, OneStepKeeps

LEMMA InTransactionFields ==
  ASSUME IInv, NEW q \in Requests, NEW r \in Requested, requests[q] = r
  PROVE  r.rows # {} => InTransaction(r)
BY DEF IInv, RequestsSound, RequestSound, Fits

LEMMA LookUpKeeps ==
  ASSUME IInv, LookUp PROVE IInv'
<1>1. PICK q \in Requests :
        /\ At(q, "look")
        /\ requests' = [requests EXCEPT ![q] =
               IF Content(q) \in rows \cup requests[q].rows THEN Stored(requests[q])
               ELSE [requests[q] EXCEPT !.at = "place"]]
        /\ UNCHANGED <<rows, disk, documents, resources, cut>>
  BY DEF LookUp
<1> DEFINE r == requests[q]  c == Content(q)
           s == IF c \in rows \cup r.rows THEN Stored(r) ELSE [r EXCEPT !.at = "place"]
<1>2. /\ r \in Requested /\ Is(r, "look") /\ r.stores # << >>
      /\ ToSet(r.stores) = {c} \cup ToSet(Tail(r.stores))
  BY <1>1, AtIs DEF IInv
<1>3. r.rows # {} => InTransaction(r)
  BY <1>2, InTransactionFields
<1>4. requests[q] = r /\ requests' = [requests EXCEPT ![q] = s]
  BY <1>1
<1> HIDE DEF r, c
<1>5. /\ s \in Requested /\ Same(r, s) /\ s.overtaken = r.overtaken
      /\ s.rows = r.rows /\ s.at # "insert"
      /\ ToSet(r.stores) \cup r.rows \subseteq ToSet(s.stores) \cup rows \cup s.rows
  <2>1. CASE c \in rows \cup r.rows
    <3>1. s = Stored(r)
      BY <2>1
    <3> HIDE DEF s
    <3>2. s \in Requested /\ Same(r, s) /\ s.at = "look" /\ s.stores = Tail(r.stores)
          /\ s.rows = r.rows /\ s.overtaken = r.overtaken
      BY <1>2, <3>1, StoredIs
    <3> QED BY <1>2, <2>1, <3>2
  <2>2. CASE c \notin rows \cup r.rows
    <3>1. s = [r EXCEPT !.at = "place"] /\ "place" \in Steps
      BY <2>2 DEF Steps
    <3> HIDE DEF s
    <3>2. s \in Requested /\ Same(r, s) /\ s.at = "place" /\ s.stores = r.stores
          /\ s.rows = r.rows /\ s.overtaken = r.overtaken
      BY <1>2, <3>1, Stepped
    <3> QED BY <3>2
  <2> QED BY <2>1, <2>2
<1> HIDE DEF s
<1>6. s.rows # {} => InTransaction(s)
  BY <1>3, <1>5 DEF InTransaction, Same
<1>7. \A d : OnDisk(d) => OnDisk(d)'
  BY <1>1, <1>2, <1>4, <1>5, DiskKept DEF IInv, FillsIn, Is
<1>8. \A d \in All : Places(s, d) => Places(r, d)
  BY <1>2, <1>5 DEF Places, Is
<1> QED BY <1>1, <1>2, <1>4, <1>5, <1>6, <1>7, <1>8, StoreKeeps

\* A path is written: everything else that was on disk still is.
LEMMA WrittenDisk ==
  ASSUME Types, NEW q \in Requests, NEW s \in Requested \cup {Idle},
         requests' = [requests EXCEPT ![q] = s], NEW c, NEW value,
         disk' = With(disk, c, value), cut \ {c} \subseteq cut',
         \A d : FillsIn(requests[q], d) => d = c,
         value = "whole" \/ FillsIn(s, c)
  PROVE  OnDisk(c)' /\ \A d : OnDisk(d) => OnDisk(d)'
<1>1. requests'[q] = s /\ \A p \in Requests \ {q} : requests'[p] = requests[p]
  BY OneRequest
<1>2. /\ DOMAIN disk' = DOMAIN disk \cup {c} /\ disk'[c] = value
      /\ \A d \in DOMAIN disk \ {c} : disk'[d] = disk[d]
  BY DEF With
<1>3. OnDisk(c)'
  BY <1>1, <1>2 DEF OnDisk
<1>4. ASSUME NEW d, d # c, OnDisk(d) PROVE OnDisk(d)'
  <2>1. \A p \in Requests : FillsIn(requests[p], d) => FillsIn(requests'[p], d)
    BY <1>1, <1>4
  <2> QED BY <1>2, <1>4, <2>1 DEF OnDisk
<1> QED BY <1>3, <1>4

LEMMA PlaceKeeps ==
  ASSUME IInv, Place PROVE IInv'
<1>1. PICK q \in Requests :
        /\ At(q, "place")
        /\ LET inPlace == requests[q].is = "module"
           IN  /\ disk' = With(disk, Content(q), IF inPlace THEN "partial" ELSE "whole")
               /\ requests' = [requests EXCEPT ![q].at =
                                   IF inPlace THEN "fill" ELSE "insert"]
        /\ UNCHANGED <<rows, documents, resources, cut>>
  BY DEF Place
<1> PICK c : c = Content(q)
  OBVIOUS
<1> DEFINE r == requests[q]
           step == IF r.is = "module" THEN "fill" ELSE "insert"
           value == IF r.is = "module" THEN "partial" ELSE "whole"
           s == [r EXCEPT !.at = step]
<1>2. r \in Requested /\ Is(r, "place") /\ r.stores # << >> /\ c = Head(r.stores)
  BY <1>1, AtIs DEF IInv
<1>3. r.rows # {} => InTransaction(r)
  BY <1>2, InTransactionFields
<1>4. requests[q] = r /\ requests' = [requests EXCEPT ![q] = s] /\ disk' = With(disk, c, value)
  BY <1>1
<1>5. step \in Steps /\ s = [r EXCEPT !.at = step]
  BY DEF Steps
<1>6. step = "fill" \/ value = "whole"
  OBVIOUS
<1> HIDE DEF r, s, step, value
<1>7. /\ s \in Requested /\ Same(r, s) /\ s.at = step /\ s.stores = r.stores
      /\ s.rows = r.rows /\ s.overtaken = r.overtaken
  BY <1>2, <1>5, Stepped
<1>8. s.rows # {} => InTransaction(s)
  BY <1>3, <1>7 DEF InTransaction, Same
<1>9. value = "whole" \/ FillsIn(s, c)
  BY <1>2, <1>6, <1>7, FieldsOf DEF FillsIn, Is
<1>10. \A d : ~FillsIn(requests[q], d)
  BY <1>2, <1>4 DEF FillsIn, Is
<1>11. OnDisk(c)' /\ \A d : OnDisk(d) => OnDisk(d)'
  <2>1. Types /\ s \in Requested \cup {Idle}
    BY <1>7 DEF IInv
  <2>2. cut \ {c} \subseteq cut'
    BY <1>1
  <2>3. \A d : FillsIn(requests[q], d) => d = c
    BY <1>10
  <2> QED BY <1>4, <1>9, <2>1, <2>2, <2>3, WrittenDisk
<1>12. \A d \in All : Places(s, d) => Places(r, d) \/ OnDisk(d)'
  BY <1>2, <1>7, <1>11 DEF Places, Is
<1> QED BY <1>1, <1>2, <1>4, <1>7, <1>8, <1>11, <1>12, StoreKeeps

LEMMA FillKeeps ==
  ASSUME IInv, Fill PROVE IInv'
<1>1. PICK q \in Requests :
        /\ At(q, "fill")
        /\ disk' = With(disk, Content(q), "whole")
        /\ cut' = cut \ {Content(q)}
        /\ requests' = [requests EXCEPT ![q].at = "insert"]
        /\ UNCHANGED <<rows, documents, resources>>
  BY DEF Fill
<1> PICK c : c = Content(q)
  OBVIOUS
<1> DEFINE r == requests[q]
           s == [r EXCEPT !.at = "insert"]
<1>2. r \in Requested /\ Is(r, "fill") /\ r.stores # << >> /\ c = Head(r.stores)
  BY <1>1, AtIs DEF IInv
<1>3. r.rows # {} => InTransaction(r)
  BY <1>2, InTransactionFields
<1>4. /\ requests[q] = r /\ requests' = [requests EXCEPT ![q] = s]
      /\ disk' = With(disk, c, "whole") /\ cut' = cut \ {c}
  BY <1>1
<1>5. "insert" \in Steps /\ s = [r EXCEPT !.at = "insert"]
  BY DEF Steps
<1> HIDE DEF r, s
<1>6. /\ s \in Requested /\ Same(r, s) /\ s.at = "insert" /\ s.stores = r.stores
      /\ s.rows = r.rows /\ s.overtaken = r.overtaken
  BY <1>2, <1>5, Stepped
<1>7. s.rows # {} => InTransaction(s)
  BY <1>3, <1>6 DEF InTransaction, Same
<1>8. \A d : FillsIn(requests[q], d) => d = c
  BY <1>2, <1>4 DEF FillsIn
<1>9. OnDisk(c)' /\ \A d : OnDisk(d) => OnDisk(d)'
  <2>1. Types /\ s \in Requested \cup {Idle}
    BY <1>6 DEF IInv
  <2>2. cut \ {c} \subseteq cut'
    BY <1>4
  <2> QED BY <1>4, <1>8, <2>1, <2>2, WrittenDisk
<1>10. \A d \in All : Places(s, d) => Places(r, d) \/ OnDisk(d)'
  BY <1>2, <1>6, <1>9 DEF Places, Is
<1> QED BY <1>1, <1>2, <1>4, <1>6, <1>7, <1>9, <1>10, StoreKeeps

LEMMA InsertKeeps ==
  ASSUME IInv, Insert PROVE IInv'
<1>1. PICK q \in Requests :
        LET r == requests[q]
            c == Content(q)
        IN  /\ At(q, "insert")
            /\ requests' = [requests EXCEPT ![q] =
                   IF c \in rows THEN Idle
                   ELSE IF InTransaction(r)
                   THEN [Stored(r) EXCEPT !.rows = @ \cup {c}]
                   ELSE Stored(r)]
            /\ rows' = IF InTransaction(r) THEN rows ELSE rows \cup {c}
            /\ UNCHANGED <<disk, documents, resources, cut>>
  BY DEF Insert
<1> PICK c : c = Content(q)
  OBVIOUS
<1> DEFINE r == requests[q]  t == Stored(r)
           u == [t EXCEPT !.rows = @ \cup {c}]
           s == IF c \in rows THEN Idle ELSE IF InTransaction(r) THEN u ELSE t
<1>2. /\ r \in Requested /\ Is(r, "insert") /\ r.stores # << >> /\ c = Head(r.stores)
      /\ c \in All /\ ToSet(r.stores) = {c} \cup ToSet(Tail(r.stores))
  BY <1>1, AtIs DEF IInv
<1>3. r.rows # {} => InTransaction(r)
  BY <1>2, InTransactionFields
<1>4. /\ requests[q] = r /\ requests' = [requests EXCEPT ![q] = s]
      /\ rows' = IF InTransaction(r) THEN rows ELSE rows \cup {c}
      /\ UNCHANGED <<disk, documents, resources, cut>>
  BY <1>1
<1>5. t = Stored(r) /\ u = [t EXCEPT !.rows = @ \cup {c}]
  OBVIOUS
<1> HIDE DEF r, t, u
<1>6. /\ t \in Requested /\ Same(r, t) /\ t.at = "look" /\ t.stores = Tail(r.stores)
      /\ t.rows = r.rows /\ t.overtaken = r.overtaken
  BY <1>2, <1>5, StoredIs
<1>7. /\ u \in Requested /\ Same(t, u) /\ u.at = t.at /\ u.stores = t.stores
      /\ u.rows = t.rows \cup {c} /\ u.overtaken = t.overtaken
  BY <1>2, <1>5, <1>6, InsertedIs
<1>8. Places(r, c)
  BY <1>2 DEF Places, Is
<1>9. OnDisk(c)
  BY <1>2, <1>4, <1>8 DEF IInv, DiskSound
<1>10. rows \subseteq rows' /\ \A d \in rows' : d \in rows \/ OnDisk(d)
  BY <1>4, <1>9
<1>11. s \in Requested \cup {Idle}
  BY <1>6, <1>7
<1>12. \A d : OnDisk(d) => OnDisk(d)'
  <2> HIDE DEF s
  <2> QED BY <1>2, <1>4, <1>11, DiskKept DEF IInv, FillsIn, Is
<1>13. CASE s = Idle
  <2>1. Held' \subseteq rows' /\ ResourceTreeSound' /\ Grown
    BY <1>4, <1>10, SameTables DEF IInv
  <2>2. \A d : ~Places(s, d)
    BY <1>13 DEF Places
  <2> HIDE DEF s
  <2>3. /\ \E n \in Nat : documents' \in [1..n -> Document]
        /\ \E n \in Nat : resources' \in [1..n -> Resource]
    BY <1>4 DEF IInv, Types
  <2> QED BY <1>4, <1>10, <1>11, <1>12, <1>13, <2>1, <2>2, <2>3, OneStepKeeps
<1>14. CASE s # Idle
  <2>1. /\ s \in Requested /\ Same(r, s) /\ s.at = "look" /\ s.stores = Tail(r.stores)
        /\ s.overtaken = r.overtaken
        /\ s.rows \subseteq r.rows \cup {c} /\ r.rows \subseteq s.rows
        /\ c \in rows' \cup s.rows
        /\ s.rows # {} => InTransaction(r)
    <3>1. CASE InTransaction(r)
      <4>1. s = u
        BY <1>14, <3>1
      <4> HIDE DEF s
      <4> QED BY <1>6, <1>7, <3>1, <4>1 DEF Same
    <3>2. CASE ~InTransaction(r)
      <4>1. s = t /\ c \in rows'
        BY <1>4, <1>14, <3>2
      <4> HIDE DEF s
      <4> QED BY <1>3, <1>6, <4>1
    <3> QED BY <3>1, <3>2
  <2> HIDE DEF s
  <2>2. ToSet(r.stores) \cup r.rows \subseteq ToSet(s.stores) \cup rows' \cup s.rows
    BY <1>2, <2>1
  <2>3. s.rows # {} => InTransaction(s)
    BY <2>1 DEF InTransaction, Same
  <2>4. \A d \in All : Places(s, d) => Places(r, d) \/ OnDisk(d)'
    BY <1>2, <1>9, <1>12, <2>1 DEF Places, Is
  <2> QED BY <1>2, <1>4, <1>10, <1>12, <2>1, <2>2, <2>3, <2>4, StoreKeeps
<1> QED BY <1>13, <1>14


-----------------------------------------------------------------------------
(***************************************************************************)
(* What the tables hold.                                                   *)
(***************************************************************************)
KeptBy(document) == {document.index} \cup {document.files[n] : n \in DOMAIN document.files}

LEMMA HeldHas ==
  ASSUME Held \subseteq rows
  PROVE  /\ \A d \in DOMAIN documents :
                documents[d].is # "deleted" => KeptBy(documents[d]) \subseteq rows
         /\ \A x \in DOMAIN resources :
                resources[x].file # NoFile => resources[x].file \in rows
<1>1. ASSUME NEW d \in DOMAIN documents, documents[d].is # "deleted",
             NEW c \in KeptBy(documents[d])
      PROVE  c \in rows
  <2>1. d \in Live /\ c \in Kept(d)
    BY <1>1 DEF Live, Kept, KeptBy
  <2>2. c \in Held
    BY <2>1 DEF Held
  <2> QED BY <2>2
<1>2. ASSUME NEW x \in DOMAIN resources, resources[x].file # NoFile
      PROVE  resources[x].file \in rows
  <2>1. x \in Stocked
    BY <1>2 DEF Stocked
  <2>2. resources[x].file \in Held
    BY <2>1 DEF Held
  <2> QED BY <2>2
<1> QED BY <1>1, <1>2

LEMMA HoldsThen ==
  ASSUME \A d \in DOMAIN documents' :
            documents'[d].is # "deleted" => KeptBy(documents'[d]) \subseteq rows',
         \A x \in DOMAIN resources' :
            resources'[x].file # NoFile => resources'[x].file \in rows'
  PROVE  Held' \subseteq rows'
<1>1. ASSUME NEW d \in Live' PROVE Kept(d)' \subseteq rows'
  <2>1. d \in DOMAIN documents' /\ documents'[d].is # "deleted"
    BY DEF Live
  <2>2. KeptBy(documents'[d]) \subseteq rows'
    BY <2>1
  <2> QED BY <2>2 DEF Kept, KeptBy
<1>2. ASSUME NEW x \in Stocked' PROVE resources'[x].file \in rows'
  BY DEF Stocked
<1> QED BY <1>1, <1>2 DEF Held

LEMMA FilesAre ==
  ASSUME NEW f, NEW S
  PROVE  f \in UNION {[N -> All] : N \in SUBSET S}
            <=> DOMAIN f \subseteq S /\ f \in [DOMAIN f -> All]
<1>1. ASSUME f \in UNION {[N -> All] : N \in SUBSET S}
      PROVE  DOMAIN f \subseteq S /\ f \in [DOMAIN f -> All]
  <2>1. PICK N \in SUBSET S : f \in [N -> All]
    BY <1>1
  <2> QED BY <2>1
<1>2. ASSUME DOMAIN f \subseteq S, f \in [DOMAIN f -> All]
      PROVE  f \in UNION {[N -> All] : N \in SUBSET S}
  <2> DEFINE N == DOMAIN f
  <2>1. N \in SUBSET S /\ f \in [N -> All]
    BY <1>2
  <2> HIDE DEF N
  <2> QED BY <2>1
<1> QED BY <1>1, <1>2

Tabled(f) == DOMAIN f \subseteq AllNames /\ f \in [DOMAIN f -> All]

LEMMA DocumentFields ==
  ASSUME NEW x
  PROVE  x \in Document <=>
           /\ x = [index |-> x.index, files |-> x.files, is |-> x.is]
           /\ x.index \in All /\ x.is \in {"module", "draft", "deleted"}
           /\ Tabled(x.files)
<1> DEFINE F == UNION {[N -> All] : N \in SUBSET AllNames}
<1>1. x.files \in F <=> Tabled(x.files)
  BY FilesAre DEF Tabled
<1>2. Document = [index : All, files : F, is : {"module", "draft", "deleted"}]
  BY DEF Document
<1> HIDE DEF F
<1>3. x \in [index : All, files : F, is : {"module", "draft", "deleted"}] <=>
        /\ x = [index |-> x.index, files |-> x.files, is |-> x.is]
        /\ x.index \in All /\ x.files \in F /\ x.is \in {"module", "draft", "deleted"}
  OBVIOUS
<1> QED BY <1>1, <1>2, <1>3

\* What becomes of a document.
LEMMA IndexReplaced ==
  ASSUME NEW x \in Document, NEW c \in All, NEW y, y = [x EXCEPT !.index = c]
  PROVE  y \in Document /\ y.is = x.is /\ y.index = c /\ y.files = x.files
BY DEF Document

LEMMA StateChanged ==
  ASSUME NEW x \in Document, NEW is \in {"module", "draft", "deleted"},
         NEW y, y = [x EXCEPT !.is = is]
  PROVE  y \in Document /\ y.is = is /\ y.index = x.index /\ y.files = x.files
BY DEF Document

Refiled(y, x, f) == y = [x EXCEPT !.files = f]

LEMMA FilesReplaced ==
  ASSUME NEW x \in Document, NEW f, Tabled(f), NEW y, Refiled(y, x, f)
  PROVE  y \in Document /\ y.is = x.is /\ y.index = x.index /\ y.files = f
<1>1. f \in UNION {[N -> All] : N \in SUBSET AllNames}
  BY FilesAre DEF Tabled
<1> QED BY <1>1 DEF Document, Refiled

LEMMA FileWritten ==
  ASSUME NEW x \in Document, NEW n \in Names \cup {Index}, NEW c \in All,
         NEW y, Refiled(y, x, With(x.files, n, c))
  PROVE  /\ y \in Document /\ y.is = x.is /\ y.index = x.index
         /\ DOMAIN y.files = DOMAIN x.files \cup {n} /\ y.files[n] = c
         /\ \A m \in DOMAIN x.files \ {n} : y.files[m] = x.files[m]
<1> DEFINE f == With(x.files, n, c)
<1>1. DOMAIN x.files \subseteq AllNames /\ x.files \in [DOMAIN x.files -> All]
  BY DocumentFields DEF Tabled
<1>2. /\ DOMAIN f = DOMAIN x.files \cup {n} /\ f[n] = c
      /\ \A m \in DOMAIN x.files \ {n} : f[m] = x.files[m]
  BY DEF With
<1>3. DOMAIN f \subseteq AllNames
  <2>1. n \in AllNames
    BY DEF AllNames
  <2> HIDE DEF f
  <2> QED BY <1>1, <1>2, <2>1
<1>4. f \in [DOMAIN f -> All]
  <2>1. f \in [DOMAIN x.files \cup {n} -> All]
    BY <1>1 DEF With
  <2> QED BY <1>2, <2>1
<1>5. Refiled(y, x, f)
  OBVIOUS
<1> HIDE DEF f
<1>6. y \in Document /\ y.is = x.is /\ y.index = x.index /\ y.files = f
  <2>1. Tabled(f)
    BY <1>3, <1>4 DEF Tabled
  <2> QED BY <1>5, <2>1, FilesReplaced
<1> QED BY <1>2, <1>6

Without(f, n) == Restrict(f, DOMAIN f \ {n})
IsWithout(y, x, n) ==
    /\ y \in Document /\ y.is = x.is /\ y.index = x.index
    /\ DOMAIN y.files = DOMAIN x.files \ {n}
    /\ \A m \in DOMAIN x.files \ {n} : y.files[m] = x.files[m]

LEMMA FileRemoved ==
  ASSUME NEW x \in Document, NEW n,
         NEW y, Refiled(y, x, Without(x.files, n))
  PROVE  IsWithout(y, x, n)
<1> DEFINE f == Without(x.files, n)
<1>1. DOMAIN x.files \subseteq AllNames /\ x.files \in [DOMAIN x.files -> All]
  BY DocumentFields DEF Tabled
<1>2. /\ DOMAIN f = DOMAIN x.files \ {n}
      /\ \A m \in DOMAIN x.files \ {n} : f[m] = x.files[m]
  BY DEF Restrict, Without
<1>3. DOMAIN f \subseteq AllNames
  BY <1>1, <1>2
<1>4. f \in [DOMAIN f -> All]
  <2>1. f \in [DOMAIN x.files \ {n} -> All]
    BY <1>1 DEF Restrict, Without
  <2> QED BY <1>2, <2>1
<1>5. Refiled(y, x, f)
  OBVIOUS
<1> HIDE DEF f
<1>6. y \in Document /\ y.is = x.is /\ y.index = x.index /\ y.files = f
  <2>1. Tabled(f)
    BY <1>3, <1>4 DEF Tabled
  <2> QED BY <1>5, <2>1, FilesReplaced
<1> QED BY <1>2, <1>6 DEF IsWithout

\* One document is changed.
LEMMA DocumentChanged ==
  ASSUME Types, NEW d \in DOMAIN documents, NEW y \in Document,
         documents' = [documents EXCEPT ![d] = y]
  PROVE  /\ \E n \in Nat : documents' \in [1..n -> Document]
         /\ DOMAIN documents' = DOMAIN documents /\ documents'[d] = y
         /\ \A e \in DOMAIN documents \ {d} : documents'[e] = documents[e]
<1>1. PICK n \in Nat : documents \in [1..n -> Document]
  BY DEF Types
<1>2. documents' \in [1..n -> Document]
  BY <1>1
<1> QED BY <1>1, <1>2

\* Documents are created after those that there are.
LEMMA NewDocumentIs ==
  ASSUME Types
  PROVE  \E n \in Nat : documents \in [1..n -> Document] /\ NewDocument = n + 1
<1>1. PICK n \in Nat : documents \in [1..n -> Document]
  BY DEF Types
<1>2. DOMAIN documents = 1..n /\ Cardinality(1..n) = n
  BY <1>1, FS_Interval
<1>3. NewDocument = n + 1
  BY <1>1, <1>2 DEF NewDocument
<1> QED BY <1>1, <1>3

LEMMA DocumentsCreated ==
  ASSUME Types, NEW new \in Seq(Document), CreateDocuments(new)
  PROVE  /\ \E n \in Nat : documents' \in [1..n -> Document]
         /\ \A d \in DOMAIN documents :
                d \in DOMAIN documents' /\ documents'[d] = documents[d]
         /\ \A d \in DOMAIN documents' : d \in DOMAIN documents
                \/ \E k \in DOMAIN new : documents'[d] = new[k]
         /\ \A k \in DOMAIN new : documents'[NewDocument + k - 1] = new[k]
<1> DEFINE C == Len(new)
<1>1. C \in Nat /\ DOMAIN new = 1..C /\ \A k \in 1..C : new[k] \in Document
  OBVIOUS
<1>2. PICK n \in Nat : documents \in [1..n -> Document] /\ NewDocument = n + 1
  BY NewDocumentIs
<1>3. documents' = [d \in 1..(n + 1 + C - 1) |->
           IF d < n + 1 THEN documents[d] ELSE new[d - (n + 1) + 1]]
  BY <1>2 DEF CreateDocuments
<1> HIDE DEF C
<1>4. n + 1 + C - 1 = n + C /\ n + C \in Nat
  BY <1>1
<1>5. \A d \in 1..(n + C) : documents'[d] =
            IF d < n + 1 THEN documents[d] ELSE new[d - (n + 1) + 1]
  BY <1>3, <1>4
<1>6. DOMAIN documents' = 1..(n + C)
  BY <1>3, <1>4
<1>7. ASSUME NEW d \in DOMAIN documents
      PROVE  d \in DOMAIN documents' /\ documents'[d] = documents[d]
  <2>1. d \in 1..n /\ d \in 1..(n + C) /\ d < n + 1
    BY <1>1, <1>2
  <2> QED BY <1>5, <1>6, <2>1
<1>8. ASSUME NEW k \in 1..C
      PROVE  n + k \in 1..(n + C) /\ documents'[n + k] = new[k]
  <2>1. n + k \in 1..(n + C) /\ ~(n + k < n + 1) /\ (n + k) - (n + 1) + 1 = k
    BY <1>1
  <2> QED BY <1>5, <2>1
<1>9. ASSUME NEW d \in DOMAIN documents'
      PROVE  d \in DOMAIN documents \/ \E k \in 1..C : d = n + k
  <2>1. CASE d <= n
    <3>1. d \in 1..n
      BY <1>1, <1>6, <2>1
    <3> QED BY <1>2, <3>1
  <2>2. CASE ~(d <= n)
    <3>1. d - n \in 1..C /\ d = n + (d - n)
      BY <1>1, <1>6, <2>2
    <3> QED BY <3>1
  <2> QED BY <2>1, <2>2
<1>10. documents' \in [1..(n + C) -> Document]
  <2>1. documents' = [d \in 1..(n + C) |-> documents'[d]]
    BY <1>3, <1>4
  <2>2. ASSUME NEW d \in 1..(n + C) PROVE documents'[d] \in Document
    BY <1>1, <1>2, <1>6, <1>7, <1>8, <1>9
  <2> QED BY <2>1, <2>2
<1>11. \A k \in 1..C : NewDocument + k - 1 = n + k
  BY <1>2
<1> QED BY <1>1, <1>4, <1>7, <1>8, <1>9, <1>10, <1>11

LEMMA NewDocumentsKeep ==
  ASSUME Types, Held \subseteq rows, NEW new \in Seq(Document), CreateDocuments(new),
         rows \subseteq rows', UNCHANGED resources,
         \A k \in DOMAIN new : KeptBy(new[k]) \subseteq rows'
  PROVE  /\ \E n \in Nat : documents' \in [1..n -> Document]
         /\ Held' \subseteq rows' /\ Grown
<1>1. /\ \E n \in Nat : documents' \in [1..n -> Document]
      /\ \A d \in DOMAIN documents :
                d \in DOMAIN documents' /\ documents'[d] = documents[d]
      /\ \A d \in DOMAIN documents' : d \in DOMAIN documents
                \/ \E k \in DOMAIN new : documents'[d] = new[k]
  BY DocumentsCreated
<1>2. Grown
  BY <1>1 DEF Grown
<1>3. \A d \in DOMAIN documents' :
            documents'[d].is # "deleted" => KeptBy(documents'[d]) \subseteq rows'
  BY <1>1, HeldHas
<1>4. \A x \in DOMAIN resources' :
            resources'[x].file # NoFile => resources'[x].file \in rows'
  BY HeldHas
<1> QED BY <1>1, <1>2, <1>3, <1>4, HoldsThen

\* Resources.
LEMMA SameTree ==
  ASSUME ResourceTreeSound, DOMAIN resources' = DOMAIN resources,
         \A x \in DOMAIN resources : resources'[x].name = resources[x].name
                                     /\ resources'[x].parent = resources[x].parent
  PROVE  ResourceTreeSound'
BY DEF ResourceTreeSound, Taken

LEMMA ResourceCreated ==
  ASSUME Types, ResourceTreeSound, NEW args \in Resource,
         args.parent \in DOMAIN resources \cup {Root},
         ~Taken(args.name, args.parent, NewResource), CreateResource(args)
  PROVE  /\ \E n \in Nat : resources' \in [1..n -> Resource]
         /\ ResourceTreeSound'
         /\ \A x \in DOMAIN resources :
                x \in DOMAIN resources' /\ resources'[x] = resources[x]
         /\ \A x \in DOMAIN resources' : x \in DOMAIN resources \/ resources'[x] = args
<1>1. PICK n \in Nat : resources \in [1..n -> Resource]
  BY DEF Types
<1>2. DOMAIN resources = 1..n /\ Cardinality(1..n) = n
  BY <1>1, FS_Interval
<1>3. NewResource = n + 1
  BY <1>1, <1>2 DEF NewResource
<1>4. /\ DOMAIN resources' = 1..(n + 1) /\ n + 1 \in Nat
      /\ resources'[n + 1] = args
      /\ \A x \in 1..n : resources'[x] = resources[x]
  <2>1. 1..(n + 1) = 1..n \cup {n + 1} /\ \A x \in 1..n : x # n + 1
    OBVIOUS
  <2>2. resources' = With(resources, n + 1, args)
    BY <1>3 DEF CreateResource
  <2> QED BY <1>2, <2>1, <2>2 DEF With
<1>5. \A x \in 1..(n + 1) : x \in 1..n \/ x = n + 1
  OBVIOUS
<1>6. resources' \in [1..(n + 1) -> Resource]
  <2>1. resources' = [x \in 1..(n + 1) |-> resources'[x]]
    BY <1>2, <1>3 DEF CreateResource, With
  <2>2. ASSUME NEW x \in 1..(n + 1) PROVE resources'[x] \in Resource
    BY <1>1, <1>4, <1>5
  <2> QED BY <2>1, <2>2
<1>7. ASSUME NEW x \in DOMAIN resources'
      PROVE  resources'[x].parent # Root =>
                /\ resources'[x].parent \in DOMAIN resources' /\ resources'[x].parent < x
                /\ \A other \in DOMAIN resources' \ {x} :
                        ~(resources'[other].parent = resources'[x].parent
                          /\ resources'[other].name = resources'[x].name)
  <2>1. \A y \in 1..n : y \in 1..(n + 1) /\ y < n + 1
    OBVIOUS
  <2>2. CASE x = n + 1
    <3>1. args.parent # Root => args.parent \in 1..(n + 1) /\ args.parent < x
      BY <1>2, <2>1, <2>2
    <3>2. args.parent # Root => \A other \in 1..n :
            ~(resources[other].parent = args.parent /\ resources[other].name = args.name)
      <4>1. \A other \in 1..n : other \in DOMAIN resources \ {NewResource}
        BY <1>2, <1>3
      <4> QED BY <4>1 DEF Taken
    <3>3. \A other \in DOMAIN resources' \ {x} : other \in 1..n
      BY <1>4, <1>5, <2>2
    <3> QED BY <1>4, <2>2, <3>1, <3>2, <3>3
  <2>3. CASE x \in 1..n
    <3>1. /\ resources[x].parent # Root =>
                resources[x].parent \in 1..n /\ resources[x].parent < x
          /\ ~Taken(resources[x].name, resources[x].parent, x)
      BY <1>2, <2>3 DEF ResourceTreeSound
    <3>2. resources'[x] = resources[x]
      BY <1>4, <2>3
    <3>3. ASSUME resources[x].parent # Root, NEW other \in DOMAIN resources' \ {x}
          PROVE  ~(resources'[other].parent = resources[x].parent
                   /\ resources'[other].name = resources[x].name)
      <4>1. CASE other \in 1..n
        BY <1>2, <1>4, <3>1, <3>3, <4>1 DEF Taken
      <4>2. CASE other = n + 1
        <5>1. x \in DOMAIN resources \ {NewResource}
          BY <1>2, <1>3, <2>1, <2>3
        <5> QED BY <1>4, <3>3, <4>2, <5>1 DEF Taken
      <4> QED BY <1>4, <1>5, <4>1, <4>2
    <3> QED BY <1>4, <2>1, <3>1, <3>2, <3>3
  <2> QED BY <1>4, <1>5, <2>2, <2>3
<1>8. ResourceTreeSound'
  BY <1>7 DEF ResourceTreeSound, Taken
<1> QED BY <1>2, <1>4, <1>5, <1>6, <1>8


-----------------------------------------------------------------------------
(***************************************************************************)
(* Requests end.                                                           *)
(***************************************************************************)
LEMMA ReadyIs ==
  ASSUME IInv, NEW q \in Requests, NEW is, Ready(q, is)
  PROVE  /\ requests[q] \in Requested /\ requests[q].is = is
         /\ RequestSound(requests[q])
         /\ Wants(requests[q]) \subseteq rows \cup requests[q].rows
         /\ \A c : ~FillsIn(requests[q], c)
         /\ \A c \in requests[q].rows : OnDisk(c)
<1>1. requests[q] \in Requested /\ requests[q].is = is /\ requests[q].stores = << >>
  BY RequestAre DEF IInv, Ready
<1> PICK r \in Requested : r = requests[q]
  BY <1>1
<1>2. RequestSound(r)
  BY DEF IInv, RequestsSound
<1>3. r.stores = << >>
  BY <1>1
<1>4. ToSet(r.stores) = {}
  BY <1>3 DEF ToSet
<1>5. Wants(r) \subseteq rows \cup r.rows
  BY <1>2, <1>4 DEF RequestSound, Gathered
<1>6. \A c : ~FillsIn(r, c)
  BY <1>3 DEF FillsIn, Is
<1>7. r # Idle /\ r.rows \subseteq All
  BY FieldsOf
<1>8. \A c \in r.rows : c \in All /\ Places(r, c)
  BY <1>7 DEF Places
<1>9. \A c \in r.rows : OnDisk(c)
  BY <1>8 DEF IInv, DiskSound
<1> QED BY <1>1, <1>2, <1>5, <1>6, <1>9

LEMMA EndKeeps ==
  ASSUME IInv, NEW q \in Requests, NEW is, Ready(q, is), End(q),
         UNCHANGED <<disk, cut>>,
         rows \subseteq rows', rows' \subseteq rows \cup requests[q].rows,
         \E n \in Nat : documents' \in [1..n -> Document],
         \E n \in Nat : resources' \in [1..n -> Resource],
         ResourceTreeSound', Held' \subseteq rows', Grown
  PROVE  IInv'
<1>1. /\ \A c : ~FillsIn(requests[q], c)
      /\ \A c \in requests[q].rows : OnDisk(c)
  BY ReadyIs
<1> DEFINE s == Idle
<1>2. s = Idle /\ s \in Requested \cup {Idle} /\ requests' = [requests EXCEPT ![q] = s]
  BY DEF End
<1> HIDE DEF s
<1>3. \A c : OnDisk(c) => OnDisk(c)'
  BY <1>1, <1>2, DiskKept DEF IInv
<1>4. \A c \in rows' : c \in rows \/ OnDisk(c)
  BY <1>1
<1>5. \A c \in All : ~Places(s, c)
  BY <1>2 DEF Places
<1> QED BY <1>2, <1>3, <1>4, <1>5, OneStepKeeps

\* The others that are to write the same file are overtaken.
LEMMA EndWritingKeeps ==
  ASSUME IInv, NEW q \in Requests, NEW is, Ready(q, is), EndWriting(q),
         UNCHANGED <<rows, disk, cut>>,
         \E n \in Nat : documents' \in [1..n -> Document],
         \E n \in Nat : resources' \in [1..n -> Resource],
         DOMAIN documents \subseteq DOMAIN documents',
         DOMAIN resources \subseteq DOMAIN resources',
         ResourceTreeSound', Held' \subseteq rows',
         \A r \in Requested :
            Conditional(r) /\ Fits(r) /\ ~(r.is = is /\ r.args.file = requests[q].args.file) =>
                ReplacedBy(r)' \subseteq ReplacedBy(r)
  PROVE  IInv'
<1>1. /\ requests[q] \in Requested /\ requests[q].is = is
      /\ \A c : ~FillsIn(requests[q], c)
  BY ReadyIs
<1>2. requests'[q] = Idle
  BY DEF EndWriting, Rivals
<1>3. ASSUME NEW p \in Requests \ {q}
      PROVE  \/ requests'[p] = requests[p] /\ (p \in Active => p \notin Rivals(q))
             \/ /\ requests[p] \in Requested
                /\ requests'[p] = [requests[p] EXCEPT !.overtaken = TRUE]
  <2>1. CASE p \in Rivals(q)
    <3>1. requests[p] \in Requested
      BY <2>1, RequestAre DEF IInv, Rivals
    <3> QED BY <2>1, <3>1 DEF EndWriting
  <2>2. CASE p \notin Rivals(q)
    BY <2>2 DEF EndWriting
  <2> QED BY <2>1, <2>2
<1>4. ASSUME NEW p \in Requests \ {q}, NEW o \in Requested, requests[p] = o,
             requests'[p] = [o EXCEPT !.overtaken = TRUE]
      PROVE  \E r \in Requested : /\ requests'[p] = r /\ Same(o, r) /\ r.overtaken
                                  /\ r.at = o.at /\ r.stores = o.stores /\ r.rows = o.rows
  <2> DEFINE r == [o EXCEPT !.overtaken = TRUE]
  <2>1. r = [o EXCEPT !.overtaken = TRUE]
    OBVIOUS
  <2>2. requests'[p] = r
    BY <1>4
  <2> HIDE DEF r
  <2>3. r \in Requested /\ Same(o, r) /\ r.at = o.at /\ r.stores = o.stores
        /\ r.rows = o.rows /\ r.overtaken
    BY <2>1, OvertakenIs
  <2> QED BY <2>2, <2>3
<1>5. requests' \in [Requests -> Requested \cup {Idle}]
  <2>1. requests' = [p \in Requests |-> requests'[p]]
    BY DEF EndWriting
  <2>2. ASSUME NEW p \in Requests PROVE requests'[p] \in Requested \cup {Idle}
    <3>1. CASE p = q
      BY <1>2, <3>1
    <3>2. CASE p # q /\ requests'[p] = requests[p]
      BY <3>2, RequestAre DEF IInv
    <3>3. CASE /\ p # q /\ requests[p] \in Requested
               /\ requests'[p] = [requests[p] EXCEPT !.overtaken = TRUE]
      <4>1. PICK o \in Requested : o = requests[p]
        BY <3>3
      <4>2. requests'[p] = [o EXCEPT !.overtaken = TRUE]
        BY <3>3, <4>1
      <4> QED BY <1>4, <3>3, <4>1, <4>2
    <3> QED BY <1>3, <3>1, <3>2, <3>3
  <2> QED BY <2>1, <2>2
<1>6. ASSUME NEW p \in Requests, NEW r \in Requested, requests'[p] = r
      PROVE  RequestSound(r)'
  <2>1. p \in Requests \ {q} /\ r # Idle
    BY <1>2, <1>6, FieldsOf
  <2>2. CASE requests'[p] = requests[p] /\ (p \in Active => p \notin Rivals(q))
    <3>1. requests[p] = r /\ p \in Active /\ p \notin Rivals(q)
      BY <1>6, <2>1, <2>2 DEF Active
    <3>2. RequestSound(r)
      BY <3>1 DEF IInv, RequestsSound
    <3>3. ~(r.is = is /\ r.args.file = requests[q].args.file)
      BY <1>1, <2>1, <3>1 DEF Rivals
    <3>4. Conditional(r) => ReplacedBy(r)' \subseteq ReplacedBy(r)
      BY <3>2, <3>3 DEF RequestSound
    <3> QED BY <3>2, <3>4, RequestFrame
  <2>3. CASE /\ requests[p] \in Requested
             /\ requests'[p] = [requests[p] EXCEPT !.overtaken = TRUE]
    <3>1. PICK o \in Requested : o = requests[p]
      BY <2>3
    <3>2. requests'[p] = [o EXCEPT !.overtaken = TRUE]
      BY <2>3, <3>1
    <3>3. Same(o, r) /\ r.overtaken /\ r.stores = o.stores /\ r.rows = o.rows
      BY <1>4, <1>6, <2>1, <3>1, <3>2
    <3>4. RequestSound(o)
      BY <3>1 DEF IInv, RequestsSound
    <3>5. Fits(r)'
      BY <3>3, <3>4 DEF RequestSound, Fits, Same, InTransaction
    <3>6. Gathered(r)'
      BY <3>3, <3>4 DEF RequestSound, Gathered, Wants, Same
    <3>7. Unlost(r)'
      BY <3>3 DEF Unlost
    <3> QED BY <3>5, <3>6, <3>7 DEF RequestSound
  <2> QED BY <1>3, <2>1, <2>2, <2>3
<1>7. ASSUME NEW p \in Requests, NEW c
      PROVE  /\ FillsIn(requests[p], c) => FillsIn(requests'[p], c)
             /\ Places(requests'[p], c) => Places(requests[p], c)
  <2>1. CASE p = q
    BY <1>1, <1>2, <2>1 DEF Places
  <2>2. CASE p # q
    <3>1. CASE requests'[p] = requests[p]
      BY <3>1
    <3>2. CASE /\ requests[p] \in Requested
               /\ requests'[p] = [requests[p] EXCEPT !.overtaken = TRUE]
      <4>1. PICK o \in Requested : o = requests[p]
        BY <3>2
      <4>2. requests'[p] = [o EXCEPT !.overtaken = TRUE]
        BY <3>2, <4>1
      <4>3. PICK r \in Requested : /\ requests'[p] = r
                                   /\ r.at = o.at /\ r.stores = o.stores /\ r.rows = o.rows
        BY <1>4, <2>2, <4>1, <4>2
      <4>4. r # Idle /\ o # Idle
        BY FieldsOf
      <4>5. (FillsIn(o, c) => FillsIn(r, c)) /\ (Places(r, c) => Places(o, c))
        BY <4>3, <4>4 DEF FillsIn, Places, Is
      <4> QED BY <4>1, <4>3, <4>5
    <3> QED BY <1>3, <2>2, <3>1, <3>2
  <2> QED BY <2>1, <2>2
<1>8. \A c : OnDisk(c) => OnDisk(c)'
  BY <1>7, DiskFrame
<1>9. \A c \in rows' : c \in rows
  OBVIOUS
<1> QED BY <1>5, <1>6, <1>7, <1>8, <1>9, StepKeeps


LEMMA UploadIs ==
  ASSUME NEW r \in Requested, r.is = "upload"
  PROVE  /\ r.args.file = <<r.args.file[1], r.args.file[2]>>
         /\ r.args.file[2] \in Names \cup {Index} /\ r.args.content \in Contents
BY FieldsOf DEF Uploads, Under

LEMMA UpdateIs ==
  ASSUME NEW r \in Requested, r.is = "update"
  PROVE  r.args.content \in Contents
BY FieldsOf DEF Updates, Under

LEMMA AddIs ==
  ASSUME NEW r \in Requested, r.is = "add"
  PROVE  /\ r.args \in Resource
         /\ r.args.file \in Contents
<1>1. r.args \in [name : ResourceNames, parent : Nat \cup {Root}, file : Contents]
  BY FieldsOf DEF Adds, Under
<1> QED BY <1>1 DEF Resource

LEMMA ModuleIs ==
  ASSUME NEW r \in Requested, r.is = "module"
  PROVE  r.args.content \in Contents
BY FieldsOf DEF Modules, Under

LEMMA ImportIs ==
  ASSUME NEW r \in Requested, r.is = "import"
  PROVE  r.args.archive \in Archives /\ Indices(r.args.archive) # {}
BY FieldsOf DEF Imports, Under

LEMMA LoadIs ==
  ASSUME NEW r \in Requested, r.is = "collection"
  PROVE  r.args.collection \in Collections
BY FieldsOf DEF Loads, Under

\* One document is changed, and what it keeps then has rows.
LEMMA DocumentKept ==
  ASSUME IInv, NEW d \in DOMAIN documents, NEW y \in Document,
         documents' = [documents EXCEPT ![d] = y], UNCHANGED <<rows, resources>>,
         y.is # "deleted" => KeptBy(y) \subseteq rows
  PROVE  /\ \E n \in Nat : documents' \in [1..n -> Document]
         /\ \E n \in Nat : resources' \in [1..n -> Resource]
         /\ DOMAIN documents' = DOMAIN documents /\ documents'[d] = y
         /\ \A e \in DOMAIN documents \ {d} : documents'[e] = documents[e]
         /\ Held' \subseteq rows' /\ ResourceTreeSound'
<1>1. /\ \E n \in Nat : documents' \in [1..n -> Document]
      /\ DOMAIN documents' = DOMAIN documents /\ documents'[d] = y
      /\ \A e \in DOMAIN documents \ {d} : documents'[e] = documents[e]
  BY DocumentChanged DEF IInv
<1>2. /\ \A e \in DOMAIN documents :
            documents[e].is # "deleted" => KeptBy(documents[e]) \subseteq rows
      /\ \A x \in DOMAIN resources :
            resources[x].file # NoFile => resources[x].file \in rows
  BY HeldHas DEF IInv
<1>3. \A e \in DOMAIN documents' :
            documents'[e].is # "deleted" => KeptBy(documents'[e]) \subseteq rows'
  BY <1>1, <1>2
<1>4. Held' \subseteq rows'
  BY <1>2, <1>3, HoldsThen
<1>5. ResourceTreeSound'
  BY SameTree DEF IInv
<1> QED BY <1>1, <1>4, <1>5 DEF IInv, Types

\* An upload to a file that is left alone, or deleted.
LEMMA UploadFrame ==
  ASSUME NEW r \in Requested, r.is = "upload", NEW e, NEW m,
         r.args.file[1] = e, r.args.file[2] = m,
         m = Index => documents'[e].index = documents[e].index,
         m # Index /\ m \in DOMAIN documents'[e].files =>
            m \in DOMAIN documents[e].files /\ documents'[e].files[m] = documents[e].files[m]
  PROVE  ReplacedBy(r)' \subseteq ReplacedBy(r)
<1>1. /\ m \in FilesOf(e) <=> m = Index \/ m \in DOMAIN documents[e].files
      /\ m \in FilesOf(e)' <=> m = Index \/ m \in DOMAIN documents'[e].files
  BY DEF FilesOf
<1>2. m \in FilesOf(e)' => m \in FilesOf(e) /\ FileOf(e, m)' = FileOf(e, m)
  BY <1>1 DEF FileOf
<1>3. /\ ReplacedBy(r) = IF m \in FilesOf(e) THEN {FileOf(e, m)} ELSE {}
      /\ ReplacedBy(r)' = IF m \in FilesOf(e)' THEN {FileOf(e, m)'} ELSE {}
  BY DEF ReplacedBy
<1> QED BY <1>2, <1>3

LEMMA UpdateFrame ==
  ASSUME NEW r, r.is = "update", resources'[r.args.file].file = resources[r.args.file].file
  PROVE  ReplacedBy(r)' \subseteq ReplacedBy(r)
BY DEF ReplacedBy

LEMMA WriteFileKeeps ==
  ASSUME IInv, WriteFile PROVE IInv'
<1>1. PICK q \in Requests :
        LET args == requests[q].args
            d == args.file[1]
            n == args.file[2]
        IN  /\ Ready(q, "upload")
            /\ documents' =
                   IF documents[d].is = "deleted" THEN documents
                   ELSE IF n = Index THEN [documents EXCEPT ![d].index = args.content]
                   ELSE [documents EXCEPT ![d].files = With(@, n, args.content)]
            /\ EndWriting(q)
            /\ UNCHANGED <<rows, disk, resources, cut>>
  BY DEF WriteFile
<1>2. PICK r \in Requested : r = requests[q]
  BY <1>1, ReadyIs
<1>3. r.is = "upload" /\ RequestSound(r) /\ Wants(r) \subseteq rows \cup r.rows
  BY <1>1, <1>2, ReadyIs
<1>4. PICK d, n, c : d = r.args.file[1] /\ n = r.args.file[2] /\ c = r.args.content
  OBVIOUS
<1>5. /\ r.args.file = <<d, n>> /\ n \in Names \cup {Index} /\ c \in Contents
  BY <1>3, <1>4, UploadIs
<1>6. d \in DOMAIN documents
  BY <1>3, <1>4 DEF RequestSound, Fits
<1>7. c \in rows
  BY <1>3, <1>4 DEF Wants, RequestSound, Fits, InTransaction
<1>8. documents[d] \in Document
  BY <1>6, TablesAre DEF IInv
<1> DEFINE x == documents[d]
           y == IF x.is = "deleted" THEN x
                ELSE IF n = Index THEN [x EXCEPT !.index = c]
                ELSE [x EXCEPT !.files = With(@, n, c)]
<1>9. documents' = [documents EXCEPT ![d] = y]
  <2>1. documents = [documents EXCEPT ![d] = documents[d]]
    BY <1>6 DEF IInv, Types
  <2> QED BY <1>1, <1>2, <1>4, <2>1
<1>10. /\ y \in Document /\ y.is = x.is
       /\ y.is # "deleted" => KeptBy(y) \subseteq KeptBy(x) \cup {c}
       /\ n # Index => y.index = x.index
       /\ \A m \in DOMAIN y.files \ {n} : m \in DOMAIN x.files /\ y.files[m] = x.files[m]
  <2>1. CASE x.is = "deleted"
    BY <1>8, <2>1
  <2>2. CASE x.is # "deleted" /\ n = Index
    <3>1. y = [x EXCEPT !.index = c]
      BY <2>2
    <3> HIDE DEF y, x
    <3>2. y \in Document /\ y.is = x.is /\ y.index = c /\ y.files = x.files
      BY <1>5, <1>8, <3>1, IndexReplaced, ContentsAreAll DEF x
    <3> QED BY <2>2, <3>2 DEF KeptBy
  <2>3. CASE x.is # "deleted" /\ n # Index
    <3>1. Refiled(y, x, With(x.files, n, c))
      BY <2>3 DEF Refiled
    <3>2. x \in Document /\ c \in All
      BY <1>5, <1>8, ContentsAreAll
    <3> HIDE DEF y, x
    <3>3. /\ y \in Document /\ y.is = x.is /\ y.index = x.index
          /\ DOMAIN y.files = DOMAIN x.files \cup {n} /\ y.files[n] = c
          /\ \A m \in DOMAIN x.files \ {n} : y.files[m] = x.files[m]
      BY <1>5, <3>1, <3>2, FileWritten
    <3>4. KeptBy(y) \subseteq KeptBy(x) \cup {c}
      BY <3>3 DEF KeptBy
    <3> QED BY <3>3, <3>4
  <2> QED BY <2>1, <2>2, <2>3
<1>11. x.is # "deleted" => KeptBy(x) \subseteq rows
  BY <1>6, HeldHas DEF IInv
<1> HIDE DEF y
<1>12. y.is # "deleted" => KeptBy(y) \subseteq rows
  BY <1>7, <1>10, <1>11
<1>13. /\ \E k \in Nat : documents' \in [1..k -> Document]
       /\ \E k \in Nat : resources' \in [1..k -> Resource]
       /\ DOMAIN documents' = DOMAIN documents /\ documents'[d] = y
       /\ \A e \in DOMAIN documents \ {d} : documents'[e] = documents[e]
       /\ Held' \subseteq rows' /\ ResourceTreeSound'
  <2>1. y \in Document /\ UNCHANGED <<rows, resources>>
    BY <1>1, <1>10
  <2> QED BY <1>6, <1>9, <1>12, <2>1, DocumentKept
<1>14. ASSUME NEW s \in Requested, Conditional(s), Fits(s),
              ~(s.is = "upload" /\ s.args.file = requests[q].args.file)
       PROVE  ReplacedBy(s)' \subseteq ReplacedBy(s)
  <2>1. CASE s.is = "update"
    BY <1>1, <2>1, UpdateFrame
  <2>2. CASE s.is = "upload"
    <3>1. PICK e, m : e = s.args.file[1] /\ m = s.args.file[2]
      OBVIOUS
    <3>2. s.args.file = <<e, m>> /\ e \in DOMAIN documents
      BY <1>14, <2>2, <3>1, UploadIs DEF Fits
    <3>3. e = d => m # n
      BY <1>2, <1>5, <1>14, <2>2, <3>2
    <3>4. /\ m = Index => documents'[e].index = documents[e].index
          /\ m # Index /\ m \in DOMAIN documents'[e].files =>
                m \in DOMAIN documents[e].files
                /\ documents'[e].files[m] = documents[e].files[m]
      <4>1. CASE e = d
        BY <1>10, <1>13, <3>3, <4>1
      <4>2. CASE e # d
        BY <1>13, <3>2, <4>2
      <4> QED BY <4>1, <4>2
    <3> QED BY <2>2, <3>1, <3>4, UploadFrame
  <2> QED BY <1>14, <2>1, <2>2 DEF Conditional
<1> QED BY <1>1, <1>13, <1>14, EndWritingKeeps

LEMMA SetFileKeeps ==
  ASSUME IInv, SetFile PROVE IInv'
<1>1. PICK q \in Requests :
        /\ Ready(q, "update")
        /\ resources' = [resources EXCEPT ![requests[q].args.file].file =
                             requests[q].args.content]
        /\ EndWriting(q)
        /\ UNCHANGED <<rows, disk, documents, cut>>
  BY DEF SetFile
<1>2. PICK r \in Requested : r = requests[q]
  BY <1>1, ReadyIs
<1>3. r.is = "update" /\ RequestSound(r) /\ Wants(r) \subseteq rows \cup r.rows
  BY <1>1, <1>2, ReadyIs
<1>4. PICK f, c : f = r.args.file /\ c = r.args.content
  OBVIOUS
<1>5. c \in Contents
  BY <1>3, <1>4, UpdateIs
<1>6. f \in DOMAIN resources
  BY <1>3, <1>4 DEF RequestSound, Fits
<1>7. c \in rows
  BY <1>3, <1>4 DEF Wants, RequestSound, Fits, InTransaction
<1>8. resources' = [resources EXCEPT ![f].file = c]
  BY <1>1, <1>2, <1>4
<1>9. PICK k \in Nat : resources \in [1..k -> Resource]
  BY DEF IInv, Types
<1>10. /\ resources' \in [1..k -> Resource] /\ DOMAIN resources' = DOMAIN resources
       /\ resources'[f].file = c
       /\ \A x \in DOMAIN resources :
            /\ resources'[x].name = resources[x].name
            /\ resources'[x].parent = resources[x].parent
            /\ x # f => resources'[x].file = resources[x].file
  BY <1>5, <1>6, <1>8, <1>9 DEF Resource
<1>11. ResourceTreeSound'
  BY <1>10, SameTree DEF IInv
<1>12. Held' \subseteq rows'
  <2>1. /\ \A e \in DOMAIN documents :
            documents[e].is # "deleted" => KeptBy(documents[e]) \subseteq rows
        /\ \A x \in DOMAIN resources :
            resources[x].file # NoFile => resources[x].file \in rows
    BY HeldHas DEF IInv
  <2>2. \A e \in DOMAIN documents' :
            documents'[e].is # "deleted" => KeptBy(documents'[e]) \subseteq rows'
    BY <1>1, <2>1
  <2>3. \A x \in DOMAIN resources' :
            resources'[x].file # NoFile => resources'[x].file \in rows'
    BY <1>1, <1>7, <1>10, <2>1
  <2> QED BY <2>2, <2>3, HoldsThen
<1>13. ASSUME NEW s \in Requested, Conditional(s), Fits(s),
              ~(s.is = "update" /\ s.args.file = requests[q].args.file)
       PROVE  ReplacedBy(s)' \subseteq ReplacedBy(s)
  <2>1. CASE s.is = "update"
    <3>1. s.args.file \in DOMAIN resources /\ s.args.file # f
      BY <1>2, <1>4, <1>13, <2>1 DEF Fits
    <3> QED BY <1>10, <2>1, <3>1, UpdateFrame
  <2>2. CASE s.is = "upload"
    BY <1>1, <2>2, UploadFrame
  <2> QED BY <1>13, <2>1, <2>2 DEF Conditional
<1>14. /\ \E j \in Nat : documents' \in [1..j -> Document]
       /\ \E j \in Nat : resources' \in [1..j -> Resource]
       /\ DOMAIN documents \subseteq DOMAIN documents'
       /\ DOMAIN resources \subseteq DOMAIN resources'
  BY <1>1, <1>10 DEF IInv, Types
<1> QED BY <1>1, <1>11, <1>12, <1>13, <1>14, EndWritingKeeps


LEMMA AddResourceKeeps ==
  ASSUME IInv, AddResource PROVE IInv'
<1>1. PICK q \in Requests :
        LET args == requests[q].args
        IN  /\ Ready(q, "add")
            /\ IF Taken(args.name, args.parent, NewResource)
               THEN UNCHANGED <<resources, rows>>
               ELSE CreateResource(args) /\ rows' = rows \cup requests[q].rows
            /\ End(q)
            /\ UNCHANGED <<disk, documents, cut>>
  BY DEF AddResource
<1>2. PICK r \in Requested : r = requests[q]
  BY <1>1, ReadyIs
<1>3. r.is = "add" /\ RequestSound(r) /\ Wants(r) \subseteq rows \cup r.rows
  BY <1>1, <1>2, ReadyIs
<1>4. PICK args : args = r.args
  OBVIOUS
<1>5. args \in Resource /\ args.parent \in DOMAIN resources \cup {Root}
  BY <1>3, <1>4, AddIs DEF RequestSound, Fits
<1>6. args.file \in rows \cup r.rows
  BY <1>3, <1>4 DEF Wants
<1>7. CASE Taken(args.name, args.parent, NewResource)
  <2>1. UNCHANGED <<resources, rows, documents>>
    BY <1>1, <1>2, <1>4, <1>7
  <2>2. Held' \subseteq rows' /\ ResourceTreeSound' /\ Grown
    BY <2>1, SameTables DEF IInv
  <2>3. /\ \E n \in Nat : documents' \in [1..n -> Document]
        /\ \E n \in Nat : resources' \in [1..n -> Resource]
    BY <2>1 DEF IInv, Types
  <2> QED BY <1>1, <2>1, <2>2, <2>3, EndKeeps
<1>8. CASE ~Taken(args.name, args.parent, NewResource)
  <2>1. CreateResource(args) /\ rows' = rows \cup r.rows
    BY <1>1, <1>2, <1>4, <1>8
  <2>2. /\ \E n \in Nat : resources' \in [1..n -> Resource]
        /\ ResourceTreeSound'
        /\ \A x \in DOMAIN resources :
                x \in DOMAIN resources' /\ resources'[x] = resources[x]
        /\ \A x \in DOMAIN resources' : x \in DOMAIN resources \/ resources'[x] = args
    BY <1>5, <1>8, <2>1, ResourceCreated DEF IInv
  <2>3. Grown
    BY <1>1, <2>2 DEF Grown
  <2>4. Held' \subseteq rows'
    <3>1. /\ \A e \in DOMAIN documents :
                documents[e].is # "deleted" => KeptBy(documents[e]) \subseteq rows
          /\ \A x \in DOMAIN resources :
                resources[x].file # NoFile => resources[x].file \in rows
      BY HeldHas DEF IInv
    <3>2. \A e \in DOMAIN documents' :
                documents'[e].is # "deleted" => KeptBy(documents'[e]) \subseteq rows'
      BY <1>1, <2>1, <3>1
    <3>3. \A x \in DOMAIN resources' :
                resources'[x].file # NoFile => resources'[x].file \in rows'
      BY <1>6, <2>1, <2>2, <3>1
    <3> QED BY <3>2, <3>3, HoldsThen
  <2>5. \E n \in Nat : documents' \in [1..n -> Document]
    BY <1>1 DEF IInv, Types
  <2>6. rows \subseteq rows' /\ rows' \subseteq rows \cup requests[q].rows
    BY <1>2, <2>1
  <2> QED BY <1>1, <2>2, <2>3, <2>4, <2>5, <2>6, EndKeeps
<1> QED BY <1>7, <1>8

\* A request ends and leaves documents.
LEMMA CreationKeeps ==
  ASSUME IInv, NEW q \in Requests, NEW is, Ready(q, is), End(q),
         NEW new \in Seq(Document), CreateDocuments(new),
         UNCHANGED <<disk, resources, cut>>,
         rows \subseteq rows', rows' \subseteq rows \cup requests[q].rows,
         \A k \in DOMAIN new : KeptBy(new[k]) \subseteq rows'
  PROVE  IInv'
<1>1. /\ \E n \in Nat : documents' \in [1..n -> Document]
      /\ Held' \subseteq rows' /\ Grown
  BY NewDocumentsKeep DEF IInv
<1>2. ResourceTreeSound'
  BY SameTree DEF IInv
<1>3. \E n \in Nat : resources' \in [1..n -> Resource]
  BY DEF IInv, Types
<1> QED BY <1>1, <1>2, <1>3, EndKeeps

LEMMA OneDocument ==
  ASSUME NEW y \in Document
  PROVE  /\ <<y>> \in Seq(Document) /\ DOMAIN <<y>> = {1} /\ <<y>>[1] = y
OBVIOUS

LEMMA AddModuleKeeps ==
  ASSUME IInv, AddModule PROVE IInv'
<1>1. PICK q \in Requests :
        /\ Ready(q, "module")
        /\ CreateDocument([index |-> requests[q].args.content, files |-> << >>,
                           is |-> "module"])
        /\ End(q)
        /\ UNCHANGED <<rows, disk, resources, cut>>
  BY DEF AddModule
<1>2. PICK r \in Requested : r = requests[q]
  BY <1>1, ReadyIs
<1>3. r.is = "module" /\ RequestSound(r) /\ Wants(r) \subseteq rows \cup r.rows
  BY <1>1, <1>2, ReadyIs
<1>4. PICK c : c = r.args.content
  OBVIOUS
<1>5. c \in Contents /\ c \in rows
  BY <1>3, <1>4, ModuleIs DEF Wants, RequestSound, Fits, InTransaction
<1> DEFINE f == << >>  y == [index |-> c, files |-> f, is |-> "module"]
<1>6. DOMAIN f = {} /\ Tabled(f)
  BY DEF Tabled
<1> HIDE DEF f
<1>7. y.index = c /\ y.files = f /\ y.is = "module"
  OBVIOUS
<1>8. y = [index |-> y.index, files |-> y.files, is |-> y.is]
  OBVIOUS
<1>9. CreateDocuments(<<y>>)
  BY <1>1, <1>2, <1>4 DEF CreateDocument, f
<1> HIDE DEF y
<1>10. y \in Document
  BY <1>5, <1>6, <1>7, <1>8, DocumentFields, ContentsAreAll
<1>11. KeptBy(y) = {c}
  BY <1>6, <1>7 DEF KeptBy
<1> DEFINE new == <<y>>
<1>12. new \in Seq(Document) /\ CreateDocuments(new)
       /\ \A k \in DOMAIN new : KeptBy(new[k]) \subseteq rows'
  BY <1>1, <1>5, <1>9, <1>10, <1>11, OneDocument
<1> HIDE DEF new
<1> QED BY <1>1, <1>12, CreationKeeps

LEMMA FinishImportKeeps ==
  ASSUME IInv, FinishImport PROVE IInv'
<1>1. PICK q \in Requests :
        LET archive == requests[q].args.archive
        IN  /\ Ready(q, "import")
            /\ IF NamesRepeat(archive) THEN UNCHANGED <<documents, rows>>
               ELSE CreateDocument(DocumentOf(archive)) /\ rows' = rows \cup requests[q].rows
            /\ End(q)
            /\ UNCHANGED <<disk, resources, cut>>
  BY DEF FinishImport
<1>2. PICK r \in Requested : r = requests[q]
  BY <1>1, ReadyIs
<1>3. r.is = "import" /\ Wants(r) \subseteq rows \cup r.rows
  BY <1>1, <1>2, ReadyIs
<1>4. PICK a : a = r.args.archive
  OBVIOUS
<1>5. a \in Seq(Entries) /\ Indices(a) # {}
  BY <1>3, <1>4, ImportIs, ArchivesAssumption
<1>6. ToSet(Unpacked(a)) \subseteq rows \cup r.rows
  BY <1>3, <1>4 DEF Wants
<1>7. CASE NamesRepeat(a)
  <2>1. UNCHANGED <<resources, rows, documents>>
    BY <1>1, <1>2, <1>4, <1>7
  <2>2. Held' \subseteq rows' /\ ResourceTreeSound' /\ Grown
    BY <2>1, SameTables DEF IInv
  <2>3. /\ \E n \in Nat : documents' \in [1..n -> Document]
        /\ \E n \in Nat : resources' \in [1..n -> Resource]
    BY <2>1 DEF IInv, Types
  <2> QED BY <1>1, <2>1, <2>2, <2>3, EndKeeps
<1>8. CASE ~NamesRepeat(a)
  <2> DEFINE y == DocumentOf(a)  new == <<y>>
  <2>1. CreateDocuments(new) /\ rows' = rows \cup r.rows
    BY <1>1, <1>2, <1>4, <1>8 DEF CreateDocument
  <2>2. y = DocumentOf(a)
    OBVIOUS
  <2> HIDE DEF y
  <2>3. /\ y \in Document
        /\ y.index \in ToSet(Unpacked(a))
        /\ \A n \in DOMAIN y.files : y.files[n] \in ToSet(Unpacked(a))
    BY <1>5, <2>2, DocumentOfIs
  <2>4. KeptBy(y) \subseteq rows'
    BY <1>6, <2>1, <2>3 DEF KeptBy
  <2>5. new \in Seq(Document) /\ \A k \in DOMAIN new : KeptBy(new[k]) \subseteq rows'
    BY <2>3, <2>4, OneDocument
  <2>6. rows \subseteq rows' /\ rows' \subseteq rows \cup requests[q].rows
    BY <1>2, <2>1
  <2> HIDE DEF new
  <2> QED BY <1>1, <2>1, <2>5, <2>6, CreationKeeps
<1> QED BY <1>7, <1>8

LEMMA FinishCollectionKeeps ==
  ASSUME IInv, FinishCollection PROVE IInv'
<1>1. PICK q \in Requests :
        LET collection == requests[q].args.collection
            modules == ModulesIn(collection)
        IN  /\ Ready(q, "collection")
            /\ IF \E m \in DOMAIN modules : ~CanCreate(collection, m)
               THEN UNCHANGED <<documents, rows>>
               ELSE /\ CreateDocuments([m \in DOMAIN modules |-> DocumentOf(modules[m])])
                    /\ rows' = rows \cup requests[q].rows
            /\ End(q)
            /\ UNCHANGED <<disk, resources, cut>>
  BY DEF FinishCollection
<1>2. PICK r \in Requested : r = requests[q]
  BY <1>1, ReadyIs
<1>3. r.is = "collection" /\ Wants(r) \subseteq rows \cup r.rows
  BY <1>1, <1>2, ReadyIs
<1>4. PICK c : c = r.args.collection
  OBVIOUS
<1>5. c \in Collections
  BY <1>3, <1>4, LoadIs
<1>6. ToSet(Loaded(c)) \subseteq rows \cup r.rows
  BY <1>3, <1>4 DEF Wants
<1>7. DOMAIN ModulesIn(c) = DOMAIN c.modules
  BY DEF ModulesIn
<1>8. CASE \E m \in DOMAIN ModulesIn(c) : ~CanCreate(c, m)
  <2>1. UNCHANGED <<resources, rows, documents>>
    BY <1>1, <1>2, <1>4, <1>8
  <2>2. Held' \subseteq rows' /\ ResourceTreeSound' /\ Grown
    BY <2>1, SameTables DEF IInv
  <2>3. /\ \E n \in Nat : documents' \in [1..n -> Document]
        /\ \E n \in Nat : resources' \in [1..n -> Resource]
    BY <2>1 DEF IInv, Types
  <2> QED BY <1>1, <2>1, <2>2, <2>3, EndKeeps
<1>9. CASE ~ \E m \in DOMAIN ModulesIn(c) : ~CanCreate(c, m)
  <2> DEFINE C == Len(c.modules)
             new == [m \in DOMAIN ModulesIn(c) |-> DocumentOf(ModulesIn(c)[m])]
  <2>1. CreateDocuments(new) /\ rows' = rows \cup r.rows
    BY <1>1, <1>2, <1>4, <1>9
  <2>2. C \in Nat /\ DOMAIN c.modules = 1..C
    <3>1. c.modules \in Seq(Seq(STRING))
      BY <1>5, CollectionsAssumption
    <3> QED BY <3>1
  <2> HIDE DEF C
  <2>3. ASSUME NEW m \in 1..C
        PROVE  DocumentOf(ModulesIn(c)[m]) \in Document
               /\ KeptBy(DocumentOf(ModulesIn(c)[m])) \subseteq rows'
    <3>1. \A k \in 1..C : CanCreate(c, k)
      BY <1>7, <1>9, <2>2
    <3>2. ~IsMissing(c, m)
      BY <3>1 DEF CanCreate
    <3>3. \A k \in 1..(m - 1) : k \in 1..C
      BY <2>2
    <3>4. IsLoaded(c, m)
      BY <3>1, <3>2, <3>3 DEF IsLoaded
    <3> DEFINE a == ModulesIn(c)[m]  y == DocumentOf(a)
    <3>5. m \in DOMAIN c.modules /\ a = ModulesIn(c)[m]
      BY <2>2
    <3> HIDE DEF a
    <3>6. a \in Seq(Entries) /\ Indices(a) # {}
      BY <1>5, <3>2, <3>5, ModulesAre
    <3>7. ToSet(Unpacked(a)) \subseteq ToSet(Loaded(c))
      BY <1>5, <3>4, <3>5, LoadedIs
    <3>8. y = DocumentOf(a)
      OBVIOUS
    <3> HIDE DEF y
    <3>9. /\ y \in Document
          /\ y.index \in ToSet(Unpacked(a))
          /\ \A n \in DOMAIN y.files : y.files[n] \in ToSet(Unpacked(a))
      BY <3>6, <3>8, DocumentOfIs
    <3>10. KeptBy(y) \subseteq rows'
      BY <1>6, <2>1, <3>7, <3>9 DEF KeptBy
    <3> QED BY <3>5, <3>8, <3>9, <3>10
  <2>4. new \in [1..C -> Document] /\ \A k \in DOMAIN new : KeptBy(new[k]) \subseteq rows'
    BY <1>7, <2>2, <2>3
  <2> HIDE DEF new
  <2>5. new \in Seq(Document)
    BY <2>2, <2>4
  <2>6. rows \subseteq rows' /\ rows' \subseteq rows \cup requests[q].rows
    BY <1>2, <2>1
  <2> QED BY <1>1, <2>1, <2>4, <2>5, <2>6, CreationKeeps
<1> QED BY <1>8, <1>9

-----------------------------------------------------------------------------
(***************************************************************************)
(* What is done at once, and the end of everything.                        *)
(***************************************************************************)
LEMMA TablesKeep ==
  ASSUME IInv, UNCHANGED <<rows, disk, requests, cut>>,
         \E n \in Nat : documents' \in [1..n -> Document],
         \E n \in Nat : resources' \in [1..n -> Resource],
         ResourceTreeSound', Held' \subseteq rows',
         \A r \in Requested : RequestSound(r) => RequestSound(r)'
  PROVE  IInv'
<1>1. requests' \in [Requests -> Requested \cup {Idle}]
  BY DEF IInv, Types
<1>2. ASSUME NEW q \in Requests, NEW r \in Requested, requests'[q] = r
      PROVE  RequestSound(r)'
  BY <1>2 DEF IInv, RequestsSound
<1>3. \A c : OnDisk(c) => OnDisk(c)'
  BY DiskFrame
<1>4. \A q \in Requests, c \in All :
            Places(requests'[q], c) => Places(requests[q], c) \/ OnDisk(c)'
  OBVIOUS
<1>5. rows \subseteq rows' /\ \A c \in rows' : c \in rows \/ OnDisk(c)
  OBVIOUS
<1> QED BY <1>1, <1>2, <1>3, <1>4, <1>5, StepKeeps

LEMMA AddDirectoryKeeps ==
  ASSUME IInv, AddDirectory PROVE IInv'
<1>1. PICK n \in ResourceNames, p \in DOMAIN resources \cup {Root} :
        /\ ~Taken(n, p, NewResource)
        /\ CreateResource([name |-> n, parent |-> p, file |-> NoFile])
        /\ UNCHANGED <<rows, disk, documents, requests, cut>>
  BY DEF AddDirectory
<1> DEFINE args == [name |-> n, parent |-> p, file |-> NoFile]
<1>2. args \in Resource
  BY TablesAre DEF IInv, Resource
<1>3. args.name = n /\ args.parent = p /\ args.file = NoFile /\ CreateResource(args)
  BY <1>1
<1> HIDE DEF args
<1>4. /\ \E k \in Nat : resources' \in [1..k -> Resource]
      /\ ResourceTreeSound'
      /\ \A x \in DOMAIN resources :
                x \in DOMAIN resources' /\ resources'[x] = resources[x]
      /\ \A x \in DOMAIN resources' : x \in DOMAIN resources \/ resources'[x] = args
  BY <1>1, <1>2, <1>3, ResourceCreated DEF IInv
<1>5. Grown
  BY <1>1, <1>4 DEF Grown
<1>6. Held' \subseteq rows'
  <2>1. /\ \A e \in DOMAIN documents :
                documents[e].is # "deleted" => KeptBy(documents[e]) \subseteq rows
        /\ \A x \in DOMAIN resources :
                resources[x].file # NoFile => resources[x].file \in rows
    BY HeldHas DEF IInv
  <2>2. \A e \in DOMAIN documents' :
                documents'[e].is # "deleted" => KeptBy(documents'[e]) \subseteq rows'
    BY <1>1, <2>1
  <2>3. \A x \in DOMAIN resources' :
                resources'[x].file # NoFile => resources'[x].file \in rows'
    BY <1>1, <1>3, <1>4, <2>1
  <2> QED BY <2>2, <2>3, HoldsThen
<1>7. \A r \in Requested : RequestSound(r) => RequestSound(r)'
  BY <1>1, <1>5, GrownKeeps
<1>8. \E k \in Nat : documents' \in [1..k -> Document]
  BY <1>1 DEF IInv, Types
<1> QED BY <1>1, <1>4, <1>6, <1>7, <1>8, TablesKeep

LEMMA RenameKeeps ==
  ASSUME IInv, Rename PROVE IInv'
<1>1. PICK r \in DOMAIN resources, n \in ResourceNames :
        /\ ~Taken(n, resources[r].parent, r)
        /\ resources' = [resources EXCEPT ![r].name = n]
        /\ UNCHANGED <<rows, disk, documents, requests, cut>>
  BY DEF Rename
<1>2. PICK k \in Nat : resources \in [1..k -> Resource]
  BY DEF IInv, Types
<1>3. /\ resources' \in [1..k -> Resource] /\ DOMAIN resources' = DOMAIN resources
      /\ resources'[r].name = n
      /\ \A x \in DOMAIN resources :
            /\ resources'[x].parent = resources[x].parent
            /\ resources'[x].file = resources[x].file
            /\ x # r => resources'[x].name = resources[x].name
  BY <1>1, <1>2 DEF Resource
<1>4. ResourceTreeSound'
  <2>1. \A x \in DOMAIN resources :
            /\ resources[x].parent # Root =>
                resources[x].parent \in DOMAIN resources /\ resources[x].parent < x
            /\ ~Taken(resources[x].name, resources[x].parent, x)
    BY DEF IInv, ResourceTreeSound
  <2>2. ASSUME NEW x \in DOMAIN resources, resources[x].parent # Root,
               NEW other \in DOMAIN resources \ {x},
               resources'[other].parent = resources[x].parent,
               resources'[other].name = resources'[x].name
        PROVE  FALSE
    <3>1. resources[other].parent = resources[x].parent /\ resources[other].parent # Root
      BY <1>3, <2>2
    <3>2. CASE x = r
      <4>1. resources[other].name = n
        BY <1>3, <2>2, <3>2
      <4> QED BY <1>1, <2>2, <3>1, <3>2, <4>1 DEF Taken
    <3>3. CASE other = r
      <4>1. resources[x].name = n /\ x \in DOMAIN resources \ {r}
        BY <1>3, <2>2, <3>3
      <4> QED BY <1>1, <3>1, <3>3, <4>1 DEF Taken
    <3>4. CASE x # r /\ other # r
      <4>1. resources[other].name = resources[x].name
        BY <1>3, <2>2, <3>4
      <4> QED BY <2>1, <2>2, <3>1, <4>1 DEF Taken
    <3> QED BY <3>2, <3>3, <3>4
  <2>3. ASSUME NEW x \in DOMAIN resources'
        PROVE  /\ resources'[x].parent # Root =>
                    resources'[x].parent \in DOMAIN resources' /\ resources'[x].parent < x
               /\ ~(resources'[x].parent # Root /\ \E other \in DOMAIN resources' \ {x} :
                        resources'[other].parent = resources'[x].parent
                        /\ resources'[other].name = resources'[x].name)
    BY <1>3, <2>1, <2>2
  <2> QED BY <2>3 DEF ResourceTreeSound, Taken
<1>5. Grown
  BY <1>1, <1>3 DEF Grown
<1>6. Held' \subseteq rows'
  <2>1. /\ \A e \in DOMAIN documents :
                documents[e].is # "deleted" => KeptBy(documents[e]) \subseteq rows
        /\ \A x \in DOMAIN resources :
                resources[x].file # NoFile => resources[x].file \in rows
    BY HeldHas DEF IInv
  <2>2. \A e \in DOMAIN documents' :
                documents'[e].is # "deleted" => KeptBy(documents'[e]) \subseteq rows'
    BY <1>1, <2>1
  <2>3. \A x \in DOMAIN resources' :
                resources'[x].file # NoFile => resources'[x].file \in rows'
    BY <1>1, <1>3, <2>1
  <2> QED BY <2>2, <2>3, HoldsThen
<1>7. \A s \in Requested : RequestSound(s) => RequestSound(s)'
  BY <1>1, <1>5, GrownKeeps
<1>8. \E j \in Nat : documents' \in [1..j -> Document]
  BY <1>1 DEF IInv, Types
<1> QED BY <1>1, <1>3, <1>4, <1>6, <1>7, <1>8, TablesKeep

LEMMA BeginDraftKeeps ==
  ASSUME IInv, BeginDraft PROVE IInv'
<1>1. PICK d \in DOMAIN documents :
        /\ documents[d].is = "module"
        /\ CreateDocument([documents[d] EXCEPT !.is = "draft"])
        /\ UNCHANGED <<rows, disk, resources, requests, cut>>
  BY DEF BeginDraft
<1> DEFINE x == documents[d]  y == [x EXCEPT !.is = "draft"]  new == <<y>>
<1>2. x \in Document /\ KeptBy(x) \subseteq rows
  BY <1>1, TablesAre, HeldHas DEF IInv
<1>3. y = [x EXCEPT !.is = "draft"] /\ CreateDocuments(new)
  BY <1>1 DEF CreateDocument
<1> HIDE DEF x, y
<1>4. y \in Document /\ y.index = x.index /\ y.files = x.files
  BY <1>2, <1>3, StateChanged
<1>5. KeptBy(y) \subseteq rows'
  BY <1>1, <1>2, <1>4 DEF KeptBy
<1>6. new \in Seq(Document) /\ \A k \in DOMAIN new : KeptBy(new[k]) \subseteq rows'
  BY <1>4, <1>5, OneDocument
<1> HIDE DEF new
<1>7. /\ \E n \in Nat : documents' \in [1..n -> Document]
      /\ Held' \subseteq rows' /\ Grown
  BY <1>1, <1>3, <1>6, NewDocumentsKeep DEF IInv
<1>8. ResourceTreeSound' /\ \E n \in Nat : resources' \in [1..n -> Resource]
  BY <1>1, SameTree DEF IInv, Types
<1>9. \A s \in Requested : RequestSound(s) => RequestSound(s)'
  BY <1>1, <1>7, GrownKeeps
<1> QED BY <1>1, <1>7, <1>8, <1>9, TablesKeep

LEMMA DeleteFileKeeps ==
  ASSUME IInv, DeleteFile PROVE IInv'
<1>0. PICK d \in DOMAIN documents : \E n \in DOMAIN documents[d].files :
        /\ documents[d].is = "draft"
        /\ documents' = [documents EXCEPT ![d].files = Restrict(@, DOMAIN @ \ {n})]
        /\ UNCHANGED <<rows, disk, resources, requests, cut>>
  BY DEF DeleteFile
<1>1. PICK n \in DOMAIN documents[d].files :
        /\ documents[d].is = "draft"
        /\ documents' = [documents EXCEPT ![d].files = Restrict(@, DOMAIN @ \ {n})]
        /\ UNCHANGED <<rows, disk, resources, requests, cut>>
  BY <1>0
<1> PICK x : x = documents[d]
  OBVIOUS
<1> PICK y : Refiled(y, x, Without(x.files, n))
  BY DEF Refiled
<1>2. x \in Document /\ KeptBy(x) \subseteq rows
  BY <1>1, TablesAre, HeldHas DEF IInv
<1>3. /\ Refiled(y, x, Without(x.files, n))
      /\ documents' = [documents EXCEPT ![d] = y]
  BY <1>1 DEF Refiled, Without
<1>4. x \in Document /\ Refiled(y, x, Without(x.files, n))
  BY <1>2
<1>5. /\ y \in Document /\ y.is = x.is /\ y.index = x.index
      /\ DOMAIN y.files = DOMAIN x.files \ {n}
      /\ \A m \in DOMAIN x.files \ {n} : y.files[m] = x.files[m]
  <2>1. IsWithout(y, x, n)
    BY <1>4, FileRemoved
  <2> QED BY <2>1 DEF IsWithout
<1>6. KeptBy(y) \subseteq rows
  BY <1>2, <1>5 DEF KeptBy
<1>7. UNCHANGED <<rows, resources>>
  BY <1>1
<1>8. /\ \E k \in Nat : documents' \in [1..k -> Document]
      /\ \E k \in Nat : resources' \in [1..k -> Resource]
      /\ DOMAIN documents' = DOMAIN documents /\ documents'[d] = y
      /\ \A e \in DOMAIN documents \ {d} : documents'[e] = documents[e]
      /\ Held' \subseteq rows' /\ ResourceTreeSound'
  BY <1>3, <1>5, <1>6, <1>7, DocumentKept
<1>9. ASSUME NEW s \in Requested, RequestSound(s)
      PROVE  RequestSound(s)'
  <2>1. ASSUME Conditional(s) PROVE ReplacedBy(s)' \subseteq ReplacedBy(s)
    <3>1. CASE s.is = "update"
      BY <1>1, <3>1, UpdateFrame
    <3>2. CASE s.is = "upload"
      <4>1. PICK e, m : e = s.args.file[1] /\ m = s.args.file[2]
        OBVIOUS
      <4>2. e \in DOMAIN documents
        BY <1>9, <3>2, <4>1 DEF RequestSound, Fits
      <4>3. /\ m = Index => documents'[e].index = documents[e].index
            /\ m # Index /\ m \in DOMAIN documents'[e].files =>
                m \in DOMAIN documents[e].files
                /\ documents'[e].files[m] = documents[e].files[m]
        BY <1>4, <1>5, <1>8, <4>2
      <4> QED BY <3>2, <4>1, <4>3, UploadFrame
    <3> QED BY <2>1, <3>1, <3>2 DEF Conditional
  <2> QED BY <1>7, <1>8, <1>9, <2>1, RequestFrame
<1> QED BY <1>1, <1>8, <1>9, TablesKeep

LEMMA DeleteDraftKeeps ==
  ASSUME IInv, DeleteDraft PROVE IInv'
<1>1. PICK d \in DOMAIN documents :
        /\ documents' = [documents EXCEPT ![d].is = "deleted"]
        /\ UNCHANGED <<rows, disk, resources, requests, cut>>
  BY DEF DeleteDraft
<1> DEFINE x == documents[d]  y == [x EXCEPT !.is = "deleted"]
<1>2. x \in Document /\ x = documents[d]
  BY TablesAre DEF IInv
<1>3. /\ y = [x EXCEPT !.is = "deleted"]
      /\ documents' = [documents EXCEPT ![d] = y]
  BY <1>1
<1> HIDE DEF x, y
<1>4. y \in Document /\ y.is = "deleted" /\ y.index = x.index /\ y.files = x.files
  BY <1>2, <1>3, StateChanged
<1>5. UNCHANGED <<rows, resources>>
  BY <1>1
<1>6. /\ \E k \in Nat : documents' \in [1..k -> Document]
      /\ \E k \in Nat : resources' \in [1..k -> Resource]
      /\ DOMAIN documents' = DOMAIN documents /\ documents'[d] = y
      /\ \A e \in DOMAIN documents \ {d} : documents'[e] = documents[e]
      /\ Held' \subseteq rows' /\ ResourceTreeSound'
  BY <1>3, <1>4, <1>5, DocumentKept
<1>7. Grown
  BY <1>2, <1>4, <1>5, <1>6 DEF Grown
<1>8. \A s \in Requested : RequestSound(s) => RequestSound(s)'
  BY <1>5, <1>7, GrownKeeps
<1> QED BY <1>1, <1>6, <1>8, TablesKeep

\* What was being filled in when the server stopped is cut off.
LEMMA CrashKeeps ==
  ASSUME IInv, Crash PROVE IInv'
<1>1. /\ requests' = [q \in Requests |-> Idle]
      /\ cut' = cut \cup {Content(q) : q \in {p \in Active : At(p, "fill")}}
      /\ UNCHANGED <<rows, disk, documents, resources>>
  BY DEF Crash
<1>2. requests' \in [Requests -> Requested \cup {Idle}] /\ \A q \in Requests : requests'[q] = Idle
  BY <1>1
<1>3. Held' \subseteq rows' /\ ResourceTreeSound'
  BY <1>1, SameTables DEF IInv
<1>4. ASSUME NEW c, OnDisk(c) PROVE OnDisk(c)'
  <2>1. CASE disk[c] = "whole" \/ c \in cut
    BY <1>1, <1>4, <2>1 DEF OnDisk
  <2>2. CASE \E q \in Requests : FillsIn(requests[q], c)
    <3>1. PICK q \in Requests : FillsIn(requests[q], c)
      BY <2>2
    <3>2. q \in Active /\ At(q, "fill") /\ c = Content(q)
      BY <3>1 DEF FillsIn, Is, Active, At, Content
    <3>3. c \in cut'
      BY <1>1, <3>2
    <3> QED BY <1>1, <1>4, <3>3 DEF OnDisk
  <2> QED BY <1>4, <2>1, <2>2 DEF OnDisk
<1>5. \A q \in Requests, r \in Requested : requests'[q] # r
  BY <1>2, FieldsOf
<1>6. \A q \in Requests, c \in All : ~Places(requests'[q], c)
  BY <1>2 DEF Places
<1>7. rows \subseteq rows' /\ \A c \in rows' : c \in rows \/ OnDisk(c)
  BY <1>1
<1>8. /\ \E n \in Nat : documents' \in [1..n -> Document]
      /\ \E n \in Nat : resources' \in [1..n -> Resource]
  BY <1>1 DEF IInv, Types
<1> QED BY <1>2, <1>3, <1>4, <1>5, <1>6, <1>7, <1>8, StepKeeps


LEMMA SameSound ==
  ASSUME UNCHANGED vars, IInv PROVE IInv'
<1>1. Held' \subseteq rows' /\ ResourceTreeSound' /\ Grown
  BY SameTables DEF IInv, vars
<1>2. \A r \in Requested : RequestSound(r) => RequestSound(r)'
  BY <1>1, GrownKeeps DEF vars
<1> QED BY <1>1, <1>2, TablesKeep DEF IInv, Types, vars

LEMMA NextInvariant == IInv /\ [Next]_vars => IInv'
<1> SUFFICES ASSUME IInv, [Next]_vars PROVE IInv'
  OBVIOUS
<1>1. CASE BeginUpload BY <1>1, BeginUploadKeeps
<1>2. CASE BeginUpdate BY <1>2, BeginUpdateKeeps
<1>3. CASE BeginAddResource BY <1>3, BeginAddResourceKeeps
<1>4. CASE BeginModule BY <1>4, BeginModuleKeeps
<1>5. CASE BeginImport BY <1>5, BeginImportKeeps
<1>6. CASE BeginCollection BY <1>6, BeginCollectionKeeps
<1>7. CASE LookUp BY <1>7, LookUpKeeps
<1>8. CASE Place BY <1>8, PlaceKeeps
<1>9. CASE Fill BY <1>9, FillKeeps
<1>10. CASE Insert BY <1>10, InsertKeeps
<1>11. CASE WriteFile BY <1>11, WriteFileKeeps
<1>12. CASE SetFile BY <1>12, SetFileKeeps
<1>13. CASE AddResource BY <1>13, AddResourceKeeps
<1>14. CASE AddModule BY <1>14, AddModuleKeeps
<1>15. CASE FinishImport BY <1>15, FinishImportKeeps
<1>16. CASE FinishCollection BY <1>16, FinishCollectionKeeps
<1>17. CASE AddDirectory BY <1>17, AddDirectoryKeeps
<1>18. CASE Rename BY <1>18, RenameKeeps
<1>19. CASE BeginDraft BY <1>19, BeginDraftKeeps
<1>20. CASE DeleteFile BY <1>20, DeleteFileKeeps
<1>21. CASE DeleteDraft BY <1>21, DeleteDraftKeeps
<1>22. CASE Crash BY <1>22, CrashKeeps
<1>23. CASE UNCHANGED vars BY <1>23, SameSound
<1> QED BY <1>1, <1>2, <1>3, <1>4, <1>5, <1>6, <1>7, <1>8, <1>9, <1>10, <1>11, <1>12,
           <1>13, <1>14, <1>15, <1>16, <1>17, <1>18, <1>19, <1>20, <1>21, <1>22, <1>23
        DEF Next

LEMMA Invariant == Spec => []IInv
BY InitInvariant, NextInvariant, PTL DEF Spec

-----------------------------------------------------------------------------
(***************************************************************************)
(* Theorems.                                                               *)
(***************************************************************************)
LEMMA ReadableThen == IInv => FilesReadable
<1> SUFFICES ASSUME IInv PROVE FilesReadable
  OBVIOUS
<1>1. ASSUME NEW c \in rows
      PROVE  /\ c \in DOMAIN disk
             /\ \/ disk[c] = "whole" \/ c \in cut
                \/ \E q \in Active : At(q, "fill") /\ Content(q) = c
  <2>1. OnDisk(c)
    BY DEF IInv, DiskSound
  <2>2. ASSUME NEW q \in Requests, FillsIn(requests[q], c)
        PROVE  q \in Active /\ At(q, "fill") /\ Content(q) = c
    BY <2>2 DEF FillsIn, Is, Active, At, Content
  <2> QED BY <2>1, <2>2 DEF OnDisk
<1> QED BY <1>1 DEF IInv, FilesReadable

\* Whatever a document or a resource holds has a row in files, and whatever
\* has a row is whole on disk, however many requests look a content up, place
\* it and insert it at once, fail, are rolled back or are cut off by a crash;
\* but for a new module whose template is stored already, which writes the
\* file again (File::from_data, File::from_file_with_hash).
THEOREM FilesStayReadable == Spec => []FilesReadable
BY Invariant, ReadableThen, PTL

\* However resources are created and renamed at once, a directory never holds
\* two of one name and following parents leads to the top (Resource::create,
\* Resource::set_name).
THEOREM ResourceTreeStaysSound == Spec => []ResourceTreeSound
<1>1. IInv => ResourceTreeSound
  BY DEF IInv
<1> QED BY <1>1, Invariant, PTL

LEMMA LossesOverlap ==
  ASSUME IInv
  PROVE  \A q \in Active : requests[q].is \in {"upload", "update"}
            /\ requests[q].args.condition # AnyTag =>
                requests[q].overtaken \/ Replaced(q) \subseteq requests[q].args.condition
<1> SUFFICES ASSUME NEW q \in Active, requests[q].is \in {"upload", "update"},
                    requests[q].args.condition # AnyTag
             PROVE  requests[q].overtaken \/ Replaced(q) \subseteq requests[q].args.condition
  OBVIOUS
<1>1. q \in Requests /\ requests[q] \in Requested
  BY RequestAre DEF Active, IInv
<1>2. PICK r \in Requested : r = requests[q]
  BY <1>1
<1>3. RequestSound(r)
  BY <1>1, <1>2 DEF IInv, RequestsSound
<1>4. r.overtaken \/ ReplacedBy(r) \subseteq r.args.condition
  BY <1>2, <1>3 DEF RequestSound, Unlost, Conditional
<1>5. Replaced(q) = ReplacedBy(r)
  BY <1>2 DEF Replaced, ReplacedBy
<1> QED BY <1>2, <1>4, <1>5

\* An upload or an update with If-Match replaces a version that its tags name,
\* unless another one to the same file ended between its check and its write:
\* the only way in which a client's change is lost (web/src/etag.rs).
THEOREM LossesOnlyByOverlap == Spec => LostOnlyByOverlap
<1> DEFINE Body ==
        \A q \in Active :
            requests'[q] = Idle /\ requests[q].is \in {"upload", "update"}
                /\ <<documents, resources>>' # <<documents, resources>>
                /\ requests[q].args.condition # AnyTag =>
                    requests[q].overtaken
                        \/ Replaced(q) \subseteq requests[q].args.condition
<1>1. IInv /\ [Next]_vars => [Body]_vars
  BY LossesOverlap
<1> HIDE DEF Body
<1>2. Spec => [][Body]_vars
  BY <1>1, Invariant, PTL DEF Spec
<1> QED BY <1>2 DEF LostOnlyByOverlap, Body


\* What is below a module's directory, in the collection and in what is taken
\* of it.
LEMMA BelowModule ==
  ASSUME NEW all \in Seq(Entries), NEW dir \in Seq(STRING), IndexIn(all, dir) # {},
         NEW a, a = ModuleIn(all, dir)
  PROVE  /\ a[IndexOf(a)].dir = dir
         /\ Below(a, dir) = {e \in Below(all, dir) : e.name = Index => e.dir = dir}
<1>1. /\ ToSet(a) = {all[i] : i \in IndexIn(all, dir) \cup FilesIn(all, dir)}
      /\ \E i \in IndexIn(all, dir) : a[IndexOf(a)] = all[i]
  BY ModuleInIs
<1>2. a[IndexOf(a)].dir = dir
  BY <1>1 DEF IndexIn
<1>3. ASSUME NEW i \in DOMAIN all, Len(all[i].dir) >= Len(dir),
             SubSeq(all[i].dir, 1, Len(dir)) = dir
      PROVE  IsPrefix(dir, all[i].dir)
  <2>1. all[i] \in Entries
    OBVIOUS
  <2>2. all[i].dir \in Seq(STRING)
    BY <2>1 DEF Entries
  <2>3. SubSeq(dir, 1, Len(dir)) = dir /\ Len(dir) \in Nat /\ Len(all[i].dir) \in Nat
    BY <2>2
  <2> QED BY <1>3, <2>3 DEF IsPrefix
<1> DEFINE kept == {e \in Below(all, dir) : e.name = Index => e.dir = dir}
<1>4. ASSUME NEW e \in Below(a, dir) PROVE e \in kept
  <2>1. e \in ToSet(a)
    BY DEF Below
  <2>2. PICK i \in IndexIn(all, dir) \cup FilesIn(all, dir) : e = all[i]
    BY <1>1, <2>1
  <2>3. i \in DOMAIN all /\ (e.name = Index => e.dir = dir)
    BY <2>2 DEF IndexIn, FilesIn
  <2>4. e \in ToSet(all)
    BY <2>2, <2>3 DEF ToSet
  <2> QED BY <2>3, <2>4 DEF Below
<1>5. ASSUME NEW e \in kept PROVE e \in Below(a, dir)
  <2>1. e \in ToSet(all) /\ Len(e.dir) >= Len(dir) /\ SubSeq(e.dir, 1, Len(dir)) = dir
    BY DEF Below
  <2>2. PICK i \in DOMAIN all : e = all[i]
    BY <2>1 DEF ToSet
  <2>3. i \in IndexIn(all, dir) \cup FilesIn(all, dir)
    BY <1>3, <2>1, <2>2 DEF IndexIn, FilesIn
  <2>4. e \in ToSet(a)
    BY <1>1, <2>2, <2>3
  <2> QED BY <2>4 DEF Below
<1> QED BY <1>2, <1>4, <1>5

MadeOfArchive(r, document) ==
    IsMadeOf(document, Below(r.args.archive, r.args.archive[IndexOf(r.args.archive)].dir))
MadeOfModule(r, m, document) ==
    LET dir == r.args.collection.modules[m]
    IN  IsMadeOf(document, {e \in Below(r.args.collection.archive, dir) :
                                e.name = Index => e.dir = dir})
FinishedIs(r) ==
    /\ r.is = "import" => MadeOfArchive(r, documents'[NewDocument])
    /\ r.is = "collection" =>
            \A m \in DOMAIN r.args.collection.modules :
                MadeOfModule(r, m, documents'[NewDocument + m - 1])

LEMMA ImportKeeps ==
  ASSUME IInv, NEW r \in Requested, r.is = "import", ~NamesRepeat(r.args.archive),
         CreateDocument(DocumentOf(r.args.archive))
  PROVE  MadeOfArchive(r, documents'[NewDocument])
<1>1. PICK a : a = r.args.archive
  OBVIOUS
<1>2. a \in Seq(Entries) /\ Indices(a) # {} /\ a[IndexOf(a)].content # Empty
  BY <1>1, ImportIs, ArchivesAssumption
<1> DEFINE y == DocumentOf(a)  new == <<y>>
<1>3. IsMadeOf(y, Below(a, a[IndexOf(a)].dir))
  BY <1>1, <1>2, DocumentKeeps
<1>4. y = DocumentOf(a) /\ CreateDocuments(new)
  BY <1>1 DEF CreateDocument
<1> HIDE DEF y
<1>5. y \in Document
  BY <1>2, <1>4, DocumentOfIs
<1>6. new \in Seq(Document) /\ DOMAIN new = {1} /\ new[1] = y
  BY <1>5, OneDocument
<1> HIDE DEF new
<1>7. documents'[NewDocument + 1 - 1] = y
  BY <1>4, <1>6, DocumentsCreated DEF IInv
<1>8. NewDocument + 1 - 1 = NewDocument
  BY NewDocumentIs DEF IInv
<1> QED BY <1>1, <1>3, <1>7, <1>8 DEF MadeOfArchive

LEMMA LoadKeeps ==
  ASSUME IInv, NEW r \in Requested, r.is = "collection",
         NEW c, c = r.args.collection,
         \A m \in DOMAIN ModulesIn(c) : CanCreate(c, m),
         CreateDocuments([m \in DOMAIN ModulesIn(c) |-> DocumentOf(ModulesIn(c)[m])]),
         NEW m \in DOMAIN c.modules
  PROVE  MadeOfModule(r, m, documents'[NewDocument + m - 1])
<1>1. c \in Collections
  BY LoadIs
<1>2. /\ c.archive \in Seq(Entries) /\ c.modules \in Seq(Seq(STRING))
      /\ DOMAIN ModulesIn(c) = DOMAIN c.modules
  BY <1>1, CollectionsAssumption DEF ModulesIn
<1> DEFINE new == [k \in DOMAIN ModulesIn(c) |-> DocumentOf(ModulesIn(c)[k])]
           C == Len(c.modules)
<1>3. C \in Nat /\ DOMAIN c.modules = 1..C
  BY <1>2
<1>4. ASSUME NEW k \in DOMAIN c.modules
      PROVE  /\ ModulesIn(c)[k] = ModuleIn(c.archive, c.modules[k])
             /\ ModulesIn(c)[k] \in Seq(Entries) /\ Indices(ModulesIn(c)[k]) # {}
             /\ ModulesIn(c)[k][IndexOf(ModulesIn(c)[k])].content # Empty
             /\ ~NamesRepeat(ModulesIn(c)[k]) /\ IndexIn(c.archive, c.modules[k]) # {}
             /\ DocumentOf(ModulesIn(c)[k]) \in Document
  <2>1. ~IsMissing(c, k) /\ ~NamesRepeat(ModulesIn(c)[k])
    BY <1>2 DEF CanCreate
  <2> DEFINE a == ModulesIn(c)[k]  y == DocumentOf(a)
  <2>2. a = ModulesIn(c)[k]
    OBVIOUS
  <2> HIDE DEF a
  <2>3. /\ a = ModuleIn(c.archive, c.modules[k])
        /\ a \in Seq(Entries) /\ Indices(a) # {} /\ a[IndexOf(a)].content # Empty
    BY <1>1, <2>1, <2>2, ModulesAre
  <2>4. y = DocumentOf(a)
    OBVIOUS
  <2> HIDE DEF y
  <2>5. y \in Document
    BY <2>3, <2>4, DocumentOfIs
  <2> QED BY <2>1, <2>2, <2>3, <2>4, <2>5 DEF IsMissing
<1> HIDE DEF C
<1>5. new \in [1..C -> Document]
  BY <1>2, <1>3, <1>4
<1>6. CreateDocuments(new) /\ new[m] = DocumentOf(ModulesIn(c)[m])
  BY <1>2
<1> HIDE DEF new
<1>7. new \in Seq(Document) /\ m \in DOMAIN new
  BY <1>3, <1>5
<1>8. documents'[NewDocument + m - 1] = new[m]
  BY <1>6, <1>7, DocumentsCreated DEF IInv
<1> DEFINE a == ModulesIn(c)[m]  all == c.archive  dir == c.modules[m]
<1>9. /\ a = ModuleIn(all, dir) /\ a \in Seq(Entries) /\ Indices(a) # {}
      /\ a[IndexOf(a)].content # Empty /\ ~NamesRepeat(a) /\ IndexIn(all, dir) # {}
  BY <1>4
<1>10. all \in Seq(Entries) /\ dir \in Seq(STRING)
  BY <1>2
<1> HIDE DEF a, all, dir
<1>11. IsMadeOf(DocumentOf(a), Below(a, a[IndexOf(a)].dir))
  BY <1>9, DocumentKeeps
<1>12. /\ a[IndexOf(a)].dir = dir
       /\ Below(a, dir) = {e \in Below(all, dir) : e.name = Index => e.dir = dir}
  BY <1>9, <1>10, BelowModule
<1>13. IsMadeOf(new[m], {e \in Below(all, dir) : e.name = Index => e.dir = dir})
  BY <1>6, <1>11, <1>12 DEF a
<1> QED BY <1>8, <1>13 DEF MadeOfModule, all, dir

LEMMA EndedIs ==
  ASSUME NEW q \in Requests, NEW p \in Active, requests'[p] = Idle,
         End(q) \/ EndWriting(q), IInv
  PROVE  p = q
<1>1. p \in Requests /\ requests[p] \in Requested /\ requests[p] # Idle
  BY RequestAre DEF Active, IInv
<1>2. CASE p # q /\ End(q)
  BY <1>1, <1>2 DEF End, IInv, Types
<1>3. CASE p # q /\ EndWriting(q)
  <2>1. CASE p \in Rivals(q)
    <3> DEFINE s == [requests[p] EXCEPT !.overtaken = TRUE]
    <3>1. requests'[p] = s
      BY <1>1, <1>3, <2>1 DEF EndWriting
    <3>2. s = [requests[p] EXCEPT !.overtaken = TRUE]
      OBVIOUS
    <3> HIDE DEF s
    <3>3. s \in Requested
      BY <1>1, <3>2, OvertakenIs
    <3> QED BY <3>1, <3>3, FieldsOf
  <2>2. CASE p \notin Rivals(q)
    BY <1>1, <1>3, <2>2 DEF EndWriting
  <2> QED BY <2>1, <2>2
<1> QED BY <1>2, <1>3

LEMMA EveryImportKeeps ==
  ASSUME IInv, Next, NEW q \in Active, requests'[q] = Idle, documents' # documents,
         NEW r \in Requested, r = requests[q]
  PROVE  FinishedIs(r)
<1>1. q \in Requests /\ requests[q] # Idle
  BY DEF Active
<1>2. ~BeginUpload /\ ~BeginUpdate /\ ~BeginAddResource /\ ~BeginModule /\ ~BeginImport
      /\ ~BeginCollection
  BY DEF BeginUpload, BeginUpdate, BeginAddResource, BeginModule, BeginImport,
         BeginCollection, Begin
<1>3. ~LookUp /\ ~Place /\ ~Fill /\ ~Insert /\ ~SetFile /\ ~AddResource /\ ~Crash
  BY DEF LookUp, Place, Fill, Insert, SetFile, AddResource, Crash
<1>4. ~AddDirectory /\ ~Rename /\ ~BeginDraft /\ ~DeleteFile /\ ~DeleteDraft
  BY <1>1 DEF AddDirectory, Rename, BeginDraft, DeleteFile, DeleteDraft
<1>5. CASE WriteFile
  <2>1. PICK p \in Requests : Ready(p, "upload") /\ EndWriting(p)
    BY <1>5 DEF WriteFile
  <2>2. r.is = "upload"
    BY <2>1, EndedIs DEF Ready
  <2> QED BY <2>2 DEF FinishedIs
<1>6. CASE AddModule
  <2>1. PICK p \in Requests : Ready(p, "module") /\ End(p)
    BY <1>6 DEF AddModule
  <2>2. r.is = "module"
    BY <2>1, EndedIs DEF Ready
  <2> QED BY <2>2 DEF FinishedIs
<1>7. CASE FinishImport
  <2>1. PICK p \in Requests :
            /\ Ready(p, "import") /\ End(p)
            /\ IF NamesRepeat(requests[p].args.archive) THEN UNCHANGED <<documents, rows>>
               ELSE CreateDocument(DocumentOf(requests[p].args.archive))
    BY <1>7 DEF FinishImport
  <2>2. p = q
    BY <2>1, EndedIs
  <2>3. r.is = "import"
    BY <2>1, <2>2 DEF Ready
  <2>4. ~NamesRepeat(r.args.archive) /\ CreateDocument(DocumentOf(r.args.archive))
    BY <2>1, <2>2
  <2>5. MadeOfArchive(r, documents'[NewDocument])
    BY <2>3, <2>4, ImportKeeps
  <2> QED BY <2>3, <2>5 DEF FinishedIs
<1>8. CASE FinishCollection
  <2>1. PICK p \in Requests :
            LET collection == requests[p].args.collection
                modules == ModulesIn(collection)
            IN  /\ Ready(p, "collection") /\ End(p)
                /\ IF \E m \in DOMAIN modules : ~CanCreate(collection, m)
                   THEN UNCHANGED <<documents, rows>>
                   ELSE CreateDocuments([m \in DOMAIN modules |-> DocumentOf(modules[m])])
    BY <1>8 DEF FinishCollection
  <2>2. p = q
    BY <2>1, EndedIs
  <2>3. r.is = "collection"
    BY <2>1, <2>2 DEF Ready
  <2>4. PICK c : c = r.args.collection
    OBVIOUS
  <2>5. /\ \A m \in DOMAIN ModulesIn(c) : CanCreate(c, m)
        /\ CreateDocuments([m \in DOMAIN ModulesIn(c) |-> DocumentOf(ModulesIn(c)[m])])
    BY <2>1, <2>2, <2>4
  <2>6. \A m \in DOMAIN c.modules : MadeOfModule(r, m, documents'[NewDocument + m - 1])
    BY <2>3, <2>4, <2>5, LoadKeeps
  <2> QED BY <2>3, <2>4, <2>6 DEF FinishedIs
<1> QED BY <1>2, <1>3, <1>4, <1>5, <1>6, <1>7, <1>8 DEF Next

\* The document of an import has every file of its archive that is below the
\* index, under its name, and no other, and so have the documents of a
\* collection's modules, which are stored by steps that overlap with those of
\* other requests (Importer::process_module_zip, load_collection_zip).
THEOREM ImportsKeepArchive == Spec => ImportKeepsArchive
<1> DEFINE Body ==
        \A q \in Active : requests'[q] = Idle /\ documents' # documents => ImportKept(q)
<1>1. ASSUME IInv, [Next]_vars PROVE [Body]_vars
  <2> SUFFICES ASSUME Next, NEW q \in Active, requests'[q] = Idle, documents' # documents
               PROVE  ImportKept(q)
    BY <1>1
  <2>1. requests[q] \in Requested
    BY <1>1, RequestAre DEF Active, IInv
  <2>2. PICK r \in Requested : r = requests[q]
    BY <2>1
  <2>3. FinishedIs(r)
    BY <1>1, <2>2, EveryImportKeeps
  <2> QED BY <2>2, <2>3 DEF FinishedIs, ImportKept, MadeOfArchive, MadeOfModule
<1> HIDE DEF Body
<1>2. Spec => [][Body]_vars
  BY <1>1, Invariant, PTL DEF Spec
<1> QED BY <1>2 DEF ImportKeepsArchive, Body
=============================================================================
