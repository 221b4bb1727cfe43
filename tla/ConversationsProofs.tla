------------------------ MODULE ConversationsProofs ------------------------
(***************************************************************************)
(* Proofs about Conversations for every number of members, connections,    *)
(* messages and requests.                                                  *)
(***************************************************************************)
EXTENDS Conversations, TLAPS, FiniteSetTheorems, WellFoundedInduction

-----------------------------------------------------------------------------
(***************************************************************************)
(* Induction, stated of sets, from the theorem that < is well-founded on   *)
(* the naturals.                                                           *)
(***************************************************************************)
LEMMA LeastNatural ==
  ASSUME NEW T \in SUBSET Nat, T # {}
  PROVE  \E n \in T : \A m \in T : n <= m
<1> DEFINE R == {ss \in Nat \X Nat : ss[1] < ss[2]}
<1>1. \E x \in T : \A y \in T : ~ (<<y, x>> \in R)
  <2>1. OpToRel(<, Nat) = R
    BY DEF OpToRel
  <2>2. IsWellFoundedOn(OpToRel(<, Nat), Nat)
    BY NatLessThanWellFounded, Zenon
  <2>3. IsWellFoundedOn(R, Nat)
    BY <2>1, <2>2, Zenon
  <2> HIDE DEF R
  <2> QED BY <2>3, WFMin
<1>2. \A x, y \in Nat : y < x => <<y, x>> \in R
  OBVIOUS
<1> HIDE DEF R
<1>3. PICK n \in T : \A m \in T : ~(<<m, n>> \in R)
  BY <1>1
<1>4. /\ n \in Nat
      /\ \A m \in T : m \in Nat /\ ~(m < n)
  BY <1>2, <1>3
<1>5. \A m \in T : n <= m
  BY <1>4
<1> QED BY <1>3, <1>5

\* What holds of 0 and of k whenever of k - 1 holds up to n.
LEMMA Induction ==
  ASSUME NEW n \in Nat, NEW S, 0 \in S,
         \A k \in 1..n : k - 1 \in S => k \in S
  PROVE  0..n \subseteq S
<1> SUFFICES ASSUME (0..n) \ S # {} PROVE FALSE
  OBVIOUS
<1> DEFINE T == (0..n) \ S
<1>1. T \in SUBSET Nat /\ T # {}
  OBVIOUS
<1> HIDE DEF T
<1>2. PICK k \in T : \A m \in T : k <= m
  BY <1>1, LeastNatural
<1>3. k \in 1..n /\ k \notin S
  BY <1>2 DEF T
<1>4. k - 1 \in T
  BY <1>3 DEF T
<1>5. ~(k <= k - 1)
  BY <1>3
<1> QED BY <1>2, <1>4, <1>5

-----------------------------------------------------------------------------
(***************************************************************************)
(* Who is notified.  Both lists are sorted, and the double iteration over  *)
(* them leaves out exactly the members that are among the listeners.       *)
(***************************************************************************)
Strict(M) == \A i, j \in 1..Len(M) : i < j <=> M[i] < M[j]
Sorted(L) == \A i, j \in 1..Len(L) : i < j => L[i] <= L[j]

LEMMA AscendingIs ==
  ASSUME NEW S \in SUBSET Nat, IsFiniteSet(S), NEW s, s = Ascending(S)
  PROVE  /\ s \in Seq(S) /\ Strict(s)
         /\ \A n \in S : \E k \in 1..Len(s) : s[k] = n
<1> DEFINE C == Cardinality(S)
           UpTo(n) == {m \in S : m <= n}
           rank == [n \in S |-> Cardinality(UpTo(n))]
<1>0. \A n \in S : n \in Int
  OBVIOUS
<1>1. s = [k \in 1..C |-> CHOOSE n \in S : Cardinality(UpTo(n)) = k]
  BY DEF Ascending
<1>2. C \in Nat
  BY FS_CardinalityType
<1>3. ASSUME NEW n \in S
      PROVE  /\ UpTo(n) \in SUBSET S /\ IsFiniteSet(UpTo(n))
             /\ Cardinality(UpTo(n)) \in 1..C
  <2>1. UpTo(n) \in SUBSET S /\ n \in UpTo(n)
    BY <1>0
  <2> HIDE DEF UpTo
  <2>2. IsFiniteSet(UpTo(n)) /\ Cardinality(UpTo(n)) <= C
    BY <2>1, FS_Subset
  <2>3. Cardinality(UpTo(n)) \in Nat /\ Cardinality(UpTo(n)) # 0
    BY <2>1, <2>2, FS_CardinalityType, FS_EmptySet
  <2> QED BY <1>2, <2>1, <2>2, <2>3
<1>4. ASSUME NEW m \in S, NEW n \in S, m < n
      PROVE  Cardinality(UpTo(m)) < Cardinality(UpTo(n))
  <2>1. /\ UpTo(m) \in SUBSET UpTo(n) /\ n \in UpTo(n) /\ n \notin UpTo(m)
    <3>1. \A x \in S : x <= m => x <= n
      BY <1>0, <1>4
    <3>2. n <= n /\ ~(n <= m)
      BY <1>0, <1>4
    <3> QED BY <3>1, <3>2
  <2>2. /\ IsFiniteSet(UpTo(n))
        /\ Cardinality(UpTo(m)) \in Int /\ Cardinality(UpTo(n)) \in Int
    BY <1>3
  <2> HIDE DEF UpTo
  <2>3. /\ Cardinality(UpTo(m)) <= Cardinality(UpTo(n))
        /\ Cardinality(UpTo(n)) = Cardinality(UpTo(m)) => UpTo(n) = UpTo(m)
    BY <2>1, <2>2, FS_Subset
  <2> QED BY <2>1, <2>2, <2>3
<1> HIDE DEF UpTo, C
<1>5. \A m, n \in S :
        /\ rank[m] \in 1..C
        /\ m < n <=> rank[m] < rank[n]
        /\ rank[m] = rank[n] => m = n
  <2> SUFFICES ASSUME NEW m \in S, NEW n \in S
               PROVE  /\ rank[m] \in 1..C
                      /\ m < n <=> rank[m] < rank[n]
                      /\ rank[m] = rank[n] => m = n
    OBVIOUS
  <2>1. /\ rank[m] = Cardinality(UpTo(m)) /\ rank[n] = Cardinality(UpTo(n))
        /\ rank[m] \in 1..C /\ rank[n] \in 1..C
    BY <1>3
  <2> HIDE DEF rank
  <2>2. m < n \/ n < m \/ m = n
    OBVIOUS
  <2> QED BY <1>4, <2>1, <2>2
<1>6. \A k \in 1..C : \E n \in S : rank[n] = k
  <2>1. rank \in Injection(S, 1..C)
    <3>1. rank \in [S -> 1..C]
      BY <1>3
    <3> HIDE DEF rank
    <3> QED BY <1>5, <3>1 DEF Injection, IsInjective
  <2>2. IsFiniteSet(1..C) /\ Cardinality(1..C) = C
    BY <1>2, FS_Interval
  <2>3. rank \in Surjection(S, 1..C)
    <3> HIDE DEF rank
    <3> QED BY <2>1, <2>2, FS_Injection DEF C
  <2> HIDE DEF rank
  <2> QED BY <2>3 DEF Surjection
<1>7. \A k \in 1..C : s[k] \in S /\ rank[s[k]] = k
  <2> SUFFICES ASSUME NEW k \in 1..C PROVE s[k] \in S /\ rank[s[k]] = k
    OBVIOUS
  <2>1. \E n \in S : Cardinality(UpTo(n)) = k
    BY <1>6
  <2>2. s[k] \in S /\ Cardinality(UpTo(s[k])) = k
    BY <1>1, <2>1
  <2> QED BY <2>2
<1>8. s \in [1..C -> S]
  BY <1>1, <1>7
<1>9. s \in Seq(S) /\ Len(s) = C
  BY <1>2, <1>8
<1> HIDE DEF rank
<1>10. Strict(s)
  <2> SUFFICES ASSUME NEW i \in 1..C, NEW j \in 1..C
               PROVE  i < j <=> s[i] < s[j]
    BY <1>9 DEF Strict
  <2>1. /\ s[i] \in S /\ s[j] \in S
        /\ rank[s[i]] = i /\ rank[s[j]] = j
    BY <1>7
  <2>2. s[i] \in Int /\ s[j] \in Int
    BY <1>0, <2>1
  <2>3. s[i] < s[j] <=> rank[s[i]] < rank[s[j]]
    BY <1>5, <2>1
  <2> QED BY <2>1, <2>3
<1>11. ASSUME NEW n \in S PROVE \E k \in 1..Len(s) : s[k] = n
  <2>1. rank[n] \in 1..C
    BY <1>5
  <2>2. s[rank[n]] = n
    BY <1>5, <1>7, <2>1
  <2> QED BY <1>9, <2>1, <2>2
<1> QED BY <1>9, <1>10, <1>11

LEMMA ListeningUsersIs ==
  ASSUME listeners \subseteq Client, NEW L, L = ListeningUsers
  PROVE  /\ L \in Seq(Member) /\ Sorted(L)
         /\ \A k \in 1..Len(L) : \E c \in listeners : L[k] = User[c]
         /\ \A c \in listeners : \E k \in 1..Len(L) : L[k] = User[c]
<1> DEFINE C == Cardinality(listeners)
           Under(u) == {c \in listeners : User[c] < u}
           UpTo(u) == {c \in listeners : User[c] <= u}
           a == [u \in Member |-> Cardinality(Under(u))]
           b == [u \in Member |-> Cardinality(UpTo(u))]
           At(k, u) == /\ Cardinality(Under(u)) < k
                       /\ Cardinality(UpTo(u)) >= k
<1>0. /\ \A u \in Member : u \in Int
      /\ \A c \in listeners : User[c] \in Int /\ User[c] \in Nat
  <2>1. /\ \A u \in Member : u \in Nat
        /\ \A c \in listeners : User[c] \in Member
    BY ConversationAssumption
  <2> QED BY <2>1
<1>1. L = [k \in 1..C |-> CHOOSE u \in Member : At(k, u)]
  BY DEF ListeningUsers
<1>2. /\ Member \subseteq Nat /\ \A c \in listeners : User[c] \in Member
      /\ IsFiniteSet(listeners) /\ C \in Nat
  BY ConversationAssumption, FS_Subset, FS_CardinalityType
<1>3. \A T \in SUBSET listeners : IsFiniteSet(T) /\ Cardinality(T) \in Nat
                                  /\ Cardinality(T) <= C
  BY <1>0, <1>2, FS_Subset, FS_CardinalityType
<1>4. \A T, U \in SUBSET listeners : T \subseteq U => Cardinality(T) <= Cardinality(U)
  BY <1>3, FS_Subset
<1>5. \A T, U \in SUBSET listeners :
        T \subseteq U /\ U # T => Cardinality(T) < Cardinality(U)
  <2> SUFFICES ASSUME NEW T \in SUBSET listeners, NEW U \in SUBSET listeners,
                      T \subseteq U, U # T
               PROVE  Cardinality(T) < Cardinality(U)
    OBVIOUS
  <2>1. /\ Cardinality(T) <= Cardinality(U)
        /\ Cardinality(U) = Cardinality(T) => U = T
    BY <1>3, FS_Subset
  <2>2. Cardinality(T) \in Nat /\ Cardinality(U) \in Nat
    BY <1>3
  <2> QED BY <2>1, <2>2
<1>6. /\ \A u \in Member : a[u] \in 0..C /\ b[u] \in 0..C /\ a[u] <= b[u]
      /\ \A u, v \in Member : u < v => b[u] <= a[v]
      /\ \A c \in listeners : a[User[c]] < b[User[c]]
      /\ \A u \in Member : a[u] < b[u] => \E c \in listeners : User[c] = u
  <2>1. ASSUME NEW u \in Member
        PROVE  /\ a[u] \in 0..C /\ b[u] \in 0..C /\ a[u] <= b[u]
               /\ a[u] < b[u] => \E c \in listeners : User[c] = u
    <3>1. /\ Under(u) \in SUBSET listeners /\ UpTo(u) \in SUBSET listeners
          /\ Under(u) \subseteq UpTo(u)
      BY <1>0, <1>2
    <3>2. UpTo(u) # Under(u) => \E c \in listeners : User[c] = u
      BY <1>0, <1>2
    <3>3. a[u] = Cardinality(Under(u)) /\ b[u] = Cardinality(UpTo(u))
      OBVIOUS
    <3> HIDE DEF Under, UpTo, a, b, C
    <3>4. /\ Cardinality(Under(u)) \in Nat /\ Cardinality(Under(u)) <= C
          /\ Cardinality(UpTo(u)) \in Nat /\ Cardinality(UpTo(u)) <= C
          /\ Cardinality(Under(u)) <= Cardinality(UpTo(u))
      BY <1>3, <1>4, <3>1
    <3>5. a[u] \in 0..C /\ b[u] \in 0..C /\ a[u] <= b[u]
      BY <1>0, <1>2, <3>3, <3>4
    <3>6. ASSUME a[u] < b[u] PROVE UpTo(u) # Under(u)
      BY <3>3, <3>5, <3>6
    <3> QED BY <3>2, <3>5, <3>6
  <2>2. ASSUME NEW u \in Member, NEW v \in Member, u < v
        PROVE  b[u] <= a[v]
    <3>1. /\ Under(v) \in SUBSET listeners /\ UpTo(u) \in SUBSET listeners
          /\ UpTo(u) \subseteq Under(v)
      BY <1>0, <1>2, <2>2
    <3> QED BY <1>4, <3>1
  <2>3. ASSUME NEW c \in listeners
        PROVE  a[User[c]] < b[User[c]]
    <3> DEFINE u == User[c]
    <3>1. /\ Under(u) \in SUBSET listeners /\ UpTo(u) \in SUBSET listeners
          /\ Under(u) \subseteq UpTo(u) /\ c \in UpTo(u) /\ c \notin Under(u) /\ u \in Member
      BY <1>0, <1>2
    <3>2. UpTo(u) # Under(u) /\ a[u] = Cardinality(Under(u)) /\ b[u] = Cardinality(UpTo(u))
      BY <3>1
    <3> HIDE DEF Under, UpTo, a, b
    <3>3. Cardinality(Under(u)) < Cardinality(UpTo(u))
      BY <1>5, <3>1, <3>2
    <3> QED BY <3>2, <3>3
  <2> HIDE DEF a, b, C
  <2> QED BY <2>1, <2>2, <2>3
<1>6a. \A u \in Member : \A k : At(k, u) <=> a[u] < k /\ b[u] >= k
  OBVIOUS
<1>7. C > 0 => \E c \in listeners : a[User[c]] = 0
  <2> SUFFICES ASSUME C > 0 PROVE \E c \in listeners : a[User[c]] = 0
    OBVIOUS
  <2> DEFINE T == {User[c] : c \in listeners}
  <2>1. T # {} /\ T \in SUBSET Nat
    <3>1. listeners # {}
      BY FS_EmptySet
    <3> QED BY <1>0, <1>2, <3>1
  <2> HIDE DEF T
  <2>2. PICK u \in T : \A v \in T : u <= v
    BY <2>1, LeastNatural
  <2>3. PICK c \in listeners : u = User[c]
    BY <2>2 DEF T
  <2>4. Under(User[c]) = {}
    BY <1>0, <1>2, <2>2, <2>3 DEF T
  <2>5. a[User[c]] = 0
    BY <1>0, <1>2, <2>4, FS_EmptySet
  <2> QED BY <2>5
<1>8. \A u \in Member : b[u] < C => \E c \in listeners : a[User[c]] = b[u]
  <2> SUFFICES ASSUME NEW u \in Member, b[u] < C
               PROVE  \E c \in listeners : a[User[c]] = b[u]
    OBVIOUS
  <2> DEFINE T == {User[c] : c \in {d \in listeners : User[d] > u}}
  <2>1. T # {} /\ T \in SUBSET Nat
    <3>1. UpTo(u) # listeners
      BY <1>0, <1>2
    <3>2. PICK c \in listeners : ~(User[c] <= u)
      BY <3>1
    <3>3. User[c] > u
      BY <1>0, <1>2, <3>2
    <3> QED BY <1>0, <1>2, <3>3
  <2> HIDE DEF T
  <2>2. PICK v \in T : \A w \in T : v <= w
    BY <2>1, LeastNatural
  <2>3. PICK c \in listeners : v = User[c] /\ v > u
    BY <2>2 DEF T
  <2>4. \A d \in listeners : User[d] < User[c] <=> User[d] <= u
    BY <1>0, <1>2, <2>2, <2>3 DEF T
  <2>5. Under(User[c]) = UpTo(u)
    BY <2>4
  <2>6. a[User[c]] = b[u]
    BY <1>0, <1>2, <2>5
  <2> QED BY <2>6
<1> HIDE DEF a, b, C, At
<1>9. ASSUME NEW k \in 1..C
      PROVE  \E u \in Member : At(k, u)
  <2> DEFINE D == {k - a[User[c]] : c \in {d \in listeners : a[User[d]] < k}}
  <2>1. D # {} /\ D \in SUBSET Nat
    BY <1>0, <1>2, <1>6, <1>7
  <2> HIDE DEF D
  <2>2. PICK x \in D : \A y \in D : x <= y
    BY <2>1, LeastNatural
  <2>3. PICK c \in listeners : a[User[c]] < k /\ x = k - a[User[c]]
    BY <2>2 DEF D
  <2>4. b[User[c]] >= k
    <3> SUFFICES ASSUME ~(b[User[c]] >= k) PROVE FALSE
      OBVIOUS
    <3>1. b[User[c]] < k /\ b[User[c]] < C /\ User[c] \in Member
      BY <1>0, <1>2, <1>6
    <3>2. PICK d \in listeners : a[User[d]] = b[User[c]]
      BY <1>8, <3>1
    <3>3. a[User[d]] < k /\ a[User[c]] < a[User[d]]
      BY <1>0, <1>6, <3>1, <3>2
    <3>4. k - a[User[d]] \in D
      BY <3>3 DEF D
    <3> QED BY <1>0, <1>2, <1>6, <2>2, <2>3, <3>3, <3>4
  <2> QED BY <1>0, <1>2, <1>6a, <2>3, <2>4
<1>10. \A k \in 1..C : L[k] \in Member /\ a[L[k]] < k /\ b[L[k]] >= k
  <2> SUFFICES ASSUME NEW k \in 1..C
               PROVE  L[k] \in Member /\ a[L[k]] < k /\ b[L[k]] >= k
    OBVIOUS
  <2>1. L[k] = CHOOSE u \in Member : At(k, u)
    BY <1>1
  <2>2. L[k] \in Member /\ At(k, L[k])
    BY <1>9, <2>1
  <2> QED BY <1>6a, <2>2
<1>11. L \in [1..C -> Member]
  BY <1>1, <1>10
<1>12. L \in Seq(Member) /\ Len(L) = C
  BY <1>0, <1>2, <1>11
<1>13. ASSUME NEW i \in 1..C, NEW j \in 1..C, i < j
       PROVE  L[i] <= L[j]
  <2>1. L[i] \in Member /\ L[j] \in Member
    BY <1>10
  <2>2. L[i] \in Int /\ L[j] \in Int
    BY <1>0, <2>1
  <2>3. /\ b[L[j]] \in Int /\ a[L[i]] \in Int
        /\ b[L[j]] >= j /\ a[L[i]] < i
    BY <1>6, <1>10, <2>1
  <2>4. L[j] < L[i] => b[L[j]] <= a[L[i]]
    BY <1>6, <2>1
  <2>5. ~(L[j] < L[i])
    BY <1>13, <2>3, <2>4
  <2> QED BY <2>2, <2>5
<1>14. ASSUME NEW k \in 1..C PROVE \E c \in listeners : L[k] = User[c]
  <2>1. L[k] \in Member /\ a[L[k]] < k /\ b[L[k]] >= k
    BY <1>10
  <2>2. a[L[k]] \in Int /\ b[L[k]] \in Int
    BY <1>6, <2>1
  <2>3. a[L[k]] < b[L[k]]
    BY <2>1, <2>2
  <2> QED BY <1>6, <2>1, <2>3
<1>15. ASSUME NEW c \in listeners PROVE \E k \in 1..C : L[k] = User[c]
  <2> DEFINE u == User[c]
  <2>1. u \in Member /\ a[u] < b[u] /\ b[u] \in 1..C
    BY <1>0, <1>2, <1>6
  <2> DEFINE k == b[u]
  <2>2. /\ L[k] \in Member /\ a[L[k]] < k /\ b[L[k]] >= k
        /\ a[L[k]] \in Int /\ b[L[k]] \in Int /\ k \in Int /\ a[u] \in Int
    BY <1>0, <1>6, <1>10, <2>1
  <2>3. CASE L[k] < u
    <3>1. b[L[k]] <= a[u]
      BY <1>0, <1>6, <2>1, <2>2, <2>3
    <3> QED BY <2>1, <2>2, <3>1
  <2>4. CASE u < L[k]
    <3>1. b[u] <= a[L[k]]
      BY <1>0, <1>6, <2>1, <2>2, <2>4
    <3> QED BY <2>1, <2>2, <3>1
  <2>5. L[k] \in Int /\ u \in Int
    BY <1>0, <2>1, <2>2
  <2>6. CASE L[k] = u
    BY <2>1, <2>6
  <2>7. L[k] < u \/ u < L[k] \/ L[k] = u
    BY <2>5
  <2> QED BY <2>3, <2>4, <2>6, <2>7
<1> QED BY <1>12, <1>13, <1>14, <1>15 DEF Sorted

LEMMA StopsAtIs ==
  ASSUME NEW M \in Seq(Nat), NEW m \in 1..(Len(M) + 1), NEW u \in Nat,
         NEW n, n = StopsAt(M, m, u)
  PROVE  /\ n \in m..(Len(M) + 1)
         /\ \A j \in m..(n - 1) : M[j] < u
         /\ n <= Len(M) => M[n] >= u
<1> DEFINE T == {k \in m..(Len(M) + 1) : k <= Len(M) => M[k] >= u}
           Is(k) == /\ \A j \in m..(k - 1) : M[j] < u
                    /\ k <= Len(M) => M[k] >= u
<1>1. Len(M) \in Nat /\ \A k \in 1..Len(M) : M[k] \in Nat
  OBVIOUS
<1>2. T \in SUBSET Nat /\ T # {}
  <2>1. Len(M) + 1 \in T
    BY <1>1
  <2> QED BY <1>1, <2>1
<1>3. PICK k \in T : \A l \in T : k <= l
  <2> HIDE DEF T
  <2> QED BY <1>2, LeastNatural
<1>4. ASSUME NEW j \in m..(k - 1) PROVE M[j] < u
  <2>1. j \in m..(Len(M) + 1) /\ j <= Len(M) /\ ~(k <= j)
    BY <1>1, <1>3
  <2>2. ~(M[j] >= u)
    BY <1>3, <2>1
  <2>3. M[j] \in Nat
    BY <1>1, <2>1
  <2> QED BY <2>2, <2>3
<1>5. k \in m..(Len(M) + 1) /\ Is(k)
  BY <1>3, <1>4
<1>6. n = CHOOSE l \in m..(Len(M) + 1) : Is(l)
  BY DEF StopsAt
<1> HIDE DEF Is
<1>7. n \in m..(Len(M) + 1) /\ Is(n)
  BY <1>5, <1>6
<1> QED BY <1>7 DEF Is

LEMMA NextUserIs ==
  ASSUME NEW L \in Seq(Nat), NEW l \in 1..Len(L), NEW k, k = NextUser(L, l)
  PROVE  /\ k \in (l + 1)..(Len(L) + 1)
         /\ \A j \in l..(k - 1) : L[j] = L[l]
         /\ k <= Len(L) => L[k] # L[l]
<1> DEFINE T == {i \in l..(Len(L) + 1) : i <= Len(L) => L[i] # L[l]}
           Is(i) == /\ \A j \in l..(i - 1) : L[j] = L[l]
                    /\ i <= Len(L) => L[i] # L[l]
<1>1. Len(L) \in Nat
  OBVIOUS
<1>2. T \in SUBSET Nat /\ T # {}
  <2>1. Len(L) + 1 \in T
    BY <1>1
  <2> QED BY <1>1, <2>1
<1>3. PICK i \in T : \A j \in T : i <= j
  <2> HIDE DEF T
  <2> QED BY <1>2, LeastNatural
<1>4. ASSUME NEW j \in l..(i - 1) PROVE L[j] = L[l]
  <2>1. j \in l..(Len(L) + 1) /\ j <= Len(L) /\ ~(i <= j)
    BY <1>1, <1>3
  <2> QED BY <1>3, <2>1
<1>5. i \in l..(Len(L) + 1) /\ Is(i)
  BY <1>3, <1>4
<1>6. k = CHOOSE j \in l..(Len(L) + 1) : Is(j)
  BY DEF NextUser
<1> HIDE DEF Is
<1>7. k \in l..(Len(L) + 1) /\ Is(k)
  BY <1>5, <1>6
<1>8. k # l
  BY <1>1, <1>7 DEF Is
<1> QED BY <1>1, <1>7, <1>8 DEF Is

\* What the iteration notifies from listener l and member m on, given what it
\* does from later listeners on.
FromHere(L, M, from, l) ==
    [m \in 1..(Len(M) + 1) |->
        IF l > Len(L) THEN {M[j] : j \in m..Len(M)}
        ELSE LET n == StopsAt(M, m, L[l])
                 next == IF n <= Len(M) THEN n + 1 ELSE n
             IN  {M[j] : j \in m..(n - 1)} \cup from[NextUser(L, l)][next]]

\* There is a function as Walk defines it: it is found from its end.
LEMMA WalkExists ==
  ASSUME NEW L \in Seq(Nat), NEW M
  PROVE  \E f : f = [l \in 1..(Len(L) + 1) |-> FromHere(L, M, f, l)]
<1> DEFINE C == Len(L) + 1
           Good(d) == \E f : /\ f = [l \in 1..C |-> f[l]]
                             /\ \A l \in (C - d)..C : l >= 1 => f[l] = FromHere(L, M, f, l)
           S == {d \in 0..C : Good(d)}
<1>1. C \in Nat /\ C >= 1 /\ Len(L) \in Nat
  OBVIOUS
<1>2. \A f, g, l : /\ l \in 1..C
                   /\ \A k \in (l + 1)..C : f[k] = g[k]
                   => FromHere(L, M, f, l) = FromHere(L, M, g, l)
  <2> SUFFICES ASSUME NEW f, NEW g, NEW l \in 1..C, \A k \in (l + 1)..C : f[k] = g[k]
               PROVE  FromHere(L, M, f, l) = FromHere(L, M, g, l)
    OBVIOUS
  <2>1. CASE l > Len(L)
    BY <2>1 DEF FromHere
  <2>2. CASE ~(l > Len(L))
    <3>1. l \in 1..Len(L)
      BY <1>1, <2>2
    <3>2. f[NextUser(L, l)] = g[NextUser(L, l)]
      BY <3>1, NextUserIs
    <3> QED BY <3>2 DEF FromHere
  <2> QED BY <2>1, <2>2
<1>3. 0 \in S
  <2> DEFINE g == [l \in 1..C |-> {}]
             f == [l \in 1..C |-> FromHere(L, M, g, l)]
  <2>1. f = [l \in 1..C |-> f[l]]
    OBVIOUS
  <2>2. C \in 1..C /\ f[C] = FromHere(L, M, g, C)
    BY <1>1
  <2> HIDE DEF f, g, C
  <2>3. f[C] = FromHere(L, M, f, C)
    BY <1>1, <1>2, <2>2
  <2>4. Good(0)
    BY <1>1, <2>1, <2>3
  <2> QED BY <1>1, <2>4
<1>4. ASSUME NEW d \in 1..C, d - 1 \in S
      PROVE  d \in S
  <2>1. PICK f : /\ f = [l \in 1..C |-> f[l]]
                 /\ \A l \in (C - (d - 1))..C : l >= 1 => f[l] = FromHere(L, M, f, l)
    BY <1>4
  <2>2. CASE d = C
    <3>1. \A l \in (C - d)..C : l >= 1 => l \in (C - (d - 1))..C
      BY <1>1, <2>2
    <3>2. Good(d)
      BY <2>1, <3>1
    <3> QED BY <3>2
  <2>3. CASE d # C
    <3> DEFINE e == C - d
               g == [l \in 1..C |-> IF l = e THEN FromHere(L, M, f, e) ELSE f[l]]
    <3>1. e \in 1..C /\ \A l \in (C - d)..C : l = e \/ l \in (C - (d - 1))..C
      BY <1>1, <2>3
    <3>2. /\ g = [l \in 1..C |-> g[l]] /\ g[e] = FromHere(L, M, f, e)
          /\ \A l \in 1..C : l # e => g[l] = f[l]
      BY <3>1
    <3> HIDE DEF g
    <3>3. ASSUME NEW l \in (C - d)..C, l >= 1
          PROVE  g[l] = FromHere(L, M, g, l)
      <4>1. l \in 1..C /\ \A k \in (l + 1)..C : k \in 1..C /\ k # e
        BY <1>1, <3>1, <3>3
      <4>2. FromHere(L, M, f, l) = FromHere(L, M, g, l)
        BY <1>2, <3>2, <4>1, SMTT(30)
      <4>3. CASE l = e
        BY <3>2, <4>2, <4>3
      <4>4. CASE l # e
        BY <2>1, <3>1, <3>2, <3>3, <4>1, <4>2, <4>4
      <4> QED BY <4>3, <4>4
    <3>4. Good(d)
      BY <3>2, <3>3
    <3> QED BY <3>4
  <2> QED BY <2>2, <2>3
<1>5. C \in S
  <2> HIDE DEF S, C
  <2>1. 0..C \subseteq S
    BY <1>1, <1>3, <1>4, Induction
  <2> QED BY <1>1, <2>1
<1>6. PICK f : /\ f = [l \in 1..C |-> f[l]]
               /\ \A l \in (C - C)..C : l >= 1 => f[l] = FromHere(L, M, f, l)
  BY <1>5
<1>7. \A l \in 1..C : f[l] = FromHere(L, M, f, l)
  BY <1>1, <1>6
<1> HIDE DEF C
<1>8. f = [l \in 1..C |-> FromHere(L, M, f, l)]
  BY <1>6, <1>7
<1> QED BY <1>8 DEF C

LEMMA WalkUnfolds ==
  ASSUME NEW L \in Seq(Nat), NEW M
  PROVE  \E f : /\ f = [l \in 1..(Len(L) + 1) |-> FromHere(L, M, f, l)]
                /\ Walk(L, M) = f[1][1]
<1> DEFINE Is(f) == f = [l \in 1..(Len(L) + 1) |->
            [m \in 1..(Len(M) + 1) |->
                IF l > Len(L) THEN {M[j] : j \in m..Len(M)}
                ELSE LET n == StopsAt(M, m, L[l])
                         next == IF n <= Len(M) THEN n + 1 ELSE n
                     IN  {M[j] : j \in m..(n - 1)} \cup f[NextUser(L, l)][next]]]
           h == CHOOSE f : Is(f)
<1>1. Walk(L, M) = h[1][1]
  BY DEF Walk
<1>2. \A f : Is(f) <=> f = [l \in 1..(Len(L) + 1) |-> FromHere(L, M, f, l)]
  BY DEF FromHere
<1> HIDE DEF Is
<1>3. \E f : Is(f)
  BY <1>2, WalkExists
<1>4. Is(h)
  BY <1>3
<1> QED BY <1>1, <1>2, <1>4

LEMMA SplitInterval ==
  ASSUME NEW a \in Int, NEW b \in Int, NEW c \in Int, a <= b, b <= c + 1
  PROVE  \A j : j \in a..c <=> j \in a..(b - 1) \/ j \in b..c
OBVIOUS

LEMMA Between ==
  ASSUME NEW x \in Nat, NEW y \in Nat, NEW z \in Nat, y <= z \/ y = z
  PROVE  /\ x < y => x < z /\ x # z
         /\ x <= y /\ y # x => z > x
OBVIOUS

LEMMA WalkIsExact ==
  ASSUME NEW L \in Seq(Nat), NEW M \in Seq(Nat), Sorted(L), Strict(M),
         \A k \in 1..Len(L) : \E j \in 1..Len(M) : M[j] = L[k]
  PROVE  Walk(L, M) = {M[j] : j \in 1..Len(M)} \ {L[k] : k \in 1..Len(L)}
<1> DEFINE C == Len(L) + 1
           D == Len(M) + 1
<1>1. PICK f : /\ f = [l \in 1..C |-> FromHere(L, M, f, l)]
               /\ Walk(L, M) = f[1][1]
  BY WalkUnfolds, ZenonT(60)
<1>2. /\ Len(L) \in Nat /\ Len(M) \in Nat /\ C = Len(L) + 1 /\ D = Len(M) + 1
      /\ \A k \in 1..Len(L) : L[k] \in Nat
      /\ \A k \in 1..Len(M) : M[k] \in Nat
  OBVIOUS
<1> HIDE DEF C, D
<1> DEFINE Rest(l, m) == {M[j] : j \in m..Len(M)} \ {L[i] : i \in l..Len(L)}
           Apart(l, m) == \A j \in 1..(m - 1), i \in l..Len(L) : M[j] # L[i]
           Good(l) == \A m \in 1..D : Apart(l, m) => f[l][m] = Rest(l, m)
           S == {d \in 0..C : \A l \in 1..C : l >= C - d => Good(l)}
<1>3. ASSUME NEW l \in 1..C, NEW m \in 1..D
      PROVE  f[l][m] = IF l > Len(L) THEN {M[j] : j \in m..Len(M)}
                       ELSE LET n == StopsAt(M, m, L[l])
                                next == IF n <= Len(M) THEN n + 1 ELSE n
                            IN  {M[j] : j \in m..(n - 1)} \cup f[NextUser(L, l)][next]
  <2>1. f[l] = FromHere(L, M, f, l)
    BY <1>1
  <2> QED BY <1>2, <2>1 DEF FromHere
<1>4. Good(C)
  <2> SUFFICES ASSUME NEW m \in 1..D PROVE f[C][m] = Rest(C, m)
    OBVIOUS
  <2>1. C \in 1..C /\ C > Len(L) /\ C..Len(L) = {}
    BY <1>2
  <2>2. f[C][m] = {M[j] : j \in m..Len(M)}
    BY <1>3, <2>1
  <2> QED BY <2>1, <2>2
<1>5. ASSUME NEW l \in 1..Len(L), \A k \in 1..C : k > l => Good(k)
      PROVE  Good(l)
  <2> SUFFICES ASSUME NEW m \in 1..D, Apart(l, m) PROVE f[l][m] = Rest(l, m)
    OBVIOUS
  <2> DEFINE n == StopsAt(M, m, L[l])  k == NextUser(L, l)
  <2>1. /\ k \in (l + 1)..C
        /\ \A j \in l..(k - 1) : L[j] = L[l]
        /\ k <= Len(L) => L[k] # L[l]
    BY <1>2, NextUserIs
  <2>2. /\ n \in m..D
        /\ \A j \in m..(n - 1) : M[j] < L[l]
        /\ n <= Len(M) => M[n] >= L[l]
    BY <1>2, StopsAtIs
  <2> HIDE DEF n, k
  <2>0. /\ l \in Int /\ k \in Int /\ m \in Int /\ n \in Int
        /\ l < k /\ k <= Len(L) + 1 /\ m <= n /\ m >= 1
    BY <1>2, <2>1, <2>2
  <2>3. PICK p \in 1..Len(M) : M[p] = L[l]
    OBVIOUS
  <2>4. p >= m
    BY <1>2, <2>3
  <2>5. n <= Len(M) /\ M[n] = L[l]
    <3>1. p >= n
      <4> SUFFICES ASSUME p < n PROVE FALSE
        BY <1>2, <2>2
      <4>1. p \in m..(n - 1)
        BY <1>2, <2>2, <2>4
      <4>2. M[p] < L[l] /\ L[l] \in Nat
        BY <1>2, <2>2, <4>1
      <4> QED BY <2>3, <4>2
    <3>2. n \in 1..Len(M)
      BY <1>2, <2>2, <3>1
    <3>3. M[n] >= L[l] /\ M[n] \in Nat /\ L[l] \in Nat
      BY <1>2, <2>2, <3>2
    <3>4. ~(n < p)
      <4> SUFFICES ASSUME n < p PROVE FALSE
        OBVIOUS
      <4>1. M[n] < M[p] /\ M[p] \in Nat
        BY <1>2, <3>2 DEF Strict
      <4> QED BY <2>3, <3>3, <4>1, SMTT(30)
    <3>5. n = p
      BY <3>1, <3>2, <3>4
    <3> QED BY <2>3, <3>2, <3>5
  <2>6. n \in 1..Len(M) /\ n + 1 \in 1..D /\ k \in 1..C /\ k > l
    BY <1>2, <2>1, <2>2, <2>5
  <2>7. f[l][m] = {M[j] : j \in m..(n - 1)} \cup f[k][n + 1]
    <3>1. l \in 1..C /\ ~(l > Len(L))
      BY <1>2, SMTT(30)
    <3> QED BY <1>3, <2>5, <3>1 DEF n, k
  <2>8. \A i \in k..Len(L) : L[i] > L[l]
    <3> SUFFICES ASSUME NEW i \in k..Len(L) PROVE L[i] > L[l]
      OBVIOUS
    <3>1. /\ k \in 1..Len(L) /\ i \in 1..Len(L) /\ l < k
      BY <1>2, <2>1
    <3>2. L[l] <= L[k] /\ (k < i => L[k] <= L[i])
      BY <3>1 DEF Sorted
    <3>3. L[k] \in Nat /\ L[l] \in Nat /\ L[i] \in Nat
      BY <1>2, <3>1
    <3>4. L[k] # L[l]
      BY <1>2, <2>1, <3>1
    <3>5. k < i \/ k = i
      <4>1. i \in Int /\ k \in Int /\ i >= k
        BY <1>2, <3>1
      <4> QED BY <4>1
    <3>6. L[k] <= L[i] \/ L[k] = L[i]
      BY <3>2, <3>5
    <3> QED BY <3>2, <3>3, <3>4, <3>6, Between
  <2>9. \A j \in 1..n : M[j] <= L[l]
    <3> SUFFICES ASSUME NEW j \in 1..n PROVE M[j] <= L[l]
      OBVIOUS
    <3>1. j \in 1..Len(M) /\ (j < n \/ j = n)
      BY <1>2, <2>6, SMTT(30)
    <3>2. M[j] \in Nat /\ L[l] \in Nat
      BY <1>2, <3>1
    <3>3. j < n => M[j] < M[n]
      BY <2>6, <3>1 DEF Strict
    <3> QED BY <2>5, <3>1, <3>2, <3>3, SMTT(30)
  <2>10. Apart(k, n + 1)
    <3> SUFFICES ASSUME NEW j \in 1..n, NEW i \in k..Len(L), M[j] = L[i] PROVE FALSE
      BY <2>6
    <3>1. M[j] <= L[l] /\ L[i] > L[l]
      BY <2>8, <2>9
    <3>2. i \in 1..Len(L)
      BY <1>2, <2>6
    <3>3. L[i] \in Nat /\ L[l] \in Nat
      BY <1>2, <3>2
    <3> QED BY <3>1, <3>3, SMTT(30)
  <2>11. f[k][n + 1] = Rest(k, n + 1)
    BY <1>5, <2>6, <2>10
  <2>12. ASSUME NEW x
         PROVE  x \in {M[j] : j \in m..(n - 1)} \cup Rest(k, n + 1) <=> x \in Rest(l, m)
    <3>1. ASSUME NEW j \in m..(n - 1), NEW i \in l..Len(L), M[j] = L[i] PROVE FALSE
      <4>1. M[j] < L[l]
        BY <2>2
      <4>2. i \in 1..Len(L) /\ (l < i \/ l = i)
        BY <1>2, <2>0
      <4>3. L[l] \in Nat /\ L[i] \in Nat
        BY <1>2, <4>2
      <4>4. L[l] <= L[i] \/ L[l] = L[i]
        BY <4>2 DEF Sorted
      <4> QED BY <3>1, <4>1, <4>3, <4>4, Between
    <3>2. ASSUME NEW j \in (n + 1)..Len(M), NEW i \in l..(k - 1), M[j] = L[i] PROVE FALSE
      <4>1. j \in 1..Len(M) /\ n < j /\ L[i] = L[l]
        BY <1>2, <2>1, <2>6
      <4>2. M[n] < M[j]
        BY <2>6, <4>1 DEF Strict
      <4>3. M[n] \in Nat /\ M[j] \in Nat
        BY <1>2, <2>6, <4>1
      <4> QED BY <2>5, <3>2, <4>1, <4>2, <4>3
    <3>3. \A j : j \in m..Len(M) <=> j \in m..(n - 1) \/ j = n \/ j \in (n + 1)..Len(M)
      <4>0. /\ Len(M) \in Int /\ n <= Len(M) + 1 /\ n <= n + 1 /\ n + 1 <= Len(M) + 1
            /\ n + 1 \in Int /\ n..((n + 1) - 1) = {n}
        BY <1>2, <2>0, <2>5
      <4>1. \A j : j \in m..Len(M) <=> j \in m..(n - 1) \/ j \in n..Len(M)
        BY <2>0, <4>0, SplitInterval
      <4>2. \A j : j \in n..Len(M) <=> j \in n..((n + 1) - 1) \/ j \in (n + 1)..Len(M)
        BY <2>0, <4>0, SplitInterval
      <4> QED BY <4>0, <4>1, <4>2
    <3>4. \A i : i \in l..Len(L) <=> i \in l..(k - 1) \/ i \in k..Len(L)
      BY <1>2, <2>0, SplitInterval, SMTT(30)
    <3>5. l \in l..Len(L) /\ M[n] = L[l]
      BY <2>5
    <3>6. ASSUME x \in {M[j] : j \in m..(n - 1)} \cup Rest(k, n + 1)
          PROVE  x \in Rest(l, m)
      <4>1. CASE x \in {M[j] : j \in m..(n - 1)}
        BY <3>1, <3>3, <4>1
      <4>2. CASE x \in Rest(k, n + 1)
        <5>1. PICK j \in (n + 1)..Len(M) : x = M[j] /\ x \notin {L[i] : i \in k..Len(L)}
          BY <4>2
        <5>2. j \in m..Len(M)
          BY <3>3
        <5>3. \A i \in l..(k - 1) : L[i] # x
          BY <3>2, <5>1
        <5> QED BY <3>4, <5>1, <5>2, <5>3
      <4> QED BY <3>6, <4>1, <4>2
    <3>7. ASSUME x \in Rest(l, m)
          PROVE  x \in {M[j] : j \in m..(n - 1)} \cup Rest(k, n + 1)
      BY <3>3, <3>4, <3>5, <3>7
    <3> QED BY <3>6, <3>7
  <2> QED BY <2>7, <2>11, <2>12
<1>6. 0 \in S
  <2> HIDE DEF Good
  <2>1. \A l \in 1..C : l >= C - 0 => l = C
    BY <1>2
  <2> QED BY <1>2, <1>4, <2>1
<1>7. ASSUME NEW d \in 1..C, d - 1 \in S
      PROVE  d \in S
  <2>1. \A l \in 1..C : l >= C - (d - 1) => Good(l)
    BY <1>7
  <2> HIDE DEF Good
  <2>2. ASSUME NEW l \in 1..C, l >= C - d PROVE Good(l)
    <3>1. CASE l >= C - (d - 1)
      BY <2>1, <3>1
    <3>2. CASE ~(l >= C - (d - 1))
      <4>1. l \in 1..Len(L) /\ \A k \in 1..C : k > l => k >= C - (d - 1)
        BY <1>2, <2>2, <3>2
      <4> QED BY <1>5, <2>1, <4>1
    <3> QED BY <3>1, <3>2
  <2> QED BY <2>2
<1>8. C \in S
  <2> HIDE DEF S
  <2>1. C \in Nat
    BY <1>2
  <2>2. 0..C \subseteq S
    BY <1>6, <1>7, <2>1, Induction
  <2> QED BY <2>1, <2>2
<1>9. 1 \in 1..C /\ 1 >= C - C /\ 1 \in 1..D
  BY <1>2
<1>10. Good(1)
  <2> HIDE DEF Good
  <2> QED BY <1>8, <1>9
<1>11. Apart(1, 1)
  OBVIOUS
<1>12. f[1][1] = Rest(1, 1)
  BY <1>9, <1>10, <1>11
<1> QED BY <1>1, <1>12

\* A new message is notified to the members without a listener.
LEMMA NotifiesAbsent ==
  ASSUME listeners \subseteq Client
  PROVE  ToNotify = Member \ {User[c] : c \in listeners}
<1> DEFINE L == ListeningUsers  M == Ascending(Member)
<1>1. /\ L \in Seq(Member) /\ Sorted(L)
      /\ \A k \in 1..Len(L) : \E c \in listeners : L[k] = User[c]
      /\ \A c \in listeners : \E k \in 1..Len(L) : L[k] = User[c]
  BY ListeningUsersIs
<1>2. Member \in SUBSET Nat /\ IsFiniteSet(Member)
  BY ConversationAssumption
<1>3. /\ M \in Seq(Member) /\ Strict(M)
      /\ \A n \in Member : \E k \in 1..Len(M) : M[k] = n
  BY <1>2, AscendingIs
<1>4. ToNotify = Walk(L, M)
  BY DEF ToNotify
<1> HIDE DEF L, M
<1>5. L \in Seq(Nat) /\ M \in Seq(Nat)
  <2>1. \A s \in Seq(Member) : s \in Seq(Nat)
    <3> SUFFICES ASSUME NEW s \in Seq(Member) PROVE s \in Seq(Nat)
      OBVIOUS
    <3>1. s \in [1..Len(s) -> Member] /\ Len(s) \in Nat
      OBVIOUS
    <3>2. s \in [1..Len(s) -> Nat]
      BY <1>2, <3>1
    <3> QED BY <3>1, <3>2
  <2> QED BY <1>1, <1>3, <2>1
<1>6. \A k \in 1..Len(L) : L[k] \in Member
  BY <1>1
<1>7. \A k \in 1..Len(M) : M[k] \in Member
  BY <1>3
<1>8. Walk(L, M) = {M[j] : j \in 1..Len(M)} \ {L[k] : k \in 1..Len(L)}
  BY <1>1, <1>3, <1>5, <1>6, WalkIsExact
<1>9. {M[j] : j \in 1..Len(M)} = Member
  BY <1>3, <1>7
<1>10. {L[k] : k \in 1..Len(L)} = {User[c] : c \in listeners}
  BY <1>1
<1> QED BY <1>4, <1>8, <1>9, <1>10

Mail == [kind : {"connect", "disconnect", "request"}, client : Client,
         number : Nat]

Types ==
    /\ mailbox \in Seq(Mail)
    /\ status \in [Client -> Status]
    /\ failed \subseteq Client
    /\ listeners \subseteq Client

\* One Connect at most is on its way for a client, and while it is the client
\* waits for it.
ConnectSound ==
    \A j, k \in DOMAIN mailbox :
        mailbox[j].kind = "connect" =>
            /\ status[mailbox[j].client] = "connecting"
            /\ /\ mailbox[k].kind = "connect"
               /\ mailbox[k].client = mailbox[j].client
               => j = k

\* A client is to be dropped only when it is gone for good.
DropSound ==
    /\ \A k \in DOMAIN mailbox :
            mailbox[k].kind = "disconnect" => status[mailbox[k].client] = "gone"
    /\ \A c \in failed : status[c] = "gone"
    /\ \A c \in listeners : status[c] # "new"

IInv == Types /\ ConnectSound /\ DropSound /\ OpenIsListening

LEMMA InitInvariant == Init => IInv
BY DEF Init, IInv, Types, ConnectSound, DropSound, OpenIsListening, Mail, Status

-----------------------------------------------------------------------------
(* How the mailbox changes *)

\* A message is added; no client starts to wait, or stops waiting.
LEMMA AppendInvariant ==
  ASSUME IInv, NEW m \in Mail, mailbox' = Append(mailbox, m),
         m.kind # "connect", status' \in [Client -> Status],
         \A c \in Client : status'[c] = status[c]
                           \/ (status'[c] = "gone" /\ status[c] \in {"open", "refused"}),
         m.kind = "disconnect" => status'[m.client] = "gone",
         UNCHANGED <<listeners, failed>>
  PROVE  IInv'
<1>1. Len(mailbox') = Len(mailbox) + 1 /\ mailbox' \in Seq(Mail)
  BY DEF IInv, Types
<1>2. \A k \in DOMAIN mailbox : mailbox'[k] = mailbox[k]
  BY DEF IInv, Types
<1>3. mailbox'[Len(mailbox) + 1] = m
  BY DEF IInv, Types
<1>4. \A k \in DOMAIN mailbox' : k \in DOMAIN mailbox \/ k = Len(mailbox) + 1
  BY <1>1 DEF IInv, Types
<1>5. \A k \in DOMAIN mailbox : mailbox[k] \in Mail
  BY DEF IInv, Types
<1>6. ConnectSound'
  <2>1. ASSUME NEW k \in DOMAIN mailbox', mailbox'[k].kind = "connect"
        PROVE  k \in DOMAIN mailbox /\ mailbox[k].kind = "connect"
    BY <1>2, <1>3, <1>4, <2>1
  <2>2. ASSUME NEW k \in DOMAIN mailbox, mailbox[k].kind = "connect"
        PROVE  status'[mailbox[k].client] = "connecting"
    BY <1>5, <2>2 DEF IInv, ConnectSound, Mail
  <2>. QED  BY <1>2, <2>1, <2>2 DEF IInv, ConnectSound
<1>7. DropSound' /\ OpenIsListening'
  BY <1>2, <1>3, <1>4, <1>5 DEF IInv, Types, DropSound, OpenIsListening, Mail
<1>. QED  BY <1>1, <1>6, <1>7 DEF IInv, Types

LEMMA TailSound ==
  ASSUME IInv, mailbox # <<>>
  PROVE  /\ Tail(mailbox) \in Seq(Mail)
         /\ \A k \in DOMAIN Tail(mailbox) :
                /\ k + 1 \in DOMAIN mailbox /\ k + 1 # 1 /\ k \in Nat
                /\ Tail(mailbox)[k] = mailbox[k + 1]
         /\ 1 \in DOMAIN mailbox /\ Head(mailbox) = mailbox[1]
         /\ Head(mailbox) \in Mail
         /\ \A k \in DOMAIN mailbox : mailbox[k] \in Mail /\ k \in Nat
BY DEF IInv, Types

LEMMA TailConnectSound ==
  ASSUME IInv, mailbox # <<>>, mailbox' = Tail(mailbox),
         \A k \in DOMAIN mailbox' : mailbox'[k].kind = "connect" =>
            status'[mailbox'[k].client] = status[mailbox'[k].client]
  PROVE  ConnectSound'
<1>. SUFFICES ASSUME NEW j \in DOMAIN mailbox', NEW k \in DOMAIN mailbox',
                     mailbox'[j].kind = "connect"
              PROVE  /\ status'[mailbox'[j].client] = "connecting"
                     /\ mailbox'[k].kind = "connect"
                        /\ mailbox'[k].client = mailbox'[j].client => j = k
  BY DEF ConnectSound
<1>1. /\ j + 1 \in DOMAIN mailbox /\ mailbox'[j] = mailbox[j + 1] /\ j \in Nat
      /\ k + 1 \in DOMAIN mailbox /\ mailbox'[k] = mailbox[k + 1] /\ k \in Nat
  BY TailSound
<1>2. /\ status[mailbox[j + 1].client] = "connecting"
      /\ mailbox[k + 1].kind = "connect"
         /\ mailbox[k + 1].client = mailbox[j + 1].client => j + 1 = k + 1
  BY <1>1 DEF IInv, ConnectSound
<1>. QED  BY <1>1, <1>2

\* A message is taken that changes no client.
LEMMA TailInvariant ==
  ASSUME IInv, mailbox # <<>>, mailbox' = Tail(mailbox),
         UNCHANGED <<status, listeners>>,
         \A c \in failed' : c \in failed \/ (c \in listeners /\ ~Alive(c))
  PROVE  IInv'
<1>. USE TailSound
<1>1. failed' \subseteq Client
  BY DEF IInv, Types
<1>2. Types'
  BY <1>1 DEF IInv, Types
<1>3. ConnectSound'
  BY TailConnectSound
<1>4. \A c \in failed' : status[c] = "gone"
  BY DEF IInv, DropSound, Alive
<1>5. DropSound' /\ OpenIsListening'
  BY <1>4 DEF IInv, DropSound, OpenIsListening
<1>. QED  BY <1>2, <1>3, <1>5 DEF IInv

LEMMA ConnectInvariant ==
  ASSUME IInv, Connect
  PROVE  IInv'
<1>. USE TailSound
<1>. DEFINE c == Head(mailbox).client
<1>1. mailbox # <<>> /\ Head(mailbox).kind = "connect" /\ mailbox' = Tail(mailbox)
  BY DEF Connect, Received
<1>2. c \in Client /\ UNCHANGED failed
  BY <1>1 DEF Mail, Connect
<1>3. PICK s \in {"accepted", "refused"} :
        /\ status' = [status EXCEPT ![c] = s]
        /\ s = "accepted" => listeners' = listeners \cup {c}
        /\ s = "refused" => listeners' = listeners
  BY DEF Connect
<1>4. /\ status[c] = "connecting"
      /\ \A k \in DOMAIN mailbox :
            mailbox[k].kind = "connect" /\ mailbox[k].client = c => k = 1
  BY <1>1 DEF IInv, ConnectSound
<1>. HIDE DEF c
<1>5. Types'
  BY <1>1, <1>2, <1>3 DEF IInv, Types, Status
<1>6. \A d \in Client : d # c => status'[d] = status[d]
  BY <1>3 DEF IInv, Types
<1>7. status'[c] \in {"accepted", "refused"}
  BY <1>2, <1>3 DEF IInv, Types
<1>8. ConnectSound'
  <2>1. ASSUME NEW k \in DOMAIN mailbox', mailbox'[k].kind = "connect"
        PROVE  mailbox'[k].client \in Client \ {c}
    BY <1>1, <1>4, <2>1 DEF Mail
  <2>. QED  BY <1>1, <1>6, <2>1, TailConnectSound
<1>9. DropSound'
  <2>1. ASSUME NEW k \in DOMAIN mailbox', mailbox'[k].kind = "disconnect"
        PROVE  status'[mailbox'[k].client] = "gone"
    <3>1. mailbox'[k].client \in Client /\ status[mailbox'[k].client] = "gone"
      BY <1>1, <2>1 DEF IInv, DropSound, Mail
    <3>. QED  BY <1>4, <1>6, <3>1
  <2>2. ASSUME NEW d \in failed' PROVE status'[d] = "gone"
    BY <1>2, <1>4, <1>6, <2>2 DEF IInv, Types, DropSound
  <2>3. ASSUME NEW d \in listeners' PROVE status'[d] # "new"
    BY <1>2, <1>3, <1>6, <1>7, <2>3 DEF IInv, Types, DropSound
  <2>. QED  BY <2>1, <2>2, <2>3 DEF DropSound
<1>10. OpenIsListening'
  <2>1. ASSUME NEW d \in Client, status'[d] \in {"accepted", "open"}
        PROVE  d \in listeners'
    <3>1. CASE d = c
      BY <1>3, <1>2, <2>1, <3>1 DEF IInv, Types
    <3>2. CASE d # c
      BY <1>3, <1>6, <2>1, <3>2 DEF IInv, OpenIsListening
    <3>. QED  BY <3>1, <3>2
  <2>. QED  BY <2>1 DEF OpenIsListening
<1>. QED  BY <1>5, <1>8, <1>9, <1>10 DEF IInv

\* A client that is gone is taken from the listeners.
LEMMA DropInvariant ==
  ASSUME IInv, NEW c \in Client, status[c] = "gone",
         listeners' = listeners \ {c}, failed' \subseteq failed,
         UNCHANGED status,
         mailbox' = mailbox \/ (mailbox # <<>> /\ mailbox' = Tail(mailbox))
  PROVE  IInv'
<1>1. CASE mailbox' = mailbox
  BY <1>1 DEF IInv, Types, ConnectSound, DropSound, OpenIsListening
<1>2. CASE mailbox # <<>> /\ mailbox' = Tail(mailbox)
  <2>. USE <1>2, TailSound
  <2>1. Types'
    BY DEF IInv, Types
  <2>2. ConnectSound'
    BY TailConnectSound
  <2>3. DropSound' /\ OpenIsListening'
    BY DEF IInv, DropSound, OpenIsListening
  <2>. QED  BY <2>1, <2>2, <2>3 DEF IInv
<1>. QED  BY <1>1, <1>2

LEMMA BrokerInvariant ==
  ASSUME IInv, Broker
  PROVE  IInv'
<1>1. CASE Connect
  BY <1>1, ConnectInvariant
<1>2. CASE Disconnect
  <2>1. Head(mailbox).client \in Client /\ status[Head(mailbox).client] = "gone"
    BY <1>2, TailSound DEF Disconnect, Received, IInv, DropSound, Mail
  <2>. QED  BY <1>2, <2>1, DropInvariant DEF Disconnect, Received, Without
<1>3. CASE DropFailed
  <2>1. PICK c \in failed : listeners' = Without(c) /\ failed' = failed \ {c}
    BY <1>3 DEF DropFailed
  <2>2. c \in Client /\ status[c] = "gone"
    BY DEF IInv, Types, DropSound
  <2>. QED  BY <1>3, <2>1, <2>2, DropInvariant DEF DropFailed, Without
<1>4. ASSUME NEW c \in Client, NEW n \in 1..MaxRequests, RecordMessage(c, n)
      PROVE  IInv'
  BY <1>4, TailInvariant DEF RecordMessage, Handling, Received, ListenersFor
<1>5. ASSUME NEW c \in Client, NEW n \in 1..MaxRequests,
             RejectMessage(c, n) \/ FailRequest(c, n) \/ GetHistory(c, n)
      PROVE  IInv'
  BY <1>5, TailInvariant
     DEF RejectMessage, FailRequest, GetHistory, Handling, Received
<1>. QED  BY <1>1, <1>2, <1>3, <1>4, <1>5 DEF Broker

LEMMA StartInvariant ==
  ASSUME IInv, NEW c \in Client, Start(c)
  PROVE  IInv'
<1>1. /\ status[c] = "new" /\ status' = [status EXCEPT ![c] = "connecting"]
      /\ mailbox' = Append(mailbox, [kind |-> "connect", client |-> c, number |-> 0])
      /\ UNCHANGED <<listeners, failed>>
  BY DEF Start, Send
<1>2. status' \in [Client -> Status] /\ \A d \in Client \ {c} : status'[d] = status[d]
  BY <1>1 DEF IInv, Types, Status
<1>3. [kind |-> "connect", client |-> c, number |-> 0] \in Mail
  BY ConversationAssumption DEF Mail
<1>4. /\ Len(mailbox') = Len(mailbox) + 1 /\ mailbox' \in Seq(Mail)
      /\ mailbox'[Len(mailbox) + 1] = [kind |-> "connect", client |-> c, number |-> 0]
      /\ \A k \in DOMAIN mailbox : mailbox'[k] = mailbox[k] /\ mailbox[k] \in Mail
      /\ \A k \in DOMAIN mailbox' : k \in DOMAIN mailbox \/ k = Len(mailbox) + 1
  BY <1>1, <1>3 DEF IInv, Types
<1>5. \A k \in DOMAIN mailbox :
        mailbox[k].kind = "connect" =>
            mailbox[k].client \in Client \ {c} /\ status[mailbox[k].client] = "connecting"
  BY <1>1, <1>4 DEF IInv, ConnectSound, Mail
<1>6. ConnectSound'
  <2>1. ASSUME NEW k \in DOMAIN mailbox', mailbox'[k].kind = "connect"
        PROVE  /\ status'[mailbox'[k].client] = "connecting"
               /\ mailbox'[k].client = c <=> k = Len(mailbox) + 1
    <3>1. CASE k \in DOMAIN mailbox
      BY <1>2, <1>4, <1>5, <2>1, <3>1 DEF IInv, Types
    <3>2. CASE k = Len(mailbox) + 1
      BY <1>1, <1>4, <3>2 DEF IInv, Types
    <3>. QED  BY <1>4, <3>1, <3>2
  <2>2. ASSUME NEW j \in DOMAIN mailbox', NEW k \in DOMAIN mailbox',
               mailbox'[j].kind = "connect", mailbox'[k].kind = "connect",
               mailbox'[k].client = mailbox'[j].client
        PROVE  j = k
    <3>1. CASE mailbox'[j].client = c
      BY <2>1, <2>2, <3>1
    <3>2. CASE mailbox'[j].client # c
      <4>1. j \in DOMAIN mailbox /\ k \in DOMAIN mailbox
        BY <1>4, <2>1, <2>2, <3>2
      <4>. QED  BY <1>4, <2>2, <4>1 DEF IInv, ConnectSound
    <3>. QED  BY <3>1, <3>2
  <2>. QED  BY <2>1, <2>2 DEF ConnectSound
<1>7. DropSound'
  <2>1. ASSUME NEW k \in DOMAIN mailbox', mailbox'[k].kind = "disconnect"
        PROVE  status'[mailbox'[k].client] = "gone"
    <3>1. k \in DOMAIN mailbox
      BY <1>4, <2>1
    <3>2. mailbox[k].client \in Client /\ status[mailbox[k].client] = "gone"
      BY <1>4, <2>1, <3>1 DEF IInv, DropSound, Mail
    <3>. QED  BY <1>1, <1>2, <1>4, <3>1, <3>2
  <2>2. \A d \in failed' : status'[d] = "gone"
    BY <1>1, <1>2 DEF IInv, Types, DropSound
  <2>3. \A d \in listeners' : status'[d] # "new"
    BY <1>1, <1>2 DEF IInv, Types, DropSound
  <2>. QED  BY <2>1, <2>2, <2>3 DEF DropSound
<1>8. OpenIsListening'
  BY <1>1, <1>2 DEF IInv, Types, OpenIsListening
<1>. QED  BY <1>1, <1>2, <1>4, <1>6, <1>7, <1>8 DEF IInv, Types

\* Steps of a client that leave the broker's mailbox alone.
LEMMA ClientInvariant ==
  ASSUME IInv, NEW c \in Client, ClientStep(c)
  PROVE  IInv'
<1>1. UNCHANGED <<mailbox, listeners, failed>>
  BY DEF ClientStep, Greet, Forward, Answer
<1>2. CASE Greet(c)
  <2>1. /\ status[c] = "accepted" /\ status' = [status EXCEPT ![c] = "open"]
    BY <1>2 DEF Greet
  <2>2. \A d \in Client : status'[d] = status[d]
            \/ (status'[d] = "open" /\ status[d] = "accepted")
    BY <2>1 DEF IInv, Types
  <2>3. status' \in [Client -> Status]
    BY <2>1 DEF IInv, Types, Status
  <2>4. \A k \in DOMAIN mailbox : mailbox[k].client \in Client
    <3>1. \A k \in DOMAIN mailbox : mailbox[k] \in Mail
      BY DEF IInv, Types
    <3>. QED  BY <3>1 DEF Mail
  <2>5. ConnectSound' /\ DropSound' /\ OpenIsListening'
    BY <1>1, <2>2, <2>4
       DEF IInv, Types, ConnectSound, DropSound, OpenIsListening
  <2>. QED  BY <1>1, <2>3, <2>5 DEF IInv, Types
<1>3. CASE Forward(c) \/ \E n \in 1..MaxRequests : Answer(c, n)
  BY <1>1, <1>3
     DEF Forward, Answer, IInv, Types, ConnectSound, DropSound, OpenIsListening
<1>. QED  BY <1>2, <1>3 DEF ClientStep

LEMMA RemoteInvariant ==
  ASSUME IInv, NEW c \in Client, Remote(c)
  PROVE  IInv'
<1>1. CASE Start(c)
  BY <1>1, StartInvariant
<1>2. CASE Stop(c)
  <2>1. [kind |-> "disconnect", client |-> c, number |-> 0] \in Mail
    BY ConversationAssumption DEF Mail
  <2>2. /\ status[c] \in {"open", "refused"}
        /\ status' = [status EXCEPT ![c] = "gone"]
    BY <1>2 DEF Stop, Runs, Alive, Suspended, IInv, Types, Status
  <2>3. status' \in [Client -> Status] /\ status'[c] = "gone"
        /\ \A d \in Client : \/ status'[d] = status[d]
                             \/ (status'[d] = "gone" /\ status[d] \in {"open", "refused"})
    BY <2>2 DEF IInv, Types, Status
  <2>. QED  BY <1>2, <2>1, <2>3, AppendInvariant DEF Stop, Send
<1>3. ASSUME NEW kind \in Kind, NEW required \in BOOLEAN, NEW from, NEW after,
             Ask(c, kind, required, from, after)
      PROVE  IInv'
  <2>1. UNCHANGED <<status, listeners, failed>>
    BY <1>3 DEF Ask
  <2>2. PICK m \in Mail : m.kind = "request" /\ mailbox' = Append(mailbox, m)
    <3>. DEFINE m == [kind |-> "request", client |-> c,
                      number |-> Len(requests[c]) + 1]
    <3>1. m \in Mail /\ m.kind = "request"
      BY <1>3, ConversationAssumption DEF Ask, Mail
    <3>2. mailbox' = Append(mailbox, m)
      BY <1>3 DEF Ask, Send
    <3>. QED  BY <3>1, <3>2
  <2>. QED  BY <2>1, <2>2, AppendInvariant DEF IInv, Types
<1>. QED  BY <1>1, <1>2, <1>3 DEF Remote, Kind

LEMMA NextInvariant == IInv /\ [Next]_vars => IInv'
<1>1. SUFFICES ASSUME IInv, [Next]_vars PROVE IInv'
  OBVIOUS
<1>2. CASE Broker
  BY <1>1, <1>2, BrokerInvariant
<1>3. CASE \E c \in Client : ClientStep(c) \/ Remote(c)
  BY <1>1, <1>3, ClientInvariant, RemoteInvariant
<1>4. CASE UNCHANGED vars
  BY <1>1, <1>4
     DEF vars, IInv, Types, ConnectSound, DropSound, OpenIsListening
<1>. QED  BY <1>1, <1>2, <1>3, <1>4 DEF Next

\* However many connections a user opens and closes, and whatever the broker
\* fails to send, a client that was let in is in the broker's list until it
\* stops (Handler<Connect>, Handler<Disconnect>).
THEOREM StaysListening == Spec => []OpenIsListening
<1>1. IInv => OpenIsListening
  BY DEF IInv
<1>2. Spec => []IInv
  BY InitInvariant, NextInvariant, PTL DEF Spec
<1>. QED  BY <1>1, <1>2, PTL

-----------------------------------------------------------------------------
(***************************************************************************)
(* Types, and how requests change: a request is only ever added at the     *)
(* end, and of one that is there only the reply and the mark that it has   *)
(* been written change.                                                    *)
(***************************************************************************)
\* A request in the broker's mailbox is one its client knows of.
RequestsKnown ==
    \A k \in DOMAIN mailbox :
        mailbox[k].kind = "request" =>
            mailbox[k].number \in DOMAIN requests[mailbox[k].client]

Typed == TypeOK /\ RequestsKnown

\* Request n of client c is now r, and no other request has changed.
Replaces(c, n, r) ==
    /\ requests' \in [Client -> Seq(Request)]
    /\ \A d \in Client : DOMAIN requests'[d] = DOMAIN requests[d]
    /\ \A d \in Client : \A k \in DOMAIN requests[d] :
        requests'[d][k] = IF d = c /\ k = n THEN r ELSE requests[d][k]

LEMMA ReplyReplaces ==
  ASSUME TypeOK, NEW c \in Client, NEW n \in DOMAIN requests[c],
         NEW reply \in Reply, ReplyTo(c, n, reply)
  PROVE  Replaces(c, n, [requests[c][n] EXCEPT !.reply = reply])
<1> DEFINE r == [requests[c][n] EXCEPT !.reply = reply]
           q == [requests[c] EXCEPT ![n] = r]
<1>1. requests \in [Client -> Seq(Request)]
  BY DEF TypeOK
<1>2. requests[c][n] \in Request
  BY <1>1
<1>3. r \in Request
  BY <1>2 DEF Request
<1>4. requests' = [requests EXCEPT ![c] = q]
  BY DEF ReplyTo
<1> HIDE DEF r
<1>5. q \in Seq(Request) /\ DOMAIN q = DOMAIN requests[c]
  BY <1>1, <1>3
<1>6. q[n] = r /\ \A k \in DOMAIN requests[c] : k # n => q[k] = requests[c][k]
  BY <1>1
<1> HIDE DEF q
<1>7. Replaces(c, n, r)
  BY <1>1, <1>4, <1>5, <1>6 DEF Replaces
<1> QED BY <1>7 DEF r

LEMMA AnswerReplaces ==
  ASSUME TypeOK, NEW c \in Client, NEW n, Answer(c, n)
  PROVE  /\ n \in DOMAIN requests[c]
         /\ Replaces(c, n, [requests[c][n] EXCEPT !.written = TRUE])
<1> DEFINE r == [requests[c][n] EXCEPT !.written = TRUE]
           q == [requests[c] EXCEPT ![n] = r]
<1>1. requests \in [Client -> Seq(Request)] /\ n \in DOMAIN requests[c]
  BY DEF TypeOK, Answer
<1>2. requests[c][n] \in Request
  BY <1>1
<1>3. r \in Request
  BY <1>2 DEF Request
<1>4. requests' = [requests EXCEPT ![c] = q]
  BY DEF Answer
<1> HIDE DEF r
<1>5. q \in Seq(Request) /\ DOMAIN q = DOMAIN requests[c]
  BY <1>1, <1>3
<1>6. q[n] = r /\ \A k \in DOMAIN requests[c] : k # n => q[k] = requests[c][k]
  BY <1>1
<1> HIDE DEF q
<1>7. Replaces(c, n, r)
  BY <1>1, <1>4, <1>5, <1>6 DEF Replaces
<1> QED BY <1>1, <1>7 DEF r

\* Client c has asked for one thing more.
Asks(c, r) ==
    /\ requests' \in [Client -> Seq(Request)]
    /\ \A d \in Client : DOMAIN requests[d] \subseteq DOMAIN requests'[d]
    /\ \A d \in Client \ {c} : requests'[d] = requests[d]
    /\ DOMAIN requests'[c] = DOMAIN requests[c] \cup {Len(requests[c]) + 1}
    /\ Len(requests'[c]) = Len(requests[c]) + 1
    /\ \A k \in DOMAIN requests[c] :
        requests'[c][k] = requests[c][k] /\ k < Len(requests[c]) + 1
    /\ requests'[c][Len(requests[c]) + 1] = r

LEMMA AskAsks ==
  ASSUME TypeOK, NEW c \in Client, NEW kind \in Kind, NEW required \in BOOLEAN,
         NEW from \in Nat, NEW after \in 0..(Wide - 1),
         Ask(c, kind, required, from, after)
  PROVE  Asks(c, [kind |-> kind, required |-> required, from |-> from,
                  after |-> after, reply |-> Null, written |-> FALSE])
<1> DEFINE r == [kind |-> kind, required |-> required, from |-> from,
                 after |-> after, reply |-> Null, written |-> FALSE]
           q == Append(requests[c], r)
<1>1. requests \in [Client -> Seq(Request)]
  BY DEF TypeOK
<1>2. r \in Request
  BY DEF Request
<1>3. requests' = [requests EXCEPT ![c] = q]
  BY DEF Ask
<1> HIDE DEF r
<1>4. /\ q \in Seq(Request) /\ Len(q) = Len(requests[c]) + 1
      /\ q[Len(requests[c]) + 1] = r
      /\ \A k \in DOMAIN requests[c] : q[k] = requests[c][k] /\ k < Len(requests[c]) + 1
      /\ DOMAIN q = DOMAIN requests[c] \cup {Len(requests[c]) + 1}
  BY <1>1, <1>2
<1> HIDE DEF q
<1>5. Asks(c, r)
  BY <1>1, <1>3, <1>4 DEF Asks
<1> QED BY <1>5 DEF r

\* What a client writes goes to the end of its wire.
LEMMA WriteAppends ==
  ASSUME TypeOK, NEW c \in Client, NEW n \in Nat,
         NEW kind \in {"connected", "message", "reply", "close"}, Write(c, kind, n)
  PROVE  /\ wire' \in [Client -> Seq(Frame)]
         /\ wire'[c] = Append(wire[c], [kind |-> kind, number |-> n])
         /\ \A d \in Client \ {c} : wire'[d] = wire[d]
<1>1. [kind |-> kind, number |-> n] \in Frame
  BY DEF Frame
<1> QED BY <1>1 DEF TypeOK, Write

Posted == [kind : {"connect", "disconnect", "request"},
           client : Client, number : 0..MaxRequests]

\* No client forgets a request.
Remembers == \A d \in Client : DOMAIN requests[d] \subseteq DOMAIN requests'[d]

LEMMA AppendTyped ==
  ASSUME Typed, NEW m \in Posted, mailbox' = Append(mailbox, m), Remembers,
         m.kind = "request" => m.number \in DOMAIN requests'[m.client]
  PROVE  mailbox' \in Seq(Posted) /\ RequestsKnown'
<1>1. mailbox \in Seq(Posted)
  BY DEF Typed, TypeOK, Posted
<1>2. /\ mailbox' \in Seq(Posted)
      /\ \A k \in DOMAIN mailbox : mailbox'[k] = mailbox[k] /\ mailbox[k].client \in Client
      /\ mailbox'[Len(mailbox) + 1] = m
      /\ \A k \in DOMAIN mailbox' : k \in DOMAIN mailbox \/ k = Len(mailbox) + 1
  <2>1. \A k \in DOMAIN mailbox : mailbox[k] \in Posted
    BY <1>1
  <2>2. \A k \in DOMAIN mailbox : mailbox[k].client \in Client
    BY <2>1 DEF Posted
  <2> QED BY <1>1, <2>2
<1> QED BY <1>2 DEF Typed, RequestsKnown, Remembers

LEMMA TailTyped ==
  ASSUME Typed, mailbox # <<>>, mailbox' = Tail(mailbox), Remembers
  PROVE  mailbox' \in Seq(Posted) /\ RequestsKnown'
<1>1. mailbox \in Seq(Posted)
  BY DEF Typed, TypeOK, Posted
<1>2. /\ mailbox' \in Seq(Posted)
      /\ \A k \in DOMAIN mailbox' : k + 1 \in DOMAIN mailbox /\ mailbox'[k] = mailbox[k + 1]
  BY <1>1
<1>3. \A k \in DOMAIN mailbox : mailbox[k] \in Posted
  BY <1>1
<1>4. \A k \in DOMAIN mailbox : mailbox[k].client \in Client
  BY <1>3 DEF Posted
<1> QED BY <1>2, <1>4 DEF Typed, RequestsKnown, Remembers

LEMMA HeadTyped ==
  ASSUME Typed, mailbox # <<>>
  PROVE  /\ Head(mailbox).client \in Client
         /\ Head(mailbox).kind = "request" =>
                Head(mailbox).number \in DOMAIN requests[Head(mailbox).client]
<1>1. mailbox \in Seq(Posted)
  BY DEF Typed, TypeOK, Posted
<1>2. Head(mailbox) \in Posted /\ Head(mailbox) = mailbox[1] /\ 1 \in DOMAIN mailbox
  BY <1>1
<1> QED BY <1>2 DEF Typed, RequestsKnown, Posted

\* What the broker handles is a request of its client.
LEMMA HandledIsKnown ==
  ASSUME Typed, NEW c \in Client, NEW n, NEW kind, Handling(c, n, kind)
  PROVE  /\ n \in DOMAIN requests[c] /\ requests[c][n].kind = kind
         /\ requests[c][n] \in Request
         /\ mailbox # <<>> /\ mailbox' = Tail(mailbox)
<1>1. /\ n \in DOMAIN requests[c] /\ requests[c][n].kind = kind
      /\ mailbox # <<>> /\ mailbox' = Tail(mailbox)
  BY HeadTyped DEF Handling, Received
<1>2. requests[c] \in Seq(Request)
  BY DEF Typed, TypeOK
<1> QED BY <1>1, <1>2

LEMMA InitTyped == Init => Typed
BY ConversationAssumption DEF Init, Typed, TypeOK, RequestsKnown, Status

\* Handlers that only reply.
LEMMA ReplyTyped ==
  ASSUME Typed, NEW c \in Client, NEW n, NEW kind, Handling(c, n, kind),
         NEW reply \in Reply, ReplyTo(c, n, reply)
  PROVE  /\ Replaces(c, n, [requests[c][n] EXCEPT !.reply = reply])
         /\ requests' \in [Client -> Seq(Request)]
         /\ mailbox' \in Seq(Posted) /\ RequestsKnown'
<1>1. Replaces(c, n, [requests[c][n] EXCEPT !.reply = reply])
  BY HandledIsKnown, ReplyReplaces DEF Typed
<1>2. Remembers
  BY <1>1 DEF Replaces, Remembers
<1> QED BY <1>1, <1>2, HandledIsKnown, TailTyped DEF Replaces

\* Where a history starts and ends.
LEMMA AfterReferenceIs ==
  ASSUME NEW r \in Request, NEW log_ \in Nat, r.from \in 1..log_, log_ = Len(log)
  PROVE  /\ AfterReference(r) \in Reply
         /\ AfterReference(r).kind = "history"
         /\ AfterReference(r).first = r.from
         /\ AfterReference(r).last =
                Least(log_, (r.from + Least((r.after + 1) % Wide, Limit)) - 1)
<1> DEFINE limit == Least((r.after + 1) % Wide, Limit)
<1>1. r.after + 1 \in Nat /\ Wide \in Nat \ {0} /\ Limit \in Nat
  BY ConversationAssumption DEF Request
<1>2. (r.after + 1) % Wide \in Nat
  BY <1>1
<1>3. limit \in Nat
  BY <1>1, <1>2 DEF Least
<1>4. AfterReference(r) = [kind |-> "history", first |-> r.from,
                           last |-> Least(Len(log), (r.from + limit) - 1)]
  BY DEF AfterReference
<1> HIDE DEF limit
<1>5. Least(log_, (r.from + limit) - 1) \in Nat
  BY <1>3 DEF Least
<1> QED BY <1>4, <1>5 DEF Reply, limit

LEMMA RecordMessageTyped ==
  ASSUME Typed, NEW c \in Client, NEW n, RecordMessage(c, n)
  PROVE  Typed'
<1>1. [kind |-> "received"] \in Reply
  BY DEF Reply
<1>2. /\ requests' \in [Client -> Seq(Request)]
      /\ mailbox' \in Seq(Posted) /\ RequestsKnown'
  BY <1>1, ReplyTyped DEF RecordMessage
<1>3. /\ log' = Append(log, User[c]) /\ Len(log) < MaxMessages
      /\ log \in Seq(Member) /\ User[c] \in Member
  BY ConversationAssumption DEF RecordMessage, Typed, TypeOK
<1>4. log' \in Seq(Member) /\ Len(log') <= MaxMessages /\ Len(log) + 1 \in Id
  BY <1>3, ConversationAssumption DEF Id
<1>5. inbox' \in [Client -> Seq(Id)]
  BY <1>4 DEF RecordMessage, Typed, TypeOK
<1>6. failed' \subseteq Client /\ UNCHANGED <<status, listeners, wire>>
  BY DEF RecordMessage, Typed, TypeOK, ListenersFor
<1>7. notified' \subseteq [user : Member, message : Id]
  <2>1. notified' = notified \cup {[user |-> u, message |-> Len(log) + 1] : u \in ToNotify}
    BY DEF RecordMessage
  <2>2. ToNotify \subseteq Member
    BY NotifiesAbsent DEF Typed, TypeOK
  <2> QED BY <1>4, <2>1, <2>2 DEF Typed, TypeOK
<1>8. connected' \in [Client -> 0..Len(log')]
  <2>1. connected' = connected /\ Len(log') = Len(log) + 1 /\ Len(log) \in Nat
    BY <1>3 DEF RecordMessage
  <2>2. connected \in [Client -> 0..Len(log)]
    BY DEF Typed, TypeOK
  <2> QED BY <2>1, <2>2
<1> QED BY <1>2, <1>4, <1>5, <1>6, <1>7, <1>8 DEF Typed, TypeOK, Posted

LEMMA BrokerTyped ==
  ASSUME Typed, Broker
  PROVE  Typed'
<1>1. CASE Connect
  <2>1. Received("connect") /\ mailbox' = Tail(mailbox)
        /\ UNCHANGED <<log, failed, inbox, requests, notified>>
    BY <1>1 DEF Connect
  <2>2. mailbox # <<>> /\ Head(mailbox).client \in Client
    BY <2>1, HeadTyped DEF Received
  <2>3. mailbox' \in Seq(Posted) /\ RequestsKnown'
    BY <2>1, <2>2, TailTyped DEF Remembers
  <2> DEFINE c == Head(mailbox).client
  <2>4. listeners' \subseteq Client /\ status' \in [Client -> Status]
    BY <1>1, <2>2 DEF Connect, Typed, TypeOK, Status
  <2>5. wire' \in [Client -> Seq(Frame)]
    <3>1. CASE UNCHANGED wire
      BY <3>1 DEF Typed, TypeOK
    <3>2. CASE Write(c, "close", 0)
      BY <2>2, <3>2, WriteAppends DEF Typed
    <3> QED BY <1>1, <3>1, <3>2 DEF Connect
  <2>6. connected' \in [Client -> 0..Len(log)]
    <3>1. connected' = connected \/ connected' = [connected EXCEPT ![c] = Len(log)]
      BY <1>1 DEF Connect
    <3>2. Len(log) \in 0..Len(log) /\ connected \in [Client -> 0..Len(log)]
      BY DEF Typed, TypeOK
    <3> QED BY <2>2, <3>1, <3>2
  <2> QED BY <2>1, <2>3, <2>4, <2>5, <2>6 DEF Typed, TypeOK, Posted
<1>2. CASE Disconnect
  <2>1. /\ mailbox # <<>> /\ mailbox' = Tail(mailbox)
        /\ listeners' \subseteq listeners
        /\ UNCHANGED <<log, status, failed, inbox, requests, wire, notified,
                       connected>>
    BY <1>2 DEF Disconnect, Received, Without
  <2>2. mailbox' \in Seq(Posted) /\ RequestsKnown'
    BY <2>1, TailTyped DEF Remembers
  <2> QED BY <2>1, <2>2 DEF Typed, TypeOK, Posted
<1>3. CASE DropFailed
  BY <1>3 DEF DropFailed, Without, Typed, TypeOK, RequestsKnown
<1>4. ASSUME NEW c \in Client, NEW n, RecordMessage(c, n)
      PROVE  Typed'
  BY <1>4, RecordMessageTyped
<1>5. ASSUME NEW c \in Client, NEW n, NEW kind, Handling(c, n, kind),
             NEW reply \in Reply, ReplyTo(c, n, reply),
             UNCHANGED <<log, status, listeners, failed, inbox, wire, notified,
                         connected>>
      PROVE  Typed'
  BY <1>5, ReplyTyped DEF Typed, TypeOK, Posted
<1>6. ASSUME NEW c \in Client, NEW n, RejectMessage(c, n)
      PROVE  Typed'
  BY <1>5, <1>6 DEF RejectMessage, Reply
<1>7. ASSUME NEW c \in Client, NEW n, FailRequest(c, n)
      PROVE  Typed'
  BY <1>5, <1>7 DEF FailRequest, Reply
<1>8. ASSUME NEW c \in Client, NEW n, GetHistory(c, n)
      PROVE  Typed'
  <2>1. Handling(c, n, "history") /\ requests[c][n].from \in 1..Len(log)
    BY <1>8 DEF GetHistory
  <2>2. requests[c][n] \in Request /\ Len(log) \in Nat
    BY <2>1, HandledIsKnown DEF Typed, TypeOK
  <2>3. AfterReference(requests[c][n]) \in Reply
    BY <2>1, <2>2, AfterReferenceIs
  <2> QED BY <1>5, <1>8, <2>1, <2>3 DEF GetHistory
<1> QED BY <1>1, <1>2, <1>3, <1>4, <1>6, <1>7, <1>8 DEF Broker

LEMMA ClientTyped ==
  ASSUME Typed, NEW c \in Client, ClientStep(c)
  PROVE  Typed'
<1>1. CASE Greet(c)
  <2>1. status' \in [Client -> Status]
    BY <1>1 DEF Greet, Typed, TypeOK, Status
  <2>2. wire' \in [Client -> Seq(Frame)]
    BY <1>1, WriteAppends DEF Greet, Typed
  <2> QED BY <1>1, <2>1, <2>2 DEF Greet, Typed, TypeOK, RequestsKnown
<1>2. CASE Forward(c)
  <2>1. inbox[c] \in Seq(Id) /\ inbox[c] # <<>> /\ Id \subseteq Nat
    BY <1>2, ConversationAssumption DEF Forward, Typed, TypeOK, Id
  <2>2. Head(inbox[c]) \in Nat /\ Tail(inbox[c]) \in Seq(Id)
    <3>1. Head(inbox[c]) \in Id /\ Tail(inbox[c]) \in Seq(Id)
      BY <2>1
    <3> QED BY <2>1, <3>1
  <2>3. wire' \in [Client -> Seq(Frame)]
    BY <1>2, <2>2, WriteAppends DEF Forward, Typed
  <2>4. inbox' \in [Client -> Seq(Id)]
    BY <1>2, <2>2 DEF Forward, Typed, TypeOK
  <2> QED BY <1>2, <2>3, <2>4 DEF Forward, Typed, TypeOK, RequestsKnown
<1>3. ASSUME NEW n \in 1..MaxRequests, Answer(c, n)
      PROVE  Typed'
  <2>1. Replaces(c, n, [requests[c][n] EXCEPT !.written = TRUE])
    BY <1>3, AnswerReplaces DEF Typed
  <2>2. wire' \in [Client -> Seq(Frame)]
    <3>1. n \in Nat
      BY ConversationAssumption
    <3> QED BY <1>3, <3>1, WriteAppends DEF Answer, Typed
  <2>3. UNCHANGED <<log, status, mailbox, listeners, failed, inbox, notified,
                    connected>>
    BY <1>3 DEF Answer
  <2>4. RequestsKnown'
    <3>1. \A k \in DOMAIN mailbox : mailbox[k].client \in Client
      <4>1. mailbox \in Seq(Posted)
        BY DEF Typed, TypeOK, Posted
      <4>2. \A k \in DOMAIN mailbox : mailbox[k] \in Posted
        BY <4>1
      <4> QED BY <4>2 DEF Posted
    <3> QED BY <2>1, <2>3, <3>1 DEF Replaces, Typed, RequestsKnown
  <2> QED BY <2>1, <2>2, <2>3, <2>4 DEF Replaces, Typed, TypeOK
<1> QED BY <1>1, <1>2, <1>3 DEF ClientStep

LEMMA RemoteTyped ==
  ASSUME Typed, NEW c \in Client, Remote(c)
  PROVE  Typed'
<1>1. ASSUME NEW kind \in {"connect", "disconnect"}, Send(kind, c, 0),
             UNCHANGED requests
      PROVE  mailbox' \in Seq(Posted) /\ RequestsKnown'
  <2> DEFINE m == [kind |-> kind, client |-> c, number |-> 0]
  <2>1. m \in Posted /\ m.kind # "request" /\ mailbox' = Append(mailbox, m)
    BY <1>1, ConversationAssumption DEF Posted, Send
  <2> HIDE DEF m
  <2> QED BY <1>1, <2>1, AppendTyped DEF Remembers
<1>2. CASE Start(c)
  <2>1. status' \in [Client -> Status]
    BY <1>2 DEF Start, Typed, TypeOK, Status
  <2> QED BY <1>1, <1>2, <2>1 DEF Start, Typed, TypeOK, Posted
<1>3. CASE Stop(c)
  <2>1. status' \in [Client -> Status] /\ inbox' \in [Client -> Seq(Id)]
    BY <1>3 DEF Stop, Typed, TypeOK, Status
  <2> QED BY <1>1, <1>3, <2>1 DEF Stop, Typed, TypeOK, Posted
<1>4. ASSUME NEW kind \in Kind, NEW required \in BOOLEAN, NEW from \in Nat,
             NEW after \in 0..(Wide - 1), Ask(c, kind, required, from, after)
      PROVE  Typed'
  <2> DEFINE r == [kind |-> kind, required |-> required, from |-> from,
                   after |-> after, reply |-> Null, written |-> FALSE]
             m == [kind |-> "request", client |-> c, number |-> Len(requests[c]) + 1]
  <2>1. Asks(c, r)
    BY <1>4, AskAsks DEF Typed
  <2> HIDE DEF r
  <2>2. /\ Len(requests[c]) \in 0..(MaxRequests - 1) /\ mailbox' = Append(mailbox, m)
        /\ UNCHANGED <<log, status, listeners, failed, inbox, wire, notified,
                       connected>>
    BY <1>4 DEF Ask, Send
  <2>3. m \in Posted /\ m.client = c /\ m.number \in DOMAIN requests'[c]
    BY <2>1, <2>2, ConversationAssumption DEF Posted, Asks
  <2> HIDE DEF m
  <2>4. mailbox' \in Seq(Posted) /\ RequestsKnown'
    BY <2>1, <2>2, <2>3, AppendTyped DEF Asks, Remembers
  <2> QED BY <2>1, <2>2, <2>4 DEF Asks, Typed, TypeOK, Posted
<1>5. 0 \in 0..(Wide - 1) /\ After \subseteq 0..(Wide - 1)
  BY ConversationAssumption
<1>6. DOMAIN log \subseteq Nat
  BY DEF Typed, TypeOK
<1> QED BY <1>2, <1>3, <1>4, <1>5, <1>6 DEF Remote, Kind

LEMMA NextTyped == Typed /\ [Next]_vars => Typed'
<1>1. SUFFICES ASSUME Typed, [Next]_vars PROVE Typed'
  OBVIOUS
<1>2. CASE Broker
  BY <1>1, <1>2, BrokerTyped
<1>3. CASE \E c \in Client : ClientStep(c) \/ Remote(c)
  BY <1>1, <1>3, ClientTyped, RemoteTyped
<1>4. CASE UNCHANGED vars
  BY <1>1, <1>4 DEF vars, Typed, TypeOK, RequestsKnown
<1> QED BY <1>1, <1>2, <1>3, <1>4 DEF Next

\* Every variable keeps its type, and a request in the broker's mailbox is one
\* its client has made and waits to be answered (Client's handlers and the
\* broker's).
THEOREM TypeCorrect == Spec => []TypeOK
<1>1. Typed => TypeOK
  BY DEF Typed
<1>2. Spec => []Typed
  BY InitTyped, NextTyped, PTL DEF Spec
<1> QED BY <1>1, <1>2, PTL

-----------------------------------------------------------------------------
(***************************************************************************)
(* What a client hears: the messages it has sent on and those that wait in *)
(* its mailbox.                                                            *)
(***************************************************************************)
Told(c) == {wire[c][k].number : k \in Messages(wire[c])}
Waiting(c) == {inbox[c][k] : k \in DOMAIN inbox[c]}
Heard(c) == Told(c) \cup Waiting(c)

Ordered(c) ==
    /\ \A j, k \in Messages(wire[c]) : j < k => wire[c][j].number < wire[c][k].number
    /\ \A j, k \in DOMAIN inbox[c] : j < k => inbox[c][j] < inbox[c][k]
    /\ \A x \in Told(c), y \in Waiting(c) : x < y

\* There are no gaps in what a client hears, and while it is there it hears of
\* the last message if of any.
Whole(c) ==
    /\ Heard(c) \subseteq 1..Len(log)
    /\ \A x, y \in Heard(c) : x..y \subseteq Heard(c)
    /\ Heard(c) # {} /\ Alive(c) => Len(log) \in Heard(c)

\* A client that has not been let in is not listening.
Unheard(c) ==
    status[c] \in {"new", "connecting", "refused"} =>
        c \notin listeners /\ Heard(c) = {}

HeardSound(c) == Ordered(c) /\ Whole(c) /\ Unheard(c)

LetIn(c) == status[c] \in {"accepted", "open"}

\* From its connection on a client hears all up to the last it hears of, and
\* while it is connected all there is.
Since(c) ==
    /\ \A x \in Heard(c) : connected[c] < x /\ (connected[c] + 1)..x \subseteq Heard(c)
    /\ LetIn(c) => (connected[c] + 1)..Len(log) \subseteq Heard(c)

\* What the types say of one client.
LEMMA ClientTypes ==
  ASSUME TypeOK, NEW c \in Client
  PROVE  /\ wire[c] \in Seq(Frame) /\ inbox[c] \in Seq(Id)
         /\ requests[c] \in Seq(Request) /\ status[c] \in Status
         /\ Len(wire[c]) \in Nat /\ Len(inbox[c]) \in Nat /\ Len(requests[c]) \in Nat
         /\ DOMAIN wire[c] = 1..Len(wire[c]) /\ DOMAIN inbox[c] = 1..Len(inbox[c])
         /\ DOMAIN requests[c] = 1..Len(requests[c])
         /\ \A k \in DOMAIN wire[c] : wire[c][k].number \in Nat
         /\ \A k \in DOMAIN inbox[c] : inbox[c][k] \in Nat /\ inbox[c][k] >= 1
         /\ \A k \in DOMAIN requests[c] : requests[c][k] \in Request
         /\ Heard(c) \subseteq Nat /\ Told(c) \subseteq Nat /\ Waiting(c) \subseteq Nat
         /\ Len(log) \in Nat
<1>1. /\ wire[c] \in Seq(Frame) /\ inbox[c] \in Seq(Id)
      /\ requests[c] \in Seq(Request) /\ status[c] \in Status
      /\ Len(log) \in Nat
  BY DEF TypeOK
<1>2. \A k \in DOMAIN wire[c] : wire[c][k] \in Frame
  BY <1>1
<1>3. \A k \in DOMAIN wire[c] : wire[c][k].number \in Nat
  BY <1>2 DEF Frame
<1>4. \A k \in DOMAIN inbox[c] : inbox[c][k] \in Id
  BY <1>1
<1>5. \A k \in DOMAIN inbox[c] : inbox[c][k] \in Nat /\ inbox[c][k] >= 1
  BY <1>4, ConversationAssumption DEF Id
<1>6. Told(c) \subseteq Nat /\ Waiting(c) \subseteq Nat
  BY <1>3, <1>5 DEF Told, Waiting, Messages
<1>7. \A k \in DOMAIN requests[c] : requests[c][k] \in Request
  BY <1>1
<1> QED BY <1>1, <1>3, <1>5, <1>6, <1>7 DEF Heard

\* A frame added to the end of what a client has sent.
LEMMA FrameAdded ==
  ASSUME TypeOK, NEW c \in Client, NEW f \in Frame, wire'[c] = Append(wire[c], f)
  PROVE  /\ Len(wire'[c]) = Len(wire[c]) + 1
         /\ DOMAIN wire'[c] = DOMAIN wire[c] \cup {Len(wire[c]) + 1}
         /\ \A k \in DOMAIN wire[c] : wire'[c][k] = wire[c][k] /\ k < Len(wire[c]) + 1
         /\ wire'[c][Len(wire[c]) + 1] = f
         /\ Len(wire[c]) + 1 \notin DOMAIN wire[c]
<1>1. wire[c] \in Seq(Frame)
  BY ClientTypes
<1> QED BY <1>1

LEMMA OtherFrame ==
  ASSUME TypeOK, NEW c \in Client, NEW f \in Frame, wire'[c] = Append(wire[c], f),
         f.kind # "message", inbox'[c] = inbox[c]
  PROVE  /\ Heard(c)' = Heard(c)
         /\ Ordered(c) => Ordered(c)'
<1>1. Messages(wire'[c]) = Messages(wire[c])
  BY FrameAdded DEF Messages
<1>2. \A k \in Messages(wire[c]) : wire'[c][k] = wire[c][k]
  BY FrameAdded DEF Messages
<1>3. Told(c)' = Told(c) /\ Waiting(c)' = Waiting(c)
  BY <1>1, <1>2 DEF Told, Waiting
<1> QED BY <1>1, <1>2, <1>3 DEF Heard, Ordered

LEMMA TailIs ==
  ASSUME NEW S, NEW s \in Seq(S), s # <<>>, NEW t, t = Tail(s)
  PROVE  /\ t \in Seq(S) /\ Head(s) = s[1] /\ 1 \in DOMAIN s
         /\ \A k \in DOMAIN t : k + 1 \in DOMAIN s /\ k + 1 > 1 /\ t[k] = s[k + 1]
         /\ \A k \in DOMAIN s : k = 1 \/ k - 1 \in DOMAIN t
         /\ \A j, k \in DOMAIN t : j < k => j + 1 < k + 1
<1>1. t \in Seq(S) /\ Len(t) = Len(s) - 1 /\ Len(s) \in Nat /\ Len(s) > 0
  OBVIOUS
<1>2. DOMAIN t = 1..Len(t) /\ DOMAIN s = 1..Len(s) /\ Head(s) = s[1]
  BY <1>1
<1>3. \A k \in 1..Len(t) : t[k] = s[k + 1]
  OBVIOUS
<1>4. \A k \in 1..Len(t) : k + 1 \in 1..Len(s) /\ k + 1 > 1
  BY <1>1
<1>5. \A k \in 1..Len(s) : k = 1 \/ k - 1 \in 1..Len(t)
  BY <1>1
<1> QED BY <1>1, <1>2, <1>3, <1>4, <1>5

\* Handler<Event> for Client passes the first waiting message on.
LEMMA ForwardHears ==
  ASSUME TypeOK, NEW c \in Client, Forward(c), Ordered(c)
  PROVE  Heard(c)' = Heard(c) /\ Ordered(c)'
<1> DEFINE x == Head(inbox[c])
           f == [kind |-> "message", number |-> x]
           p == Len(wire[c]) + 1
<1>1. /\ inbox[c] \in Seq(Id) /\ inbox[c] # <<>>
      /\ inbox' = [inbox EXCEPT ![c] = Tail(@)]
      /\ wire' = [wire EXCEPT ![c] = Append(@, f)]
  BY ClientTypes DEF Forward, Write
<1>2. inbox'[c] = Tail(inbox[c]) /\ wire'[c] = Append(wire[c], f)
  BY <1>1 DEF TypeOK
<1>3. /\ x = inbox[c][1] /\ 1 \in DOMAIN inbox[c]
      /\ \A k \in DOMAIN inbox'[c] : /\ k + 1 \in DOMAIN inbox[c] /\ k + 1 > 1
                                     /\ inbox'[c][k] = inbox[c][k + 1]
      /\ \A k \in DOMAIN inbox[c] : k = 1 \/ k - 1 \in DOMAIN inbox'[c]
      /\ \A j, k \in DOMAIN inbox'[c] : j < k => j + 1 < k + 1
  <2> DEFINE s == inbox[c]  t == inbox'[c]
  <2>1. s \in Seq(Id) /\ s # <<>> /\ t = Tail(s)
    BY <1>1, <1>2
  <2> HIDE DEF s, t
  <2>2. /\ Head(s) = s[1] /\ 1 \in DOMAIN s
        /\ \A k \in DOMAIN t : k + 1 \in DOMAIN s /\ k + 1 > 1 /\ t[k] = s[k + 1]
        /\ \A k \in DOMAIN s : k = 1 \/ k - 1 \in DOMAIN t
        /\ \A j, k \in DOMAIN t : j < k => j + 1 < k + 1
    BY <2>1, TailIs
  <2> QED BY <2>2 DEF s, t
<1>4. x \in Nat
  BY <1>3, ClientTypes
<1> HIDE DEF x
<1>5. f \in Frame /\ f.kind = "message" /\ f.number = x
  BY <1>4 DEF Frame
<1> HIDE DEF f
<1>6. /\ Messages(wire'[c]) = Messages(wire[c]) \cup {p}
      /\ \A k \in Messages(wire[c]) : wire'[c][k] = wire[c][k] /\ k < p
      /\ wire'[c][p].number = x
      /\ p \in Int /\ \A k \in Messages(wire[c]) : k \in Int
  BY <1>2, <1>5, FrameAdded, ClientTypes DEF Messages
<1> HIDE DEF p
<1>7. Told(c)' = Told(c) \cup {x}
  BY <1>6 DEF Told
<1>8. Waiting(c) = Waiting(c)' \cup {x}
  <2>1. ASSUME NEW k \in DOMAIN inbox'[c] PROVE inbox'[c][k] \in Waiting(c)
    BY <1>3 DEF Waiting
  <2>2. ASSUME NEW k \in DOMAIN inbox[c] PROVE inbox[c][k] \in Waiting(c)' \cup {x}
    <3>1. CASE k = 1
      BY <1>3, <3>1
    <3>2. CASE k - 1 \in DOMAIN inbox'[c]
      <4>1. inbox'[c][k - 1] = inbox[c][(k - 1) + 1] /\ (k - 1) + 1 = k
        BY <1>3, <3>2, ClientTypes
      <4> QED BY <3>2, <4>1 DEF Waiting
    <3> QED BY <1>3, <3>1, <3>2
  <2>3. x \in Waiting(c)
    BY <1>3 DEF Waiting
  <2> QED BY <2>1, <2>2, <2>3 DEF Waiting
<1>9. Heard(c)' = Heard(c)
  BY <1>7, <1>8 DEF Heard
<1>10. \A j, k \in Messages(wire'[c]) : j < k => wire'[c][j].number < wire'[c][k].number
  <2> SUFFICES ASSUME NEW j \in Messages(wire'[c]), NEW k \in Messages(wire'[c]), j < k
               PROVE  wire'[c][j].number < wire'[c][k].number
    OBVIOUS
  <2>1. j \in Messages(wire[c])
    <3>1. ASSUME j = p PROVE FALSE
      BY <1>6, <3>1
    <3> QED BY <1>6, <3>1
  <2>2. CASE k = p
    <3>1. wire[c][j].number \in Told(c) /\ x \in Waiting(c)
      BY <1>8, <2>1 DEF Told
    <3> QED BY <1>6, <2>1, <2>2, <3>1 DEF Ordered
  <2>3. CASE k # p
    BY <1>6, <2>1, <2>3 DEF Ordered
  <2> QED BY <2>2, <2>3
<1>11. \A j, k \in DOMAIN inbox'[c] : j < k => inbox'[c][j] < inbox'[c][k]
  BY <1>3 DEF Ordered
<1>12. \A y \in Told(c)', z \in Waiting(c)' : y < z
  <2>1. \A z \in Waiting(c)' : x < z
    BY <1>3 DEF Ordered, Waiting
  <2> QED BY <1>7, <1>8, <2>1 DEF Ordered
<1> QED BY <1>9, <1>10, <1>11, <1>12 DEF Ordered

\* Client::stopping: what waits is lost, and that is the end of what it hears.
LEMMA StopHears ==
  ASSUME TypeOK, NEW c \in Client, Stop(c), Ordered(c), Whole(c)
  PROVE  /\ Heard(c)' \subseteq Heard(c) /\ Ordered(c)'
         /\ \A x, y \in Heard(c)' : x..y \subseteq Heard(c)'
         /\ \A x \in Heard(c), y \in Heard(c)' : x \in Heard(c)' \/ y < x
<1>1. inbox'[c] = <<>> /\ wire'[c] = wire[c]
  BY DEF Stop, TypeOK
<1>2. Told(c)' = Told(c) /\ Waiting(c)' = {} /\ Heard(c)' = Told(c)
  BY <1>1 DEF Told, Waiting, Heard
<1>3. Ordered(c)'
  BY <1>1, <1>2 DEF Ordered
<1>4. \A x, y \in Told(c) : x..y \subseteq Told(c)
  <2> SUFFICES ASSUME NEW x \in Told(c), NEW y \in Told(c), NEW z \in x..y
               PROVE  z \in Told(c)
    OBVIOUS
  <2>1. z \in Heard(c)
    BY DEF Whole, Heard
  <2>2. z \in Waiting(c) => y < z
    BY DEF Ordered
  <2>3. y \in Nat /\ x \in Nat
    BY ClientTypes
  <2> QED BY <2>1, <2>2, <2>3 DEF Heard
<1>5. \A x \in Heard(c), y \in Told(c) : x \in Told(c) \/ y < x
  BY DEF Ordered, Heard
<1> QED BY <1>2, <1>3, <1>4, <1>5 DEF Heard

\* Handler<NewMessage> adds the new message to what a listener hears.
LEMMA RecordHears ==
  ASSUME TypeOK, NEW c \in Client, NEW n, RecordMessage(c, n), NEW d \in Client,
         Ordered(d), Heard(d) \subseteq 1..Len(log)
  PROVE  /\ Ordered(d)'
         /\ Heard(d)' = IF d \in listeners /\ Alive(d)
                        THEN Heard(d) \cup {Len(log) + 1} ELSE Heard(d)
<1>1. /\ wire' = wire
      /\ inbox'[d] = IF d \in listeners /\ Alive(d)
                     THEN Append(inbox[d], Len(log) + 1) ELSE inbox[d]
  BY DEF RecordMessage, ListenersFor
<1>2. Told(d)' = Told(d)
  BY <1>1 DEF Told
<1>3. CASE ~(d \in listeners /\ Alive(d))
  BY <1>1, <1>2, <1>3 DEF Waiting, Heard, Ordered
<1>4. CASE d \in listeners /\ Alive(d)
  <2>1. inbox'[d] = Append(inbox[d], Len(log) + 1)
    BY <1>1, <1>4
  <2> DEFINE p == Len(inbox[d]) + 1  id == Len(log) + 1
  <2>2. /\ DOMAIN inbox'[d] = DOMAIN inbox[d] \cup {p}
        /\ \A k \in DOMAIN inbox[d] : inbox'[d][k] = inbox[d][k] /\ k < p /\ k \in Int
        /\ inbox'[d][p] = id /\ p \in Int
    BY <2>1, ClientTypes
  <2> HIDE DEF p
  <2>3. Waiting(d)' = Waiting(d) \cup {id}
    BY <2>2 DEF Waiting
  <2>4. \A x \in Heard(d) : x < id
    BY ClientTypes
  <2> HIDE DEF id
  <2>5. \A j, k \in DOMAIN inbox'[d] : j < k => inbox'[d][j] < inbox'[d][k]
    <3> SUFFICES ASSUME NEW j \in DOMAIN inbox'[d], NEW k \in DOMAIN inbox'[d], j < k
                 PROVE  inbox'[d][j] < inbox'[d][k]
      OBVIOUS
    <3>1. j \in DOMAIN inbox[d]
      <4>1. ASSUME j = p PROVE FALSE
        BY <2>2, <4>1
      <4> QED BY <2>2, <4>1
    <3>2. CASE k = p
      <4>1. inbox[d][j] \in Heard(d)
        BY <3>1 DEF Waiting, Heard
      <4> QED BY <2>2, <2>4, <3>1, <3>2, <4>1
    <3>3. CASE k # p
      BY <2>2, <3>1, <3>3 DEF Ordered
    <3> QED BY <3>2, <3>3
  <2>6. \A x \in Told(d), y \in Waiting(d) \cup {id} : x < y
    BY <2>4 DEF Heard, Ordered
  <2>7. Ordered(d)'
    BY <1>1, <1>2, <2>3, <2>5, <2>6 DEF Ordered
  <2>8. Heard(d)' = Heard(d) \cup {id}
    BY <1>2, <2>3 DEF Heard
  <2> QED BY <1>4, <2>7, <2>8 DEF id
<1> QED BY <1>3, <1>4

\* What a step does to a client it is not about: at most the broker's entry
\* loses it.
Untouched(c) ==
    /\ status'[c] = status[c] /\ inbox'[c] = inbox[c]
    /\ requests'[c] = requests[c] /\ wire'[c] = wire[c]
    /\ c \in listeners' => c \in listeners

LEMMA UntouchedHears ==
  ASSUME NEW c, Untouched(c)
  PROVE  /\ Heard(c)' = Heard(c)
         /\ Ordered(c) => Ordered(c)'
         /\ log' = log /\ HeardSound(c) => HeardSound(c)'
<1>1. Told(c)' = Told(c) /\ Waiting(c)' = Waiting(c) /\ Heard(c)' = Heard(c)
  BY DEF Untouched, Told, Waiting, Heard
<1>2. Ordered(c) => Ordered(c)'
  BY <1>1 DEF Untouched, Ordered
<1>3. log' = log /\ Whole(c) => Whole(c)'
  BY <1>1 DEF Untouched, Whole, Alive
<1>4. Unheard(c) => Unheard(c)'
  BY <1>1 DEF Untouched, Unheard
<1> QED BY <1>1, <1>2, <1>3, <1>4 DEF HeardSound

\* The steps of the broker but for RecordMessage.
LEMMA ConnectSteps ==
  ASSUME IInv, TypeOK, Connect
  PROVE  \E c \in Client :
            /\ status[c] = "connecting" /\ log' = log
            /\ UNCHANGED <<inbox, requests>>
            /\ \A d \in Client \ {c} : Untouched(d)
            /\ \/ /\ status'[c] = "accepted" /\ wire'[c] = wire[c]
               \/ /\ status'[c] = "refused" /\ c \notin listeners'
                  /\ wire'[c] = Append(wire[c], [kind |-> "close", number |-> 0])
<1> DEFINE c == Head(mailbox).client
<1>1. /\ mailbox # <<>> /\ Head(mailbox).kind = "connect"
      /\ UNCHANGED <<log, inbox, requests>>
  BY DEF Connect, Received
<1>2. mailbox \in Seq(Mail)
  BY DEF IInv, Types
<1>3. Head(mailbox) \in Mail /\ Head(mailbox) = mailbox[1] /\ 1 \in DOMAIN mailbox
  BY <1>1, <1>2
<1>4. c \in Client
  BY <1>3 DEF Mail
<1>5. status[c] = "connecting"
  BY <1>1, <1>3 DEF IInv, ConnectSound
<1>6. \/ /\ listeners' = listeners \cup {c}
         /\ status' = [status EXCEPT ![c] = "accepted"]
         /\ UNCHANGED wire
      \/ /\ listeners = {} /\ UNCHANGED listeners
         /\ status' = [status EXCEPT ![c] = "refused"]
         /\ Write(c, "close", 0)
  BY DEF Connect
<1> HIDE DEF c
<1>7. CASE /\ listeners' = listeners \cup {c}
           /\ status' = [status EXCEPT ![c] = "accepted"]
           /\ UNCHANGED wire
  <2>1. status'[c] = "accepted" /\ \A d \in Client \ {c} : status'[d] = status[d]
    BY <1>4, <1>7 DEF TypeOK
  <2> QED BY <1>1, <1>4, <1>5, <1>7, <2>1 DEF Untouched
<1>8. CASE /\ listeners = {} /\ UNCHANGED listeners
           /\ status' = [status EXCEPT ![c] = "refused"]
           /\ Write(c, "close", 0)
  <2>1. status'[c] = "refused" /\ \A d \in Client \ {c} : status'[d] = status[d]
    BY <1>4, <1>8 DEF TypeOK
  <2>2. /\ wire'[c] = Append(wire[c], [kind |-> "close", number |-> 0])
        /\ \A d \in Client \ {c} : wire'[d] = wire[d]
    BY <1>4, <1>8, WriteAppends
  <2> QED BY <1>1, <1>4, <1>5, <1>8, <2>1, <2>2 DEF Untouched
<1> QED BY <1>6, <1>7, <1>8

LEMMA DropSteps ==
  ASSUME Disconnect \/ DropFailed
  PROVE  log' = log /\ notified' = notified /\ \A d \in Client : Untouched(d)
BY DEF Disconnect, DropFailed, Without, Untouched

\* The broker answers request n of client c.
LEMMA ReplySteps ==
  ASSUME Typed, NEW c \in Client, NEW n,
         \/ RejectMessage(c, n) \/ FailRequest(c, n) \/ GetHistory(c, n)
  PROVE  /\ n \in DOMAIN requests[c] /\ requests[c][n] \in Request
         /\ UNCHANGED <<log, status, listeners, inbox, wire, notified>>
         /\ \E reply \in Reply :
               /\ Replaces(c, n, [requests[c][n] EXCEPT !.reply = reply])
               /\ reply.kind = "history" =>
                    /\ requests[c][n].kind = "history"
                    /\ requests[c][n].from \in 1..Len(log)
                    /\ reply = AfterReference(requests[c][n])
<1>1. UNCHANGED <<log, status, listeners, inbox, wire, notified>>
  BY DEF RejectMessage, FailRequest, GetHistory
<1>2. CASE RejectMessage(c, n) \/ FailRequest(c, n)
  <2>1. PICK kind \in Kind, reply \in [kind : {"invalid", "error"}] :
            Handling(c, n, kind) /\ ReplyTo(c, n, reply)
    <3>1. [kind |-> "invalid"] \in [kind : {"invalid", "error"}]
          /\ [kind |-> "error"] \in [kind : {"invalid", "error"}]
      OBVIOUS
    <3> QED BY <1>2, <3>1 DEF RejectMessage, FailRequest, Kind
  <2>2. reply \in Reply /\ reply.kind # "history"
    BY <2>1 DEF Reply
  <2> QED BY <1>1, <2>1, <2>2, HandledIsKnown, ReplyTyped
<1>3. CASE GetHistory(c, n)
  <2>1. /\ Handling(c, n, "history") /\ requests[c][n].from \in 1..Len(log)
        /\ ReplyTo(c, n, AfterReference(requests[c][n]))
    BY <1>3 DEF GetHistory
  <2>2. requests[c][n] \in Request /\ Len(log) \in Nat
    BY <2>1, HandledIsKnown DEF Typed, TypeOK
  <2>3. AfterReference(requests[c][n]) \in Reply
    BY <2>1, <2>2, AfterReferenceIs
  <2> QED BY <1>1, <2>1, <2>2, <2>3, HandledIsKnown, ReplyTyped
<1> QED BY <1>2, <1>3

\* The steps of a client.
LEMMA GreetSteps ==
  ASSUME TypeOK, NEW c \in Client, Greet(c)
  PROVE  /\ status[c] = "accepted" /\ status'[c] = "open"
         /\ UNCHANGED <<log, listeners, inbox, requests, notified>>
         /\ wire'[c] = Append(wire[c], [kind |-> "connected", number |-> 0])
         /\ \A d \in Client \ {c} : Untouched(d)
<1>1. /\ wire'[c] = Append(wire[c], [kind |-> "connected", number |-> 0])
      /\ \A d \in Client \ {c} : wire'[d] = wire[d]
  BY WriteAppends DEF Greet
<1>2. status'[c] = "open" /\ \A d \in Client \ {c} : status'[d] = status[d]
  BY DEF Greet, TypeOK
<1> QED BY <1>1, <1>2 DEF Greet, Untouched

LEMMA ForwardSteps ==
  ASSUME TypeOK, NEW c \in Client, Forward(c)
  PROVE  /\ Runs(c) /\ inbox[c] # <<>> /\ Head(inbox[c]) \in Nat
         /\ UNCHANGED <<log, status, listeners, requests, notified>>
         /\ wire'[c] = Append(wire[c], [kind |-> "message", number |-> Head(inbox[c])])
         /\ \A d \in Client \ {c} : Untouched(d)
<1>1. inbox[c] \in Seq(Id) /\ inbox[c] # <<>>
  BY ClientTypes DEF Forward
<1>2. Head(inbox[c]) = inbox[c][1] /\ 1 \in DOMAIN inbox[c]
  BY <1>1, TailIs
<1>3. Head(inbox[c]) \in Nat
  BY <1>2, ClientTypes
<1>4. /\ wire'[c] = Append(wire[c], [kind |-> "message", number |-> Head(inbox[c])])
      /\ \A d \in Client \ {c} : wire'[d] = wire[d]
  BY <1>3, WriteAppends DEF Forward
<1>5. \A d \in Client \ {c} : inbox'[d] = inbox[d]
  BY DEF Forward, TypeOK
<1> QED BY <1>1, <1>3, <1>4, <1>5 DEF Forward, Untouched

LEMMA AnswerSteps ==
  ASSUME TypeOK, NEW c \in Client, NEW n, Answer(c, n)
  PROVE  /\ MayAnswer(c, n) /\ n \in DOMAIN requests[c] /\ requests[c][n] \in Request
         /\ requests[c][n].reply # Null /\ ~requests[c][n].written
         /\ Replaces(c, n, [requests[c][n] EXCEPT !.written = TRUE])
         /\ UNCHANGED <<log, status, listeners, inbox, notified>>
         /\ \E kind \in {"reply", "close"} :
               wire'[c] = Append(wire[c], [kind |-> kind, number |-> n])
         /\ \A d \in Client \ {c} : Untouched(d)
<1>1. /\ n \in DOMAIN requests[c] /\ requests[c][n] \in Request /\ n \in Nat
      /\ Replaces(c, n, [requests[c][n] EXCEPT !.written = TRUE])
      /\ \A d \in Client : DOMAIN requests'[d] = DOMAIN requests[d]
  BY AnswerReplaces, ClientTypes DEF Replaces
<1>2. /\ \E kind \in {"reply", "close"} :
            wire'[c] = Append(wire[c], [kind |-> kind, number |-> n])
      /\ \A d \in Client \ {c} : wire'[d] = wire[d]
  <2>1. \E kind \in {"reply", "close"} : Write(c, kind, n)
    BY DEF Answer
  <2> QED BY <1>1, <2>1, WriteAppends
<1>3. \A d \in Client \ {c} : requests'[d] = requests[d]
  BY DEF Answer, TypeOK
<1> QED BY <1>1, <1>2, <1>3 DEF Answer, Untouched

LEMMA StartSteps ==
  ASSUME TypeOK, NEW c \in Client, Start(c)
  PROVE  /\ status[c] = "new" /\ status'[c] = "connecting"
         /\ UNCHANGED <<log, listeners, inbox, requests, wire, notified>>
         /\ \A d \in Client \ {c} : Untouched(d)
BY DEF Start, TypeOK, Untouched

LEMMA StopSteps ==
  ASSUME TypeOK, NEW c \in Client, Stop(c)
  PROVE  /\ Runs(c) /\ status'[c] = "gone"
         /\ UNCHANGED <<log, listeners, requests, wire, notified>>
         /\ \A d \in Client \ {c} : Untouched(d)
BY DEF Stop, TypeOK, Untouched

LEMMA AskSteps ==
  ASSUME TypeOK, NEW c \in Client, NEW kind \in Kind, NEW required \in BOOLEAN,
         NEW from \in Nat, NEW after \in 0..(Wide - 1),
         Ask(c, kind, required, from, after)
  PROVE  /\ Runs(c)
         /\ Asks(c, [kind |-> kind, required |-> required, from |-> from,
                     after |-> after, reply |-> Null, written |-> FALSE])
         /\ UNCHANGED <<log, status, listeners, inbox, wire, notified>>
         /\ \A d \in Client \ {c} : Untouched(d)
<1>1. Asks(c, [kind |-> kind, required |-> required, from |-> from,
               after |-> after, reply |-> Null, written |-> FALSE])
  BY AskAsks
<1>2. \A d \in Client \ {c} : requests'[d] = requests[d]
  BY <1>1 DEF Asks
<1> QED BY <1>1, <1>2 DEF Ask, Untouched

\* A step is one of these.
LEMMA NextCases ==
  ASSUME Typed, Next
  PROVE  \/ Connect \/ Disconnect \/ DropFailed
         \/ \E c \in Client, n \in 1..MaxRequests :
                \/ RecordMessage(c, n) \/ RejectMessage(c, n) \/ FailRequest(c, n)
                \/ GetHistory(c, n) \/ Answer(c, n)
         \/ \E c \in Client : Greet(c) \/ Forward(c) \/ Start(c) \/ Stop(c)
         \/ \E c \in Client, kind \in Kind, required \in BOOLEAN, from \in Nat,
               after \in 0..(Wide - 1) :
                /\ Ask(c, kind, required, from, after)
                /\ kind = "history" => after \in After
<1>1. 0 \in 0..(Wide - 1) /\ After \subseteq 0..(Wide - 1)
  BY ConversationAssumption
<1>2. DOMAIN log \subseteq Nat
  BY DEF Typed, TypeOK
<1>3. ASSUME NEW c \in Client, Remote(c)
      PROVE  \/ Start(c) \/ Stop(c)
             \/ \E kind \in Kind, required \in BOOLEAN, from \in Nat,
                   after \in 0..(Wide - 1) :
                    /\ Ask(c, kind, required, from, after)
                    /\ kind = "history" => after \in After
  <2>1. ASSUME NEW required \in BOOLEAN, Ask(c, "send", required, 0, 0)
        PROVE  \E kind \in Kind, r \in BOOLEAN, from \in Nat, after \in 0..(Wide - 1) :
                    /\ Ask(c, kind, r, from, after)
                    /\ kind = "history" => after \in After
    BY <1>1, <2>1 DEF Kind
  <2>2. ASSUME NEW required \in BOOLEAN, NEW from \in DOMAIN log, NEW after \in After,
               Ask(c, "history", required, from, after)
        PROVE  \E kind \in Kind, r \in BOOLEAN, g \in Nat, a \in 0..(Wide - 1) :
                    /\ Ask(c, kind, r, g, a)
                    /\ kind = "history" => a \in After
    BY <1>1, <1>2, <2>2 DEF Kind
  <2> QED BY <1>3, <2>1, <2>2 DEF Remote
<1>4. CASE Broker
  BY <1>4 DEF Broker
<1>5. ASSUME NEW c \in Client, ClientStep(c)
      PROVE  Greet(c) \/ Forward(c) \/ \E n \in 1..MaxRequests : Answer(c, n)
  BY <1>5 DEF ClientStep
<1> QED BY <1>3, <1>4, <1>5 DEF Next

\* The broker notes where it let a client in, and nothing else does.
LEMMA OnlyConnectLetsIn ==
  ASSUME IInv, Typed, Next, NEW e \in Client
  PROVE  \/ connected'[e] = connected[e] /\ (LetIn(e)' => LetIn(e))
         \/ /\ Connect /\ status[e] = "connecting" /\ log' = log
            /\ status'[e] = "accepted" /\ connected'[e] = Len(log)
<1>1. TypeOK
  BY DEF Typed
<1>2. ASSUME status'[e] = status[e] \/ status'[e] \notin {"accepted", "open"}
      PROVE  LetIn(e)' => LetIn(e)
  BY <1>2 DEF LetIn
<1>3. CASE Connect
  <2> DEFINE c == Head(mailbox).client
  <2>1. mailbox # <<>> /\ c \in Client /\ log' = log
    BY <1>3, HeadTyped DEF Connect, Received
  <2>2. PICK d \in Client :
            /\ status[d] = "connecting" /\ log' = log
            /\ \A b \in Client \ {d} : Untouched(b)
            /\ status'[d] \in {"accepted", "refused"}
    BY <1>1, <1>3, ConnectSteps
  <2>3. \/ status' = [status EXCEPT ![c] = "accepted"]
           /\ connected' = [connected EXCEPT ![c] = Len(log)]
        \/ status' = [status EXCEPT ![c] = "refused"] /\ connected' = connected
    BY <1>3 DEF Connect
  <2> HIDE DEF c
  <2>4. status \in [Client -> Status] /\ connected \in [Client -> 0..Len(log)]
    BY <1>1 DEF TypeOK
  <2>5. c = d
    <3> SUFFICES ASSUME c # d PROVE FALSE
      OBVIOUS
    <3>1. status'[d] = status[d]
      BY <2>1, <2>2, <2>3, <2>4
    <3> QED BY <2>2, <3>1
  <2>6. CASE e = c
    BY <1>3, <2>1, <2>2, <2>3, <2>4, <2>5, <2>6 DEF LetIn
  <2>7. CASE e # c
    BY <2>1, <2>3, <2>4, <2>7 DEF LetIn
  <2> QED BY <2>6, <2>7
<1>4. CASE Disconnect \/ DropFailed
  BY <1>2, <1>4 DEF Disconnect, DropFailed
<1>5. ASSUME NEW c \in Client, NEW n,
             \/ RecordMessage(c, n) \/ RejectMessage(c, n) \/ FailRequest(c, n)
             \/ GetHistory(c, n) \/ Answer(c, n)
      PROVE  connected' = connected /\ (LetIn(e)' => LetIn(e))
  BY <1>2, <1>5 DEF RecordMessage, RejectMessage, FailRequest, GetHistory, Answer
<1>6. ASSUME NEW c \in Client, Greet(c) \/ Forward(c) \/ Start(c) \/ Stop(c)
      PROVE  connected' = connected /\ (LetIn(e)' => LetIn(e))
  <2>1. connected' = connected
    BY <1>6 DEF Greet, Forward, Start, Stop
  <2>2. CASE Greet(c)
    <3>1. status[c] = "accepted" /\ \A d \in Client \ {c} : status'[d] = status[d]
      BY <1>1, <2>2 DEF Greet, TypeOK
    <3> QED BY <2>1, <3>1 DEF LetIn
  <2>3. CASE Forward(c)
    BY <1>2, <2>1, <2>3 DEF Forward
  <2>4. CASE Start(c) \/ Stop(c)
    <3>1. /\ status'[c] \in {"connecting", "gone"}
          /\ \A d \in Client \ {c} : status'[d] = status[d]
      BY <1>1, <2>4 DEF Start, Stop, TypeOK
    <3> QED BY <2>1, <3>1 DEF LetIn
  <2> QED BY <1>6, <2>2, <2>3, <2>4
<1>7. ASSUME NEW c \in Client, NEW kind, NEW required, NEW from, NEW after,
             Ask(c, kind, required, from, after)
      PROVE  connected' = connected /\ (LetIn(e)' => LetIn(e))
  BY <1>2, <1>7 DEF Ask
<1> QED BY <1>3, <1>4, <1>5, <1>6, <1>7, NextCases

\* What a step makes of what a client hears.
LEMMA HeardCases ==
  ASSUME IInv, Typed, Next, NEW e \in Client, HeardSound(e)
  PROVE  \/ Heard(e)' = Heard(e) /\ log' = log
         \/ /\ log' = log /\ status'[e] = "gone" /\ Heard(e)' \subseteq Heard(e)
            /\ \A x \in Heard(e), y \in Heard(e)' : x \in Heard(e)' \/ y < x
         \/ /\ status'[e] = status[e]
            /\ Len(log) \in Nat /\ Len(log') = Len(log) + 1
            /\ Heard(e)' = IF e \in listeners /\ Alive(e)
                           THEN Heard(e) \cup {Len(log) + 1} ELSE Heard(e)
<1>1. TypeOK
  BY DEF Typed
<1>2. ASSUME wire'[e] = wire[e], inbox'[e] = inbox[e]
      PROVE  Heard(e)' = Heard(e)
  BY <1>2 DEF Heard, Told, Waiting
<1>3. ASSUME NEW f \in Frame, f.kind # "message", wire'[e] = Append(wire[e], f),
             inbox'[e] = inbox[e]
      PROVE  Heard(e)' = Heard(e)
  BY <1>1, <1>3, OtherFrame
<1>4. CASE Connect
  <2>1. PICK c \in Client :
            /\ log' = log /\ UNCHANGED <<inbox, requests>>
            /\ \A d \in Client \ {c} : Untouched(d)
            /\ \/ wire'[c] = wire[c]
               \/ wire'[c] = Append(wire[c], [kind |-> "close", number |-> 0])
    BY <1>1, <1>4, ConnectSteps
  <2> DEFINE f == [kind |-> "close", number |-> 0]
  <2>2. f \in Frame /\ f.kind # "message"
    BY DEF Frame
  <2>3. wire'[c] = wire[c] \/ wire'[c] = Append(wire[c], f)
    BY <2>1
  <2> HIDE DEF f
  <2> QED BY <1>2, <1>3, <2>1, <2>2, <2>3 DEF Untouched
<1>5. CASE Disconnect \/ DropFailed
  BY <1>2, <1>5 DEF Disconnect, DropFailed
<1>6. ASSUME NEW c \in Client, NEW n, RecordMessage(c, n)
      PROVE  /\ status'[e] = status[e]
             /\ Len(log) \in Nat /\ Len(log') = Len(log) + 1
             /\ Heard(e)' = IF e \in listeners /\ Alive(e)
                            THEN Heard(e) \cup {Len(log) + 1} ELSE Heard(e)
  <2>1. log' = Append(log, User[c]) /\ status' = status /\ log \in Seq(Member)
    BY <1>1, <1>6 DEF RecordMessage, TypeOK
  <2> QED BY <1>1, <1>6, <2>1, RecordHears DEF HeardSound, Whole
<1>7. ASSUME NEW c \in Client, NEW n,
             RejectMessage(c, n) \/ FailRequest(c, n) \/ GetHistory(c, n)
      PROVE  Heard(e)' = Heard(e) /\ log' = log
  BY <1>2, <1>7 DEF RejectMessage, FailRequest, GetHistory
<1>8. ASSUME NEW c \in Client, NEW n, Answer(c, n)
      PROVE  Heard(e)' = Heard(e) /\ log' = log
  <2>1. /\ n \in DOMAIN requests[c] /\ UNCHANGED <<log, inbox>>
        /\ \A d \in Client \ {c} : Untouched(d)
    BY <1>1, <1>8, AnswerSteps
  <2>2. PICK kind \in {"reply", "close"} :
            wire'[c] = Append(wire[c], [kind |-> kind, number |-> n])
    BY <1>1, <1>8, AnswerSteps
  <2> DEFINE f == [kind |-> kind, number |-> n]
  <2>3. n \in Nat
    BY <1>1, <2>1, ClientTypes
  <2>4. f \in Frame /\ f.kind # "message" /\ wire'[c] = Append(wire[c], f)
    BY <2>2, <2>3 DEF Frame
  <2> HIDE DEF f
  <2> QED BY <1>2, <1>3, <2>1, <2>4 DEF Untouched
<1>9. ASSUME NEW c \in Client, Greet(c)
      PROVE  Heard(e)' = Heard(e) /\ log' = log
  <2>1. /\ UNCHANGED <<log, listeners, inbox, requests, notified>>
        /\ wire'[c] = Append(wire[c], [kind |-> "connected", number |-> 0])
        /\ \A d \in Client \ {c} : Untouched(d)
    BY <1>1, <1>9, GreetSteps
  <2> DEFINE f == [kind |-> "connected", number |-> 0]
  <2>2. f \in Frame /\ f.kind # "message" /\ wire'[c] = Append(wire[c], f)
    BY <2>1 DEF Frame
  <2> HIDE DEF f
  <2> QED BY <1>2, <1>3, <2>1, <2>2 DEF Untouched
<1>10. ASSUME NEW c \in Client, Forward(c)
       PROVE  Heard(e)' = Heard(e) /\ log' = log
  <2>1. log' = log /\ \A d \in Client \ {c} : Untouched(d)
    BY <1>1, <1>10, ForwardSteps
  <2>2. CASE e = c
    BY <1>1, <1>10, <2>1, <2>2, ForwardHears DEF HeardSound
  <2> QED BY <1>2, <2>1, <2>2 DEF Untouched
<1>11. ASSUME NEW c \in Client, Start(c)
       PROVE  Heard(e)' = Heard(e) /\ log' = log
  BY <1>2, <1>11 DEF Start
<1>12. ASSUME NEW c \in Client, Stop(c)
       PROVE  /\ log' = log
              /\ \/ Heard(e)' = Heard(e)
                 \/ /\ status'[e] = "gone" /\ Heard(e)' \subseteq Heard(e)
                    /\ \A x \in Heard(e), y \in Heard(e)' :
                            x \in Heard(e)' \/ y < x
  <2>1. /\ log' = log /\ status'[c] = "gone"
        /\ \A d \in Client \ {c} : Untouched(d)
    BY <1>1, <1>12, StopSteps
  <2>2. CASE e = c
    BY <1>1, <1>12, <2>1, <2>2, StopHears DEF HeardSound
  <2> QED BY <1>2, <2>1, <2>2 DEF Untouched
<1>13. ASSUME NEW c \in Client, NEW kind, NEW required, NEW from, NEW after,
              Ask(c, kind, required, from, after)
       PROVE  Heard(e)' = Heard(e) /\ log' = log
  BY <1>2, <1>13 DEF Ask
<1> QED BY <1>2, <1>4, <1>5, <1>6, <1>7, <1>8, <1>9, <1>10, <1>11, <1>12, <1>13,
           NextCases

\* What a client hears begins where it was let in.
LEMMA SinceInvariant ==
  ASSUME IInv, Typed, Next, NEW e \in Client, HeardSound(e), Since(e)
  PROVE  Since(e)'
<1>1. /\ connected[e] \in Nat /\ connected[e] <= Len(log) /\ Len(log) \in Nat
      /\ Heard(e) \subseteq Nat
  <2>1. connected[e] \in 0..Len(log) /\ Len(log) \in Nat
    BY DEF Typed, TypeOK
  <2> QED BY <2>1, ClientTypes DEF Typed
<1>2. CASE /\ Connect /\ status[e] = "connecting" /\ log' = log
           /\ status'[e] = "accepted" /\ connected'[e] = Len(log)
  <2>1. Heard(e) = {}
    BY <1>2 DEF HeardSound, Unheard
  <2>2. Heard(e)' = {}
    BY <1>2, <2>1, HeardCases
  <2> QED BY <1>1, <1>2, <2>2 DEF Since
<1>3. CASE connected'[e] = connected[e] /\ (LetIn(e)' => LetIn(e))
  <2>1. CASE Heard(e)' = Heard(e) /\ log' = log
    BY <1>3, <2>1 DEF Since
  <2>2. CASE /\ log' = log /\ status'[e] = "gone" /\ Heard(e)' \subseteq Heard(e)
             /\ \A x \in Heard(e), y \in Heard(e)' : x \in Heard(e)' \/ y < x
    <3>1. ~LetIn(e)'
      BY <2>2 DEF LetIn
    <3>2. ASSUME NEW x \in Heard(e)', NEW i \in (connected[e] + 1)..x
          PROVE  i \in Heard(e)'
      <4>1. i \in Heard(e) /\ x \in Nat
        BY <1>1, <2>2, <3>2 DEF Since
      <4>2. ~(x < i)
        BY <1>1, <4>1
      <4> QED BY <2>2, <4>1, <4>2
    <3> QED BY <1>3, <2>2, <3>1, <3>2 DEF Since
  <2>3. CASE /\ status'[e] = status[e]
             /\ Len(log) \in Nat /\ Len(log') = Len(log) + 1
             /\ Heard(e)' = IF e \in listeners /\ Alive(e)
                            THEN Heard(e) \cup {Len(log) + 1} ELSE Heard(e)
    <3>1. e \in listeners /\ Alive(e) <=> LetIn(e)
      <4>1. status[e] \in Status
        BY ClientTypes DEF Typed
      <4> QED BY <4>1 DEF HeardSound, Unheard, Alive, LetIn, Status, IInv,
                          OpenIsListening
    <3>2. CASE LetIn(e)
      <4>1. Heard(e)' = Heard(e) \cup {Len(log) + 1}
        BY <2>3, <3>1, <3>2
      <4>2. (connected[e] + 1)..Len(log) \subseteq Heard(e)
        BY <3>2 DEF Since
      <4>3. (connected[e] + 1)..(Len(log) + 1) \subseteq Heard(e)'
        BY <1>1, <4>1, <4>2
      <4>4. \A x \in Heard(e)' : x <= Len(log) + 1 /\ x \in Nat
        BY <1>1, <4>1 DEF HeardSound, Whole
      <4>5. \A x \in Heard(e)' : connected[e] < x
        BY <1>1, <4>1 DEF Since
      <4>6. \A x \in Heard(e)' : (connected[e] + 1)..x \subseteq Heard(e)'
        BY <1>1, <4>3, <4>4
      <4> QED BY <1>3, <2>3, <4>3, <4>5, <4>6 DEF Since
    <3>3. CASE ~LetIn(e)
      <4>1. Heard(e)' = Heard(e)
        BY <2>3, <3>1, <3>3
      <4> QED BY <1>3, <3>3, <4>1 DEF Since
    <3> QED BY <3>2, <3>3
  <2> QED BY <2>1, <2>2, <2>3, HeardCases
<1> QED BY <1>2, <1>3, OnlyConnectLetsIn

\* What a client hears is in order and without gaps, whatever happens.
LEMMA HeardInvariant ==
  ASSUME IInv, Typed, Next, NEW e \in Client, HeardSound(e)
  PROVE  HeardSound(e)'
<1>1. TypeOK
  BY DEF Typed
<1>2. CASE Connect
  <2>1. PICK c \in Client :
            /\ status[c] = "connecting" /\ log' = log
            /\ UNCHANGED <<inbox, requests>>
            /\ \A d \in Client \ {c} : Untouched(d)
            /\ \/ /\ status'[c] = "accepted" /\ wire'[c] = wire[c]
               \/ /\ status'[c] = "refused" /\ c \notin listeners'
                  /\ wire'[c] = Append(wire[c], [kind |-> "close", number |-> 0])
    BY <1>1, <1>2, ConnectSteps
  <2>2. CASE e # c
    <3>1. Untouched(e) /\ log' = log
      BY <2>1, <2>2
    <3> QED BY <3>1, UntouchedHears
  <2>3. CASE e = c /\ status'[e] = "accepted" /\ wire'[e] = wire[e]
    <3>1. Told(e)' = Told(e) /\ Waiting(e)' = Waiting(e)
      BY <2>1, <2>3 DEF Told, Waiting
    <3>2. Heard(e) = {} /\ Heard(e)' = {}
      BY <2>1, <2>3, <3>1 DEF HeardSound, Unheard, Heard
    <3>3. Ordered(e)'
      BY <2>1, <2>3, <3>1 DEF HeardSound, Ordered
    <3> QED BY <2>3, <3>2, <3>3 DEF HeardSound, Whole, Unheard
  <2>4. CASE e = c /\ status'[e] = "refused"
    <3> DEFINE f == [kind |-> "close", number |-> 0]
    <3>1. f \in Frame /\ f.kind # "message"
      BY DEF Frame
    <3>2. wire'[e] = Append(wire[e], f) /\ inbox'[e] = inbox[e]
      BY <2>1, <2>4
    <3> HIDE DEF f
    <3>3. Heard(e)' = Heard(e) /\ Ordered(e)'
      BY <1>1, <3>1, <3>2, OtherFrame DEF HeardSound
    <3>4. Heard(e)' = {} /\ e \notin listeners'
      BY <2>1, <2>4, <3>3 DEF HeardSound, Unheard
    <3> QED BY <3>3, <3>4 DEF HeardSound, Whole, Unheard
  <2> QED BY <2>1, <2>2, <2>3, <2>4
<1>3. CASE Disconnect \/ DropFailed
  BY <1>3, DropSteps, UntouchedHears
<1>4. ASSUME NEW c \in Client, NEW n, RecordMessage(c, n)
      PROVE  HeardSound(e)'
  <2>1. UNCHANGED <<status, listeners>> /\ log' = Append(log, User[c])
    BY <1>4 DEF RecordMessage
  <2>2. Len(log') = Len(log) + 1 /\ Len(log) \in Nat
    BY <1>1, <2>1, ConversationAssumption DEF TypeOK
  <2>3. /\ Ordered(e)'
        /\ Heard(e)' = IF e \in listeners /\ Alive(e)
                       THEN Heard(e) \cup {Len(log) + 1} ELSE Heard(e)
    BY <1>1, <1>4, RecordHears DEF HeardSound, Whole
  <2>4. Alive(e)' = Alive(e)
    BY <2>1 DEF Alive
  <2>5. Heard(e) \subseteq Nat /\ Heard(e) \subseteq 1..Len(log)
    BY <1>1, ClientTypes DEF HeardSound, Whole
  <2>6. CASE e \in listeners /\ Alive(e)
    <3>1. Heard(e)' = Heard(e) \cup {Len(log) + 1}
      BY <2>3, <2>6
    <3>2. Heard(e)' \subseteq 1..Len(log') /\ Len(log') \in Heard(e)'
      BY <2>2, <2>5, <3>1
    <3>3. ASSUME NEW x \in Heard(e)', NEW y \in Heard(e)', NEW z \in x..y
          PROVE  z \in Heard(e)'
      <4>1. CASE z = Len(log) + 1
        BY <3>1, <4>1
      <4>2. CASE z # Len(log) + 1
        <5>1. x \in Nat /\ y \in Nat /\ x <= Len(log) + 1 /\ y <= Len(log) + 1
          BY <2>2, <3>2
        <5>2. z <= Len(log) /\ x <= Len(log) /\ z \in Int
          BY <2>2, <4>2, <5>1
        <5>3. x \in Heard(e)
          BY <2>2, <3>1, <5>1, <5>2
        <5>4. Len(log) \in Heard(e)
          BY <2>6, <5>3 DEF HeardSound, Whole
        <5>5. z \in x..Len(log)
          BY <2>2, <5>1, <5>2
        <5>6. z \in Heard(e)
          BY <5>3, <5>4, <5>5 DEF HeardSound, Whole
        <5> QED BY <3>1, <5>6
      <4> QED BY <4>1, <4>2
    <3>4. Whole(e)'
      BY <3>2, <3>3 DEF Whole
    <3>5. Unheard(e)'
      BY <2>1, <2>6 DEF HeardSound, Unheard
    <3> QED BY <2>3, <3>4, <3>5 DEF HeardSound
  <2>7. CASE ~(e \in listeners /\ Alive(e))
    <3>1. Heard(e)' = Heard(e)
      BY <2>3, <2>7
    <3>2. Heard(e) # {} => ~Alive(e)
      <4> SUFFICES ASSUME Heard(e) # {}, Alive(e) PROVE FALSE
        OBVIOUS
      <4>1. status[e] \notin {"new", "connecting", "refused", "gone"}
        BY DEF HeardSound, Unheard, Alive
      <4>2. status[e] \in {"accepted", "open"}
        BY <1>1, <4>1, ClientTypes DEF Status
      <4> QED BY <2>7, <4>2 DEF IInv, OpenIsListening
    <3>3. Heard(e) \subseteq 1..Len(log')
      BY <2>2, <2>5
    <3>4. Whole(e)'
      BY <2>4, <3>1, <3>2, <3>3 DEF HeardSound, Whole
    <3>5. Unheard(e)'
      BY <2>1, <3>1 DEF HeardSound, Unheard
    <3> QED BY <2>3, <3>4, <3>5 DEF HeardSound
  <2> QED BY <2>6, <2>7
<1>5. ASSUME status'[e] = status[e], inbox'[e] = inbox[e], wire'[e] = wire[e],
             listeners' = listeners, log' = log
      PROVE  HeardSound(e)'
  <2>1. Told(e)' = Told(e) /\ Waiting(e)' = Waiting(e) /\ Heard(e)' = Heard(e)
    BY <1>5 DEF Told, Waiting, Heard
  <2> QED BY <1>5, <2>1 DEF HeardSound, Ordered, Whole, Unheard, Alive
<1>6. ASSUME NEW c \in Client, NEW n,
             RejectMessage(c, n) \/ FailRequest(c, n) \/ GetHistory(c, n)
      PROVE  HeardSound(e)'
  BY <1>5, <1>6, ReplySteps
<1>7. ASSUME NEW f \in Frame, f.kind # "message", wire'[e] = Append(wire[e], f),
             inbox'[e] = inbox[e], log' = log, listeners' = listeners,
             Alive(e) /\ (status[e] = "refused" \/ status'[e] # "refused"),
             status'[e] \notin {"new", "connecting"}
      PROVE  HeardSound(e)'
  <2>1. Heard(e)' = Heard(e) /\ Ordered(e)'
    BY <1>1, <1>7, OtherFrame DEF HeardSound
  <2> QED BY <1>7, <2>1 DEF HeardSound, Whole, Unheard, Alive
<1>8. ASSUME NEW c \in Client, NEW n, Answer(c, n)
      PROVE  HeardSound(e)'
  <2>1. /\ MayAnswer(c, n) /\ n \in DOMAIN requests[c]
        /\ UNCHANGED <<log, status, listeners, inbox, notified>>
        /\ \A d \in Client \ {c} : Untouched(d)
    BY <1>1, <1>8, AnswerSteps
  <2>2. PICK kind \in {"reply", "close"} :
            wire'[c] = Append(wire[c], [kind |-> kind, number |-> n])
    BY <1>1, <1>8, AnswerSteps
  <2> DEFINE f == [kind |-> kind, number |-> n]
  <2>3. n \in Nat
    BY <1>1, <2>1, ClientTypes
  <2>4. f \in Frame /\ f.kind # "message"
    BY <2>3 DEF Frame
  <2>5. wire'[c] = Append(wire[c], f)
    BY <2>2
  <2> HIDE DEF f
  <2>6. Alive(c) /\ status[c] \notin {"new", "connecting"}
    BY <2>1 DEF MayAnswer, Runs, Suspended, Alive
  <2>7. CASE e = c
    BY <1>7, <2>1, <2>4, <2>5, <2>6, <2>7
  <2>8. CASE e # c
    BY <2>1, <2>8, UntouchedHears
  <2> QED BY <2>7, <2>8
<1>9. ASSUME NEW c \in Client, Greet(c)
      PROVE  HeardSound(e)'
  <2>1. /\ status[c] = "accepted" /\ status'[c] = "open"
        /\ UNCHANGED <<log, listeners, inbox, requests, notified>>
        /\ wire'[c] = Append(wire[c], [kind |-> "connected", number |-> 0])
        /\ \A d \in Client \ {c} : Untouched(d)
    BY <1>1, <1>9, GreetSteps
  <2> DEFINE f == [kind |-> "connected", number |-> 0]
  <2>2. f \in Frame /\ f.kind # "message" /\ wire'[c] = Append(wire[c], f)
    BY <2>1 DEF Frame
  <2> HIDE DEF f
  <2>3. CASE e = c
    BY <1>7, <2>1, <2>2, <2>3 DEF Alive
  <2>4. CASE e # c
    BY <2>1, <2>4, UntouchedHears
  <2> QED BY <2>3, <2>4
<1>10. ASSUME NEW c \in Client, Forward(c)
       PROVE  HeardSound(e)'
  <2>1. /\ Runs(c) /\ \A d \in Client \ {c} : Untouched(d)
        /\ UNCHANGED <<log, status, listeners, requests, notified>>
    BY <1>1, <1>10, ForwardSteps
  <2>2. CASE e = c
    <3>1. Heard(e)' = Heard(e) /\ Ordered(e)'
      BY <1>1, <1>10, <2>2, ForwardHears DEF HeardSound
    <3> QED BY <2>1, <3>1 DEF HeardSound, Whole, Unheard, Alive
  <2>3. CASE e # c
    BY <2>1, <2>3, UntouchedHears
  <2> QED BY <2>2, <2>3
<1>11. ASSUME NEW c \in Client, Start(c)
       PROVE  HeardSound(e)'
  <2>1. /\ status[c] = "new" /\ status'[c] = "connecting"
        /\ UNCHANGED <<log, listeners, inbox, requests, wire, notified>>
        /\ \A d \in Client \ {c} : Untouched(d)
    BY <1>1, <1>11, StartSteps
  <2>2. CASE e = c
    <3>1. Told(e)' = Told(e) /\ Waiting(e)' = Waiting(e)
      BY <2>1 DEF Told, Waiting
    <3>2. Heard(e) = {} /\ Heard(e)' = {} /\ e \notin listeners'
      BY <2>1, <2>2, <3>1 DEF HeardSound, Unheard, Heard
    <3>3. Ordered(e)'
      BY <2>1, <3>1 DEF HeardSound, Ordered
    <3> QED BY <3>2, <3>3 DEF HeardSound, Whole, Unheard
  <2>3. CASE e # c
    BY <2>1, <2>3, UntouchedHears
  <2> QED BY <2>2, <2>3
<1>12. ASSUME NEW c \in Client, Stop(c)
       PROVE  HeardSound(e)'
  <2>1. /\ Runs(c) /\ status'[c] = "gone"
        /\ UNCHANGED <<log, listeners, requests, wire, notified>>
        /\ \A d \in Client \ {c} : Untouched(d)
    BY <1>1, <1>12, StopSteps
  <2>2. CASE e = c
    <3>1. /\ Heard(e)' \subseteq Heard(e) /\ Ordered(e)'
          /\ \A x, y \in Heard(e)' : x..y \subseteq Heard(e)'
      BY <1>1, <1>12, <2>2, StopHears DEF HeardSound
    <3> QED BY <2>1, <2>2, <3>1 DEF HeardSound, Whole, Unheard, Alive
  <2>3. CASE e # c
    BY <2>1, <2>3, UntouchedHears
  <2> QED BY <2>2, <2>3
<1>13. ASSUME NEW c \in Client, NEW kind \in Kind, NEW required \in BOOLEAN,
              NEW from \in Nat, NEW after \in 0..(Wide - 1),
              Ask(c, kind, required, from, after)
       PROVE  HeardSound(e)'
  <2>1. UNCHANGED <<log, status, listeners, inbox, wire, notified>>
    BY <1>1, <1>13, AskSteps
  <2> QED BY <1>5, <2>1
<1> QED BY <1>2, <1>3, <1>4, <1>6, <1>8, <1>9, <1>10, <1>11, <1>12, <1>13, NextCases

LEMMA ConcatIs ==
  ASSUME NEW S, NEW s \in Seq(S), NEW t \in Seq(S), NEW u, u = s \o t
  PROVE  /\ DOMAIN u = 1..(Len(s) + Len(t))
         /\ \A k \in 1..Len(s) : u[k] = s[k]
         /\ \A k \in 1..Len(t) : u[Len(s) + k] = t[k]
<1>1. Len(s) \in Nat /\ Len(t) \in Nat /\ u \in Seq(S) /\ Len(u) = Len(s) + Len(t)
  OBVIOUS
<1>2. DOMAIN u = 1..(Len(s) + Len(t))
  BY <1>1
<1>3. \A k \in 1..Len(s) : u[k] = s[k]
  BY <1>1
<1>4. ASSUME NEW k \in 1..Len(t) PROVE u[Len(s) + k] = t[k]
  <2>1. Len(s) + k \in 1..(Len(s) + Len(t)) /\ ~(Len(s) + k <= Len(s))
        /\ (Len(s) + k) - Len(s) = k
    BY <1>1
  <2> QED BY <1>1, <2>1
<1> QED BY <1>2, <1>3, <1>4

\* Where a client's messages are among the frames it is to have sent.
LEMMA DueIs ==
  ASSUME TypeOK, NEW c \in Client, NEW d, d = Due(c)
  PROVE  /\ \A k \in Messages(d) :
                \/ k \in Messages(wire[c]) /\ d[k].number = wire[c][k].number
                \/ /\ k - Len(wire[c]) \in DOMAIN inbox[c] /\ k > Len(wire[c])
                   /\ d[k].number = inbox[c][k - Len(wire[c])]
         /\ \A k \in Messages(d) : k \in Nat
         /\ {d[k].number : k \in Messages(d)} = Heard(c)
<1> DEFINE w == wire[c]  b == inbox[c]
           m == [k \in DOMAIN b |-> [kind |-> "message", number |-> b[k]]]
<1>1. /\ w \in Seq(Frame) /\ b \in Seq(Id) /\ Len(w) \in Nat /\ Len(b) \in Nat
      /\ DOMAIN w = 1..Len(w) /\ DOMAIN b = 1..Len(b)
      /\ \A k \in DOMAIN b : b[k] \in Nat
  BY ClientTypes
<1> HIDE DEF w, b
<1>2. m \in Seq(Frame) /\ Len(m) = Len(b) /\ DOMAIN m = DOMAIN b
  <2>1. m \in [1..Len(b) -> Frame]
    BY <1>1 DEF Frame
  <2> HIDE DEF m
  <2> QED BY <1>1, <2>1
<1>3. \A k \in DOMAIN b : m[k].kind = "message" /\ m[k].number = b[k]
  OBVIOUS
<1>4. d = w \o m
  BY DEF Due, w, b
<1> HIDE DEF m
<1>5. /\ DOMAIN d = 1..(Len(w) + Len(b))
      /\ \A k \in 1..Len(w) : d[k] = w[k]
      /\ \A k \in 1..Len(b) : d[Len(w) + k] = m[k]
  <2>1. w \in Seq(Frame) /\ m \in Seq(Frame) /\ d = w \o m
    BY <1>1, <1>2, <1>4
  <2>2. /\ DOMAIN d = 1..(Len(w) + Len(m))
        /\ \A k \in 1..Len(w) : d[k] = w[k]
        /\ \A k \in 1..Len(m) : d[Len(w) + k] = m[k]
    BY <2>1, ConcatIs
  <2> QED BY <1>2, <2>2
<1>6. \A k \in DOMAIN d : k \in Nat /\ \/ k \in 1..Len(w)
                                       \/ /\ k > Len(w) /\ k - Len(w) \in 1..Len(b)
                                          /\ k = Len(w) + (k - Len(w))
  BY <1>1, <1>5
<1>7. ASSUME NEW k \in Messages(d)
      PROVE  /\ k \in Nat
             /\ \/ k \in Messages(w) /\ d[k].number = w[k].number
                \/ /\ k - Len(w) \in DOMAIN b /\ k > Len(w)
                   /\ d[k].number = b[k - Len(w)]
  <2>1. k \in DOMAIN d /\ d[k].kind = "message"
    BY DEF Messages
  <2>2. CASE k \in 1..Len(w)
    BY <1>1, <1>5, <2>1, <2>2 DEF Messages
  <2>3. CASE k > Len(w) /\ k - Len(w) \in 1..Len(b) /\ k = Len(w) + (k - Len(w))
    <3>1. d[k] = m[k - Len(w)]
      BY <1>5, <2>3
    <3> QED BY <1>1, <1>3, <2>1, <2>3, <3>1, <1>6
  <2> QED BY <1>6, <2>1, <2>2, <2>3
<1>8. ASSUME NEW k \in Messages(w)
      PROVE  k \in Messages(d) /\ d[k].number = w[k].number
  BY <1>1, <1>5 DEF Messages
<1>9. ASSUME NEW k \in DOMAIN b
      PROVE  Len(w) + k \in Messages(d) /\ d[Len(w) + k].number = b[k]
  BY <1>1, <1>3, <1>5 DEF Messages
<1>10. {d[k].number : k \in Messages(d)} = Heard(c)
  BY <1>7, <1>8, <1>9 DEF Heard, Told, Waiting, w, b
<1> QED BY <1>7, <1>10 DEF w, b

LEMMA HeardNothingMissed ==
  ASSUME TypeOK, \A c \in Client : HeardSound(c) /\ Since(c)
  PROVE  NothingMissed
<1> SUFFICES ASSUME NEW c \in Client, NEW d, d = Due(c)
             PROVE  /\ \A j, k \in Messages(d) :
                        j < k => d[j].number < d[k].number
                    /\ \A k \in Messages(d) :
                        /\ connected[c] < d[k].number
                        /\ \A id \in (connected[c] + 1)..d[k].number :
                            \E l \in Messages(d) : d[l].number = id
                    /\ status[c] \in {"accepted", "open"}
                        => \A id \in (connected[c] + 1)..Len(log) :
                            \E l \in Messages(d) : d[l].number = id
  BY DEF NothingMissed
<1>1. /\ \A k \in Messages(d) :
            \/ k \in Messages(wire[c]) /\ d[k].number = wire[c][k].number
            \/ /\ k - Len(wire[c]) \in DOMAIN inbox[c] /\ k > Len(wire[c])
               /\ d[k].number = inbox[c][k - Len(wire[c])]
      /\ \A k \in Messages(d) : k \in Nat
      /\ {d[k].number : k \in Messages(d)} = Heard(c)
  BY DueIs
<1>2. Ordered(c) /\ Whole(c)
  BY DEF HeardSound
<1>3. ASSUME NEW j \in Messages(d), NEW k \in Messages(d), j < k
      PROVE  d[j].number < d[k].number
  <2> DEFINE W == Len(wire[c])
  <2>1. /\ W \in Nat /\ j \in Nat /\ k \in Nat
        /\ \A l \in Messages(wire[c]) : l <= W
    BY <1>1, ClientTypes DEF Messages
  <2> HIDE DEF W
  <2>2. CASE j \in Messages(wire[c]) /\ d[j].number = wire[c][j].number
    <3>1. CASE k \in Messages(wire[c]) /\ d[k].number = wire[c][k].number
      BY <1>2, <1>3, <2>2, <3>1 DEF Ordered
    <3>2. CASE k - W \in DOMAIN inbox[c] /\ d[k].number = inbox[c][k - W]
      BY <1>2, <2>2, <3>2 DEF Ordered, Told, Waiting
    <3> QED BY <1>1, <3>1, <3>2 DEF W
  <2>3. CASE j - W \in DOMAIN inbox[c] /\ j > W /\ d[j].number = inbox[c][j - W]
    <3>1. k \notin Messages(wire[c])
      BY <1>3, <2>1, <2>3
    <3>2. k - W \in DOMAIN inbox[c] /\ d[k].number = inbox[c][k - W]
      BY <1>1, <3>1 DEF W
    <3>3. j - W < k - W
      BY <1>3, <2>1
    <3> QED BY <1>2, <2>3, <3>2, <3>3 DEF Ordered
  <2> QED BY <1>1, <2>2, <2>3 DEF W
<1>4. ASSUME NEW id \in Heard(c)
      PROVE  \E l \in Messages(d) : d[l].number = id
  BY <1>1
<1>5. \A k \in Messages(d) : d[k].number \in Heard(c)
  BY <1>1, ZenonT(60)
<1>6. /\ \A x \in Heard(c) :
            connected[c] < x /\ (connected[c] + 1)..x \subseteq Heard(c)
      /\ status[c] \in {"accepted", "open"}
            => (connected[c] + 1)..Len(log) \subseteq Heard(c)
  BY DEF Since, LetIn
<1> HIDE DEF Messages
<1> QED BY <1>3, <1>4, <1>5, <1>6

\* Together with what it rests on.
Hearing == IInv /\ Typed /\ \A c \in Client : HeardSound(c) /\ Since(c)

LEMMA InitHearing == Init => Hearing
<1> SUFFICES ASSUME Init, NEW c \in Client PROVE HeardSound(c) /\ Since(c)
  BY InitInvariant, InitTyped DEF Hearing
<1>1. wire[c] = <<>> /\ inbox[c] = <<>> /\ listeners = {}
  BY DEF Init
<1>2. Messages(wire[c]) = {} /\ Heard(c) = {} /\ Told(c) = {}
  BY <1>1 DEF Messages, Heard, Told, Waiting
<1>3. ~LetIn(c)
  BY DEF Init, LetIn
<1> QED BY <1>1, <1>2, <1>3 DEF HeardSound, Ordered, Whole, Unheard, Since

LEMMA NextHearing == Hearing /\ [Next]_vars => Hearing'
<1> SUFFICES ASSUME Hearing, [Next]_vars PROVE Hearing'
  OBVIOUS
<1>1. IInv' /\ Typed'
  BY NextInvariant, NextTyped DEF Hearing
<1>2. ASSUME NEW c \in Client PROVE HeardSound(c)' /\ Since(c)'
  <2>1. CASE Next
    BY <2>1, HeardInvariant, SinceInvariant DEF Hearing
  <2>2. CASE UNCHANGED vars
    <3>1. Untouched(c) /\ log' = log
      BY <2>2 DEF vars, Untouched
    <3>2. HeardSound(c)' /\ Heard(c)' = Heard(c)
      BY <3>1, UntouchedHears DEF Hearing
    <3>3. status' = status /\ connected' = connected
      BY <2>2 DEF vars
    <3> QED BY <3>1, <3>2, <3>3 DEF Hearing, Since, LetIn
  <2> QED BY <2>1, <2>2
<1> QED BY <1>1, <1>2 DEF Hearing

\* What a client is sent, each message once and in order, are all those recorded
\* after the broker let it in up to the last it is sent, and while it is
\* connected all there are, whatever else it waits for (Handler<Connect>,
\* Handler<NewMessage>, Handler<Event> for Client).
THEOREM NothingIsMissed == Spec => []NothingMissed
<1>1. Hearing => NothingMissed
  BY HeardNothingMissed DEF Hearing, Typed
<1>2. Spec => []Hearing
  BY InitHearing, NextHearing, PTL DEF Spec
<1> QED BY <1>1, <1>2, PTL

-----------------------------------------------------------------------------
(***************************************************************************)
(* Who was told of a message that nobody listened to.                      *)
(***************************************************************************)
\* Handler<NewMessage>, but for what clients hear of it.
LEMMA RecordSteps ==
  ASSUME Typed, NEW c \in Client, NEW n, RecordMessage(c, n)
  PROVE  /\ n \in DOMAIN requests[c] /\ requests[c][n] \in Request
         /\ Replaces(c, n, [requests[c][n] EXCEPT !.reply = [kind |-> "received"]])
         /\ UNCHANGED <<status, listeners, wire>>
         /\ Len(log) \in Nat /\ Len(log') = Len(log) + 1
         /\ notified' = notified
                \cup {[user |-> u, message |-> Len(log) + 1] : u \in ToNotify}
<1>1. [kind |-> "received"] \in Reply
  BY DEF Reply
<1>2. Handling(c, n, "send") /\ ReplyTo(c, n, [kind |-> "received"])
  BY DEF RecordMessage
<1>3. /\ n \in DOMAIN requests[c] /\ requests[c][n] \in Request
      /\ Replaces(c, n, [requests[c][n] EXCEPT !.reply = [kind |-> "received"]])
  BY <1>1, <1>2, HandledIsKnown, ReplyTyped
<1>4. log' = Append(log, User[c]) /\ log \in Seq(Member)
  BY DEF RecordMessage, Typed, TypeOK
<1>5. Len(log) \in Nat /\ Len(log') = Len(log) + 1
  BY <1>4
<1> QED BY <1>3, <1>5 DEF RecordMessage

\* Only messages there are have been notified.
NotifiedOfKnown == \A x \in notified : x.message <= Len(log)

\* Only RecordMessage adds to the log, or notifies anybody.
LEMMA OthersNotifyNobody ==
  ASSUME Typed, IInv, Next,
         ~ \E c \in Client, n \in 1..MaxRequests : RecordMessage(c, n)
  PROVE  log' = log /\ notified' = notified
<1>1. CASE Connect \/ Disconnect \/ DropFailed
  BY <1>1 DEF Connect, Disconnect, DropFailed
<1>2. ASSUME NEW c \in Client, NEW n \in 1..MaxRequests,
             \/ RejectMessage(c, n) \/ FailRequest(c, n)
             \/ GetHistory(c, n) \/ Answer(c, n)
      PROVE  log' = log /\ notified' = notified
  BY <1>2 DEF RejectMessage, FailRequest, GetHistory, Answer
<1>3. ASSUME NEW c \in Client, Greet(c) \/ Forward(c) \/ Start(c) \/ Stop(c)
      PROVE  log' = log /\ notified' = notified
  BY <1>3 DEF Greet, Forward, Start, Stop
<1>4. ASSUME NEW c \in Client, NEW kind, NEW required, NEW from, NEW after,
             Ask(c, kind, required, from, after)
      PROVE  log' = log /\ notified' = notified
  BY <1>4 DEF Ask
<1> QED BY <1>1, <1>2, <1>3, <1>4, NextCases

Notifying == IInv /\ Typed /\ NotifiedOfKnown

LEMMA NextNotifying == Notifying /\ [Next]_vars => Notifying'
<1> SUFFICES ASSUME Notifying, [Next]_vars PROVE Notifying'
  OBVIOUS
<1>1. IInv' /\ Typed'
  BY NextInvariant, NextTyped DEF Notifying
<1>2. \A x \in notified : x.message \in Nat
  <2>1. \A x \in notified : x.message \in Id
    BY DEF Notifying, Typed, TypeOK
  <2> QED BY <2>1, ConversationAssumption DEF Id
<1>3. CASE log' = log /\ notified' = notified
  BY <1>1, <1>3 DEF Notifying, NotifiedOfKnown
<1>4. ASSUME NEW c \in Client, NEW n, RecordMessage(c, n)
      PROVE  NotifiedOfKnown'
  <2>1. /\ Len(log) \in Nat /\ Len(log') = Len(log) + 1
        /\ notified' = notified
                \cup {[user |-> u, message |-> Len(log) + 1] : u \in ToNotify}
    BY <1>4, RecordSteps DEF Notifying
  <2> QED BY <1>2, <2>1 DEF Notifying, NotifiedOfKnown
<1>5. CASE UNCHANGED vars
  BY <1>3, <1>5 DEF vars
<1> QED BY <1>1, <1>3, <1>4, <1>5, OthersNotifyNobody DEF Notifying

\* The double iteration of Handler<NewMessage> tells EventManager of exactly
\* the members that have no connection in the broker's list.
THEOREM AbsentAreTold == Spec => AbsentAreNotified
<1> DEFINE Body == log' # log =>
                LET id == Len(log') IN
                \A u \in Member :
                    [user |-> u, message |-> id] \in notified'
                    <=> \A c \in listeners : User[c] # u
<1>1. Notifying /\ [Next]_vars => [Body]_vars
  <2> SUFFICES ASSUME Notifying, Next, log' # log,
                      NEW u \in Member, NEW id, id = Len(log')
               PROVE  [user |-> u, message |-> id] \in notified'
                      <=> \A c \in listeners : User[c] # u
    BY DEF vars
  <2>1. PICK c \in Client, n \in 1..MaxRequests : RecordMessage(c, n)
    BY OthersNotifyNobody DEF Notifying
  <2>2. /\ Len(log) \in Nat /\ id = Len(log) + 1
        /\ notified' = notified \cup {[user |-> v, message |-> id] : v \in ToNotify}
    BY <2>1, RecordSteps DEF Notifying
  <2>3. [user |-> u, message |-> id] \notin notified
    <3> SUFFICES ASSUME [user |-> u, message |-> id] \in notified PROVE FALSE
      OBVIOUS
    <3>1. id <= Len(log)
      BY DEF Notifying, NotifiedOfKnown
    <3> QED BY <2>2, <3>1
  <2>4. ToNotify = Member \ {User[d] : d \in listeners}
    BY NotifiesAbsent DEF Notifying, IInv, Types
  <2>5. [user |-> u, message |-> id] \in notified' <=> u \in ToNotify
    BY <2>2, <2>3
  <2> QED BY <2>4, <2>5
<1>2. Init => Notifying
  BY InitInvariant, InitTyped DEF Notifying, NotifiedOfKnown, Init
<1>3. Spec => []Notifying
  BY <1>2, NextNotifying, PTL DEF Spec
<1> QED BY <1>1, <1>3, PTL DEF Spec, AbsentAreNotified

-----------------------------------------------------------------------------
(***************************************************************************)
(* In which order requests are responded to.                               *)
(***************************************************************************)
Response(f) == f.kind \in {"reply", "close"}

\* Nothing has been asked or sent before the client has greeted its remote or
\* closed the connection.
Quiet(c) ==
    status[c] \in {"new", "connecting", "accepted"} =>
        wire[c] = <<>> /\ requests[c] = <<>>

\* A response belongs to a request that is marked as responded to; only that
\* to Connect has number 0, and comes first.
Responded(c) ==
    \A i \in DOMAIN wire[c] : Response(wire[c][i]) =>
        \/ wire[c][i].number = 0 /\ i = 1
        \/ /\ wire[c][i].number \in DOMAIN requests[c]
           /\ requests[c][wire[c][i].number].written = TRUE

\* A client waits for nothing but its last request.
WaitsForLast(c) == \A n \in Awaiting(c) : n = Len(requests[c])

InOrder(c) ==
    \A i, j \in DOMAIN wire[c] :
        i < j /\ Response(wire[c][i]) /\ Response(wire[c][j])
        => /\ wire[c][i].number # wire[c][j].number
           /\ wire[c][j].number < wire[c][i].number
                => ~requests[c][wire[c][j].number].required

ResponsesSound(c) == Quiet(c) /\ Responded(c) /\ WaitsForLast(c) /\ InOrder(c)

\* Of the requests of c nothing has changed that matters to their order.
SameRequests(c) ==
    /\ requests'[c] \in Seq(Request)
    /\ DOMAIN requests'[c] = DOMAIN requests[c]
    /\ \A k \in DOMAIN requests[c] :
        /\ requests'[c][k].required = requests[c][k].required
        /\ requests'[c][k].written = requests[c][k].written

LEMMA ReplacedReply ==
  ASSUME Typed, NEW c \in Client, NEW n \in DOMAIN requests[c], NEW reply,
         requests[c][n] \in Request,
         Replaces(c, n, [requests[c][n] EXCEPT !.reply = reply]), NEW e \in Client
  PROVE  /\ SameRequests(e)
         /\ \A k \in DOMAIN requests[e] :
              /\ requests'[e][k].kind = requests[e][k].kind
              /\ requests'[e][k].from = requests[e][k].from
              /\ requests'[e][k].after = requests[e][k].after
              /\ requests'[e][k].reply = IF e = c /\ k = n THEN reply
                                                           ELSE requests[e][k].reply
<1> DEFINE r == [requests[c][n] EXCEPT !.reply = reply]
<1>1. /\ r.required = requests[c][n].required /\ r.written = requests[c][n].written
      /\ r.kind = requests[c][n].kind /\ r.from = requests[c][n].from
      /\ r.after = requests[c][n].after /\ r.reply = reply
  BY DEF Request
<1>2. /\ requests' \in [Client -> Seq(Request)]
      /\ DOMAIN requests'[e] = DOMAIN requests[e]
      /\ \A k \in DOMAIN requests[e] :
            requests'[e][k] = IF e = c /\ k = n THEN r ELSE requests[e][k]
  BY DEF Replaces
<1> HIDE DEF r
<1> QED BY <1>1, <1>2 DEF SameRequests

LEMMA SameLength ==
  ASSUME NEW S, NEW s \in Seq(S), NEW t \in Seq(S), DOMAIN s = DOMAIN t
  PROVE  Len(s) = Len(t)
<1>1. \A m, n \in Nat : 1..m \subseteq 1..n => m <= n
  <2> SUFFICES ASSUME NEW m \in Nat, NEW n \in Nat, 1..m \subseteq 1..n, ~(m <= n)
               PROVE  FALSE
    OBVIOUS
  <2>1. m \in 1..m
    OBVIOUS
  <2>2. m \in 1..n
    BY <2>1
  <2> QED BY <2>2
<1>2. /\ Len(s) \in Nat /\ Len(t) \in Nat
      /\ DOMAIN s = 1..Len(s) /\ DOMAIN t = 1..Len(t)
  OBVIOUS
<1>3. Len(s) <= Len(t) /\ Len(t) <= Len(s)
  BY <1>1, <1>2
<1>4. \A m, n \in Nat : m <= n /\ n <= m => m = n
  OBVIOUS
<1> QED BY <1>2, <1>3, <1>4, Zenon

\* The same frames, or one more that is no response.
LEMMA SameResponses ==
  ASSUME Typed, NEW c \in Client, SameRequests(c), ResponsesSound(c),
         \/ wire'[c] = wire[c]
         \/ \E f \in Frame : ~Response(f) /\ wire'[c] = Append(wire[c], f)
  PROVE  Responded(c)' /\ WaitsForLast(c)' /\ InOrder(c)'
<1>1. TypeOK
  BY DEF Typed
<1>2. \A i \in DOMAIN wire'[c] : Response(wire'[c][i]) =>
            i \in DOMAIN wire[c] /\ wire'[c][i] = wire[c][i]
  <2>1. CASE wire'[c] = wire[c]
    BY <2>1
  <2>2. CASE \E f \in Frame : ~Response(f) /\ wire'[c] = Append(wire[c], f)
    BY <1>1, <2>2, FrameAdded
  <2> QED BY <2>1, <2>2
<1>3. Responded(c)'
  BY <1>2 DEF ResponsesSound, Responded, SameRequests
<1>4. InOrder(c)'
  <2> SUFFICES ASSUME NEW i \in DOMAIN wire'[c], NEW j \in DOMAIN wire'[c], i < j,
                      Response(wire'[c][i]), Response(wire'[c][j])
               PROVE  /\ wire'[c][i].number # wire'[c][j].number
                      /\ wire'[c][j].number < wire'[c][i].number
                            => ~requests'[c][wire'[c][j].number].required
    BY DEF InOrder, Response
  <2>1. /\ i \in DOMAIN wire[c] /\ wire'[c][i] = wire[c][i]
        /\ j \in DOMAIN wire[c] /\ wire'[c][j] = wire[c][j]
    BY <1>2
  <2>2. j # 1
    BY <1>1, <2>1, ClientTypes
  <2>3. wire[c][j].number \in DOMAIN requests[c]
    BY <2>1, <2>2 DEF ResponsesSound, Responded
  <2> QED BY <2>1, <2>3 DEF ResponsesSound, InOrder, SameRequests
<1>5. WaitsForLast(c)'
  <2>1. Len(requests'[c]) = Len(requests[c])
    BY <1>1, ClientTypes, SameLength DEF SameRequests
  <2>2. Awaiting(c)' = Awaiting(c)
    BY DEF Awaiting, SameRequests
  <2> QED BY <2>1, <2>2 DEF ResponsesSound, WaitsForLast
<1> QED BY <1>3, <1>4, <1>5

\* What the client or the broker does leaves the responses of others alone.
LEMMA UntouchedResponses ==
  ASSUME Typed, NEW c \in Client, status'[c] = status[c],
         requests'[c] = requests[c], wire'[c] = wire[c], ResponsesSound(c)
  PROVE  ResponsesSound(c)'
<1>1. SameRequests(c)
  BY ClientTypes DEF Typed, SameRequests
<1>2. Responded(c)' /\ WaitsForLast(c)' /\ InOrder(c)'
  BY <1>1, SameResponses
<1> QED BY <1>2 DEF ResponsesSound, Quiet

\* Client::get_history and Client::send_message: only a client that waits for
\* no response asks.
LEMMA AskResponds ==
  ASSUME Typed, NEW c \in Client, NEW r \in Request, Asks(c, r), Runs(c),
         status'[c] = status[c], wire'[c] = wire[c], ResponsesSound(c)
  PROVE  ResponsesSound(c)'
<1> DEFINE p == Len(requests[c]) + 1
<1>1. /\ DOMAIN requests'[c] = DOMAIN requests[c] \cup {p} /\ Len(requests'[c]) = p
      /\ \A k \in DOMAIN requests[c] : requests'[c][k] = requests[c][k]
  BY DEF Asks
<1> HIDE DEF p
<1>2. Awaiting(c) = {} /\ status[c] \notin {"new", "connecting", "accepted"}
  BY DEF Runs, Suspended, Alive
<1>3. \A n \in Awaiting(c)' : n = p
  BY <1>1, <1>2 DEF Awaiting
<1>4. Responded(c)'
  BY <1>1 DEF ResponsesSound, Responded
<1>5. InOrder(c)'
  <2> SUFFICES ASSUME NEW i \in DOMAIN wire[c], NEW j \in DOMAIN wire[c], i < j,
                      Response(wire[c][i]), Response(wire[c][j])
               PROVE  /\ wire[c][i].number # wire[c][j].number
                      /\ wire[c][j].number < wire[c][i].number
                            => ~requests'[c][wire[c][j].number].required
    BY DEF InOrder, Response
  <2>1. j # 1
    BY ClientTypes DEF Typed
  <2>2. wire[c][j].number \in DOMAIN requests[c]
    BY <2>1 DEF ResponsesSound, Responded
  <2> QED BY <1>1, <2>2 DEF ResponsesSound, InOrder
<1> QED BY <1>1, <1>2, <1>3, <1>4, <1>5 DEF ResponsesSound, Quiet, WaitsForLast

\* A response is sent to a request that has none; while the client waits, to
\* the one it waits for, which is the last.
LEMMA AnswerResponds ==
  ASSUME Typed, NEW c \in Client, NEW n, Answer(c, n), ResponsesSound(c)
  PROVE  ResponsesSound(c)'
<1>1. TypeOK
  BY DEF Typed
<1>2. /\ MayAnswer(c, n) /\ n \in DOMAIN requests[c] /\ requests[c][n] \in Request
      /\ ~requests[c][n].written
      /\ Replaces(c, n, [requests[c][n] EXCEPT !.written = TRUE])
      /\ status' = status
  BY <1>1, AnswerSteps
<1>3. PICK kind \in {"reply", "close"} :
            wire'[c] = Append(wire[c], [kind |-> kind, number |-> n])
  BY <1>1, AnswerSteps
<1> DEFINE f == [kind |-> kind, number |-> n]
           r == [requests[c][n] EXCEPT !.written = TRUE]
           p == Len(wire[c]) + 1
<1>4. n \in Nat /\ n >= 1 /\ n <= Len(requests[c])
  BY <1>1, <1>2, ClientTypes
<1>5. f \in Frame /\ Response(f) /\ f.number = n
  BY <1>4 DEF Frame, Response
<1>6. r.written = TRUE /\ r.required = requests[c][n].required
  BY <1>2 DEF Request
<1>7. /\ requests'[c] \in Seq(Request) /\ DOMAIN requests'[c] = DOMAIN requests[c]
      /\ \A k \in DOMAIN requests[c] :
            requests'[c][k] = IF k = n THEN r ELSE requests[c][k]
  BY <1>2 DEF Replaces
<1>8. wire'[c] = Append(wire[c], f)
  BY <1>3
<1> HIDE DEF f, r
<1>9. /\ DOMAIN wire'[c] = DOMAIN wire[c] \cup {p}
      /\ \A i \in DOMAIN wire[c] : wire'[c][i] = wire[c][i] /\ i < p
      /\ wire'[c][p] = f /\ p \in Int
      /\ \A i \in DOMAIN wire[c] : i \in Nat /\ i >= 1 /\ wire[c][i].number \in Nat
  BY <1>1, <1>5, <1>8, FrameAdded, ClientTypes
<1> HIDE DEF p
<1>10. /\ \A k \in DOMAIN requests[c] : requests'[c][k].required = requests[c][k].required
       /\ \A k \in DOMAIN requests[c] :
            requests[c][k].written = TRUE => requests'[c][k].written = TRUE
       /\ requests'[c][n].written = TRUE
  BY <1>2, <1>6, <1>7
<1>11. Responded(c)'
  BY <1>2, <1>5, <1>7, <1>9, <1>10 DEF ResponsesSound, Responded
<1>12. WaitsForLast(c)'
  <2>1. Len(requests'[c]) = Len(requests[c])
    BY <1>1, <1>7, ClientTypes, SameLength
  <2>2. Awaiting(c)' \subseteq Awaiting(c)
    BY <1>6, <1>7 DEF Awaiting
  <2> QED BY <2>1, <2>2 DEF ResponsesSound, WaitsForLast
<1>13. InOrder(c)'
  <2> SUFFICES ASSUME NEW i \in DOMAIN wire'[c], NEW j \in DOMAIN wire'[c], i < j,
                      Response(wire'[c][i]), Response(wire'[c][j])
               PROVE  /\ wire'[c][i].number # wire'[c][j].number
                      /\ wire'[c][j].number < wire'[c][i].number
                            => ~requests'[c][wire'[c][j].number].required
    BY DEF InOrder, Response
  <2>1. i \in DOMAIN wire[c] /\ wire'[c][i] = wire[c][i]
    <3>1. ASSUME i = p PROVE FALSE
      BY <1>9, <3>1
    <3> QED BY <1>9, <3>1
  <2>2. CASE j = p
    <3>1. wire'[c][j].number = n
      BY <1>5, <1>9, <2>2
    <3>2. wire[c][i].number = 0 \/ /\ wire[c][i].number \in DOMAIN requests[c]
                                   /\ requests[c][wire[c][i].number].written = TRUE
      BY <2>1 DEF ResponsesSound, Responded
    <3>3. wire[c][i].number # n
      BY <1>2, <1>4, <3>2
    <3>4. ASSUME n < wire[c][i].number, requests'[c][n].required PROVE FALSE
      <4>1. n \in Awaiting(c)
        BY <1>2, <1>10, <3>4 DEF Awaiting
      <4>2. n = Len(requests[c])
        BY <4>1 DEF ResponsesSound, WaitsForLast
      <4>3. wire[c][i].number \in DOMAIN requests[c]
        BY <1>4, <3>2, <3>4
      <4>4. wire[c][i].number <= Len(requests[c]) /\ Len(requests[c]) \in Nat
            /\ wire[c][i].number \in Nat
        BY <1>1, <4>3, ClientTypes
      <4> QED BY <3>4, <4>2, <4>4
    <3> QED BY <2>1, <3>1, <3>3, <3>4
  <2>3. CASE j # p
    <3>1. j \in DOMAIN wire[c] /\ wire'[c][j] = wire[c][j]
      BY <1>9, <2>3
    <3>2. j # 1
      BY <1>9, <2>1
    <3>3. wire[c][j].number \in DOMAIN requests[c]
      BY <3>1, <3>2 DEF ResponsesSound, Responded
    <3> QED BY <1>10, <2>1, <3>1, <3>3 DEF ResponsesSound, InOrder
  <2> QED BY <2>2, <2>3
<1>14. Quiet(c)'
  BY <1>2 DEF MayAnswer, Runs, Suspended, Alive, Quiet
<1> QED BY <1>11, <1>12, <1>13, <1>14 DEF ResponsesSound

\* The first frame of a client that had sent none.
LEMMA FirstFrame ==
  ASSUME Typed, NEW c \in Client, NEW f \in Frame, wire'[c] = Append(wire[c], f),
         wire[c] = <<>>, f.number = 0, requests'[c] = requests[c],
         status'[c] \in {"open", "refused"}, ResponsesSound(c)
  PROVE  ResponsesSound(c)'
<1>1. DOMAIN wire'[c] = {1} /\ wire'[c][1] = f
  BY FrameAdded DEF Typed
<1>2. Responded(c)' /\ InOrder(c)'
  BY <1>1 DEF Responded, InOrder
<1>3. Awaiting(c)' = Awaiting(c)
  BY DEF Awaiting
<1> QED BY <1>2, <1>3 DEF ResponsesSound, Quiet, WaitsForLast

LEMMA ResponsesInvariant ==
  ASSUME IInv, Typed, Next, NEW e \in Client, ResponsesSound(e)
  PROVE  ResponsesSound(e)'
<1>1. TypeOK
  BY DEF Typed
<1>2. Untouched(e) => ResponsesSound(e)'
  BY UntouchedResponses DEF Untouched
<1>3. CASE Connect
  <2>1. PICK c \in Client :
            /\ status[c] = "connecting" /\ log' = log
            /\ UNCHANGED <<inbox, requests>>
            /\ \A d \in Client \ {c} : Untouched(d)
            /\ \/ /\ status'[c] = "accepted" /\ wire'[c] = wire[c]
               \/ /\ status'[c] = "refused" /\ c \notin listeners'
                  /\ wire'[c] = Append(wire[c], [kind |-> "close", number |-> 0])
    BY <1>1, <1>3, ConnectSteps
  <2> DEFINE f == [kind |-> "close", number |-> 0]
  <2>2. f \in Frame /\ f.number = 0
    BY DEF Frame
  <2>3. CASE e = c /\ status'[c] = "accepted" /\ wire'[c] = wire[c]
    <3>1. SameRequests(e)
      BY <1>1, <2>1, ClientTypes DEF SameRequests
    <3>2. Responded(e)' /\ WaitsForLast(e)' /\ InOrder(e)'
      BY <2>3, <3>1, SameResponses
    <3> QED BY <2>1, <2>3, <3>2 DEF ResponsesSound, Quiet
  <2>4. CASE e = c /\ status'[c] = "refused" /\ wire'[c] = Append(wire[c], f)
    <3> HIDE DEF f
    <3>1. wire[e] = <<>>
      BY <2>1, <2>4 DEF ResponsesSound, Quiet
    <3> QED BY <2>1, <2>2, <2>4, <3>1, FirstFrame
  <2> QED BY <1>2, <2>1, <2>3, <2>4
<1>4. CASE Disconnect \/ DropFailed
  BY <1>2, <1>4, DropSteps
<1>5. ASSUME NEW c \in Client, NEW n, NEW reply, n \in DOMAIN requests[c],
             requests[c][n] \in Request,
             Replaces(c, n, [requests[c][n] EXCEPT !.reply = reply]),
             status' = status, wire' = wire
      PROVE  ResponsesSound(e)'
  <2>1. SameRequests(e)
    BY <1>5, ReplacedReply
  <2>2. Responded(e)' /\ WaitsForLast(e)' /\ InOrder(e)'
    BY <1>5, <2>1, SameResponses
  <2>3. Quiet(e)'
    <3> SUFFICES ASSUME requests[e] = <<>> PROVE requests'[e] = <<>>
      BY <1>5 DEF ResponsesSound, Quiet
    <3>1. Len(requests'[e]) = 0
      BY <1>1, <2>1, ClientTypes, SameLength DEF SameRequests
    <3> QED BY <2>1, <3>1 DEF SameRequests
  <2> QED BY <2>2, <2>3 DEF ResponsesSound
<1>6. ASSUME NEW c \in Client, NEW n, RecordMessage(c, n)
      PROVE  ResponsesSound(e)'
  BY <1>5, <1>6, RecordSteps
<1>7. ASSUME NEW c \in Client, NEW n,
             RejectMessage(c, n) \/ FailRequest(c, n) \/ GetHistory(c, n)
      PROVE  ResponsesSound(e)'
  BY <1>5, <1>7, ReplySteps
<1>8. ASSUME NEW c \in Client, NEW n, Answer(c, n)
      PROVE  ResponsesSound(e)'
  <2>1. CASE e = c
    BY <1>8, <2>1, AnswerResponds
  <2>2. CASE e # c
    BY <1>1, <1>2, <1>8, <2>2, AnswerSteps
  <2> QED BY <2>1, <2>2
<1>9. ASSUME NEW c \in Client, Greet(c)
      PROVE  ResponsesSound(e)'
  <2>1. /\ status[c] = "accepted" /\ status'[c] = "open"
        /\ UNCHANGED <<log, listeners, inbox, requests, notified>>
        /\ wire'[c] = Append(wire[c], [kind |-> "connected", number |-> 0])
        /\ \A d \in Client \ {c} : Untouched(d)
    BY <1>1, <1>9, GreetSteps
  <2> DEFINE f == [kind |-> "connected", number |-> 0]
  <2>2. f \in Frame /\ f.number = 0 /\ wire'[c] = Append(wire[c], f)
    BY <2>1 DEF Frame
  <2> HIDE DEF f
  <2>3. CASE e = c
    <3>1. wire[e] = <<>>
      BY <2>1, <2>3 DEF ResponsesSound, Quiet
    <3> QED BY <2>1, <2>2, <2>3, <3>1, FirstFrame
  <2> QED BY <1>2, <2>1, <2>3
<1>10. ASSUME NEW c \in Client, Forward(c)
       PROVE  ResponsesSound(e)'
  <2>1. /\ Runs(c) /\ Head(inbox[c]) \in Nat /\ \A d \in Client \ {c} : Untouched(d)
        /\ UNCHANGED <<log, status, listeners, requests, notified>>
        /\ wire'[c] = Append(wire[c], [kind |-> "message", number |-> Head(inbox[c])])
    BY <1>1, <1>10, ForwardSteps
  <2> DEFINE f == [kind |-> "message", number |-> Head(inbox[c])]
  <2>2. f \in Frame /\ ~Response(f) /\ wire'[c] = Append(wire[c], f)
    BY <2>1 DEF Frame, Response
  <2> HIDE DEF f
  <2>3. CASE e = c
    <3>1. SameRequests(e)
      BY <1>1, <2>1, ClientTypes DEF SameRequests
    <3>2. Responded(e)' /\ WaitsForLast(e)' /\ InOrder(e)'
      BY <2>2, <2>3, <3>1, SameResponses
    <3>3. status'[e] \notin {"new", "connecting", "accepted"}
      BY <2>1, <2>3 DEF Runs, Suspended, Alive
    <3> QED BY <3>2, <3>3 DEF ResponsesSound, Quiet
  <2> QED BY <1>2, <2>1, <2>3
<1>11. ASSUME NEW c \in Client, Start(c) \/ Stop(c)
       PROVE  ResponsesSound(e)'
  <2>1. /\ UNCHANGED <<requests, wire>>
        /\ \A d \in Client \ {c} : Untouched(d)
        /\ status'[c] = "gone" \/ (status[c] = "new" /\ status'[c] = "connecting")
    BY <1>1, <1>11, StartSteps, StopSteps
  <2>2. CASE e = c
    <3>1. SameRequests(e)
      BY <1>1, <2>1, ClientTypes DEF SameRequests
    <3>2. Responded(e)' /\ WaitsForLast(e)' /\ InOrder(e)'
      BY <2>1, <2>2, <3>1, SameResponses
    <3> QED BY <2>1, <2>2, <3>2 DEF ResponsesSound, Quiet
  <2> QED BY <1>2, <2>1, <2>2
<1>12. ASSUME NEW c \in Client, NEW kind \in Kind, NEW required \in BOOLEAN,
              NEW from \in Nat, NEW after \in 0..(Wide - 1),
              Ask(c, kind, required, from, after)
       PROVE  ResponsesSound(e)'
  <2> DEFINE r == [kind |-> kind, required |-> required, from |-> from,
                   after |-> after, reply |-> Null, written |-> FALSE]
  <2>1. /\ Runs(c) /\ Asks(c, r)
        /\ UNCHANGED <<log, status, listeners, inbox, wire, notified>>
        /\ \A d \in Client \ {c} : Untouched(d)
    BY <1>1, <1>12, AskSteps
  <2>2. r \in Request
    BY DEF Request
  <2> HIDE DEF r
  <2>3. CASE e = c
    BY <2>1, <2>2, <2>3, AskResponds
  <2> QED BY <1>2, <2>1, <2>3
<1> QED BY <1>3, <1>4, <1>6, <1>7, <1>8, <1>9, <1>10, <1>11, <1>12, NextCases

Responding == IInv /\ Typed /\ \A c \in Client : ResponsesSound(c)

LEMMA InitResponding == Init => Responding
<1> SUFFICES ASSUME Init, NEW c \in Client PROVE ResponsesSound(c)
  BY InitInvariant, InitTyped DEF Responding
<1>1. wire[c] = <<>> /\ requests[c] = <<>>
  BY DEF Init
<1> QED BY <1>1 DEF ResponsesSound, Quiet, Responded, WaitsForLast, InOrder, Awaiting

LEMMA NextResponding == Responding /\ [Next]_vars => Responding'
<1> SUFFICES ASSUME Responding, [Next]_vars PROVE Responding'
  OBVIOUS
<1>1. IInv' /\ Typed'
  BY NextInvariant, NextTyped DEF Responding
<1>2. ASSUME NEW c \in Client PROVE ResponsesSound(c)'
  <2>1. CASE Next
    BY <2>1, ResponsesInvariant DEF Responding
  <2>2. CASE UNCHANGED vars
    BY <2>2, UntouchedResponses DEF vars, Responding
  <2> QED BY <2>1, <2>2
<1> QED BY <1>1, <1>2 DEF Responding

\* A response to a request that requires one goes out before any to a later
\* request of the same client, and no request is responded to twice (the
\* wait and spawn of Client::send_message and Client::get_history).
THEOREM RespondsInOrder == Spec => []ResponsesInOrder
<1>1. Responding => ResponsesInOrder
  BY DEF Responding, ResponsesSound, InOrder, Response, ResponsesInOrder
<1>2. Spec => []Responding
  BY InitResponding, NextResponding, PTL DEF Spec
<1> QED BY <1>1, <1>2, PTL

-----------------------------------------------------------------------------
(***************************************************************************)
(* Histories.                                                              *)
(***************************************************************************)
\* How many events the remote of request r is to get at most, and whether it
\* got fewer.
Wanted(r) == Least(r.after + 1, Limit)
IsShort(r) == (r.reply.last + 1) - r.reply.first < Wanted(r)
HasHistory(r) == r.reply # Null /\ r.reply.kind = "history"

\* A short history ends where what the client hears begins, or further on; if
\* it hears nothing yet, the history ends with the last message there is.
Meets(c, r) ==
    /\ r.kind = "history" => r.after \in After
    /\ HasHistory(r) =>
        /\ r.reply.first = r.from /\ r.reply.first <= r.reply.last
        /\ IsShort(r) /\ Heard(c) # {}
            => \E x \in Heard(c) : x <= r.reply.last + 1
        /\ IsShort(r) /\ Heard(c) = {} /\ status[c] \in {"accepted", "open"}
            => Len(log) = r.reply.last

HistoriesSound(c) == \A n \in DOMAIN requests[c] : Meets(c, requests[c][n])

LEMMA HistoryTypes ==
  ASSUME NEW r \in Request, HasHistory(r)
  PROVE  r.reply.first \in Nat /\ r.reply.last \in Nat
<1>1. r.reply \in Reply /\ r.reply.kind = "history"
  BY DEF Request, HasHistory
<1> QED BY <1>1 DEF Reply

\* What matters to a history is what the request says and what was replied.
LEMMA SameHistory ==
  ASSUME NEW c, NEW r, NEW s, s.kind = r.kind, s.after = r.after,
         s.from = r.from, s.reply = r.reply
  PROVE  /\ HasHistory(s) <=> HasHistory(r)
         /\ IsShort(s) <=> IsShort(r)
         /\ Meets(c, r) => Meets(c, s)
<1>1. /\ HasHistory(s) <=> HasHistory(r)
      /\ IsShort(s) <=> IsShort(r)
  BY DEF HasHistory, IsShort, Wanted
<1> QED BY <1>1 DEF Meets

\* A step that leaves what the client hears and its requests' histories alone.
LEMMA HistoriesStay ==
  ASSUME NEW c, Heard(c)' = Heard(c), log' = log, HistoriesSound(c),
         status'[c] = status[c] \/ (status[c] = "accepted" /\ status'[c] = "open"),
         DOMAIN requests'[c] = DOMAIN requests[c],
         \A k \in DOMAIN requests[c] :
            /\ requests'[c][k].kind = requests[c][k].kind
            /\ requests'[c][k].from = requests[c][k].from
            /\ requests'[c][k].after = requests[c][k].after
            /\ requests'[c][k].reply = requests[c][k].reply
  PROVE  HistoriesSound(c)'
<1> SUFFICES ASSUME NEW k \in DOMAIN requests[c],
                    NEW r, r = requests[c][k], NEW s, s = requests'[c][k]
             PROVE  Meets(c, s)'
  BY DEF HistoriesSound
<1>1. /\ s.kind = r.kind /\ s.from = r.from /\ s.after = r.after
      /\ s.reply = r.reply
  OBVIOUS
<1>2. Meets(c, r)
  BY DEF HistoriesSound
<1>3. /\ HasHistory(s) <=> HasHistory(r)
      /\ IsShort(s) <=> IsShort(r)
  BY <1>1, SameHistory
<1> QED BY <1>1, <1>2, <1>3 DEF Meets

LEMMA SmallModulo ==
  ASSUME NEW w \in Nat \ {0}, NEW x \in 0..(w - 1)
  PROVE  x % w = x
OBVIOUS

\* Handler<GetHistory>: unless adding the reference event to what was asked
\* for overflows.
LEMMA NewHistoryMeets ==
  ASSUME Wide - 1 \notin After, TypeOK, NEW c \in Client, Whole(c),
         NEW r \in Request, r.kind = "history", r.after \in After,
         r.from \in 1..Len(log), HasHistory(r), r.reply = AfterReference(r)
  PROVE  Meets(c, r)
<1> DEFINE last == Len(log)  w == Wanted(r)
<1>1. /\ last \in Nat /\ last >= 1 /\ r.from \in Nat /\ r.from >= 1 /\ r.from <= last
      /\ Heard(c) \subseteq 1..last
  BY ClientTypes DEF Whole
<1>2. r.after + 1 \in 0..(Wide - 1) /\ r.after + 1 \in Nat /\ r.after + 1 >= 1
      /\ Wide \in Nat \ {0} /\ Limit \in Nat /\ Limit >= 1
  <2>1. /\ Wide \in Nat \ {0} /\ Limit \in Nat \ {0}
        /\ r.after \in 0..(Wide - 1) /\ r.after # Wide - 1
    BY ConversationAssumption
  <2> DEFINE a == r.after
  <2>2. a \in 0..(Wide - 1) /\ a # Wide - 1
    BY <2>1
  <2> HIDE DEF a
  <2>3. a + 1 \in 0..(Wide - 1) /\ a + 1 \in Nat /\ a + 1 >= 1
    BY <2>1, <2>2
  <2> QED BY <2>1, <2>3 DEF a
<1>3. Least((r.after + 1) % Wide, Limit) = w
  BY <1>2, SmallModulo DEF Wanted
<1>4. w \in Nat /\ w >= 1
  BY <1>2 DEF Wanted, Least
<1> HIDE DEF w
<1>5. /\ r.reply.first = r.from
      /\ r.reply.last = Least(last, (r.from + w) - 1)
  BY <1>1, <1>3, AfterReferenceIs
<1>6. r.from <= r.reply.last
  BY <1>1, <1>4, <1>5 DEF Least
<1>7. ASSUME IsShort(r) PROVE r.reply.last = last
  <2>1. (r.reply.last + 1) - r.from < w
    BY <1>5, <1>7 DEF IsShort, w
  <2> QED BY <1>1, <1>4, <1>5, <2>1 DEF Least
<1>8. \A x \in Heard(c) : x <= last + 1
  BY <1>1
<1> QED BY <1>5, <1>6, <1>7, <1>8 DEF Meets

\* Handler<NewMessage>: the first message a client hears comes right after
\* the last one there was.
LEMMA RecordMeets ==
  ASSUME IInv, Typed, NEW c \in Client, NEW n, RecordMessage(c, n),
         NEW e \in Client, HeardSound(e), NEW r \in Request, Meets(e, r)
  PROVE  Meets(e, r)'
<1>1. TypeOK
  BY DEF Typed
<1>2. /\ UNCHANGED <<status, listeners>>
      /\ Len(log) \in Nat /\ Len(log') = Len(log) + 1
  BY RecordSteps
<1>3. Heard(e)' = IF e \in listeners /\ Alive(e)
                  THEN Heard(e) \cup {Len(log) + 1} ELSE Heard(e)
  BY <1>1, RecordHears DEF HeardSound, Whole
<1>4. status[e] \in {"accepted", "open"} => e \in listeners /\ Alive(e)
  BY DEF IInv, OpenIsListening, Alive
<1>5. e \in listeners /\ Alive(e) => status[e] \in {"accepted", "open"}
  BY <1>1, ClientTypes DEF HeardSound, Unheard, Alive, Status
<1>6. ASSUME HasHistory(r), IsShort(r), Heard(e)' # {}
      PROVE  \E x \in Heard(e)' : x <= r.reply.last + 1
  <2>1. CASE Heard(e) # {}
    <3>1. PICK x \in Heard(e) : x <= r.reply.last + 1
      BY <1>6, <2>1 DEF Meets
    <3> QED BY <1>3, <3>1
  <2>2. CASE Heard(e) = {}
    <3>1. e \in listeners /\ Alive(e) /\ Len(log) + 1 \in Heard(e)'
      BY <1>3, <1>6, <2>2
    <3>2. Len(log) = r.reply.last
      BY <1>5, <1>6, <2>2, <3>1 DEF Meets
    <3>3. Len(log) + 1 <= r.reply.last + 1
      BY <1>2, <3>2
    <3> QED BY <3>1, <3>3
  <2> QED BY <2>1, <2>2
<1>7. status[e] \in {"accepted", "open"} => Heard(e)' # {}
  BY <1>3, <1>4
<1>8. /\ HasHistory(r)' <=> HasHistory(r)
      /\ IsShort(r)' <=> IsShort(r)
  BY DEF HasHistory, IsShort, Wanted
<1> QED BY <1>2, <1>6, <1>7, <1>8 DEF Meets

LEMMA StopMeets ==
  ASSUME TypeOK, NEW c \in Client, Stop(c), Ordered(c), Whole(c),
         NEW r \in Request, Meets(c, r)
  PROVE  Meets(c, r)'
<1>1. /\ Heard(c)' \subseteq Heard(c)
      /\ \A x \in Heard(c), y \in Heard(c)' : x \in Heard(c)' \/ y < x
      /\ status'[c] = "gone" /\ Heard(c) \subseteq Nat
  BY StopHears, StopSteps, ClientTypes
<1>2. ASSUME HasHistory(r), IsShort(r), NEW y \in Heard(c)'
      PROVE  \E x \in Heard(c)' : x <= r.reply.last + 1
  <2>1. PICK x \in Heard(c) : x <= r.reply.last + 1
    BY <1>1, <1>2 DEF Meets
  <2>2. r.reply.last \in Nat /\ x \in Nat /\ y \in Nat
    BY <1>1, <1>2, HistoryTypes
  <2>3. CASE y < x
    BY <2>1, <2>2, <2>3
  <2> QED BY <1>1, <2>1, <2>3
<1> QED BY <1>1, <1>2 DEF Meets, HasHistory, IsShort, Wanted

LEMMA HistoriesInvariant ==
  ASSUME Wide - 1 \notin After, IInv, Typed, Next, NEW e \in Client,
         HeardSound(e), ResponsesSound(e), HistoriesSound(e)
  PROVE  HistoriesSound(e)'
<1>1. TypeOK
  BY DEF Typed
<1>2. ASSUME status'[e] = status[e], requests'[e] = requests[e],
             Heard(e)' = Heard(e), log' = log
      PROVE  HistoriesSound(e)'
  BY <1>2, HistoriesStay
<1>3. Untouched(e) /\ log' = log => HistoriesSound(e)'
  BY <1>2, UntouchedHears DEF Untouched
<1>4. ASSUME requests'[e] = requests[e], status[e] \in {"new", "connecting", "accepted"}
      PROVE  HistoriesSound(e)'
  <2>1. DOMAIN requests'[e] = {}
    BY <1>4 DEF ResponsesSound, Quiet
  <2> QED BY <2>1 DEF HistoriesSound
<1>5. CASE Connect
  <2>1. PICK c \in Client :
            /\ status[c] = "connecting" /\ log' = log
            /\ UNCHANGED <<inbox, requests>>
            /\ \A d \in Client \ {c} : Untouched(d)
    BY <1>1, <1>5, ConnectSteps
  <2> QED BY <1>3, <1>4, <2>1
<1>6. CASE Disconnect \/ DropFailed
  BY <1>3, <1>6, DropSteps
<1>7. ASSUME NEW c \in Client, NEW n, RecordMessage(c, n)
      PROVE  HistoriesSound(e)'
  <2> DEFINE reply == [kind |-> "received"]
  <2>1. /\ n \in DOMAIN requests[c] /\ requests[c][n] \in Request
        /\ Replaces(c, n, [requests[c][n] EXCEPT !.reply = reply])
    BY <1>7, RecordSteps
  <2>2. reply.kind # "history"
    OBVIOUS
  <2> HIDE DEF reply
  <2>3. /\ DOMAIN requests'[e] = DOMAIN requests[e]
        /\ \A k \in DOMAIN requests[e] :
              /\ requests'[e][k].kind = requests[e][k].kind
              /\ requests'[e][k].from = requests[e][k].from
              /\ requests'[e][k].after = requests[e][k].after
              /\ requests'[e][k].reply = IF e = c /\ k = n THEN reply
                                                           ELSE requests[e][k].reply
    <3>1. /\ SameRequests(e)
          /\ \A k \in DOMAIN requests[e] :
              /\ requests'[e][k].kind = requests[e][k].kind
              /\ requests'[e][k].from = requests[e][k].from
              /\ requests'[e][k].after = requests[e][k].after
              /\ requests'[e][k].reply = IF e = c /\ k = n THEN reply
                                                           ELSE requests[e][k].reply
      BY <2>1, ReplacedReply
    <3> QED BY <3>1 DEF SameRequests
  <2> SUFFICES ASSUME NEW k \in DOMAIN requests[e],
                      NEW r, r = requests[e][k], NEW s, s = requests'[e][k]
               PROVE  Meets(e, s)'
    BY <2>3 DEF HistoriesSound
  <2>4. r \in Request /\ Meets(e, r)
    BY <1>1, ClientTypes DEF HistoriesSound
  <2>5. Meets(e, r)'
    BY <1>7, <2>4, RecordMeets
  <2>6. CASE s.reply = r.reply
    BY <2>3, <2>5, <2>6, SameHistory DEF Meets, HasHistory, IsShort, Wanted
  <2>7. CASE s.reply = reply
    BY <2>2, <2>3, <2>5, <2>7 DEF Meets, HasHistory
  <2> QED BY <2>3, <2>6, <2>7
<1>8. ASSUME NEW c \in Client, NEW n,
             RejectMessage(c, n) \/ FailRequest(c, n) \/ GetHistory(c, n)
      PROVE  HistoriesSound(e)'
  <2>1. /\ n \in DOMAIN requests[c] /\ requests[c][n] \in Request
        /\ UNCHANGED <<log, status, listeners, inbox, wire, notified>>
    BY <1>8, ReplySteps
  <2>2. PICK reply \in Reply :
            /\ Replaces(c, n, [requests[c][n] EXCEPT !.reply = reply])
            /\ reply.kind = "history" =>
                    /\ requests[c][n].kind = "history"
                    /\ requests[c][n].from \in 1..Len(log)
                    /\ reply = AfterReference(requests[c][n])
    BY <1>8, ReplySteps
  <2>3. /\ requests'[e] \in Seq(Request) /\ DOMAIN requests'[e] = DOMAIN requests[e]
        /\ \A k \in DOMAIN requests[e] :
              /\ requests'[e][k].kind = requests[e][k].kind
              /\ requests'[e][k].from = requests[e][k].from
              /\ requests'[e][k].after = requests[e][k].after
              /\ requests'[e][k].reply = IF e = c /\ k = n THEN reply
                                                           ELSE requests[e][k].reply
    <3>1. /\ n \in DOMAIN requests[c] /\ requests[c][n] \in Request
          /\ Replaces(c, n, [requests[c][n] EXCEPT !.reply = reply])
      BY <2>1, <2>2
    <3>2. /\ SameRequests(e)
          /\ \A k \in DOMAIN requests[e] :
              /\ requests'[e][k].kind = requests[e][k].kind
              /\ requests'[e][k].from = requests[e][k].from
              /\ requests'[e][k].after = requests[e][k].after
              /\ requests'[e][k].reply = IF e = c /\ k = n THEN reply
                                                           ELSE requests[e][k].reply
      BY <3>1, ReplacedReply
    <3> QED BY <3>2 DEF SameRequests
  <2>4. Heard(e)' = Heard(e)
    BY <2>1 DEF Heard, Told, Waiting
  <2> SUFFICES ASSUME NEW k \in DOMAIN requests[e],
                      NEW r, r = requests[e][k], NEW s, s = requests'[e][k]
               PROVE  Meets(e, s)'
    BY <2>3 DEF HistoriesSound
  <2>5. r \in Request /\ Meets(e, r) /\ s \in Request
    BY <1>1, <2>3, ClientTypes DEF HistoriesSound
  <2>6. Meets(e, s)
    <3>1. CASE s.reply = r.reply
      BY <2>3, <2>5, <3>1, SameHistory
    <3>2. CASE e = c /\ k = n /\ s.reply = reply /\ reply.kind # "history"
      BY <2>3, <2>5, <3>2 DEF Meets, HasHistory
    <3>3. CASE e = c /\ k = n /\ s.reply = reply /\ reply.kind = "history"
      <4>1. /\ s.kind = "history" /\ s.after \in After /\ s.from \in 1..Len(log)
            /\ s.reply = AfterReference(r)
        BY <2>2, <2>3, <2>5, <3>3 DEF Meets
      <4>2. AfterReference(r) = AfterReference(s)
        BY <2>3 DEF AfterReference
      <4>3. HasHistory(s)
        BY <3>3, ConversationAssumption DEF HasHistory
      <4> QED BY <1>1, <2>5, <4>1, <4>2, <4>3, NewHistoryMeets DEF HeardSound
    <3> QED BY <2>3, <3>1, <3>2, <3>3
  <2> QED BY <2>1, <2>4, <2>6 DEF Meets, HasHistory, IsShort, Wanted
<1>9. ASSUME NEW c \in Client, NEW n, Answer(c, n)
      PROVE  HistoriesSound(e)'
  <2>1. /\ n \in DOMAIN requests[c] /\ requests[c][n] \in Request
        /\ Replaces(c, n, [requests[c][n] EXCEPT !.written = TRUE])
        /\ UNCHANGED <<log, status, listeners, inbox, notified>>
        /\ \A d \in Client \ {c} : Untouched(d)
    BY <1>1, <1>9, AnswerSteps
  <2>2. PICK kind \in {"reply", "close"} :
            wire'[c] = Append(wire[c], [kind |-> kind, number |-> n])
    BY <1>1, <1>9, AnswerSteps
  <2> DEFINE f == [kind |-> kind, number |-> n]
             r == [requests[c][n] EXCEPT !.written = TRUE]
  <2>3. n \in Nat
    BY <1>1, <2>1, ClientTypes
  <2>4. f \in Frame /\ f.kind # "message" /\ wire'[c] = Append(wire[c], f)
    BY <2>2, <2>3 DEF Frame
  <2>5. /\ r.kind = requests[c][n].kind /\ r.from = requests[c][n].from
        /\ r.after = requests[c][n].after /\ r.reply = requests[c][n].reply
    BY <2>1 DEF Request
  <2>6. /\ DOMAIN requests'[c] = DOMAIN requests[c]
        /\ \A k \in DOMAIN requests[c] :
              requests'[c][k] = IF k = n THEN r ELSE requests[c][k]
    BY <2>1 DEF Replaces
  <2> HIDE DEF f, r
  <2>7. CASE e = c
    <3>1. Heard(e)' = Heard(e)
      BY <1>1, <2>1, <2>4, <2>7, OtherFrame
    <3> QED BY <2>1, <2>5, <2>6, <2>7, <3>1, HistoriesStay
  <2>8. CASE e # c
    BY <1>3, <2>1, <2>8
  <2> QED BY <2>7, <2>8
<1>10. ASSUME NEW c \in Client, Greet(c) \/ Start(c)
       PROVE  HistoriesSound(e)'
  <2>1. /\ status[c] \in {"new", "accepted"} /\ UNCHANGED <<log, requests>>
        /\ \A d \in Client \ {c} : Untouched(d)
    BY <1>1, <1>10, GreetSteps, StartSteps
  <2> QED BY <1>3, <1>4, <2>1
<1>11. ASSUME NEW c \in Client, Forward(c)
       PROVE  HistoriesSound(e)'
  <2>1. /\ UNCHANGED <<log, status, requests>>
        /\ \A d \in Client \ {c} : Untouched(d)
    BY <1>1, <1>11, ForwardSteps
  <2>2. CASE e = c
    <3>1. Heard(e)' = Heard(e)
      BY <1>1, <1>11, <2>2, ForwardHears DEF HeardSound
    <3> QED BY <1>2, <2>1, <3>1
  <2> QED BY <1>3, <2>1, <2>2
<1>12. ASSUME NEW c \in Client, Stop(c)
       PROVE  HistoriesSound(e)'
  <2>1. /\ UNCHANGED <<log, requests>>
        /\ \A d \in Client \ {c} : Untouched(d)
    BY <1>1, <1>12, StopSteps
  <2>2. CASE e = c
    <3> SUFFICES ASSUME NEW k \in DOMAIN requests[e], NEW r, r = requests[e][k]
                 PROVE  Meets(e, r)'
      BY <2>1 DEF HistoriesSound
    <3>1. r \in Request /\ Meets(e, r)
      BY <1>1, ClientTypes DEF HistoriesSound
    <3> QED BY <1>1, <1>12, <2>2, <3>1, StopMeets DEF HeardSound
  <2> QED BY <1>3, <2>1, <2>2
<1>13. ASSUME NEW c \in Client, NEW kind \in Kind, NEW required \in BOOLEAN,
              NEW from \in Nat, NEW after \in 0..(Wide - 1),
              Ask(c, kind, required, from, after), kind = "history" => after \in After
       PROVE  HistoriesSound(e)'
  <2> DEFINE r == [kind |-> kind, required |-> required, from |-> from,
                   after |-> after, reply |-> Null, written |-> FALSE]
             p == Len(requests[c]) + 1
  <2>1. /\ Asks(c, r)
        /\ UNCHANGED <<log, status, listeners, inbox, wire, notified>>
        /\ \A d \in Client \ {c} : Untouched(d)
    BY <1>1, <1>13, AskSteps
  <2>2. Heard(e)' = Heard(e)
    BY <2>1 DEF Heard, Told, Waiting
  <2>3. CASE e = c
    <3>1. /\ DOMAIN requests'[e] = DOMAIN requests[e] \cup {p}
          /\ \A k \in DOMAIN requests[e] : requests'[e][k] = requests[e][k]
          /\ requests'[e][p] = r
      BY <2>1, <2>3 DEF Asks
    <3>2. ~HasHistory(r) /\ (r.kind = "history" => r.after \in After)
      BY <1>13 DEF HasHistory
    <3> HIDE DEF r, p
    <3>3. Meets(e, r)'
      BY <3>2 DEF Meets, HasHistory
    <3>4. ASSUME NEW k \in DOMAIN requests[e], NEW q, q = requests[e][k]
          PROVE  Meets(e, q)'
      <4>1. Meets(e, q)
        BY <3>4 DEF HistoriesSound
      <4> QED BY <2>1, <2>2, <4>1 DEF Meets, HasHistory, IsShort, Wanted
    <3> QED BY <3>1, <3>3, <3>4 DEF HistoriesSound
  <2> QED BY <1>3, <2>1, <2>3
<1> QED BY <1>5, <1>6, <1>7, <1>8, <1>9, <1>10, <1>11, <1>12, <1>13, NextCases

Meeting == Hearing /\ Responding /\ \A c \in Client : HistoriesSound(c)

LEMMA InitMeeting == Init => Meeting
<1> SUFFICES ASSUME Init, NEW c \in Client PROVE HistoriesSound(c)
  BY InitHearing, InitResponding DEF Meeting
<1>1. requests[c] = <<>>
  BY DEF Init
<1> QED BY <1>1 DEF HistoriesSound

LEMMA NextMeeting ==
  ASSUME Wide - 1 \notin After, Meeting, [Next]_vars
  PROVE  Meeting'
<1>1. Hearing' /\ Responding'
  BY NextHearing, NextResponding DEF Meeting
<1>2. ASSUME NEW c \in Client PROVE HistoriesSound(c)'
  <2>1. HeardSound(c) /\ ResponsesSound(c) /\ HistoriesSound(c) /\ IInv /\ Typed
    BY DEF Meeting, Hearing, Responding
  <2>2. CASE Next
    BY <2>1, <2>2, HistoriesInvariant
  <2>3. CASE UNCHANGED vars
    <3>1. Untouched(c) /\ log' = log
      BY <2>3 DEF vars, Untouched
    <3>2. Heard(c)' = Heard(c)
      BY <3>1, UntouchedHears
    <3> QED BY <2>1, <3>1, <3>2, HistoriesStay DEF Untouched
  <2> QED BY <2>2, <2>3
<1> QED BY <1>1, <1>2 DEF Meeting

\* A remote that asks for what it missed misses nothing: a history that holds
\* fewer events than were asked for reaches up to what the client is sent
\* live.  So it is as long as nobody asks for so many events that counting the
\* reference event in overflows (Handler<GetHistory>).
THEOREM HistoriesMeetLive ==
  ASSUME Wide - 1 \notin After
  PROVE  Spec => []HistoryMeetsLive
<1>1. Meeting => HistoryMeetsLive
  <2> SUFFICES ASSUME Meeting, NEW c \in Client, NEW n \in DOMAIN requests[c],
                      NEW r, r = requests[c][n], HasHistory(r), NEW d, d = Due(c)
               PROVE  /\ r.reply.first = r.from /\ r.reply.first <= r.reply.last
                      /\ IsShort(r) /\ Messages(d) # {}
                            => \E k \in Messages(d) : d[k].number <= r.reply.last + 1
    BY DEF HistoryMeetsLive, HasHistory, IsShort, Wanted
  <2>1. Meets(c, r)
    BY DEF Meeting, HistoriesSound
  <2>2. {d[k].number : k \in Messages(d)} = Heard(c)
    BY DueIs DEF Meeting, Hearing, Typed
  <2> QED BY <2>1, <2>2 DEF Meets
<1>2. Meeting /\ [Next]_vars => Meeting'
  BY NextMeeting
<1>3. Spec => []Meeting
  BY <1>2, InitMeeting, PTL DEF Spec
<1> QED BY <1>1, <1>3, PTL
=============================================================================
