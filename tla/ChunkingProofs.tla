----------------------------- MODULE ChunkingProofs -----------------------------
(***************************************************************************)
(* Theorems about parsing, for texts of any length: what normalisation       *)
(* leaves, that the search for a block finds it in its place, and that no    *)
(* word gets lost.                                                           *)
(***************************************************************************)
EXTENDS ClauseChunking, FiniteSetTheorems, SequenceTheorems, TLAPS

\* The provers are not told that "nl" is a string.
Words == STRING \cup Blank
Text == Seq(Words)

--------------------------------------------------------------------------------
(* Least and greatest numbers. *)

\* A set of natural numbers that is not empty has a least element.
LEMMA LeastNat ==
  ASSUME NEW S, S \subseteq Nat, S # {}
  PROVE  \E m \in S : \A n \in S : m <= n
<1> DEFINE R == OpToRel(<, Nat)
<1>1. IsWellFoundedOn(R, Nat)
  BY NatLessThanWellFounded
<1>2. \A x, y \in Nat : x < y => <<x, y>> \in R
  BY DEF OpToRel
<1> HIDE DEF R
<1>3. PICK m \in S : \A n \in S : ~(<<n, m>> \in R)
  BY <1>1, WFMin
<1>4. ASSUME NEW n \in S
      PROVE  m <= n
  <2>1. m \in Nat /\ n \in Nat
    OBVIOUS
  <2>2. ~(n < m)
    BY <1>2, <1>3, <2>1
  <2> QED BY <2>1, <2>2
<1> QED BY <1>4

\* Min is that element.
LEMMA MinOf ==
  ASSUME NEW S, S \subseteq Nat, S # {}
  PROVE  Min(S) \in S /\ \A n \in S : Min(S) <= n
<1>1. \E m \in S : \A n \in S : m =< n
  BY LeastNat
<1> QED BY <1>1 DEF Min

\* A set of places of a list that is not empty has a last one: Max.
LEMMA MaxOf ==
  ASSUME NEW n \in Nat, NEW S, S \subseteq 1..n, S # {}
  PROVE  Max(S) \in S /\ \A k \in S : k <= Max(S)
<1> DEFINE D == {n - k : k \in S}
<1>1. D \subseteq Nat /\ D # {}
  <2>1. ASSUME NEW k \in S
        PROVE  n - k \in Nat
    <3>1. k \in 1..n
      OBVIOUS
    <3> QED BY <3>1
  <2>2. PICK k \in S : TRUE
    OBVIOUS
  <2>3. n - k \in D
    OBVIOUS
  <2> QED BY <2>1, <2>3
<1>2. PICK d \in D : \A e \in D : d <= e
  BY <1>1, LeastNat
<1>3. PICK m \in S : d = n - m
  BY <1>2
<1>4. ASSUME NEW k \in S
      PROVE  m >= k
  <2>1. n - m <= n - k
    BY <1>2, <1>3
  <2>2. m \in Nat /\ k \in Nat
    OBVIOUS
  <2> QED BY <2>1, <2>2
<1>5. \E x \in S : \A y \in S : x >= y
  BY <1>4
<1>6. Max(S) \in S /\ \A y \in S : Max(S) >= y
  BY <1>5 DEF Max
<1>7. \A y \in S : y \in Int
  OBVIOUS
<1> QED BY <1>6, <1>7

--------------------------------------------------------------------------------
(* Numbers in order. *)

\* f lists the n numbers of S in order.
Lists(f, n, S) ==
  /\ n \in Nat /\ S \subseteq Nat
  /\ \A i \in 1..n : f[i] \in S
  /\ \A i, j \in 1..n : i < j => f[i] < f[j]
  /\ \A x \in S : \E i \in 1..n : f[i] = x

\* How many numbers of S are not beyond i.
Rank(S, i) == Cardinality({j \in S : j <= i})

LEMMA RankIsInjective ==
  ASSUME NEW S, S \subseteq Nat, IsFiniteSet(S), NEW i \in S, NEW k \in S
  PROVE  /\ Rank(S, i) \in 1..Cardinality(S)
         /\ i < k => Rank(S, i) # Rank(S, k)
<1> DEFINE Upto(x) == {j \in S : j <= x}
<1>1. ASSUME NEW x \in S
      PROVE  /\ Upto(x) \subseteq S /\ x \in Upto(x)
             /\ IsFiniteSet(Upto(x)) /\ Cardinality(Upto(x)) \in 1..Cardinality(S)
  <2>1. Upto(x) \in SUBSET S /\ x \in Upto(x)
    OBVIOUS
  <2>2. IsFiniteSet(Upto(x)) /\ Cardinality(Upto(x)) <= Cardinality(S)
    BY <2>1, FS_Subset
  <2>3. Cardinality(Upto(x)) \in Nat /\ Cardinality(S) \in Nat
    BY <2>2, FS_CardinalityType
  <2>4. Cardinality(Upto(x)) # 0
    BY <2>1, <2>2, FS_EmptySet
  <2> QED BY <2>1, <2>2, <2>3, <2>4
<1>2. ASSUME i < k
      PROVE  Cardinality(Upto(i)) # Cardinality(Upto(k))
  <2>1. Upto(i) \in SUBSET Upto(k) /\ k \notin Upto(i)
    <3>1. i \in Nat /\ k \in Nat /\ \A j \in S : j \in Nat
      OBVIOUS
    <3>2. \A j \in S : j <= i => j <= k
      BY <1>2, <3>1
    <3>3. ~(k <= i)
      BY <1>2, <3>1
    <3> QED BY <3>2, <3>3
  <2>2. Upto(i) # Upto(k)
    BY <1>1, <2>1
  <2> QED BY <1>1, <2>1, <2>2, FS_Subset
<1> QED BY <1>1, <1>2 DEF Rank

\* InOrder lists a finite set.
LEMMA InOrderLists ==
  ASSUME NEW S, S \subseteq Nat, IsFiniteSet(S)
  PROVE  /\ Lists(InOrder(S), Cardinality(S), S)
         /\ DOMAIN InOrder(S) = 1..Cardinality(S)
<1> DEFINE n == Cardinality(S)
           A == InOrder(S)
           rank == [i \in S |-> Rank(S, i)]
<1>1. n \in Nat
  BY FS_CardinalityType
<1>2. rank \in Injection(S, 1..n)
  <2>1. rank \in [S -> 1..n]
    BY RankIsInjective
  <2>2. ASSUME NEW a \in S, NEW b \in S, rank[a] = rank[b]
        PROVE  a = b
    <3>1. Rank(S, a) = Rank(S, b) /\ a \in Nat /\ b \in Nat
      BY <2>2
    <3>2. ~(a < b) /\ ~(b < a)
      BY <3>1, RankIsInjective
    <3> QED BY <3>1, <3>2
  <2> HIDE DEF rank
  <2> QED BY <2>1, <2>2 DEF Injection, IsInjective
<1>3. rank \in Surjection(S, 1..n)
  <2>1. IsFiniteSet(1..n) /\ Cardinality(1..n) = n
    BY <1>1, FS_Interval
  <2> HIDE DEF rank
  <2> QED BY <1>2, <2>1, FS_Injection
<1>4. \A m \in 1..n : A[m] \in S /\ Rank(S, A[m]) = m
  <2> SUFFICES ASSUME NEW m \in 1..n
               PROVE  A[m] \in S /\ Rank(S, A[m]) = m
    OBVIOUS
  <2>1. \E i \in S : rank[i] = m
    <3> HIDE DEF rank, n
    <3> QED BY <1>3 DEF Surjection
  <2>2. \E i \in S : Rank(S, i) = m
    BY <2>1
  <2>3. A[m] = CHOOSE i \in S : Rank(S, i) = m
    BY DEF InOrder, Rank
  <2> QED BY <2>2, <2>3
<1>5. DOMAIN A = 1..n
  BY DEF InOrder
<1> HIDE DEF A, n
<1>6. \A x \in S : A[Rank(S, x)] = x /\ Rank(S, x) \in 1..n
  <2> SUFFICES ASSUME NEW x \in S
               PROVE  A[Rank(S, x)] = x /\ Rank(S, x) \in 1..n
    OBVIOUS
  <2>1. Rank(S, x) \in 1..n
    BY RankIsInjective DEF n
  <2> DEFINE y == A[Rank(S, x)]
  <2>2. y \in S /\ Rank(S, y) = Rank(S, x)
    BY <1>4, <2>1
  <2> HIDE DEF y
  <2>3. ~(x < y) /\ ~(y < x) /\ x \in Nat /\ y \in Nat
    BY <2>2, RankIsInjective
  <2>4. x = y
    BY <2>3
  <2> QED BY <2>1, <2>4 DEF y
<1>7. ASSUME NEW i \in 1..n, NEW j \in 1..n, i < j
      PROVE  A[i] < A[j]
  <2> DEFINE a == A[i]
             b == A[j]
  <2>1. a \in S /\ b \in S /\ Rank(S, a) = i /\ Rank(S, b) = j /\ a \in Nat /\ b \in Nat
    BY <1>4
  <2> HIDE DEF a, b
  <2>2. a # b
    BY <1>7, <2>1
  <2>3. ASSUME b < a
        PROVE  FALSE
    <3>0. \A x \in S : x \in Nat
      OBVIOUS
    <3>1. {x \in S : x <= b} \in SUBSET {x \in S : x <= a}
      <4>1. \A x \in S : x <= b => x <= a
        BY <2>1, <2>3, <3>0
      <4> QED BY <4>1
    <3>2. IsFiniteSet({x \in S : x <= a})
      BY FS_Subset
    <3>3. Rank(S, b) <= Rank(S, a)
      BY <3>1, <3>2, FS_Subset DEF Rank
    <3> QED BY <1>7, <2>1, <3>3
  <2>4. a < b
    BY <2>1, <2>2, <2>3
  <2> QED BY <2>4 DEF a, b
<1> QED BY <1>1, <1>4, <1>5, <1>6, <1>7 DEF Lists, A, n

\* There is one way to list a set.
LEMMA ListedOnce ==
  ASSUME NEW S, NEW n, NEW f, Lists(f, n, S)
  PROVE  /\ IsFiniteSet(S) /\ Cardinality(S) = n
         /\ \A i \in 1..n : InOrder(S)[i] = f[i]
<1>1. n \in Nat /\ S \subseteq Nat
  BY DEF Lists
<1>2. ASSUME NEW m \in 0..n
      PROVE  /\ IsFiniteSet({f[i] : i \in 1..m}) /\ Cardinality({f[i] : i \in 1..m}) = m
  <2> DEFINE T == {f[i] : i \in 1..m}
             g == [i \in 1..m |-> f[i]]
  <2>1. g \in [1..m -> T] /\ \A t \in T : \E i \in 1..m : g[i] = t
    OBVIOUS
  <2>2. ASSUME NEW a \in 1..m, NEW b \in 1..m, g[a] = g[b]
        PROVE  a = b
    <3>1. a \in 1..n /\ b \in 1..n /\ f[a] = f[b]
      <4>1. 1..m \subseteq 1..n /\ g[a] = f[a] /\ g[b] = f[b]
        BY <1>1
      <4> QED BY <2>2, <4>1
    <3>2. f[a] \in Nat /\ f[b] \in Nat /\ (a < b => f[a] < f[b]) /\ (b < a => f[b] < f[a])
      BY <1>1, <3>1 DEF Lists
    <3> QED BY <1>1, <3>1, <3>2
  <2> HIDE DEF g
  <2>3. g \in Bijection(1..m, T)
    BY <2>1, <2>2 DEF Bijection, Injection, IsInjective, Surjection
  <2> HIDE DEF T
  <2>4. ExistsBijection(1..m, T) /\ m \in Nat
    BY <2>3 DEF ExistsBijection
  <2>5. IsFiniteSet(T)
    BY <2>4, FS_NatBijection
  <2>6. Cardinality(T) = m
    BY <2>4, FS_CountingElements
  <2> QED BY <2>5, <2>6 DEF T
<1>3. {f[i] : i \in 1..n} = S
  BY DEF Lists
<1>4. IsFiniteSet(S) /\ Cardinality(S) = n
  <2>1. n \in 0..n
    BY <1>1
  <2> QED BY <1>2, <1>3, <2>1
<1>5. ASSUME NEW m \in 1..n
      PROVE  InOrder(S)[m] = f[m]
  <2>1. {j \in S : j <= f[m]} = {f[i] : i \in 1..m}
    <3>1. ASSUME NEW i \in 1..n
          PROVE  f[i] <= f[m] <=> i \in 1..m
      <4>1. f[i] \in Nat /\ f[m] \in Nat
        BY <1>1 DEF Lists
      <4>2. i < m => f[i] < f[m]
        BY DEF Lists
      <4>3. m < i => f[m] < f[i]
        BY DEF Lists
      <4> QED BY <4>1, <4>2, <4>3
    <3>2. 1..m \subseteq 1..n
      BY <1>1
    <3> QED BY <1>3, <3>1, <3>2
  <2>2. Rank(S, f[m]) = m
    <3>1. m \in 0..n
      OBVIOUS
    <3> QED BY <1>2, <2>1, <3>1 DEF Rank
  <2>3. f[m] \in S
    BY DEF Lists
  <2>4. InOrder(S)[m] = CHOOSE i \in S : Rank(S, i) = m
    BY <1>4 DEF InOrder, Rank
  <2>5. ASSUME NEW i \in S, Rank(S, i) = m
        PROVE  i = f[m]
    <3>1. ~(i < f[m]) /\ ~(f[m] < i)
      <4>1. Rank(S, i) = Rank(S, f[m])
        BY <2>2, <2>5
      <4> QED BY <1>1, <1>4, <2>3, <4>1, RankIsInjective
    <3>2. i \in Nat /\ f[m] \in Nat
      BY <1>1, <2>3
    <3> QED BY <3>1, <3>2
  <2> QED BY <2>2, <2>3, <2>4, <2>5
<1> QED BY <1>4, <1>5

--------------------------------------------------------------------------------
(* The words of a text. *)

LEMMA TextFacts ==
  ASSUME NEW t \in Text
  PROVE  /\ Len(t) \in Nat /\ DOMAIN t = 1..Len(t)
         /\ \A i \in 1..Len(t) : t[i] \in Words
BY LenProperties, ElementOfSeq DEF Text

\* A part of a text, by its places.
LEMMA KeepFacts ==
  ASSUME NEW t \in Text, NEW P, P \subseteq 1..Len(t)
  PROVE  /\ Keep(t, P) \in Text
         /\ IsFiniteSet(P) /\ Len(Keep(t, P)) = Cardinality(P)
         /\ Lists(InOrder(P), Cardinality(P), P)
         /\ \A i \in 1..Cardinality(P) : Keep(t, P)[i] = t[InOrder(P)[i]]
<1> DEFINE n == Cardinality(P)
<1>1. Len(t) \in Nat
  BY TextFacts
<1>2. IsFiniteSet(P)
  <2>1. IsFiniteSet(1..Len(t))
    BY <1>1, FS_Interval
  <2> QED BY <2>1, FS_Subset
<1>3. Lists(InOrder(P), n, P)
  <2>1. P \subseteq Nat
    BY <1>1
  <2> QED BY <1>2, <2>1, InOrderLists
<1>4. n \in Nat
  BY <1>3 DEF Lists
<1>5. \A i \in 1..n : t[InOrder(P)[i]] \in Words
  <2>1. \A i \in 1..n : InOrder(P)[i] \in P
    BY <1>3 DEF Lists
  <2> QED BY <2>1, TextFacts
<1>6. Keep(t, P) = [i \in 1..n |-> t[InOrder(P)[i]]]
  BY DEF Keep
<1> HIDE DEF n
<1>7. Keep(t, P) \in [1..n -> Words]
  BY <1>5, <1>6
<1>8. Keep(t, P) \in Seq(Words) /\ Len(Keep(t, P)) = n
  BY <1>4, <1>7
<1> QED BY <1>2, <1>3, <1>6, <1>8 DEF Text, n

\* The places where a text has words.
LEMMA InkFacts ==
  ASSUME NEW t \in Text
  PROVE  /\ Ink(t) \subseteq 1..Len(t)
         /\ \A i \in 1..Len(t) : i \in Ink(t) <=> t[i] \notin Blank
         /\ InkOf(t) \in Text
         /\ Len(InkOf(t)) = Cardinality(Ink(t))
         /\ Lists(InOrder(Ink(t)), Cardinality(Ink(t)), Ink(t))
         /\ \A i \in 1..Cardinality(Ink(t)) : InkOf(t)[i] = t[InOrder(Ink(t))[i]]
<1>1. DOMAIN t = 1..Len(t)
  BY TextFacts
<1>2. /\ Ink(t) \subseteq 1..Len(t)
      /\ \A i \in 1..Len(t) : i \in Ink(t) <=> t[i] \notin Blank
  BY <1>1 DEF Ink
<1> QED BY <1>2, KeepFacts DEF InkOf

\* u is t without some of its blanks, and with other blanks for others: f says where its
\* elements were.
Embeds(f, u, t) ==
  /\ \A i \in 1..Len(u) : /\ f[i] \in 1..Len(t)
                          /\ u[i] \in Blank <=> t[f[i]] \in Blank
                          /\ u[i] \notin Blank => u[i] = t[f[i]]
  /\ \A i, j \in 1..Len(u) : i < j => f[i] < f[j]
  /\ \A p \in Ink(t) : \E i \in 1..Len(u) : f[i] = p

\* It has the same words, then.
LEMMA SameInk ==
  ASSUME NEW t \in Text, NEW u \in Text, NEW f, Embeds(f, u, t)
  PROVE  InkOf(u) = InkOf(t)
<1>0. /\ \A i \in 1..Len(u) : /\ f[i] \in 1..Len(t)
                              /\ i \in Ink(u) <=> f[i] \in Ink(t)
                              /\ i \in Ink(u) => u[i] = t[f[i]]
      /\ \A i, j \in 1..Len(u) : i < j => f[i] < f[j]
      /\ \A p \in Ink(t) : \E i \in 1..Len(u) : f[i] = p
  <2>1. ASSUME NEW i \in 1..Len(u)
        PROVE  /\ f[i] \in 1..Len(t)
               /\ i \in Ink(u) <=> f[i] \in Ink(t)
               /\ i \in Ink(u) => u[i] = t[f[i]]
    <3>1. /\ f[i] \in 1..Len(t)
          /\ u[i] \in Blank <=> t[f[i]] \in Blank
          /\ u[i] \notin Blank => u[i] = t[f[i]]
      BY DEF Embeds
    <3>2. i \in Ink(u) <=> u[i] \notin Blank
      BY InkFacts
    <3>3. f[i] \in Ink(t) <=> t[f[i]] \notin Blank
      BY <3>1, InkFacts
    <3> QED BY <3>1, <3>2, <3>3
  <2> QED BY <2>1 DEF Embeds
<1> DEFINE m == Cardinality(Ink(u))
           B == InOrder(Ink(u))
           g == [i \in 1..m |-> f[B[i]]]
<1>1. Lists(B, m, Ink(u)) /\ Ink(u) \subseteq 1..Len(u)
  BY InkFacts
<1> HIDE DEF B, m
<1>2. m \in Nat /\ \A i \in 1..m : B[i] \in Ink(u) /\ B[i] \in 1..Len(u)
  BY <1>1 DEF Lists
<1>3. Lists(g, m, Ink(t))
  <2>1. Ink(t) \subseteq Nat
    BY InkFacts, TextFacts
  <2>2. ASSUME NEW i \in 1..m
        PROVE  g[i] \in Ink(t)
    <3>1. g[i] = f[B[i]] /\ B[i] \in 1..Len(u) /\ B[i] \in Ink(u)
      BY <1>2
    <3> QED BY <1>0, <3>1
  <2>3. ASSUME NEW i \in 1..m, NEW j \in 1..m, i < j
        PROVE  g[i] < g[j]
    <3>1. B[i] < B[j]
      BY <1>1, <2>3 DEF Lists
    <3> QED BY <1>0, <1>2, <3>1
  <2>4. ASSUME NEW p \in Ink(t)
        PROVE  \E i \in 1..m : g[i] = p
    <3>1. PICK k \in 1..Len(u) : f[k] = p
      BY <1>0
    <3>2. k \in Ink(u)
      BY <1>0, <3>1
    <3>3. PICK i \in 1..m : B[i] = k
      BY <1>1, <3>2 DEF Lists
    <3> QED BY <3>1, <3>3
  <2> HIDE DEF g
  <2> QED BY <1>2, <2>1, <2>2, <2>3, <2>4 DEF Lists
<1>4. Cardinality(Ink(t)) = m /\ \A i \in 1..m : InOrder(Ink(t))[i] = g[i]
  <2> HIDE DEF g
  <2> QED BY <1>3, ListedOnce
<1>5. \A i \in 1..m : u[B[i]] = t[g[i]]
  BY <1>0, <1>2
<1>6. Len(InkOf(u)) = m /\ Len(InkOf(t)) = m /\ InkOf(u) \in Text /\ InkOf(t) \in Text
  BY <1>4, InkFacts DEF m
<1>7. \A i \in 1..m : InkOf(u)[i] = u[B[i]] /\ InkOf(t)[i] = t[g[i]]
  BY <1>4, InkFacts DEF m, B
<1> HIDE DEF g
<1>8. \A i \in 1..Len(InkOf(u)) : InkOf(u)[i] = InkOf(t)[i]
  BY <1>5, <1>6, <1>7
<1> QED BY <1>6, <1>8, SeqEqual DEF Text

\* Dropping blanks keeps the words.
LEMMA InkOfKeep ==
  ASSUME NEW t \in Text, NEW P, Ink(t) \subseteq P, P \subseteq 1..Len(t)
  PROVE  InkOf(Keep(t, P)) = InkOf(t)
<1> DEFINE u == Keep(t, P)
           A == InOrder(P)
<1>1. /\ u \in Text /\ Len(u) = Cardinality(P)
      /\ Lists(A, Cardinality(P), P)
      /\ \A i \in 1..Len(u) : u[i] = t[A[i]]
  <2>1. u \in Text /\ Len(u) = Cardinality(P) /\ Lists(A, Cardinality(P), P)
    BY KeepFacts
  <2>2. \A i \in 1..Cardinality(P) : u[i] = t[A[i]]
    BY KeepFacts
  <2> QED BY <2>1, <2>2
<1> HIDE DEF u, A
<1>2. /\ \A i \in 1..Len(u) : A[i] \in P
      /\ \A i, j \in 1..Len(u) : i < j => A[i] < A[j]
      /\ \A p \in P : \E i \in 1..Len(u) : A[i] = p
  BY <1>1 DEF Lists
<1>3. Embeds(A, u, t)
  BY <1>1, <1>2 DEF Embeds
<1>4. InkOf(u) = InkOf(t)
  BY <1>1, <1>3, SameInk
<1> QED BY <1>4 DEF u

\* A stretch of a text.
LEMMA SubSeqFacts ==
  ASSUME NEW t \in Text, NEW a \in Nat \ {0}, NEW b \in 0..Len(t), a <= b + 1
  PROVE  /\ SubSeq(t, a, b) \in Text
         /\ Len(SubSeq(t, a, b)) = b - a + 1
         /\ \A i \in 1..(b - a + 1) : SubSeq(t, a, b)[i] = t[a + i - 1]
<1>1. Len(t) \in Nat /\ \A i \in a..b : t[i] \in Words
  BY TextFacts
<1>2. /\ SubSeq(t, a, b) \in Seq(Words)
      /\ Len(SubSeq(t, a, b)) = IF a <= b THEN b - a + 1 ELSE 0
      /\ \A i \in 1..(b - a + 1) : SubSeq(t, a, b)[i] = t[a + i - 1]
  BY <1>1, SubSeqProperties
<1>3. (IF a <= b THEN b - a + 1 ELSE 0) = b - a + 1
  BY <1>1
<1> QED BY <1>2, <1>3 DEF Text

LEMMA InkOfSubSeq ==
  ASSUME NEW t \in Text, NEW a \in Nat \ {0}, NEW b \in 0..Len(t), a <= b + 1,
         Ink(t) \subseteq a..b
  PROVE  InkOf(SubSeq(t, a, b)) = InkOf(t)
<1> DEFINE u == SubSeq(t, a, b)
           f == [i \in 1..Len(u) |-> a + i - 1]
<1>1. u \in Text /\ Len(u) = b - a + 1 /\ \A i \in 1..Len(u) : u[i] = t[a + i - 1]
  BY SubSeqFacts
<1>2. Len(t) \in Nat
  BY TextFacts
<1> HIDE DEF u
<1>3. \A i \in 1..Len(u) : f[i] \in 1..Len(t) /\ u[i] = t[f[i]]
  BY <1>1, <1>2
<1>4. \A i, j \in 1..Len(u) : i < j => f[i] < f[j]
  BY <1>1
<1>5. ASSUME NEW p \in Ink(t)
      PROVE  \E i \in 1..Len(u) : f[i] = p
  <2>1. p \in a..b /\ p - a + 1 \in 1..Len(u)
    BY <1>1
  <2>2. f[p - a + 1] = p
    BY <2>1
  <2> QED BY <2>1, <2>2
<1> HIDE DEF f
<1>6. Embeds(f, u, t)
  BY <1>3, <1>4, <1>5 DEF Embeds
<1>7. InkOf(u) = InkOf(t)
  BY <1>1, <1>6, SameInk
<1> QED BY <1>7 DEF u

\* A text without words.
LEMMA NoInk ==
  ASSUME NEW t \in Text
  PROVE  InkOf(t) = <<>> <=> Ink(t) = {}
<1>1. InkOf(t) \in Seq(Words) /\ Len(InkOf(t)) = Cardinality(Ink(t))
  BY InkFacts DEF Text
<1>2. IsFiniteSet(Ink(t))
  BY InkFacts, KeepFacts
<1>3. Cardinality(Ink(t)) = 0 <=> Ink(t) = {}
  BY <1>2, FS_EmptySet
<1>4. InkOf(t) = <<>> <=> Len(InkOf(t)) = 0
  BY <1>1, EmptySeq
<1> QED BY <1>1, <1>3, <1>4

--------------------------------------------------------------------------------
(* Normalisation. *)

\* b is the number after a in P.
Adjacent(P, a, b) == a \in P /\ b \in P /\ a < b /\ \A p \in (a + 1)..(b - 1) : p \notin P

\* What comes next in a part of a text came next there, but for what was left out.
LEMMA Neighbours ==
  ASSUME NEW t \in Text, NEW P, P \subseteq 1..Len(t)
  PROVE  /\ \A i \in 1..Len(Keep(t, P)) :
              InOrder(P)[i] \in P /\ Keep(t, P)[i] = t[InOrder(P)[i]]
         /\ \A i \in 1..(Len(Keep(t, P)) - 1) :
              Adjacent(P, InOrder(P)[i], InOrder(P)[i + 1])
<1> DEFINE A == InOrder(P)
           n == Cardinality(P)
<1>1. Lists(A, n, P) /\ Len(Keep(t, P)) = n /\ \A j \in 1..n : Keep(t, P)[j] = t[A[j]]
  BY KeepFacts
<1> HIDE DEF A, n
<1>2. n \in Nat /\ \A i \in 1..n : A[i] \in P /\ A[i] \in Nat
  BY <1>1 DEF Lists
<1>3. ASSUME NEW i \in 1..(n - 1)
      PROVE  Adjacent(P, A[i], A[i + 1])
  <2>1. i \in 1..n /\ i + 1 \in 1..n /\ i < i + 1
    BY <1>2
  <2>2. A[i] \in P /\ A[i + 1] \in P /\ A[i] < A[i + 1]
    BY <1>1, <2>1 DEF Lists
  <2>3. ASSUME NEW p \in (A[i] + 1)..(A[i + 1] - 1), p \in P
        PROVE  FALSE
    <3>1. PICK j \in 1..n : A[j] = p
      BY <1>1, <2>3 DEF Lists
    <3>2. A[i] \in Nat /\ A[j] \in Nat /\ A[i + 1] \in Nat
      BY <1>2, <2>1
    <3>3. A[i] < A[j] /\ A[j] < A[i + 1]
      BY <3>1, <3>2
    <3>4. j = i \/ j = i + 1 \/ j < i \/ i + 1 < j
      BY <2>1
    <3>5. /\ j < i => A[j] < A[i]
          /\ i + 1 < j => A[i + 1] < A[j]
      BY <1>1, <2>1 DEF Lists
    <3> QED BY <3>2, <3>3, <3>4, <3>5
  <2> QED BY <2>2, <2>3 DEF Adjacent
<1> QED BY <1>1, <1>2, <1>3 DEF A

\* A text is all of its places.
LEMMA KeepAll ==
  ASSUME NEW t \in Text
  PROVE  Keep(t, 1..Len(t)) = t
<1> DEFINE f == [i \in 1..Len(t) |-> i]
           P == 1..Len(t)
<1>1. Len(t) \in Nat
  BY TextFacts
<1>2. Lists(f, Len(t), P)
  BY <1>1 DEF Lists
<1>3. Cardinality(P) = Len(t) /\ \A i \in 1..Len(t) : InOrder(P)[i] = f[i]
  <2> HIDE DEF f, P
  <2> QED BY <1>2, ListedOnce
<1>4. Keep(t, P) \in Text /\ Len(Keep(t, P)) = Len(t)
  BY <1>3, KeepFacts
<1>5. ASSUME NEW i \in 1..Len(t)
      PROVE  Keep(t, P)[i] = t[i]
  <2>1. Keep(t, P)[i] = t[InOrder(P)[i]]
    <3> HIDE DEF P
    <3> QED BY <1>3, KeepFacts DEF P
  <2> QED BY <1>3, <2>1
<1> HIDE DEF P
<1>6. Keep(t, P) = t
  BY <1>4, <1>5, SeqEqual DEF Text
<1> QED BY <1>6 DEF P

NoReturn(t) == \A i \in 1..Len(t) : t[i] # "cr"
SingleSpaces(t) == \A i \in 1..(Len(t) - 1) : ~(t[i] = "sp" /\ t[i + 1] = "sp")
FewNewlines(t) ==
  \A i \in 1..(Len(t) - 2) : ~(t[i] = "nl" /\ t[i + 1] = "nl" /\ t[i + 2] = "nl")
Trimmed(t) == Len(t) > 0 => t[1] \notin Blank /\ t[Len(t)] \notin Blank

LEMMA UnixText ==
  ASSUME NEW t \in Text
  PROVE  UnixLines(t) \in Text /\ InkOf(UnixLines(t)) = InkOf(t) /\ NoReturn(UnixLines(t))
<1> DEFINE P == {i \in DOMAIN t : ~(t[i] = "cr" /\ i < Len(t) /\ t[i + 1] = "nl")}
           k == Keep(t, P)
           u == [i \in DOMAIN k |-> IF k[i] = "cr" THEN "nl" ELSE k[i]]
<1>1. P \subseteq 1..Len(t) /\ Ink(t) \subseteq P
  BY TextFacts, InkFacts DEF Blank
<1> HIDE DEF P
<1>2. k \in Text /\ InkOf(k) = InkOf(t)
  BY <1>1, KeepFacts, InkOfKeep
<1> HIDE DEF k
<1>3. Len(k) \in Nat /\ DOMAIN k = 1..Len(k) /\ \A i \in 1..Len(k) : k[i] \in Words
  BY <1>2, TextFacts
<1>4. u \in [1..Len(k) -> Words]
  <2>1. ASSUME NEW i \in 1..Len(k)
        PROVE  (IF k[i] = "cr" THEN "nl" ELSE k[i]) \in Words
    <3>1. "nl" \in Words
      BY DEF Words, Blank
    <3>2. k[i] \in Words
      BY <1>3
    <3> QED BY <3>1, <3>2
  <2> QED BY <1>3, <2>1
<1>5. u \in Text /\ Len(u) = Len(k)
  <2> HIDE DEF u
  <2> QED BY <1>3, <1>4 DEF Text
<1>6. \A i \in 1..Len(k) : u[i] = IF k[i] = "cr" THEN "nl" ELSE k[i]
  BY <1>3
<1>7. UnixLines(t) = u
  BY DEF UnixLines, P, k
<1> HIDE DEF u
<1>8. NoReturn(u)
  BY <1>5, <1>6 DEF NoReturn
<1>9. InkOf(u) = InkOf(k)
  <2> DEFINE f == [i \in 1..Len(k) |-> i]
  <2>1. \A i \in 1..Len(k) : f[i] = i
    OBVIOUS
  <2>2. \A p \in Ink(k) : p \in 1..Len(k)
    BY <1>2, InkFacts
  <2> HIDE DEF f
  <2>3. Embeds(f, u, k)
    BY <1>5, <1>6, <2>1, <2>2 DEF Embeds, Blank
  <2> QED BY <1>2, <1>5, <2>3, SameInk
<1> QED BY <1>2, <1>5, <1>7, <1>8, <1>9

LEMMA OneSpaceText ==
  ASSUME NEW t \in Text, NoReturn(t)
  PROVE  /\ OneSpace(t) \in Text /\ InkOf(OneSpace(t)) = InkOf(t)
         /\ NoReturn(OneSpace(t)) /\ SingleSpaces(OneSpace(t))
<1> DEFINE P == {i \in DOMAIN t : ~(i > 1 /\ t[i] = "sp" /\ t[i - 1] = "sp")}
           u == Keep(t, P)
<1>1. P \subseteq 1..Len(t) /\ Ink(t) \subseteq P
  BY TextFacts, InkFacts DEF Blank
<1>2. \A p \in 1..Len(t) : p \notin P => p > 1 /\ t[p] = "sp" /\ t[p - 1] = "sp"
  BY TextFacts
<1>3. \A p \in P : ~(p > 1 /\ t[p] = "sp" /\ t[p - 1] = "sp")
  OBVIOUS
<1>4. OneSpace(t) = u
  BY DEF OneSpace
<1> HIDE DEF P
<1>5. u \in Text /\ InkOf(u) = InkOf(t)
  BY <1>1, KeepFacts, InkOfKeep
<1>6. NoReturn(u)
  <2> SUFFICES ASSUME NEW i \in 1..Len(u)
               PROVE  u[i] # "cr"
    BY DEF NoReturn
  <2>1. InOrder(P)[i] \in P /\ u[i] = t[InOrder(P)[i]]
    BY <1>1, Neighbours
  <2> QED BY <1>1, <2>1 DEF NoReturn
<1>7. SingleSpaces(u)
  <2> SUFFICES ASSUME NEW i \in 1..(Len(u) - 1), u[i] = "sp", u[i + 1] = "sp"
               PROVE  FALSE
    BY DEF SingleSpaces
  <2>1. i \in 1..Len(u) /\ i + 1 \in 1..Len(u)
    BY <1>5, TextFacts
  <2> DEFINE a == InOrder(P)[i]
             b == InOrder(P)[i + 1]
  <2>2. Adjacent(P, a, b) /\ t[a] = "sp" /\ t[b] = "sp"
    BY <1>1, <2>1, Neighbours
  <2> HIDE DEF a, b
  <2> USE DEF Adjacent
  <2>3. a \in 1..Len(t) /\ b \in 1..Len(t) /\ Len(t) \in Nat
    BY <1>1, <2>2, TextFacts
  <2>4. t[b - 1] # "sp"
    BY <1>3, <2>2, <2>3
  <2>5. b - 1 # a
    BY <2>2, <2>4
  <2>6. b - 1 \in (a + 1)..(b - 1) /\ b - 1 \in 1..Len(t)
    BY <2>2, <2>3, <2>5
  <2> QED BY <1>2, <2>2, <2>4, <2>6
<1> QED BY <1>4, <1>5, <1>6, <1>7

LEMMA TwoNewlinesText ==
  ASSUME NEW t \in Text, NoReturn(t), SingleSpaces(t)
  PROVE  /\ TwoNewlines(t) \in Text /\ InkOf(TwoNewlines(t)) = InkOf(t)
         /\ NoReturn(TwoNewlines(t)) /\ SingleSpaces(TwoNewlines(t))
         /\ FewNewlines(TwoNewlines(t))
<1> DEFINE P == {i \in DOMAIN t : ~(i > 2 /\ \A j \in (i - 2)..i : t[j] = "nl")}
           u == Keep(t, P)
<1>1. P \subseteq 1..Len(t) /\ Ink(t) \subseteq P
  <2>1. \A i \in 1..Len(t) : i > 2 /\ (\A j \in (i - 2)..i : t[j] = "nl") => t[i] \in Blank
    BY DEF Blank
  <2> QED BY <2>1, TextFacts, InkFacts
<1>2. ASSUME NEW p \in 1..Len(t), p \notin P
      PROVE  p > 2 /\ t[p] = "nl" /\ t[p - 1] = "nl" /\ t[p - 2] = "nl"
  <2>1. p > 2 /\ \A j \in (p - 2)..p : t[j] = "nl"
    BY <1>2, TextFacts
  <2>2. p \in (p - 2)..p /\ p - 1 \in (p - 2)..p /\ p - 2 \in (p - 2)..p
    OBVIOUS
  <2> QED BY <2>1, <2>2
<1>3. ASSUME NEW p \in P, p > 2, t[p] = "nl", t[p - 1] = "nl", t[p - 2] = "nl"
      PROVE  FALSE
  <2>1. p \in 1..Len(t)
    BY <1>1
  <2>2. \A j \in (p - 2)..p : j = p \/ j = p - 1 \/ j = p - 2
    BY <2>1
  <2> QED BY <1>3, <2>2
<1>4. TwoNewlines(t) = u
  BY DEF TwoNewlines
<1> HIDE DEF P
<1>5. u \in Text /\ InkOf(u) = InkOf(t)
  BY <1>1, KeepFacts, InkOfKeep
<1>6. NoReturn(u)
  <2> SUFFICES ASSUME NEW i \in 1..Len(u)
               PROVE  u[i] # "cr"
    BY DEF NoReturn
  <2>1. InOrder(P)[i] \in P /\ u[i] = t[InOrder(P)[i]]
    BY <1>1, Neighbours
  <2> QED BY <1>1, <2>1 DEF NoReturn
<1>7. SingleSpaces(u)
  <2> SUFFICES ASSUME NEW i \in 1..(Len(u) - 1), u[i] = "sp", u[i + 1] = "sp"
               PROVE  FALSE
    BY DEF SingleSpaces
  <2>1. i \in 1..Len(u) /\ i + 1 \in 1..Len(u)
    BY <1>5, TextFacts
  <2> DEFINE a == InOrder(P)[i]
             b == InOrder(P)[i + 1]
  <2>2. Adjacent(P, a, b) /\ t[a] = "sp" /\ t[b] = "sp"
    BY <1>1, <2>1, Neighbours
  <2> HIDE DEF a, b
  <2> USE DEF Adjacent
  <2>3. a \in 1..Len(t) /\ b \in 1..Len(t) /\ Len(t) \in Nat
    BY <1>1, <2>2, TextFacts
  <2>4. b # a + 1
    <3>1. a \in 1..(Len(t) - 1)
      BY <2>2, <2>3
    <3> QED BY <2>2, <3>1 DEF SingleSpaces
  <2>5. a + 1 \in (a + 1)..(b - 1) /\ a + 1 \in 1..Len(t) /\ (a + 1) - 1 = a
    BY <2>2, <2>3, <2>4
  <2>6. t[(a + 1) - 1] = "nl"
    BY <1>2, <2>2, <2>5
  <2> QED BY <2>2, <2>5, <2>6
<1>8. FewNewlines(u)
  <2> SUFFICES ASSUME NEW i \in 1..(Len(u) - 2),
                      u[i] = "nl", u[i + 1] = "nl", u[i + 2] = "nl"
               PROVE  FALSE
    BY DEF FewNewlines
  <2>1. i \in 1..Len(u) /\ i + 1 \in 1..Len(u) /\ i + 2 \in 1..Len(u)
    BY <1>5, TextFacts
  <2>2. i \in 1..(Len(u) - 1) /\ i + 1 \in 1..(Len(u) - 1) /\ (i + 1) + 1 = i + 2
    BY <1>5, <2>1, TextFacts
  <2> DEFINE a == InOrder(P)[i]
             b == InOrder(P)[i + 1]
             c == InOrder(P)[i + 2]
  <2>3. Adjacent(P, a, b) /\ Adjacent(P, b, c)
    BY <1>1, <2>2, Neighbours
  <2>4. t[a] = "nl" /\ t[b] = "nl" /\ t[c] = "nl"
    BY <1>1, <2>1, Neighbours
  <2> HIDE DEF a, b, c
  <2> USE DEF Adjacent
  <2>5. a \in 1..Len(t) /\ b \in 1..Len(t) /\ c \in 1..Len(t) /\ Len(t) \in Nat
    BY <1>1, <2>3, TextFacts
  <2>6. c > 2 /\ c - 1 \in 1..Len(t) /\ b - 1 \in 1..Len(t)
    BY <2>3, <2>5
  <2>7. b = c - 1
    <3> SUFFICES ASSUME b # c - 1
                 PROVE  FALSE
      OBVIOUS
    <3>1. c - 1 \in (b + 1)..(c - 1)
      BY <2>3, <2>5
    <3>2. c - 1 \notin P
      BY <2>3, <3>1
    <3>3. t[c - 1] = "nl" /\ t[(c - 1) - 1] = "nl" /\ (c - 1) - 1 = c - 2
      BY <1>2, <2>5, <2>6, <3>2
    <3> QED BY <1>3, <2>3, <2>4, <2>6, <3>3
  <2>8. t[b - 1] = "nl"
    <3>1. CASE a = b - 1
      BY <2>4, <3>1
    <3>2. CASE a # b - 1
      <4>1. b - 1 \in (a + 1)..(b - 1)
        BY <2>3, <2>5, <3>2
      <4> QED BY <1>2, <2>3, <2>6, <4>1
    <3> QED BY <3>1, <3>2
  <2>9. t[c - 1] = "nl" /\ t[c - 2] = "nl"
    BY <2>4, <2>5, <2>7, <2>8
  <2> QED BY <1>3, <2>3, <2>4, <2>6, <2>9
<1> QED BY <1>4, <1>5, <1>6, <1>7, <1>8

\* What str.strip leaves of a text that has words.
LEMMA StripSpan ==
  ASSUME NEW t \in Text, Ink(t) # {}
  PROVE  \E a, b \in Ink(t) : Ink(t) \subseteq a..b /\ Strip(t) = SubSeq(t, a, b)
<1> DEFINE a == Min(Ink(t))
           b == Max(Ink(t))
<1>1. Ink(t) \subseteq 1..Len(t) /\ Len(t) \in Nat
  BY InkFacts, TextFacts
<1>2. a \in Ink(t) /\ \A i \in Ink(t) : a <= i
  BY <1>1, MinOf
<1>3. b \in Ink(t) /\ \A i \in Ink(t) : i <= b
  BY <1>1, MaxOf
<1>4. Strip(t) = SubSeq(t, a, b)
  BY DEF Strip
<1> HIDE DEF a, b
<1>5. Ink(t) \subseteq a..b
  BY <1>1, <1>2, <1>3
<1> QED BY <1>2, <1>3, <1>4, <1>5

LEMMA StripText ==
  ASSUME NEW t \in Text
  PROVE  /\ Strip(t) \in Text /\ InkOf(Strip(t)) = InkOf(t) /\ Trimmed(Strip(t))
         /\ Strip(t) = <<>> <=> Ink(t) = {}
         /\ NoReturn(t) => NoReturn(Strip(t))
         /\ SingleSpaces(t) => SingleSpaces(Strip(t))
         /\ FewNewlines(t) => FewNewlines(Strip(t))
<1>1. CASE Ink(t) = {}
  <2>1. Strip(t) = <<>>
    BY <1>1 DEF Strip
  <2>2. <<>> \in Text /\ Len(<<>>) = 0
    BY EmptySeq DEF Text
  <2>3. Ink(<<>>) = {}
    BY DEF Ink
  <2>4. InkOf(<<>>) = <<>> /\ InkOf(t) = <<>>
    BY <1>1, <2>2, <2>3, NoInk
  <2> QED BY <1>1, <2>1, <2>2, <2>4 DEF Trimmed, NoReturn, SingleSpaces, FewNewlines
<1>2. CASE Ink(t) # {}
  <2>1. PICK a \in Ink(t), b \in Ink(t) : Ink(t) \subseteq a..b /\ Strip(t) = SubSeq(t, a, b)
    BY <1>2, StripSpan
  <2> DEFINE u == SubSeq(t, a, b)
  <2>2. Len(t) \in Nat /\ a \in 1..Len(t) /\ b \in 1..Len(t) /\ a <= b
    BY <2>1, InkFacts, TextFacts
  <2>3. t[a] \notin Blank /\ t[b] \notin Blank
    BY <2>2, InkFacts
  <2>4. a \in Nat \ {0} /\ b \in 0..Len(t) /\ a <= b + 1
    BY <2>2
  <2>5. u \in Text /\ Len(u) = b - a + 1 /\ \A i \in 1..(b - a + 1) : u[i] = t[a + i - 1]
    BY <2>4, SubSeqFacts
  <2>6. InkOf(u) = InkOf(t)
    BY <2>1, <2>4, InkOfSubSeq
  <2> HIDE DEF u
  <2>7. Len(u) > 0 /\ u[1] = t[a] /\ u[Len(u)] = t[b]
    <3>1. 1 \in 1..(b - a + 1) /\ b - a + 1 \in 1..(b - a + 1)
      BY <2>2
    <3>2. a + 1 - 1 = a /\ a + (b - a + 1) - 1 = b
      BY <2>2
    <3> QED BY <2>2, <2>5, <3>1, <3>2
  <2>8. u # <<>>
    BY <2>7
  <2>9. NoReturn(t) => NoReturn(u)
    <3>1. \A i \in 1..Len(u) : a + i - 1 \in 1..Len(t) /\ u[i] = t[a + i - 1]
      BY <2>2, <2>5
    <3> QED BY <3>1 DEF NoReturn
  <2>10. SingleSpaces(t) => SingleSpaces(u)
    <3>1. \A i \in 1..(Len(u) - 1) : /\ a + i - 1 \in 1..(Len(t) - 1)
                                     /\ u[i] = t[a + i - 1] /\ u[i + 1] = t[(a + i - 1) + 1]
      BY <2>2, <2>5
    <3> QED BY <3>1 DEF SingleSpaces
  <2>11. FewNewlines(t) => FewNewlines(u)
    <3>1. \A i \in 1..(Len(u) - 2) : /\ a + i - 1 \in 1..(Len(t) - 2)
                                     /\ u[i] = t[a + i - 1] /\ u[i + 1] = t[(a + i - 1) + 1]
                                     /\ u[i + 2] = t[(a + i - 1) + 2]
      BY <2>2, <2>5
    <3> QED BY <3>1 DEF FewNewlines
  <2> QED BY <1>2, <2>1, <2>3, <2>5, <2>6, <2>7, <2>8, <2>9, <2>10, <2>11 DEF Trimmed, u
<1> QED BY <1>1, <1>2

Tidy(t) == NoReturn(t) /\ SingleSpaces(t) /\ FewNewlines(t) /\ Trimmed(t)

\* Normalisation tidies a text up and keeps its words.
LEMMA NormalizeText ==
  ASSUME NEW t \in Text
  PROVE  Normalize(t) \in Text /\ InkOf(Normalize(t)) = InkOf(t) /\ Tidy(Normalize(t))
<1> DEFINE u == UnixLines(t)
           v == OneSpace(u)
           w == TwoNewlines(v)
<1>1. u \in Text /\ InkOf(u) = InkOf(t) /\ NoReturn(u)
  BY UnixText
<1> HIDE DEF u
<1>2. v \in Text /\ InkOf(v) = InkOf(u) /\ NoReturn(v) /\ SingleSpaces(v)
  BY <1>1, OneSpaceText
<1> HIDE DEF v
<1>3. /\ w \in Text /\ InkOf(w) = InkOf(v)
      /\ NoReturn(w) /\ SingleSpaces(w) /\ FewNewlines(w)
  BY <1>2, TwoNewlinesText
<1>4. Normalize(t) = Strip(w)
  BY DEF Normalize, u, v
<1> HIDE DEF w
<1> QED BY <1>1, <1>2, <1>3, <1>4, StripText DEF Tidy

\* A tidy text is what normalisation makes of it.
LEMMA NormalizeAgain ==
  ASSUME NEW t \in Text, Tidy(t)
  PROVE  Normalize(t) = t
<1>1. Len(t) \in Nat /\ DOMAIN t = 1..Len(t)
  BY TextFacts
<1>2. UnixLines(t) = t
  <2>1. {i \in DOMAIN t : ~(t[i] = "cr" /\ i < Len(t) /\ t[i + 1] = "nl")} = 1..Len(t)
    BY <1>1 DEF Tidy, NoReturn
  <2>2. UnixLines(t) = [i \in DOMAIN t |-> IF t[i] = "cr" THEN "nl" ELSE t[i]]
    BY <2>1, KeepAll DEF UnixLines
  <2>3. \A i \in DOMAIN t : t[i] # "cr"
    BY <1>1 DEF Tidy, NoReturn
  <2>4. t = [i \in DOMAIN t |-> t[i]]
    BY DEF Text
  <2>5. [i \in DOMAIN t |-> IF t[i] = "cr" THEN "nl" ELSE t[i]] = [i \in DOMAIN t |-> t[i]]
    BY <2>3
  <2> QED BY <2>2, <2>4, <2>5
<1>3. OneSpace(t) = t
  <2>1. \A i \in 1..Len(t) : ~(i > 1 /\ t[i] = "sp" /\ t[i - 1] = "sp")
    <3> SUFFICES ASSUME NEW i \in 1..Len(t), i > 1, t[i] = "sp", t[i - 1] = "sp"
                 PROVE  FALSE
      OBVIOUS
    <3>1. i - 1 \in 1..(Len(t) - 1) /\ (i - 1) + 1 = i
      BY <1>1
    <3> QED BY <3>1 DEF Tidy, SingleSpaces
  <2>2. {i \in DOMAIN t : ~(i > 1 /\ t[i] = "sp" /\ t[i - 1] = "sp")} = 1..Len(t)
    BY <1>1, <2>1
  <2> QED BY <2>2, KeepAll DEF OneSpace
<1>4. TwoNewlines(t) = t
  <2>1. \A i \in 1..Len(t) : ~(i > 2 /\ \A j \in (i - 2)..i : t[j] = "nl")
    <3> SUFFICES ASSUME NEW i \in 1..Len(t), i > 2, \A j \in (i - 2)..i : t[j] = "nl"
                 PROVE  FALSE
      OBVIOUS
    <3>1. /\ i - 2 \in 1..(Len(t) - 2)
          /\ i - 2 \in (i - 2)..i /\ (i - 2) + 1 \in (i - 2)..i /\ (i - 2) + 2 \in (i - 2)..i
      BY <1>1
    <3>2. t[i - 2] = "nl" /\ t[(i - 2) + 1] = "nl" /\ t[(i - 2) + 2] = "nl"
      BY <3>1
    <3> QED BY <3>1, <3>2 DEF Tidy, FewNewlines
  <2>2. {i \in DOMAIN t : ~(i > 2 /\ \A j \in (i - 2)..i : t[j] = "nl")} = 1..Len(t)
    BY <1>1, <2>1
  <2> QED BY <2>2, KeepAll DEF TwoNewlines
<1>5. Strip(t) = t
  <2>1. CASE Len(t) = 0
    <3>1. t = <<>>
      BY <2>1, EmptySeq DEF Text
    <3>2. Ink(<<>>) = {}
      BY DEF Ink
    <3> QED BY <3>1, <3>2 DEF Strip
  <2>2. CASE Len(t) # 0
    <3>1. 1 \in Ink(t) /\ Len(t) \in Ink(t) /\ Ink(t) \subseteq 1..Len(t)
      BY <1>1, <2>2, InkFacts DEF Tidy, Trimmed
    <3>2. PICK a \in Ink(t), b \in Ink(t) : Ink(t) \subseteq a..b /\ Strip(t) = SubSeq(t, a, b)
      BY <3>1, StripSpan
    <3>3. a = 1 /\ b = Len(t)
      <4>1. a \in 1..Len(t) /\ b \in 1..Len(t) /\ 1 \in a..b /\ Len(t) \in a..b
        BY <3>1, <3>2
      <4>2. /\ a \in Int /\ b \in Int /\ Len(t) \in Int /\ a <= 1 /\ 1 <= a
            /\ b <= Len(t) /\ Len(t) <= b
        BY <1>1, <4>1
      <4>3. a = 1
        BY <4>2
      <4>4. \A x, y \in Int : x <= y /\ y <= x => x = y
        OBVIOUS
      <4>5. b = Len(t)
        BY <4>2, <4>4
      <4> QED BY <4>3, <4>5
    <3>4. SubSeq(t, 1, Len(t)) = t
      BY SubSeqFull DEF Text
    <3> QED BY <3>2, <3>3, <3>4
  <2> QED BY <2>1, <2>2
<1> QED BY <1>2, <1>3, <1>4, <1>5 DEF Normalize

\* So the text the node keeps and the text the clauses are made of, normalised once more, are
\* one.
THEOREM NormalizeTwice ==
  ASSUME NEW t \in Text
  PROVE  Normalize(Normalize(t)) = Normalize(t)
BY NormalizeText, NormalizeAgain

--------------------------------------------------------------------------------
(* Texts one after the other. *)

\* The words of two texts.
LEMMA InkOfConcat ==
  ASSUME NEW s \in Text, NEW t \in Text
  PROVE  s \o t \in Text /\ InkOf(s \o t) = InkOf(s) \o InkOf(t)
<1> DEFINE u == s \o t
           k == Len(s)
           m == Cardinality(Ink(s))
           n == Cardinality(Ink(t))
           A == InOrder(Ink(s))
           B == InOrder(Ink(t))
           C == [i \in 1..(m + n) |-> IF i <= m THEN A[i] ELSE B[i - m] + k]
<1>1. /\ u \in Text /\ Len(u) = k + Len(t)
      /\ \A i \in 1..(k + Len(t)) : u[i] = IF i <= k THEN s[i] ELSE t[i - k]
  BY ConcatProperties DEF Text
<1>2. k \in Nat /\ Len(t) \in Nat
  BY TextFacts
<1>3. Lists(A, m, Ink(s)) /\ Lists(B, n, Ink(t))
  BY InkFacts
<1>4. /\ InkOf(s) \in Text /\ Len(InkOf(s)) = m /\ \A i \in 1..m : InkOf(s)[i] = s[A[i]]
      /\ InkOf(t) \in Text /\ Len(InkOf(t)) = n /\ \A i \in 1..n : InkOf(t)[i] = t[B[i]]
  BY InkFacts
<1> HIDE DEF u, k, m, n, A, B
<1>5. m \in Nat /\ n \in Nat
  BY <1>3 DEF Lists
<1>6. /\ \A i \in 1..m : A[i] \in Ink(s) /\ A[i] \in 1..k
      /\ \A i \in 1..n : B[i] \in Ink(t) /\ B[i] \in 1..Len(t)
  BY <1>3, InkFacts DEF Lists, k
<1>7. /\ \A i \in 1..m : C[i] = A[i]
      /\ \A i \in (m + 1)..(m + n) : C[i] = B[i - m] + k /\ i - m \in 1..n
      /\ \A i \in 1..(m + n) : i \in 1..m \/ i \in (m + 1)..(m + n)
  BY <1>5
<1>8. /\ \A i \in 1..k : i \in Ink(u) <=> i \in Ink(s)
      /\ \A i \in 1..Len(t) : i + k \in Ink(u) <=> i \in Ink(t)
      /\ Ink(u) \subseteq 1..(k + Len(t))
  <2>1. ASSUME NEW i \in 1..k
        PROVE  i \in Ink(u) <=> i \in Ink(s)
    <3>1. i \in 1..(k + Len(t)) /\ u[i] = s[i]
      BY <1>1, <1>2
    <3> QED BY <1>1, <3>1, InkFacts DEF k
  <2>2. ASSUME NEW i \in 1..Len(t)
        PROVE  i + k \in Ink(u) <=> i \in Ink(t)
    <3>1. i + k \in 1..(k + Len(t)) /\ u[i + k] = t[i]
      BY <1>1, <1>2
    <3> QED BY <1>1, <3>1, InkFacts
  <2>3. Ink(u) \subseteq 1..(k + Len(t))
    BY <1>1, InkFacts
  <2> QED BY <2>1, <2>2, <2>3
<1> HIDE DEF C
<1>9. Lists(C, m + n, Ink(u))
  <2>1. m + n \in Nat /\ Ink(u) \subseteq Nat
    BY <1>2, <1>5, <1>8
  <2>2. ASSUME NEW i \in 1..(m + n)
        PROVE  C[i] \in Ink(u)
    <3>1. CASE i \in 1..m
      BY <1>6, <1>7, <1>8, <3>1
    <3>2. CASE i \in (m + 1)..(m + n)
      BY <1>6, <1>7, <1>8, <3>2
    <3> QED BY <1>7, <3>1, <3>2
  <2>3. ASSUME NEW i \in 1..(m + n), NEW j \in 1..(m + n), i < j
        PROVE  C[i] < C[j]
    <3>1. CASE j \in 1..m
      <4>1. i \in 1..m
        BY <1>5, <2>3, <3>1
      <4> QED BY <1>3, <1>7, <2>3, <3>1, <4>1 DEF Lists
    <3>2. CASE i \in 1..m /\ j \in (m + 1)..(m + n)
      <4>1. C[i] \in 1..k /\ C[j] = B[j - m] + k /\ B[j - m] \in 1..Len(t)
        BY <1>6, <1>7, <3>2
      <4> QED BY <1>2, <4>1
    <3>3. CASE i \in (m + 1)..(m + n)
      <4>1. j \in (m + 1)..(m + n) /\ i - m < j - m
        BY <1>5, <2>3, <3>3
      <4>2. /\ C[i] = B[i - m] + k /\ i - m \in 1..n
            /\ C[j] = B[j - m] + k /\ j - m \in 1..n
        BY <1>7, <3>3, <4>1
      <4>3. B[i - m] < B[j - m]
        BY <1>3, <4>1, <4>2 DEF Lists
      <4>4. B[i - m] \in Nat /\ B[j - m] \in Nat
        BY <1>6, <4>2
      <4> QED BY <1>2, <4>2, <4>3, <4>4
    <3> QED BY <1>7, <3>1, <3>2, <3>3
  <2>4. ASSUME NEW p \in Ink(u)
        PROVE  \E i \in 1..(m + n) : C[i] = p
    <3>1. CASE p \in 1..k
      <4>1. p \in Ink(s)
        BY <1>8, <3>1
      <4>2. PICK i \in 1..m : A[i] = p
        BY <1>3, <4>1 DEF Lists
      <4>3. i \in 1..(m + n) /\ C[i] = p
        BY <1>5, <1>7, <4>2
      <4> QED BY <4>3
    <3>2. CASE p \notin 1..k
      <4>1. p - k \in 1..Len(t) /\ (p - k) + k = p
        BY <1>2, <1>8, <3>2
      <4>2. p - k \in Ink(t)
        BY <1>8, <4>1
      <4>3. PICK i \in 1..n : B[i] = p - k
        BY <1>3, <4>2 DEF Lists
      <4>4. i + m \in (m + 1)..(m + n) /\ (i + m) - m = i
        BY <1>5
      <4>5. C[i + m] = p
        BY <1>7, <4>1, <4>3, <4>4
      <4>6. i + m \in 1..(m + n)
        BY <1>5
      <4> QED BY <4>5, <4>6
    <3> QED BY <3>1, <3>2
  <2> QED BY <2>1, <2>2, <2>3, <2>4 DEF Lists
<1>10. Cardinality(Ink(u)) = m + n /\ \A i \in 1..(m + n) : InOrder(Ink(u))[i] = C[i]
  BY <1>9, ListedOnce
<1> DEFINE v == InkOf(s) \o InkOf(t)
<1>11. /\ v \in Text /\ Len(v) = m + n
       /\ \A i \in 1..(m + n) : v[i] = IF i <= m THEN InkOf(s)[i] ELSE InkOf(t)[i - m]
  BY <1>4, ConcatProperties DEF Text
<1>12. InkOf(u) \in Text /\ Len(InkOf(u)) = m + n
  BY <1>1, <1>10, InkFacts
<1>13. \A i \in 1..(m + n) : InkOf(u)[i] = u[C[i]]
  BY <1>1, <1>10, InkFacts
<1> HIDE DEF v
<1>14. ASSUME NEW i \in 1..(m + n)
       PROVE  InkOf(u)[i] = v[i]
  <2>1. CASE i \in 1..m
    <3>1. C[i] = A[i] /\ A[i] \in 1..k /\ A[i] \in 1..(k + Len(t))
      BY <1>2, <1>6, <1>7, <2>1
    <3>2. u[A[i]] = s[A[i]]
      BY <1>1, <3>1
    <3>3. v[i] = s[A[i]]
      BY <1>4, <1>11, <2>1
    <3> QED BY <1>13, <3>1, <3>2, <3>3
  <2>2. CASE i \in (m + 1)..(m + n)
    <3>1. C[i] = B[i - m] + k /\ i - m \in 1..n /\ ~(i <= m)
      BY <1>5, <1>7, <2>2
    <3>2. B[i - m] \in 1..Len(t)
      BY <1>6, <3>1
    <3>3. B[i - m] + k \in 1..(k + Len(t)) /\ ~(B[i - m] + k <= k) /\ (B[i - m] + k) - k = B[i - m]
      BY <1>2, <3>2
    <3>4. u[B[i - m] + k] = t[B[i - m]]
      BY <1>1, <3>3
    <3>5. v[i] = t[B[i - m]]
      BY <1>4, <1>11, <3>1
    <3> QED BY <1>13, <3>1, <3>4, <3>5
  <2> QED BY <1>7, <2>1, <2>2
<1>15. InkOf(u) = v
  BY <1>11, <1>12, <1>14, SeqEqual DEF Text
<1> QED BY <1>1, <1>15 DEF u, v

\* The function FlattenSeq's definition goes through.
IsFlattening(f, s, n) == f = [i \in 1..n |-> IF i = 1 THEN s[i] ELSE f[i - 1] \o s[i]]

LEMMA FlatteningExists ==
  ASSUME NEW s, NEW n \in Nat
  PROVE  \E f : IsFlattening(f, s, n)
<1> DEFINE Missing == {k \in 0..n : ~\E f : IsFlattening(f, s, k)}
<1>1. SUFFICES ASSUME Missing # {}
               PROVE  FALSE
  OBVIOUS
<1>2. PICK m \in Missing : \A k \in Missing : m <= k
  <2>1. Missing \subseteq Nat
    OBVIOUS
  <2> HIDE DEF Missing
  <2> QED BY <1>1, <2>1, LeastNat
<1>3. CASE m = 0
  <2> DEFINE f == [i \in 1..0 |-> IF i = 1 THEN s[i] ELSE s[i]]
  <2>1. 1..0 = {}
    OBVIOUS
  <2>2. IsFlattening(f, s, 0)
    BY <2>1 DEF IsFlattening
  <2> QED BY <1>3, <2>2
<1>4. CASE m # 0
  <2>1. m - 1 \in 0..n /\ m - 1 \notin Missing /\ m \in Nat \ {0}
    BY <1>2, <1>4
  <2>2. PICK f : IsFlattening(f, s, m - 1)
    BY <2>1
  <2> DEFINE g == [i \in 1..m |-> IF i = 1 THEN s[i] ELSE f[i - 1] \o s[i]]
             h == [i \in 1..m |-> IF i = 1 THEN s[i] ELSE g[i - 1] \o s[i]]
  <2>3. ASSUME NEW i \in 1..m, i # 1
        PROVE  g[i - 1] = f[i - 1]
    <3>1. i - 1 \in 1..m /\ i - 1 \in 1..(m - 1)
      BY <2>1, <2>3
    <3>2. f[i - 1] = IF i - 1 = 1 THEN s[i - 1] ELSE f[(i - 1) - 1] \o s[i - 1]
      BY <2>2, <3>1 DEF IsFlattening
    <3> QED BY <3>1, <3>2
  <2>4. \A i \in 1..m : g[i] = h[i]
    BY <2>3
  <2>5. g = h
    BY <2>4
  <2>6. IsFlattening(g, s, m)
    BY <2>5 DEF IsFlattening
  <2> QED BY <2>6
<1> QED BY <1>3, <1>4

\* Flattening a list puts one element behind the other.
LEMMA Flattening ==
  ASSUME NEW s, NEW n \in Nat \ {0}, Len(s) = n
  PROVE  \E f : /\ f[1] = s[1] /\ FlattenSeq(s) = f[n]
                /\ \A i \in 2..n : f[i] = f[i - 1] \o s[i]
<1> DEFINE f == CHOOSE f : IsFlattening(f, s, n)
<1>1. IsFlattening(f, s, n)
  BY FlatteningExists
<1>2. FlattenSeq(s) = f[n]
  BY DEF FlattenSeq, IsFlattening
<1> HIDE DEF f
<1>3. f[1] = s[1] /\ \A i \in 2..n : f[i] = f[i - 1] \o s[i]
  <2>1. 1 \in 1..n /\ \A i \in 2..n : i \in 1..n /\ i # 1
    OBVIOUS
  <2> QED BY <1>1, <2>1 DEF IsFlattening
<1> QED BY <1>2, <1>3

\* The words of a list of texts are its texts' words.
LEMMA InkOfFlattening ==
  ASSUME NEW s \in Seq(Text)
  PROVE  /\ FlattenSeq(s) \in Text
         /\ InkOf(FlattenSeq(s)) = FlattenSeq([i \in DOMAIN s |-> InkOf(s[i])])
<1> DEFINE n == Len(s)
           inks == [i \in DOMAIN s |-> InkOf(s[i])]
<1>1. n \in Nat /\ DOMAIN s = 1..n /\ \A i \in 1..n : s[i] \in Text
  BY LenProperties, ElementOfSeq
<1>2. \A i \in 1..n : inks[i] = InkOf(s[i]) /\ inks[i] \in Text
  BY <1>1, InkFacts
<1>3. inks \in Seq(Text) /\ Len(inks) = n
  <2>1. inks \in [1..n -> Text]
    BY <1>1, <1>2
  <2> HIDE DEF inks, n
  <2> QED BY <1>1, <2>1
<1> HIDE DEF inks
<1>4. CASE n = 0
  <2>1. s = <<>> /\ inks = <<>>
    BY <1>3, <1>4, EmptySeq
  <2>2. FlattenSeq(<<>>) = <<>>
    BY DEF FlattenSeq
  <2>3. <<>> \in Text
    BY EmptySeq DEF Text
  <2>4. Ink(<<>>) = {}
    BY DEF Ink
  <2>5. InkOf(<<>>) = <<>>
    BY <2>3, <2>4, NoInk
  <2> QED BY <2>1, <2>2, <2>3, <2>5 DEF inks
<1>5. CASE n # 0
  <2>1. n \in Nat \ {0}
    BY <1>1, <1>5
  <2>2. PICK f : f[1] = s[1] /\ FlattenSeq(s) = f[n] /\ \A i \in 2..n : f[i] = f[i - 1] \o s[i]
    BY <2>1, Flattening
  <2>3. PICK g : /\ g[1] = inks[1] /\ FlattenSeq(inks) = g[n]
                 /\ \A i \in 2..n : g[i] = g[i - 1] \o inks[i]
    <3> HIDE DEF n
    <3> QED BY <1>3, <2>1, Flattening
  <2> DEFINE Good(i) == f[i] \in Text /\ InkOf(f[i]) = g[i]
             Wrong == {i \in 1..n : ~Good(i)}
  <2>4. Wrong = {}
    <3>1. SUFFICES ASSUME Wrong # {}
                   PROVE  FALSE
      OBVIOUS
    <3>2. Wrong \subseteq Nat
      OBVIOUS
    <3>3. PICK i \in Wrong : \A j \in Wrong : i <= j
      <4> HIDE DEF Wrong
      <4> QED BY <3>1, <3>2, LeastNat
    <3>4. i \in 1..n /\ ~Good(i)
      OBVIOUS
    <3>5. CASE i = 1
      BY <1>2, <2>2, <2>3, <3>4, <3>5
    <3>6. CASE i # 1
      <4>1. i \in 2..n /\ i - 1 \in 1..n /\ ~(i <= i - 1)
        BY <3>4, <3>6
      <4>2. i - 1 \notin Wrong
        BY <3>3, <4>1
      <4>3. f[i - 1] \in Text /\ InkOf(f[i - 1]) = g[i - 1]
        BY <4>1, <4>2
      <4>4. f[i] = f[i - 1] \o s[i] /\ g[i] = g[i - 1] \o InkOf(s[i]) /\ s[i] \in Text
        BY <1>1, <1>2, <2>2, <2>3, <3>4, <4>1
      <4>5. f[i] \in Text /\ InkOf(f[i]) = InkOf(f[i - 1]) \o InkOf(s[i])
        BY <4>3, <4>4, InkOfConcat
      <4> QED BY <3>4, <4>3, <4>4, <4>5
    <3> QED BY <3>5, <3>6
  <2>5. n \in 1..n
    BY <2>1
  <2>6. Good(n)
    BY <2>4, <2>5
  <2> QED BY <2>2, <2>3, <2>6 DEF inks
<1> QED BY <1>4, <1>5

\* Joining the parts of a document keeps their words.
LEMMA JoinedInk ==
  ASSUME NEW parts \in Seq(Text)
  PROVE  /\ JoinParts(parts) \in Text
         /\ InkOf(JoinParts(parts)) = InkOf(FlattenSeq(parts))
<1> DEFINE n == Len(parts)
           First(i) == Strip(parts[i]) = <<>> \/ \A j \in 1..(i - 1) : Strip(parts[j]) = <<>>
           joined == [i \in DOMAIN parts |->
                        IF First(i) THEN Strip(parts[i])
                        ELSE <<"nl", "nl">> \o Strip(parts[i])]
<1>1. n \in Nat /\ DOMAIN parts = 1..n /\ \A i \in 1..n : parts[i] \in Text
  BY LenProperties, ElementOfSeq
<1>2. <<"nl", "nl">> \in Text /\ InkOf(<<"nl", "nl">>) = <<>>
  <2> DEFINE gap == <<"nl", "nl">>
  <2>1. gap \in Text /\ Len(gap) = 2 /\ gap[1] = "nl" /\ gap[2] = "nl"
    <3>1. "nl" \in Words
      BY DEF Words, Blank
    <3> QED BY <3>1 DEF Text
  <2> HIDE DEF gap
  <2>2. \A i \in 1..Len(gap) : gap[i] \in Blank
    BY <2>1 DEF Blank
  <2>3. Ink(gap) = {}
    BY <2>1, <2>2, InkFacts
  <2>4. InkOf(gap) = <<>>
    BY <2>1, <2>3, NoInk
  <2> QED BY <2>1, <2>4 DEF gap
<1>3. \A i \in 1..n : joined[i] \in Text /\ InkOf(joined[i]) = InkOf(parts[i])
  <2> SUFFICES ASSUME NEW i \in 1..n
               PROVE  joined[i] \in Text /\ InkOf(joined[i]) = InkOf(parts[i])
    OBVIOUS
  <2> DEFINE part == Strip(parts[i])
  <2>1. part \in Text /\ InkOf(part) = InkOf(parts[i]) /\ InkOf(part) \in Text
    BY <1>1, StripText, InkFacts
  <2>2. joined[i] = IF First(i) THEN part ELSE <<"nl", "nl">> \o part
    BY <1>1
  <2> HIDE DEF part, First
  <2>3. <<"nl", "nl">> \o part \in Text /\ InkOf(<<"nl", "nl">> \o part) = <<>> \o InkOf(part)
    BY <1>2, <2>1, InkOfConcat
  <2>4. <<>> \o InkOf(part) = InkOf(part)
    BY <2>1, ConcatEmptySeq DEF Text
  <2> QED BY <2>1, <2>2, <2>3, <2>4
<1>4. DOMAIN joined = 1..n
  BY <1>1
<1>5. JoinParts(parts) = FlattenSeq(joined)
  BY DEF JoinParts
<1>6. joined = [i \in 1..n |-> joined[i]]
  BY <1>1
<1> HIDE DEF joined, n
<1>7. joined \in Seq(Text)
  <2>1. joined \in [1..n -> Text]
    BY <1>3, <1>6
  <2> QED BY <1>1, <2>1
<1>8. [i \in DOMAIN joined |-> InkOf(joined[i])] = [i \in DOMAIN parts |-> InkOf(parts[i])]
  BY <1>1, <1>3, <1>4
<1> QED BY <1>5, <1>7, <1>8, InkOfFlattening

\* What a file is read as has the words of the document.
LEMMA ReadInk ==
  ASSUME NEW doc, doc.parts \in Seq(Text), doc.kind = "text" => Len(doc.parts) = 1
  PROVE  /\ ReadContract(doc) \in Text
         /\ InkOf(ReadContract(doc)) = InkOf(FlattenSeq(doc.parts))
<1>1. CASE doc.kind = "text"
  <2>1. Len(doc.parts) = 1 /\ 1 \in Nat \ {0}
    BY <1>1
  <2>2. FlattenSeq(doc.parts) = doc.parts[1]
    BY <2>1, Flattening
  <2>3. doc.parts[1] \in Text
    BY <2>1, ElementOfSeq
  <2> QED BY <1>1, <2>2, <2>3, UnixText DEF ReadContract
<1>2. CASE doc.kind # "text"
  BY <1>2, JoinedInk DEF ReadContract
<1> QED BY <1>1, <1>2

--------------------------------------------------------------------------------
(* Blocks and where they are found. *)

Start(t, i) == InOrder(BlockStarts(t))[i]
Count(t) == Cardinality(BlockStarts(t))
End(t, i) == IF i = Count(t) THEN Len(t) ELSE Start(t, i + 1) - 1

\* e is the last word of the i-th block.
EndsAt(t, i, e) ==
  /\ e \in Ink(t) /\ Start(t, i) <= e /\ e <= End(t, i)
  /\ \A k \in Ink(t) : k <= e \/ End(t, i) < k
  /\ Blocks(t)[i] = SubSeq(t, Start(t, i), e)
LastWordOf(t, i) == CHOOSE e : EndsAt(t, i, e)

\* Blocks begin at words, in order; the first begins at the first word.
LEMMA StartFacts ==
  ASSUME NEW t \in Text
  PROVE  /\ Count(t) \in Nat /\ DOMAIN Blocks(t) = 1..Count(t)
         /\ \A i \in 1..Count(t) : /\ Start(t, i) \in BlockStarts(t) /\ Start(t, i) \in Ink(t)
                                   /\ Start(t, i) \in 1..Len(t)
                                   /\ Start(t, i) <= End(t, i) /\ End(t, i) \in 1..Len(t)
                                   /\ Blocks(t)[i] = Strip(SubSeq(t, Start(t, i), End(t, i)))
         /\ \A i, j \in 1..Count(t) : i < j => Start(t, i) < Start(t, j) /\ End(t, i) < Start(t, j)
         /\ \A x \in BlockStarts(t) : \E i \in 1..Count(t) : Start(t, i) = x
         /\ \A k \in Ink(t) : Count(t) # 0 /\ Start(t, 1) <= k
<1> DEFINE S == BlockStarts(t)
           n == Count(t)
           A == InOrder(S)
<1>1. S \subseteq Ink(t) /\ S \subseteq 1..Len(t) /\ Len(t) \in Nat
  BY InkFacts, TextFacts DEF BlockStarts
<1>2. Lists(A, n, S)
  <2> HIDE DEF S
  <2> QED BY <1>1, KeepFacts DEF Count, S
<1>3. A = [i \in 1..n |-> A[i]]
  BY DEF InOrder, Count
<1> HIDE DEF S, A, n
<1>4. /\ n \in Nat /\ \A i \in 1..n : A[i] \in S /\ A[i] \in 1..Len(t)
      /\ \A i, j \in 1..n : i < j => A[i] < A[j]
      /\ \A x \in S : \E i \in 1..n : A[i] = x
  BY <1>1, <1>2 DEF Lists
<1>5. DOMAIN A = 1..n /\ Len(A) = n
  <2>1. A \in [1..n -> S]
    BY <1>3, <1>4
  <2> QED BY <1>4, <2>1
<1>6. \A i \in 1..n : Start(t, i) = A[i]
  BY DEF Start, A, S
<1>7. \A i \in 1..n : End(t, i) = IF i = n THEN Len(t) ELSE A[i + 1] - 1
  BY DEF End, Start, A, S, n
<1>8. /\ DOMAIN Blocks(t) = 1..n
      /\ \A i \in 1..n : Blocks(t)[i] = Strip(SubSeq(t, Start(t, i), End(t, i)))
  BY <1>5, <1>6, <1>7 DEF Blocks, A, S
<1>9. ASSUME NEW i \in 1..n
      PROVE  A[i] <= End(t, i) /\ End(t, i) \in 1..Len(t)
  <2>1. CASE i = n
    BY <1>1, <1>4, <1>7, <2>1
  <2>2. CASE i # n
    <3>1. i + 1 \in 1..n /\ i < i + 1
      BY <1>4, <2>2
    <3>2. A[i] < A[i + 1] /\ A[i] \in 1..Len(t) /\ A[i + 1] \in 1..Len(t)
      BY <1>4, <3>1
    <3> QED BY <1>1, <1>7, <2>2, <3>2
  <2> QED BY <2>1, <2>2
<1>10. ASSUME NEW i \in 1..n, NEW j \in 1..n, i < j
       PROVE  A[i] < A[j] /\ End(t, i) < A[j]
  <2>1. i + 1 \in 1..n /\ i # n /\ (i + 1 = j \/ i + 1 < j)
    BY <1>4, <1>10
  <2>2. A[i + 1] <= A[j] /\ A[i + 1] \in Nat /\ A[j] \in Nat
    BY <1>1, <1>4, <2>1
  <2> QED BY <1>4, <1>7, <1>10, <2>1, <2>2
<1>11. ASSUME NEW k \in Ink(t)
       PROVE  n # 0 /\ A[1] <= k
  <2>1. PICK x \in Ink(t) : \A y \in Ink(t) : x <= y
    <3>1. Ink(t) \subseteq Nat
      BY <1>1, InkFacts
    <3> QED BY <1>11, <3>1, LeastNat
  <2>2. x \in Nat /\ k \in Nat /\ x <= k
    BY <1>1, <2>1, InkFacts
  <2>3. x \in S
    <3>1. \A y \in Ink(t) : ~(y < x)
      BY <1>1, <2>1, InkFacts
    <3> QED BY <3>1 DEF BlockStarts, S
  <2>4. PICK i \in 1..n : A[i] = x
    BY <1>4, <2>3
  <2>5. 1 \in 1..n /\ (i = 1 \/ 1 < i)
    BY <1>4
  <2>6. A[1] <= x /\ A[1] \in Nat
    BY <1>4, <2>2, <2>4, <2>5
  <2> QED BY <2>2, <2>5, <2>6
<1>12. \A i \in 1..n : Start(t, i) \in Ink(t)
  BY <1>1, <1>4, <1>6
<1>13. \A k \in Ink(t) : n # 0 /\ Start(t, 1) <= k
  <2> SUFFICES ASSUME NEW k \in Ink(t)
               PROVE  n # 0 /\ Start(t, 1) <= k
    OBVIOUS
  <2>1. n # 0 /\ A[1] <= k
    BY <1>11
  <2>2. 1 \in 1..n
    BY <1>4, <2>1
  <2> QED BY <1>6, <2>1, <2>2
<1> QED BY <1>4, <1>6, <1>8, <1>9, <1>10, <1>12, <1>13 DEF S, n

\* Every block ends at a word.
LEMMA BlockEnds ==
  ASSUME NEW t \in Text, NEW i \in 1..Count(t)
  PROVE  EndsAt(t, i, LastWordOf(t, i))
<1> DEFINE a == Start(t, i)
           z == End(t, i)
           u == SubSeq(t, a, z)
<1>1. /\ a \in Ink(t) /\ a \in 1..Len(t) /\ a <= z /\ z \in 1..Len(t)
      /\ Blocks(t)[i] = Strip(u)
  BY StartFacts
<1>2. Len(t) \in Nat
  BY TextFacts
<1> HIDE DEF a, z
<1>3. a \in Nat \ {0} /\ z \in 0..Len(t) /\ a <= z + 1
  BY <1>1, <1>2
<1>4. u \in Text /\ Len(u) = z - a + 1 /\ \A k \in 1..(z - a + 1) : u[k] = t[a + k - 1]
  BY <1>3, SubSeqFacts
<1> HIDE DEF u
<1>5. \A k \in 1..Len(u) : k \in Ink(u) <=> a + k - 1 \in Ink(t)
  <2> SUFFICES ASSUME NEW k \in 1..Len(u)
               PROVE  k \in Ink(u) <=> a + k - 1 \in Ink(t)
    OBVIOUS
  <2>1. a + k - 1 \in 1..Len(t) /\ u[k] = t[a + k - 1]
    BY <1>1, <1>2, <1>4
  <2> QED BY <1>4, <2>1, InkFacts
<1>6. 1 \in 1..Len(u) /\ a + 1 - 1 = a
  BY <1>1, <1>3, <1>4
<1>7. 1 \in Ink(u)
  BY <1>1, <1>5, <1>6
<1>8. PICK b \in Ink(u), c \in Ink(u) : Ink(u) \subseteq b..c /\ Strip(u) = SubSeq(u, b, c)
  BY <1>4, <1>7, StripSpan
<1>9. b \in 1..Len(u) /\ c \in 1..Len(u) /\ 1 \in b..c
  BY <1>4, <1>7, <1>8, InkFacts
<1>10. b = 1
  <2>1. b \in Int /\ b <= 1 /\ 1 <= b
    BY <1>9
  <2> QED BY <2>1
<1> DEFINE e == a + c - 1
<1>11. e \in Ink(t) /\ a <= e /\ e <= z
  BY <1>3, <1>4, <1>5, <1>8, <1>9
<1>12. ASSUME NEW k \in Ink(t)
       PROVE  k <= e \/ z < k
  <2>0. k \in 1..Len(t) /\ k \in Int /\ e \in Int /\ z \in Int /\ a \in Int /\ c \in Int
    BY <1>3, <1>9, InkFacts
  <2> SUFFICES ASSUME e < k, k <= z
               PROVE  FALSE
    BY <2>0
  <2>1. k - a + 1 \in 1..Len(u) /\ a + (k - a + 1) - 1 = k
    BY <1>4, <1>11, <2>0
  <2>2. k - a + 1 \in Ink(u)
    BY <1>5, <2>1
  <2>3. k - a + 1 \in b..c
    BY <1>8, <2>2
  <2>4. k - a + 1 <= c
    BY <2>3
  <2> QED BY <2>0, <2>4
<1>13. SubSeq(u, 1, c) = SubSeq(t, a, e)
  <2>1. a \in 1..Len(t) /\ z \in 1..Len(t) /\ 1 \in 1..(z - a + 1) /\ c \in 1..(z - a + 1)
    BY <1>1, <1>4, <1>6, <1>9
  <2>2. SubSeq(SubSeq(t, a, z), 1, c) = SubSeq(t, a + 1 - 1, a + c - 1)
    BY <2>1, SubSeqOfSubSeq DEF Text
  <2> QED BY <1>6, <2>2 DEF u
<1>14. EndsAt(t, i, e)
  BY <1>1, <1>8, <1>10, <1>11, <1>12, <1>13 DEF EndsAt, a, z
<1> HIDE DEF e
<1> QED BY <1>14 DEF LastWordOf

\* A stretch that begins with a word is found in its place, if there is no word between the
\* cursor and it.
LEMMA FoundInPlace ==
  ASSUME NEW t \in Text, NEW a \in Ink(t), NEW e \in Ink(t), a <= e,
         NEW cursor \in Nat, cursor < a,
         \A k \in Ink(t) : k <= cursor \/ a <= k
  PROVE  Position(t, SubSeq(t, a, e), cursor) = a - 1
<1> DEFINE block == SubSeq(t, a, e)
           F == Found(t, block, cursor)
<1>1. a \in 1..Len(t) /\ e \in 1..Len(t) /\ Len(t) \in Nat /\ t[a] \notin Blank
  BY InkFacts, TextFacts
<1>2. a \in Nat \ {0} /\ e \in 0..Len(t) /\ a <= e + 1
  BY <1>1
<1>3. /\ block \in Text /\ Len(block) = e - a + 1
      /\ \A i \in 1..(e - a + 1) : block[i] = t[a + i - 1]
  BY <1>2, SubSeqFacts
<1>4. 1 \in 1..(e - a + 1) /\ a + 1 - 1 = a
  BY <1>1
<1>5. block[1] = t[a]
  BY <1>3, <1>4
<1>6. a - 1 \in F
  <2>1. (a - 1) + 1 = a /\ (a - 1) + Len(block) = e
    BY <1>1, <1>3
  <2>2. a - 1 \in cursor..(Len(t) - Len(block))
    BY <1>1, <1>3
  <2> QED BY <2>1, <2>2 DEF Found
<1> HIDE DEF block
<1>7. F \subseteq Nat
  BY <1>3 DEF Found
<1>8. ASSUME NEW s \in F
      PROVE  a - 1 <= s
  <2>1. /\ s \in cursor..(Len(t) - Len(block)) /\ s \in Nat
        /\ SubSeq(t, s + 1, s + Len(block)) = block
    BY <1>7 DEF Found
  <2>2. s + 1 \in Nat \ {0} /\ s + Len(block) \in 0..Len(t) /\ s + 1 <= (s + Len(block)) + 1
    BY <1>1, <1>3, <2>1
  <2>3. 1 \in 1..((s + Len(block)) - (s + 1) + 1) /\ (s + 1) + 1 - 1 = s + 1
    BY <1>1, <1>3, <2>1
  <2>4. SubSeq(t, s + 1, s + Len(block))[1] = t[(s + 1) + 1 - 1]
    BY <2>2, <2>3, SubSeqFacts
  <2>5. t[s + 1] = t[a]
    BY <1>5, <2>1, <2>3, <2>4
  <2>6. s + 1 \in 1..Len(t)
    BY <1>1, <1>3, <2>1
  <2>7. s + 1 \in Ink(t)
    BY <1>1, <2>5, <2>6, InkFacts
  <2>8. s + 1 <= cursor \/ a <= s + 1
    BY <2>7
  <2> QED BY <1>1, <2>1, <2>8
<1> HIDE DEF F
<1>9. Min(F) \in F /\ \A s \in F : Min(F) <= s
  BY <1>6, <1>7, MinOf
<1>10. Min(F) = a - 1
  <2>1. Min(F) <= a - 1 /\ a - 1 <= Min(F) /\ Min(F) \in Nat
    BY <1>6, <1>7, <1>8, <1>9
  <2> QED BY <1>1, <2>1
<1>11. Position(t, block, cursor) = Min(F)
  BY <1>6 DEF Position, F
<1> QED BY <1>10, <1>11 DEF block

\* The clauses as they should be.
Placed(t) ==
  [i \in 1..Count(t) |->
     [clause_id |-> i, text |-> Blocks(t)[i],
      start_char |-> Start(t, i) - 1, end_char |-> LastWordOf(t, i)]]

\* The end of the block before the i-th: nothing but blanks is between it and the block.
Before(t, i) == IF i = 1 THEN 0 ELSE LastWordOf(t, i - 1)

LEMMA BlanksBefore ==
  ASSUME NEW t \in Text, NEW i \in 1..Count(t)
  PROVE  /\ Before(t, i) \in Nat /\ Before(t, i) < Start(t, i)
         /\ \A k \in Ink(t) : k <= Before(t, i) \/ Start(t, i) <= k
<1>1. Start(t, i) \in 1..Len(t) /\ \A k \in Ink(t) : Start(t, 1) <= k /\ k \in Nat
  BY StartFacts, InkFacts
<1>2. Count(t) \in Nat
  BY StartFacts
<1>3. CASE i = 1
  BY <1>1, <1>3 DEF Before
<1>4. CASE i # 1
  <2> DEFINE j == i - 1
             e == LastWordOf(t, j)
  <2>1. j \in 1..Count(t) /\ j < i /\ j + 1 = i /\ j # Count(t)
    BY <1>2, <1>4
  <2> HIDE DEF j
  <2>2. EndsAt(t, j, e)
    BY <2>1, BlockEnds
  <2> HIDE DEF e
  <2>3. e \in Ink(t) /\ e <= End(t, j) /\ \A k \in Ink(t) : k <= e \/ End(t, j) < k
    BY <2>2 DEF EndsAt
  <2>4. End(t, j) = Start(t, i) - 1
    BY <2>1 DEF End
  <2>5. Before(t, i) = e
    BY <1>4 DEF Before, e, j
  <2> QED BY <1>1, <2>3, <2>4, <2>5
<1> QED BY <1>3, <1>4

\* The block is found there.
LEMMA PlacedAt ==
  ASSUME NEW t \in Text, NEW i \in 1..Count(t)
  PROVE  ClauseAt(t, i, Blocks(t)[i], Before(t, i)) = Placed(t)[i]
<1> DEFINE a == Start(t, i)
           e == LastWordOf(t, i)
<1>1. EndsAt(t, i, e)
  BY BlockEnds
<1>2. e \in Ink(t) /\ a <= e /\ Blocks(t)[i] = SubSeq(t, a, e)
  BY <1>1 DEF EndsAt
<1>3. a \in Ink(t) /\ a \in 1..Len(t) /\ e \in 1..Len(t) /\ Len(t) \in Nat
  BY <1>2, StartFacts, InkFacts, TextFacts
<1>4. /\ Before(t, i) \in Nat /\ Before(t, i) < a
      /\ \A k \in Ink(t) : k <= Before(t, i) \/ a <= k
  BY BlanksBefore
<1>5. Placed(t)[i] = [clause_id |-> i, text |-> Blocks(t)[i],
                      start_char |-> a - 1, end_char |-> e]
  BY DEF Placed
<1> HIDE DEF a, e
<1>6. Position(t, Blocks(t)[i], Before(t, i)) = a - 1
  BY <1>2, <1>3, <1>4, FoundInPlace
<1>7. Len(Blocks(t)[i]) = e - a + 1
  <2>1. a \in Nat \ {0} /\ e \in 0..Len(t) /\ a <= e + 1
    BY <1>2, <1>3
  <2> QED BY <1>2, <2>1, SubSeqFacts
<1>8. (a - 1) + Len(Blocks(t)[i]) = e
  BY <1>3, <1>7
<1> QED BY <1>5, <1>6, <1>8 DEF ClauseAt

\* The search for the blocks, one behind the other, finds every one in its place.
LEMMA LocatedInPlace ==
  ASSUME NEW t \in Text
  PROVE  Locate(t, Blocks(t)) = Placed(t)
<1> DEFINE B == Blocks(t)
           n == Count(t)
           P == Placed(t)
           Located(f) == f = [i \in DOMAIN B |->
                                ClauseAt(t, i, B[i], IF i = 1 THEN 0 ELSE f[i - 1].end_char)]
<1>1. n \in Nat /\ DOMAIN B = 1..n
  BY StartFacts
<1>2. P = [i \in 1..n |-> P[i]]
  BY DEF Placed
<1>3. \A i \in 1..n : ClauseAt(t, i, B[i], Before(t, i)) = P[i]
  BY PlacedAt
<1>4. \A i \in 1..n : Before(t, i) = IF i = 1 THEN 0 ELSE P[i - 1].end_char
  <2> SUFFICES ASSUME NEW i \in 1..n, i # 1
               PROVE  LastWordOf(t, i - 1) = P[i - 1].end_char
    BY DEF Before
  <2>1. i - 1 \in 1..n
    BY <1>1
  <2> QED BY <2>1 DEF Placed
<1> HIDE DEF B, n, P
<1>5. Located(P)
  <2>1. \A i \in 1..n : P[i] = ClauseAt(t, i, B[i], IF i = 1 THEN 0 ELSE P[i - 1].end_char)
    BY <1>3, <1>4
  <2> QED BY <1>1, <1>2, <2>1
<1> DEFINE f == CHOOSE f : Located(f)
<1>6. Located(f)
  <2> HIDE DEF Located
  <2> QED BY <1>5
<1>7. Locate(t, B) = f
  BY DEF Locate
<1> HIDE DEF f
<1>8. f = [i \in 1..n |-> f[i]]
      /\ \A i \in 1..n : f[i] = ClauseAt(t, i, B[i], IF i = 1 THEN 0 ELSE f[i - 1].end_char)
  BY <1>1, <1>6
<1> HIDE DEF Located
<1> DEFINE Wrong == {i \in 1..n : f[i] # P[i]}
<1>9. Wrong = {}
  <2>1. SUFFICES ASSUME Wrong # {}
                 PROVE  FALSE
    OBVIOUS
  <2>2. Wrong \subseteq Nat
    OBVIOUS
  <2>3. PICK i \in Wrong : \A j \in Wrong : i <= j
    <3> HIDE DEF Wrong
    <3> QED BY <2>1, <2>2, LeastNat
  <2>4. i \in 1..n /\ f[i] # P[i]
    OBVIOUS
  <2>5. i # 1 => f[i - 1] = P[i - 1]
    <3> SUFFICES ASSUME i # 1
                 PROVE  f[i - 1] = P[i - 1]
      OBVIOUS
    <3>1. i - 1 \in 1..n /\ ~(i <= i - 1)
      BY <1>1, <2>4
    <3> QED BY <2>3, <3>1
  <2> QED BY <1>3, <1>4, <1>8, <2>4, <2>5
<1>10. \A i \in 1..n : f[i] = P[i]
  BY <1>9
<1>11. f = P
  BY <1>2, <1>8, <1>10
<1> QED BY <1>7, <1>11 DEF B, P

\* So the clauses of a tidy text are its blocks, in their places.
LEMMA ChunksInPlace ==
  ASSUME NEW t \in Text
  PROVE  /\ ChunkIntoClauses(t) = Placed(Normalize(t))
         /\ Tidy(t) => ChunkIntoClauses(t) = Placed(t)
BY NormalizeText, NormalizeAgain, LocatedInPlace DEF ChunkIntoClauses

\* A block has no blank line in it.
LEMMA OneBlock ==
  ASSUME NEW t \in Text, NEW i \in 1..Count(t)
  PROVE  BlockStarts(Blocks(t)[i]) = {1}
<1> DEFINE a == Start(t, i)
           e == LastWordOf(t, i)
           u == Blocks(t)[i]
<1>1. EndsAt(t, i, e)
  BY BlockEnds
<1>2. e \in Ink(t) /\ a <= e /\ e <= End(t, i) /\ u = SubSeq(t, a, e)
  BY <1>1 DEF EndsAt
<1>3. /\ a \in BlockStarts(t) /\ a \in Ink(t)
      /\ a \in 1..Len(t) /\ e \in 1..Len(t) /\ Len(t) \in Nat
      /\ End(t, i) \in 1..Len(t)
  BY <1>2, StartFacts, InkFacts, TextFacts
<1>4. \A x \in BlockStarts(t) : ~(a < x /\ x <= e)
  <2> SUFFICES ASSUME NEW x \in BlockStarts(t), a < x, x <= e
               PROVE  FALSE
    OBVIOUS
  <2>1. PICK j \in 1..Count(t) : Start(t, j) = x
    BY StartFacts
  <2>2. x \in 1..Len(t) /\ j \in Int /\ i \in Int
    BY <2>1, StartFacts
  <2>3. CASE j = i
    BY <1>3, <2>1, <2>2, <2>3
  <2>4. CASE j < i
    <3>1. x < a
      BY <2>1, <2>4, StartFacts
    <3> QED BY <1>3, <2>2, <3>1
  <2>5. CASE i < j
    <3>1. End(t, i) < x
      BY <2>1, <2>5, StartFacts
    <3> QED BY <1>2, <1>3, <2>2, <3>1
  <2> QED BY <2>2, <2>3, <2>4, <2>5
<1> HIDE DEF a, e, u
<1>5. u \in Text /\ Len(u) = e - a + 1 /\ \A k \in 1..(e - a + 1) : u[k] = t[a + k - 1]
  <2>1. a \in Nat \ {0} /\ e \in 0..Len(t) /\ a <= e + 1
    BY <1>2, <1>3
  <2> QED BY <1>2, <2>1, SubSeqFacts
<1>6. \A k \in 1..Len(u) : /\ u[k] = t[a + k - 1]
                           /\ k \in Ink(u) <=> a + k - 1 \in Ink(t)
  <2> SUFFICES ASSUME NEW k \in 1..Len(u)
               PROVE  u[k] = t[a + k - 1] /\ (k \in Ink(u) <=> a + k - 1 \in Ink(t))
    OBVIOUS
  <2>1. a + k - 1 \in 1..Len(t) /\ u[k] = t[a + k - 1]
    BY <1>3, <1>5
  <2> QED BY <1>5, <2>1, InkFacts
<1>7. Ink(u) \subseteq 1..Len(u) /\ Len(u) \in Nat
  BY <1>5, InkFacts, TextFacts
<1>8. 1 \in BlockStarts(u)
  <2>1. 1 \in 1..Len(u) /\ a + 1 - 1 = a
    BY <1>2, <1>3, <1>5
  <2>2. 1 \in Ink(u)
    BY <1>3, <1>6, <2>1
  <2>3. \A k \in Ink(u) : ~(k < 1)
    BY <1>7
  <2> QED BY <2>2, <2>3 DEF BlockStarts
<1>9. ASSUME NEW p \in BlockStarts(u), p # 1
      PROVE  FALSE
  <2> DEFINE q == a + p - 1
  <2>1. p \in Ink(u) /\ p \in 1..Len(u)
    BY <1>7 DEF BlockStarts
  <2>2. q \in Ink(t) /\ a < q /\ q <= e /\ q \in Int
    BY <1>3, <1>5, <1>6, <1>9, <2>1
  <2>3. q \notin BlockStarts(t)
    BY <1>4, <2>2
  <2> HIDE DEF q
  <2>4. PICK k \in Ink(t) :
          k < q /\ ~\E m, n \in k..q : m < n /\ t[m] = "nl" /\ t[n] = "nl"
    BY <2>2, <2>3 DEF BlockStarts
  <2>5. k \in 1..Len(t) /\ k \in Int
    BY <2>4, InkFacts
  <2>6. ~(k < a)
    <3> SUFFICES ASSUME k < a
                 PROVE  FALSE
      OBVIOUS
    <3>1. PICK m \in k..a, n \in k..a : m < n /\ t[m] = "nl" /\ t[n] = "nl"
      BY <1>3 DEF BlockStarts
    <3>2. m \in k..q /\ n \in k..q
      BY <1>3, <2>2, <2>5
    <3> QED BY <2>4, <3>1, <3>2
  <2> DEFINE l == k - a + 1
  <2>7. l \in 1..Len(u) /\ a + l - 1 = k /\ l < p
    BY <1>3, <1>5, <2>1, <2>2, <2>4, <2>5, <2>6 DEF q
  <2>8. l \in Ink(u)
    BY <1>6, <2>4, <2>7
  <2> HIDE DEF l
  <2>9. PICK m \in l..p, n \in l..p : m < n /\ u[m] = "nl" /\ u[n] = "nl"
    BY <2>7, <2>8 DEF BlockStarts
  <2>10. m \in 1..Len(u) /\ n \in 1..Len(u)
    BY <2>1, <2>7, <2>9
  <2>11. t[a + m - 1] = "nl" /\ t[a + n - 1] = "nl"
    BY <1>6, <2>9, <2>10
  <2>12. a + m - 1 \in k..q /\ a + n - 1 \in k..q /\ a + m - 1 < a + n - 1
    BY <1>3, <2>1, <2>7, <2>9, <2>10 DEF q
  <2> QED BY <2>4, <2>11, <2>12
<1>10. BlockStarts(u) = {1}
  BY <1>8, <1>9
<1> QED BY <1>10 DEF u

\* And there is one between two of them.
LEMMA BlocksApart ==
  ASSUME NEW t \in Text, NEW i \in 1..Count(t), NEW j \in 1..Count(t), j < i
  PROVE  LastWordOf(t, j) < Start(t, i) - 1
<1> DEFINE a == Start(t, i)
           e == LastWordOf(t, j)
<1>1. EndsAt(t, j, e)
  BY BlockEnds
<1>2. e \in Ink(t) /\ e <= End(t, j)
  BY <1>1 DEF EndsAt
<1>3. a \in BlockStarts(t) /\ a \in Ink(t) /\ a \in 1..Len(t) /\ End(t, j) < a
  BY StartFacts
<1>4. End(t, j) \in 1..Len(t)
  BY StartFacts
<1> HIDE DEF a, e
<1>5. /\ e \in 1..Len(t) /\ Len(t) \in Nat /\ t[e] \notin Blank /\ t[a] \notin Blank
      /\ e < a
  <2>1. e \in 1..Len(t) /\ Len(t) \in Nat /\ t[e] \notin Blank /\ t[a] \notin Blank
    BY <1>2, <1>3, InkFacts, TextFacts
  <2> QED BY <1>2, <1>3, <1>4, <2>1
<1>6. PICK m \in e..a, n \in e..a : m < n /\ t[m] = "nl" /\ t[n] = "nl"
  BY <1>2, <1>3, <1>5 DEF BlockStarts
<1>7. m # e /\ n # a
  BY <1>5, <1>6 DEF Blank
<1>8. m \in Int /\ n \in Int /\ a \in Int /\ e \in Int /\ e <= m /\ n <= a /\ m < n
  BY <1>3, <1>5, <1>6
<1>9. e < a - 1
  BY <1>7, <1>8
<1> QED BY <1>9 DEF a, e

\* The blocks have all the words of a text, in order.
LEMMA BlocksInk ==
  ASSUME NEW t \in Text
  PROVE  FlattenSeq([i \in 1..Count(t) |-> InkOf(Blocks(t)[i])]) = InkOf(t)
<1> DEFINE n == Count(t)
           inks == [i \in 1..n |-> InkOf(Blocks(t)[i])]
           upto(i) == SubSeq(t, 1, i)
<1>1. n \in Nat /\ Len(t) \in Nat
  BY StartFacts, TextFacts
<1>2. ASSUME NEW k \in 0..Len(t)
      PROVE  upto(k) \in Text /\ Len(upto(k)) = k /\ \A i \in 1..k : upto(k)[i] = t[i]
  <2>1. 1 \in Nat \ {0} /\ 1 <= k + 1
    BY <1>2
  <2>2. /\ upto(k) \in Text /\ Len(upto(k)) = k - 1 + 1
        /\ \A i \in 1..(k - 1 + 1) : upto(k)[i] = t[1 + i - 1]
    BY <2>1, SubSeqFacts
  <2> HIDE DEF upto
  <2>3. k - 1 + 1 = k /\ \A i \in 1..k : 1 + i - 1 = i
    BY <1>2
  <2> QED BY <2>2, <2>3
<1>3. ASSUME NEW i \in 1..n
      PROVE  /\ Start(t, i) - 1 \in 0..Len(t) /\ End(t, i) \in 0..Len(t)
             /\ InkOf(upto(End(t, i))) = InkOf(upto(Start(t, i) - 1)) \o inks[i]
  <2> DEFINE a == Start(t, i)
             z == End(t, i)
             u == SubSeq(t, a, z)
  <2>1. /\ a \in 1..Len(t) /\ z \in 1..Len(t) /\ a <= z
        /\ Blocks(t)[i] = Strip(u)
    BY StartFacts
  <2>2. inks[i] = InkOf(Strip(u))
    BY <2>1
  <2> HIDE DEF a, z
  <2>3. /\ a - 1 \in 0..Len(t) /\ z \in 0..Len(t)
        /\ a \in Nat \ {0} /\ a <= z + 1
        /\ 1 \in 1..(Len(t) + 1) /\ a - 1 \in (1 - 1)..Len(t) /\ z \in (a - 1)..Len(t)
        /\ (a - 1) + 1 = a
    BY <1>1, <2>1
  <2>4. u \in Text
    BY <2>3, SubSeqFacts
  <2>5. upto(z) = upto(a - 1) \o u
    <3>1. SubSeq(t, 1, a - 1) \o SubSeq(t, (a - 1) + 1, z) = SubSeq(t, 1, z)
      BY <2>3, ConcatAdjacentSubSeq DEF Text
    <3> QED BY <2>3, <3>1
  <2> HIDE DEF u
  <2>6. InkOf(Strip(u)) = InkOf(u)
    BY <2>4, StripText
  <2>7. upto(a - 1) \in Text
    BY <1>2, <2>3
  <2> HIDE DEF upto, inks
  <2>8. InkOf(upto(z)) = InkOf(upto(a - 1)) \o InkOf(u)
    BY <2>4, <2>5, <2>7, InkOfConcat
  <2> QED BY <2>2, <2>3, <2>6, <2>8 DEF a, z
<1>4. ASSUME NEW i \in 2..n
      PROVE  i - 1 \in 1..n /\ i \in 1..n /\ End(t, i - 1) = Start(t, i) - 1
  BY <1>1 DEF End
<1>5. CASE n = 0
  <2>1. Ink(t) = {}
    BY <1>5, StartFacts
  <2>2. InkOf(t) = <<>>
    BY <2>1, NoInk
  <2>3. inks = <<>>
    BY <1>5
  <2>4. FlattenSeq(<<>>) = <<>>
    BY DEF FlattenSeq
  <2> QED BY <2>2, <2>3, <2>4
<1>6. CASE n # 0
  <2>1. n \in Nat \ {0} /\ 1 \in 1..n /\ n \in 1..n
    BY <1>1, <1>6
  <2>2. Len(inks) = n /\ \A i \in 1..n : inks[i] = InkOf(Blocks(t)[i])
    <3>1. inks \in [1..n -> {InkOf(Blocks(t)[i]) : i \in 1..n}]
      OBVIOUS
    <3> HIDE DEF n
    <3> QED BY <1>1, <3>1
  <2>3. PICK g : /\ g[1] = inks[1] /\ FlattenSeq(inks) = g[n]
                 /\ \A i \in 2..n : g[i] = g[i - 1] \o inks[i]
    <3> HIDE DEF n, inks
    <3> QED BY <2>1, <2>2, Flattening
  <2>4. InkOf(upto(End(t, 1))) = inks[1]
    <3> DEFINE a == Start(t, 1)
               gap == upto(a - 1)
    <3>1. a \in 1..Len(t) /\ \A k \in Ink(t) : a <= k
      BY <2>1, StartFacts
    <3>2. a - 1 \in 0..Len(t) /\ InkOf(upto(End(t, 1))) = InkOf(gap) \o inks[1]
      BY <1>3, <2>1
    <3> HIDE DEF a
    <3>3. gap \in Text /\ Len(gap) = a - 1 /\ \A i \in 1..(a - 1) : gap[i] = t[i]
      BY <1>2, <3>2
    <3> HIDE DEF gap
    <3>4. \A i \in 1..(a - 1) : i \in 1..Len(t) /\ ~(a <= i)
      BY <1>1, <3>1
    <3>5. \A i \in 1..(a - 1) : t[i] \in Blank
      BY <3>1, <3>4, InkFacts
    <3>6. Ink(gap) = {}
      BY <3>3, <3>5, InkFacts
    <3>7. InkOf(gap) = <<>>
      BY <3>3, <3>6, NoInk
    <3>8. inks[1] \in Seq(Words)
      <4>1. Blocks(t)[1] = Strip(SubSeq(t, Start(t, 1), End(t, 1)))
            /\ Start(t, 1) \in Nat \ {0} /\ End(t, 1) \in 0..Len(t)
            /\ Start(t, 1) <= End(t, 1) + 1
        <5>1. /\ Blocks(t)[1] = Strip(SubSeq(t, Start(t, 1), End(t, 1)))
              /\ Start(t, 1) \in 1..Len(t) /\ End(t, 1) \in 1..Len(t)
              /\ Start(t, 1) <= End(t, 1)
          BY <2>1, StartFacts
        <5> QED BY <1>1, <5>1
      <4>2. SubSeq(t, Start(t, 1), End(t, 1)) \in Text
        BY <4>1, SubSeqFacts
      <4>3. InkOf(Blocks(t)[1]) \in Text
        BY <4>1, <4>2, StripText, InkFacts
      <4> QED BY <2>1, <2>2, <4>3 DEF Text
    <3> HIDE DEF inks
    <3>9. <<>> \o inks[1] = inks[1]
      BY <3>8, ConcatEmptySeq
    <3> QED BY <3>2, <3>7, <3>9
  <2> DEFINE Good(i) == InkOf(upto(End(t, i))) = g[i]
             Wrong == {i \in 1..n : ~Good(i)}
  <2> HIDE DEF inks, upto
  <2>5. Wrong = {}
    <3>1. SUFFICES ASSUME Wrong # {}
                   PROVE  FALSE
      OBVIOUS
    <3>2. Wrong \subseteq Nat
      OBVIOUS
    <3>3. PICK i \in Wrong : \A j \in Wrong : i <= j
      <4> HIDE DEF Wrong
      <4> QED BY <3>1, <3>2, LeastNat
    <3>4. i \in 1..n /\ ~Good(i)
      OBVIOUS
    <3>5. CASE i = 1
      BY <2>3, <2>4, <3>4, <3>5
    <3>6. CASE i # 1
      <4>1. i \in 2..n /\ ~(i <= i - 1)
        BY <3>4, <3>6
      <4>2. i - 1 \in 1..n /\ End(t, i - 1) = Start(t, i) - 1
        BY <1>4, <4>1
      <4>3. InkOf(upto(End(t, i - 1))) = g[i - 1]
        BY <3>3, <4>1, <4>2
      <4>4. InkOf(upto(End(t, i))) = InkOf(upto(End(t, i - 1))) \o inks[i]
        BY <1>3, <3>4, <4>2
      <4>5. g[i] = g[i - 1] \o inks[i]
        BY <2>3, <4>1
      <4> QED BY <3>4, <4>3, <4>4, <4>5
    <3> QED BY <3>5, <3>6
  <2>6. InkOf(upto(End(t, n))) = g[n]
    BY <2>1, <2>5
  <2>7. End(t, n) = Len(t)
    BY DEF End
  <2>8. SubSeq(t, 1, Len(t)) = t
    BY SubSeqFull DEF Text
  <2> QED BY <2>3, <2>6, <2>7, <2>8 DEF inks, upto
<1> QED BY <1>5, <1>6

--------------------------------------------------------------------------------
(* Clauses. *)

\* What chunk_into_clauses makes of any text: the clauses are numbered, they are where their
\* spans say they are in the normalised text, none holds a blank line, and they are in order
\* and apart.
THEOREM ClauseSpans ==
  ASSUME NEW t \in Text
  PROVE  LET text == Normalize(t)
             cs == ChunkIntoClauses(text)
         IN  /\ cs = <<>> <=> DOMAIN cs = {}
             /\ \A i \in DOMAIN cs :
                  /\ cs[i].clause_id = i
                  /\ SubSeq(text, cs[i].start_char + 1, cs[i].end_char) = cs[i].text
                  /\ BlockStarts(cs[i].text) = {1}
                  /\ \A j \in 1..(i - 1) : cs[j].end_char < cs[i].start_char
<1> DEFINE text == Normalize(t)
           cs == ChunkIntoClauses(text)
<1>1. text \in Text /\ Tidy(text)
  BY NormalizeText
<1> HIDE DEF text
<1>2. cs = Placed(text)
  BY <1>1, ChunksInPlace
<1>3. Count(text) \in Nat
  BY <1>1, StartFacts
<1>4. DOMAIN cs = 1..Count(text) /\ (cs = <<>> <=> DOMAIN cs = {})
  <2>1. DOMAIN Placed(text) = 1..Count(text)
    BY DEF Placed
  <2>2. Placed(text) = <<>> <=> DOMAIN Placed(text) = {}
    BY DEF Placed
  <2> QED BY <1>2, <2>1, <2>2
<1>5. ASSUME NEW i \in 1..Count(text)
      PROVE  /\ cs[i].clause_id = i /\ cs[i].text = Blocks(text)[i]
             /\ cs[i].start_char = Start(text, i) - 1 /\ cs[i].end_char = LastWordOf(text, i)
  BY <1>2 DEF Placed
<1> HIDE DEF cs
<1>6. ASSUME NEW i \in DOMAIN cs
      PROVE  /\ cs[i].clause_id = i
             /\ SubSeq(text, cs[i].start_char + 1, cs[i].end_char) = cs[i].text
             /\ BlockStarts(cs[i].text) = {1}
             /\ \A j \in 1..(i - 1) : cs[j].end_char < cs[i].start_char
  <2>1. i \in 1..Count(text)
    BY <1>4
  <2>2. EndsAt(text, i, LastWordOf(text, i)) /\ Start(text, i) \in 1..Len(text)
    BY <1>1, <2>1, BlockEnds, StartFacts
  <2>3. (Start(text, i) - 1) + 1 = Start(text, i)
    BY <2>2
  <2>4. SubSeq(text, cs[i].start_char + 1, cs[i].end_char) = cs[i].text
    BY <1>5, <2>1, <2>2, <2>3 DEF EndsAt
  <2>5. BlockStarts(cs[i].text) = {1}
    BY <1>1, <1>5, <2>1, OneBlock
  <2>6. ASSUME NEW j \in 1..(i - 1)
        PROVE  cs[j].end_char < cs[i].start_char
    <3>1. j \in 1..Count(text) /\ j < i
      BY <1>3, <2>1
    <3> QED BY <1>1, <1>5, <2>1, <3>1, BlocksApart
  <2> QED BY <1>5, <2>1, <2>4, <2>5, <2>6
<1> QED BY <1>4, <1>6 DEF cs, text

\* And they have all of its words, in order, and no others: blanks are all that
\* normalize_text and the splitting of blocks drop.
THEOREM ClauseInk ==
  ASSUME NEW t \in Text
  PROVE  LET cs == ChunkIntoClauses(Normalize(t))
         IN  FlattenSeq([i \in DOMAIN cs |-> InkOf(cs[i].text)]) = InkOf(t)
<1> DEFINE text == Normalize(t)
           cs == ChunkIntoClauses(text)
<1>1. text \in Text /\ Tidy(text) /\ InkOf(text) = InkOf(t)
  BY NormalizeText
<1> HIDE DEF text
<1>2. cs = Placed(text)
  BY <1>1, ChunksInPlace
<1>3. DOMAIN cs = 1..Count(text) /\ \A i \in 1..Count(text) : cs[i].text = Blocks(text)[i]
  BY <1>2 DEF Placed
<1> HIDE DEF cs
<1>4. [i \in DOMAIN cs |-> InkOf(cs[i].text)] = [i \in 1..Count(text) |-> InkOf(Blocks(text)[i])]
  BY <1>3
<1> QED BY <1>1, <1>4, BlocksInk DEF cs, text
================================================================================
