------------------------------ MODULE Recursion ------------------------------
(***************************************************************************)
(* What a sum over a finite set is, and a fold over a sequence: facts      *)
(* about the operators of the community modules that the models are built  *)
(* from.  A fold is defined by a recursive function over the subsets of    *)
(* its domain; that there is such a function, and only one, is by          *)
(* induction over these subsets, which are well ordered by inclusion.      *)
(***************************************************************************)
EXTENDS FiniteSetsExt, FiniteSetTheorems, TLAPS

-----------------------------------------------------------------------------
(* Induction, for properties that are given as sets *)

\* A property that each subset of a finite set inherits from its own proper
\* subsets is one that all of them have.
LEMMA SubsetInduction ==
    ASSUME NEW S, IsFiniteSet(S), NEW Good \in SUBSET SUBSET S,
           \A T \in SUBSET S : (\A U \in SUBSET T : U # T => U \in Good) => T \in Good
    PROVE  Good = SUBSET S
<1>1. IsWellFoundedOn(StrictSubsetOrdering(S), SUBSET S)
  BY FS_FiniteSubsetsOfFinite, FS_StrictSubsetOrderingWellFounded
<1> DEFINE Bad == (SUBSET S) \ Good
<1>2. SUFFICES ASSUME Bad # {} PROVE FALSE
  OBVIOUS
<1>3. Bad \subseteq SUBSET S
  OBVIOUS
<1>4. PICK T \in Bad : \A U \in Bad : ~(<<U, T>> \in StrictSubsetOrdering(S))
  <2> HIDE DEF Bad
  <2> QED
    BY <1>1, <1>2, <1>3, WFMin
<1>5. \A U \in SUBSET T : U # T => U \in Good
  BY <1>4 DEF StrictSubsetOrdering
<1> QED
  BY <1>4, <1>5

\* A set of numbers with zero and the successors of its elements has them all.
LEMMA Induction ==
    ASSUME NEW Good, 0 \in Good, \A n \in Nat : n \in Good => n + 1 \in Good
    PROVE  Nat \subseteq Good
<1> SUFFICES ASSUME NEW m \in Nat PROVE m \in Good
  OBVIOUS
<1> DEFINE Below == {T \in SUBSET (0 .. m) : \A n \in 0 .. m : T = 0 .. n => n \in Good}
<1>1. IsFiniteSet(0 .. m)
  BY FS_Interval
<1>2. ASSUME NEW T \in SUBSET (0 .. m), \A U \in SUBSET T : U # T => U \in Below
      PROVE  T \in Below
  <2> SUFFICES ASSUME NEW n \in 0 .. m, T = 0 .. n PROVE n \in Good
    OBVIOUS
  <2>1. CASE n > 0
    <3>1. 0 .. n - 1 \in SUBSET T /\ 0 .. n - 1 # T /\ n - 1 \in 0 .. m
      BY <2>1
    <3>2. 0 .. n - 1 \in Below
      BY <1>2, <3>1
    <3>3. n - 1 \in Good /\ n - 1 \in Nat
      BY <2>1, <3>1, <3>2
    <3>4. (n - 1) + 1 \in Good
      BY <3>3
    <3> QED
      BY <3>4
  <2> QED
    BY <2>1
<1>3. Below = SUBSET (0 .. m)
  <2>1. Below \in SUBSET SUBSET (0 .. m)
    OBVIOUS
  <2> HIDE DEF Below
  <2> QED
    BY <1>1, <1>2, <2>1, SubsetInduction
<1>4. 0 .. m \in Below
  BY <1>3
<1> QED
  BY <1>4

-----------------------------------------------------------------------------
(* Sums *)

SumOf(w, S) == MapThenSumSet(LAMBDA x : w[x], S)

Some(s) == CHOOSE x \in s : TRUE

\* The recursive function in the definition of a sum.
SumTable(w, S, g) ==
    g = [s \in SUBSET S |-> IF s = {} THEN 0 ELSE w[Some(s)] + g[s \ {Some(s)}]]

\* Tables agree where they have entries.
LEMMA SumTablesAgree ==
    ASSUME NEW w, NEW S, NEW T, NEW f, NEW g, IsFiniteSet(S), S \subseteq T,
           SumTable(w, S, f), SumTable(w, T, g)
    PROVE  \A s \in SUBSET S : f[s] = g[s]
<1> DEFINE Good == {s \in SUBSET S : f[s] = g[s]}
<1>1. ASSUME NEW s \in SUBSET S, \A u \in SUBSET s : u # s => u \in Good
      PROVE  s \in Good
  <2>1. CASE s = {}
    BY <2>1 DEF SumTable
  <2>2. CASE s # {}
    <3>1. Some(s) \in s
      BY <2>2 DEF Some
    <3>2. s \ {Some(s)} \in Good
      BY <1>1, <3>1
    <3> QED
      BY <2>2, <3>2 DEF SumTable
  <2> QED
    BY <2>1, <2>2
<1>2. Good \in SUBSET SUBSET S
  OBVIOUS
<1>3. Good = SUBSET S
  <2> HIDE DEF Good
  <2> QED
    BY <1>1, <1>2, SubsetInduction
<1> QED
  BY <1>3

\* There is a table, with numbers in it.
LEMMA SumTableExists ==
    ASSUME NEW w, NEW S, IsFiniteSet(S), \A x \in S : w[x] \in Nat
    PROVE  \E g \in [SUBSET S -> Nat] : SumTable(w, S, g)
<1> DEFINE Right(g, s) ==
      g[s] = IF s = {} THEN 0 ELSE w[Some(s)] + g[s \ {Some(s)}]
<1> DEFINE Good == {n \in Nat : \E g \in [SUBSET S -> Nat] :
                      \A s \in SUBSET S : Cardinality(s) <= n => Right(g, s)}
<1>0. \A s \in SUBSET S : Cardinality(s) \in Nat /\ IsFiniteSet(s)
  BY FS_Subset, FS_CardinalityType
<1>1. ASSUME NEW s \in SUBSET S, s # {}
      PROVE  /\ Some(s) \in S /\ s \ {Some(s)} \in SUBSET S
             /\ Cardinality(s \ {Some(s)}) = Cardinality(s) - 1
  <2>1. Some(s) \in s
    BY <1>1 DEF Some
  <2> QED
    BY <1>0, <2>1, FS_RemoveElement
<1>2. 0 \in Good
  <2> DEFINE zero == [s \in SUBSET S |-> 0]
  <2>1. ASSUME NEW s \in SUBSET S, Cardinality(s) <= 0 PROVE Right(zero, s)
    <3>1. s = {}
      BY <1>0, <2>1, FS_EmptySet
    <3> QED
      BY <3>1
  <2>2. zero \in [SUBSET S -> Nat]
    OBVIOUS
  <2> QED
    BY <2>1, <2>2
<1>3. ASSUME NEW n \in Nat, n \in Good PROVE n + 1 \in Good
  <2>1. PICK g \in [SUBSET S -> Nat] :
             \A s \in SUBSET S : Cardinality(s) <= n => Right(g, s)
    BY <1>3
  <2> DEFINE h == [s \in SUBSET S |->
                     IF s = {} THEN 0 ELSE w[Some(s)] + g[s \ {Some(s)}]]
  <2>2. h \in [SUBSET S -> Nat]
    BY <1>1
  <2>3. ASSUME NEW s \in SUBSET S, Cardinality(s) <= n PROVE h[s] = g[s]
    BY <2>1, <2>3
  <2>4. ASSUME NEW s \in SUBSET S, Cardinality(s) <= n + 1, s # {} PROVE Right(h, s)
    <3>1. Cardinality(s \ {Some(s)}) <= n
      BY <1>0, <1>1, <2>4
    <3>2. h[s \ {Some(s)}] = g[s \ {Some(s)}]
      BY <1>1, <2>3, <2>4, <3>1
    <3> QED
      BY <2>4, <3>2
  <2>5. Right(h, {})
    OBVIOUS
  <2>6. \A s \in SUBSET S : Cardinality(s) <= n + 1 => Right(h, s)
    BY <2>4, <2>5
  <2> HIDE DEF h, Right
  <2> QED
    BY <2>2, <2>6
<1>4. Cardinality(S) \in Good
  <2> HIDE DEF Good
  <2> QED
    BY <1>0, <1>2, <1>3, Induction
<1>5. PICK g \in [SUBSET S -> Nat] : 
           \A s \in SUBSET S : Cardinality(s) <= Cardinality(S) => Right(g, s)
  BY <1>4
<1>6. \A s \in SUBSET S : Right(g, s)
  BY <1>5, FS_Subset
<1> QED
  BY <1>6 DEF SumTable

\* The sum of a set is what any table has for it.
LEMMA SumFromTable ==
    ASSUME NEW w, NEW S, NEW T, NEW g, IsFiniteSet(T), S \in SUBSET T,
           \A x \in T : w[x] \in Nat, SumTable(w, T, g)
    PROVE  SumOf(w, S) = g[S]
<1> DEFINE f == CHOOSE f : SumTable(w, S, f)
<1>1. SumOf(w, S) = f[S]
  BY DEF SumOf, MapThenSumSet, MapThenFoldSet, SumTable, Some
<1>2. IsFiniteSet(S)
  BY FS_Subset
<1>3. SumTable(w, S, f)
  BY <1>2, SumTableExists
<1> HIDE DEF f
<1> QED
  BY <1>1, <1>2, <1>3, SumTablesAgree

\* Nothing adds up to zero.
LEMMA SumEmpty ==
    ASSUME NEW w
    PROVE  SumOf(w, {}) = 0
<1>1. PICK g : SumTable(w, {}, g)
  BY FS_EmptySet, SumTableExists
<1>2. SumOf(w, {}) = g[{}]
  BY <1>1, FS_EmptySet, SumFromTable
<1> QED
  BY <1>1, <1>2 DEF SumTable

\* A sum of numbers is a number.
LEMMA SumType ==
    ASSUME NEW w, NEW S, IsFiniteSet(S), \A x \in S : w[x] \in Nat
    PROVE  SumOf(w, S) \in Nat
<1>1. PICK g \in [SUBSET S -> Nat] : SumTable(w, S, g)
  BY SumTableExists
<1>2. SumOf(w, S) = g[S]
  BY <1>1, SumFromTable
<1> QED
  BY <1>1, <1>2

\* Elements can be added in any order.
LEMMA SumAdd ==
    ASSUME NEW w, NEW S, IsFiniteSet(S), NEW y, y \notin S,
           \A x \in S \union {y} : w[x] \in Nat
    PROVE  SumOf(w, S \union {y}) = SumOf(w, S) + w[y]
<1> DEFINE T == S \union {y}
<1>1. IsFiniteSet(T)
  BY FS_AddElement
<1>2. PICK g \in [SUBSET T -> Nat] : SumTable(w, T, g)
  BY <1>1, SumTableExists
<1>3. ASSUME NEW s \in SUBSET T, s # {}
      PROVE  /\ Some(s) \in s
             /\ g[s] = w[Some(s)] + g[s \ {Some(s)}]
             /\ g[s \ {Some(s)}] \in Nat /\ w[Some(s)] \in Nat
  <2>1. Some(s) \in s
    BY <1>3 DEF Some
  <2> QED
    BY <1>2, <1>3, <2>1 DEF SumTable
<1> DEFINE Good == {s \in SUBSET T : \A z \in T \ s : g[s \union {z}] = g[s] + w[z]}
<1>4. ASSUME NEW s \in SUBSET T, \A u \in SUBSET s : u # s => u \in Good
      PROVE  s \in Good
  <2> SUFFICES ASSUME NEW z \in T \ s PROVE g[s \union {z}] = g[s] + w[z]
    OBVIOUS
  <2> DEFINE r == s \union {z}
             x == Some(r)
             u == s \ {x}
  <2>1. r \in SUBSET T /\ r # {}
    OBVIOUS
  <2>2. /\ x \in r
        /\ g[r] = w[x] + g[r \ {x}]
        /\ g[r \ {x}] \in Nat /\ w[x] \in Nat
    <3> HIDE DEF r
    <3> QED
      BY <1>3, <2>1
  <2> HIDE DEF x
  <2>3. CASE x = z
    <3>1. r \ {x} = s
      BY <2>3
    <3> QED
      BY <2>2, <2>3, <3>1
  <2>4. CASE x \in s
    <3>1. /\ r \ {x} = u \union {z} /\ u \union {x} = s
          /\ u \in Good /\ z \in T \ u /\ x \in T \ u
      BY <1>4, <2>4
    <3>2. g[u \union {z}] = g[u] + w[z] /\ g[u \union {x}] = g[u] + w[x]
      BY <3>1
    <3>3. g[u] \in Nat /\ w[z] \in Nat
      BY <1>2, <3>1
    <3> HIDE DEF r, u, Good
    <3>4. g[r] = w[x] + (g[u] + w[z]) /\ g[s] = g[u] + w[x]
      BY <2>2, <3>1, <3>2
    <3> QED
      BY <2>2, <3>3, <3>4 DEF r
  <2> QED
    BY <2>2, <2>3, <2>4
<1>5. Good \in SUBSET SUBSET T
  OBVIOUS
<1>6. Good = SUBSET T
  <2> HIDE DEF Good, T
  <2> QED
    BY <1>1, <1>4, <1>5, SubsetInduction
<1>7. g[S \union {y}] = g[S] + w[y]
  BY <1>6
<1>8. SumOf(w, S) = g[S] /\ SumOf(w, S \union {y}) = g[S \union {y}]
  BY <1>1, <1>2, SumFromTable
<1> QED
  BY <1>7, <1>8

\* Numbers are added up one after the other.
LEMMA SumUpTo ==
    ASSUME NEW w, NEW m \in Nat, \A x \in 1 .. m + 1 : w[x] \in Nat
    PROVE  SumOf(w, 1 .. m + 1) = SumOf(w, 1 .. m) + w[m + 1]
<1>1. 1 .. m + 1 = (1 .. m) \union {m + 1} /\ m + 1 \notin 1 .. m
  OBVIOUS
<1>2. \A x \in (1 .. m) \union {m + 1} : w[x] \in Nat
  BY <1>1
<1>3. IsFiniteSet(1 .. m)
  BY FS_Interval
<1>4. SumOf(w, (1 .. m) \union {m + 1}) = SumOf(w, 1 .. m) + w[m + 1]
  <2>1. PICK S, y : S = 1 .. m /\ y = m + 1
    OBVIOUS
  <2>2. IsFiniteSet(S) /\ y \notin S /\ \A x \in S \union {y} : w[x] \in Nat
    BY <1>1, <1>2, <1>3, <2>1
  <2>3. SumOf(w, S \union {y}) = SumOf(w, S) + w[y]
    BY ONLY <2>2, SumAdd
  <2> QED
    BY <2>1, <2>3
<1> QED
  BY <1>1, <1>4

\* Disjoint sets add up.
LEMMA SumUnion ==
    ASSUME NEW w, NEW A, IsFiniteSet(A), NEW B, IsFiniteSet(B), A \cap B = {},
           \A x \in A \union B : w[x] \in Nat
    PROVE  SumOf(w, A \union B) = SumOf(w, A) + SumOf(w, B)
<1> DEFINE Good == {T \in SUBSET A : SumOf(w, T \union B) = SumOf(w, T) + SumOf(w, B)}
<1>1. ASSUME NEW T \in SUBSET A, \A U \in SUBSET T : U # T => U \in Good
      PROVE  T \in Good
  <2>1. CASE T = {}
    <3>1. {} \union B = B /\ SumOf(w, {}) = 0 /\ SumOf(w, B) \in Nat
      BY SumEmpty, SumType
    <3> QED
      BY <2>1, <3>1
  <2>2. CASE T # {}
    <3>1. PICK y \in T : TRUE
      BY <2>2
    <3>2. PICK U, V : U = T \ {y} /\ V = U \union B
      OBVIOUS
    <3>3. IsFiniteSet(T) /\ IsFiniteSet(U) /\ IsFiniteSet(V)
      BY <3>2, FS_Subset, FS_Union
    <3>4. y \notin U /\ y \notin V /\ T = U \union {y} /\ T \union B = V \union {y}
      BY <3>1, <3>2
    <3>5. \A x \in V \union {y} : w[x] \in Nat
      BY <3>1, <3>2
    <3>6. SumOf(w, V \union {y}) = SumOf(w, V) + w[y]
      BY <3>3, <3>4, <3>5, SumAdd
    <3>7. \A x \in U \union {y} : w[x] \in Nat
      BY <3>2, <3>5
    <3>8. SumOf(w, U \union {y}) = SumOf(w, U) + w[y]
      BY <3>3, <3>4, <3>7, SumAdd
    <3>9. SumOf(w, V) = SumOf(w, U) + SumOf(w, B)
      BY <1>1, <3>1, <3>2
    <3>10. SumOf(w, U) \in Nat /\ SumOf(w, B) \in Nat /\ w[y] \in Nat
      BY <3>3, <3>7, SumType
    <3>11. SumOf(w, T \union B) = (SumOf(w, U) + SumOf(w, B)) + w[y]
      BY <3>4, <3>6, <3>9
    <3>12. SumOf(w, T) = SumOf(w, U) + w[y]
      BY <3>4, <3>8
    <3>13. (SumOf(w, U) + SumOf(w, B)) + w[y] = (SumOf(w, U) + w[y]) + SumOf(w, B)
      BY <3>10
    <3> QED
      BY <3>11, <3>12, <3>13
  <2> QED
    BY <2>1, <2>2
<1>2. Good \in SUBSET SUBSET A
  OBVIOUS
<1>3. Good = SUBSET A
  <2> HIDE DEF Good
  <2> QED
    BY <1>1, <1>2, SubsetInduction
<1> QED
  BY <1>3

\* No part is more than the whole.
LEMMA SumHolds ==
    ASSUME NEW w, NEW S, IsFiniteSet(S), NEW y \in S, \A x \in S : w[x] \in Nat
    PROVE  w[y] <= SumOf(w, S)
<1>1. PICK R : R = S \ {y}
  OBVIOUS
<1>2. IsFiniteSet(R) /\ R \union {y} = S /\ y \notin R /\ \A x \in R : w[x] \in Nat
  BY <1>1, FS_RemoveElement
<1>3. SumOf(w, R \union {y}) = SumOf(w, R) + w[y]
  <2>1. \A x \in R \union {y} : w[x] \in Nat
    BY <1>2
  <2> QED
    BY <1>2, <2>1, SumAdd
<1>4. SumOf(w, R) \in Nat /\ w[y] \in Nat
  BY <1>2, SumType
<1>5. SumOf(w, S) = SumOf(w, R) + w[y]
  BY <1>2, <1>3
<1> QED
  BY <1>4, <1>5

\* So many numbers that are not zero come to so much.
LEMMA SumCounts ==
    ASSUME NEW w, NEW n \in Nat, \A x \in 1 .. n : w[x] \in Nat \ {0}
    PROVE  n <= SumOf(w, 1 .. n)
<1> DEFINE Good == {m \in Nat : m <= n => m <= SumOf(w, 1 .. m) /\ SumOf(w, 1 .. m) \in Nat}
<1>1. 0 \in Good
  <2>1. 1 .. 0 = {}
    OBVIOUS
  <2> QED
    BY <2>1, SumEmpty
<1>2. ASSUME NEW m \in Nat, m \in Good PROVE m + 1 \in Good
  <2> SUFFICES ASSUME m + 1 <= n
               PROVE  m + 1 <= SumOf(w, 1 .. m + 1) /\ SumOf(w, 1 .. m + 1) \in Nat
    OBVIOUS
  <2>1. \A x \in 1 .. m + 1 : w[x] \in Nat \ {0}
    OBVIOUS
  <2>2. SumOf(w, 1 .. m + 1) = SumOf(w, 1 .. m) + w[m + 1]
    BY <2>1, SumUpTo
  <2>3. m <= SumOf(w, 1 .. m) /\ SumOf(w, 1 .. m) \in Nat
    BY <1>2
  <2>4. w[m + 1] \in Nat \ {0}
    BY <2>1
  <2> QED
    BY <2>2, <2>3, <2>4
<1>3. Nat \subseteq Good
  <2> HIDE DEF Good
  <2> QED
    BY <1>1, <1>2, Induction
<1> QED
  BY <1>3

\* Weights that are equal add up to the same.
LEMMA SumSame ==
    ASSUME NEW w, NEW v, NEW S, IsFiniteSet(S),
           \A x \in S : w[x] \in Nat /\ v[x] = w[x]
    PROVE  SumOf(v, S) = SumOf(w, S)
<1>1. PICK g \in [SUBSET S -> Nat] : SumTable(w, S, g)
  BY SumTableExists
<1>2. \A s \in SUBSET S : s # {} => v[Some(s)] = w[Some(s)]
  BY DEF Some
<1>3. SumTable(v, S, g)
  BY <1>1, <1>2 DEF SumTable
<1> QED
  BY <1>1, <1>3, SumFromTable

\* Zeros add up to zero.
LEMMA SumZero ==
    ASSUME NEW w, NEW S, IsFiniteSet(S), \A x \in S : w[x] = 0
    PROVE  SumOf(w, S) = 0
<1> DEFINE g == [s \in SUBSET S |-> 0]
<1>1. \A s \in SUBSET S : s # {} => Some(s) \in S /\ s \ {Some(s)} \in SUBSET S
  BY DEF Some
<1>2. SumTable(w, S, g)
  BY <1>1 DEF SumTable
<1>3. g[S] = 0
  OBVIOUS
<1> HIDE DEF g
<1> QED
  BY <1>2, <1>3, SumFromTable

\* One weight that grows by one adds one.
LEMMA SumBump ==
    ASSUME NEW w, NEW v, NEW S, IsFiniteSet(S), NEW y \in S,
           \A x \in S : w[x] \in Nat,
           v[y] = w[y] + 1, \A x \in S \ {y} : v[x] = w[x]
    PROVE  SumOf(v, S) = SumOf(w, S) + 1
<1> DEFINE R == S \ {y}
<1>1. IsFiniteSet(R) /\ R \union {y} = S /\ y \notin R
  BY FS_RemoveElement
<1>2. SumOf(v, R) = SumOf(w, R) /\ SumOf(w, R) \in Nat
  BY <1>1, SumSame, SumType
<1>3. \A x \in S : v[x] \in Nat
  OBVIOUS
<1> HIDE DEF R
<1>4. SumOf(w, S) = SumOf(w, R) + w[y] /\ SumOf(v, S) = SumOf(v, R) + v[y]
  BY <1>1, <1>3, SumAdd
<1> QED
  BY <1>2, <1>4

-----------------------------------------------------------------------------
(* Least and greatest numbers *)

\* A set of numbers that is not empty has a least one.
LEMMA LeastNumber ==
    ASSUME NEW S \in SUBSET Nat, S # {}
    PROVE  \E n \in S : \A m \in S : n <= m
<1> SUFFICES ASSUME \A n \in S : \E m \in S : m < n PROVE FALSE
  OBVIOUS
<1> DEFINE Good == {n \in Nat : \A m \in 0 .. n : m \notin S}
<1>1. 0 \in Good
  OBVIOUS
<1>2. ASSUME NEW n \in Nat, n \in Good PROVE n + 1 \in Good
  <2>1. n + 1 \notin S
    BY <1>2
  <2> QED
    BY <1>2, <2>1
<1>3. Nat \subseteq Good
  <2> HIDE DEF Good
  <2> QED
    BY <1>1, <1>2, Induction
<1>4. PICK n \in S : TRUE
  OBVIOUS
<1>5. n \in Good /\ n \in 0 .. n
  BY <1>3
<1> QED
  BY <1>5

\* The greatest number in a set of them.
LEMMA MaxBelow ==
    ASSUME NEW n \in Nat, NEW S \in SUBSET Nat, S # {}, \A m \in S : m <= n
    PROVE  Max(S) \in S /\ \A m \in S : m <= Max(S)
<1> DEFINE Bounds == {b \in Nat : \A m \in S : m <= b}
<1>1. n \in Bounds
  OBVIOUS
<1>2. PICK b \in Bounds : \A c \in Bounds : b <= c
  <2> HIDE DEF Bounds
  <2> QED
    BY <1>1, LeastNumber, Bounds \subseteq Nat DEF Bounds
<1>3. b \in S
  <2> SUFFICES ASSUME b \notin S PROVE FALSE
    OBVIOUS
  <2>1. b >= 1
    <3>1. PICK m \in S : TRUE
      OBVIOUS
    <3> QED
      BY <3>1
  <2>2. ASSUME NEW m \in S PROVE m <= b - 1
    <3>1. m <= b /\ m # b /\ m \in Nat
      OBVIOUS
    <3> QED
      BY <3>1
  <2>3. b - 1 \in Bounds
    BY <2>1, <2>2
  <2> QED
    BY <1>2, <2>3
<1> QED
  BY <1>3 DEF Max

\* In particular if they are in a stretch.
LEMMA MaxOf ==
    ASSUME NEW n \in Nat, NEW S \in SUBSET (1 .. n), S # {}
    PROVE  Max(S) \in S /\ \A m \in S : m <= Max(S)
<1>1. S \in SUBSET Nat /\ \A m \in S : m <= n
  OBVIOUS
<1> QED
  BY <1>1, MaxBelow

\* The greatest number of a stretch is where it ends.
LEMMA MaxOfStretch ==
    ASSUME NEW n \in Nat \ {0}
    PROVE  Max(1 .. n) = n
<1>1. 1 .. n # {} /\ n \in 1 .. n
  OBVIOUS
<1>2. Max(1 .. n) \in 1 .. n /\ \A m \in 1 .. n : m <= Max(1 .. n)
  BY <1>1, MaxOf
<1> QED
  BY <1>1, <1>2

-----------------------------------------------------------------------------
(* Folds *)

\* The recursive function in the definition of a fold over the numbers of a
\* sequence, the last of them last.
FoldTable(base, step, T, g) ==
    g = [s \in SUBSET T |-> IF s = {} THEN base ELSE step[Max(s)][g[s \ {Max(s)}]]]

\* There is one.
LEMMA FoldTableExists ==
    ASSUME NEW n \in Nat, NEW V, NEW base \in V, NEW step \in [1 .. n -> [V -> V]]
    PROVE  \E g \in [SUBSET (1 .. n) -> V] : FoldTable(base, step, 1 .. n, g)
<1> DEFINE Dom == SUBSET (1 .. n)
           Right(g, s) ==
             g[s] = IF s = {} THEN base ELSE step[Max(s)][g[s \ {Max(s)}]]
           Below(m) == {s \in Dom : \A i \in s : i <= m}
           Good == {m \in Nat : \E g \in [Dom -> V] : \A s \in Below(m) : Right(g, s)}
<1>1. ASSUME NEW s \in Dom, s # {}
      PROVE  /\ Max(s) \in s /\ Max(s) \in 1 .. n /\ s \ {Max(s)} \in Dom
             /\ \A i \in s : i <= Max(s)
  <2>1. Max(s) \in s /\ \A m \in s : m <= Max(s)
    BY <1>1, MaxOf
  <2> QED
    BY <2>1
<1>2. 0 \in Good
  <2> DEFINE all == [s \in Dom |-> base]
  <2>1. ASSUME NEW s \in Below(0) PROVE Right(all, s)
    <3>1. s = {}
      OBVIOUS
    <3> QED
      BY <3>1
  <2>2. all \in [Dom -> V]
    OBVIOUS
  <2> QED
    BY <2>1, <2>2
<1>3. ASSUME NEW m \in Nat, m \in Good PROVE m + 1 \in Good
  <2>1. PICK g \in [Dom -> V] : \A s \in Below(m) : Right(g, s)
    BY <1>3
  <2> DEFINE h == [s \in Dom |->
                     IF s = {} THEN base ELSE step[Max(s)][g[s \ {Max(s)}]]]
  <2>2. h \in [Dom -> V]
    BY <1>1
  <2>3. ASSUME NEW s \in Below(m) PROVE h[s] = g[s]
    BY <2>1, <2>3
  <2>4. ASSUME NEW s \in Below(m + 1), s # {} PROVE Right(h, s)
    <3>1. /\ s \in Dom /\ Max(s) \in 1 .. n /\ Max(s) <= m + 1
          /\ \A i \in s : i \in 1 .. n /\ i <= Max(s)
      BY <1>1, <2>4
    <3>2. \A i \in s \ {Max(s)} : i <= m
      BY <3>1
    <3>3. s \ {Max(s)} \in Below(m)
      BY <3>1, <3>2
    <3>4. h[s \ {Max(s)}] = g[s \ {Max(s)}]
      BY <2>3, <3>3
    <3> QED
      BY <2>4, <3>1, <3>4
  <2>5. \A s \in Below(m + 1) : Right(h, s)
    <3>1. Right(h, {})
      OBVIOUS
    <3> QED
      BY <2>4, <3>1
  <2> HIDE DEF h, Right, Below
  <2> QED
    BY <2>2, <2>5
<1>4. n \in Good
  <2> HIDE DEF Good
  <2> QED
    BY <1>2, <1>3, Induction
<1>5. Below(n) = Dom
  OBVIOUS
<1>6. PICK g \in [Dom -> V] : \A s \in Dom : Right(g, s)
  <2> HIDE DEF Right, Below
  <2> QED
    BY <1>4, <1>5
<1> QED
  BY <1>6 DEF FoldTable

\* It takes the numbers one by one.
LEMMA FoldTableSteps ==
    ASSUME NEW n \in Nat, NEW base, NEW step, NEW g, FoldTable(base, step, 1 .. n, g)
    PROVE  /\ g[1 .. 0] = base
           /\ \A m \in 1 .. n : g[1 .. m] = step[m][g[1 .. m - 1]]
<1>1. g[1 .. 0] = base
  <2>1. 1 .. 0 = {}
    OBVIOUS
  <2> QED
    BY <2>1 DEF FoldTable
<1>2. ASSUME NEW m \in 1 .. n PROVE g[1 .. m] = step[m][g[1 .. m - 1]]
  <2>1. /\ 1 .. m # {} /\ 1 .. m \in SUBSET (1 .. n)
        /\ (1 .. m) \ {m} = 1 .. m - 1 /\ Max(1 .. m) = m
    BY MaxOfStretch
  <2> QED
    BY <2>1 DEF FoldTable
<1> QED
  BY <1>1, <1>2

\* The values a fold takes, number by number.
Trace(base, step, n, t) ==
    t[0] = base /\ \A i \in 1 .. n : t[i] = step[i][t[i - 1]]

\* A fold has them.
LEMMA TraceExists ==
    ASSUME NEW n \in Nat, NEW V, NEW base \in V, NEW step \in [1 .. n -> [V -> V]]
    PROVE  \E t \in [0 .. n -> V] : Trace(base, step, n, t)
<1>1. PICK g \in [SUBSET (1 .. n) -> V] : FoldTable(base, step, 1 .. n, g)
  BY FoldTableExists
<1>2. /\ g[1 .. 0] = base
      /\ \A m \in 1 .. n : g[1 .. m] = step[m][g[1 .. m - 1]]
  BY <1>1, FoldTableSteps, SMTT(30)
<1> DEFINE t == [i \in 0 .. n |-> g[1 .. i]]
<1>3. t \in [0 .. n -> V]
  OBVIOUS
<1>4. Trace(base, step, n, t)
  BY <1>2 DEF Trace
<1> QED
  BY <1>3, <1>4

\* Two folds that take the same steps for a while take the same values for as
\* long.
LEMMA TracesAgree ==
    ASSUME NEW n \in Nat, NEW base, NEW step, NEW t, Trace(base, step, n, t),
           NEW m \in Nat, NEW other, NEW u, Trace(base, other, m, u),
           n <= m, \A i \in 1 .. n : other[i] = step[i]
    PROVE  \A i \in 0 .. n : u[i] = t[i]
<1> DEFINE Good == {i \in Nat : i <= n => u[i] = t[i]}
<1>1. 0 \in Good
  BY DEF Trace
<1>2. ASSUME NEW i \in Nat, i \in Good PROVE i + 1 \in Good
  <2> SUFFICES ASSUME i + 1 <= n PROVE u[i + 1] = t[i + 1]
    OBVIOUS
  <2>1. i + 1 \in 1 .. n /\ i + 1 \in 1 .. m /\ (i + 1) - 1 = i /\ u[i] = t[i]
    BY <1>2
  <2> QED
    BY <2>1 DEF Trace
<1>3. Nat \subseteq Good
  <2> HIDE DEF Good
  <2> QED
    BY <1>1, <1>2, Induction
<1> QED
  BY <1>3

\* A recursive function whose every step along the stretches stays within a set
\* stays within it.
LEMMA FoldTyped ==
    ASSUME NEW n \in Nat, NEW V, NEW f, f[{}] \in V,
           \A m \in 1 .. n : f[1 .. m - 1] \in V => f[1 .. m] \in V
    PROVE  \A m \in 0 .. n : f[1 .. m] \in V
<1> DEFINE Good == {m \in Nat : m <= n => f[1 .. m] \in V}
<1>1. 0 \in Good
  <2>1. 1 .. 0 = {}
    OBVIOUS
  <2> QED
    BY <2>1
<1>2. ASSUME NEW m \in Nat, m \in Good PROVE m + 1 \in Good
  <2> SUFFICES ASSUME m + 1 <= n PROVE f[1 .. m + 1] \in V
    OBVIOUS
  <2>1. PICK i : i = m + 1
    OBVIOUS
  <2>2. i \in 1 .. n /\ i - 1 = m /\ m <= n
    BY <2>1
  <2>3. f[1 .. i - 1] \in V
    BY <1>2, <2>2
  <2>4. f[1 .. i] \in V
    <3> HIDE DEF Good
    <3> QED
      BY <2>2, <2>3
  <2> QED
    BY <2>1, <2>4
<1>3. Nat \subseteq Good
  <2> HIDE DEF Good
  <2> QED
    BY <1>1, <1>2, Induction
<1> QED
  BY <1>3

\* The values of a recursive function along the stretches are a fold's, as far
\* as it takes the steps of one.
LEMMA FoldValues ==
    ASSUME NEW n \in Nat, NEW V, NEW base \in V, NEW step \in [1 .. n -> [V -> V]],
           NEW f, f[{}] = base,
           \A m \in 1 .. n : f[1 .. m - 1] \in V => f[1 .. m] = step[m][f[1 .. m - 1]]
    PROVE  \E t \in [0 .. n -> V] : Trace(base, step, n, t) /\ f[1 .. n] = t[n]
<1>1. 1 .. 0 = {} /\ f[1 .. 0] = base
  <2>1. 1 .. 0 = {}
    OBVIOUS
  <2> QED
    BY <2>1
<1>2. \A m \in 0 .. n : f[1 .. m] \in V
  <2>1. \A m \in 1 .. n : f[1 .. m - 1] \in V => f[1 .. m] \in V
    OBVIOUS
  <2>2. f[{}] \in V
    OBVIOUS
  <2> QED
    BY ONLY <2>1, <2>2, n \in Nat, FoldTyped
<1> DEFINE t == [i \in 0 .. n |-> f[1 .. i]]
<1>3. t \in [0 .. n -> V]
  BY <1>2
<1>4. ASSUME NEW i \in 1 .. n PROVE t[i] = step[i][t[i - 1]]
  <2>1. i \in 0 .. n /\ i - 1 \in 0 .. n /\ f[1 .. i - 1] \in V
    BY <1>3
  <2> QED
    BY <2>1
<1>5. t[0] = base /\ t[n] = f[1 .. n]
  BY <1>1
<1> HIDE DEF t
<1> QED
  BY <1>3, <1>4, <1>5 DEF Trace
=============================================================================
