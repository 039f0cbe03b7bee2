--------------------------- MODULE AllocatorProofs ---------------------------
(***************************************************************************)
(* The pool of MemPool hands no block out twice, loses none, and counts    *)
(* them right, for every set of blocks and of class sizes.  The proof      *)
(* rests on three facts about data that are proved here by induction over  *)
(* the naturals: the sizes can be sorted, the binary search ends at a      *)
(* class that fits, and a sum over a finite set does not depend on the     *)
(* order in which its elements are taken.                                  *)
(***************************************************************************)
EXTENDS MemPool, SequenceFacts, FiniteSetTheorems

-----------------------------------------------------------------------------
(* Sums over finite sets of blocks.                                        *)

\* f is the sum of size over the subsets of B, taken in the order CHOOSE takes them
Sums(size, B, f) ==
  f = [S \in SUBSET B |-> IF S = {} THEN 0
                          ELSE size[CHOOSE x \in S : TRUE] + f[S \ {CHOOSE x \in S : TRUE}]]

\* There is such a function.
LEMMA SumsExist ==
  ASSUME NEW B, IsFiniteSet(B), NEW size, \A x \in B : size[x] \in Nat
  PROVE  \E f \in [SUBSET B -> Nat] : Sums(size, B, f)
<1> DEFINE F == [SUBSET B -> Nat]
           e(S) == CHOOSE x \in S : TRUE
           G(f) == [S \in SUBSET B |-> IF S = {} THEN 0 ELSE size[e(S)] + f[S \ {e(S)}]]
           g == [f \in F |-> G(f)]
<1>1. \A S \in SUBSET B : S # {} => e(S) \in S /\ S \ {e(S)} \in SUBSET B
  OBVIOUS
<1> HIDE DEF e
<1>2. g \in [F -> F]
  BY <1>1
<1> DEFINE z == [S \in SUBSET B |-> 0]
<1>3. z \in F
  OBVIOUS
<1>4. \A f \in F : g[f] = G(f)
  OBVIOUS
<1> HIDE DEF F, g, z
<1>5. PICK h \in [Nat -> F] : Iterates(g, z, h)
  <2> HIDE DEF G
  <2> QED  BY <1>2, <1>3, IterateExists
<1>6. \A k \in Nat : h[k] \in F /\ h[k + 1] \in F /\ h[k + 1] = G(h[k])
  <2> HIDE DEF G
  <2> QED  BY <1>4, <1>5 DEF Iterates
<1> DEFINE T == {k \in Nat : \A S \in SUBSET B : Cardinality(S) <= k => h[k + 1][S] = h[k][S]}
<1>7. \A S \in SUBSET B : IsFiniteSet(S) /\ Cardinality(S) \in Nat
                          /\ (Cardinality(S) = 0 <=> S = {})
  BY FS_Subset, FS_CardinalityType, FS_EmptySet
<1>8. 0 \in T
  <2> SUFFICES ASSUME NEW S \in SUBSET B, Cardinality(S) <= 0 PROVE h[0 + 1][S] = h[0][S]
    OBVIOUS
  <2>1. S = {}
    BY <1>7
  <2>2. h[0 + 1] = G(h[0])
    BY <1>6
  <2> QED  BY <1>5, <2>1, <2>2 DEF z, Iterates
<1>9. ASSUME NEW k \in Nat, k \in T PROVE k + 1 \in T
  <2> SUFFICES ASSUME NEW S \in SUBSET B, Cardinality(S) <= k + 1
               PROVE  h[(k + 1) + 1][S] = h[k + 1][S]
    OBVIOUS
  <2>1. h[(k + 1) + 1] = G(h[k + 1]) /\ h[k + 1] = G(h[k])
    <3> HIDE DEF G
    <3> QED  BY <1>6
  <2>2. CASE S = {}
    BY <2>1, <2>2
  <2>3. CASE S # {}
    <3>1. e(S) \in S /\ S \ {e(S)} \in SUBSET B
      BY <1>1, <2>3
    <3>2. Cardinality(S \ {e(S)}) = Cardinality(S) - 1
      BY <1>7, <3>1, FS_RemoveElement
    <3>3. Cardinality(S \ {e(S)}) <= k
      BY <1>7, <3>2
    <3>4. h[k + 1][S \ {e(S)}] = h[k][S \ {e(S)}]
      BY <1>9, <3>1, <3>3
    <3>5. G(h[k + 1])[S] = size[e(S)] + h[k + 1][S \ {e(S)}]
          /\ G(h[k])[S] = size[e(S)] + h[k][S \ {e(S)}]
      BY <2>3
    <3> HIDE DEF G
    <3> QED  BY <2>1, <3>4, <3>5
  <2> QED  BY <2>2, <2>3
<1>10. Nat \subseteq T
  <2> HIDE DEF T
  <2> QED  BY <1>8, <1>9, SetInduction
<1> DEFINE m == Cardinality(B)
<1>11. m \in Nat /\ \A S \in SUBSET B : Cardinality(S) <= m
  BY FS_Subset, FS_CardinalityType
<1> HIDE DEF m
<1>12. h[m] = G(h[m])
  <2>1. \A S \in SUBSET B : h[m + 1][S] = h[m][S]
    BY <1>10, <1>11
  <2>2. h[m] \in F /\ h[m + 1] \in F /\ h[m + 1] = G(h[m])
    BY <1>6, <1>11
  <2>3. h[m + 1] = h[m]
    <3> HIDE DEF G
    <3> QED  BY <2>1, <2>2 DEF F
  <2> QED  BY <2>2, <2>3
<1>13. h[m] \in F
  BY <1>6, <1>11
<1> QED  BY <1>12, <1>13 DEF Sums, F, e

\* Of two such functions, over different sets, the values agree where the sizes do.
LEMMA SumsAgree ==
  ASSUME NEW B, NEW C, IsFiniteSet(C), NEW size1, NEW size2, NEW f1, NEW f2,
         Sums(size1, B, f1), Sums(size2, C, f2), C \subseteq B,
         \A x \in C : size1[x] = size2[x]
  PROVE  \A S \in SUBSET C : f1[S] = f2[S]
<1> DEFINE e(S) == CHOOSE x \in S : TRUE
<1>1. \A S \in SUBSET C : S # {} => e(S) \in S /\ S \ {e(S)} \in SUBSET C
  OBVIOUS
<1>2. \A S \in SUBSET C : /\ f1[S] = IF S = {} THEN 0 ELSE size1[e(S)] + f1[S \ {e(S)}]
                          /\ f2[S] = IF S = {} THEN 0 ELSE size2[e(S)] + f2[S \ {e(S)}]
  BY DEF Sums
<1> HIDE DEF e
<1>3. \A S \in SUBSET C : IsFiniteSet(S) /\ Cardinality(S) \in Nat
                          /\ (Cardinality(S) = 0 <=> S = {})
  BY FS_Subset, FS_CardinalityType, FS_EmptySet
<1> DEFINE T == {k \in Nat : \A S \in SUBSET C : Cardinality(S) <= k => f1[S] = f2[S]}
<1>4. 0 \in T
  BY <1>2, <1>3
<1>5. ASSUME NEW k \in Nat, k \in T PROVE k + 1 \in T
  <2>0. f1[{}] = f2[{}]
    BY <1>2
  <2> SUFFICES ASSUME NEW S \in SUBSET C, Cardinality(S) <= k + 1, S # {} PROVE f1[S] = f2[S]
    BY <2>0
  <2>1. e(S) \in S /\ S \ {e(S)} \in SUBSET C /\ e(S) \in C
    BY <1>1
  <2>2. Cardinality(S \ {e(S)}) = Cardinality(S) - 1
    BY <1>3, <2>1, FS_RemoveElement
  <2>3. Cardinality(S \ {e(S)}) <= k
    BY <1>3, <2>2
  <2>4. f1[S \ {e(S)}] = f2[S \ {e(S)}]
    BY <1>5, <2>1, <2>3
  <2> QED  BY <1>2, <2>1, <2>4
<1>6. Nat \subseteq T
  <2> HIDE DEF T
  <2> QED  BY <1>4, <1>5, SetInduction
<1> QED  BY <1>3, <1>6

\* The sum does not depend on which element is taken out first.
LEMMA SumsSplit ==
  ASSUME NEW B, IsFiniteSet(B), NEW size, \A x \in B : size[x] \in Nat,
         NEW f, Sums(size, B, f)
  PROVE  \A S \in SUBSET B : f[S] \in Nat /\ \A y \in S : f[S] = size[y] + f[S \ {y}]
<1> DEFINE e(S) == CHOOSE x \in S : TRUE
           Good(S) == f[S] \in Nat /\ \A y \in S : f[S] = size[y] + f[S \ {y}]
           T == {k \in Nat : \A S \in SUBSET B : Cardinality(S) <= k => Good(S)}
<1>1. \A S \in SUBSET B : S # {} => e(S) \in S
  OBVIOUS
<1>2. \A S \in SUBSET B : f[S] = IF S = {} THEN 0 ELSE size[e(S)] + f[S \ {e(S)}]
  BY DEF Sums
<1> HIDE DEF e
<1>3. \A S \in SUBSET B : IsFiniteSet(S) /\ Cardinality(S) \in Nat
                          /\ (Cardinality(S) = 0 <=> S = {})
  BY FS_Subset, FS_CardinalityType, FS_EmptySet
<1>4. Good({})
  <2>1. {} \in SUBSET B
    OBVIOUS
  <2>2. f[{}] = 0
    BY <1>2, <2>1
  <2> QED  BY <2>2
<1>5. 0 \in T
  <2> HIDE DEF Good
  <2> QED  BY <1>3, <1>4
<1>6. ASSUME NEW k \in Nat, k \in T PROVE k + 1 \in T
  <2> SUFFICES ASSUME NEW S \in SUBSET B, Cardinality(S) <= k + 1, S # {} PROVE Good(S)
    <3> HIDE DEF Good
    <3> QED  BY <1>4
  <2>1. ASSUME NEW y \in S PROVE S \ {y} \in SUBSET B /\ Good(S \ {y}) /\ size[y] \in Nat
    <3>1. Cardinality(S \ {y}) = Cardinality(S) - 1
      BY <1>3, FS_RemoveElement
    <3>2. Cardinality(S \ {y}) <= k /\ S \ {y} \in SUBSET B
      BY <1>3, <3>1
    <3> HIDE DEF Good
    <3> QED  BY <1>6, <3>2
  <2> DEFINE x == e(S)
  <2>2. x \in S /\ f[S] = size[x] + f[S \ {x}]
    BY <1>1, <1>2
  <2> HIDE DEF x
  <2>3. f[S] \in Nat
    BY <2>1, <2>2
  <2>4. ASSUME NEW y \in S, y # x PROVE f[S] = size[y] + f[S \ {y}]
    <3> DEFINE R == S \ {x, y}
    <3>1. (S \ {x}) \ {y} = R /\ (S \ {y}) \ {x} = R /\ y \in S \ {x} /\ x \in S \ {y}
      BY <2>2, <2>4
    <3>2. f[S \ {x}] = size[y] + f[R]
      BY <2>1, <2>2, <3>1
    <3>3. f[S \ {y}] = size[x] + f[R]
      BY <2>1, <2>2, <3>1
    <3>4. R \in SUBSET B /\ f[R] \in Nat
      <4>1. R \in SUBSET B /\ Cardinality((S \ {x}) \ {y}) = Cardinality(S \ {x}) - 1
                           /\ Cardinality(S \ {x}) = Cardinality(S) - 1
        BY <1>3, <2>1, <2>2, <3>1, FS_RemoveElement
      <4>2. Cardinality(R) <= k
        BY <1>3, <3>1, <4>1
      <4> QED  BY <1>6, <4>1, <4>2
    <3> HIDE DEF R
    <3>5. size[x] \in Nat /\ size[y] \in Nat
      BY <2>1, <2>2
    <3> QED  BY <2>2, <3>2, <3>3, <3>4, <3>5
  <2> QED  BY <2>2, <2>3, <2>4
<1>7. Nat \subseteq T
  <2> HIDE DEF T
  <2> QED  BY <1>5, <1>6, SetInduction
<1> QED
  <2> SUFFICES ASSUME NEW S \in SUBSET B PROVE Good(S)
    OBVIOUS
  <2> HIDE DEF Good
  <2> QED  BY <1>3, <1>7

\* Bytes is that sum.
LEMMA BytesIsSum ==
  ASSUME NEW B, IsFiniteSet(B), NEW size, \A x \in B : size[x] \in Nat
  PROVE  \E f : Sums(size, B, f) /\ Bytes(size, B) = f[B]
<1> DEFINE P(f) == f = [S \in SUBSET B |-> IF S = {} THEN 0
                          ELSE size[CHOOSE x \in S : TRUE] + f[S \ {CHOOSE x \in S : TRUE}]]
           f == CHOOSE h : P(h)
<1>1. Bytes(size, B) = f[B]
  BY DEF Bytes, MapThenSumSet, MapThenFoldSet
<1>2. PICK h \in [SUBSET B -> Nat] : Sums(size, B, h)
  BY SumsExist
<1>3. P(h)
  BY <1>2 DEF Sums
<1>4. P(f)
  <2> HIDE DEF P
  <2> QED  BY <1>3
<1>5. Sums(size, B, f)
  <2> HIDE DEF f
  <2> QED  BY <1>4 DEF Sums
<1> HIDE DEF f, P
<1> QED  BY <1>1, <1>5

\* The bytes of no block.
LEMMA BytesOfNone ==
  ASSUME NEW size PROVE Bytes(size, {}) = 0
<1>1. PICK f : Sums(size, {}, f) /\ Bytes(size, {}) = f[{}]
  BY BytesIsSum, FS_EmptySet
<1> QED  BY <1>1 DEF Sums

\* One block more.
LEMMA BytesAdd ==
  ASSUME NEW S, IsFiniteSet(S), NEW x, x \notin S, NEW size, \A y \in S \cup {x} : size[y] \in Nat
  PROVE  /\ Bytes(size, S) \in Nat
         /\ Bytes(size, S \cup {x}) = size[x] + Bytes(size, S)
<1> DEFINE B == S \cup {x}
<1>1. IsFiniteSet(B) /\ S \in SUBSET B /\ B \in SUBSET B /\ x \in B /\ B \ {x} = S /\ S \in SUBSET S
  BY FS_AddElement
<1>2. \A y \in B : size[y] \in Nat
  OBVIOUS
<1>3. \A y \in S : size[y] \in Nat
  OBVIOUS
<1> HIDE DEF B
<1>4. PICK f : Sums(size, B, f) /\ Bytes(size, B) = f[B]
  BY <1>1, <1>2, BytesIsSum
<1>5. PICK g : Sums(size, S, g) /\ Bytes(size, S) = g[S]
  BY <1>3, BytesIsSum
<1>6. f[B] = size[x] + f[B \ {x}]
  BY <1>1, <1>2, <1>4, SumsSplit
<1>7. f[S] = g[S]
  BY <1>1, <1>4, <1>5, SumsAgree
<1>8. g[S] \in Nat
  BY <1>1, <1>3, <1>5, SumsSplit
<1> QED  BY <1>1, <1>4, <1>5, <1>6, <1>7, <1>8 DEF B

\* Only the sizes of the blocks themselves matter.
LEMMA BytesSame ==
  ASSUME NEW S, IsFiniteSet(S), NEW size1, NEW size2,
         \A y \in S : size1[y] \in Nat /\ size1[y] = size2[y]
  PROVE  Bytes(size1, S) = Bytes(size2, S)
<1>1. PICK f : Sums(size1, S, f) /\ Bytes(size1, S) = f[S]
  BY BytesIsSum
<1>2. PICK g : Sums(size2, S, g) /\ Bytes(size2, S) = g[S]
  BY BytesIsSum
<1>3. f[S] = g[S]
  BY <1>1, <1>2, SumsAgree
<1> QED  BY <1>1, <1>2, <1>3

-----------------------------------------------------------------------------
(* memp_new sorts the classes, and memp_alloc finds the one for a size.    *)

\* The sizes can be sorted: one more of them can always be put in its place.
LEMMA SortExists ==
  \E f \in Bijection(1 .. n, 1 .. n) :
     \A i, j \in 1 .. n : i < j => FSize[f[i]] <= FSize[f[j]]
<1>1. n \in Nat /\ n > 0 /\ \A i \in 1 .. n : FSize[i] \in Nat
  BY MemPoolAssumption DEF n
<1> DEFINE N == 1 .. n
           Perm(f) == f \in [N -> N] /\ (\A i, j \in N : f[i] = f[j] => i = j)
                      /\ \A i \in N : \E j \in N : f[j] = i
           Upto(f, m) == \A i, j \in N : i < j /\ i <= m => FSize[f[i]] <= FSize[f[j]]
           T == {m \in Nat : m <= n => \E f \in [N -> N] : Perm(f) /\ Upto(f, m)}
<1>2. 0 \in T
  <2> DEFINE f == [i \in N |-> i]
  <2>1. f \in [N -> N] /\ Perm(f) /\ Upto(f, 0)
    BY <1>1
  <2> HIDE DEF f, Perm, Upto
  <2> QED  BY <2>1
<1>3. ASSUME NEW m \in Nat, m \in T PROVE m + 1 \in T
  <2> SUFFICES ASSUME m + 1 <= n PROVE \E f \in [N -> N] : Perm(f) /\ Upto(f, m + 1)
    <3> HIDE DEF Perm, Upto
    <3> QED  OBVIOUS
  <2>1. PICK f \in [N -> N] : Perm(f) /\ Upto(f, m)
    <3> HIDE DEF Perm, Upto
    <3>1. m <= n
      BY <1>1
    <3> QED  BY <1>3, <3>1
  <2> DEFINE c == m + 1
             M == {FSize[f[j]] : j \in c .. n}
  <2>2. c \in N /\ c \in c .. n /\ \A j \in c .. n : j \in N /\ f[j] \in N
    BY <1>1
  <2>3. M \in SUBSET Nat /\ M # {}
    BY <1>1, <2>2
  <2>4. PICK v \in M : \A w \in M : v <= w
    BY <2>3, LeastExists
  <2>5. PICK a \in c .. n : v = FSize[f[a]]
    BY <2>4
  <2>6. \A j \in c .. n : FSize[f[a]] <= FSize[f[j]]
    BY <2>4, <2>5
  <2> HIDE DEF M
  <2> DEFINE g == [i \in N |-> IF i = c THEN f[a] ELSE IF i = a THEN f[c] ELSE f[i]]
  <2>7. a \in N /\ c \in N /\ a >= c
    BY <1>1, <2>2
  <2>8. g \in [N -> N]
    BY <2>2, <2>7
  <2>9. Perm(g)
    <3>1. \A i, j \in N : g[i] = g[j] => i = j
      BY <2>1, <2>7
    <3>2. \A i \in N : \E j \in N : g[j] = i
      <4> SUFFICES ASSUME NEW i \in N PROVE \E j \in N : g[j] = i
        OBVIOUS
      <4>1. PICK j \in N : f[j] = i
        BY <2>1
      <4>2. g[a] = f[c] /\ g[c] = f[a] /\ (j # a /\ j # c => g[j] = f[j])
        BY <2>7
      <4> HIDE DEF g
      <4> QED  BY <2>7, <4>1, <4>2
    <3> QED  BY <2>8, <3>1, <3>2
  <2>10. Upto(g, m + 1)
    <3> SUFFICES ASSUME NEW i \in N, NEW j \in N, i < j, i <= m + 1
                 PROVE  FSize[g[i]] <= FSize[g[j]]
      OBVIOUS
    <3>1. CASE i = c
      <4>1. PICK k \in c .. n : g[j] = f[k]
        <5>1. j \in c .. n
          BY <1>1, <3>1
        <5> QED  BY <2>2, <2>7, <5>1
      <4>2. g[i] = f[a]
        BY <3>1
      <4> QED  BY <2>6, <4>1, <4>2
    <3>2. CASE i # c
      <4>1. i <= m /\ i # a /\ g[i] = f[i]
        BY <1>1, <2>7, <3>2
      <4>2. PICK k \in N : i < k /\ g[j] = f[k]
        BY <1>1, <2>7, <4>1
      <4> QED  BY <2>1, <4>1, <4>2
    <3> QED  BY <3>1, <3>2
  <2> HIDE DEF g, Perm, Upto
  <2> QED  BY <2>8, <2>9, <2>10
<1>4. Nat \subseteq T
  <2> HIDE DEF T
  <2> QED  BY <1>2, <1>3, SetInduction
<1>5. PICK f \in [N -> N] : Perm(f) /\ Upto(f, n)
  <2> HIDE DEF Perm, Upto
  <2>1. n \in T /\ n <= n
    <3> HIDE DEF T
    <3> QED  BY <1>1, <1>4
  <2> QED  BY <2>1
<1>6. f \in Bijection(N, N)
  BY <1>5 DEF Bijection, Injection, Surjection, IsInjective
<1>7. \A i, j \in N : i < j => FSize[f[i]] <= FSize[f[j]]
  BY <1>1, <1>5
<1> QED  BY <1>6, <1>7

\* The classes are sorted, and each has a size.
LEMMA SizesSorted ==
  /\ n \in Nat /\ n > 0 /\ BIG = n + 1
  /\ \A i \in 1 .. n : Size[i] \in Nat /\ Size[i] > 0
  /\ \A i, j \in 1 .. n : i <= j => Size[i] <= Size[j]
<1>1. n \in Nat /\ n > 0 /\ BIG = n + 1 /\ \A i \in 1 .. n : FSize[i] \in Nat /\ FSize[i] > 0
  BY MemPoolAssumption DEF n, BIG
<1> DEFINE N == 1 .. n
           C == {[i \in 1 .. n |-> FSize[f[i]]] : f \in Bijection(1 .. n, 1 .. n)}
           Sorted(s) == \A i, j \in 1 .. n : i < j => s[i] <= s[j]
<1>2. \E s \in C : Sorted(s)
  <2>1. PICK f \in Bijection(1 .. n, 1 .. n) :
               \A i, j \in 1 .. n : i < j => FSize[f[i]] <= FSize[f[j]]
    BY SortExists
  <2> DEFINE s == [i \in 1 .. n |-> FSize[f[i]]]
  <2>2. s \in C /\ Sorted(s)
    BY <2>1
  <2> HIDE DEF s, C, Sorted
  <2> QED  BY <2>2
<1>3. Size \in C /\ Sorted(Size)
  <2>1. Size = CHOOSE s \in C : Sorted(s)
    BY DEF Size
  <2> HIDE DEF C, Sorted
  <2> QED  BY <1>2, <2>1
<1>4. PICK f \in Bijection(1 .. n, 1 .. n) : Size = [i \in 1 .. n |-> FSize[f[i]]]
  BY <1>3
<1>5. f \in [1 .. n -> 1 .. n]
  BY DEF Bijection, Injection
<1>6. \A i \in 1 .. n : Size[i] \in Nat /\ Size[i] > 0
  BY <1>1, <1>4, <1>5
<1>7. \A i, j \in 1 .. n : i <= j => Size[i] <= Size[j]
  <2> SUFFICES ASSUME NEW i \in 1 .. n, NEW j \in 1 .. n, i <= j PROVE Size[i] <= Size[j]
    OBVIOUS
  <2>1. CASE i = j
    BY <1>6, <2>1
  <2>2. CASE i # j
    BY <1>1, <1>3, <2>2
  <2> QED  BY <2>1, <2>2
<1> QED  BY <1>1, <1>6, <1>7

\* the ranges binary_search can be at
SearchRange == [left : 0 .. n - 1, right : -1 .. n - 1]

\* A turn stays within the array, and what lies right of the range is big enough;
\* the range shrinks until the loop ends.
LEMMA TurnNarrows ==
  ASSUME NEW size \in Nat, NEW at \in SearchRange, at.left <= at.right + 1,
         \A j \in 0 .. n - 1 : j > at.right => Size[j + 1] >= size
  PROVE  LET to == Turn(size, at) IN
         /\ to \in SearchRange /\ to.left <= to.right + 1
         /\ \A j \in 0 .. n - 1 : j > to.right => Size[j + 1] >= size
         /\ to.left >= to.right \/ to.right - to.left < at.right - at.left
<1> USE SizesSorted
<1> DEFINE to == Turn(size, at)
           mid == (at.left + at.right) \div 2
<1>1. at.left \in 0 .. n - 1 /\ at.right \in -1 .. n - 1
      /\ at = [left |-> at.left, right |-> at.right]
  BY DEF SearchRange
<1>2. CASE at.left >= at.right
  BY <1>1, <1>2 DEF Turn
<1>3. CASE at.left < at.right
  <2>1. mid \in 0 .. n - 1 /\ at.left <= mid /\ mid < at.right /\ mid + 1 \in 1 .. n
    BY <1>1, <1>3
  <2>2. Size[mid + 1] \in Nat
    BY <2>1
  <2> HIDE DEF mid
  <2>3. CASE Size[mid + 1] = size
    <3>1. to = [left |-> mid, right |-> mid]
      BY <1>1, <1>3, <2>3 DEF Turn, mid
    <3>2. \A j \in 0 .. n - 1 : j > mid => Size[j + 1] >= size
      <4> SUFFICES ASSUME NEW j \in 0 .. n - 1, j > mid PROVE Size[j + 1] >= size
        OBVIOUS
      <4>1. j + 1 \in 1 .. n /\ mid + 1 <= j + 1
        BY <2>1
      <4>2. Size[mid + 1] <= Size[j + 1] /\ Size[j + 1] \in Nat
        BY <2>1, <4>1
      <4> QED  BY <2>3, <4>2
    <3>3. to \in SearchRange
      BY <2>1, <3>1 DEF SearchRange
    <3> HIDE DEF to
    <3>4. to.left = mid /\ to.right = mid
      BY <3>1
    <3>5. to.left <= to.right + 1 /\ to.left >= to.right
      BY <2>1, <3>4
    <3> QED  BY <3>2, <3>3, <3>4, <3>5 DEF to
  <2>4. CASE Size[mid + 1] # size /\ Size[mid + 1] < size
    <3>1. to = [left |-> mid + 1, right |-> at.right]
      BY <1>1, <1>3, <2>4 DEF Turn, mid
    <3>2. to \in SearchRange
      BY <1>1, <2>1, <3>1 DEF SearchRange
    <3> HIDE DEF to
    <3>3. to.left = mid + 1 /\ to.right = at.right
      BY <3>1
    <3>4. to.left <= to.right + 1 /\ to.right - to.left < at.right - at.left
      BY <1>1, <2>1, <3>3
    <3> QED  BY <3>2, <3>3, <3>4 DEF to
  <2>5. CASE Size[mid + 1] # size /\ ~(Size[mid + 1] < size)
    <3>1. to = [left |-> at.left, right |-> mid - 1]
      BY <1>1, <1>3, <2>5 DEF Turn, mid
    <3>2. to \in SearchRange
      BY <1>1, <2>1, <3>1 DEF SearchRange
    <3> HIDE DEF to
    <3>3. to.left = at.left /\ to.right = mid - 1
      BY <3>1
    <3>4. to.left <= to.right + 1 /\ to.right - to.left < at.right - at.left
      BY <1>1, <2>1, <3>3
    <3>5. ASSUME NEW j \in 0 .. n - 1, j > mid - 1 PROVE Size[j + 1] >= size
      <4>1. j + 1 \in 1 .. n /\ mid + 1 <= j + 1
        BY <2>1, <3>5
      <4>2. Size[mid + 1] <= Size[j + 1] /\ Size[j + 1] \in Nat
        BY <2>1, <4>1
      <4>3. Size[mid + 1] >= size
        BY <2>2, <2>5
      <4> QED  BY <2>2, <4>2, <4>3
    <3> QED  BY <3>2, <3>3, <3>4, <3>5 DEF to
  <2> QED  BY <2>3, <2>4, <2>5
<1> QED  BY <1>1, <1>2, <1>3

\* The loop ends with nothing too small to the right of where it stopped.
LEMMA BisectEnds ==
  ASSUME NEW size \in Nat
  PROVE  \E r \in -1 .. n - 1 :
           /\ Bisect(size) \in 0 .. n - 1
           /\ Bisect(size) >= r /\ Bisect(size) <= r + 1
           /\ \A j \in 0 .. n - 1 : j > r => Size[j + 1] >= size
<1> USE SizesSorted
<1> DEFINE z == [left |-> 0, right |-> n - 1]
           g == [at \in SearchRange |-> IF Turn(size, at) \in SearchRange THEN Turn(size, at) ELSE at]
           Q(at) == /\ at \in SearchRange /\ at.left <= at.right + 1
                    /\ \A j \in 0 .. n - 1 : j > at.right => Size[j + 1] >= size
           P(f) == f = [k \in Nat |-> IF k = 0 THEN z ELSE Turn(size, f[k - 1])]
           f == CHOOSE h : P(h)
<1>1. z \in SearchRange /\ Q(z)
  BY DEF SearchRange
<1>2. g \in [SearchRange -> SearchRange]
  OBVIOUS
<1>3. \A at \in SearchRange : Q(at) =>
         Q(Turn(size, at)) /\ g[at] = Turn(size, at)
         /\ (\/ Turn(size, at).left >= Turn(size, at).right
             \/ Turn(size, at).right - Turn(size, at).left < at.right - at.left)
  BY TurnNarrows
<1>4. Bisect(size) = f[n].left
  BY DEF Bisect
<1> HIDE DEF g, z, Q
<1>5. PICK h \in [Nat -> SearchRange] : Iterates(g, z, h)
  BY <1>1, <1>2, IterateExists
<1> DEFINE Near(k) == h[k].left >= h[k].right \/ h[k].right - h[k].left <= n - 1 - k
           T == {k \in Nat : Q(h[k]) /\ h[k + 1] = Turn(size, h[k]) /\ Near(k)}
<1>6. 0 \in T
  <2>1. h[0] = z
    BY <1>5 DEF Iterates
  <2>2. h[0 + 1] = g[h[0]]
    BY <1>5 DEF Iterates
  <2>3. Q(h[0]) /\ h[0 + 1] = Turn(size, h[0])
    BY <1>1, <1>3, <2>1, <2>2
  <2>4. Near(0)
    BY <2>1 DEF z
  <2> QED  BY <2>3, <2>4
<1>7. ASSUME NEW k \in Nat, k \in T PROVE k + 1 \in T
  <2>1. Q(h[k + 1]) /\ g[h[k + 1]] = Turn(size, h[k + 1])
    BY <1>3, <1>5, <1>7
  <2>2. h[(k + 1) + 1] = g[h[k + 1]]
    BY <1>5 DEF Iterates
  <2>3. Near(k + 1)
    <3>1. h[k] \in SearchRange /\ h[k + 1] \in SearchRange /\ Q(h[k])
      BY <1>7
    <3>2. h[k].left \in Int /\ h[k].right \in Int /\ h[k + 1].left \in Int /\ h[k + 1].right \in Int
      BY <3>1 DEF SearchRange
    <3>3. \/ h[k + 1].left >= h[k + 1].right
          \/ h[k + 1].right - h[k + 1].left < h[k].right - h[k].left
      BY <1>3, <1>7, <3>1
    <3>4. CASE h[k].left >= h[k].right
      <4>1. h[k + 1] = h[k]
        BY <1>7, <3>4 DEF Turn
      <4> QED  BY <3>4, <4>1
    <3>5. CASE h[k].right - h[k].left <= n - 1 - k
      BY <3>2, <3>3, <3>5
    <3> QED  BY <1>7, <3>4, <3>5
  <2> QED  BY <2>1, <2>2, <2>3
<1>8. Nat \subseteq T
  <2> HIDE DEF T
  <2> QED  BY <1>6, <1>7, SetInduction
<1>9. P(h)
  <2>1. h[0] = z /\ \A k \in Nat : h[k + 1] = Turn(size, h[k])
    BY <1>5, <1>8 DEF Iterates
  <2>2. \A k \in Nat : h[k] = IF k = 0 THEN z ELSE Turn(size, h[k - 1])
    <3> SUFFICES ASSUME NEW k \in Nat, k # 0 PROVE h[k] = Turn(size, h[k - 1])
      BY <2>1
    <3>1. k - 1 \in Nat /\ (k - 1) + 1 = k
      OBVIOUS
    <3> QED  BY <2>1, <3>1
  <2> QED  BY <2>2
<1>10. P(f)
  <2> HIDE DEF P
  <2> QED  BY <1>9
<1> HIDE DEF f
<1>11. \A k \in Nat : f[k] = h[k]
  <2> DEFINE U == {k \in Nat : f[k] = h[k]}
  <2>1. 0 \in U
    BY <1>9, <1>10
  <2>2. ASSUME NEW k \in Nat, k \in U PROVE k + 1 \in U
    <3>1. k + 1 \in Nat /\ (k + 1) - 1 = k /\ k + 1 # 0
      OBVIOUS
    <3>2. f[k + 1] = Turn(size, f[(k + 1) - 1]) /\ h[k + 1] = Turn(size, h[(k + 1) - 1])
      BY <1>9, <1>10, <3>1
    <3> QED  BY <2>2, <3>1, <3>2
  <2>3. Nat \subseteq U
    <3> HIDE DEF U
    <3> QED  BY <2>1, <2>2, SetInduction
  <2> QED  BY <2>3
<1>12. Bisect(size) = h[n].left /\ Q(h[n]) /\ Near(n)
  BY <1>4, <1>8, <1>11
<1>13. h[n].left \in 0 .. n - 1 /\ h[n].right \in -1 .. n - 1
  BY DEF SearchRange
<1>14. h[n].left >= h[n].right /\ h[n].left <= h[n].right + 1
       /\ \A j \in 0 .. n - 1 : j > h[n].right => Size[j + 1] >= size
  BY <1>12, <1>13 DEF Q
<1> QED  BY <1>12, <1>13, <1>14

\* memp_alloc's class: big enough, and none only when the size is above all of them.
LEMMA ClassFits ==
  ASSUME NEW size \in Nat
  PROVE  /\ ClassOf(size) \in 1 .. BIG
         /\ ClassOf(size) = BIG <=> size > Size[n]
         /\ ClassOf(size) < BIG => Size[ClassOf(size)] >= size
<1> USE SizesSorted
<1> DEFINE l == Bisect(size)
<1>1. PICK r \in -1 .. n - 1 : l \in 0 .. n - 1 /\ l >= r /\ l <= r + 1
                               /\ \A j \in 0 .. n - 1 : j > r => Size[j + 1] >= size
  BY BisectEnds
<1>2. ClassOf(size) = IF Size[l + 1] < size THEN l + 2 ELSE l + 1
  BY <1>1 DEF ClassOf
<1> HIDE DEF l
<1>3. l + 1 \in 1 .. n /\ Size[l + 1] \in Nat /\ Size[n] \in Nat /\ Size[l + 1] <= Size[n]
  BY <1>1
<1>4. CASE ~(Size[l + 1] < size)
  BY <1>2, <1>3, <1>4
<1>5. CASE Size[l + 1] < size
  <2>1. l = r
    BY <1>1, <1>3, <1>5
  <2>2. CASE l = n - 1
    BY <1>2, <1>5, <2>2
  <2>3. CASE l # n - 1
    <3>1. l + 1 \in 0 .. n - 1 /\ l + 1 > r
      BY <1>1, <2>1, <2>3
    <3>2. Size[(l + 1) + 1] >= size
      <4> DEFINE k == l + 1
      <4>1. k \in 0 .. n - 1 /\ k > r
        BY <3>1
      <4> HIDE DEF k
      <4>2. Size[k + 1] >= size
        BY <1>1, <4>1
      <4> QED  BY <4>2 DEF k
    <3>3. l + 2 \in 1 .. n /\ (l + 1) + 1 = l + 2
      BY <1>1, <3>1
    <3>4. Size[l + 2] \in Nat /\ Size[l + 2] <= Size[n] /\ Size[l + 2] >= size
      BY <3>2, <3>3
    <3>5. ClassOf(size) = l + 2 /\ ClassOf(size) < BIG /\ ~(size > Size[n])
      BY <1>2, <1>3, <1>5, <3>3, <3>4
    <3> QED  BY <3>3, <3>4, <3>5
  <2> QED  BY <2>2, <2>3
<1> QED  BY <1>4, <1>5

-----------------------------------------------------------------------------
(* The invariant of a pool.                                                *)

Word == Block \cup {NULL} \cup 1 .. BIG
Callers == UNION {[S -> Nat] : S \in SUBSET Block}

PoolType ==
  [header : [1 .. n -> Block \cup {NULL}], p : [Block -> Word], cap : [Block -> Nat],
   used : Int, empty : Int, held : Callers]

\* what a caller holds is malloc'd, big enough and of the class it remembers
Fits(s) ==
  \A b \in DOMAIN s.held :
     /\ s.cap[b] > 0 /\ s.cap[b] >= s.held[b]
     /\ s.p[b] \in 1 .. BIG
     /\ s.p[b] = BIG <=> s.cap[b] > Size[n]
     /\ s.p[b] # BIG => s.cap[b] = Size[s.p[b]]

\* Each other block is on the list of the class c[b] with d[b] blocks below it:
\* the next one is of the same class and one less deep, the header of a list is
\* the deepest, and no two blocks of a class are equally deep.
Stacked(s, c, d) ==
  /\ \A b \in Block : c[b] # 0 <=> (s.cap[b] > 0 /\ b \notin DOMAIN s.held)
  /\ \A b \in Block : c[b] # 0 =>
        /\ s.cap[b] = Size[c[b]]
        /\ IF d[b] = 0 THEN s.p[b] = NULL
           ELSE s.p[b] \in Block /\ c[s.p[b]] = c[b] /\ d[s.p[b]] = d[b] - 1
  /\ \A i \in 1 .. n :
        IF s.header[i] = NULL THEN \A b \in Block : c[b] # i
        ELSE c[s.header[i]] = i /\ \A b \in Block : c[b] = i => d[b] <= d[s.header[i]]
  /\ \A a, b \in Block : c[a] # 0 /\ c[a] = c[b] /\ d[a] = d[b] => a = b

Sound(s) ==
  /\ s \in PoolType /\ Fits(s)
  /\ \E c \in [Block -> 0 .. n], d \in [Block -> Nat] : Stacked(s, c, d)

InClasses(s) == {b \in DOMAIN s.held : s.p[b] # BIG}
OnLists(s) == {b \in Block : s.cap[b] > 0} \ DOMAIN s.held

Counted(s) ==
  /\ s.used = Bytes(s.cap, InClasses(s))
  /\ s.empty = Bytes(s.cap, OnLists(s))

\* The fields of a pool.
LEMMA PoolFields ==
  ASSUME NEW s \in PoolType
  PROVE  /\ s.header \in [1 .. n -> Block \cup {NULL}] /\ s.p \in [Block -> Word]
         /\ s.cap \in [Block -> Nat] /\ s.used \in Int /\ s.empty \in Int
         /\ s.held \in Callers /\ DOMAIN s.held \subseteq Block
         /\ \A b \in DOMAIN s.held : s.held[b] \in Nat
<1>1. s.held \in Callers
  BY DEF PoolType
<1>2. PICK S \in SUBSET Block : s.held \in [S -> Nat]
  BY <1>1 DEF Callers
<1> QED  BY <1>1, <1>2 DEF PoolType

\* What callers hold after one more block, or one less.
LEMMA HeldAfter ==
  ASSUME NEW h \in Callers, NEW b \in Block, NEW size \in Nat
  PROVE  /\ [c \in DOMAIN h \cup {b} |-> IF c = b THEN size ELSE h[c]] \in Callers
         /\ [c \in DOMAIN h \ {b} |-> h[c]] \in Callers
<1>1. PICK S \in SUBSET Block : h \in [S -> Nat]
  BY DEF Callers
<1>2. DOMAIN h = S /\ S \cup {b} \in SUBSET Block /\ S \ {b} \in SUBSET Block
  BY <1>1
<1>3. [c \in DOMAIN h \cup {b} |-> IF c = b THEN size ELSE h[c]] \in [S \cup {b} -> Nat]
  BY <1>1, <1>2
<1>4. [c \in DOMAIN h \ {b} |-> h[c]] \in [S \ {b} -> Nat]
  BY <1>1, <1>2
<1> QED  BY <1>2, <1>3, <1>4 DEF Callers

\* The walk of memp_destroy, turn by turn.
LEMMA WalkSteps ==
  ASSUME NEW q \in [Block -> Word], NEW h \in Word
  PROVE  /\ Walk(q, h)[0] = h
         /\ \A k \in Nat : Walk(q, h)[k + 1] =
                             IF Walk(q, h)[k] \in Block THEN q[Walk(q, h)[k]] ELSE Walk(q, h)[k]
<1> DEFINE g == [x \in Word |-> IF x \in Block THEN q[x] ELSE x]
           P(f) == f = [k \in Nat |-> IF k = 0 THEN h
                                      ELSE IF f[k - 1] \in Block THEN q[f[k - 1]] ELSE f[k - 1]]
           f == CHOOSE w : P(w)
<1>1. g \in [Word -> Word]
  OBVIOUS
<1>2. \A x \in Word : g[x] = IF x \in Block THEN q[x] ELSE x
  OBVIOUS
<1>3. Walk(q, h) = f
  BY DEF Walk, Follow
<1> HIDE DEF g
<1>4. PICK w \in [Nat -> Word] : Iterates(g, h, w)
  BY <1>1, IterateExists
<1>5. P(w)
  <2>1. w[0] = h /\ \A k \in Nat : w[k + 1] = IF w[k] \in Block THEN q[w[k]] ELSE w[k]
    BY <1>2, <1>4 DEF Iterates
  <2>2. ASSUME NEW k \in Nat
        PROVE  w[k] = IF k = 0 THEN h ELSE IF w[k - 1] \in Block THEN q[w[k - 1]] ELSE w[k - 1]
    <3>1. CASE k = 0
      BY <2>1, <3>1
    <3>2. CASE k # 0
      <4>1. k - 1 \in Nat /\ (k - 1) + 1 = k
        BY <3>2
      <4> QED  BY <2>1, <3>2, <4>1
    <3> QED  BY <3>1, <3>2
  <2> QED  BY <2>2
<1>6. P(f)
  <2> HIDE DEF P
  <2> QED  BY <1>5
<1> HIDE DEF f
<1>7. f[0] = h
  BY <1>6
<1>8. ASSUME NEW k \in Nat PROVE f[k + 1] = IF f[k] \in Block THEN q[f[k]] ELSE f[k]
  <2>1. k + 1 \in Nat /\ (k + 1) - 1 = k /\ k + 1 # 0
    OBVIOUS
  <2> QED  BY <1>6, <2>1
<1> QED  BY <1>3, <1>7, <1>8

\* A list ends within as many turns as there are blocks, and has the blocks of its class.
LEMMA WalkLists ==
  ASSUME NEW s \in PoolType, NEW c \in [Block -> 0 .. n], NEW d \in [Block -> Nat],
         Stacked(s, c, d), NEW i \in 1 .. n
  PROVE  /\ Walk(s.p, s.header[i])[Cardinality(Block)] = NULL
         /\ {b \in Block : \E k \in 0 .. Cardinality(Block) : Walk(s.p, s.header[i])[k] = b}
              = {b \in Block : c[b] = i}
<1> DEFINE w == Walk(s.p, s.header[i])
           m == Cardinality(Block)
           h == s.header[i]
<1>1. s.p \in [Block -> Word] /\ h \in Block \cup {NULL} /\ h \in Word
  BY PoolFields DEF Word
<1>2. w[0] = h /\ \A k \in Nat : w[k + 1] = IF w[k] \in Block THEN s.p[w[k]] ELSE w[k]
  BY <1>1, WalkSteps
<1>3. NULL \notin Block /\ m \in Nat /\ IsFiniteSet(Block)
  BY MemPoolAssumption, FS_CardinalityType
<1> HIDE DEF w, m
<1>4. CASE h = NULL
  <2> DEFINE T == {k \in Nat : w[k] = NULL}
  <2>1. 0 \in T
    BY <1>2, <1>4
  <2>2. ASSUME NEW k \in Nat, k \in T PROVE k + 1 \in T
    BY <1>2, <1>3, <2>2
  <2>3. Nat \subseteq T
    <3> HIDE DEF T
    <3> QED  BY <2>1, <2>2, SetInduction
  <2>4. \A k \in Nat : w[k] = NULL
    BY <2>3
  <2>5. \A b \in Block : c[b] # i
    BY <1>4 DEF Stacked
  <2>6. {b \in Block : \E k \in 0 .. m : w[k] = b} = {b \in Block : c[b] = i}
    BY <1>3, <2>4, <2>5
  <2> QED  BY <1>3, <2>4, <2>6 DEF w, m
<1>5. CASE h # NULL
  <2> DEFINE D == d[h]
             On(k) == w[k] \in Block /\ c[w[k]] = i /\ d[w[k]] = D - k
             T == {k \in Nat : IF k <= D THEN On(k) ELSE w[k] = NULL}
  <2>1. h \in Block /\ c[h] = i /\ D \in Nat /\ \A b \in Block : c[b] = i => d[b] <= D
    BY <1>1, <1>5 DEF Stacked
  <2> HIDE DEF D
  <2>2. 0 \in T
    BY <1>2, <2>1 DEF D
  <2>3. ASSUME NEW k \in Nat, k \in T PROVE k + 1 \in T
    <3>1. CASE k < D
      <4>1. On(k) /\ d[w[k]] # 0 /\ c[w[k]] # 0
        BY <2>1, <2>3, <3>1
      <4>2. s.p[w[k]] \in Block /\ c[s.p[w[k]]] = c[w[k]] /\ d[s.p[w[k]]] = d[w[k]] - 1
        BY <4>1 DEF Stacked
      <4>3. w[k + 1] = s.p[w[k]]
        BY <1>2, <4>1
      <4>4. On(k + 1) /\ k + 1 <= D
        BY <2>1, <3>1, <4>1, <4>2, <4>3
      <4> QED  BY <4>4
    <3>2. CASE k = D
      <4>1. On(k) /\ d[w[k]] = 0 /\ c[w[k]] # 0
        BY <2>1, <2>3, <3>2
      <4>2. s.p[w[k]] = NULL
        BY <4>1 DEF Stacked
      <4>3. w[k + 1] = NULL
        BY <1>2, <4>1, <4>2
      <4> QED  BY <2>1, <3>2, <4>3
    <3>3. CASE k > D
      <4>1. w[k] = NULL
        BY <2>1, <2>3, <3>3
      <4>2. w[k + 1] = NULL
        BY <1>2, <1>3, <4>1
      <4> QED  BY <2>1, <3>3, <4>2
    <3> QED  BY <2>1, <3>1, <3>2, <3>3
  <2>4. Nat \subseteq T
    <3> HIDE DEF T
    <3> QED  BY <2>2, <2>3, SetInduction
  <2>5. /\ \A k \in 0 .. D : On(k)
        /\ \A k \in Nat : k > D => w[k] = NULL
    BY <2>1, <2>4
  <2>6. D < m
    <3> DEFINE f == [k \in 0 .. D |-> w[k]]
    <3>1. f \in [0 .. D -> Block]
      BY <2>5
    <3>2. \A k, l \in 0 .. D : f[k] = f[l] => k = l
      <4> SUFFICES ASSUME NEW k \in 0 .. D, NEW l \in 0 .. D, w[k] = w[l] PROVE k = l
        OBVIOUS
      <4>1. d[w[k]] = D - k /\ d[w[l]] = D - l
        BY <2>5
      <4> QED  BY <2>1, <4>1
    <3>3. f \in Injection(0 .. D, Block)
      BY <3>1, <3>2 DEF Injection, IsInjective
    <3>4. Cardinality(0 .. D) <= m
      BY <1>3, <3>3, FS_Injection DEF m
    <3>5. Cardinality(0 .. D) = D - 0 + 1
      BY <2>1, FS_Interval
    <3> QED  BY <1>3, <2>1, <3>4, <3>5
  <2>7. w[m] = NULL
    BY <1>3, <2>5, <2>6
  <2>8. ASSUME NEW b \in Block PROVE (\E k \in 0 .. m : w[k] = b) <=> c[b] = i
    <3>1. ASSUME NEW k \in 0 .. m, w[k] = b PROVE c[b] = i
      <4>1. k <= D
        BY <1>3, <2>1, <2>5, <3>1
      <4> QED  BY <1>3, <2>1, <2>5, <3>1, <4>1
    <3>2. ASSUME c[b] = i PROVE \E k \in 0 .. m : w[k] = b
      <4> DEFINE k == D - d[b]
      <4>1. k \in 0 .. D /\ k \in 0 .. m /\ D - k = d[b]
        BY <1>3, <2>1, <2>6, <3>2
      <4> HIDE DEF k
      <4>2. On(k)
        BY <2>5, <4>1
      <4>3. w[k] = b
        BY <3>2, <4>1, <4>2 DEF Stacked
      <4> QED  BY <4>1, <4>3
    <3> QED  BY <3>1, <3>2
  <2> QED  BY <2>7, <2>8 DEF w, m
<1> QED  BY <1>4, <1>5

-----------------------------------------------------------------------------
(* What each way to change a pool keeps, told by the fields it changes.    *)

Holding(h, b, size) == [x \in DOMAIN h \cup {b} |-> IF x = b THEN size ELSE h[x]]
Without(h, b) == [x \in DOMAIN h \ {b} |-> h[x]]

\* The sets a pool's counters add up are finite, and their blocks have sizes.
LEMMA CountedSets ==
  ASSUME NEW s \in PoolType
  PROVE  /\ IsFiniteSet(InClasses(s)) /\ IsFiniteSet(OnLists(s))
         /\ InClasses(s) \subseteq Block /\ OnLists(s) \subseteq Block
         /\ \A b \in Block : s.cap[b] \in Nat
<1>1. IsFiniteSet(Block)
  BY MemPoolAssumption
<1>2. InClasses(s) \in SUBSET Block /\ OnLists(s) \in SUBSET Block
  BY PoolFields DEF InClasses, OnLists
<1>3. \A b \in Block : s.cap[b] \in Nat
  BY PoolFields
<1> QED  BY <1>1, <1>2, <1>3, FS_Subset

\* malloc returns a block that goes to a caller.
LEMMA FreshSound ==
  ASSUME NEW s, NEW t \in PoolType, NEW b \in Block, NEW i \in 1 .. BIG, NEW c \in Nat,
         NEW size \in Nat, Sound(s), s.cap[b] = 0,
         c > 0, c >= size, i = BIG <=> c > Size[n], i # BIG => c = Size[i],
         t.header = s.header, t.p = [s.p EXCEPT ![b] = i], t.cap = [s.cap EXCEPT ![b] = c],
         t.held = Holding(s.held, b, size),
         t.used = s.used + (IF i = BIG THEN 0 ELSE c), t.empty = s.empty
  PROVE  Sound(t) /\ (Counted(s) => Counted(t))
<1>1. s \in PoolType /\ s.header \in [1 .. n -> Block \cup {NULL}] /\ s.p \in [Block -> Word]
      /\ s.cap \in [Block -> Nat] /\ s.used \in Int /\ s.empty \in Int
      /\ DOMAIN s.held \subseteq Block /\ (\A x \in DOMAIN s.held : s.held[x] \in Nat)
  BY PoolFields DEF Sound
<1>2. b \notin DOMAIN s.held
  BY DEF Sound, Fits
<1>3. DOMAIN t.held = DOMAIN s.held \cup {b} /\ t.held[b] = size
      /\ \A x \in DOMAIN s.held : t.held[x] = s.held[x]
  BY <1>2 DEF Holding
<1>4. t.p[b] = i /\ t.cap[b] = c /\ \A x \in Block : x # b => t.p[x] = s.p[x] /\ t.cap[x] = s.cap[x]
  BY <1>1
<1>5. Fits(t)
  <2> SUFFICES ASSUME NEW x \in DOMAIN t.held
               PROVE  /\ t.cap[x] > 0 /\ t.cap[x] >= t.held[x]
                      /\ t.p[x] \in 1 .. BIG
                      /\ t.p[x] = BIG <=> t.cap[x] > Size[n]
                      /\ t.p[x] # BIG => t.cap[x] = Size[t.p[x]]
    BY DEF Fits
  <2>1. CASE x = b
    BY <1>3, <1>4, <2>1
  <2>2. CASE x # b
    <3>1. x \in DOMAIN s.held /\ x \in Block
      BY <1>1, <1>3, <2>2
    <3>2. /\ s.cap[x] > 0 /\ s.cap[x] >= s.held[x] /\ s.p[x] \in 1 .. BIG
          /\ s.p[x] = BIG <=> s.cap[x] > Size[n]
          /\ s.p[x] # BIG => s.cap[x] = Size[s.p[x]]
      BY <3>1 DEF Sound, Fits
    <3> QED  BY <1>3, <1>4, <2>2, <3>1, <3>2
  <2> QED  BY <2>1, <2>2
<1>6. PICK cl \in [Block -> 0 .. n], d \in [Block -> Nat] : Stacked(s, cl, d)
  BY DEF Sound
<1>7. Stacked(t, cl, d)
  <2>1. cl[b] = 0
    BY <1>6 DEF Stacked
  <2>2. \A x \in Block : cl[x] # 0 <=> (t.cap[x] > 0 /\ x \notin DOMAIN t.held)
    BY <1>3, <1>4, <1>6, <2>1 DEF Stacked
  <2>3. \A x \in Block : cl[x] # 0 =>
        /\ t.cap[x] = Size[cl[x]]
        /\ IF d[x] = 0 THEN t.p[x] = NULL
           ELSE t.p[x] \in Block /\ cl[t.p[x]] = cl[x] /\ d[t.p[x]] = d[x] - 1
    BY <1>4, <1>6, <2>1 DEF Stacked
  <2> QED  BY <1>6, <2>2, <2>3 DEF Stacked
<1>8. Sound(t)
  BY <1>5, <1>6, <1>7 DEF Sound
<1>9. ASSUME Counted(s) PROVE Counted(t)
  <2>1. OnLists(t) = OnLists(s)
    BY <1>1, <1>2, <1>3, <1>4 DEF OnLists
  <2>2. t.empty = Bytes(t.cap, OnLists(t))
    <3>1. b \notin OnLists(s)
      BY DEF OnLists
    <3>2. \A y \in OnLists(s) : s.cap[y] \in Nat /\ s.cap[y] = t.cap[y]
      BY <1>1, <1>4, <3>1, CountedSets
    <3>3. IsFiniteSet(OnLists(s))
      BY <1>1, CountedSets
    <3>4. Bytes(s.cap, OnLists(s)) = Bytes(t.cap, OnLists(s))
      BY ONLY <3>2, <3>3, BytesSame
    <3> QED  BY <1>9, <2>1, <3>4 DEF Counted
  <2>3. b \notin InClasses(s) /\ InClasses(t) = InClasses(s) \cup (IF i = BIG THEN {} ELSE {b})
    <3>1. \A x \in DOMAIN s.held : x \in Block /\ x # b /\ t.p[x] = s.p[x]
      BY <1>1, <1>2, <1>4
    <3> QED  BY <1>2, <1>3, <1>4, <3>1 DEF InClasses
  <2>4. \A y \in InClasses(s) : s.cap[y] \in Nat /\ s.cap[y] = t.cap[y]
    BY <1>1, <1>4, <2>3, CountedSets
  <2>5. Bytes(s.cap, InClasses(s)) = Bytes(t.cap, InClasses(s))
    <3>1. IsFiniteSet(InClasses(s))
      BY <1>1, CountedSets
    <3> QED  BY ONLY <2>4, <3>1, BytesSame
  <2>6. t.used = Bytes(t.cap, InClasses(t))
    <3>1. CASE i = BIG
      <4>1. InClasses(t) = InClasses(s) /\ t.used = s.used
        BY <1>1, <2>3, <3>1
      <4> QED  BY <1>9, <2>5, <4>1 DEF Counted
    <3>2. CASE i # BIG
      <4>1. \A y \in InClasses(s) \cup {b} : t.cap[y] \in Nat
        BY <1>4, <2>4
      <4>0. IsFiniteSet(InClasses(s))
        BY <1>1, CountedSets
      <4>2. Bytes(t.cap, InClasses(s)) \in Nat
            /\ Bytes(t.cap, InClasses(s) \cup {b}) = t.cap[b] + Bytes(t.cap, InClasses(s))
        BY ONLY <2>3, <4>0, <4>1, BytesAdd
      <4>3. InClasses(t) = InClasses(s) \cup {b} /\ t.used = s.used + c /\ s.used \in Int
        BY <1>1, <2>3, <3>2
      <4>4. s.used = Bytes(t.cap, InClasses(s))
        BY <1>9, <2>5 DEF Counted
      <4> QED  BY <1>4, <4>2, <4>3, <4>4
    <3> QED  BY <3>1, <3>2
  <2> QED  BY <2>2, <2>6 DEF Counted
<1> QED  BY <1>8, <1>9

\* The header of a list goes to a caller.
LEMMA ListedSound ==
  ASSUME NEW s, NEW t \in PoolType, NEW i \in 1 .. n, NEW size \in Nat, NEW b,
         Sound(s), s.header[i] # NULL, b = s.header[i], size <= Size[i],
         t.header = [s.header EXCEPT ![i] = s.p[b]], t.p = [s.p EXCEPT ![b] = i],
         t.cap = s.cap, t.held = Holding(s.held, b, size),
         t.used = s.used + Size[i], t.empty = s.empty - Size[i]
  PROVE  /\ Sound(t) /\ (Counted(s) => Counted(t))
         /\ b \in Block /\ b \notin DOMAIN s.held /\ s.cap[b] = Size[i]
<1>1. s \in PoolType /\ s.header \in [1 .. n -> Block \cup {NULL}] /\ s.p \in [Block -> Word]
      /\ s.cap \in [Block -> Nat] /\ s.used \in Int /\ s.empty \in Int
      /\ DOMAIN s.held \subseteq Block /\ (\A x \in DOMAIN s.held : s.held[x] \in Nat)
  BY PoolFields DEF Sound
<1> USE SizesSorted
<1>2. PICK cl \in [Block -> 0 .. n], d \in [Block -> Nat] : Stacked(s, cl, d)
  BY DEF Sound
<1>3. b \in Block /\ cl[b] = i /\ \A x \in Block : cl[x] = i => d[x] <= d[b]
  BY <1>1, <1>2 DEF Stacked
<1>4. b \notin DOMAIN s.held /\ s.cap[b] = Size[i] /\ s.cap[b] > 0
  BY <1>2, <1>3 DEF Stacked
<1>5. DOMAIN t.held = DOMAIN s.held \cup {b} /\ t.held[b] = size
      /\ \A x \in DOMAIN s.held : t.held[x] = s.held[x]
  BY <1>4 DEF Holding
<1>6. t.p[b] = i /\ \A x \in Block : x # b => t.p[x] = s.p[x]
  BY <1>1, <1>3
<1>7. Fits(t)
  <2> SUFFICES ASSUME NEW x \in DOMAIN t.held
               PROVE  /\ t.cap[x] > 0 /\ t.cap[x] >= t.held[x]
                      /\ t.p[x] \in 1 .. BIG
                      /\ t.p[x] = BIG <=> t.cap[x] > Size[n]
                      /\ t.p[x] # BIG => t.cap[x] = Size[t.p[x]]
    BY DEF Fits
  <2>1. CASE x = b
    <3>1. Size[i] <= Size[n] /\ Size[i] \in Nat /\ Size[n] \in Nat /\ i # BIG /\ i \in 1 .. BIG
      OBVIOUS
    <3> QED  BY <1>4, <1>5, <1>6, <2>1, <3>1
  <2>2. CASE x # b
    <3>1. x \in DOMAIN s.held /\ x \in Block
      BY <1>1, <1>5, <2>2
    <3>2. /\ s.cap[x] > 0 /\ s.cap[x] >= s.held[x] /\ s.p[x] \in 1 .. BIG
          /\ s.p[x] = BIG <=> s.cap[x] > Size[n]
          /\ s.p[x] # BIG => s.cap[x] = Size[s.p[x]]
      BY <3>1 DEF Sound, Fits
    <3> QED  BY <1>5, <1>6, <2>2, <3>1, <3>2
  <2> QED  BY <2>1, <2>2
<1> DEFINE e == [cl EXCEPT ![b] = 0]
<1>8. e \in [Block -> 0 .. n] /\ e[b] = 0 /\ \A x \in Block : x # b => e[x] = cl[x]
  BY <1>3
<1> HIDE DEF e
<1>9. Stacked(t, e, d)
  <2>1. \A x \in Block : e[x] # 0 <=> (t.cap[x] > 0 /\ x \notin DOMAIN t.held)
    BY <1>2, <1>5, <1>8 DEF Stacked
  <2>2. ASSUME NEW x \in Block, e[x] # 0
        PROVE  /\ t.cap[x] = Size[e[x]]
               /\ IF d[x] = 0 THEN t.p[x] = NULL
                  ELSE t.p[x] \in Block /\ e[t.p[x]] = e[x] /\ d[t.p[x]] = d[x] - 1
    <3>1. x # b /\ e[x] = cl[x] /\ t.p[x] = s.p[x] /\ t.cap[x] = s.cap[x]
      BY <1>6, <1>8, <2>2
    <3>2. /\ s.cap[x] = Size[cl[x]]
          /\ IF d[x] = 0 THEN s.p[x] = NULL
             ELSE s.p[x] \in Block /\ cl[s.p[x]] = cl[x] /\ d[s.p[x]] = d[x] - 1
      BY <1>2, <2>2, <3>1 DEF Stacked
    <3>3. d[x] # 0 => s.p[x] # b
      <4> SUFFICES ASSUME d[x] # 0, s.p[x] = b PROVE FALSE
        OBVIOUS
      <4>1. cl[x] = i /\ d[b] = d[x] - 1 /\ d[x] <= d[b]
        BY <1>3, <3>2
      <4> QED  BY <1>3, <4>1
    <3> QED  BY <1>8, <3>1, <3>2, <3>3
  <2>3. ASSUME NEW j \in 1 .. n
        PROVE  IF t.header[j] = NULL THEN \A x \in Block : e[x] # j
               ELSE e[t.header[j]] = j /\ \A x \in Block : e[x] = j => d[x] <= d[t.header[j]]
    <3>1. CASE j # i
      <4>1. t.header[j] = s.header[j]
        BY <1>1, <3>1
      <4>2. IF s.header[j] = NULL THEN \A x \in Block : cl[x] # j
            ELSE cl[s.header[j]] = j /\ \A x \in Block : cl[x] = j => d[x] <= d[s.header[j]]
        BY <1>2 DEF Stacked
      <4>3. s.header[j] # NULL => s.header[j] \in Block /\ s.header[j] # b
        BY <1>1, <1>3, <3>1, <4>2
      <4>4. \A x \in Block : e[x] = j => cl[x] = j
        BY <1>3, <1>8, <3>1
      <4> QED  BY <1>8, <4>1, <4>2, <4>3, <4>4
    <3>2. CASE j = i
      <4>1. t.header[j] = s.p[b]
        BY <1>1, <3>2
      <4>2. \A x \in Block : e[x] = i => x # b /\ cl[x] = i /\ d[x] <= d[b] /\ d[x] # d[b]
        BY <1>2, <1>3, <1>8 DEF Stacked
      <4>3. IF d[b] = 0 THEN s.p[b] = NULL
            ELSE s.p[b] \in Block /\ cl[s.p[b]] = cl[b] /\ d[s.p[b]] = d[b] - 1
        BY <1>2, <1>3 DEF Stacked
      <4>4. CASE d[b] = 0
        BY <1>3, <3>2, <4>1, <4>2, <4>3, <4>4
      <4>5. CASE d[b] # 0
        <5>0. d[b] \in Nat /\ d[s.p[b]] # d[b]
          BY <1>3, <4>3, <4>5
        <5>1. s.p[b] \in Block /\ s.p[b] # b /\ s.p[b] # NULL /\ e[s.p[b]] = i
          BY <1>3, <1>8, <4>3, <4>5, <5>0, MemPoolAssumption
        <5>2. \A x \in Block : e[x] = i => d[x] <= d[s.p[b]]
          BY <1>3, <4>2, <4>3, <4>5
        <5> QED  BY <3>2, <4>1, <5>1, <5>2
      <4> QED  BY <4>4, <4>5
    <3> QED  BY <3>1, <3>2
  <2>4. ASSUME NEW x \in Block, NEW y \in Block, e[x] # 0, e[x] = e[y], d[x] = d[y] PROVE x = y
    <3>1. e[x] = cl[x] /\ e[y] = cl[y]
      BY <1>8, <2>4
    <3>2. \A u, v \in Block : cl[u] # 0 /\ cl[u] = cl[v] /\ d[u] = d[v] => u = v
      BY <1>2 DEF Stacked
    <3> QED  BY <2>4, <3>1, <3>2
  <2> QED  BY <2>1, <2>2, <2>3, <2>4 DEF Stacked
<1>10. Sound(t)
  BY <1>7, <1>8, <1>9 DEF Sound
<1>11. ASSUME Counted(s) PROVE Counted(t)
  <2>1. b \notin OnLists(t) /\ OnLists(s) = OnLists(t) \cup {b}
    BY <1>3, <1>4, <1>5 DEF OnLists
  <2>2. b \notin InClasses(s) /\ InClasses(t) = InClasses(s) \cup {b}
    <3>1. \A x \in DOMAIN s.held : x \in Block /\ x # b /\ t.p[x] = s.p[x]
      BY <1>1, <1>4, <1>6
    <3>2. i # BIG
      OBVIOUS
    <3> QED  BY <1>4, <1>5, <1>6, <3>1, <3>2 DEF InClasses
  <2>3. /\ \A y \in OnLists(t) \cup {b} : s.cap[y] \in Nat
        /\ \A y \in InClasses(s) \cup {b} : s.cap[y] \in Nat
    BY <1>1, <1>3, CountedSets
  <2>0. IsFiniteSet(OnLists(t)) /\ IsFiniteSet(InClasses(s))
    BY <1>1, CountedSets
  <2>4. /\ Bytes(s.cap, OnLists(t)) \in Nat
        /\ Bytes(s.cap, OnLists(t) \cup {b}) = s.cap[b] + Bytes(s.cap, OnLists(t))
    BY ONLY <2>0, <2>1, <2>3, BytesAdd
  <2>5. /\ Bytes(s.cap, InClasses(s)) \in Nat
        /\ Bytes(s.cap, InClasses(s) \cup {b}) = s.cap[b] + Bytes(s.cap, InClasses(s))
    BY ONLY <2>0, <2>2, <2>3, BytesAdd
  <2>6. s.used = Bytes(s.cap, InClasses(s)) /\ s.empty = Bytes(s.cap, OnLists(s))
    BY <1>11 DEF Counted
  <2>7. Size[i] \in Nat
    OBVIOUS
  <2>8. t.used = Bytes(t.cap, InClasses(t))
    BY <1>4, <2>2, <2>5, <2>6, <2>7
  <2>9. t.empty = Bytes(t.cap, OnLists(t))
    BY <1>4, <2>1, <2>4, <2>6, <2>7
  <2> QED  BY <2>8, <2>9 DEF Counted
<1> QED  BY <1>3, <1>4, <1>10, <1>11

\* A caller's block goes on the list of its class.
LEMMA RecycledSound ==
  ASSUME NEW s, NEW t \in PoolType, NEW b, Sound(s), b \in DOMAIN s.held, s.p[b] # BIG,
         t.header = [s.header EXCEPT ![s.p[b]] = b],
         t.p = [s.p EXCEPT ![b] = s.header[s.p[b]]], t.cap = s.cap,
         t.held = Without(s.held, b),
         t.used = s.used - Size[s.p[b]], t.empty = s.empty + Size[s.p[b]]
  PROVE  Sound(t) /\ (Counted(s) => Counted(t))
<1>1. s \in PoolType /\ s.header \in [1 .. n -> Block \cup {NULL}] /\ s.p \in [Block -> Word]
      /\ s.cap \in [Block -> Nat] /\ s.used \in Int /\ s.empty \in Int
      /\ DOMAIN s.held \subseteq Block /\ (\A x \in DOMAIN s.held : s.held[x] \in Nat)
      /\ b \in Block
  BY PoolFields DEF Sound
<1> USE SizesSorted
<1> DEFINE i == s.p[b]
           h == s.header[i]
<1>2. i \in 1 .. n /\ s.cap[b] = Size[i] /\ s.cap[b] > 0
  <2>1. s.cap[b] > 0 /\ i \in 1 .. BIG /\ (i # BIG => s.cap[b] = Size[i])
    BY DEF Sound, Fits
  <2>2. i # BIG
    OBVIOUS
  <2> HIDE DEF i
  <2> QED  BY <2>1, <2>2
<1>3. PICK cl \in [Block -> 0 .. n], d \in [Block -> Nat] : Stacked(s, cl, d)
  BY DEF Sound
<1>4. DOMAIN t.held = DOMAIN s.held \ {b} /\ \A x \in DOMAIN t.held : t.held[x] = s.held[x]
  BY DEF Without
<1>5. t.p[b] = h /\ \A x \in Block : x # b => t.p[x] = s.p[x]
  BY <1>1
<1>6. t.header[i] = b /\ \A j \in 1 .. n : j # i => t.header[j] = s.header[j]
  BY <1>1, <1>2
<1>7. t.used = s.used - Size[i] /\ t.empty = s.empty + Size[i] /\ i # BIG
  OBVIOUS
<1>8. h \in Block \cup {NULL} /\ NULL \notin Block
  BY <1>1, <1>2, MemPoolAssumption
<1>9. Fits(t)
  <2> SUFFICES ASSUME NEW x \in DOMAIN t.held
               PROVE  /\ t.cap[x] > 0 /\ t.cap[x] >= t.held[x]
                      /\ t.p[x] \in 1 .. BIG
                      /\ t.p[x] = BIG <=> t.cap[x] > Size[n]
                      /\ t.p[x] # BIG => t.cap[x] = Size[t.p[x]]
    BY DEF Fits
  <2>1. x \in DOMAIN s.held /\ x \in Block /\ x # b /\ t.held[x] = s.held[x] /\ t.p[x] = s.p[x]
    BY <1>1, <1>4, <1>5
  <2> QED  BY <2>1 DEF Sound, Fits
<1> HIDE DEF i, h
<1> DEFINE e == [cl EXCEPT ![b] = i]
           f == [d EXCEPT ![b] = IF h = NULL THEN 0 ELSE d[h] + 1]
<1>10. e \in [Block -> 0 .. n] /\ e[b] = i /\ \A x \in Block : x # b => e[x] = cl[x]
  BY <1>1, <1>2
<1>11. f \in [Block -> Nat] /\ f[b] = (IF h = NULL THEN 0 ELSE d[h] + 1)
       /\ \A x \in Block : x # b => f[x] = d[x]
  <2> DEFINE v == IF h = NULL THEN 0 ELSE d[h] + 1
  <2>1. v \in Nat /\ b \in Block
    BY <1>1, <1>8
  <2> HIDE DEF v
  <2>2. [d EXCEPT ![b] = v] \in [Block -> Nat] /\ [d EXCEPT ![b] = v][b] = v
        /\ \A x \in Block : x # b => [d EXCEPT ![b] = v][x] = d[x]
    BY <2>1
  <2> QED  BY <2>2 DEF v
<1>12. cl[b] = 0 /\ i # 0
  BY <1>1, <1>2, <1>3 DEF Stacked
<1>13. IF h = NULL THEN \A x \in Block : cl[x] # i
       ELSE h \in Block /\ h # b /\ cl[h] = i /\ \A x \in Block : cl[x] = i => d[x] <= d[h]
  BY <1>2, <1>3, <1>8, <1>12 DEF Stacked, h
<1> HIDE DEF e, f
<1>14. Stacked(t, e, f)
  <2>1. \A x \in Block : e[x] # 0 <=> (t.cap[x] > 0 /\ x \notin DOMAIN t.held)
    <3> SUFFICES ASSUME NEW x \in Block
                 PROVE  e[x] # 0 <=> (t.cap[x] > 0 /\ x \notin DOMAIN t.held)
      OBVIOUS
    <3>1. CASE x = b
      BY <1>2, <1>4, <1>10, <1>12, <3>1
    <3>2. CASE x # b
      BY <1>3, <1>4, <1>10, <3>2 DEF Stacked
    <3> QED  BY <3>1, <3>2
  <2>2. ASSUME NEW x \in Block, e[x] # 0
        PROVE  /\ t.cap[x] = Size[e[x]]
               /\ IF f[x] = 0 THEN t.p[x] = NULL
                  ELSE t.p[x] \in Block /\ e[t.p[x]] = e[x] /\ f[t.p[x]] = f[x] - 1
    <3>1. CASE x = b
      <4>1. CASE h = NULL
        BY <1>2, <1>5, <1>10, <1>11, <3>1, <4>1
      <4>2. CASE h # NULL
        <5>1. h \in Block /\ h # b /\ cl[h] = i /\ d[h] \in Nat
          BY <1>13, <4>2
        <5>2. f[b] = d[h] + 1 /\ f[b] # 0 /\ f[h] = d[h] /\ e[h] = i
          BY <1>10, <1>11, <4>2, <5>1
        <5>3. f[h] = f[b] - 1
          BY <5>1, <5>2
        <5> QED  BY <1>2, <1>5, <1>10, <3>1, <5>1, <5>2, <5>3
      <4> QED  BY <4>1, <4>2
    <3>2. CASE x # b
      <4>1. e[x] = cl[x] /\ f[x] = d[x] /\ t.p[x] = s.p[x]
        BY <1>5, <1>10, <1>11, <3>2
      <4>2. /\ s.cap[x] = Size[cl[x]]
            /\ IF d[x] = 0 THEN s.p[x] = NULL
               ELSE s.p[x] \in Block /\ cl[s.p[x]] = cl[x] /\ d[s.p[x]] = d[x] - 1
        BY <1>3, <2>2, <4>1 DEF Stacked
      <4>3. d[x] # 0 => s.p[x] # b
        BY <1>12, <2>2, <4>1, <4>2
      <4> QED  BY <1>10, <1>11, <4>1, <4>2, <4>3
    <3> QED  BY <3>1, <3>2
  <2>3. ASSUME NEW j \in 1 .. n
        PROVE  IF t.header[j] = NULL THEN \A x \in Block : e[x] # j
               ELSE e[t.header[j]] = j /\ \A x \in Block : e[x] = j => f[x] <= f[t.header[j]]
    <3>1. CASE j = i
      <4>1. t.header[j] = b /\ b # NULL /\ e[b] = j
        BY <1>1, <1>6, <1>8, <1>10, <3>1
      <4>2. ASSUME NEW x \in Block, e[x] = j PROVE f[x] <= f[b]
        <5>1. CASE x = b
          BY <1>11, <5>1
        <5>2. CASE x # b
          <6>1. cl[x] = i /\ f[x] = d[x]
            BY <1>10, <1>11, <3>1, <4>2, <5>2
          <6>2. h # NULL /\ h \in Block /\ d[x] <= d[h]
            BY <1>13, <6>1
          <6> QED  BY <1>11, <6>1, <6>2
        <5> QED  BY <5>1, <5>2
      <4> QED  BY <4>1, <4>2
    <3>2. CASE j # i
      <4>1. t.header[j] = s.header[j]
        BY <1>6, <3>2
      <4>2. IF s.header[j] = NULL THEN \A x \in Block : cl[x] # j
            ELSE cl[s.header[j]] = j /\ \A x \in Block : cl[x] = j => d[x] <= d[s.header[j]]
        BY <1>3 DEF Stacked
      <4>3. s.header[j] # NULL => s.header[j] \in Block /\ s.header[j] # b
        BY <1>1, <1>12, <4>2
      <4>4. \A x \in Block : e[x] = j => x # b /\ cl[x] = j /\ f[x] = d[x]
        BY <1>10, <1>11, <3>2
      <4> QED  BY <1>10, <1>11, <4>1, <4>2, <4>3, <4>4
    <3> QED  BY <3>1, <3>2
  <2>4. ASSUME NEW x \in Block, NEW y \in Block, e[x] # 0, e[x] = e[y], f[x] = f[y] PROVE x = y
    <3>1. ASSUME NEW z \in Block, z # b, e[z] = i PROVE f[z] < f[b]
      <4>1. cl[z] = i /\ f[z] = d[z]
        BY <1>10, <1>11, <3>1
      <4>2. h # NULL /\ h \in Block /\ d[z] <= d[h]
        BY <1>13, <4>1
      <4> QED  BY <1>11, <4>1, <4>2
    <3>2. CASE x # b /\ y # b
      BY <1>3, <1>10, <1>11, <2>4, <3>2 DEF Stacked
    <3>3. CASE x = b /\ y # b
      <4>1. f[y] < f[b]
        BY <1>10, <2>4, <3>1, <3>3
      <4> QED  BY <1>1, <1>11, <2>4, <3>3, <4>1
    <3>4. CASE x # b /\ y = b
      <4>1. f[x] < f[b]
        BY <1>10, <2>4, <3>1, <3>4
      <4> QED  BY <1>1, <1>11, <2>4, <3>4, <4>1
    <3> QED  BY <3>2, <3>3, <3>4
  <2> QED  BY <2>1, <2>2, <2>3, <2>4 DEF Stacked
<1>15. Sound(t)
  BY <1>9, <1>10, <1>11, <1>14 DEF Sound
<1>16. ASSUME Counted(s) PROVE Counted(t)
  <2>1. b \notin OnLists(s) /\ OnLists(t) = OnLists(s) \cup {b}
    <3>1. \A x : x \in OnLists(s) <=> x \in Block /\ s.cap[x] > 0 /\ x \notin DOMAIN s.held
      BY DEF OnLists
    <3>2. \A x : x \in OnLists(t) <=> x \in Block /\ t.cap[x] > 0 /\ x \notin DOMAIN t.held
      BY DEF OnLists
    <3>3. \A x : x \in OnLists(t) <=> x \in OnLists(s) \/ x = b
      BY <1>1, <1>2, <1>4, <3>1, <3>2
    <3> QED  BY <1>1, <3>1, <3>3
  <2>2. b \notin InClasses(t) /\ InClasses(s) = InClasses(t) \cup {b}
    <3>1. \A x \in DOMAIN t.held : x \in Block /\ x # b /\ t.p[x] = s.p[x] /\ x \in DOMAIN s.held
      BY <1>1, <1>4, <1>5
    <3>2. s.p[b] # BIG
      OBVIOUS
    <3> QED  BY <1>4, <3>1, <3>2 DEF InClasses
  <2>3. /\ \A y \in OnLists(s) \cup {b} : s.cap[y] \in Nat
        /\ \A y \in InClasses(t) \cup {b} : s.cap[y] \in Nat
    BY <1>1, CountedSets
  <2>0. IsFiniteSet(OnLists(s)) /\ IsFiniteSet(InClasses(t))
    BY <1>1, CountedSets
  <2>4. /\ Bytes(s.cap, OnLists(s)) \in Nat
        /\ Bytes(s.cap, OnLists(s) \cup {b}) = s.cap[b] + Bytes(s.cap, OnLists(s))
    BY ONLY <2>0, <2>1, <2>3, BytesAdd
  <2>5. /\ Bytes(s.cap, InClasses(t)) \in Nat
        /\ Bytes(s.cap, InClasses(t) \cup {b}) = s.cap[b] + Bytes(s.cap, InClasses(t))
    BY ONLY <2>0, <2>2, <2>3, BytesAdd
  <2>6. s.used = Bytes(s.cap, InClasses(s)) /\ s.empty = Bytes(s.cap, OnLists(s))
    BY <1>16 DEF Counted
  <2>7. Size[i] \in Nat
    BY <1>2
  <2>8. t.used = Bytes(t.cap, InClasses(t))
    BY <1>2, <1>7, <2>2, <2>5, <2>6, <2>7
  <2>9. t.empty = Bytes(t.cap, OnLists(t))
    BY <1>2, <1>7, <2>1, <2>4, <2>6, <2>7
  <2> QED  BY <2>8, <2>9 DEF Counted
<1> QED  BY <1>15, <1>16

\* A caller's block too big for the classes goes back to malloc.
LEMMA FreedSound ==
  ASSUME NEW s, NEW t \in PoolType, NEW b, Sound(s), b \in DOMAIN s.held, s.p[b] = BIG,
         t.header = s.header, t.p = [s.p EXCEPT ![b] = NULL], t.cap = [s.cap EXCEPT ![b] = 0],
         t.held = Without(s.held, b), t.used = s.used, t.empty = s.empty
  PROVE  Sound(t) /\ (Counted(s) => Counted(t))
<1>1. s \in PoolType /\ b \in Block
  BY PoolFields DEF Sound
<1>2. s.p \in [Block -> Word] /\ s.cap \in [Block -> Nat] /\ DOMAIN s.held \subseteq Block
  BY <1>1, PoolFields
<1>3. DOMAIN t.held = DOMAIN s.held \ {b} /\ \A x \in DOMAIN t.held : t.held[x] = s.held[x]
  BY DEF Without
<1>4. t.cap[b] = 0 /\ \A x \in Block : x # b => t.p[x] = s.p[x] /\ t.cap[x] = s.cap[x]
  BY <1>1, <1>2
<1>5. Fits(t)
  <2> SUFFICES ASSUME NEW x \in DOMAIN t.held
               PROVE  /\ t.cap[x] > 0 /\ t.cap[x] >= t.held[x]
                      /\ t.p[x] \in 1 .. BIG
                      /\ t.p[x] = BIG <=> t.cap[x] > Size[n]
                      /\ t.p[x] # BIG => t.cap[x] = Size[t.p[x]]
    BY DEF Fits
  <2>1. x \in DOMAIN s.held /\ x \in Block /\ x # b /\ t.held[x] = s.held[x]
        /\ t.p[x] = s.p[x] /\ t.cap[x] = s.cap[x]
    BY <1>2, <1>3, <1>4
  <2> QED  BY <2>1 DEF Sound, Fits
<1>6. PICK c \in [Block -> 0 .. n], d \in [Block -> Nat] : Stacked(s, c, d)
  BY DEF Sound
<1>7. Stacked(t, c, d)
  <2>1. c[b] = 0
    BY <1>1, <1>6 DEF Stacked
  <2>2. \A x \in Block : c[x] # 0 <=> (t.cap[x] > 0 /\ x \notin DOMAIN t.held)
    <3> SUFFICES ASSUME NEW x \in Block
                 PROVE  c[x] # 0 <=> (t.cap[x] > 0 /\ x \notin DOMAIN t.held)
      OBVIOUS
    <3>1. CASE x = b
      BY <1>4, <2>1, <3>1
    <3>2. CASE x # b
      BY <1>3, <1>4, <1>6, <3>2 DEF Stacked
    <3> QED  BY <3>1, <3>2
  <2>3. \A x \in Block : c[x] # 0 =>
        /\ t.cap[x] = Size[c[x]]
        /\ IF d[x] = 0 THEN t.p[x] = NULL
           ELSE t.p[x] \in Block /\ c[t.p[x]] = c[x] /\ d[t.p[x]] = d[x] - 1
    BY <1>4, <1>6, <2>1 DEF Stacked
  <2> QED  BY <1>6, <2>2, <2>3 DEF Stacked
<1>8. Sound(t)
  BY <1>5, <1>6, <1>7 DEF Sound
<1>9. ASSUME Counted(s) PROVE Counted(t)
  <2>1. OnLists(t) = OnLists(s) /\ b \notin OnLists(s)
    <3>1. b \notin OnLists(s) /\ b \notin OnLists(t)
      BY <1>4 DEF OnLists
    <3>2. \A x \in Block : x # b => (x \in OnLists(t) <=> x \in OnLists(s))
      BY <1>3, <1>4 DEF OnLists
    <3> QED  BY <3>1, <3>2 DEF OnLists
  <2>2. InClasses(t) = InClasses(s) /\ b \notin InClasses(s)
    BY <1>2, <1>3, <1>4 DEF InClasses
  <2>3. /\ \A y \in OnLists(s) : s.cap[y] \in Nat /\ s.cap[y] = t.cap[y]
        /\ \A y \in InClasses(s) : s.cap[y] \in Nat /\ s.cap[y] = t.cap[y]
    BY <1>1, <1>4, <2>1, <2>2, CountedSets
  <2>4. IsFiniteSet(OnLists(s)) /\ IsFiniteSet(InClasses(s))
    BY <1>1, CountedSets
  <2>5. Bytes(s.cap, OnLists(s)) = Bytes(t.cap, OnLists(s))
    BY ONLY <2>3, <2>4, BytesSame
  <2>6. Bytes(s.cap, InClasses(s)) = Bytes(t.cap, InClasses(s))
    BY ONLY <2>3, <2>4, BytesSame
  <2> QED  BY <1>9, <2>1, <2>2, <2>5, <2>6 DEF Counted
<1> QED  BY <1>8, <1>9

\* A caller's block is found big enough for what it asks now.
LEMMA KeptSound ==
  ASSUME NEW s, NEW t \in PoolType, NEW b, NEW size \in Nat, Sound(s), b \in DOMAIN s.held,
         size <= s.cap[b], t.header = s.header, t.p = s.p, t.cap = s.cap,
         t.held = Holding(s.held, b, size), t.used = s.used, t.empty = s.empty
  PROVE  Sound(t) /\ (Counted(s) => Counted(t))
<1>1. s \in PoolType /\ s.cap \in [Block -> Nat] /\ DOMAIN s.held \subseteq Block
  BY PoolFields DEF Sound
<1>2. DOMAIN t.held = DOMAIN s.held /\ t.held[b] = size
      /\ \A x \in DOMAIN s.held : x # b => t.held[x] = s.held[x]
  BY DEF Holding
<1>3. Fits(t)
  BY <1>1, <1>2 DEF Sound, Fits
<1>4. PICK c \in [Block -> 0 .. n], d \in [Block -> Nat] : Stacked(s, c, d)
  BY DEF Sound
<1>5. Stacked(t, c, d)
  BY <1>2, <1>4 DEF Stacked
<1>6. Sound(t)
  BY <1>3, <1>4, <1>5 DEF Sound
<1>7. InClasses(t) = InClasses(s) /\ OnLists(t) = OnLists(s)
  BY <1>2 DEF InClasses, OnLists
<1> QED  BY <1>6, <1>7 DEF Counted

-----------------------------------------------------------------------------
(* The functions of mem_pool.c.                                            *)

\* the fields of t
Has(t, h, w, c, u, e, o) ==
  /\ t.header = h /\ t.p = w /\ t.cap = c /\ t.used = u /\ t.empty = e /\ t.held = o

\* What Hold changes.
LEMMA HoldFields ==
  ASSUME NEW s \in PoolType, NEW b \in Block, NEW size \in Nat
  PROVE  /\ Hold(s, b, size) \in PoolType
         /\ Has(Hold(s, b, size), s.header, s.p, s.cap, s.used, s.empty,
                Holding(s.held, b, size))
<1>1. s.held \in Callers
  BY PoolFields
<1>2. Holding(s.held, b, size) \in Callers
  BY <1>1, HeldAfter DEF Holding
<1> QED  BY <1>2 DEF PoolType, Hold, Holding, Has

\* What Drop changes.
LEMMA DropFields ==
  ASSUME NEW s \in PoolType, NEW b \in Block
  PROVE  /\ Drop(s, b) \in PoolType
         /\ Has(Drop(s, b), s.header, s.p, s.cap, s.used, s.empty, Without(s.held, b))
<1>1. 0 \in Nat /\ s.held \in Callers
  BY PoolFields
<1>2. Without(s.held, b) \in Callers
  BY <1>1, HeldAfter DEF Without
<1> QED  BY <1>2 DEF PoolType, Drop, Without, Has

\* What Served changes, for a listed block and for a fresh one.
LEMMA ServedFields ==
  ASSUME NEW s \in PoolType, NEW b \in Block, NEW i \in 1 .. n
  PROVE  /\ s.p[b] \in Block \cup {NULL} =>
              /\ Served(s, i, b, TRUE) \in PoolType
              /\ Has(Served(s, i, b, TRUE), [s.header EXCEPT ![i] = s.p[b]],
                     [s.p EXCEPT ![b] = i], s.cap, s.used + Size[i], s.empty - Size[i], s.held)
         /\ Served(s, i, b, FALSE) \in PoolType
         /\ Has(Served(s, i, b, FALSE), s.header, [s.p EXCEPT ![b] = i],
                [s.cap EXCEPT ![b] = Size[i]], s.used + Size[i], s.empty, s.held)
<1>1. i \in Word /\ Size[i] \in Nat
  BY SizesSorted DEF Word
<1> DEFINE s1 == [s EXCEPT !.used = @ + Size[i], !.p[b] = i]
<1>2. s1 \in PoolType
  <2>1. s.used + Size[i] \in Int /\ [s.p EXCEPT ![b] = i] \in [Block -> Word]
    BY <1>1, PoolFields
  <2> QED  BY <2>1 DEF PoolType
<1>3. Has(s1, s.header, [s.p EXCEPT ![b] = i], s.cap, s.used + Size[i], s.empty, s.held)
  BY DEF PoolType, Has
<1>4. Served(s, i, b, TRUE) = [s1 EXCEPT !.header[i] = s.p[b], !.empty = @ - Size[i]]
      /\ Served(s, i, b, FALSE) = [s1 EXCEPT !.cap[b] = Size[i]]
  BY DEF Served
<1> HIDE DEF s1
<1>5. ASSUME s.p[b] \in Block \cup {NULL}
      PROVE  LET t == [s1 EXCEPT !.header[i] = s.p[b], !.empty = @ - Size[i]]
             IN  t \in PoolType
                 /\ Has(t, [s1.header EXCEPT ![i] = s.p[b]], s1.p, s1.cap, s1.used,
                        s1.empty - Size[i], s1.held)
  <2>0. s1.empty - Size[i] \in Int
        /\ [s1.header EXCEPT ![i] = s.p[b]] \in [1 .. n -> Block \cup {NULL}]
    BY <1>1, <1>2, <1>5, PoolFields
  <2>1. [s1 EXCEPT !.header[i] = s.p[b], !.empty = @ - Size[i]] \in PoolType
    BY <1>2, <2>0 DEF PoolType
  <2> QED  BY <1>2, <2>1 DEF PoolType, Has
<1>6. LET t == [s1 EXCEPT !.cap[b] = Size[i]]
      IN  t \in PoolType
          /\ Has(t, s1.header, s1.p, [s1.cap EXCEPT ![b] = Size[i]], s1.used, s1.empty, s1.held)
  <2>1. [s1 EXCEPT !.cap[b] = Size[i]] \in PoolType
    BY <1>1, <1>2 DEF PoolType
  <2> QED  BY <1>2, <2>1 DEF PoolType, Has
<1> QED  BY <1>3, <1>4, <1>5, <1>6 DEF Has

\* memp_alloc keeps the pool sound and hands out a block that nobody holds.
LEMMA AllocSound ==
  ASSUME NEW s, Sound(s), NEW size \in Nat, size > 0,
         NEW fresh \in {x \in Block : s.cap[x] = 0} \cup {NULL},
         Granted(s, size, fresh) # NULL
  PROVE  LET b == Granted(s, size, fresh)
             t == memp_alloc(s, size, fresh)
         IN  /\ Sound(t) /\ (Counted(s) => Counted(t))
             /\ b \in Block /\ b \notin DOMAIN s.held /\ t.cap[b] >= size
             /\ DOMAIN t.held = DOMAIN s.held \cup {b}
<1> DEFINE i == ClassOf(size)
           b == Granted(s, size, fresh)
           t == memp_alloc(s, size, fresh)
<1>1. /\ i \in 1 .. BIG /\ (i = BIG <=> size > Size[n]) /\ (i < BIG => Size[i] >= size)
      /\ n \in Nat /\ BIG = n + 1 /\ \A j \in 1 .. n : Size[j] \in Nat /\ Size[j] > 0
      /\ \A j \in 1 .. n : Size[j] <= Size[n]
  BY ClassFits, SizesSorted
<1>2. s \in PoolType /\ s.header \in [1 .. n -> Block \cup {NULL}] /\ s.p \in [Block -> Word]
      /\ s.cap \in [Block -> Nat] /\ s.used \in Int /\ s.empty \in Int /\ s.held \in Callers
  BY PoolFields DEF Sound
<1>3. b = IF i < BIG /\ s.header[i] # NULL THEN s.header[i] ELSE fresh
  BY DEF Granted
<1>4. b \in Block
  BY <1>1, <1>2, <1>3
<1>5. t = Hold(IF i >= BIG THEN [s EXCEPT !.cap[b] = size, !.p[b] = BIG]
               ELSE Served(s, i, b, s.header[i] # NULL), b, size)
  BY DEF memp_alloc
<1>6. DOMAIN Holding(s.held, b, size) = DOMAIN s.held \cup {b}
  BY DEF Holding
<1> HIDE DEF i, b, t
<1>7. CASE i = BIG
  <2>1. b = fresh /\ s.cap[b] = 0
    BY <1>1, <1>3, <1>4, <1>7, MemPoolAssumption
  <2> DEFINE u == [s EXCEPT !.cap[b] = size, !.p[b] = BIG]
  <2>2. BIG \in Word
    BY <1>1 DEF Word
  <2>3. u \in PoolType
    BY <1>2, <1>4, <2>2 DEF PoolType
  <2>4. Has(u, s.header, [s.p EXCEPT ![b] = BIG], [s.cap EXCEPT ![b] = size], s.used, s.empty, s.held)
    BY <1>2 DEF PoolType, Has
  <2>5. t = Hold(u, b, size)
    BY <1>1, <1>5, <1>7
  <2> HIDE DEF u
  <2>6. t \in PoolType /\ Has(t, s.header, [s.p EXCEPT ![b] = BIG], [s.cap EXCEPT ![b] = size],
                              s.used, s.empty, Holding(s.held, b, size))
    BY <1>4, <2>3, <2>4, <2>5, HoldFields DEF Has
  <2>7. t.used = s.used + (IF BIG = BIG THEN 0 ELSE size) /\ size >= size /\ size > Size[n]
        /\ BIG \in 1 .. BIG
    BY <1>1, <1>2, <1>7, <2>6 DEF Has
  <2>8. Sound(t) /\ (Counted(s) => Counted(t))
    BY <1>4, <2>1, <2>6, <2>7, FreshSound DEF Has
  <2>9. b \notin DOMAIN s.held
    BY <2>1 DEF Sound, Fits
  <2>10. t.cap[b] = size
    BY <1>2, <1>4, <2>6 DEF Has
  <2> QED  BY <1>4, <1>6, <2>6, <2>8, <2>9, <2>10 DEF b, t, Has
<1>8. CASE i # BIG /\ s.header[i] = NULL
  <2>1. b = fresh /\ s.cap[b] = 0 /\ i < BIG /\ i \in 1 .. n /\ Size[i] \in Nat
    BY <1>1, <1>3, <1>4, <1>8, MemPoolAssumption
  <2> DEFINE u == Served(s, i, b, FALSE)
  <2>2. t = Hold(u, b, size)
    <3>1. Served(s, i, b, s.header[i] # NULL) = u
      BY <1>8 DEF Served
    <3> HIDE DEF u
    <3>2. ~(i >= BIG)
      BY <1>1, <2>1
    <3> QED  BY <1>5, <3>1, <3>2
  <2>0. u \in PoolType /\ Has(u, s.header, [s.p EXCEPT ![b] = i], [s.cap EXCEPT ![b] = Size[i]],
                              s.used + Size[i], s.empty, s.held)
    BY <1>2, <1>4, <2>1, ServedFields
  <2> HIDE DEF u
  <2>3. t \in PoolType /\ Has(t, s.header, [s.p EXCEPT ![b] = i], [s.cap EXCEPT ![b] = Size[i]],
                              s.used + Size[i], s.empty, Holding(s.held, b, size))
    BY <1>4, <2>0, <2>2, HoldFields DEF Has
  <2>4. t.used = s.used + (IF i = BIG THEN 0 ELSE Size[i]) /\ Size[i] >= size /\ Size[i] > 0
        /\ (i = BIG <=> Size[i] > Size[n])
    BY <1>1, <1>8, <2>1, <2>3 DEF Has
  <2>5. Sound(t) /\ (Counted(s) => Counted(t))
    BY <1>1, <1>4, <2>1, <2>3, <2>4, FreshSound DEF Has
  <2>6. b \notin DOMAIN s.held
    BY <2>1 DEF Sound, Fits
  <2>7. t.cap[b] = Size[i]
    BY <1>2, <1>4, <2>3 DEF Has
  <2> QED  BY <1>4, <1>6, <2>3, <2>4, <2>5, <2>6, <2>7 DEF b, t, Has
<1>9. CASE i # BIG /\ s.header[i] # NULL
  <2>1. b = s.header[i] /\ i < BIG /\ i \in 1 .. n
    BY <1>1, <1>3, <1>9
  <2> DEFINE u == Served(s, i, b, TRUE)
  <2>2. t = Hold(u, b, size)
    <3>1. Served(s, i, b, s.header[i] # NULL) = u
      BY <1>9 DEF Served
    <3> HIDE DEF u
    <3>2. ~(i >= BIG)
      BY <1>1, <2>1
    <3> QED  BY <1>5, <3>1, <3>2
  <2>3. s.p[b] \in Block \cup {NULL}
    <3>1. PICK c \in [Block -> 0 .. n], d \in [Block -> Nat] : Stacked(s, c, d)
      BY DEF Sound
    <3>2. c[b] = i /\ i # 0
      BY <1>1, <1>9, <2>1, <3>1 DEF Stacked
    <3> QED  BY <1>4, <3>1, <3>2 DEF Stacked
  <2>0. u \in PoolType /\ Has(u, [s.header EXCEPT ![i] = s.p[b]], [s.p EXCEPT ![b] = i], s.cap,
                              s.used + Size[i], s.empty - Size[i], s.held)
    BY <1>2, <1>4, <2>1, <2>3, ServedFields
  <2> HIDE DEF u
  <2>4. t \in PoolType /\ Has(t, [s.header EXCEPT ![i] = s.p[b]], [s.p EXCEPT ![b] = i], s.cap,
                              s.used + Size[i], s.empty - Size[i], Holding(s.held, b, size))
    BY <1>4, <2>0, <2>2, HoldFields DEF Has
  <2>5. size <= Size[i]
    BY <1>1, <2>1
  <2>6. /\ Sound(t) /\ (Counted(s) => Counted(t))
        /\ b \notin DOMAIN s.held /\ s.cap[b] = Size[i]
    BY <1>9, <2>1, <2>4, <2>5, ListedSound DEF Has
  <2>7. t.cap[b] >= size
    BY <1>1, <2>1, <2>4, <2>6 DEF Has
  <2> QED  BY <1>4, <1>6, <2>4, <2>6, <2>7 DEF b, t, Has
<1> QED  BY <1>7, <1>8, <1>9

\* memp_recycle keeps the pool sound.
LEMMA RecycleSound ==
  ASSUME NEW s, Sound(s), NEW b, b \in DOMAIN s.held
  PROVE  LET t == memp_recycle(s, b)
         IN  Sound(t) /\ (Counted(s) => Counted(t))
<1> DEFINE t == memp_recycle(s, b)
           i == s.p[b]
<1>1. s \in PoolType /\ s.header \in [1 .. n -> Block \cup {NULL}] /\ s.p \in [Block -> Word]
      /\ s.cap \in [Block -> Nat] /\ s.used \in Int /\ s.empty \in Int /\ b \in Block
  BY PoolFields DEF Sound
<1>2. i \in 1 .. BIG /\ BIG = n + 1 /\ n \in Nat /\ \A j \in 1 .. n : Size[j] \in Nat
  BY SizesSorted DEF Sound, Fits
<1>3. NULL \in Word /\ Block \subseteq Word
  BY DEF Word
<1>4. CASE i = BIG
  <2> DEFINE u == [s EXCEPT !.cap[b] = 0, !.p[b] = NULL]
  <2>1. u \in PoolType
    BY <1>1, <1>3 DEF PoolType
  <2>2. Has(u, s.header, [s.p EXCEPT ![b] = NULL], [s.cap EXCEPT ![b] = 0], s.used, s.empty, s.held)
    BY <1>1 DEF PoolType, Has
  <2>3. t = Drop(u, b)
    BY <1>4 DEF memp_recycle
  <2> HIDE DEF u, t
  <2>4. t \in PoolType /\ Has(t, s.header, [s.p EXCEPT ![b] = NULL], [s.cap EXCEPT ![b] = 0],
                              s.used, s.empty, Without(s.held, b))
    BY <1>1, <2>1, <2>2, <2>3, DropFields DEF Has
  <2> QED  BY <1>4, <2>4, FreedSound DEF t, Has
<1>5. CASE i # BIG
  <2>1. i \in 1 .. n /\ s.header[i] \in Block \cup {NULL} /\ s.header[i] \in Word /\ Size[i] \in Nat
    BY <1>1, <1>2, <1>3, <1>5
  <2> DEFINE u == [s EXCEPT !.p[b] = s.header[i], !.header[i] = b,
                            !.empty = @ + Size[i], !.used = @ - Size[i]]
  <2>2. t = Drop(u, b)
    BY <1>5 DEF memp_recycle
  <2> HIDE DEF i, t
  <2>3. u \in PoolType
    <3>1. s.used - Size[i] \in Int /\ s.empty + Size[i] \in Int
          /\ [s.p EXCEPT ![b] = s.header[i]] \in [Block -> Word]
          /\ [s.header EXCEPT ![i] = b] \in [1 .. n -> Block \cup {NULL}]
      BY <1>1, <2>1
    <3> QED  BY <1>1, <3>1 DEF PoolType
  <2>4. Has(u, [s.header EXCEPT ![i] = b], [s.p EXCEPT ![b] = s.header[i]], s.cap,
            s.used - Size[i], s.empty + Size[i], s.held)
    BY <1>1 DEF PoolType, Has
  <2> HIDE DEF u
  <2>5. t \in PoolType /\ Has(t, [s.header EXCEPT ![i] = b], [s.p EXCEPT ![b] = s.header[i]], s.cap,
                              s.used - Size[i], s.empty + Size[i], Without(s.held, b))
    BY <1>1, <2>2, <2>3, <2>4, DropFields DEF Has
  <2> QED  BY <1>5, <2>5, RecycledSound DEF t, i, Has
<1> QED  BY <1>4, <1>5

\* ReallocBig: realloc gives another block, or the same one, of the new size.
LEMMA ReallocBigSound ==
  ASSUME NEW s, Sound(s), NEW b, b \in DOMAIN s.held, s.p[b] = BIG,
         NEW size \in Nat, size > Size[n], NEW nb \in {x \in Block : s.cap[x] = 0} \cup {b}
  PROVE  LET t == Hold(Drop([s EXCEPT !.cap[b] = 0, !.p[b] = NULL,
                                      !.cap[nb] = size, !.p[nb] = BIG], b), nb, size)
         IN  Sound(t) /\ (Counted(s) => Counted(t))
<1> DEFINE u0 == [s EXCEPT !.cap[b] = 0, !.p[b] = NULL]
           u == [s EXCEPT !.cap[b] = 0, !.p[b] = NULL, !.cap[nb] = size, !.p[nb] = BIG]
           m == Drop(u0, b)
           t == Hold(Drop(u, b), nb, size)
           p0 == [s.p EXCEPT ![b] = NULL]
           c0 == [s.cap EXCEPT ![b] = 0]
<1>1. s \in PoolType /\ s.p \in [Block -> Word] /\ s.cap \in [Block -> Nat] /\ b \in Block
      /\ s.used \in Int
  BY PoolFields DEF Sound
<1>2. NULL \in Word /\ BIG \in Word /\ BIG \in 1 .. BIG /\ nb \in Block /\ size > 0
  BY <1>1, SizesSorted DEF Word
<1>3. p0 \in [Block -> Word] /\ c0 \in [Block -> Nat]
      /\ [p0 EXCEPT ![nb] = BIG] \in [Block -> Word] /\ [c0 EXCEPT ![nb] = size] \in [Block -> Nat]
  BY <1>1, <1>2
<1>4. c0[nb] = 0
  BY <1>1, <1>2
<1>5. u0 \in PoolType /\ Has(u0, s.header, p0, c0, s.used, s.empty, s.held)
  <2>1. u0 \in PoolType
    BY <1>1, <1>3 DEF PoolType
  <2> QED  BY <1>1, <2>1 DEF PoolType, Has
<1>6. u \in PoolType /\ Has(u, s.header, [p0 EXCEPT ![nb] = BIG], [c0 EXCEPT ![nb] = size],
                            s.used, s.empty, s.held)
  <2> DEFINE u1 == [u0 EXCEPT !.cap[nb] = size, !.p[nb] = BIG]
  <2>1. u = u1
    BY <1>1 DEF PoolType
  <2> HIDE DEF u0, u
  <2>2. u1 \in PoolType
    BY <1>2, <1>5 DEF PoolType
  <2>3. Has(u1, u0.header, [u0.p EXCEPT ![nb] = BIG], [u0.cap EXCEPT ![nb] = size],
            u0.used, u0.empty, u0.held)
    BY <1>5 DEF PoolType, Has
  <2> QED  BY <1>5, <2>1, <2>2, <2>3 DEF Has
<1> HIDE DEF u0, u, p0, c0
<1>7. m \in PoolType /\ Has(m, s.header, p0, c0, s.used, s.empty, Without(s.held, b))
  BY <1>1, <1>5, DropFields DEF Has
<1>8. Sound(m) /\ (Counted(s) => Counted(m))
  BY <1>7, FreedSound DEF Has, p0, c0
<1> DEFINE d == Drop(u, b)
<1>9. d \in PoolType /\ Has(d, s.header, [p0 EXCEPT ![nb] = BIG], [c0 EXCEPT ![nb] = size],
                            s.used, s.empty, Without(s.held, b))
  BY <1>1, <1>6, DropFields DEF Has
<1>10. t = Hold(d, nb, size)
  OBVIOUS
<1> HIDE DEF m, d, t
<1>11. t \in PoolType /\ Has(t, s.header, [p0 EXCEPT ![nb] = BIG], [c0 EXCEPT ![nb] = size],
                             s.used, s.empty, Holding(Without(s.held, b), nb, size))
  BY <1>2, <1>9, <1>10, HoldFields DEF Has
<1>12. /\ t.header = m.header /\ t.p = [m.p EXCEPT ![nb] = BIG]
       /\ t.cap = [m.cap EXCEPT ![nb] = size] /\ t.held = Holding(m.held, nb, size)
       /\ t.used = m.used + (IF BIG = BIG THEN 0 ELSE size) /\ t.empty = m.empty
       /\ m.cap[nb] = 0 /\ size >= size
  BY <1>1, <1>4, <1>7, <1>11 DEF Has
<1>13. Sound(t) /\ (Counted(m) => Counted(t))
  BY <1>2, <1>8, <1>11, <1>12, FreshSound
<1> QED  BY <1>8, <1>13 DEF t, d, u

-----------------------------------------------------------------------------
(* The specification.                                                      *)

\* while the pool lives, it is sound and its counters are right; afterwards no
\* list is left
PoolInv ==
  /\ Sound(Pool)
  /\ alive => Counted(Pool)
  /\ copied[1] <= copied[2] /\ copied[1] <= copied[3]

\* The lists of a sound pool hold what callers do not.
LEMMA SoundLists ==
  ASSUME Sound(Pool)
  PROVE  /\ Free = OnLists(Pool)
         /\ \A i \in 1 .. n : /\ Walk(p, header[i])[Cardinality(Block)] = NULL
                              /\ \A b \in Listed(i) : cap[b] = Size[i]
         /\ \A i, j \in 1 .. n : i # j => Listed(i) \cap Listed(j) = {}
<1>1. Pool.p = p /\ Pool.header = header /\ Pool.cap = cap /\ Pool.held = held
  BY DEF Pool
<1>2. Pool \in PoolType
  BY DEF Sound
<1>3. PICK c \in [Block -> 0 .. n], d \in [Block -> Nat] : Stacked(Pool, c, d)
  BY DEF Sound
<1>4. ASSUME NEW i \in 1 .. n
      PROVE  /\ Walk(p, header[i])[Cardinality(Block)] = NULL
             /\ Listed(i) = {b \in Block : c[b] = i}
  <2>1. /\ Walk(Pool.p, Pool.header[i])[Cardinality(Block)] = NULL
        /\ {b \in Block : \E k \in 0 .. Cardinality(Block) : Walk(Pool.p, Pool.header[i])[k] = b}
             = {b \in Block : c[b] = i}
    BY <1>2, <1>3, WalkLists
  <2>2. Listed(i) = {b \in Block : \E k \in 0 .. Cardinality(Block) : Walk(p, header[i])[k] = b}
    BY DEF Listed
  <2> QED  BY <1>1, <2>1, <2>2
<1>5. n \in Nat
  BY SizesSorted
<1>6. Free = {b \in Block : c[b] # 0}
  <2>1. \A b : b \in Free <=> \E i \in 1 .. n : b \in Listed(i)
    BY DEF Free
  <2>2. \A b \in Block : c[b] # 0 <=> c[b] \in 1 .. n
    BY <1>3, <1>5
  <2>3. \A b : b \in Free <=> b \in Block /\ c[b] # 0
    BY <1>4, <1>5, <2>1, <2>2
  <2> QED  BY <2>3
<1>7. \A b \in Block : c[b] # 0 <=> (cap[b] > 0 /\ b \notin DOMAIN held)
  BY <1>1, <1>3 DEF Stacked
<1>8. Free = OnLists(Pool)
  BY <1>1, <1>6, <1>7 DEF OnLists
<1>9. ASSUME NEW i \in 1 .. n, NEW b \in Listed(i) PROVE cap[b] = Size[i]
  <2>1. b \in Block /\ c[b] = i /\ c[b] # 0
    BY <1>4, <1>5, <1>9
  <2> QED  BY <1>1, <1>3, <2>1 DEF Stacked
<1>10. \A i, j \in 1 .. n : i # j => Listed(i) \cap Listed(j) = {}
  BY <1>4
<1> QED  BY <1>4, <1>8, <1>9, <1>10

\* A pool that becomes t is t.
LEMMA BecomeIs ==
  ASSUME NEW t \in PoolType, Become(t)
  PROVE  Pool' = t
<1>1. t = [header |-> t.header, p |-> t.p, cap |-> t.cap, used |-> t.used,
           empty |-> t.empty, held |-> t.held]
  BY DEF PoolType
<1>2. header' = t.header /\ p' = t.p /\ cap' = t.cap /\ used' = t.used /\ empty' = t.empty
      /\ held' = t.held
  BY DEF Become
<1> QED  BY <1>1, <1>2 DEF Pool

\* A step to a sound pool keeps the invariant.
LEMMA Becomes ==
  ASSUME PoolInv, alive, NEW t, Become(t), Sound(t), Counted(Pool) => Counted(t),
         copied'[1] <= copied'[2] /\ copied'[1] <= copied'[3]
  PROVE  PoolInv'
<1>1. t \in PoolType
  BY DEF Sound
<1>2. Pool' = t
  BY <1>1, BecomeIs
<1>3. Sound(Pool') /\ Counted(Pool')
  BY <1>2 DEF PoolInv
<1> QED  BY <1>3 DEF PoolInv

\* Every step keeps it.
LEMMA PoolStep == PoolInv /\ [PoolNext]_poolVars => PoolInv'
<1> SUFFICES ASSUME PoolInv, [PoolNext]_poolVars PROVE PoolInv'
  OBVIOUS
<1>1. Sound(Pool) /\ Pool \in PoolType
  BY DEF PoolInv, Sound
<1>2. /\ Pool.header = header /\ Pool.p = p /\ Pool.cap = cap /\ Pool.held = held
      /\ Pool.used = used /\ Pool.empty = empty
  BY DEF Pool
<1>3. cap \in [Block -> Nat] /\ DOMAIN held \subseteq Block /\ p \in [Block -> Word]
      /\ \A b \in DOMAIN held : held[b] \in Nat
  BY <1>1, <1>2, PoolFields
<1>4. /\ n \in Nat /\ n > 0 /\ BIG = n + 1
      /\ \A i \in 1 .. n : Size[i] \in Nat /\ Size[i] > 0 /\ Size[i] <= Size[n]
  BY SizesSorted
<1>5. \A b \in DOMAIN held :
        /\ cap[b] > 0 /\ cap[b] >= held[b] /\ p[b] \in 1 .. BIG
        /\ p[b] = BIG <=> cap[b] > Size[n]
        /\ p[b] # BIG => cap[b] = Size[p[b]]
  BY <1>1, <1>2 DEF Sound, Fits
<1>6. \A fresh : fresh \in Unmalloced \cup {NULL}
                 => fresh \in {x \in Block : Pool.cap[x] = 0} \cup {NULL}
  BY <1>2 DEF Unmalloced
<1>7. <<0, 0, 0>>[1] <= <<0, 0, 0>>[2] /\ <<0, 0, 0>>[1] <= <<0, 0, 0>>[3]
  OBVIOUS
<1> HIDE DEF Pool
<1>8. ASSUME NEW size \in Nat, size > 0, Alloc(size) PROVE PoolInv'
  <2>1. PICK fresh \in Unmalloced \cup {NULL} :
           Granted(Pool, size, fresh) # NULL /\ Become(memp_alloc(Pool, size, fresh))
    BY <1>8 DEF Alloc
  <2>2. LET t == memp_alloc(Pool, size, fresh) IN Sound(t) /\ (Counted(Pool) => Counted(t))
    BY <1>1, <1>6, <1>8, <2>1, AllocSound
  <2>3. alive /\ copied' = <<0, 0, 0>>
    BY <1>8 DEF Alloc
  <2> QED  BY <1>7, <2>1, <2>2, <2>3, Becomes
<1>9. ASSUME NEW b, Recycle(b) PROVE PoolInv'
  <2>1. alive /\ b \in DOMAIN Pool.held /\ Become(memp_recycle(Pool, b)) /\ copied' = <<0, 0, 0>>
    BY <1>2, <1>9 DEF Recycle
  <2>2. LET t == memp_recycle(Pool, b) IN Sound(t) /\ (Counted(Pool) => Counted(t))
    BY <1>1, <2>1, RecycleSound
  <2> QED  BY <1>7, <2>1, <2>2, Becomes
<1>10. ASSUME NEW b, NEW size \in Nat, ReallocInPlace(b, size) PROVE PoolInv'
  <2>1. alive /\ b \in DOMAIN held /\ p[b] # BIG /\ size <= Size[p[b]] /\ b \in Block
        /\ Become(Hold(Pool, b, size)) /\ copied' = <<0, 0, 0>>
    BY <1>3, <1>10 DEF ReallocInPlace
  <2> DEFINE t == Hold(Pool, b, size)
  <2>2. t \in PoolType /\ Has(t, Pool.header, Pool.p, Pool.cap, Pool.used, Pool.empty,
                              Holding(Pool.held, b, size))
    BY <1>1, <2>1, HoldFields
  <2>3. size <= Pool.cap[b] /\ b \in DOMAIN Pool.held
    BY <1>2, <1>5, <2>1
  <2>4. Become(t)
    BY <2>1
  <2> HIDE DEF t
  <2>5. Sound(t) /\ (Counted(Pool) => Counted(t))
    BY <1>1, <2>2, <2>3, KeptSound DEF Has
  <2> QED  BY <1>7, <2>1, <2>4, <2>5, Becomes
<1>11. ASSUME NEW b, NEW size \in Nat, ReallocBig(b, size) PROVE PoolInv'
  <2>1. alive /\ b \in DOMAIN Pool.held /\ Pool.p[b] = BIG /\ size > Size[n] /\ copied' = <<0, 0, 0>>
    BY <1>2, <1>11 DEF ReallocBig
  <2>2. PICK nb \in Unmalloced \cup {b} :
          Become(Hold(Drop([Pool EXCEPT !.cap[b] = 0, !.p[b] = NULL,
                                        !.cap[nb] = size, !.p[nb] = BIG], b), nb, size))
    BY <1>11 DEF ReallocBig
  <2> DEFINE t == Hold(Drop([Pool EXCEPT !.cap[b] = 0, !.p[b] = NULL,
                                         !.cap[nb] = size, !.p[nb] = BIG], b), nb, size)
  <2>3. nb \in {x \in Block : Pool.cap[x] = 0} \cup {b}
    BY <1>2 DEF Unmalloced
  <2>4. Sound(t) /\ (Counted(Pool) => Counted(t))
    BY <1>1, <2>1, <2>3, ReallocBigSound
  <2>5. Become(t)
    BY <2>2
  <2> HIDE DEF t
  <2> QED  BY <1>7, <2>1, <2>4, <2>5, Becomes
<1>12. ASSUME NEW b, NEW size \in Nat, size > 0, ReallocMove(b, size) PROVE PoolInv'
  <2>1. alive /\ b \in DOMAIN held /\ (IF p[b] = BIG THEN size <= Size[n] ELSE size > Size[p[b]])
    BY <1>12 DEF ReallocMove
  <2>2. PICK fresh \in Unmalloced \cup {NULL} :
          LET nb == Granted(Pool, size, fresh)
              s  == memp_alloc(Pool, size, fresh)
          IN  /\ nb # NULL
              /\ Become(memp_recycle(s, b))
              /\ copied' = <<CopyLen(p[b], size), cap[b], s.cap[nb]>>
    BY <1>12 DEF ReallocMove
  <2> DEFINE nb == Granted(Pool, size, fresh)
             s  == memp_alloc(Pool, size, fresh)
             t  == memp_recycle(s, b)
  <2>3. /\ Sound(s) /\ (Counted(Pool) => Counted(s)) /\ s.cap[nb] >= size /\ nb \in Block
        /\ DOMAIN s.held = DOMAIN Pool.held \cup {nb}
    BY <1>1, <1>6, <1>12, <2>2, AllocSound
  <2>4. Become(t) /\ copied' = <<CopyLen(p[b], size), cap[b], s.cap[nb]>>
    BY <2>2
  <2> HIDE DEF nb, s
  <2>5. Sound(t) /\ (Counted(s) => Counted(t))
    <3>1. b \in DOMAIN s.held
      BY <1>2, <2>1, <2>3
    <3> QED  BY <2>3, <3>1, RecycleSound
  <2>6. CopyLen(p[b], size) <= cap[b] /\ CopyLen(p[b], size) <= s.cap[nb]
    <3>1. cap[b] \in Nat /\ s.cap[nb] \in Nat
      <4>1. s \in PoolType
        BY <2>3 DEF Sound
      <4>2. s.cap \in [Block -> Nat]
        BY <4>1, PoolFields
      <4> QED  BY <1>3, <2>1, <2>3, <4>2
    <3>2. CASE p[b] = BIG
      <4>1. CopyLen(p[b], size) = size /\ size <= Size[n] /\ cap[b] > Size[n] /\ Size[n] \in Nat
        BY <1>4, <1>5, <2>1, <3>2 DEF CopyLen
      <4> QED  BY <2>3, <3>1, <4>1
    <3>3. CASE p[b] # BIG
      <4>1. CopyLen(p[b], size) = Size[p[b]] /\ size > Size[p[b]] /\ cap[b] = Size[p[b]]
        BY <1>5, <2>1, <3>3 DEF CopyLen
      <4> QED  BY <2>3, <3>1, <4>1
    <3> QED  BY <3>2, <3>3
  <2>7. copied'[1] <= copied'[2] /\ copied'[1] <= copied'[3]
    BY <2>4, <2>6
  <2> HIDE DEF t
  <2> QED  BY <2>1, <2>3, <2>4, <2>5, <2>7, Becomes
<1>13. ASSUME memp_destroy PROVE PoolInv'
  <2>1. /\ cap' = [b \in Block |-> IF b \in Free THEN 0 ELSE cap[b]]
        /\ header' = [i \in 1 .. n |-> NULL] /\ alive' = FALSE
        /\ p' = p /\ used' = used /\ empty' = empty /\ held' = held /\ copied' = copied
    BY <1>13 DEF memp_destroy
  <2>2. \A b \in Block : b \in Free <=> (cap[b] > 0 /\ b \notin DOMAIN held)
    BY <1>1, <1>2, SoundLists DEF OnLists
  <2> DEFINE t == Pool'
  <2>3. /\ t.header = header' /\ t.p = p /\ t.cap = cap' /\ t.held = held
        /\ t.used = used /\ t.empty = empty
    BY <2>1 DEF Pool
  <2>4. t \in PoolType
    <3>1. header' \in [1 .. n -> Block \cup {NULL}] /\ cap' \in [Block -> Nat]
      BY <1>3, <2>1
    <3>2. held \in Callers /\ used \in Int /\ empty \in Int
      BY <1>1, <1>2, PoolFields
    <3> QED  BY <1>3, <2>1, <3>1, <3>2 DEF Pool, PoolType
  <2> HIDE DEF t
  <2>5. Fits(t)
    <3>1. \A b \in DOMAIN held : b \in Block /\ cap'[b] = cap[b]
      BY <1>3, <2>1, <2>2
    <3> QED  BY <1>5, <2>3, <3>1 DEF Fits
  <2>6. Stacked(t, [b \in Block |-> 0], [b \in Block |-> 0])
    <3>1. \A b \in Block : ~(cap'[b] > 0 /\ b \notin DOMAIN held)
      <4> SUFFICES ASSUME NEW b \in Block, b \notin DOMAIN held PROVE ~(cap'[b] > 0)
        OBVIOUS
      <4>1. CASE b \in Free
        BY <2>1, <4>1
      <4>2. CASE b \notin Free
        BY <2>1, <2>2, <4>2
      <4> QED  BY <4>1, <4>2
    <3>2. \A i \in 1 .. n : t.header[i] = NULL /\ i # 0
      BY <2>1, <2>3
    <3> QED  BY <2>3, <3>1, <3>2 DEF Stacked
  <2>7. Sound(t)
    <3>1. [b \in Block |-> 0] \in [Block -> 0 .. n] /\ [b \in Block |-> 0] \in [Block -> Nat]
      BY <1>4
    <3> QED  BY <2>4, <2>5, <2>6, <3>1 DEF Sound
  <2>8. Sound(Pool)'
    BY <2>7 DEF t
  <2> QED  BY <2>1, <2>8 DEF PoolInv
<1>14. ASSUME NEW ptr, NEW table, NEW nsize \in Nat, lalloc(ptr, table, nsize) PROVE PoolInv'
  <2>1. CASE nsize = 0 /\ ptr # NULL /\ Recycle(ptr)
    BY <1>9, <2>1
  <2>2. CASE nsize > 0 /\ ptr # NULL /\ (ReallocInPlace(ptr, nsize) \/ ReallocBig(ptr, nsize)
                                         \/ ReallocMove(ptr, nsize))
    BY <1>10, <1>11, <1>12, <2>2
  <2>3. CASE nsize > 0 /\ ptr = NULL /\ Alloc(IF table THEN nsize * 4 ELSE nsize)
    <3>1. nsize * 4 \in Nat /\ nsize * 4 > 0
      BY <2>3
    <3>2. CASE table
      BY <1>8, <2>3, <3>1, <3>2
    <3>3. CASE ~table
      BY <1>8, <2>3, <3>3
    <3> QED  BY <3>2, <3>3
  <2> QED  BY <1>14, <2>1, <2>2, <2>3 DEF lalloc
<1>15. CASE UNCHANGED poolVars
  <2>1. Pool' = Pool /\ alive' = alive /\ copied' = copied
    BY <1>15 DEF poolVars, Pool
  <2> QED  BY <2>1 DEF PoolInv, Sound, Fits, Counted, Stacked
<1>16. CASE PoolNext
  <2>1. MaxSize \in Nat
    BY MemPoolAssumption
  <2>2. CASE \E size \in 1 .. MaxSize : Alloc(size)
    BY <1>8, <2>1, <2>2
  <2>3. CASE \E b \in Block : Recycle(b)
    BY <1>9, <2>3
  <2>4. CASE \E ptr \in Block \cup {NULL}, table \in BOOLEAN, nsize \in 0 .. MaxSize :
               lalloc(ptr, table, nsize)
    BY <1>14, <2>1, <2>4
  <2> QED  BY <1>13, <1>16, <2>2, <2>3, <2>4 DEF PoolNext
<1> QED  BY <1>15, <1>16

\* A new pool has no block.
LEMMA PoolStart == memp_new => PoolInv
<1> SUFFICES ASSUME memp_new PROVE PoolInv
  OBVIOUS
<1> DEFINE z == [b \in Block |-> 0]
<1>1. /\ Pool.header = [i \in 1 .. n |-> NULL] /\ Pool.p = [b \in Block |-> NULL]
      /\ Pool.cap = z /\ Pool.used = 0 /\ Pool.empty = 0 /\ Pool.held = <<>>
  BY DEF Pool, memp_new
<1>2. DOMAIN <<>> = {} /\ <<>> \in Callers
  <2>1. <<>> \in [{} -> Nat] /\ {} \in SUBSET Block
    OBVIOUS
  <2> QED  BY <2>1 DEF Callers
<1>3. Pool \in PoolType
  <2>1. NULL \in Word
    BY DEF Word
  <2> QED  BY <1>2, <2>1 DEF Pool, PoolType, memp_new
<1>4. n \in Nat
  BY SizesSorted
<1>5. z \in [Block -> 0 .. n] /\ z \in [Block -> Nat] /\ \A b \in Block : z[b] = 0
  BY <1>4
<1> HIDE DEF z
<1>6. Fits(Pool)
  BY <1>1, <1>2 DEF Fits
<1>7. Stacked(Pool, z, z)
  <2>1. \A i \in 1 .. n : Pool.header[i] = NULL /\ i # 0
    BY <1>1
  <2> QED  BY <1>1, <1>5, <2>1 DEF Stacked
<1>8. Sound(Pool)
  BY <1>3, <1>5, <1>6, <1>7 DEF Sound
<1>9. InClasses(Pool) = {} /\ OnLists(Pool) = {}
  BY <1>1, <1>2, <1>5 DEF InClasses, OnLists
<1>10. Counted(Pool)
  BY <1>1, <1>9, BytesOfNone DEF Counted
<1>11. copied[1] <= copied[2] /\ copied[1] <= copied[3]
  BY DEF memp_new
<1> QED  BY <1>8, <1>10, <1>11 DEF PoolInv

\* The pool is sound in every state.
THEOREM MemPoolInvariant == PoolSpec => []PoolInv
  BY PoolStart, PoolStep, PTL DEF PoolSpec

\* Every malloc'd block is a caller's or on one list, once.
THEOREM EveryBlockAccounted == PoolSpec => []FreeListsSound
<1>1. ASSUME PoolInv PROVE FreeListsSound
  <2>1. /\ Pool.header = header /\ Pool.p = p /\ Pool.cap = cap /\ Pool.held = held
        /\ Pool.used = used /\ Pool.empty = empty
    BY DEF Pool
  <2>2. Sound(Pool) /\ Pool \in PoolType
    BY <1>1 DEF PoolInv, Sound
  <2>3. Free = {b \in Block : cap[b] > 0} \ DOMAIN held
    BY <2>1, <2>2, SoundLists DEF OnLists
  <2>4. DOMAIN held \subseteq {b \in Block : cap[b] > 0}
    BY <2>1, <2>2, PoolFields DEF Sound, Fits
  <2>5. {b \in Block : cap[b] > 0} = DOMAIN held \cup Free /\ DOMAIN held \cap Free = {}
    BY <2>3, <2>4
  <2>6. alive => used = Bytes(cap, {b \in DOMAIN held : p[b] # BIG}) /\ empty = Bytes(cap, Free)
    <3>1. InClasses(Pool) = {b \in DOMAIN held : p[b] # BIG} /\ OnLists(Pool) = Free
      BY <2>1, <2>2, SoundLists DEF InClasses
    <3> QED  BY <1>1, <2>1, <3>1 DEF PoolInv, Counted
  <2> QED  BY <2>2, <2>5, <2>6, SoundLists DEF FreeListsSound
<1> QED  BY <1>1, MemPoolInvariant, PTL

\* A caller's block is big enough, and memp_realloc copies within both blocks.
THEOREM BlocksFit == PoolSpec => []BestFit
<1>1. ASSUME PoolInv PROVE BestFit
  <2>1. Pool.p = p /\ Pool.cap = cap /\ Pool.held = held
    BY DEF Pool
  <2> QED  BY <1>1, <2>1 DEF PoolInv, Sound, Fits, BestFit
<1> QED  BY <1>1, MemPoolInvariant, PTL
=============================================================================
