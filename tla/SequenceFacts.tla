---------------------------- MODULE SequenceFacts ----------------------------
(***************************************************************************)
(* What Append, Head, Tail and \o do to the elements of a sequence: the    *)
(* facts the proofs about queues, pools and channels share.  And induction *)
(* over the naturals, written with sets as the provers do not instantiate  *)
(* a theorem over predicates, for the loops of the code that the models    *)
(* write as functions of the number of turns.                              *)
(***************************************************************************)
EXTENDS Naturals, Sequences, SequencesExt, SequenceTheorems, WellFoundedInduction, TLAPS

\* Nothing and nothing is nothing.
LEMMA EmptyConcat == << >> \o << >> = << >> /\ Len(<< >>) = 0
<1>1. << >> \in Seq({}) /\ Len(<< >>) = 0
  BY EmptySeq
<1> QED  BY <1>1, ConcatEmptySeq

\* A value that is appended is the last one, and one more element.
LEMMA AppendElements ==
  ASSUME NEW S, NEW s \in Seq(S), NEW e \in S
  PROVE  /\ Append(s, e) \in Seq(S) /\ Len(Append(s, e)) = Len(s) + 1
         /\ \A k \in 1 .. Len(s) : Append(s, e)[k] = s[k]
         /\ Append(s, e)[Len(s) + 1] = e
         /\ ToSet(Append(s, e)) = ToSet(s) \cup {e}
  BY DEF ToSet

\* A value that is not there yet is appended without a repetition.
LEMMA InjectiveAppend ==
  ASSUME NEW S, NEW s \in Seq(S), NEW e \in S, IsInjective(s), e \notin ToSet(s)
  PROVE  IsInjective(Append(s, e))
<1>1. DOMAIN Append(s, e) = 1 .. Len(s) + 1 /\ DOMAIN s = 1 .. Len(s) /\ Len(s) \in Nat
  OBVIOUS
<1>2. \A k \in 1 .. Len(s) : Append(s, e)[k] = s[k] /\ s[k] # e
  BY DEF ToSet
<1>3. Append(s, e)[Len(s) + 1] = e
  OBVIOUS
<1> QED  BY <1>1, <1>2, <1>3 DEF IsInjective

\* Head and Tail divide a sequence.
LEMMA TailElements ==
  ASSUME NEW S, NEW s \in Seq(S), s # << >>
  PROVE  /\ Tail(s) \in Seq(S) /\ Len(Tail(s)) = Len(s) - 1 /\ Head(s) \in S
         /\ Len(s) \in Nat \ {0} /\ Head(s) = s[1]
         /\ \A k \in 1 .. Len(s) - 1 : Tail(s)[k] = s[k + 1]
         /\ ToSet(s) = ToSet(Tail(s)) \cup {Head(s)}
<1>1. /\ Tail(s) \in Seq(S) /\ Len(Tail(s)) = Len(s) - 1 /\ Head(s) \in S
      /\ Len(s) \in Nat \ {0} /\ Head(s) = s[1]
      /\ \A k \in 1 .. Len(s) - 1 : Tail(s)[k] = s[k + 1]
  OBVIOUS
<1>2. ToSet(Tail(s)) \cup {Head(s)} \subseteq ToSet(s)
  BY <1>1 DEF ToSet
<1>3. ASSUME NEW k \in 1 .. Len(s)
      PROVE  s[k] \in ToSet(Tail(s)) \cup {Head(s)}
  <2>1. CASE k = 1
    BY <2>1, <1>1
  <2>2. CASE k # 1
    <3>1. k - 1 \in 1 .. Len(s) - 1 /\ Tail(s)[k - 1] = s[k]
      BY <2>2, <1>1
    <3>2. k - 1 \in DOMAIN Tail(s)
      BY <3>1, <1>1
    <3> QED  BY <3>1, <3>2 DEF ToSet
  <2> QED  BY <2>1, <2>2
<1> QED  BY <1>1, <1>2, <1>3 DEF ToSet

\* The tail of a sequence without repetitions has none, and not the head.
LEMMA InjectiveTail ==
  ASSUME NEW S, NEW s \in Seq(S), s # << >>, IsInjective(s)
  PROVE  IsInjective(Tail(s)) /\ Head(s) \notin ToSet(Tail(s))
  BY DEF ToSet, IsInjective

\* What is appended to the second part of a queue goes to the end of the whole.
LEMMA QueueAppend ==
  ASSUME NEW S, NEW s \in Seq(S), NEW t \in Seq(S), NEW e \in S
  PROVE  s \o Append(t, e) = Append(s \o t, e)
<1>1. Append(t, e) = t \o <<e>> /\ <<e>> \in Seq(S) /\ s \o t \in Seq(S)
  BY AppendIsConcat, ConcatProperties
<1>2. Append(s \o t, e) = (s \o t) \o <<e>>
  BY <1>1, AppendIsConcat
<1> QED  BY <1>1, <1>2, ConcatAssociative

\* An element that moves from one part of a queue to the other stays where it is.
LEMMA QueueMoves ==
  ASSUME NEW S, NEW s \in Seq(S), NEW t \in Seq(S), t # << >>
  PROVE  Append(s, Head(t)) \o Tail(t) = s \o t /\ (s \o t)[Len(s) + 1] = Head(t)
<1> DEFINE u == Append(s, Head(t))
           v == Tail(t)
<1>1. /\ u \in Seq(S) /\ Len(u) = Len(s) + 1 /\ u[Len(s) + 1] = Head(t)
      /\ \A x \in 1 .. Len(s) : u[x] = s[x]
      /\ v \in Seq(S) /\ Len(v) = Len(t) - 1 /\ Head(t) = t[1]
      /\ \A x \in 1 .. Len(t) - 1 : v[x] = t[x + 1]
      /\ Len(s) \in Nat /\ Len(t) \in Nat \ {0}
  BY AppendElements, TailElements
<1> HIDE DEF u, v
<1>2. /\ s \o t \in Seq(S) /\ Len(s \o t) = Len(s) + Len(t)
      /\ \A x \in 1 .. Len(s) + Len(t) :
           (s \o t)[x] = IF x <= Len(s) THEN s[x] ELSE t[x - Len(s)]
  BY ConcatProperties
<1>3. /\ u \o v \in Seq(S) /\ Len(u \o v) = Len(u) + Len(v)
      /\ \A x \in 1 .. Len(u) + Len(v) :
           (u \o v)[x] = IF x <= Len(u) THEN u[x] ELSE v[x - Len(u)]
  BY <1>1, ConcatProperties
<1>4. ASSUME NEW x \in 1 .. Len(s) + Len(t)
      PROVE  (u \o v)[x] = (s \o t)[x]
  <2>1. CASE x <= Len(s)
    BY <1>1, <1>2, <1>3, <2>1
  <2>2. CASE x = Len(s) + 1
    BY <1>1, <1>2, <1>3, <2>2
  <2>3. CASE x > Len(s) + 1
    <3>1. x - (Len(s) + 1) \in 1 .. Len(t) - 1
      BY <1>1, <2>3
    <3>2. v[x - (Len(s) + 1)] = t[x - Len(s)]
      <4>1. (x - (Len(s) + 1)) + 1 = x - Len(s)
        BY <1>1
      <4>2. v[x - (Len(s) + 1)] = t[(x - (Len(s) + 1)) + 1]
        BY <1>1, <3>1
      <4> QED  BY <4>1, <4>2
    <3> QED  BY <1>1, <1>2, <1>3, <2>3, <3>2
  <2> QED  BY <1>1, <2>1, <2>2, <2>3
<1>5. u \o v = s \o t
  <2>1. Len(u \o v) = Len(s) + Len(t)
    BY <1>1, <1>3
  <2> QED  BY <1>2, <1>3, <1>4, <2>1, SeqEqual
<1>6. (s \o t)[Len(s) + 1] = Head(t)
  <2>1. Len(s) + 1 \in 1 .. Len(s) + Len(t) /\ ~(Len(s) + 1 <= Len(s))
    BY <1>1
  <2>2. (s \o t)[Len(s) + 1] = t[Len(s) + 1 - Len(s)]
    BY <1>2, <2>1
  <2> QED  BY <1>1, <2>2
<1> QED  BY <1>5, <1>6 DEF u, v

\* Nor does a prefix that moves change the whole.
LEMMA PrefixMoves ==
  ASSUME NEW S, NEW a \in Seq(S), NEW b \in Seq(S), NEW k \in 0 .. Len(b)
  PROVE  /\ SubSeq(b, 1, k) \in Seq(S) /\ Len(SubSeq(b, 1, k)) = k
         /\ SubSeq(b, k + 1, Len(b)) \in Seq(S)
         /\ a \o SubSeq(b, 1, k) \in Seq(S)
         /\ (a \o SubSeq(b, 1, k)) \o SubSeq(b, k + 1, Len(b)) = a \o b
<1> DEFINE pre == SubSeq(b, 1, k)
           post == SubSeq(b, k + 1, Len(b))
<1>1. Len(b) \in Nat /\ \A x \in 1 .. Len(b) : b[x] \in S
  BY LenProperties
<1>2. pre \in Seq(S) /\ Len(pre) = k /\ post \in Seq(S)
  <2>1. /\ \A x \in 1 .. k : b[x] \in S
        /\ \A x \in k + 1 .. Len(b) : b[x] \in S
    BY <1>1
  <2>2. pre \in Seq(S) /\ Len(pre) = IF 1 <= k THEN k - 1 + 1 ELSE 0
    BY <1>1, <2>1, SubSeqProperties
  <2>3. post \in Seq(S)
    BY <1>1, <2>1, SubSeqProperties
  <2> QED  BY <1>1, <2>2, <2>3
<1>3. pre \o post = b
  <2>1. 1 \in 1 .. Len(b) + 1 /\ k \in 1 - 1 .. Len(b) /\ Len(b) \in k .. Len(b)
    BY <1>1
  <2>2. pre \o post = SubSeq(b, 1, Len(b))
    BY <2>1, ConcatAdjacentSubSeq
  <2> QED  BY <2>2, SubSeqFull
<1> HIDE DEF pre, post
<1>4. a \o pre \in Seq(S)
  BY <1>2, ConcatProperties
<1>5. (a \o pre) \o post = a \o (pre \o post)
  <2>1. a \in Seq(S) /\ pre \in Seq(S) /\ post \in Seq(S)
    BY <1>2
  <2> QED  BY ONLY <2>1, ConcatAssociative
<1> QED  BY <1>2, <1>3, <1>4, <1>5 DEF pre, post

-----------------------------------------------------------------------------
(* Induction.                                                              *)

\* A set that has 0, and with each number the next, has all of them.
LEMMA SetInduction ==
  ASSUME NEW T, 0 \in T, \A k \in Nat : k \in T => k + 1 \in T
  PROVE  Nat \subseteq T
<1> DEFINE M == Nat \ T
           R == OpToRel(<, Nat)
<1> SUFFICES ASSUME M # {} PROVE FALSE
  OBVIOUS
<1>1. IsWellFoundedOn(R, Nat) /\ M \subseteq Nat
  BY NatLessThanWellFounded
<1>2. \A x, y \in Nat : x < y => <<x, y>> \in R
  BY DEF OpToRel
<1> HIDE DEF M, R
<1>3. PICK x \in M : \A y \in M : ~(<<y, x>> \in R)
  BY <1>1, WFMin
<1>4. x \in Nat /\ x # 0
  BY DEF M
<1>5. x - 1 \in Nat /\ x - 1 < x
  BY <1>4
<1>6. x - 1 \notin M
  BY <1>2, <1>3, <1>4, <1>5
<1>7. x - 1 \in T /\ (x - 1) + 1 = x
  BY <1>4, <1>5, <1>6 DEF M
<1>8. x \in T
  BY <1>5, <1>7
<1> QED  BY <1>8 DEF M

\* h[k] is what k applications of g make of s0
Iterates(g, s0, h) == h[0] = s0 /\ \A k \in Nat : h[k + 1] = g[h[k]]

\* A function can be applied any number of times.
LEMMA IterateExists ==
  ASSUME NEW S, NEW s0 \in S, NEW g \in [S -> S]
  PROVE  \E h \in [Nat -> S] : Iterates(g, s0, h)
<1> DEFINE OK(f, m) == f[0] = s0 /\ \A k \in 0 .. m : k < m => f[k + 1] = g[f[k]]
           T == {m \in Nat : \E f \in [Nat -> S] : OK(f, m)}
<1>1. 0 \in T
  <2>1. [k \in Nat |-> s0] \in [Nat -> S]
    OBVIOUS
  <2>2. OK([k \in Nat |-> s0], 0)
    OBVIOUS
  <2> QED  BY <2>1, <2>2
<1>2. ASSUME NEW m \in Nat, m \in T PROVE m + 1 \in T
  <2>1. PICK f \in [Nat -> S] : OK(f, m)
    BY <1>2
  <2> DEFINE e == [f EXCEPT ![m + 1] = g[f[m]]]
  <2>2. e \in [Nat -> S]
    OBVIOUS
  <2>3. OK(e, m + 1)
    BY <2>1
  <2> HIDE DEF e, OK
  <2> QED  BY <2>2, <2>3
<1>3. Nat \subseteq T
  <2> HIDE DEF T
  <2> QED  BY <1>1, <1>2, SetInduction
<1>4. \A f1, f2 \in [Nat -> S] : \A m1, m2 \in Nat :
        m1 <= m2 /\ OK(f1, m1) /\ OK(f2, m2) => f1[m1] = f2[m1]
  <2> SUFFICES ASSUME NEW f1 \in [Nat -> S], NEW f2 \in [Nat -> S], NEW m1 \in Nat, NEW m2 \in Nat,
                      m1 <= m2, OK(f1, m1), OK(f2, m2)
               PROVE  f1[m1] = f2[m1]
    <3> HIDE DEF OK
    <3> QED  OBVIOUS
  <2> DEFINE U == {k \in Nat : k <= m1 => f1[k] = f2[k]}
  <2>1. 0 \in U
    OBVIOUS
  <2>2. ASSUME NEW k \in Nat, k \in U PROVE k + 1 \in U
    <3> SUFFICES ASSUME k + 1 <= m1 PROVE f1[k + 1] = f2[k + 1]
      OBVIOUS
    <3>1. k \in 0 .. m1 /\ k < m1 /\ k \in 0 .. m2 /\ k < m2 /\ k <= m1
      OBVIOUS
    <3>2. f1[k + 1] = g[f1[k]] /\ f2[k + 1] = g[f2[k]]
      BY <3>1
    <3> QED  BY <2>2, <3>1, <3>2
  <2>3. Nat \subseteq U
    <3> HIDE DEF U
    <3> QED  BY <2>1, <2>2, SetInduction
  <2> QED  BY <2>3
<1> DEFINE F == [m \in Nat |-> CHOOSE f \in [Nat -> S] : OK(f, m)]
           h == [m \in Nat |-> F[m][m]]
<1>5. \A m \in Nat : F[m] \in [Nat -> S] /\ OK(F[m], m)
  BY <1>3
<1> HIDE DEF F
<1>6. h \in [Nat -> S] /\ h[0] = s0
  BY <1>5
<1>7. ASSUME NEW k \in Nat PROVE h[k + 1] = g[h[k]]
  <2>1. k <= k + 1 /\ k + 1 \in Nat /\ k \in 0 .. k + 1 /\ k < k + 1
    OBVIOUS
  <2>2. F[k + 1][k] = F[k][k]
    BY <1>4, <1>5, <2>1
  <2>3. F[k + 1][k + 1] = g[F[k + 1][k]]
    BY <1>5, <2>1
  <2> QED  BY <2>2, <2>3
<1> QED  BY <1>6, <1>7 DEF Iterates

\* A set of naturals has a least one.
LEMMA LeastExists ==
  ASSUME NEW M \in SUBSET Nat, M # {}
  PROVE  \E x \in M : \A y \in M : x <= y
<1> DEFINE R == OpToRel(<, Nat)
<1>1. IsWellFoundedOn(R, Nat)
  BY NatLessThanWellFounded
<1>2. \A x, y \in Nat : x < y => <<x, y>> \in R
  BY DEF OpToRel
<1> HIDE DEF R
<1>3. PICK x \in M : \A y \in M : ~(<<y, x>> \in R)
  BY <1>1, WFMin
<1>4. ASSUME NEW y \in M PROVE x <= y
  <2>1. x \in Nat /\ y \in Nat
    OBVIOUS
  <2>2. ~(y < x)
    BY <1>2, <1>3, <2>1
  <2> QED  BY <2>1, <2>2
<1> QED  BY <1>4
=============================================================================
