------------------------------- MODULE Recursion -------------------------------
(***************************************************************************)
(* Induction over the naturals, as a fact about sets, and what follows     *)
(* from it: that a function that is defined by recursion exists, that the  *)
(* minimum and the maximum of a set are there, and what FlattenSeq makes   *)
(* of a sequence of sequences.                                             *)
(***************************************************************************)
EXTENDS Integers, FiniteSetsExt, SequencesExt, FiniteSetTheorems, SequenceTheorems, TLAPS

\* A nonempty set of naturals has a least element: the set of the intervals that they
\* end has a minimal one.
LEMMA LeastNatural ==
  ASSUME NEW T \in SUBSET Nat, T # {}
  PROVE  \E x \in T : \A y \in T : x <= y
<1> DEFINE U == {0 .. n : n \in T}
           R == StrictSubsetOrdering(Nat)
<1>1. IsWellFoundedOn(R, FiniteSubsetsOf(Nat))
  BY FS_StrictSubsetOrderingWellFounded
<1>2. U # {}
  OBVIOUS
<1>3. ASSUME NEW n \in T PROVE 0 .. n \in FiniteSubsetsOf(Nat)
  <2>1. IsFiniteSet(0 .. n)
    BY FS_Interval
  <2> QED
    BY <2>1 DEF FiniteSubsetsOf
<1>4. U \subseteq FiniteSubsetsOf(Nat)
  BY <1>3
<1> HIDE DEF R, U
<1>5. PICK s \in U : \A t \in U : ~(<<t, s>> \in R)
  BY <1>1, <1>2, <1>4, WFMin
<1>6. PICK x \in T : s = 0 .. x
  BY <1>5 DEF U
<1>7. ASSUME NEW y \in T, y < x PROVE FALSE
  <2>1. 0 .. y \in U
    BY DEF U
  <2>2. /\ 0 .. y \in SUBSET Nat /\ 0 .. x \in SUBSET Nat
        /\ 0 .. y \subseteq 0 .. x /\ x \in 0 .. x /\ x \notin 0 .. y
    BY <1>7
  <2>3. <<0 .. y, 0 .. x>> \in R
    BY <2>2 DEF R, StrictSubsetOrdering
  <2> QED
    BY <1>5, <1>6, <2>1, <2>3
<1> QED
  BY <1>7

LEMMA SetInduction ==
  ASSUME NEW T, 0 \in T, \A n \in Nat : n \in T => n + 1 \in T
  PROVE  Nat \subseteq T
<1> DEFINE U == {n \in Nat : n \notin T}
<1>1. ASSUME U # {} PROVE FALSE
  <2>1. PICK n \in U : \A m \in U : n <= m
    <3>1. U \in SUBSET Nat
      OBVIOUS
    <3> HIDE DEF U
    <3> QED
      BY <1>1, <3>1, LeastNatural
  <2>2. n \in Nat /\ n \notin T /\ n # 0
    OBVIOUS
  <2>3. n - 1 \in Nat /\ (n - 1) + 1 = n
    BY <2>2
  <2>4. n - 1 \in T
    BY <2>1, <2>3
  <2> QED
    BY <2>2, <2>3, <2>4
<1> QED
  BY <1>1

LEMMA MinFacts ==
  ASSUME NEW T \in SUBSET Nat, T # {}
  PROVE  Min(T) \in T /\ \A y \in T : Min(T) <= y
BY LeastNatural DEF Min

LEMMA MaxFacts ==
  ASSUME NEW n \in Nat, NEW T \in SUBSET (0 .. n), T # {}
  PROVE  Max(T) \in T /\ \A y \in T : Max(T) >= y
<1> DEFINE U == {n - y : y \in T}
<1>1. U \in SUBSET Nat /\ U # {}
  <2>1. \A y \in T : n - y \in Nat
    OBVIOUS
  <2> QED
    BY <2>1
<1>2. PICK u \in U : \A v \in U : u <= v
  <2> HIDE DEF U
  <2> QED
    BY <1>1, LeastNatural
<1>3. PICK x \in T : u = n - x
  BY <1>2
<1>4. ASSUME NEW y \in T PROVE x >= y
  <2>1. n - x <= n - y
    BY <1>2, <1>3
  <2> QED
    BY <2>1
<1> QED
  BY <1>3, <1>4 DEF Max

\* A sequence that is given by a function.
LEMMA SeqOfFunction ==
  ASSUME NEW S, NEW n \in Nat, NEW f \in [1 .. n -> S]
  PROVE  f \in Seq(S) /\ Len(f) = n /\ DOMAIN f = 1 .. n
<1>1. f \in Seq(S)
  BY SeqDef
<1>2. DOMAIN f = 1 .. n
  OBVIOUS
<1> QED
  BY <1>1, <1>2, LenProperties

\* What holds where it holds wherever the rank is lower holds everywhere.
LEMMA RankInduction ==
  ASSUME NEW I, NEW rank \in [I -> Nat], NEW T,
         \A x \in I : (\A y \in I : rank[y] < rank[x] => y \in T) => x \in T
  PROVE  I \subseteq T
<1> DEFINE U == {rank[x] : x \in {x \in I : x \notin T}}
<1>1. ASSUME U # {} PROVE FALSE
  <2>1. U \in SUBSET Nat
    OBVIOUS
  <2>2. PICK n \in U : \A m \in U : n <= m
    <3> HIDE DEF U
    <3> QED
      BY <1>1, <2>1, LeastNatural
  <2>3. PICK x \in I : x \notin T /\ n = rank[x]
    BY <2>2
  <2>4. ASSUME NEW y \in I, rank[y] < rank[x] PROVE y \in T
    <3>1. CASE y \notin T
      <4>1. rank[y] \in U
        BY <3>1
      <4>2. rank[x] <= rank[y] /\ rank[x] \in Nat /\ rank[y] \in Nat
        BY <2>2, <2>3, <4>1
      <4> QED
        BY <2>4, <4>2
    <3> QED
      BY <3>1
  <2> QED
    BY <2>3, <2>4
<1> QED
  BY <1>1

Ranked(I, rank, N) == rank \in [I -> Nat] /\ N \in Nat /\ \A x \in I : rank[x] < N

\* H[f, x] is what f is to be at x, and looks at f only where the rank is lower.
LooksBelow(I, S, rank, H) ==
  /\ H \in [[I -> S] \X I -> S]
  /\ \A f, g \in [I -> S] : \A x \in I :
       (\A y \in I : rank[y] < rank[x] => f[y] = g[y]) => H[<<f, x>>] = H[<<g, x>>]

Solves(f, I, S, H) == f \in [I -> S] /\ \A x \in I : f[x] = H[<<f, x>>]

LEMMA RecursiveFunction ==
  ASSUME NEW I, NEW S, S # {}, NEW rank, NEW N, Ranked(I, rank, N),
         NEW H, LooksBelow(I, S, rank, H)
  PROVE  \E f : Solves(f, I, S, H)
<1>0. rank \in [I -> Nat] /\ N \in Nat /\ \A x \in I : rank[x] < N
  BY DEF Ranked
<1> DEFINE T == {n \in Nat : ~\E f \in [I -> S] :
                               \A x \in I : rank[x] < n => f[x] = H[<<f, x>>]}
<1>1. 0 \notin T
  <2>1. PICK s : s \in S
    OBVIOUS
  <2>2. [x \in I |-> s] \in [I -> S]
    BY <2>1
  <2>3. \A x \in I : ~(rank[x] < 0)
    BY <1>0
  <2> QED
    BY <2>2, <2>3
<1>2. ASSUME NEW n \in Nat, n \notin T PROVE n + 1 \notin T
  <2>1. PICK f \in [I -> S] : \A x \in I : rank[x] < n => f[x] = H[<<f, x>>]
    BY <1>2
  <2> DEFINE g == [x \in I |-> IF rank[x] = n THEN H[<<f, x>>] ELSE f[x]]
  <2>2. g \in [I -> S]
    BY DEF LooksBelow
  <2>3. \A x \in I : g[x] = IF rank[x] = n THEN H[<<f, x>>] ELSE f[x]
    OBVIOUS
  <2> HIDE DEF g
  <2>4. ASSUME NEW x \in I, rank[x] < n + 1 PROVE g[x] = H[<<g, x>>]
    <3>1. \A y \in I : rank[y] < rank[x] => g[y] = f[y]
      <4>1. \A y \in I : rank[y] \in Nat
        BY <1>0
      <4>2. \A y \in I : rank[y] < rank[x] => rank[y] # n
        BY <2>4, <4>1
      <4> QED
        BY <2>3, <4>2
    <3>2. H[<<g, x>>] = H[<<f, x>>]
      BY <2>2, <3>1 DEF LooksBelow
    <3>3. rank[x] = n \/ rank[x] < n
      BY <1>0, <2>4
    <3> QED
      BY <2>1, <2>3, <3>2, <3>3
  <2> QED
    BY <2>2, <2>4
<1>3. T = {}
  <2> SUFFICES ASSUME T # {} PROVE FALSE
    OBVIOUS
  <2>1. T \in SUBSET Nat
    OBVIOUS
  <2> HIDE DEF T
  <2>2. PICK n \in T : \A m \in T : n <= m
    BY <2>1, LeastNatural
  <2>3. n # 0 /\ n \in Nat
    BY <1>1, <2>1
  <2>4. n - 1 \in Nat /\ n - 1 \notin T /\ (n - 1) + 1 = n
    BY <2>2, <2>3
  <2>5. n \notin T
    BY <1>2, <2>4
  <2> QED
    BY <2>5
<1>4. N \notin T
  BY <1>3
<1> QED
  BY <1>0, <1>4 DEF Solves

\* The recursions from the end of 1 .. n: H looks at f behind x only.
LooksAhead(n, S, H) ==
  /\ H \in [[1 .. n -> S] \X (1 .. n) -> S]
  /\ \A f, g \in [1 .. n -> S] : \A x \in 1 .. n :
       (\A y \in 1 .. n : y > x => f[y] = g[y]) => H[<<f, x>>] = H[<<g, x>>]

LEMMA RecursionFromEnd ==
  ASSUME NEW n \in Nat, NEW S, S # {}, NEW H, LooksAhead(n, S, H)
  PROVE  \E f : Solves(f, 1 .. n, S, H)
<1> DEFINE I == 1 .. n
           rank == [x \in I |-> n - x]
           N == n + 1
<1>1. \A x \in I : rank[x] = n - x /\ rank[x] \in Nat /\ rank[x] < N
  OBVIOUS
<1>2. Ranked(I, rank, N)
  BY <1>1 DEF Ranked
<1>3. \A x, y \in I : y > x => rank[y] < rank[x]
  BY <1>1
<1>4. LooksBelow(I, S, rank, H)
  <2>1. H \in [[I -> S] \X I -> S]
    BY DEF LooksAhead
  <2>2. ASSUME NEW f \in [I -> S], NEW g \in [I -> S], NEW x \in I,
               \A y \in I : rank[y] < rank[x] => f[y] = g[y]
        PROVE  H[<<f, x>>] = H[<<g, x>>]
    <3>1. \A y \in I : y > x => f[y] = g[y]
      BY <1>3, <2>2
    <3> QED
      BY <3>1 DEF LooksAhead
  <2> HIDE DEF I, rank
  <2> QED
    BY <2>1, <2>2 DEF LooksBelow
<1> HIDE DEF rank, N
<1>5. \E f : Solves(f, I, S, H)
  <2> HIDE DEF I
  <2> QED
    BY <1>2, <1>4, RecursiveFunction
<1> QED
  BY <1>5

\* For an H that is given by what it is at <<f, x>>.
StepsAhead(n, S, H) ==
  /\ H = [q \in [1 .. n -> S] \X (1 .. n) |-> H[q]]
  /\ \A f \in [1 .. n -> S] : \A x \in 1 .. n : H[<<f, x>>] \in S
  /\ \A f, g \in [1 .. n -> S] : \A x \in 1 .. n :
       (\A y \in 1 .. n : y > x => f[y] = g[y]) => H[<<f, x>>] = H[<<g, x>>]

LEMMA SolvedFromEnd ==
  ASSUME NEW n \in Nat, NEW S, S # {}, NEW H, StepsAhead(n, S, H)
  PROVE  \E f : Solves(f, 1 .. n, S, H)
<1> DEFINE I == 1 .. n
<1>1. \A q \in [I -> S] \X I : H[q] \in S
  <2> SUFFICES ASSUME NEW q \in [I -> S] \X I PROVE H[q] \in S
    OBVIOUS
  <2>1. q = <<q[1], q[2]>> /\ q[1] \in [I -> S] /\ q[2] \in I
    OBVIOUS
  <2>2. \A f \in [I -> S] : \A x \in I : H[<<f, x>>] \in S
    BY DEF StepsAhead
  <2> HIDE DEF I
  <2> QED
    BY <2>1, <2>2
<1>2. H \in [[I -> S] \X I -> S]
  <2>1. H = [q \in [I -> S] \X I |-> H[q]]
    BY DEF StepsAhead
  <2> HIDE DEF I
  <2> QED
    BY <1>1, <2>1
<1>3. LooksAhead(n, S, H)
  BY <1>2 DEF LooksAhead, StepsAhead
<1> QED
  BY <1>3, RecursionFromEnd

\* A claim about what follows k that, with it, holds from k on holds everywhere.
LEMMA FromTheEnd ==
  ASSUME NEW n \in Nat, NEW T \in SUBSET (1 .. n),
         \A k \in 1 .. n : (\A y \in 1 .. n : y > k => y \in T) => k \in T
  PROVE  T = 1 .. n
<1> DEFINE U == {k \in 1 .. n : k \notin T}
<1>1. ASSUME U # {} PROVE FALSE
  <2>1. U \in SUBSET (0 .. n)
    OBVIOUS
  <2>2. Max(U) \in U /\ \A y \in U : Max(U) >= y
    <3> HIDE DEF U
    <3> QED
      BY <1>1, <2>1, MaxFacts
  <2>3. Max(U) \in 1 .. n /\ Max(U) \notin T
    BY <2>2
  <2>4. \A y \in 1 .. n : y > Max(U) => y \in T
    BY <2>2, <2>3
  <2> QED
    BY <2>3, <2>4
<1> QED
  BY <1>1

(***************************************************************************)
(* A sequence of sequences in one.                                         *)
(***************************************************************************)
\* The recursion that FlattenSeq is defined by.
Flattens(s, f) ==
  f = [k \in 1 .. Len(s) |-> IF k = 1 THEN s[k] ELSE f[k - 1] \o s[k]]

\* begin[k] is how much stands in front of s[k].
Laid(s, begin) ==
  /\ begin \in [1 .. Len(s) + 1 -> Nat]
  /\ begin[1] = 0
  /\ \A k \in 1 .. Len(s) : begin[k + 1] = begin[k] + Len(s[k])

\* t is made of the first n of s.
MadeOf(t, s, n, begin) ==
  /\ Len(t) = begin[n + 1]
  /\ \A k \in 1 .. n : \A j \in 1 .. Len(s[k]) :
       begin[k] + j \in 1 .. Len(t) /\ t[begin[k] + j] = s[k][j]
  /\ \A x \in 1 .. Len(t) : \E k \in 1 .. n : \E j \in 1 .. Len(s[k]) :
       x = begin[k] + j /\ t[x] = s[k][j]

LEMMA FlattenExists ==
  ASSUME NEW S, NEW s \in Seq(Seq(S))
  PROVE  \E f : f \in [1 .. Len(s) -> Seq(S)] /\ Flattens(s, f)
<1> DEFINE n == Len(s)
           I == 1 .. n
           V == Seq(S)
           H == [p \in [I -> V] \X I |-> IF p[2] = 1 THEN s[p[2]] ELSE p[1][p[2] - 1] \o s[p[2]]]
           rank == [k \in I |-> k]
<1>1. n \in Nat /\ \A k \in I : s[k] \in V
  BY LenProperties, ElementOfSeq
<1>2. V # {}
  BY EmptySeq
<1>3. Ranked(I, rank, n + 1)
  BY <1>1 DEF Ranked
<1>4. LooksBelow(I, V, rank, H)
  <2>1. ASSUME NEW f \in [I -> V], NEW k \in I
        PROVE  /\ H[<<f, k>>] = IF k = 1 THEN s[k] ELSE f[k - 1] \o s[k]
               /\ H[<<f, k>>] \in V
    <3>1. <<f, k>> \in [I -> V] \X I
      OBVIOUS
    <3>2. H[<<f, k>>] = IF k = 1 THEN s[k] ELSE f[k - 1] \o s[k]
      BY <3>1
    <3>3. k = 1 \/ k - 1 \in I
      BY <1>1
    <3>4. k = 1 \/ f[k - 1] \o s[k] \in V
      <4>1. k = 1 \/ f[k - 1] \in V
        BY <3>3
      <4> QED
        BY <1>1, <4>1, ConcatProperties
    <3> QED
      BY <1>1, <3>2, <3>4
  <2>2. H \in [[I -> V] \X I -> V]
    <3>1. \A p \in [I -> V] \X I : p[1] \in [I -> V] /\ p[2] \in I /\ p = <<p[1], p[2]>>
      OBVIOUS
    <3>2. \A p \in [I -> V] \X I : H[p] \in V
      <4> HIDE DEF H
      <4> QED
        BY <2>1, <3>1
    <3>3. H = [p \in [I -> V] \X I |-> H[p]]
      OBVIOUS
    <3> HIDE DEF H
    <3> QED
      BY <3>2, <3>3
  <2>3. ASSUME NEW f \in [I -> V], NEW g \in [I -> V], NEW k \in I,
               \A y \in I : rank[y] < rank[k] => f[y] = g[y]
        PROVE  H[<<f, k>>] = H[<<g, k>>]
    <3>1. k = 1 \/ (k - 1 \in I /\ k - 1 < k)
      BY <1>1
    <3>2. k = 1 \/ f[k - 1] = g[k - 1]
      BY <2>3, <3>1
    <3>3. /\ H[<<f, k>>] = IF k = 1 THEN s[k] ELSE f[k - 1] \o s[k]
          /\ H[<<g, k>>] = IF k = 1 THEN s[k] ELSE g[k - 1] \o s[k]
      <4> HIDE DEF H, I, V
      <4> QED
        BY <2>1, <2>3
    <3> HIDE DEF H
    <3> QED
      BY <3>2, <3>3
  <2> HIDE DEF H, I, V, rank
  <2> QED
    BY <2>2, <2>3 DEF LooksBelow
<1>5. PICK f : Solves(f, I, V, H)
  <2> HIDE DEF H, I, V, rank, n
  <2>1. n + 1 \in Nat
    BY <1>1
  <2> QED
    BY <1>2, <1>3, <1>4, RecursiveFunction
<1>6. f \in [I -> V] /\ \A k \in I : f[k] = IF k = 1 THEN s[k] ELSE f[k - 1] \o s[k]
  <2>1. f \in [I -> V] /\ \A k \in I : f[k] = H[<<f, k>>]
    <3> HIDE DEF H, I, V
    <3> QED
      BY <1>5 DEF Solves
  <2> QED
    BY <2>1
<1>7. f = [k \in I |-> IF k = 1 THEN s[k] ELSE f[k - 1] \o s[k]]
  <2>1. f = [k \in I |-> f[k]]
    BY <1>6
  <2> QED
    BY <1>6, <2>1
<1> QED
  BY <1>6, <1>7 DEF Flattens

LEMMA FlattenFacts ==
  ASSUME NEW S, NEW s \in Seq(Seq(S))
  PROVE  /\ FlattenSeq(s) \in Seq(S)
         /\ \E begin : Laid(s, begin) /\ MadeOf(FlattenSeq(s), s, Len(s), begin)
<1> DEFINE n == Len(s)
           I == 1 .. n
           f == CHOOSE g : Flattens(s, g)
<1>1. n \in Nat /\ \A k \in I : s[k] \in Seq(S) /\ Len(s[k]) \in Nat
  <2>1. n \in Nat /\ \A k \in I : s[k] \in Seq(S)
    BY LenProperties, ElementOfSeq
  <2> QED
    BY <2>1, LenProperties
<1>2. Flattens(s, f)
  BY FlattenExists
<1> HIDE DEF f
<1>3. \A k \in I : f[k] = IF k = 1 THEN s[k] ELSE f[k - 1] \o s[k]
  BY <1>2 DEF Flattens
<1> DEFINE Typed == {k \in Nat : k \in I => f[k] \in Seq(S) /\ Len(f[k]) \in Nat}
<1>4. Nat \subseteq Typed
  <2>1. 0 \in Typed
    OBVIOUS
  <2>2. ASSUME NEW k \in Nat, k \in Typed PROVE k + 1 \in Typed
    <3> SUFFICES ASSUME k + 1 \in I PROVE f[k + 1] \in Seq(S) /\ Len(f[k + 1]) \in Nat
      OBVIOUS
    <3>1. f[k + 1] = IF k = 0 THEN s[k + 1] ELSE f[k] \o s[k + 1]
      <4>1. (k + 1) - 1 = k /\ (k + 1 = 1 <=> k = 0)
        OBVIOUS
      <4> QED
        BY <1>3, <4>1
    <3>2. k = 0 \/ f[k] \in Seq(S)
      BY <1>1, <2>2
    <3>3. f[k + 1] \in Seq(S)
      <4>1. s[k + 1] \in Seq(S)
        BY <1>1
      <4> QED
        BY <3>1, <3>2, <4>1, ConcatProperties
    <3> QED
      BY <3>3, LenProperties
  <2> HIDE DEF Typed
  <2> QED
    BY <2>1, <2>2, SetInduction
<1>5. \A k \in I : f[k] \in Seq(S) /\ Len(f[k]) \in Nat
  BY <1>1, <1>4
<1> HIDE DEF Typed
<1> DEFINE begin == [k \in 1 .. n + 1 |-> IF k = 1 THEN 0 ELSE Len(f[k - 1])]
<1>6. begin[1] = 0 /\ \A k \in I : begin[k + 1] = Len(f[k])
  <2>1. 1 \in 1 .. n + 1 /\ \A k \in I : k + 1 \in 1 .. n + 1 /\ k + 1 # 1 /\ (k + 1) - 1 = k
    BY <1>1
  <2> QED
    BY <2>1
<1>7. \A k \in I : begin[k + 1] = begin[k] + Len(s[k])
  <2> SUFFICES ASSUME NEW k \in I PROVE begin[k + 1] = begin[k] + Len(s[k])
    OBVIOUS
  <2> HIDE DEF begin
  <2>1. CASE k = 1
    <3>1. begin[k] = 0 /\ begin[k + 1] = Len(f[k]) /\ f[k] = s[k] /\ Len(s[k]) \in Nat
      BY <1>1, <1>3, <1>6, <2>1
    <3> QED
      BY <3>1
  <2>2. CASE k # 1
    <3>1. k - 1 \in I /\ (k - 1) + 1 = k
      BY <1>1, <2>2
    <3>2. begin[k] = Len(f[k - 1]) /\ f[k] = f[k - 1] \o s[k]
      BY <1>3, <1>6, <2>2, <3>1
    <3>3. Len(f[k]) = Len(f[k - 1]) + Len(s[k])
      BY <1>1, <1>5, <3>1, <3>2, ConcatProperties
    <3> QED
      BY <1>6, <3>2, <3>3
  <2> QED
    BY <2>1, <2>2
<1>8. Laid(s, begin)
  <2>1. ASSUME NEW k \in 1 .. n + 1 PROVE begin[k] \in Nat
    <3>1. k = 1 \/ k - 1 \in I
      BY <1>1
    <3> QED
      BY <1>5, <3>1
  <2>2. begin = [k \in 1 .. n + 1 |-> begin[k]]
    OBVIOUS
  <2> HIDE DEF begin
  <2>3. begin \in [1 .. n + 1 -> Nat]
    BY <2>1, <2>2
  <2> QED
    BY <1>6, <1>7, <2>3 DEF Laid
<1> HIDE DEF begin
<1>9. \A k \in 1 .. n + 1 : begin[k] \in Nat
  BY <1>8 DEF Laid
<1> DEFINE Good == {k \in Nat : k \in I => MadeOf(f[k], s, k, begin)}
<1>10. Nat \subseteq Good
  <2>1. 0 \in Good
    OBVIOUS
  <2>2. ASSUME NEW k \in Nat, k \in Good PROVE k + 1 \in Good
    <3> SUFFICES ASSUME k + 1 \in I PROVE MadeOf(f[k + 1], s, k + 1, begin)
      OBVIOUS
    <3> DEFINE t == f[k + 1]
               u == s[k + 1]
    <3>1. /\ t \in Seq(S) /\ Len(t) \in Nat /\ u \in Seq(S) /\ Len(u) \in Nat
          /\ Len(t) = begin[(k + 1) + 1] /\ Len(t) = begin[k + 1] + Len(u)
          /\ begin[k + 1] \in Nat
      <4>1. k + 1 \in 1 .. n + 1
        BY <1>1
      <4> QED
        BY <1>1, <1>5, <1>6, <1>7, <1>9, <4>1
    <3>2. \A j \in 1 .. Len(u) : begin[k + 1] + j \in 1 .. Len(t) /\ t[begin[k + 1] + j] = u[j]
      <4> SUFFICES ASSUME NEW j \in 1 .. Len(u)
                   PROVE  begin[k + 1] + j \in 1 .. Len(t) /\ t[begin[k + 1] + j] = u[j]
        OBVIOUS
      <4>1. begin[k + 1] + j \in 1 .. Len(t)
        <5> HIDE DEF t, u
        <5> QED
          BY <3>1
      <4>2. CASE k = 0
        <5>1. t = u /\ begin[k + 1] = 0
          BY <1>3, <1>6, <4>2
        <5> QED
          BY <4>1, <5>1
      <4>3. CASE k # 0
        <5>1. k \in I /\ (k + 1) - 1 = k /\ k + 1 # 1
          BY <1>1, <4>3
        <5>2. t = f[k] \o u /\ begin[k + 1] = Len(f[k])
          BY <1>3, <1>6, <5>1
        <5>3. f[k] \in Seq(S) /\ Len(f[k]) \in Nat
          BY <1>5, <5>1
        <5>4. /\ Len(f[k]) + j \in 1 .. Len(f[k]) + Len(u)
              /\ ~(Len(f[k]) + j <= Len(f[k])) /\ (Len(f[k]) + j) - Len(f[k]) = j
          <6> DEFINE x == Len(f[k])
                     y == Len(u)
          <6>1. x \in Nat /\ y \in Nat /\ j \in 1 .. y
            BY <3>1, <5>3
          <6> HIDE DEF x, y
          <6>2. x + j \in 1 .. x + y /\ ~(x + j <= x) /\ (x + j) - x = j
            BY <6>1
          <6> QED
            BY <6>2 DEF x, y
        <5>5. t[Len(f[k]) + j] = u[j]
          <6> HIDE DEF t, u
          <6> QED
            BY <3>1, <5>2, <5>3, <5>4, ConcatProperties
        <5> QED
          BY <4>1, <5>2, <5>5
      <4> QED
        BY <4>2, <4>3
    <3>3. CASE k = 0
      <4>1. t = u /\ begin[1] = 0 /\ k + 1 = 1
        BY <1>3, <1>6, <3>3
      <4>2. \A x \in 1 .. Len(t) : x \in 1 .. Len(u) /\ x = begin[1] + x /\ t[x] = u[x]
        BY <3>1, <4>1
      <4> HIDE DEF t, u
      <4>3. \A m \in 1 .. k + 1 : m = k + 1
        BY <3>3
      <4>4. 1 \in 1 .. k + 1
        BY <3>3
      <4>5. u = s[1]
        BY <4>1 DEF u
      <4>6. MadeOf(t, s, k + 1, begin)
        BY <3>1, <3>2, <4>1, <4>2, <4>3, <4>4, <4>5 DEF MadeOf
      <4> QED
        BY <4>6 DEF t
    <3>4. CASE k # 0
      <4>1. k \in I /\ (k + 1) - 1 = k /\ k + 1 # 1
        BY <1>1, <3>4
      <4>2. t = f[k] \o u /\ begin[k + 1] = Len(f[k]) /\ f[k] \in Seq(S) /\ Len(f[k]) \in Nat
        BY <1>3, <1>5, <1>6, <4>1
      <4>3. MadeOf(f[k], s, k, begin)
        BY <2>2, <4>1
      <4>4. \A x \in 1 .. Len(f[k]) : x \in 1 .. Len(t) /\ t[x] = f[k][x]
        <5> HIDE DEF t, u
        <5>1. \A x \in 1 .. Len(f[k]) : x \in 1 .. Len(f[k]) + Len(u) /\ x <= Len(f[k])
          BY <3>1, <4>2
        <5>2. Len(t) = Len(f[k]) + Len(u)
          BY <3>1, <4>2
        <5> QED
          BY <3>1, <4>2, <5>1, <5>2, ConcatProperties
      <4>5. \A m \in 1 .. k + 1 : m \in 1 .. k \/ m = k + 1
        OBVIOUS
      <4>6. \A m \in 1 .. k + 1 : \A j \in 1 .. Len(s[m]) :
              begin[m] + j \in 1 .. Len(t) /\ t[begin[m] + j] = s[m][j]
        <5> SUFFICES ASSUME NEW m \in 1 .. k + 1, NEW j \in 1 .. Len(s[m])
                     PROVE  begin[m] + j \in 1 .. Len(t) /\ t[begin[m] + j] = s[m][j]
          OBVIOUS
        <5>1. CASE m = k + 1
          BY <3>2, <5>1
        <5>2. CASE m \in 1 .. k
          <6>1. begin[m] + j \in 1 .. Len(f[k]) /\ f[k][begin[m] + j] = s[m][j]
            BY <4>3, <5>2 DEF MadeOf
          <6> HIDE DEF t
          <6> QED
            BY <4>4, <6>1
        <5> QED
          BY <4>5, <5>1, <5>2
      <4>7. \A x \in 1 .. Len(t) : \E m \in 1 .. k + 1 : \E j \in 1 .. Len(s[m]) :
              x = begin[m] + j /\ t[x] = s[m][j]
        <5> SUFFICES ASSUME NEW x \in 1 .. Len(t)
                     PROVE  \E m \in 1 .. k + 1 : \E j \in 1 .. Len(s[m]) :
                              x = begin[m] + j /\ t[x] = s[m][j]
          OBVIOUS
        <5>1. CASE x <= Len(f[k])
          <6>1. x \in 1 .. Len(f[k])
            BY <3>1, <4>2, <5>1
          <6>2. PICK m \in 1 .. k : \E j \in 1 .. Len(s[m]) : x = begin[m] + j /\ f[k][x] = s[m][j]
            BY <4>3, <6>1 DEF MadeOf
          <6>3. m \in 1 .. k + 1
            OBVIOUS
          <6> HIDE DEF t
          <6> QED
            BY <4>4, <6>1, <6>2, <6>3
        <5>2. CASE ~(x <= Len(f[k]))
          <6> DEFINE j == x - Len(f[k])
          <6>1. j \in 1 .. Len(u) /\ x = begin[k + 1] + j
            <7> HIDE DEF t, u
            <7>1. Len(t) = Len(f[k]) + Len(u) /\ begin[k + 1] = Len(f[k]) /\ x \in Nat
              BY <3>1, <4>2
            <7> QED
              BY <3>1, <4>2, <5>2, <7>1
          <6>2. k + 1 \in 1 .. k + 1
            OBVIOUS
          <6> HIDE DEF j, t
          <6>3. j \in 1 .. Len(s[k + 1]) /\ t[x] = s[k + 1][j]
            BY <3>2, <6>1
          <6> QED
            BY <6>1, <6>2, <6>3
        <5> QED
          BY <5>1, <5>2
      <4> HIDE DEF t, u
      <4>8. MadeOf(t, s, k + 1, begin)
        BY <3>1, <4>6, <4>7 DEF MadeOf
      <4> QED
        BY <4>8 DEF t
    <3> QED
      BY <3>3, <3>4
  <2> HIDE DEF Good
  <2> QED
    BY <2>1, <2>2, SetInduction
<1>11. CASE n = 0
  <2>1. s = << >> /\ FlattenSeq(s) = s
    BY <1>11, EmptySeq DEF FlattenSeq
  <2>2. << >> \in Seq(S) /\ Len(<< >>) = 0
    BY EmptySeq
  <2>3. Len(FlattenSeq(s)) = 0
    BY <2>1, <2>2
  <2>4. MadeOf(FlattenSeq(s), s, n, begin)
    BY <1>6, <1>11, <2>3 DEF MadeOf
  <2> QED
    BY <1>8, <2>1, <2>2, <2>4
<1>12. CASE n # 0
  <2>1. FlattenSeq(s) = f[n]
    BY <1>12 DEF FlattenSeq, f, Flattens
  <2>2. n \in I
    BY <1>1, <1>12
  <2>3. MadeOf(f[n], s, n, begin)
    BY <1>10, <2>2
  <2> QED
    BY <1>5, <1>8, <2>1, <2>2, <2>3
<1> QED
  BY <1>11, <1>12
=============================================================================
