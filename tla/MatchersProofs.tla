---------------------------- MODULE MatchersProofs ----------------------------
(***************************************************************************)
(* Proofs about Matchers and the PathPolicy it composes, for policies,     *)
(* paths, categories and texts of any kind and length.  First, of the path *)
(* policy: the matching of a glob errs to one side only, and               *)
(* get_path_config configures a path with what matches it, all of it and   *)
(* nothing else; of two globs of one length the narrower one wins.  Then,  *)
(* of the task: what is reported is what a category of the path looks for, *)
(* each raw value is found, and a partial hash is a prefix.                *)
(***************************************************************************)
EXTENDS Matchers, Recursion

Glob == Seq(Component)
Path == Seq(Names)

(***************************************************************************)
(* The two recursions.                                                     *)
(***************************************************************************)
\* Whether g from k on matches path from i on, when m says it for what comes after k.
MatchStep(g, path, m, k, i) ==
  \/ k > Len(g) /\ AtEnd(path, i)
  \/ k = Len(g) /\ g[k] = AnyMany
  \/ /\ k < Len(g) /\ g[k] = AnyMany
     /\ LET hits == {j \in i .. Len(path) : Matches(g[k + 1], path[j])}
        IN hits # {} /\ m[k + 2][Min(hits) + 1]
  \/ /\ k <= Len(g) /\ g[k] # AnyMany
     /\ i <= Len(path) /\ Matches(g[k], path[i]) /\ m[k + 1][i + 1]

DenoteStep(g, path, m, k, i) ==
  \/ k > Len(g) /\ i > Len(path)
  \/ /\ k <= Len(g) /\ g[k] = AnyMany
     /\ \E j \in i .. Len(path) + 1 : m[k + 1][j]
  \/ /\ k <= Len(g) /\ g[k] # AnyMany
     /\ i <= Len(path) /\ Matches(g[k], path[i]) /\ m[k + 1][i + 1]

\* A table that a recursion fills, row by row.
Rows(g, path) == [1 .. Len(g) + 1 -> [1 .. Len(path) + 1 -> BOOLEAN]]

LEMMA GlobTypes ==
  ASSUME NEW g \in Glob, NEW path \in Path
  PROVE  /\ Len(g) \in Nat /\ Len(path) \in Nat
         /\ DOMAIN g = 1 .. Len(g)
         /\ \A k \in 1 .. Len(g) : g[k] \in Component
BY LenProperties, ElementOfSeq DEF Glob, Path

\* Where "**" leaves off: at the first component that the next of the glob matches.
LEMMA HitFacts ==
  ASSUME NEW g \in Glob, NEW path \in Path, NEW k, NEW i \in 1 .. Len(path) + 1
  PROVE  LET hits == {j \in i .. Len(path) : Matches(g[k], path[j])}
         IN hits # {} => Min(hits) \in i .. Len(path) /\ Matches(g[k], path[Min(hits)])
<1> DEFINE hits == {j \in i .. Len(path) : Matches(g[k], path[j])}
<1>1. hits \in SUBSET Nat
  BY GlobTypes
<1>2. hits # {} => Min(hits) \in hits
  <2> HIDE DEF hits
  <2> QED
    BY <1>1, MinFacts
<1> QED
  BY <1>2

LEMMA MatchesRecursion ==
  ASSUME NEW g \in Glob, NEW path \in Path
  PROVE  \E m : /\ MatchesComponents(g, path) <=> m[1][1]
                /\ \A k \in 1 .. Len(g) + 1 : \A i \in 1 .. Len(path) + 1 :
                     m[k][i] <=> MatchStep(g, path, m, k, i)
<1> DEFINE n == Len(g) + 1
           J == 1 .. Len(path) + 1
           S == [J -> BOOLEAN]
           Row(m, k) == [i \in J |-> MatchStep(g, path, m, k, i)]
           H == [p \in [1 .. n -> S] \X (1 .. n) |-> Row(p[1], p[2])]
           F(m) == m = [k \in 1 .. n |-> Row(m, k)]
<1>1. Len(g) \in Nat /\ Len(path) \in Nat /\ n \in Nat
  BY GlobTypes
<1>2. LooksAhead(n, S, H)
  <2>1. \A m, k, i : MatchStep(g, path, m, k, i) \in BOOLEAN
    BY DEF MatchStep
  <2>2. H \in [[1 .. n -> S] \X (1 .. n) -> S]
    BY <2>1
  <2>3. ASSUME NEW m \in [1 .. n -> S], NEW o \in [1 .. n -> S], NEW k \in 1 .. n,
               \A y \in 1 .. n : y > k => m[y] = o[y]
        PROVE  H[<<m, k>>] = H[<<o, k>>]
    <3>1. /\ k <= Len(g) => k + 1 \in 1 .. n /\ k + 1 > k
          /\ k < Len(g) => k + 2 \in 1 .. n /\ k + 2 > k
      BY <1>1
    <3>2. /\ k <= Len(g) => m[k + 1] = o[k + 1]
          /\ k < Len(g) => m[k + 2] = o[k + 2]
      BY <2>3, <3>1
    <3>3. \A i : MatchStep(g, path, m, k, i) = MatchStep(g, path, o, k, i)
      BY <3>2 DEF MatchStep
    <3>4. H[<<m, k>>] = Row(m, k) /\ H[<<o, k>>] = Row(o, k)
      OBVIOUS
    <3> QED
      BY <3>3, <3>4
  <2> HIDE DEF S, H, n
  <2> QED
    BY <2>2, <2>3 DEF LooksAhead
<1>3. PICK m : Solves(m, 1 .. n, S, H)
  <2>1. S # {}
    <3>1. [i \in J |-> TRUE] \in S
      OBVIOUS
    <3> QED
      BY <3>1
  <2> HIDE DEF S, H, n
  <2> QED
    BY <1>1, <1>2, <2>1, RecursionFromEnd
<1>4. F(m)
  <2>1. m \in [1 .. n -> S] /\ \A k \in 1 .. n : m[k] = Row(m, k)
    BY <1>3 DEF Solves
  <2>2. m = [k \in 1 .. n |-> m[k]]
    BY <2>1
  <2> QED
    BY <2>1, <2>2
<1> DEFINE M == CHOOSE t : F(t)
<1>5. F(M)
  BY <1>4
<1>6. MatchesComponents(g, path) <=> M[1][1]
  BY DEF MatchesComponents, MatchStep
<1>7. \A k \in 1 .. n : \A i \in J : M[k][i] <=> MatchStep(g, path, M, k, i)
  <2> HIDE DEF M
  <2>1. \A k \in 1 .. n : M[k] = Row(M, k)
    BY <1>5
  <2> QED
    BY <2>1
<1> QED
  BY <1>6, <1>7

LEMMA DenotesRecursion ==
  ASSUME NEW g \in Glob, NEW path \in Path
  PROVE  \E m : /\ Denotes(g, path) <=> m[1][1]
                /\ \A k \in 1 .. Len(g) + 1 : \A i \in 1 .. Len(path) + 1 :
                     m[k][i] <=> DenoteStep(g, path, m, k, i)
<1> DEFINE n == Len(g) + 1
           J == 1 .. Len(path) + 1
           S == [J -> BOOLEAN]
           Row(m, k) == [i \in J |-> DenoteStep(g, path, m, k, i)]
           H == [p \in [1 .. n -> S] \X (1 .. n) |-> Row(p[1], p[2])]
           F(m) == m = [k \in 1 .. n |-> Row(m, k)]
<1>1. Len(g) \in Nat /\ Len(path) \in Nat /\ n \in Nat
  BY GlobTypes
<1>2. LooksAhead(n, S, H)
  <2>1. \A m, k, i : DenoteStep(g, path, m, k, i) \in BOOLEAN
    BY DEF DenoteStep
  <2>2. H \in [[1 .. n -> S] \X (1 .. n) -> S]
    BY <2>1
  <2>3. ASSUME NEW m \in [1 .. n -> S], NEW o \in [1 .. n -> S], NEW k \in 1 .. n,
               \A y \in 1 .. n : y > k => m[y] = o[y]
        PROVE  H[<<m, k>>] = H[<<o, k>>]
    <3>1. k <= Len(g) => k + 1 \in 1 .. n /\ k + 1 > k
      BY <1>1
    <3>2. k <= Len(g) => m[k + 1] = o[k + 1]
      BY <2>3, <3>1
    <3>3. \A i : DenoteStep(g, path, m, k, i) = DenoteStep(g, path, o, k, i)
      BY <3>2 DEF DenoteStep
    <3>4. H[<<m, k>>] = Row(m, k) /\ H[<<o, k>>] = Row(o, k)
      OBVIOUS
    <3> QED
      BY <3>3, <3>4
  <2> HIDE DEF S, H, n
  <2> QED
    BY <2>2, <2>3 DEF LooksAhead
<1>3. PICK m : Solves(m, 1 .. n, S, H)
  <2>1. S # {}
    <3>1. [i \in J |-> TRUE] \in S
      OBVIOUS
    <3> QED
      BY <3>1
  <2> HIDE DEF S, H, n
  <2> QED
    BY <1>1, <1>2, <2>1, RecursionFromEnd
<1>4. F(m)
  <2>1. m \in [1 .. n -> S] /\ \A k \in 1 .. n : m[k] = Row(m, k)
    BY <1>3 DEF Solves
  <2>2. m = [k \in 1 .. n |-> m[k]]
    BY <2>1
  <2> QED
    BY <2>1, <2>2
<1> DEFINE M == CHOOSE t : F(t)
<1>5. F(M)
  BY <1>4
<1>6. Denotes(g, path) <=> M[1][1]
  BY DEF Denotes, DenoteStep
<1>7. \A k \in 1 .. n : \A i \in J : M[k][i] <=> DenoteStep(g, path, M, k, i)
  <2> HIDE DEF M
  <2>1. \A k \in 1 .. n : M[k] = Row(M, k)
    BY <1>5
  <2> QED
    BY <2>1
<1> QED
  BY <1>6, <1>7

(***************************************************************************)
(* The matching against its meaning.                                       *)
(***************************************************************************)
\* No path is matched that a glob does not denote, whatever "**" takes.
LEMMA MatchedIsDenoted ==
  ASSUME NEW g \in Glob, NEW path \in Path, MatchesComponents(g, path)
  PROVE  Denotes(g, path)
<1>1. Len(g) \in Nat /\ Len(path) \in Nat
  BY GlobTypes
<1>2. PICK m : /\ MatchesComponents(g, path) <=> m[1][1]
               /\ \A k \in 1 .. Len(g) + 1 : \A i \in 1 .. Len(path) + 1 :
                     m[k][i] <=> MatchStep(g, path, m, k, i)
  BY MatchesRecursion
<1>3. PICK d : /\ Denotes(g, path) <=> d[1][1]
               /\ \A k \in 1 .. Len(g) + 1 : \A i \in 1 .. Len(path) + 1 :
                     d[k][i] <=> DenoteStep(g, path, d, k, i)
  BY DenotesRecursion
<1> DEFINE n == Len(g) + 1
           J == 1 .. Len(path) + 1
           T == {k \in 1 .. n : \A i \in J : m[k][i] => d[k][i]}
<1>4. ASSUME NEW k \in 1 .. n, \A y \in 1 .. n : y > k => y \in T,
             NEW i \in J, m[k][i]
      PROVE  d[k][i]
  <2>1. MatchStep(g, path, m, k, i)
    BY <1>2, <1>4
  <2>2. CASE k > Len(g) /\ AtEnd(path, i)
    <3>1. DenoteStep(g, path, d, k, i)
      BY <2>2 DEF AtEnd, DenoteStep
    <3> QED
      BY <1>3, <3>1
  <2>3. CASE k = Len(g) /\ g[k] = AnyMany
    <3>1. k + 1 \in 1 .. n /\ Len(path) + 1 \in J /\ Len(path) + 1 \in i .. Len(path) + 1
      BY <1>1, <2>3
    <3>2. k + 1 > Len(g) /\ Len(path) + 1 > Len(path)
      BY <1>1, <2>3
    <3>3. d[k + 1][Len(path) + 1]
      BY <1>3, <3>1, <3>2 DEF DenoteStep
    <3>4. DenoteStep(g, path, d, k, i)
      BY <1>1, <2>3, <3>1, <3>3 DEF DenoteStep
    <3> QED
      BY <1>3, <3>4
  <2>4. CASE /\ k < Len(g) /\ g[k] = AnyMany
             /\ LET hits == {j \in i .. Len(path) : Matches(g[k + 1], path[j])}
                IN hits # {} /\ m[k + 2][Min(hits) + 1]
    <3> DEFINE j == Min({x \in i .. Len(path) : Matches(g[k + 1], path[x])})
    <3>1. j \in i .. Len(path) /\ Matches(g[k + 1], path[j]) /\ m[k + 2][j + 1]
      BY <2>4, HitFacts
    <3> HIDE DEF j
    <3>2. /\ k + 1 \in 1 .. n /\ k + 2 \in 1 .. n /\ k + 2 > k /\ (k + 1) + 1 = k + 2
          /\ k + 1 <= Len(g) /\ k <= Len(g)
      <4>1. k \in Nat /\ k < Len(g)
        BY <2>4
      <4> QED
        BY <1>1, <4>1
    <3>3. /\ j \in J /\ j + 1 \in J /\ j <= Len(path) /\ j \in i .. Len(path) + 1
          /\ j + 1 \in j .. Len(path) + 1
      <4>1. i \in Nat \ {0} /\ j \in i .. Len(path)
        BY <3>1
      <4> QED
        BY <1>1, <4>1
    <3>4. d[k + 2][j + 1]
      BY <1>4, <3>1, <3>2, <3>3
    <3>5. DenoteStep(g, path, d, k + 1, j)
      BY <3>1, <3>2, <3>4, <3>3 DEF DenoteStep
    <3>6. d[k + 1][j]
      BY <1>3, <3>2, <3>5, <3>3
    <3>7. DenoteStep(g, path, d, k, i)
      BY <2>4, <3>2, <3>6, <3>3 DEF DenoteStep
    <3> QED
      BY <1>3, <3>7
  <2>5. CASE /\ k <= Len(g) /\ g[k] # AnyMany
             /\ i <= Len(path) /\ Matches(g[k], path[i]) /\ m[k + 1][i + 1]
    <3>1. k + 1 \in 1 .. n /\ k + 1 > k /\ i + 1 \in J
      BY <1>1, <2>5
    <3>2. d[k + 1][i + 1]
      BY <1>4, <2>5, <3>1
    <3>3. DenoteStep(g, path, d, k, i)
      BY <2>5, <3>2 DEF DenoteStep
    <3> QED
      BY <1>3, <3>3
  <2> QED
    BY <2>1, <2>2, <2>3, <2>4, <2>5 DEF MatchStep
<1>5. T = 1 .. n
  <2>1. n \in Nat /\ T \in SUBSET (1 .. n)
    BY <1>1
  <2>2. \A k \in 1 .. n : (\A y \in 1 .. n : y > k => y \in T) => k \in T
    BY <1>4
  <2> HIDE DEF T, n
  <2> QED
    BY <2>1, <2>2, FromTheEnd
<1>6. 1 \in 1 .. n /\ 1 \in J
  BY <1>1
<1> QED
  BY <1>2, <1>3, <1>5, <1>6

\* A glob whose "**" is at its end only matches every path that it denotes.
LEMMA DenotedIsMatched ==
  ASSUME NEW g \in Glob, NEW path \in Path, Denotes(g, path), ManyIsLast(g)
  PROVE  MatchesComponents(g, path)
<1>1. Len(g) \in Nat /\ Len(path) \in Nat /\ DOMAIN g = 1 .. Len(g)
  BY GlobTypes
<1>2. PICK m : /\ MatchesComponents(g, path) <=> m[1][1]
               /\ \A k \in 1 .. Len(g) + 1 : \A i \in 1 .. Len(path) + 1 :
                     m[k][i] <=> MatchStep(g, path, m, k, i)
  BY MatchesRecursion
<1>3. PICK d : /\ Denotes(g, path) <=> d[1][1]
               /\ \A k \in 1 .. Len(g) + 1 : \A i \in 1 .. Len(path) + 1 :
                     d[k][i] <=> DenoteStep(g, path, d, k, i)
  BY DenotesRecursion
<1> DEFINE n == Len(g) + 1
           J == 1 .. Len(path) + 1
           T == {k \in 1 .. n : \A i \in J : d[k][i] => m[k][i]}
<1>4. ASSUME NEW k \in 1 .. n, \A y \in 1 .. n : y > k => y \in T,
             NEW i \in J, d[k][i]
      PROVE  m[k][i]
  <2>1. DenoteStep(g, path, d, k, i)
    BY <1>3, <1>4
  <2>2. MatchStep(g, path, m, k, i)
    <3>1. CASE k > Len(g) /\ i > Len(path)
      BY <3>1 DEF AtEnd, MatchStep
    <3>2. CASE k <= Len(g) /\ g[k] = AnyMany
      <4>1. k \in 1 .. Len(g)
        BY <1>1, <3>2
      <4>2. k = Len(g)
        BY <1>1, <3>2, <4>1 DEF ManyIsLast
      <4> QED
        BY <3>2, <4>2 DEF MatchStep
    <3>3. CASE /\ k <= Len(g) /\ g[k] # AnyMany
               /\ i <= Len(path) /\ Matches(g[k], path[i]) /\ d[k + 1][i + 1]
      <4>1. k + 1 \in 1 .. n /\ k + 1 > k /\ i + 1 \in J
        BY <1>1, <3>3
      <4>2. m[k + 1][i + 1]
        BY <1>4, <3>3, <4>1
      <4> QED
        BY <3>3, <4>2 DEF MatchStep
    <3> QED
      BY <2>1, <3>1, <3>2, <3>3 DEF DenoteStep
  <2> QED
    BY <1>2, <2>2
<1>5. T = 1 .. n
  <2>1. n \in Nat /\ T \in SUBSET (1 .. n)
    BY <1>1
  <2>2. \A k \in 1 .. n : (\A y \in 1 .. n : y > k => y \in T) => k \in T
    BY <1>4
  <2> HIDE DEF T, n
  <2> QED
    BY <2>1, <2>2, FromTheEnd
<1>6. 1 \in 1 .. n /\ 1 \in J
  BY <1>1
<1> QED
  BY <1>2, <1>3, <1>5, <1>6

(***************************************************************************)
(* The invariant.                                                          *)
(***************************************************************************)
Matched(g) == g \in Glob /\ MatchesComponents(g, components)

\* An endpoint that was meant for the path.
Meant(e) ==
  /\ e \in 1 .. Len(endpoints)
  /\ \E k \in DOMAIN endpoints[e].matches : Matched(endpoints[e].matches[k])

Entry == [path : Glob, configs : Seq(1 .. Len(endpoints))]

EntryIsMeant(entry) ==
  /\ entry \in Entry
  /\ Matched(entry.path)
  /\ \A j \in DOMAIN entry.configs : Meant(entry.configs[j])

\* What a category is configured with is its endpoint's.
TakenFrom(e, c, config) == c \in DOMAIN endpoints[e].config /\ config = endpoints[e].config[c]

OutputIsMeant(out) == \A c \in DOMAIN out :
  /\ Matched(out[c].matcher_path) /\ Meant(out[c].endpoint)
  /\ TakenFrom(out[c].endpoint, c, out[c].category_config)

\* What the loops were at: each glob that matches has its endpoint under its key.
EachIsKept ==
  \A e \in 1 .. Len(endpoints) : \A k \in DOMAIN endpoints[e].matches :
    LET g == endpoints[e].matches[k]
    IN (e < endpoint \/ (e = endpoint /\ k < glob)) /\ Matched(g) =>
         /\ Order(g) \in DOMAIN policy_paths
         /\ \E j \in DOMAIN policy_paths[Order(g)].configs :
              policy_paths[Order(g)].configs[j] = e

Applied(e) ==
  /\ DOMAIN endpoints[e].config \subseteq DOMAIN output
  /\ endpoints[e].token_extractor => token_extractor # 0

EachIsApplied ==
  ~Collecting => \A o \in DOMAIN policy_paths \ rest :
    \A j \in DOMAIN policy_paths[o].configs : Applied(policy_paths[o].configs[j])

PolicyTypes ==
  /\ WellTyped(endpoints) /\ components \in Path
  /\ endpoint \in 1 .. Len(endpoints) + 1
  /\ glob \in Nat \ {0}

PolicyInv ==
  /\ PolicyTypes
  /\ rest \subseteq DOMAIN policy_paths
  /\ \A o \in DOMAIN policy_paths : EntryIsMeant(policy_paths[o])
  /\ OutputIsMeant(output)
  /\ EachIsKept
  /\ EachIsApplied

LEMMA PolicyFacts ==
  ASSUME PolicyTypes
  PROVE  /\ Len(endpoints) \in Nat /\ DOMAIN endpoints = 1 .. Len(endpoints)
         /\ \A e \in 1 .. Len(endpoints) :
              /\ Len(endpoints[e].matches) \in Nat
              /\ DOMAIN endpoints[e].matches = 1 .. Len(endpoints[e].matches)
              /\ \A k \in DOMAIN endpoints[e].matches : endpoints[e].matches[k] \in Glob
<1>1. Len(endpoints) \in Nat /\ DOMAIN endpoints = 1 .. Len(endpoints)
  BY LenProperties DEF PolicyTypes, WellTyped
<1>2. ASSUME NEW e \in 1 .. Len(endpoints)
      PROVE  /\ Len(endpoints[e].matches) \in Nat
             /\ DOMAIN endpoints[e].matches = 1 .. Len(endpoints[e].matches)
             /\ \A k \in DOMAIN endpoints[e].matches : endpoints[e].matches[k] \in Glob
  <2>1. endpoints[e].matches \in Seq(Glob)
    BY <1>1 DEF PolicyTypes, WellTyped, Glob
  <2> QED
    BY <2>1, LenProperties, ElementOfSeq
<1> QED
  BY <1>1, <1>2

LEMMA StartPolicy ==
  ASSUME NEW policy, NEW path, WellTyped(policy), path \in Path, Start(policy, path)
  PROVE  PolicyInv
<1>1. Len(policy) \in Nat
  BY LenProperties DEF WellTyped
<1>2. PolicyTypes
  BY <1>1 DEF Start, PolicyTypes
<1>3. DOMAIN policy_paths = {} /\ DOMAIN output = {} /\ rest = {}
  BY DEF Start
<1>4. EachIsKept
  <2> SUFFICES ASSUME NEW e \in 1 .. Len(endpoints),
                      NEW k \in DOMAIN endpoints[e].matches
               PROVE  ~(e < 1 \/ (e = 1 /\ k < 1))
    BY DEF EachIsKept, Start
  <2> QED
    BY <1>2, PolicyFacts
<1> QED
  BY <1>2, <1>3, <1>4 DEF PolicyInv, OutputIsMeant, EachIsApplied

(***************************************************************************)
(* The endpoints of a key.                                                 *)
(***************************************************************************)
Inserts(out, entry, n) ==
  out = [k \in 0 .. n |-> IF k = 0 THEN output
                          ELSE Insert(out[k - 1], entry.path, entry.configs[k])]

LEMMA InsertsRecursion == \A entry : \A n \in Nat : \E out : Inserts(out, entry, n)
<1> SUFFICES ASSUME NEW entry PROVE \A n \in Nat : \E out : Inserts(out, entry, n)
  OBVIOUS
<1> DEFINE T == {n \in Nat : \E out : Inserts(out, entry, n)}
<1>1. 0 \in T
  <2> DEFINE out == [k \in 0 .. 0 |-> output]
  <2>1. Inserts(out, entry, 0)
    BY DEF Inserts
  <2> QED
    BY <2>1
<1>2. ASSUME NEW n \in Nat, n \in T PROVE n + 1 \in T
  <2>1. PICK out : Inserts(out, entry, n)
    BY <1>2
  <2> DEFINE one(f, k) == IF k = 0 THEN output
                          ELSE Insert(f[k - 1], entry.path, entry.configs[k])
             new == [k \in 0 .. n + 1 |-> IF k <= n THEN out[k] ELSE one(out, k)]
  <2>2. \A k \in 0 .. n : new[k] = out[k] /\ out[k] = one(out, k)
    BY <2>1 DEF Inserts
  <2>3. ASSUME NEW k \in 0 .. n + 1 PROVE new[k] = one(new, k)
    <3>1. k = 0 \/ (k - 1 \in 0 .. n /\ new[k - 1] = out[k - 1])
      BY <2>2
    <3>2. one(new, k) = one(out, k)
      BY <3>1
    <3>3. k \in 0 .. n \/ (k = n + 1 /\ ~(k <= n))
      OBVIOUS
    <3>4. k = n + 1 => new[k] = one(out, k)
      BY <3>3
    <3> HIDE DEF new, one
    <3> QED
      BY <2>2, <3>2, <3>3, <3>4
  <2>4. new = [k \in 0 .. n + 1 |-> new[k]]
    OBVIOUS
  <2>5. new = [k \in 0 .. n + 1 |-> one(new, k)]
    <3> HIDE DEF new, one
    <3> QED
      BY <2>3, <2>4
  <2>6. Inserts(new, entry, n + 1)
    BY <2>5 DEF Inserts
  <2> QED
    BY <2>6
<1>3. Nat \subseteq T
  <2> HIDE DEF T
  <2> QED
    BY <1>1, <1>2, SetInduction
<1> QED
  BY <1>3

Inserted(new, out, path, e) ==
  /\ DOMAIN new = DOMAIN endpoints[e].config \cup DOMAIN out
  /\ \A c \in DOMAIN endpoints[e].config :
       /\ new[c].matcher_path = path /\ new[c].endpoint = e
       /\ TakenFrom(e, c, new[c].category_config)
  /\ \A c \in DOMAIN out \ DOMAIN endpoints[e].config : new[c] = out[c]

LEMMA InsertFacts == \A out, path, e : Inserted(Insert(out, path, e), out, path, e)
BY DEF Insert, Inserted, TakenFrom

LEMMA InsertAllFacts ==
  ASSUME PolicyInv, NEW entry, EntryIsMeant(entry)
  PROVE  /\ OutputIsMeant(InsertAll(entry))
         /\ DOMAIN output \subseteq DOMAIN InsertAll(entry)
         /\ \A j \in DOMAIN entry.configs :
              DOMAIN endpoints[entry.configs[j]].config \subseteq DOMAIN InsertAll(entry)
<1> DEFINE n == Len(entry.configs)
           out == CHOOSE f : Inserts(f, entry, n)
<1>1. n \in Nat /\ DOMAIN entry.configs = 1 .. n
  BY LenProperties DEF EntryIsMeant, Entry
<1>2. Inserts(out, entry, n)
  BY <1>1, InsertsRecursion
<1>3. InsertAll(entry) = out[n]
  BY DEF InsertAll, Inserts
<1> DEFINE Good(k) == /\ OutputIsMeant(out[k])
                      /\ DOMAIN output \subseteq DOMAIN out[k]
                      /\ \A j \in 1 .. k :
                           DOMAIN endpoints[entry.configs[j]].config \subseteq DOMAIN out[k]
           T == {k \in Nat : k <= n => Good(k)}
<1> HIDE DEF out
<1>4. 0 \in T
  <2>1. out[0] = output
    BY <1>1, <1>2 DEF Inserts
  <2> QED
    BY <2>1 DEF PolicyInv
<1>5. ASSUME NEW k \in Nat, k \in T PROVE k + 1 \in T
  <2> SUFFICES ASSUME k + 1 <= n PROVE Good(k + 1)
    OBVIOUS
  <2> DEFINE e == entry.configs[k + 1]
  <2>1. k + 1 \in 0 .. n /\ k + 1 \in 1 .. n /\ (k + 1) - 1 = k /\ k <= n
    BY <1>1
  <2>2. out[k + 1] = Insert(out[k], entry.path, e)
    BY <1>2, <2>1 DEF Inserts
  <2>3. Good(k)
    BY <1>5, <2>1
  <2>4. Matched(entry.path) /\ Meant(e)
    BY <1>1, <2>1 DEF EntryIsMeant
  <2> HIDE DEF e
  <2>5. Inserted(out[k + 1], out[k], entry.path, e)
    BY <2>2, InsertFacts
  <2>6. DOMAIN out[k + 1] = DOMAIN endpoints[e].config \cup DOMAIN out[k]
    BY <2>5 DEF Inserted
  <2>7. OutputIsMeant(out[k + 1])
    <3> SUFFICES ASSUME NEW c \in DOMAIN out[k + 1]
                 PROVE  /\ Matched(out[k + 1][c].matcher_path) /\ Meant(out[k + 1][c].endpoint)
                        /\ TakenFrom(out[k + 1][c].endpoint, c, out[k + 1][c].category_config)
      BY DEF OutputIsMeant
    <3>1. CASE c \in DOMAIN endpoints[e].config
      <4>1. /\ out[k + 1][c].matcher_path = entry.path /\ out[k + 1][c].endpoint = e
            /\ TakenFrom(e, c, out[k + 1][c].category_config)
        BY <2>5, <3>1 DEF Inserted
      <4> QED
        BY <2>4, <4>1
    <3>2. CASE c \notin DOMAIN endpoints[e].config
      <4>1. c \in DOMAIN out[k] /\ out[k + 1][c] = out[k][c]
        BY <2>6, <2>5, <3>2 DEF Inserted
      <4> QED
        BY <2>3, <4>1 DEF OutputIsMeant
    <3> QED
      BY <3>1, <3>2
  <2>8. \A j \in 1 .. k + 1 : j \in 1 .. k \/ j = k + 1
    OBVIOUS
  <2>9. ASSUME NEW j \in 1 .. k + 1
        PROVE  DOMAIN endpoints[entry.configs[j]].config \subseteq DOMAIN out[k + 1]
    <3>1. CASE j \in 1 .. k
      BY <2>3, <2>6, <3>1
    <3>2. CASE j = k + 1
      BY <2>6, <3>2 DEF e
    <3> QED
      BY <2>8, <3>1, <3>2
  <2> QED
    BY <2>3, <2>6, <2>7, <2>9
<1>6. n \in T
  <2> HIDE DEF T, n
  <2> QED
    BY <1>1, <1>4, <1>5, SetInduction
<1> QED
  BY <1>1, <1>3, <1>6

(***************************************************************************)
(* The invariant, an action at a time.                                     *)
(***************************************************************************)
\* What a key is to become when e is pushed.
Pushed(new, o, e) ==
  /\ DOMAIN new = DOMAIN policy_paths \cup {o}
  /\ \A key \in DOMAIN policy_paths \ {o} : new[key] = policy_paths[key]
  /\ EntryIsMeant(new[o])
  /\ \E j \in DOMAIN new[o].configs : new[o].configs[j] = e
  /\ o \in DOMAIN policy_paths => \A j \in DOMAIN policy_paths[o].configs :
       j \in DOMAIN new[o].configs /\ new[o].configs[j] = policy_paths[o].configs[j]

LEMMA PushFacts ==
  ASSUME PolicyInv, NEW o, NEW g, NEW e, Matched(g), Meant(e)
  PROVE  Pushed(EntryPush(o, g, e), o, e)
<1> DEFINE new == EntryPush(o, g, e)
           E == 1 .. Len(endpoints)
<1>1. e \in E /\ g \in Glob
  BY DEF Matched, Meant
<1>2. CASE o \in DOMAIN policy_paths
  <2> DEFINE old == policy_paths[o]
  <2>1. EntryIsMeant(old) /\ old \in Entry /\ old.configs \in Seq(E)
    BY <1>2 DEF PolicyInv, EntryIsMeant, Entry
  <2>2. new = [policy_paths EXCEPT ![o].configs = Append(@, e)]
    BY <1>2 DEF EntryPush
  <2>3. /\ DOMAIN new = DOMAIN policy_paths
        /\ \A key \in DOMAIN policy_paths \ {o} : new[key] = policy_paths[key]
        /\ new[o] = [old EXCEPT !.configs = Append(old.configs, e)]
    BY <1>2, <2>2
  <2> HIDE DEF new, old, E
  <2>4. new[o].path = old.path /\ new[o].configs = Append(old.configs, e)
        /\ DOMAIN new[o] = {"path", "configs"}
    BY <2>1, <2>3 DEF Entry
  <2>5. /\ Len(old.configs) \in Nat /\ DOMAIN old.configs = 1 .. Len(old.configs)
        /\ new[o].configs \in Seq(E) /\ Len(new[o].configs) = Len(old.configs) + 1
        /\ DOMAIN new[o].configs = 1 .. Len(old.configs) + 1
        /\ \A j \in 1 .. Len(old.configs) : new[o].configs[j] = old.configs[j]
        /\ new[o].configs[Len(old.configs) + 1] = e
    BY <1>1, <2>1, <2>4, AppendProperties, LenProperties
  <2>6. new[o] \in Entry
    BY <2>1, <2>3, <2>5 DEF Entry, E
  <2>7. \A j \in DOMAIN new[o].configs : Meant(new[o].configs[j])
    <3>1. \A j \in 1 .. Len(old.configs) + 1 :
            j \in 1 .. Len(old.configs) \/ j = Len(old.configs) + 1
      BY <2>5
    <3> QED
      BY <2>1, <2>5, <3>1 DEF EntryIsMeant
  <2>8. EntryIsMeant(new[o])
    BY <2>1, <2>4, <2>6, <2>7 DEF EntryIsMeant
  <2>9. Len(old.configs) + 1 \in DOMAIN new[o].configs
        /\ \A j \in DOMAIN old.configs : j \in DOMAIN new[o].configs
    BY <2>5
  <2>10. Pushed(new, o, e)
    BY <1>2, <2>3, <2>5, <2>8, <2>9 DEF Pushed, old
  <2> QED
    BY <2>10 DEF new
<1>3. CASE o \notin DOMAIN policy_paths
  <2> DEFINE entry == [path |-> g, configs |-> <<e>>]
  <2>1. /\ DOMAIN new = DOMAIN policy_paths \cup {o}
        /\ \A key \in DOMAIN policy_paths \ {o} : new[key] = policy_paths[key]
        /\ new[o] = entry
    BY <1>3 DEF EntryPush, Entered
  <2>2. entry.configs = <<e>> /\ entry.path = g /\ entry \in Entry
        /\ 1 \in DOMAIN entry.configs /\ \A j \in DOMAIN entry.configs : entry.configs[j] = e
    BY <1>1 DEF Entry
  <2> HIDE DEF new, entry
  <2>3. EntryIsMeant(entry)
    BY <2>2 DEF EntryIsMeant
  <2>4. Pushed(new, o, e)
    BY <1>3, <2>1, <2>2, <2>3 DEF Pushed
  <2> QED
    BY <2>4 DEF new
<1> QED
  BY <1>2, <1>3

LEMMA CollectPolicy == ASSUME PolicyInv, Collect PROVE PolicyInv'
<1> DEFINE g == CurrentGlob
           o == Order(g)
           matching == MatchesComponents(g, components)
<1>1. /\ endpoint \in 1 .. Len(endpoints) /\ Len(endpoints) \in Nat
      /\ glob \in 1 .. Len(endpoints[endpoint].matches)
      /\ glob \in DOMAIN endpoints[endpoint].matches
      /\ g \in Glob
  <2>1. endpoint \in 1 .. Len(endpoints) /\ Len(endpoints) \in Nat
    BY PolicyFacts DEF Collect, Collecting, PolicyInv, PolicyTypes
  <2>2. glob \in 1 .. Len(endpoints[endpoint].matches)
    BY <2>1, PolicyFacts DEF Collect, PolicyInv, PolicyTypes
  <2> QED
    BY <2>1, <2>2, PolicyFacts DEF PolicyInv, CurrentGlob
<1>2. /\ glob' = glob + 1
      /\ UNCHANGED <<endpoints, components, endpoint, rest, output, token_extractor>>
      /\ policy_paths' = IF matching THEN EntryPush(o, g, endpoint) ELSE policy_paths
  BY DEF Collect
<1>3. /\ \A x : Matched(x)' <=> Matched(x)
      /\ \A e : Meant(e)' <=> Meant(e)
      /\ \A entry : EntryIsMeant(entry)' <=> EntryIsMeant(entry)
  BY <1>2 DEF Matched, Meant, EntryIsMeant, Entry
<1>4. PolicyTypes'
  BY <1>1, <1>2 DEF PolicyInv, PolicyTypes
<1>5. matching => Matched(g) /\ Meant(endpoint)
  BY <1>1 DEF Matched, Meant, CurrentGlob
<1> HIDE DEF g, o, matching
<1>6. EachIsApplied'
  <2>1. Collecting'
    BY <1>2 DEF Collect, Collecting
  <2> QED
    BY <2>1 DEF EachIsApplied
<1>7. OutputIsMeant(output)'
  BY <1>2, <1>3 DEF PolicyInv, OutputIsMeant, TakenFrom
<1>8. (\A key \in DOMAIN policy_paths : EntryIsMeant(policy_paths[key]))' /\ EachIsKept'
  <2> DEFINE Passed(e, k) == e < endpoint \/ (e = endpoint /\ k < glob)
  <2>1. \A e \in 1 .. Len(endpoints) : \A k \in DOMAIN endpoints[e].matches :
          (Passed(e, k))' => Passed(e, k) \/ (e = endpoint /\ k = glob)
    <3> SUFFICES ASSUME NEW e \in 1 .. Len(endpoints), NEW k \in DOMAIN endpoints[e].matches
                 PROVE  k < glob + 1 => k < glob \/ k = glob
      BY <1>2
    <3>1. k \in 1 .. Len(endpoints[e].matches) /\ glob \in Nat
      BY PolicyFacts DEF PolicyInv, PolicyTypes
    <3> QED
      BY <3>1
  <2>2. CASE ~matching
    <3>1. policy_paths' = policy_paths
      BY <1>2, <2>2
    <3>2. ~Matched(g)
      BY <2>2 DEF matching, Matched
    <3>3. EachIsKept'
      <4> SUFFICES ASSUME NEW e \in 1 .. Len(endpoints),
                          NEW k \in DOMAIN endpoints[e].matches,
                          Passed(e, k)', Matched(endpoints[e].matches[k])
                   PROVE  /\ Order(endpoints[e].matches[k]) \in DOMAIN policy_paths
                          /\ \E j \in DOMAIN policy_paths[Order(endpoints[e].matches[k])].configs :
                               policy_paths[Order(endpoints[e].matches[k])].configs[j] = e
        BY <1>2, <1>3, <3>1 DEF EachIsKept
      <4>1. Passed(e, k)
        BY <2>1, <3>2 DEF g, CurrentGlob
      <4> QED
        BY <4>1 DEF PolicyInv, EachIsKept
    <3> QED
      BY <1>3, <3>1, <3>3 DEF PolicyInv
  <2>3. CASE matching
    <3>1. Pushed(policy_paths', o, endpoint)
      BY <1>2, <1>5, <2>3, PushFacts
    <3>2. \A key \in DOMAIN policy_paths' : EntryIsMeant(policy_paths'[key])
      BY <3>1 DEF Pushed, PolicyInv
    <3>3. EachIsKept'
      <4> SUFFICES ASSUME NEW e \in 1 .. Len(endpoints),
                          NEW k \in DOMAIN endpoints[e].matches,
                          Passed(e, k)', Matched(endpoints[e].matches[k])
                   PROVE  /\ Order(endpoints[e].matches[k]) \in DOMAIN policy_paths'
                          /\ \E j \in DOMAIN policy_paths'[Order(endpoints[e].matches[k])].configs :
                               policy_paths'[Order(endpoints[e].matches[k])].configs[j] = e
        BY <1>2, <1>3 DEF EachIsKept
      <4> DEFINE p == Order(endpoints[e].matches[k])
      <4>1. CASE Passed(e, k)
        <5>1. PICK j \in DOMAIN policy_paths[p].configs : policy_paths[p].configs[j] = e
          BY <4>1 DEF PolicyInv, EachIsKept
        <5>2. p \in DOMAIN policy_paths
          BY <4>1 DEF PolicyInv, EachIsKept
        <5> HIDE DEF p
        <5>3. p \in DOMAIN policy_paths' /\ j \in DOMAIN policy_paths'[p].configs
              /\ policy_paths'[p].configs[j] = e
          BY <3>1, <5>1, <5>2 DEF Pushed
        <5> QED
          BY <5>3 DEF p
      <4>2. CASE e = endpoint /\ k = glob
        <5>1. p = o
          BY <4>2 DEF o, g, CurrentGlob
        <5>2. p \in DOMAIN policy_paths' /\ \E j \in DOMAIN policy_paths'[p].configs :
                                             policy_paths'[p].configs[j] = e
          BY <3>1, <4>2, <5>1 DEF Pushed
        <5> QED
          BY <5>2
      <4> QED
        BY <2>1, <4>1, <4>2
    <3> QED
      BY <1>3, <3>2, <3>3
  <2> QED
    BY <2>2, <2>3
<1>9. (rest \subseteq DOMAIN policy_paths)'
  <2>1. CASE ~matching
    BY <1>2, <2>1 DEF PolicyInv
  <2>2. CASE matching
    <3>1. Pushed(policy_paths', o, endpoint)
      BY <1>2, <1>5, <2>2, PushFacts
    <3> QED
      BY <1>2, <3>1 DEF Pushed, PolicyInv
  <2> QED
    BY <2>1, <2>2
<1> QED
  BY <1>4, <1>6, <1>7, <1>8, <1>9 DEF PolicyInv

LEMMA NextEndpointPolicy == ASSUME PolicyInv, NextEndpoint PROVE PolicyInv'
<1>1. /\ endpoint \in 1 .. Len(endpoints) /\ Len(endpoints) \in Nat
      /\ endpoint' = endpoint + 1 /\ glob' = 1
      /\ rest' = IF endpoint = Len(endpoints) THEN DOMAIN policy_paths ELSE {}
      /\ UNCHANGED <<endpoints, components, policy_paths, output, token_extractor>>
  <2>1. endpoint \in 1 .. Len(endpoints) /\ Len(endpoints) \in Nat
    <3>1. endpoint <= Len(endpoints)
      BY DEF NextEndpoint, Collecting
    <3>2. PolicyTypes
      BY DEF PolicyInv
    <3>3. Len(endpoints) \in Nat /\ endpoint \in 1 .. Len(endpoints) + 1
      BY <3>2, PolicyFacts DEF PolicyTypes
    <3> QED
      BY <3>1, <3>3
  <2> QED
    BY <2>1 DEF NextEndpoint
<1>2. /\ \A x : Matched(x)' <=> Matched(x)
      /\ \A e : Meant(e)' <=> Meant(e)
      /\ \A entry : EntryIsMeant(entry)' <=> EntryIsMeant(entry)
  BY <1>1 DEF Matched, Meant, EntryIsMeant, Entry
<1>3. PolicyTypes'
  BY <1>1 DEF PolicyInv, PolicyTypes
<1>4. OutputIsMeant(output)' /\ (\A o \in DOMAIN policy_paths : EntryIsMeant(policy_paths[o]))'
  BY <1>1, <1>2 DEF PolicyInv, OutputIsMeant, TakenFrom
<1>5. EachIsKept'
  <2>1. ASSUME NEW e \in 1 .. Len(endpoints), NEW k \in DOMAIN endpoints[e].matches,
               e < endpoint + 1 \/ (e = endpoint + 1 /\ k < 1)
        PROVE  e < endpoint \/ (e = endpoint /\ k < glob)
    <3>1. /\ k \in 1 .. Len(endpoints[e].matches) /\ glob \in Nat
          /\ Len(endpoints[e].matches) \in Nat
      BY PolicyFacts DEF PolicyInv, PolicyTypes
    <3>2. e < endpoint \/ e = endpoint
      BY <1>1, <2>1, <3>1
    <3>3. glob > Len(endpoints[endpoint].matches)
      BY DEF NextEndpoint
    <3> QED
      BY <3>1, <3>2, <3>3
  <2> QED
    BY <1>1, <1>2, <2>1 DEF PolicyInv, EachIsKept
<1>6. EachIsApplied'
  <2>1. Collecting' \/ rest' = DOMAIN policy_paths
    BY <1>1 DEF Collecting
  <2> QED
    BY <1>1, <2>1 DEF EachIsApplied
<1>7. (rest \subseteq DOMAIN policy_paths)'
  BY <1>1
<1> QED
  BY <1>3, <1>4, <1>5, <1>6, <1>7 DEF PolicyInv

LEMMA ExtractorFacts ==
  ASSUME PolicyInv, NEW entry, EntryIsMeant(entry)
  PROVE  /\ token_extractor # 0 => Extractor(entry) # 0
         /\ \A j \in DOMAIN entry.configs :
              endpoints[entry.configs[j]].token_extractor => Extractor(entry) # 0
<1> DEFINE having == {k \in DOMAIN entry.configs : endpoints[entry.configs[k]].token_extractor}
<1>1. /\ Len(entry.configs) \in Nat /\ DOMAIN entry.configs = 1 .. Len(entry.configs)
      /\ \A j \in DOMAIN entry.configs : entry.configs[j] \in 1 .. Len(endpoints)
  BY LenProperties, ElementOfSeq DEF EntryIsMeant, Entry
<1>2. Len(endpoints) \in Nat
  BY PolicyFacts DEF PolicyInv
<1>3. CASE having = {}
  BY <1>3 DEF Extractor
<1>4. CASE having # {}
  <2>1. having \in SUBSET (0 .. Len(entry.configs))
    BY <1>1
  <2>2. Max(having) \in having
    <3> HIDE DEF having
    <3> QED
      BY <1>1, <1>4, <2>1, MaxFacts
  <2>3. Max(having) \in DOMAIN entry.configs
    BY <2>2
  <2>4. Extractor(entry) = entry.configs[Max(having)]
    BY <1>4 DEF Extractor
  <2>5. Extractor(entry) \in 1 .. Len(endpoints)
    BY <1>1, <2>3, <2>4
  <2> QED
    BY <1>2, <2>5
<1> QED
  BY <1>3, <1>4

LEMMA ApplyPolicy == ASSUME PolicyInv, Apply PROVE PolicyInv'
<1>1. PICK o \in rest : /\ output' = InsertAll(policy_paths[o])
                        /\ token_extractor' = Extractor(policy_paths[o])
                        /\ rest' = rest \ {o}
  BY DEF Apply
<1>2. ~Collecting /\ UNCHANGED <<endpoints, components, endpoint, glob, policy_paths>>
  BY DEF Apply
<1>3. /\ \A x : Matched(x)' <=> Matched(x)
      /\ \A e : Meant(e)' <=> Meant(e)
      /\ \A entry : EntryIsMeant(entry)' <=> EntryIsMeant(entry)
  BY <1>2 DEF Matched, Meant, EntryIsMeant, Entry
<1>4. PolicyTypes' /\ EachIsKept' /\ (\A key \in DOMAIN policy_paths : EntryIsMeant(policy_paths[key]))'
  BY <1>2, <1>3 DEF PolicyInv, PolicyTypes, EachIsKept
<1>5. /\ o \in DOMAIN policy_paths
      /\ (rest \subseteq DOMAIN policy_paths)'
  BY <1>1, <1>2 DEF PolicyInv
<1>6. OutputIsMeant(output)' /\ EachIsApplied'
  <2> DEFINE entry == policy_paths[o]
  <2>1. EntryIsMeant(entry)
    BY <1>5 DEF PolicyInv
  <2> HIDE DEF entry
  <2>2. OutputIsMeant(output')
    BY <1>1, <2>1, InsertAllFacts DEF entry
  <2>3. OutputIsMeant(output)'
    BY <1>2, <1>3, <2>2 DEF OutputIsMeant, TakenFrom
  <2>4. DOMAIN output \subseteq DOMAIN output' /\ (token_extractor # 0 => token_extractor' # 0)
    BY <1>1, <2>1, InsertAllFacts, ExtractorFacts DEF entry
  <2>5. \A j \in DOMAIN entry.configs : Applied(entry.configs[j])'
    BY <1>1, <1>2, <2>1, InsertAllFacts, ExtractorFacts DEF entry, Applied
  <2>6. \A e : Applied(e) => Applied(e)'
    BY <1>2, <2>4 DEF Applied
  <2>7. EachIsApplied'
    <3> SUFFICES ASSUME NEW key \in DOMAIN policy_paths \ (rest \ {o}),
                        NEW j \in DOMAIN policy_paths[key].configs
                 PROVE  Applied(policy_paths[key].configs[j])'
      BY <1>1, <1>2 DEF EachIsApplied, Applied
    <3>1. CASE key = o
      BY <2>5, <3>1 DEF entry
    <3>2. CASE key # o
      <4>1. Applied(policy_paths[key].configs[j])
        BY <1>2, <3>2 DEF PolicyInv, EachIsApplied
      <4> QED
        BY <1>2, <2>6, <4>1
    <3> QED
      BY <3>1, <3>2
  <2> QED
    BY <2>3, <2>7
<1> QED
  BY <1>4, <1>5, <1>6 DEF PolicyInv

LEMMA StepPolicy == ASSUME PolicyInv, [Next]_vars PROVE PolicyInv'
<1>1. CASE Collect
  BY <1>1, CollectPolicy
<1>2. CASE NextEndpoint
  BY <1>2, NextEndpointPolicy
<1>3. CASE Apply
  BY <1>3, ApplyPolicy
<1>4. CASE UNCHANGED vars
  <2>1. /\ endpoints' = endpoints /\ components' = components /\ endpoint' = endpoint
        /\ glob' = glob /\ policy_paths' = policy_paths /\ rest' = rest
        /\ output' = output /\ token_extractor' = token_extractor
    BY <1>4 DEF vars
  <2> QED
    <3>1. PolicyTypes' /\ (rest \subseteq DOMAIN policy_paths)'
      BY <2>1 DEF PolicyInv, PolicyTypes
    <3>2. (\A o \in DOMAIN policy_paths : EntryIsMeant(policy_paths[o]))'
      BY <2>1 DEF PolicyInv, EntryIsMeant, Entry, Matched, Meant
    <3>3. OutputIsMeant(output)'
      BY <2>1 DEF PolicyInv, OutputIsMeant, TakenFrom, Matched, Meant
    <3>4. EachIsKept'
      BY <2>1 DEF PolicyInv, EachIsKept, Matched
    <3>5. EachIsApplied'
      BY <2>1 DEF PolicyInv, EachIsApplied, Applied, Collecting
    <3> QED
      BY <3>1, <3>2, <3>3, <3>4, <3>5 DEF PolicyInv
<1> QED
  BY <1>1, <1>2, <1>3, <1>4 DEF Next

LEMMA PolicyInvariant == Spec => []PolicyInv
<1>1. Init => PolicyInv
  <2> SUFFICES ASSUME NEW policy \in Policies, NEW path \in Paths, Start(policy, path)
               PROVE  PolicyInv
    BY DEF Init
  <2>1. WellTyped(policy) /\ path \in Path
    BY PoliciesAssumption DEF Path
  <2> QED
    BY <2>1, StartPolicy
<1>2. PolicyInv /\ [Next]_vars => PolicyInv'
  BY StepPolicy
<1> QED
  BY <1>1, <1>2, PTL DEF Spec

(***************************************************************************)
(* What get_path_config promises.                                          *)
(***************************************************************************)
\* A glob that matches the path denotes it.
LEMMA MeantOf == PolicyInv => OnlyMeant
<1> SUFFICES ASSUME PolicyInv, NEW c \in DOMAIN output
             PROVE  /\ Denotes(output[c].matcher_path, components)
                    /\ \E k \in DOMAIN endpoints[output[c].endpoint].matches :
                         Denotes(endpoints[output[c].endpoint].matches[k], components)
  BY DEF OnlyMeant
<1>1. Matched(output[c].matcher_path) /\ Meant(output[c].endpoint)
  BY DEF PolicyInv, OutputIsMeant
<1>2. components \in Path
  BY DEF PolicyInv, PolicyTypes
<1>3. \A g : Matched(g) => Denotes(g, components)
  BY <1>2, MatchedIsDenoted DEF Matched
<1> QED
  BY <1>1, <1>3 DEF Meant

\* A glob with "**" at its end only that denotes the path matches it.
LEMMA KeptOf == PolicyInv => NoneLost
<1> SUFFICES ASSUME PolicyInv, Done,
                    NEW e \in DOMAIN endpoints, NEW k \in DOMAIN endpoints[e].matches,
                    ManyIsLast(endpoints[e].matches[k]),
                    Denotes(endpoints[e].matches[k], components)
             PROVE  Applied(e)
  BY DEF NoneLost, Applied
<1> DEFINE g == endpoints[e].matches[k]
           o == Order(g)
<1>1. /\ e \in 1 .. Len(endpoints) /\ Len(endpoints) \in Nat
      /\ g \in Glob /\ components \in Path
  BY PolicyFacts DEF PolicyInv, PolicyTypes
<1>2. Matched(g)
  BY <1>1, DenotedIsMatched DEF Matched
<1>3. e < endpoint
  BY <1>1 DEF Done, Collecting, PolicyInv, PolicyTypes
<1>4. /\ o \in DOMAIN policy_paths
      /\ \E j \in DOMAIN policy_paths[o].configs : policy_paths[o].configs[j] = e
  BY <1>1, <1>2, <1>3 DEF PolicyInv, EachIsKept
<1> HIDE DEF o
<1>5. o \in DOMAIN policy_paths \ rest
  BY <1>4 DEF Done
<1> QED
  BY <1>4, <1>5 DEF Done, PolicyInv, EachIsApplied

\* lib.rs:351-408: whatever the policy and the path, a category is configured by an
\* endpoint that was meant for the path, and the glob reported for it is one that was.
THEOREM OnlyMeantHolds == Spec => []OnlyMeant
BY MeantOf, PolicyInvariant, PTL

\* lib.rs:371, 376-397: whatever the policy, no category and no token extractor is lost
\* to globs that share a key or to endpoints that override each other.
THEOREM NoneLostHolds == Spec => []NoneLost
BY KeptOf, PolicyInvariant, PTL

(***************************************************************************)
(* Which of several globs wins.                                            *)
(***************************************************************************)
AllGlobs ==
  UNION {{endpoints[e].matches[k] : k \in DOMAIN endpoints[e].matches} : e \in DOMAIN endpoints}

\* An endpoint of the key o configures c.
Configures(o, c) ==
  \E j \in DOMAIN policy_paths[o].configs : c \in DOMAIN endpoints[policy_paths[o].configs[j]].config

\* Each key is that of the glob entered with it, one of the policy's.
KeysAreOrders ==
  \A o \in DOMAIN policy_paths : /\ policy_paths[o].path \in AllGlobs
                                 /\ Order(policy_paths[o].path) = o

\* c is configured by the key l, and none of those that were applied comes in front of it.
WonBy(c, l) ==
  /\ l \in DOMAIN policy_paths \ rest
  /\ output[c].matcher_path = policy_paths[l].path
  /\ \A o \in DOMAIN policy_paths \ rest : Configures(o, c) => ~Before(o, l)

OrderInv ==
  /\ KeysAreOrders
  /\ Collecting => DOMAIN output = {}
  /\ ~Collecting => /\ \A o \in DOMAIN policy_paths \ rest : \A p \in rest : ~Before(o, p)
                    /\ \A c \in DOMAIN output : \E l : WonBy(c, l)

LEMMA OrderFacts ==
  ASSUME NEW g \in Glob
  PROVE  /\ \A kind : LET S == {k \in DOMAIN g : g[k].kind = kind}
                      IN IsFiniteSet(S) /\ Cardinality(S) \in Nat
         /\ \A k \in 1 .. 4 : Order(g)[k] \in Nat
         /\ ~Before(Order(g), Order(g))
<1>1. ASSUME NEW kind
      PROVE  LET S == {k \in DOMAIN g : g[k].kind = kind}
             IN IsFiniteSet(S) /\ Cardinality(S) \in Nat
  <2> DEFINE S == {k \in DOMAIN g : g[k].kind = kind}
  <2>1. Len(g) \in Nat /\ S \in SUBSET (1 .. Len(g))
    BY LenProperties DEF Glob
  <2>2. IsFiniteSet(1 .. Len(g))
    BY <2>1, FS_Interval
  <2> HIDE DEF S
  <2>3. IsFiniteSet(S) /\ Cardinality(S) \in Nat
    BY <2>1, <2>2, FS_Subset, FS_CardinalityType
  <2> QED
    BY <2>3 DEF S
<1>2. \A kind : Count(g, kind) \in Nat
  BY <1>1 DEF Count
<1>3. Len(g) \in Nat
  BY LenProperties DEF Glob
<1>4. \A k \in 1 .. 4 : Order(g)[k] \in Nat
  BY <1>2, <1>3 DEF Order
<1> DEFINE o == Order(g)
<1> HIDE DEF o
<1>5. ~Before(o, o)
  BY <1>4 DEF Before, o
<1> QED
  BY <1>1, <1>4, <1>5 DEF o

LEMMA InsertAllWins ==
  ASSUME PolicyInv, NEW entry, EntryIsMeant(entry), NEW c \in DOMAIN InsertAll(entry)
  PROVE  \/ /\ InsertAll(entry)[c].matcher_path = entry.path
            /\ \E j \in DOMAIN entry.configs : c \in DOMAIN endpoints[entry.configs[j]].config
         \/ /\ c \in DOMAIN output /\ InsertAll(entry)[c] = output[c]
            /\ \A j \in DOMAIN entry.configs : c \notin DOMAIN endpoints[entry.configs[j]].config
<1> DEFINE n == Len(entry.configs)
           out == CHOOSE f : Inserts(f, entry, n)
           Has(j) == c \in DOMAIN endpoints[entry.configs[j]].config
<1>1. n \in Nat /\ DOMAIN entry.configs = 1 .. n
  BY LenProperties DEF EntryIsMeant, Entry
<1>2. Inserts(out, entry, n)
  BY <1>1, InsertsRecursion
<1>3. InsertAll(entry) = out[n]
  BY DEF InsertAll, Inserts
<1> HIDE DEF out, Has
<1> DEFINE Good(k) == c \in DOMAIN out[k] =>
             \/ out[k][c].matcher_path = entry.path /\ \E j \in 1 .. k : Has(j)
             \/ c \in DOMAIN output /\ out[k][c] = output[c] /\ \A j \in 1 .. k : ~Has(j)
           T == {k \in Nat : k <= n => Good(k)}
<1>4. 0 \in T
  <2>1. out[0] = output
    BY <1>1, <1>2 DEF Inserts
  <2> QED
    BY <2>1
<1>5. ASSUME NEW k \in Nat, k \in T PROVE k + 1 \in T
  <2> SUFFICES ASSUME k + 1 <= n, c \in DOMAIN out[k + 1]
               PROVE  \/ /\ out[k + 1][c].matcher_path = entry.path
                         /\ \E j \in 1 .. k + 1 : Has(j)
                      \/ /\ c \in DOMAIN output /\ out[k + 1][c] = output[c]
                         /\ \A j \in 1 .. k + 1 : ~Has(j)
    OBVIOUS
  <2> DEFINE e == entry.configs[k + 1]
  <2>1. k + 1 \in 0 .. n /\ k + 1 \in 1 .. k + 1 /\ (k + 1) - 1 = k /\ k <= n
    BY <1>1
  <2>2. out[k + 1] = Insert(out[k], entry.path, e)
    BY <1>2, <2>1 DEF Inserts
  <2>3. Good(k)
    BY <1>5, <2>1
  <2>4. Has(k + 1) <=> c \in DOMAIN endpoints[e].config
    BY DEF Has
  <2> HIDE DEF e
  <2>5. Inserted(out[k + 1], out[k], entry.path, e)
    BY <2>2, InsertFacts
  <2>6. \A j \in 1 .. k + 1 : j \in 1 .. k \/ j = k + 1
    OBVIOUS
  <2>7. \A j \in 1 .. k : j \in 1 .. k + 1
    OBVIOUS
  <2>8. CASE Has(k + 1)
    BY <2>1, <2>4, <2>5, <2>8 DEF Inserted
  <2>9. CASE ~Has(k + 1)
    <3>1. c \in DOMAIN out[k] /\ out[k + 1][c] = out[k][c]
      BY <2>4, <2>5, <2>9 DEF Inserted
    <3>2. \/ out[k][c].matcher_path = entry.path /\ \E j \in 1 .. k : Has(j)
          \/ c \in DOMAIN output /\ out[k][c] = output[c] /\ \A j \in 1 .. k : ~Has(j)
      BY <2>3, <3>1
    <3> QED
      BY <2>6, <2>7, <2>9, <3>1, <3>2
  <2> QED
    BY <2>8, <2>9
<1>6. n \in T
  <2> HIDE DEF T, n
  <2> QED
    BY <1>1, <1>4, <1>5, SetInduction
<1> QED
  BY <1>1, <1>3, <1>6 DEF Has

LEMMA StartOrder ==
  ASSUME NEW policy, NEW path, Start(policy, path), PolicyTypes
  PROVE  OrderInv
<1>1. DOMAIN policy_paths = {} /\ DOMAIN output = {} /\ rest = {}
  BY DEF Start
<1> QED
  BY <1>1 DEF OrderInv, KeysAreOrders

LEMMA CollectOrder == ASSUME PolicyInv, OrderInv, Collect PROVE OrderInv'
<1> DEFINE g == CurrentGlob
           o == Order(g)
           matching == MatchesComponents(g, components)
<1>1. /\ Collecting /\ endpoint \in DOMAIN endpoints
      /\ glob \in DOMAIN endpoints[endpoint].matches
  <2>1. PolicyTypes
    BY DEF PolicyInv
  <2>2. endpoint \in 1 .. Len(endpoints) /\ Len(endpoints) \in Nat
    BY <2>1, PolicyFacts DEF Collect, Collecting, PolicyTypes
  <2>3. glob \in 1 .. Len(endpoints[endpoint].matches)
    BY <2>1, <2>2, PolicyFacts DEF Collect, PolicyTypes
  <2> QED
    BY <2>1, <2>2, <2>3, PolicyFacts DEF Collect
<1>2. /\ UNCHANGED <<endpoints, components, endpoint, rest, output>>
      /\ policy_paths' = IF matching THEN EntryPush(o, g, endpoint) ELSE policy_paths
  BY DEF Collect
<1>3. g \in AllGlobs /\ AllGlobs' = AllGlobs
  BY <1>1, <1>2 DEF AllGlobs, CurrentGlob
<1>4. matching => Matched(g) /\ Meant(endpoint)
  <2>1. g \in Glob
    BY <1>1, PolicyFacts DEF PolicyInv, CurrentGlob
  <2> QED
    BY <1>1, <2>1, PolicyFacts DEF PolicyInv, Matched, Meant, CurrentGlob
<1> HIDE DEF g, o, matching
<1>5. KeysAreOrders'
  <2>1. CASE ~matching
    BY <1>2, <1>3, <2>1 DEF OrderInv, KeysAreOrders
  <2>2. CASE matching
    <3>1. /\ DOMAIN policy_paths' = DOMAIN policy_paths \cup {o}
          /\ \A key \in DOMAIN policy_paths \ {o} : policy_paths'[key] = policy_paths[key]
      <4>1. Pushed(policy_paths', o, endpoint)
        BY <1>2, <1>4, <2>2, PushFacts
      <4> QED
        BY <4>1 DEF Pushed
    <3>2. policy_paths'[o].path = IF o \in DOMAIN policy_paths THEN policy_paths[o].path ELSE g
      <4>1. CASE o \in DOMAIN policy_paths
        <5>1. policy_paths[o] \in Entry
          BY <4>1 DEF PolicyInv, EntryIsMeant
        <5>2. policy_paths' = [policy_paths EXCEPT ![o].configs = Append(@, endpoint)]
          BY <1>2, <2>2, <4>1 DEF EntryPush
        <5> QED
          BY <4>1, <5>1, <5>2 DEF Entry
      <4>2. CASE o \notin DOMAIN policy_paths
        BY <1>2, <2>2, <4>2 DEF EntryPush, Entered
      <4> QED
        BY <4>1, <4>2
    <3> QED
      BY <1>3, <3>1, <3>2 DEF OrderInv, KeysAreOrders, o
  <2> QED
    BY <2>1, <2>2
<1>6. Collecting' /\ DOMAIN output' = {}
  BY <1>1, <1>2 DEF Collecting, OrderInv
<1> QED
  BY <1>5, <1>6 DEF OrderInv

LEMMA NextEndpointOrder == ASSUME PolicyInv, OrderInv, NextEndpoint PROVE OrderInv'
<1>1. /\ Collecting /\ endpoint' = endpoint + 1
      /\ rest' = IF endpoint = Len(endpoints) THEN DOMAIN policy_paths ELSE {}
      /\ UNCHANGED <<endpoints, policy_paths, output>>
  BY DEF NextEndpoint
<1>2. KeysAreOrders'
  BY <1>1 DEF OrderInv, KeysAreOrders, AllGlobs
<1>3. DOMAIN output' = {}
  BY <1>1 DEF OrderInv
<1>4. Collecting' \/ rest' = DOMAIN policy_paths
  <2>1. endpoint \in Nat /\ Len(endpoints) \in Nat
    BY PolicyFacts DEF PolicyInv, PolicyTypes
  <2> QED
    BY <1>1, <2>1 DEF Collecting
<1> QED
  BY <1>1, <1>2, <1>3, <1>4 DEF OrderInv

LEMMA ApplyOrder == ASSUME PolicyInv, OrderInv, Apply PROVE OrderInv'
<1>1. PICK o \in rest : /\ \A p \in rest : ~Before(o, p)
                        /\ output' = InsertAll(policy_paths[o])
                        /\ rest' = rest \ {o}
  BY DEF Apply
<1>2. ~Collecting /\ UNCHANGED <<endpoints, components, endpoint, glob, policy_paths>>
  BY DEF Apply
<1>3. o \in DOMAIN policy_paths /\ EntryIsMeant(policy_paths[o])
  BY DEF PolicyInv
<1>4. ~Before(o, o)
  BY <1>1
<1>5. KeysAreOrders' /\ ~Collecting'
  BY <1>2 DEF OrderInv, KeysAreOrders, AllGlobs, Collecting
<1>6. \A k \in DOMAIN policy_paths \ rest' : k \in DOMAIN policy_paths \ rest \/ k = o
  BY <1>1
<1>7. \A k \in DOMAIN policy_paths \ rest' : \A p \in rest' : ~Before(k, p)
  BY <1>1, <1>2, <1>6 DEF OrderInv
<1>8. \A k, c : Configures(k, c)' <=> Configures(k, c)
  BY <1>2 DEF Configures
<1>9. ASSUME NEW c \in DOMAIN output' PROVE \E l : WonBy(c, l)'
  <2>1. \/ output'[c].matcher_path = policy_paths[o].path /\ Configures(o, c)
        \/ c \in DOMAIN output /\ output'[c] = output[c] /\ ~Configures(o, c)
    BY <1>1, <1>3, <1>9, InsertAllWins DEF Configures
  <2>2. CASE output'[c].matcher_path = policy_paths[o].path /\ Configures(o, c)
    <3>1. \A k \in DOMAIN policy_paths \ rest : ~Before(k, o)
      BY <1>1, <1>2 DEF OrderInv
    <3>2. WonBy(c, o)'
      BY <1>1, <1>2, <1>3, <1>4, <1>6, <2>2, <3>1 DEF WonBy
    <3> QED
      BY <3>2
  <2>3. CASE c \in DOMAIN output /\ output'[c] = output[c] /\ ~Configures(o, c)
    <3>1. PICK l : WonBy(c, l)
      BY <1>2, <2>3 DEF OrderInv
    <3>2. WonBy(c, l)'
      BY <1>1, <1>2, <1>6, <1>8, <2>3, <3>1 DEF WonBy
    <3> QED
      BY <3>2
  <2> QED
    BY <2>1, <2>2, <2>3
<1> QED
  BY <1>2, <1>5, <1>7, <1>9 DEF OrderInv

LEMMA StepOrder == ASSUME PolicyInv, OrderInv, [Next]_vars PROVE OrderInv'
<1>1. CASE UNCHANGED vars
  BY <1>1 DEF vars, OrderInv, KeysAreOrders, AllGlobs, Collecting, WonBy, Configures
<1> QED
  BY <1>1, CollectOrder, NextEndpointOrder, ApplyOrder DEF Next

\* Of the globs that match and configure a category none comes in front of the one that wins.
LEMMA FirstWins ==
  ASSUME PolicyInv, OrderInv, Done, NEW c \in DOMAIN output
  PROVE  /\ output[c].matcher_path \in AllGlobs
         /\ \A g \in GlobsFor(c) : MatchesComponents(g, components) =>
              ~Before(Order(g), Order(output[c].matcher_path))
<1>1. PICK l : WonBy(c, l)
  BY DEF OrderInv, Done
<1>2. /\ l \in DOMAIN policy_paths /\ output[c].matcher_path = policy_paths[l].path
      /\ policy_paths[l].path \in AllGlobs /\ Order(policy_paths[l].path) = l
  BY <1>1 DEF WonBy, OrderInv, KeysAreOrders
<1>3. ASSUME NEW g \in GlobsFor(c), MatchesComponents(g, components)
      PROVE  ~Before(Order(g), l)
  <2>1. PICK e \in DOMAIN endpoints : /\ c \in DOMAIN endpoints[e].config
                                      /\ \E k \in DOMAIN endpoints[e].matches :
                                           g = endpoints[e].matches[k]
    BY <1>3 DEF GlobsFor
  <2>2. PICK k \in DOMAIN endpoints[e].matches : g = endpoints[e].matches[k]
    BY <2>1
  <2>3. e \in 1 .. Len(endpoints) /\ Len(endpoints) \in Nat /\ g \in Glob
    BY <2>2, PolicyFacts DEF PolicyInv
  <2>4. Matched(g) /\ e < endpoint
    BY <1>3, <2>3 DEF Matched, Done, Collecting, PolicyInv, PolicyTypes
  <2>5. /\ Order(g) \in DOMAIN policy_paths
        /\ \E j \in DOMAIN policy_paths[Order(g)].configs : policy_paths[Order(g)].configs[j] = e
    BY <2>2, <2>3, <2>4 DEF PolicyInv, EachIsKept
  <2>6. Order(g) \in DOMAIN policy_paths \ rest /\ Configures(Order(g), c)
    BY <2>1, <2>5 DEF Done, Configures
  <2> QED
    BY <1>1, <2>6 DEF WonBy
<1> QED
  BY <1>2, <1>3

(***************************************************************************)
(* When the narrower of two globs comes first.                             *)
(***************************************************************************)
Open(g) == \E k \in DOMAIN g : g[k] = AnyMany

\* The components in front of "**".
Fixed(g) == IF Open(g) THEN Len(g) - 1 ELSE Len(g)

Fits(g, path) ==
  /\ Len(path) >= Fixed(g) /\ (~Open(g) => Len(path) = Fixed(g))
  /\ \A k \in 1 .. Fixed(g) : Matches(g[k], path[k])

LEMMA FixedFacts ==
  ASSUME NEW g \in Glob, ManyIsLast(g)
  PROVE  /\ Len(g) \in Nat /\ DOMAIN g = 1 .. Len(g) /\ Fixed(g) \in 0 .. Len(g)
         /\ \A k \in 1 .. Fixed(g) : k \in 1 .. Len(g) /\ g[k] # AnyMany
         /\ Open(g) => Len(g) >= 1 /\ Fixed(g) = Len(g) - 1 /\ g[Len(g)] = AnyMany
         /\ ~Open(g) => Fixed(g) = Len(g)
<1>1. Len(g) \in Nat /\ DOMAIN g = 1 .. Len(g)
  BY LenProperties DEF Glob
<1>2. CASE Open(g)
  <2>1. PICK last \in 1 .. Len(g) : g[last] = AnyMany
    BY <1>1, <1>2 DEF Open
  <2>2. last = Len(g)
    BY <1>1, <2>1 DEF ManyIsLast
  <2>3. Fixed(g) = Len(g) - 1
    BY <1>2 DEF Fixed
  <2>4. Len(g) >= 1 /\ g[Len(g)] = AnyMany
    BY <1>1, <2>1, <2>2
  <2>5. ASSUME NEW k \in 1 .. Len(g) - 1 PROVE k \in 1 .. Len(g) /\ g[k] # AnyMany
    <3>1. \A n \in Nat : \A l \in 1 .. n - 1 : l \in 1 .. n /\ l # n
      OBVIOUS
    <3>2. k \in 1 .. Len(g) /\ k # Len(g)
      BY <1>1, <3>1
    <3> QED
      BY <1>1, <3>2 DEF ManyIsLast
  <2>6. Fixed(g) \in 0 .. Len(g)
    BY <1>1, <2>3, <2>4
  <2> QED
    BY <1>1, <1>2, <2>3, <2>4, <2>5, <2>6
<1>3. CASE ~Open(g)
  <2>1. Fixed(g) = Len(g)
    BY <1>3 DEF Fixed
  <2>2. Len(g) \in 0 .. Len(g) /\ \A k \in 1 .. Len(g) : g[k] # AnyMany
    BY <1>1, <1>3 DEF Open
  <2> QED
    BY <1>1, <1>3, <2>1, <2>2
<1> QED
  BY <1>2, <1>3

LEMMA DenotesFits ==
  ASSUME NEW g \in Glob, ManyIsLast(g), NEW path \in Path
  PROVE  Denotes(g, path) <=> Fits(g, path)
<1> DEFINE b == Fixed(g)
           n == Len(path)
           Rest(k) == /\ n >= b /\ (~Open(g) => n = b)
                      /\ \A l \in k .. b : Matches(g[l], path[l])
<1>1. /\ Len(g) \in Nat /\ n \in Nat /\ b \in 0 .. Len(g)
      /\ \A k \in 1 .. b : k \in 1 .. Len(g) /\ g[k] # AnyMany
      /\ Open(g) => Len(g) >= 1 /\ b = Len(g) - 1 /\ g[Len(g)] = AnyMany
      /\ ~Open(g) => b = Len(g)
  BY GlobTypes, FixedFacts
<1>2. PICK d : /\ Denotes(g, path) <=> d[1][1]
               /\ \A k \in 1 .. Len(g) + 1 : \A i \in 1 .. Len(path) + 1 :
                     d[k][i] <=> DenoteStep(g, path, d, k, i)
  BY DenotesRecursion
<1> HIDE DEF b, n
<1>3. \A k \in 1 .. Len(g) + 1 : \A i \in 1 .. n + 1 : d[k][i] <=> DenoteStep(g, path, d, k, i)
  BY <1>2 DEF n
<1> DEFINE T == {k \in 1 .. b + 1 : k <= n + 1 => (d[k][k] <=> Rest(k))}
<1>4. ASSUME NEW k \in 1 .. b + 1, \A y \in 1 .. b + 1 : y > k => y \in T, k <= n + 1
      PROVE  d[k][k] <=> Rest(k)
  <2>1. /\ k \in 1 .. Len(g) + 1 /\ k \in 1 .. n + 1 /\ k \in Nat
        /\ k > Len(g) <=> ~(k <= Len(g))
    BY <1>1, <1>4
  <2>2. d[k][k] <=> DenoteStep(g, path, d, k, k)
    BY <1>3, <2>1
  <2>3. CASE k = b + 1 /\ ~Open(g)
    <3>1. k > Len(g) /\ k .. b = {}
      BY <1>1, <2>3
    <3>2. d[k][k] <=> k > n
      BY <2>1, <2>2, <3>1 DEF DenoteStep, n
    <3>3. k > n <=> n = b
      BY <1>1, <1>4, <2>1, <2>3
    <3> QED
      BY <1>1, <2>3, <3>1, <3>2, <3>3
  <2>4. CASE k = b + 1 /\ Open(g)
    <3>1. k = Len(g) /\ k <= Len(g) /\ g[k] = AnyMany /\ k .. b = {}
      BY <1>1, <2>4
    <3>2. d[k + 1][n + 1]
      <4>1. k + 1 \in 1 .. Len(g) + 1 /\ n + 1 \in 1 .. n + 1 /\ k + 1 > Len(g) /\ n + 1 > n
        BY <1>1, <3>1
      <4>2. DenoteStep(g, path, d, k + 1, n + 1)
        BY <4>1 DEF DenoteStep, n
      <4> QED
        BY <1>3, <4>1, <4>2
    <3>3. n + 1 \in k .. n + 1 /\ n >= b
      BY <1>1, <1>4, <2>1, <2>4
    <3>4. d[k][k]
      BY <2>2, <3>1, <3>2, <3>3 DEF DenoteStep, n
    <3> QED
      BY <2>4, <3>1, <3>3, <3>4
  <2>5. CASE k # b + 1
    <3>1. k \in 1 .. b /\ k \in 1 .. Len(g) /\ k <= Len(g) /\ g[k] # AnyMany
      BY <1>1, <2>5
    <3>2. d[k][k] <=> k <= n /\ Matches(g[k], path[k]) /\ d[k + 1][k + 1]
      BY <2>1, <2>2, <3>1 DEF DenoteStep, n
    <3>3. CASE k <= n
      <4>1. k + 1 \in 1 .. b + 1 /\ k + 1 > k /\ k + 1 <= n + 1
        BY <1>1, <3>1, <3>3
      <4>2. k + 1 \in T
        BY <1>4, <4>1
      <4>3. d[k + 1][k + 1] <=> Rest(k + 1)
        BY <4>1, <4>2
      <4>4. \A l \in k .. b : l = k \/ l \in k + 1 .. b
        BY <2>1
      <4>5. k \in k .. b /\ \A l \in k + 1 .. b : l \in k .. b
        BY <1>1, <3>1
      <4> QED
        BY <3>2, <3>3, <4>3, <4>4, <4>5
    <3>4. CASE ~(k <= n)
      <4>1. ~(n >= b)
        BY <1>1, <3>1, <3>4
      <4> QED
        BY <3>2, <3>4, <4>1
    <3> QED
      BY <3>3, <3>4
  <2> QED
    BY <2>3, <2>4, <2>5
<1>5. T = 1 .. b + 1
  <2>1. b + 1 \in Nat /\ T \in SUBSET (1 .. b + 1)
    BY <1>1
  <2>2. \A k \in 1 .. b + 1 : (\A y \in 1 .. b + 1 : y > k => y \in T) => k \in T
    BY <1>4
  <2> HIDE DEF T
  <2> QED
    BY <2>1, <2>2, FromTheEnd
<1>6. 1 \in 1 .. b + 1 /\ 1 <= n + 1
  BY <1>1
<1>7. d[1][1] <=> Rest(1)
  <2>1. 1 \in T
    BY <1>5, <1>6
  <2> QED
    BY <1>6, <2>1
<1> QED
  BY <1>2, <1>7 DEF Fits, b, n

\* Every path of up to n components may be requested.
PathsUpTo(n) == \A l \in 1 .. n : [1 .. l -> Names] \subseteq Paths

Telling(g) == ManyIsLast(g) /\ PathsUpTo(Len(g) + 1) /\ \A k \in DOMAIN g : Proper(g[k])

LEMMA ProperFacts ==
  ASSUME NEW c, Proper(c)
  PROVE  /\ c.kind \in {"any_one", "any_many", "globish", "literal"} /\ c.names \subseteq Names
         /\ c.kind = "any_one" <=> c = AnyOne
         /\ c.kind = "any_many" <=> c = AnyMany
         /\ c.kind \in {"any_one", "any_many"} => c.names = Names
         /\ c.kind = "globish" => c.names # Names /\ \E x, y \in c.names : x # y
         /\ c.kind = "literal" => \E name \in Names : c.names = {name}
         /\ Names # {} => c.names # {}
<1>1. CASE c = AnyOne \/ c = AnyMany
  BY <1>1 DEF AnyOne, AnyMany
<1>2. CASE PartialComponent(c)
  BY <1>2 DEF PartialComponent, Globish, AnyOne, AnyMany
<1>3. CASE \E name \in Names : c = Literal(name)
  BY <1>3 DEF Literal, AnyOne, AnyMany
<1> QED
  BY <1>1, <1>2, <1>3 DEF Proper

\* A path that g denotes, of the length l, with x at k.
LEMMA SamplePath ==
  ASSUME NEW g \in Glob, Telling(g), Names # {},
         NEW l \in 1 .. Len(g) + 1, l >= Fixed(g), ~Open(g) => l = Fixed(g),
         NEW k, NEW x, k \in 1 .. Fixed(g) => x \in g[k].names
  PROVE  \E path \in Paths : /\ path \in Path /\ Len(path) = l /\ Fits(g, path)
                             /\ k \in 1 .. Fixed(g) => path[k] = x
<1> DEFINE b == Fixed(g)
           any(S) == CHOOSE name \in S : TRUE
           path == [m \in 1 .. l |-> IF m = k /\ k \in 1 .. b THEN x
                                     ELSE IF m \in 1 .. b THEN any(g[m].names) ELSE any(Names)]
<1>1. /\ Len(g) \in Nat /\ b \in 0 .. Len(g) /\ l \in Nat
      /\ \A m \in 1 .. b : m \in DOMAIN g /\ Proper(g[m])
  BY FixedFacts DEF Telling
<1>2. \A m \in 1 .. b : g[m].names \subseteq Names /\ g[m].names # {}
  BY <1>1, ProperFacts
<1>3. \A m \in 1 .. b : any(g[m].names) \in g[m].names
  BY <1>2
<1>4. any(Names) \in Names
  OBVIOUS
<1> HIDE DEF any, b
<1>5. k \in 1 .. b => x \in g[k].names
  BY DEF b
<1>6. \A m \in 1 .. l : path[m] \in Names /\ (m \in 1 .. b => path[m] \in g[m].names)
                        /\ (m = k /\ k \in 1 .. b => path[m] = x)
  BY <1>2, <1>3, <1>4, <1>5
<1>7. path \in [1 .. l -> Names] /\ DOMAIN path = 1 .. l
  BY <1>6
<1> HIDE DEF path
<1>8. path \in Paths /\ path \in Seq(Names)
  BY <1>7, PoliciesAssumption DEF Telling, PathsUpTo
<1>9. Len(path) = l
  BY <1>1, <1>7, <1>8, LenProperties
<1>10. \A m \in 1 .. b : m \in 1 .. l
  BY <1>1 DEF b
<1>11. Fits(g, path)
  BY <1>6, <1>9, <1>10 DEF Fits, Matches, b
<1> QED
  BY <1>6, <1>8, <1>9, <1>10, <1>11 DEF Path, b

LEMMA CountLess ==
  ASSUME NEW g \in Glob, NEW h \in Glob, NEW kind,
         \A k \in DOMAIN g : g[k].kind = kind => k \in DOMAIN h /\ h[k].kind = kind
  PROVE  /\ Count(g, kind) <= Count(h, kind)
         /\ Count(g, kind) = Count(h, kind) =>
              \A k \in DOMAIN h : h[k].kind = kind => k \in DOMAIN g /\ g[k].kind = kind
<1> DEFINE S == {k \in DOMAIN g : g[k].kind = kind}
           T == {k \in DOMAIN h : h[k].kind = kind}
<1>1. S \in SUBSET T
  OBVIOUS
<1>2. IsFiniteSet(T)
  BY OrderFacts
<1>3. Count(g, kind) = Cardinality(S) /\ Count(h, kind) = Cardinality(T)
  BY DEF Count
<1> HIDE DEF S, T
<1>4. Cardinality(S) <= Cardinality(T) /\ (Cardinality(T) = Cardinality(S) => T = S)
  BY <1>1, <1>2, FS_Subset
<1>5. Count(g, kind) = Count(h, kind) => T = S
  BY <1>3, <1>4
<1> QED
  BY <1>3, <1>4, <1>5 DEF S, T

\* Of two globs of one length, each telling, the narrower one comes first.
LEMMA NarrowerFirst ==
  ASSUME NEW g \in Glob, NEW h \in Glob, Telling(g), Telling(h), Apart(g, h),
         Len(g) = Len(h), Narrower(g, h)
  PROVE  Before(Order(g), Order(h))
<1> DEFINE n == Len(g)
           b == Fixed(g)
           less(kind) == Count(g, kind) < Count(h, kind)
           same(kind) == Count(g, kind) = Count(h, kind)
           noMore(kind) == Count(g, kind) <= Count(h, kind)
<1>1. /\ n \in Nat /\ DOMAIN g = 1 .. n /\ DOMAIN h = 1 .. n /\ b \in 0 .. n
      /\ \A k \in 1 .. n : Proper(g[k]) /\ Proper(h[k])
      /\ \A k \in 1 .. b : k \in 1 .. n /\ g[k] # AnyMany
  BY FixedFacts DEF Telling
<1>2. \A kind : Count(g, kind) \in Nat /\ Count(h, kind) \in Nat
  BY OrderFacts DEF Count
<1>3. /\ noMore("any_many") /\ (less("any_many") => Before(Order(g), Order(h)))
      => Before(Order(g), Order(h)) \/ same("any_many")
  BY <1>2
<1>4. less("any_many") => Before(Order(g), Order(h))
  BY DEF Before, Order
<1>5. same("any_many") /\ less("any_one") => Before(Order(g), Order(h))
  BY DEF Before, Order
<1>6. same("any_many") /\ same("any_one") /\ less("globish") => Before(Order(g), Order(h))
  BY DEF Before, Order
<1>7. \A kind : noMore(kind) => less(kind) \/ same(kind)
  BY <1>2
<1>8. PICK known \in Paths : Fits(h, known) /\ ~Fits(g, known) /\ known \in Path
  BY PoliciesAssumption, DenotesFits DEF Narrower, Telling, Path
<1>9. \A path \in Paths : path \in Path /\ Fits(g, path) => Fits(h, path)
  BY DenotesFits DEF Narrower, Telling
<1> HIDE DEF less, same, noMore
<1>10. CASE Open(g) /\ ~Open(h)
  <2>1. /\ Fixed(h) = n /\ n >= 1 /\ Len(known) = n /\ known \in Seq(Names)
    BY <1>8, <1>10, FixedFacts DEF Telling, Fits, Path
  <2>2. Names # {}
    BY <2>1, ElementOfSeq
  <2>3. n + 1 \in 1 .. n + 1 /\ n + 1 >= b
    BY <1>1
  <2>4. PICK path \in Paths : path \in Path /\ Len(path) = n + 1 /\ Fits(g, path)
    <3>1. \E path \in Paths : /\ path \in Path /\ Len(path) = n + 1 /\ Fits(g, path)
                              /\ 0 \in 1 .. Fixed(g) => path[0] = 0
      <4>1. ~(0 \in 1 .. Fixed(g))
        OBVIOUS
      <4>2. n + 1 \in 1 .. Len(g) + 1 /\ n + 1 >= Fixed(g)
        BY <2>3
      <4> HIDE DEF n, b
      <4> QED
        BY <1>10, <2>2, <4>1, <4>2, SamplePath
    <3> QED
      BY <3>1
  <2>5. Fits(h, path)
    BY <1>9, <2>4
  <2> QED
    BY <1>1, <1>10, <2>1, <2>4, <2>5 DEF Fits
<1>11. CASE ~Open(g) /\ Open(h)
  <2>1. \A k \in DOMAIN g : g[k].kind # "any_many"
    BY <1>1, <1>11, ProperFacts DEF Open
  <2>2. PICK k \in DOMAIN h : h[k].kind = "any_many"
    BY <1>11 DEF Open, AnyMany
  <2>3. noMore("any_many") /\ ~same("any_many")
    BY <2>1, <2>2, CountLess DEF noMore, same
  <2> QED
    BY <1>4, <1>7, <2>3
<1>12. CASE Open(g) <=> Open(h)
  <2>1. /\ Fixed(h) = b /\ \A k \in 1 .. b : h[k] # AnyMany
        /\ \A k \in 1 .. n : k \in 1 .. b \/ (g[k] = AnyMany /\ h[k] = AnyMany)
    <3>1. Fixed(h) = b
      BY <1>12, FixedFacts DEF Telling
    <3>2. \A k \in 1 .. n : k \in 1 .. b \/ (Open(g) /\ k = n)
      <4>1. (Open(g) => b = n - 1) /\ (~Open(g) => b = n)
        BY FixedFacts DEF Telling
      <4> HIDE DEF n, b
      <4> QED
        BY <1>1, <4>1
    <3> QED
      BY <1>12, <3>1, <3>2, FixedFacts DEF Telling
  <2>2. PICK at \in 1 .. b : known[at] \in h[at].names /\ known[at] \notin g[at].names
    BY <1>8, <1>12, <2>1 DEF Fits, Matches
  <2>3. ASSUME NEW k \in 1 .. b, NEW x \in g[k].names PROVE x \in h[k].names
    <3>1. x \in Names
      BY <1>1, ProperFacts
    <3>2. b \in 1 .. n + 1 /\ b >= b
      BY <1>1
    <3>3. PICK path \in Paths : path \in Path /\ Fits(g, path) /\ path[k] = x
      <4>1. \E path \in Paths : /\ path \in Path /\ Len(path) = b /\ Fits(g, path)
                                /\ k \in 1 .. Fixed(g) => path[k] = x
        BY <3>1, <3>2, SamplePath
      <4> QED
        BY <4>1
    <3>4. Fits(h, path)
      BY <1>9, <3>3
    <3> QED
      BY <2>1, <3>3, <3>4 DEF Fits, Matches
  <2> DEFINE y == known[at]
  <2>4. /\ y \in h[at].names /\ y \notin g[at].names /\ y \in Names
        /\ at \in 1 .. n /\ g[at].names # {}
    BY <1>1, <2>2, ProperFacts
  <2> HIDE DEF y, b
  <2>5. \A name : Names # {name}
    <3>1. g[at].names \subseteq Names
      BY <1>1, <2>4, ProperFacts
    <3> QED
      BY <2>4, <3>1
  <2>6. \A k \in 1 .. b : /\ Proper(g[k]) /\ Proper(h[k]) /\ g[k].names \subseteq h[k].names
                          /\ g[k].kind # "any_many" /\ h[k].kind # "any_many"
    BY <1>1, <2>1, <2>3, ProperFacts
  <2>7. same("any_many")
    <3>1. \A k \in 1 .. n : g[k].kind = "any_many" <=> h[k].kind = "any_many"
      BY <2>1, <2>6
    <3>2. Count(g, "any_many") <= Count(h, "any_many") /\ Count(h, "any_many") <= Count(g, "any_many")
      BY <1>1, <3>1, CountLess
    <3> QED
      BY <1>2, <3>2 DEF same
  <2>8. \A k \in 1 .. n : g[k].kind \in {"any_one", "globish", "literal"} => k \in 1 .. b
    BY <2>1 DEF AnyMany
  <2>9. \A k \in 1 .. n : g[k].kind = "any_one" => h[k].kind = "any_one"
    <3> SUFFICES ASSUME NEW k \in 1 .. n, g[k].kind = "any_one" PROVE h[k].kind = "any_one"
      OBVIOUS
    <3>1. k \in 1 .. b /\ g[k].names = Names
      BY <1>1, <2>8, ProperFacts
    <3>2. h[k].names = Names /\ Proper(h[k]) /\ h[k].kind # "any_many"
      <4>1. /\ Proper(h[k]) /\ g[k].names \subseteq h[k].names
            /\ h[k].kind # "any_many"
        BY <2>6, <3>1
      <4>2. h[k].names \subseteq Names
        BY <4>1, ProperFacts
      <4> QED
        BY <3>1, <4>1, <4>2
    <3>3. /\ h[k].kind \in {"any_one", "any_many", "globish", "literal"}
          /\ h[k].kind = "globish" => h[k].names # Names
          /\ h[k].kind = "literal" => \E name \in Names : h[k].names = {name}
      BY <3>2, ProperFacts
    <3> QED
      BY <2>5, <3>2, <3>3
  <2>10. noMore("any_one")
    BY <1>1, <2>9, CountLess DEF noMore
  <2>11. CASE same("any_one")
    <3>1. \A k \in 1 .. n : h[k].kind = "any_one" => g[k].kind = "any_one"
      BY <1>1, <2>9, <2>11, CountLess DEF same
    <3>2. \A k \in 1 .. n : g[k].kind = "globish" => h[k].kind = "globish"
      <4> SUFFICES ASSUME NEW k \in 1 .. n, g[k].kind = "globish" PROVE h[k].kind = "globish"
        OBVIOUS
      <4>1. /\ k \in 1 .. b /\ Proper(h[k]) /\ g[k].names \subseteq h[k].names
            /\ h[k].kind \notin {"any_many", "any_one"}
        BY <2>6, <2>8, <3>1
      <4>2. \E x, z \in g[k].names : x # z
        BY <1>1, ProperFacts
      <4> QED
        BY <4>1, <4>2, ProperFacts
    <3>3. noMore("globish")
      BY <1>1, <3>2, CountLess DEF noMore
    <3>4. ~same("globish")
      <4> SUFFICES ASSUME same("globish") PROVE FALSE
        OBVIOUS
      <4>1. h[at].kind = "globish" => g[at].kind = "globish"
        BY <1>1, <2>4, <3>2, CountLess DEF same
      <4>2. Proper(h[at]) /\ g[at].names \subseteq h[at].names /\ h[at].kind # "any_many"
        BY <2>2, <2>6 DEF b
      <4>3. CASE h[at].kind = "globish"
        BY <1>1, <2>4, <4>1, <4>2, <4>3 DEF Apart
      <4>4. CASE h[at].kind = "any_one"
        <5>1. g[at].names = Names
          BY <1>1, <2>4, <3>1, <4>4, ProperFacts
        <5> QED
          BY <2>4, <5>1
      <4>5. CASE h[at].kind = "literal"
        BY <2>4, <4>2, <4>5, ProperFacts
      <4> QED
        BY <4>2, <4>3, <4>4, <4>5, ProperFacts
    <3> QED
      BY <1>6, <1>7, <2>7, <2>11, <3>3, <3>4
  <2> QED
    BY <1>5, <1>7, <2>7, <2>10, <2>11
<1> QED
  BY <1>10, <1>11, <1>12

\* "**" is at the end of the policy's globs, and every path that is one component longer
\* than one of them may be requested.
ManyAtEnds == \A g \in AllGlobs : ManyIsLast(g) /\ PathsUpTo(Len(g) + 1)

LEMMA NarrowerOf == PolicyInv /\ OrderInv => (ManyAtEnds => NarrowerWins)
<1> SUFFICES ASSUME PolicyInv, OrderInv, ManyAtEnds, Done, NEW c \in DOMAIN output,
                    NEW g \in GlobsFor(c), Len(g) = Len(output[c].matcher_path),
                    OrderTells(g, output[c].matcher_path),
                    MatchesComponents(g, components), Narrower(g, output[c].matcher_path)
             PROVE  FALSE
  BY DEF NarrowerWins
<1> DEFINE h == output[c].matcher_path
<1>1. h \in AllGlobs /\ ~Before(Order(g), Order(h))
  BY FirstWins
<1>2. g \in AllGlobs
  BY DEF GlobsFor, AllGlobs
<1>3. \A x \in AllGlobs : x \in Glob
  BY PolicyFacts DEF PolicyInv, AllGlobs
<1>4. Telling(g) /\ Telling(h) /\ Apart(g, h)
  BY <1>1, <1>2 DEF OrderTells, ManyAtEnds, Telling
<1>5. Len(g) = Len(h) /\ Narrower(g, h)
  OBVIOUS
<1> HIDE DEF h
<1>6. Before(Order(g), Order(h))
  BY <1>1, <1>2, <1>3, <1>4, <1>5, NarrowerFirst
<1> QED
  BY <1>1, <1>6

\* lib.rs:316-317: of two globs of one length that configure a category, the one that
\* denotes fewer paths wins, whatever else the policy has and wherever it has them, if
\* "**" is nowhere but at their ends, and unless it is narrower by a partial component
\* only.
THEOREM NarrowerWinsHolds == Spec => [](ManyAtEnds => NarrowerWins)
<1>1. Init => PolicyInv /\ OrderInv
  <2> SUFFICES ASSUME NEW policy \in Policies, NEW path \in Paths, Start(policy, path)
               PROVE  PolicyInv /\ OrderInv
    BY DEF Init
  <2>1. WellTyped(policy) /\ path \in Path
    BY PoliciesAssumption DEF Path
  <2>2. PolicyInv
    BY <2>1, StartPolicy
  <2> QED
    BY <2>2, StartOrder DEF PolicyInv
<1>2. PolicyInv /\ OrderInv /\ [Next]_vars => (PolicyInv /\ OrderInv)'
  BY StepPolicy, StepOrder
<1> QED
  BY <1>1, <1>2, NarrowerOf, PTL DEF Spec

(***************************************************************************)
(* LowEntropyHash.                                                         *)
(***************************************************************************)
LEMMA BytesFacts == ASSUME NEW n \in Nat PROVE BytesTo(n) = 0 .. 8 * n - 1
<1>1. ASSUME NEW x \in BytesTo(n) PROVE x \in 0 .. 8 * n - 1
  <2>1. PICK k \in 0 .. n - 1 : x \in BitsOf(k, 0 .. 7)
    BY DEF BytesTo
  <2>2. PICK j \in 0 .. 7 : x = 8 * k + j
    BY <2>1 DEF BitsOf
  <2> QED
    BY <2>2
<1>2. ASSUME NEW x \in 0 .. 8 * n - 1 PROVE x \in BytesTo(n)
  <2> DEFINE k == x \div 8
             j == x % 8
  <2>1. k \in 0 .. n - 1 /\ j \in 0 .. 7 /\ x = 8 * k + j
    OBVIOUS
  <2>2. x \in BitsOf(k, 0 .. 7)
    BY <2>1 DEF BitsOf
  <2> QED
    BY <2>1, <2>2 DEF BytesTo
<1> QED
  BY <1>1, <1>2

\* Of the last byte, the first bits.
LEMMA LastByteFacts ==
  ASSUME NEW n \in Nat, NEW m \in 0 .. 7
  PROVE  BytesTo(n) \cup BitsOf(n, 0 .. m) = 0 .. 8 * n + m
<1>1. \A x : x \in BitsOf(n, 0 .. m) <=> x \in 8 * n .. 8 * n + m
  <2>1. ASSUME NEW x \in BitsOf(n, 0 .. m) PROVE x \in 8 * n .. 8 * n + m
    BY DEF BitsOf
  <2>2. ASSUME NEW x \in 8 * n .. 8 * n + m PROVE x \in BitsOf(n, 0 .. m)
    <3>1. x - 8 * n \in 0 .. m /\ x = 8 * n + (x - 8 * n)
      OBVIOUS
    <3> QED
      BY <3>1 DEF BitsOf
  <2> QED
    BY <2>1, <2>2
<1>2. \A x : x \in 0 .. 8 * n + m <=> x \in 0 .. 8 * n - 1 \/ x \in 8 * n .. 8 * n + m
  OBVIOUS
<1> QED
  BY <1>1, <1>2, BytesFacts

\* What gets through finalize and Display is a prefix of the digest.
LEMMA ShownFacts ==
  ASSUME NEW bits, Hashable(bits)
  PROVE  \E n \in Nat : Fmt(bits).shown = 0 .. n
<1> DEFINE w == bits \div 8
           r == bits % 8
<1>1. bits \in Nat /\ bits >= 1 /\ w \in Nat /\ r \in 0 .. 7 /\ bits = 8 * w + r
  BY DEF Hashable
<1>2. Fmt(bits).shown = Finalize(bits) \cap (BytesTo(w) \cup BitsOf(w, LastShown(bits)))
  BY DEF Fmt
<1>3. BitsOverrun(bits) = r /\ Mask(bits) = 0 .. 7 - r
  BY <1>1 DEF BitsOverrun, Mask
<1> HIDE DEF w, r
<1>4. CASE r = 0
  <2>1. MaxByteLen(bits) = w /\ w >= 1 /\ w - 1 \in Nat
    BY <1>1, <1>4 DEF MaxByteLen
  <2>2. Finalize(bits) = 0 .. 8 * w - 1
    <3>1. Finalize(bits) = 0 .. 8 * (w - 1) + 7
      BY <1>3, <1>4, <2>1, LastByteFacts DEF Finalize
    <3> QED
      BY <1>1, <3>1
  <2>3. BytesTo(w) = 0 .. 8 * w - 1 /\ 8 * w - 1 \in Nat
    BY <1>1, <2>1, BytesFacts
  <2> QED
    BY <1>2, <2>2, <2>3
<1>5. CASE r # 0
  <2>1. MaxByteLen(bits) - 1 = w
    BY <1>1, <1>5 DEF MaxByteLen
  <2>2. Finalize(bits) = 0 .. 8 * w + (7 - r)
    <3>1. 7 - r \in 0 .. 7
      BY <1>1
    <3> QED
      BY <1>1, <1>3, <2>1, <3>1, LastByteFacts DEF Finalize
  <2>3. LastShown(bits) = IF r > 4 THEN 0 .. 7 ELSE 0 .. 3
    BY <1>3, <1>5 DEF LastShown, LastByteWhole, HighHalf
  <2> DEFINE m == IF r > 4 THEN 7 ELSE 3
  <2>4. m \in 0 .. 7 /\ LastShown(bits) = 0 .. m
    <3>1. CASE r > 4
      BY <2>3, <3>1
    <3>2. CASE ~(r > 4)
      BY <2>3, <3>2
    <3> QED
      BY <3>1, <3>2
  <2>5. BytesTo(w) \cup BitsOf(w, LastShown(bits)) = 0 .. 8 * w + m
    <3> HIDE DEF m
    <3> QED
      BY <1>1, <2>4, LastByteFacts
  <2> DEFINE n == IF 7 - r < m THEN 8 * w + (7 - r) ELSE 8 * w + m
  <2>6. n \in Nat /\ \A x : x \in 0 .. n <=> x \in 0 .. 8 * w + (7 - r) /\ x \in 0 .. 8 * w + m
    BY <1>1, <2>4
  <2> HIDE DEF m, n
  <2> QED
    BY <1>2, <2>2, <2>5, <2>6
<1> QED
  BY <1>4, <1>5

(***************************************************************************)
(* find_iter.                                                              *)
(***************************************************************************)
Source == Seq(Bytes)
Span == [start : Nat, end : Nat]

WordsAt(source, words, i) == {k \in DOMAIN words : IsAt(source, i, words[k])}

FirstAt(source, words, i) == words[Min(WordsAt(source, words, i))]

\* What is found from i on, when f says it of what comes after i.
IterStep(source, words, f, i) ==
  IF i > Len(source) THEN << >>
  ELSE IF WordsAt(source, words, i) = {} THEN f[i + 1]
  ELSE LET next == i + Len(FirstAt(source, words, i))
       IN <<[start |-> i - 1, end |-> next - 1]>> \o f[next]

LEMMA WordFacts ==
  ASSUME NEW word \in Word
  PROVE  word \in Source /\ Len(word) \in Nat /\ Len(word) >= 1
<1>1. word \in Source /\ Len(word) \in Nat \ {0}
  BY EmptySeq DEF Word, Source
<1> QED
  BY <1>1

LEMMA FirstAtFacts ==
  ASSUME NEW source \in Source, NEW words \in Seq(Word), NEW i \in 1 .. Len(source),
         WordsAt(source, words, i) # {}
  PROVE  /\ \E k \in DOMAIN words : FirstAt(source, words, i) = words[k]
         /\ FirstAt(source, words, i) \in Word
         /\ IsAt(source, i, FirstAt(source, words, i))
         /\ i + Len(FirstAt(source, words, i)) \in i + 1 .. Len(source) + 1
<1> DEFINE T == WordsAt(source, words, i)
<1>1. Len(words) \in Nat /\ DOMAIN words = 1 .. Len(words) /\ Len(source) \in Nat
  BY LenProperties DEF Source
<1>2. T \in SUBSET Nat
  BY <1>1 DEF WordsAt
<1>3. Min(T) \in T
  <2> HIDE DEF T
  <2> QED
    BY <1>2, MinFacts DEF T
<1>4. Min(T) \in DOMAIN words /\ IsAt(source, i, words[Min(T)])
  BY <1>3 DEF WordsAt
<1>5. words[Min(T)] \in Word
  BY <1>1, <1>4, ElementOfSeq
<1>6. Len(words[Min(T)]) \in Nat /\ Len(words[Min(T)]) >= 1
  BY <1>5, WordFacts
<1>7. i + Len(words[Min(T)]) - 1 <= Len(source)
  BY <1>4 DEF IsAt
<1> QED
  BY <1>1, <1>4, <1>5, <1>6, <1>7 DEF FirstAt

LEMMA IterRecursion ==
  ASSUME NEW source \in Source, NEW words \in Seq(Word)
  PROVE  \E f : /\ FindIter(source, words) = f[1]
                /\ \A i \in 1 .. Len(source) + 1 : f[i] = IterStep(source, words, f, i)
<1> DEFINE n == Len(source) + 1
           S == Seq(Span)
           H == [p \in [1 .. n -> S] \X (1 .. n) |-> IterStep(source, words, p[1], p[2])]
           F(f) == f = [i \in 1 .. n |-> IterStep(source, words, f, i)]
<1>1. Len(source) \in Nat /\ n \in Nat /\ n >= 1
  BY LenProperties DEF Source
<1>2. ASSUME NEW i \in 1 .. n, i <= Len(source)
      PROVE  /\ i \in 1 .. Len(source) /\ i + 1 \in 1 .. n /\ i + 1 > i
             /\ WordsAt(source, words, i) # {} =>
                  LET next == i + Len(FirstAt(source, words, i))
                  IN next \in 1 .. n /\ next > i /\ next - 1 \in Nat /\ i - 1 \in Nat
  <2>1. i \in 1 .. Len(source)
    BY <1>1, <1>2
  <2>2. WordsAt(source, words, i) # {} =>
          i + Len(FirstAt(source, words, i)) \in i + 1 .. Len(source) + 1
    BY <2>1, FirstAtFacts
  <2> DEFINE next == i + Len(FirstAt(source, words, i))
  <2> HIDE DEF next
  <2>3. next \in i + 1 .. Len(source) + 1 =>
          next \in 1 .. n /\ next > i /\ next - 1 \in Nat /\ i - 1 \in Nat
    BY <1>1, <2>1
  <2> QED
    BY <1>1, <2>1, <2>2, <2>3 DEF next
<1>3. ASSUME NEW f \in [1 .. n -> S], NEW i \in 1 .. n
      PROVE  IterStep(source, words, f, i) \in S
  <2>1. CASE i > Len(source)
    BY <2>1, EmptySeq DEF IterStep
  <2>2. CASE i <= Len(source) /\ WordsAt(source, words, i) = {}
    BY <1>1, <1>2, <2>2 DEF IterStep
  <2>3. CASE i <= Len(source) /\ WordsAt(source, words, i) # {}
    <3> DEFINE next == i + Len(FirstAt(source, words, i))
               head == [start |-> i - 1, end |-> next - 1]
    <3>1. next \in 1 .. n /\ next - 1 \in Nat /\ i - 1 \in Nat
      BY <1>2, <2>3
    <3> HIDE DEF next
    <3>2. head \in Span
      BY <3>1 DEF Span
    <3>3. f[next] \in S
      <4> HIDE DEF n
      <4> QED
        BY <3>1
    <3> HIDE DEF head
    <3>4. <<head>> \in S
      BY <3>2
    <3>5. <<head>> \o f[next] \in S
      BY <3>3, <3>4, ConcatProperties
    <3>6. IterStep(source, words, f, i) = <<head>> \o f[next]
      BY <1>1, <2>3 DEF IterStep, head, next
    <3> QED
      BY <3>5, <3>6
  <2> QED
    BY <1>1, <2>1, <2>2, <2>3
<1>4. LooksAhead(n, S, H)
  <2>1. H \in [[1 .. n -> S] \X (1 .. n) -> S]
    <3>1. \A p \in [1 .. n -> S] \X (1 .. n) : IterStep(source, words, p[1], p[2]) \in S
      BY <1>3
    <3> HIDE DEF S, n
    <3> QED
      BY <3>1
  <2>2. ASSUME NEW f \in [1 .. n -> S], NEW g \in [1 .. n -> S], NEW i \in 1 .. n,
               \A y \in 1 .. n : y > i => f[y] = g[y]
        PROVE  H[<<f, i>>] = H[<<g, i>>]
    <3>1. i <= Len(source) =>
            /\ f[i + 1] = g[i + 1]
            /\ WordsAt(source, words, i) # {} =>
                 f[i + Len(FirstAt(source, words, i))] = g[i + Len(FirstAt(source, words, i))]
      BY <1>2, <2>2
    <3>2. i > Len(source) \/ i <= Len(source)
      BY <1>1
    <3>3. IterStep(source, words, f, i) = IterStep(source, words, g, i)
      <4> HIDE DEF n
      <4> QED
        BY <3>1, <3>2 DEF IterStep
    <3> QED
      BY <3>3
  <2> HIDE DEF S, H, n
  <2> QED
    BY <2>1, <2>2 DEF LooksAhead
<1>5. PICK f : Solves(f, 1 .. n, S, H)
  <2>1. S # {}
    BY EmptySeq
  <2> HIDE DEF S, H, n
  <2> QED
    BY <1>1, <1>4, <2>1, RecursionFromEnd
<1>6. F(f)
  <2>1. f \in [1 .. n -> S] /\ \A i \in 1 .. n : f[i] = IterStep(source, words, f, i)
    BY <1>5 DEF Solves
  <2>2. f = [i \in 1 .. n |-> f[i]]
    BY <2>1
  <2> HIDE DEF n
  <2> QED
    BY <2>1, <2>2
<1> DEFINE M == CHOOSE g : F(g)
<1>7. F(M)
  BY <1>6
<1>8. FindIter(source, words) = M[1]
  BY DEF FindIter, IterStep, WordsAt, FirstAt
<1>9. \A i \in 1 .. n : M[i] = IterStep(source, words, M, i)
  <2> HIDE DEF M
  <2> QED
    BY <1>7
<1> QED
  BY <1>8, <1>9
\* Each of found is one of the words, where it is said to be.
Sound(source, words, m) ==
  /\ m \in Span
  /\ \E k \in DOMAIN words :
       IsAt(source, m.start + 1, words[k]) /\ m.end = m.start + Len(words[k])

\* What is not found from i on is covered by what is.
Covered(source, words, i, found) ==
  \A s \in Nat : \A k \in DOMAIN words :
    s + 1 >= i /\ IsAt(source, s + 1, words[k]) =>
      \E j \in 1 .. Len(found) : found[j].start <= s /\ s < found[j].end

LEMMA FindIterFacts ==
  ASSUME NEW source \in Source, NEW words \in Seq(Word)
  PROVE  /\ FindIter(source, words) \in Seq(Span)
         /\ \A j \in 1 .. Len(FindIter(source, words)) :
              Sound(source, words, FindIter(source, words)[j])
         /\ Covered(source, words, 1, FindIter(source, words))
<1>1. /\ Len(source) \in Nat /\ Len(words) \in Nat /\ DOMAIN words = 1 .. Len(words)
      /\ \A k \in DOMAIN words : Len(words[k]) \in Nat /\ Len(words[k]) >= 1
  <2>1. Len(words) \in Nat /\ DOMAIN words = 1 .. Len(words) /\ Len(source) \in Nat
    BY LenProperties DEF Source
  <2> QED
    BY <2>1, ElementOfSeq, WordFacts
<1>2. PICK f : /\ FindIter(source, words) = f[1]
               /\ \A i \in 1 .. Len(source) + 1 : f[i] = IterStep(source, words, f, i)
  BY IterRecursion
<1> DEFINE n == Len(source) + 1
           Good(i) == /\ f[i] \in Seq(Span)
                      /\ \A j \in 1 .. Len(f[i]) : Sound(source, words, f[i][j])
                      /\ Covered(source, words, i, f[i])
           T == {i \in 1 .. n : Good(i)}
<1>3. ASSUME NEW i \in 1 .. n, \A y \in 1 .. n : y > i => y \in T
      PROVE  Good(i)
  <2>0. f[i] = IterStep(source, words, f, i) /\ i \in Nat
    BY <1>2
  <2>1. CASE i > Len(source)
    <3>1. f[i] = << >> /\ Len(f[i]) = 0
      BY <2>0, <2>1 DEF IterStep
    <3>2. ASSUME NEW s \in Nat, NEW k \in DOMAIN words, s + 1 >= i, IsAt(source, s + 1, words[k])
          PROVE  FALSE
      BY <1>1, <2>1, <3>2 DEF IsAt
    <3> QED
      BY <3>1, <3>2, EmptySeq DEF Covered
  <2>2. CASE i <= Len(source) /\ WordsAt(source, words, i) = {}
    <3>1. f[i] = f[i + 1]
      BY <1>1, <2>0, <2>2 DEF IterStep
    <3>2. i + 1 \in 1 .. n /\ i + 1 > i
      BY <1>1, <2>2
    <3>3. Good(i + 1)
      BY <1>3, <3>2
    <3>4. Covered(source, words, i, f[i])
      <4> SUFFICES ASSUME NEW s \in Nat, NEW k \in DOMAIN words,
                          s + 1 >= i, IsAt(source, s + 1, words[k])
                   PROVE  \E j \in 1 .. Len(f[i]) : f[i][j].start <= s /\ s < f[i][j].end
        BY DEF Covered
      <4>1. s + 1 # i
        BY <2>2 DEF WordsAt
      <4>2. s + 1 >= i + 1
        BY <4>1
      <4> QED
        BY <3>1, <3>3, <4>2 DEF Covered
    <3> QED
      BY <3>1, <3>3, <3>4
  <2>3. CASE i <= Len(source) /\ WordsAt(source, words, i) # {}
    <3> DEFINE word == FirstAt(source, words, i)
               next == i + Len(word)
               head == [start |-> i - 1, end |-> next - 1]
    <3>1. i \in 1 .. Len(source)
      BY <1>1, <2>3
    <3>2. /\ \E k \in DOMAIN words : word = words[k]
          /\ word \in Word /\ IsAt(source, i, word) /\ next \in i + 1 .. Len(source) + 1
      BY <2>3, <3>1, FirstAtFacts
    <3>3. Len(word) \in Nat /\ Len(word) >= 1
      BY <3>2, WordFacts
    <3>4. f[i] = <<head>> \o f[next]
      BY <1>1, <2>0, <2>3 DEF IterStep
    <3> HIDE DEF word
    <3>5. next \in 1 .. n /\ next > i /\ next - 1 \in Nat /\ i - 1 \in Nat
      BY <1>1, <3>1, <3>2
    <3>6. next - 1 = i - 1 + Len(word)
      BY <3>1, <3>3
    <3>7. Good(next)
      BY <1>3, <3>5
    <3> HIDE DEF next
    <3>8. head \in Span /\ head.start = i - 1 /\ head.end = next - 1
      BY <3>5 DEF Span
    <3>9. Sound(source, words, head)
      <4>1. head.start + 1 = i /\ head.end = head.start + Len(word)
        BY <3>1, <3>6, <3>8
      <4> HIDE DEF head
      <4> QED
        BY <3>2, <3>8, <4>1 DEF Sound
    <3> HIDE DEF head
    <3> DEFINE t == f[next]
    <3>10. t \in Seq(Span) /\ Len(t) \in Nat
      BY <3>7, LenProperties
    <3>11. /\ f[i] \in Seq(Span) /\ Len(f[i]) = Len(t) + 1 /\ f[i][1] = head
           /\ \A j \in 1 .. Len(t) : f[i][j + 1] = t[j]
           /\ \A j \in 2 .. Len(t) + 1 : f[i][j] = t[j - 1]
      <4>1. <<head>> \in Seq(Span) /\ Len(<<head>>) = 1
        BY <3>8
      <4> HIDE DEF t
      <4>2. <<head>> \o t \in Seq(Span) /\ Len(<<head>> \o t) = 1 + Len(t)
        BY <3>10, <4>1, ConcatProperties
      <4>3. \A j \in 1 .. 1 + Len(t) :
              (<<head>> \o t)[j] = IF j <= 1 THEN <<head>>[j] ELSE t[j - 1]
        BY <3>10, <4>1, ConcatProperties
      <4>4. f[i] = <<head>> \o t
        BY <3>4 DEF t
      <4>5. Len(f[i]) = Len(t) + 1 /\ f[i] \in Seq(Span) /\ f[i][1] = head
        <5>1. 1 \in 1 .. 1 + Len(t) /\ <<head>>[1] = head
          BY <3>10
        <5> HIDE DEF t
        <5> QED
          BY <3>10, <4>2, <4>3, <4>4, <5>1
      <4>6. \A j \in 1 .. Len(t) : f[i][j + 1] = t[j]
        BY <3>10, <4>3, <4>4
      <4>7. \A j \in 2 .. Len(t) + 1 : f[i][j] = t[j - 1]
        BY <3>10, <4>3, <4>4
      <4> QED
        BY <4>5, <4>6, <4>7
    <3>12. \A j \in 1 .. Len(f[i]) : Sound(source, words, f[i][j])
      <4> SUFFICES ASSUME NEW j \in 1 .. Len(f[i]) PROVE Sound(source, words, f[i][j])
        OBVIOUS
      <4>1. j = 1 \/ (j \in 2 .. Len(t) + 1 /\ j - 1 \in 1 .. Len(t))
        BY <3>10, <3>11
      <4> QED
        BY <3>7, <3>9, <3>11, <4>1
    <3>13. Covered(source, words, i, f[i])
      <4> SUFFICES ASSUME NEW s \in Nat, NEW k \in DOMAIN words,
                          s + 1 >= i, IsAt(source, s + 1, words[k])
                   PROVE  \E j \in 1 .. Len(f[i]) : f[i][j].start <= s /\ s < f[i][j].end
        BY DEF Covered
      <4>1. CASE s + 1 < next
        <5>1. head.start <= s /\ s < head.end
          BY <3>1, <3>5, <3>8, <4>1
        <5>2. 1 \in 1 .. Len(f[i])
          BY <3>10, <3>11
        <5> QED
          BY <3>11, <5>1, <5>2
      <4>2. CASE s + 1 >= next
        <5>1. PICK j \in 1 .. Len(t) : t[j].start <= s /\ s < t[j].end
          BY <3>7, <4>2 DEF Covered
        <5>2. j + 1 \in 1 .. Len(f[i]) /\ f[i][j + 1] = t[j]
          BY <3>10, <3>11
        <5> QED
          BY <5>1, <5>2
      <4> QED
        BY <3>5, <4>1, <4>2
    <3> QED
      BY <3>11, <3>12, <3>13
  <2> QED
    BY <1>1, <2>1, <2>2, <2>3
<1>4. T = 1 .. n
  <2>1. T \in SUBSET (1 .. n) /\ n \in Nat
    BY <1>1
  <2>2. \A i \in 1 .. n : (\A y \in 1 .. n : y > i => y \in T) => i \in T
    BY <1>3
  <2> HIDE DEF T, n
  <2> QED
    BY <2>1, <2>2, FromTheEnd
<1>5. Good(1)
  BY <1>1, <1>4
<1> QED
  BY <1>2, <1>5
(***************************************************************************)
(* What a matcher finds in a text.                                         *)
(***************************************************************************)
LEMMA MaxOfTwo ==
  ASSUME NEW x \in Int, NEW y \in Int
  PROVE  Max({x, y}) = IF x >= y THEN x ELSE y
<1> DEFINE m == IF x >= y THEN x ELSE y
<1>1. m \in {x, y} /\ \A z \in {x, y} : m >= z
  OBVIOUS
<1>2. \A u, v \in {x, y} : (\A z \in {x, y} : u >= z) /\ (\A z \in {x, y} : v >= z) => u = v
  OBVIOUS
<1>3. Max({x, y}) \in {x, y} /\ \A z \in {x, y} : Max({x, y}) >= z
  <2> HIDE DEF m
  <2> QED
    BY <1>1 DEF Max
<1> HIDE DEF m
<1> QED
  BY <1>1, <1>2, <1>3 DEF m

LEMMA FoundFacts ==
  ASSUME NEW source \in Source, NEW words \in Seq(Word),
         NEW m \in ToSet(FindIter(source, words))
  PROVE  /\ m \in Span
         /\ \E k \in DOMAIN words :
              IsAt(source, m.start + 1, words[k]) /\ m.end = m.start + Len(words[k])
<1>1. FindIter(source, words) \in Seq(Span)
  BY FindIterFacts
<1> DEFINE found == FindIter(source, words)
<1>2. DOMAIN found = 1 .. Len(found)
  BY <1>1
<1>3. PICK j \in 1 .. Len(found) : m = found[j]
  BY <1>2 DEF ToSet
<1> HIDE DEF found
<1>4. Sound(source, words, found[j])
  BY FindIterFacts DEF found
<1> QED
  BY <1>3, <1>4 DEF Sound

\* A raw value is found where it is, and there is no place of it that is not found or
\* overlapped.
LEMMA RawFacts ==
  ASSUME NEW raw, raw.raw \in Word, NEW source \in Source
  PROVE  /\ \A m \in RawMatches(raw, source) :
              /\ m.metadata = raw.metadata /\ m.start \in Nat /\ m.length = Len(raw.raw)
              /\ IsAt(source, m.start + 1, raw.raw)
         /\ \A s \in Nat : IsAt(source, s + 1, raw.raw) =>
              \E m \in RawMatches(raw, source) : m.start <= s /\ s < m.start + m.length
<1> DEFINE words == <<raw.raw>>
           found == FindIter(source, words)
           asMatch(m) == [metadata |-> raw.metadata, start |-> m.start,
                          length |-> m.end - m.start]
<1>1. words \in Seq(Word) /\ DOMAIN words = {1} /\ words[1] = raw.raw
  OBVIOUS
<1>2. Len(raw.raw) \in Nat /\ Len(raw.raw) >= 1
  BY WordFacts
<1>3. \A m : m \in RawMatches(raw, source) <=> \E x \in ToSet(found) : m = asMatch(x)
  BY DEF RawMatches
<1>4. ASSUME NEW x \in ToSet(found)
      PROVE  /\ x \in Span /\ x.start \in Nat /\ x.end = x.start + Len(raw.raw)
             /\ IsAt(source, x.start + 1, raw.raw)
  <2> HIDE DEF words
  <2>1. x \in Span /\ \E k \in DOMAIN words :
          IsAt(source, x.start + 1, words[k]) /\ x.end = x.start + Len(words[k])
    BY <1>1, FoundFacts
  <2> QED
    BY <1>1, <2>1 DEF Span
<1>5. ASSUME NEW m \in RawMatches(raw, source)
      PROVE  /\ m.metadata = raw.metadata /\ m.start \in Nat /\ m.length = Len(raw.raw)
             /\ IsAt(source, m.start + 1, raw.raw)
  <2>1. PICK x \in ToSet(found) : m = asMatch(x)
    BY <1>3
  <2> HIDE DEF found
  <2>2. x.end - x.start = Len(raw.raw)
    BY <1>2, <1>4
  <2> QED
    BY <1>4, <2>1, <2>2
<1>6. ASSUME NEW s \in Nat, IsAt(source, s + 1, raw.raw)
      PROVE  \E m \in RawMatches(raw, source) : m.start <= s /\ s < m.start + m.length
  <2>1. Covered(source, words, 1, found) /\ found \in Seq(Span)
    BY <1>1, FindIterFacts
  <2>2. PICK j \in 1 .. Len(found) : found[j].start <= s /\ s < found[j].end
    <3> HIDE DEF words, found
    <3>1. s + 1 >= 1
      OBVIOUS
    <3> QED
      BY <1>1, <1>6, <2>1, <3>1 DEF Covered
  <2>3. found[j] \in ToSet(found)
    BY <2>1 DEF ToSet
  <2> HIDE DEF found
  <2>4. asMatch(found[j]) \in RawMatches(raw, source)
    BY <1>3, <2>3
  <2>5. /\ found[j].start \in Nat /\ found[j].end = found[j].start + Len(raw.raw)
    BY <1>4, <2>3
  <2> QED
    BY <1>2, <2>2, <2>4, <2>5
<1> QED
  BY <1>5, <1>6

\* What a regex finds is, once it is stripped, one of its words stripped.
LEMMA StripFacts ==
  ASSUME NEW source \in Source, NEW word \in Word, NEW s \in Nat, NEW n \in Nat,
         IsAt(source, s + 1, word)
  PROVE  SubSeq(source, s + n + 1, s + n + Max({0, Len(word) - 2 * n})) = Strip(word, n)
<1> DEFINE L == Len(word)
<1>1. L \in Nat /\ L >= 1 /\ word \in Source
  BY WordFacts
<1>2. Len(source) \in Nat
  BY LenProperties DEF Source
<1>3. s + L <= Len(source) /\ SubSeq(source, s + 1, s + L) = word
  <2>1. s + 1 + L - 1 = s + L
    BY <1>1
  <2> QED
    BY <2>1 DEF IsAt
<1> HIDE DEF L
<1>4. Max({0, L - 2 * n}) = IF 0 >= L - 2 * n THEN 0 ELSE L - 2 * n
  BY <1>1, MaxOfTwo
<1>5. CASE 0 >= L - 2 * n
  <2>1. Max({0, L - 2 * n}) = 0
    BY <1>4, <1>5
  <2>2. SubSeq(source, s + n + 1, s + n + 0) = << >>
    BY SubSeqEmpty
  <2>3. SubSeq(word, n + 1, L - n) = << >>
    BY <1>1, <1>5, SubSeqEmpty
  <2> QED
    BY <2>1, <2>2, <2>3 DEF Strip, L
<1>6. CASE ~(0 >= L - 2 * n)
  <2>1. Max({0, L - 2 * n}) = L - 2 * n
    BY <1>4, <1>6
  <2> DEFINE x == s + 1
             y == s + L
             a == n + 1
             b == L - n
  <2>2. /\ x \in 1 .. Len(source) /\ y \in 1 .. Len(source)
        /\ a \in 1 .. y - x + 1 /\ b \in 1 .. y - x + 1
    BY <1>1, <1>2, <1>3, <1>6
  <2>3. x + a - 1 = s + n + 1 /\ x + b - 1 = s + n + (L - 2 * n)
    BY <1>1
  <2>4. SubSeq(SubSeq(source, x, y), a, b) = SubSeq(source, x + a - 1, x + b - 1)
    <3> HIDE DEF x, y, a, b
    <3>1. source \in Seq(Bytes)
      BY DEF Source
    <3> QED
      BY <2>2, <3>1, SubSeqOfSubSeq
  <2>5. SubSeq(source, x, y) = word
    BY <1>3
  <2> QED
    BY <2>1, <2>3, <2>4, <2>5 DEF Strip, L
<1> QED
  BY <1>5, <1>6

LEMMA RegexFacts ==
  ASSUME NEW regex, regex.regex \in Seq(Word), regex.regex_strip \in Nat,
         NEW source \in Source, NEW m \in RegexMatches(regex, source)
  PROVE  /\ m.metadata = regex.metadata /\ m.start \in Nat /\ m.length \in Nat
         /\ \E w \in ToSet(regex.regex) :
              SubSeq(source, m.start + 1, EndOf(m)) = Strip(w, regex.regex_strip)
<1> DEFINE n == regex.regex_strip
<1>1. PICK x \in ToSet(FindIter(source, regex.regex)) : m = Stripped(regex, x)
  BY DEF RegexMatches
<1>2. /\ x \in Span
      /\ \E k \in DOMAIN regex.regex :
           IsAt(source, x.start + 1, regex.regex[k]) /\ x.end = x.start + Len(regex.regex[k])
  BY FoundFacts
<1>3. PICK k \in DOMAIN regex.regex :
        IsAt(source, x.start + 1, regex.regex[k]) /\ x.end = x.start + Len(regex.regex[k])
  BY <1>2
<1> DEFINE w == regex.regex[k]
           rest_length == Max({0, Len(w) - 2 * n})
<1>4. w \in Word /\ w \in ToSet(regex.regex)
  <2>1. k \in 1 .. Len(regex.regex)
    OBVIOUS
  <2> QED
    BY <2>1, ElementOfSeq DEF ToSet
<1>5. Len(w) \in Nat /\ x.start \in Nat /\ x.end = x.start + Len(w)
  BY <1>2, <1>3, <1>4, WordFacts DEF Span
<1> HIDE DEF w
<1>6. x.end - (x.start + n + n) = Len(w) - 2 * n
  BY <1>5
<1>7. rest_length \in Nat
  BY <1>5, MaxOfTwo
<1>8. m = [metadata |-> regex.metadata, start |-> x.start + n, length |-> rest_length]
  BY <1>1, <1>6 DEF Stripped
<1> HIDE DEF rest_length
<1>9. m.metadata = regex.metadata /\ m.start = x.start + n /\ m.length = rest_length
  BY <1>8
<1>10. SubSeq(source, m.start + 1, EndOf(m)) = Strip(w, n)
  <2>1. IsAt(source, x.start + 1, w)
    BY <1>3 DEF w
  <2>2. SubSeq(source, x.start + n + 1, x.start + n + rest_length) = Strip(w, n)
    <3> HIDE DEF n
    <3> QED
      BY <1>4, <1>5, <2>1, StripFacts DEF rest_length, n
  <2> QED
    BY <1>9, <2>2 DEF EndOf
<1> QED
  BY <1>4, <1>5, <1>7, <1>9, <1>10
(***************************************************************************)
(* prepare_matches.                                                        *)
(***************************************************************************)
IsSeq(s) == s \in Seq(ToSet(s))

LEMMA JoinFacts ==
  ASSUME NEW s, IsSeq(s), NEW t, IsSeq(t)
  PROVE  IsSeq(s \o t) /\ ToSet(s \o t) = ToSet(s) \cup ToSet(t)
<1> DEFINE S == ToSet(s) \cup ToSet(t)
           m == Len(s)
           n == Len(t)
           u == s \o t
<1>1. s \in Seq(S) /\ t \in Seq(S) /\ m \in Nat /\ n \in Nat
      /\ DOMAIN s = 1 .. m /\ DOMAIN t = 1 .. n
  <2>1. s \in Seq(ToSet(s)) /\ t \in Seq(ToSet(t))
    BY DEF IsSeq
  <2>2. m \in Nat /\ n \in Nat /\ DOMAIN s = 1 .. m /\ DOMAIN t = 1 .. n
    BY <2>1, LenProperties
  <2>3. (\A k \in 1 .. m : s[k] \in ToSet(s)) /\ (\A k \in 1 .. n : t[k] \in ToSet(t))
    BY <2>2 DEF ToSet
  <2> HIDE DEF m, n
  <2>4. s \in [1 .. m -> S] /\ t \in [1 .. n -> S]
    <3>1. s = [k \in 1 .. m |-> s[k]] /\ t = [k \in 1 .. n |-> t[k]]
      BY <2>1, <2>2
    <3> QED
      BY <2>2, <2>3, <3>1
  <2> HIDE DEF S
  <2> QED
    BY <2>2, <2>4, SeqOfFunction
<1> HIDE DEF S
<1>2. /\ u \in Seq(S) /\ Len(u) = m + n
      /\ \A k \in 1 .. m + n : u[k] = IF k <= m THEN s[k] ELSE t[k - m]
  BY <1>1, ConcatProperties
<1> HIDE DEF u, m, n
<1>3. DOMAIN u = 1 .. m + n
  BY <1>1, <1>2, LenProperties
<1>4. ASSUME NEW x \in ToSet(u) PROVE x \in S
  BY <1>2, <1>3, <1>4, ElementOfSeq DEF ToSet
<1>5. ASSUME NEW k \in 1 .. m PROVE s[k] \in ToSet(u)
  <2>1. k \in 1 .. m + n /\ u[k] = s[k]
    BY <1>1, <1>2
  <2> QED
    BY <1>3, <2>1 DEF ToSet
<1>6. ASSUME NEW k \in 1 .. n PROVE t[k] \in ToSet(u)
  <2>1. m + k \in 1 .. m + n /\ ~(m + k <= m) /\ (m + k) - m = k
    BY <1>1
  <2>2. u[m + k] = t[k]
    BY <1>2, <2>1
  <2> QED
    BY <1>3, <2>1, <2>2 DEF ToSet
<1>7. ToSet(u) = S
  BY <1>1, <1>4, <1>5, <1>6 DEF S, ToSet
<1> QED
  BY <1>2, <1>7 DEF IsSeq, S, u

\* A sequence, element by element.
LEMMA EachFacts ==
  ASSUME NEW S, NEW s \in Seq(S), NEW t, DOMAIN t = DOMAIN s,
         t = [k \in DOMAIN s |-> t[k]]
  PROVE  IsSeq(t)
<1>1. Len(s) \in Nat /\ DOMAIN s = 1 .. Len(s)
  BY LenProperties
<1>2. t \in [1 .. Len(s) -> ToSet(t)]
  BY <1>1 DEF ToSet
<1> QED
  BY <1>1, <1>2, SeqOfFunction DEF IsSeq

\* What a matcher's state has labels of.
Labels(state) == {r.metadata : r \in ToSet(state.raws) \cup ToSet(state.regexes)}

IsState(state) ==
  /\ state = [correlation_index |-> state.correlation_index,
              raws |-> state.raws, regexes |-> state.regexes]
  /\ state.correlation_index \in Nat
  /\ IsSeq(state.raws) /\ IsSeq(state.regexes)

RawOf(metadata, word) == [metadata |-> metadata, raw |-> word]
RegexOf(metadata, words, n, ignore) ==
  [metadata |-> metadata, regex |-> words, regex_strip |-> n, ignore |-> ignore]

\* The matchers of a group.
RawsOf(metadata, group) == {RawOf(metadata, w) : w \in ToSet(group.raw)}
RegexesOf(metadata, group, extra) ==
  {RegexOf(metadata, ws, group.regex_strip, extra \cup group.ignore) :
     ws \in ToSet(group.regexes)}

LEMMA GroupFacts ==
  ASSUME NEW state, IsState(state), NEW group, IsGroup(group), NEW metadata, NEW extra,
         NEW new, new = PrepareMatchGroup(state, group, metadata, extra)
  PROVE  /\ IsState(new) /\ new.correlation_index = state.correlation_index
         /\ ToSet(new.raws) = ToSet(state.raws) \cup RawsOf(metadata, group)
         /\ ToSet(new.regexes) = ToSet(state.regexes) \cup RegexesOf(metadata, group, extra)
<1> DEFINE more_raws == [k \in DOMAIN group.raw |-> RawOf(metadata, group.raw[k])]
           more_regexes == [k \in DOMAIN group.regexes |->
             RegexOf(metadata, group.regexes[k], group.regex_strip, extra \cup group.ignore)]
           raws == state.raws \o more_raws
           regexes == state.regexes \o more_regexes
<1>1. IsSeq(more_raws) /\ IsSeq(more_regexes)
  <2>1. group.raw \in Seq(Word) /\ group.regexes \in Seq(Seq(Word))
    BY DEF IsGroup
  <2> QED
    BY <2>1, EachFacts
<1>2. /\ ToSet(more_raws) = RawsOf(metadata, group)
      /\ ToSet(more_regexes) = RegexesOf(metadata, group, extra)
  BY DEF ToSet, RawsOf, RegexesOf
<1>3. new = [state EXCEPT !.raws = raws, !.regexes = regexes]
  BY DEF PrepareMatchGroup, RawOf, RegexOf
<1> HIDE DEF more_raws, more_regexes
<1>4. /\ IsSeq(raws) /\ ToSet(raws) = ToSet(state.raws) \cup ToSet(more_raws)
      /\ IsSeq(regexes) /\ ToSet(regexes) = ToSet(state.regexes) \cup ToSet(more_regexes)
  BY <1>1, JoinFacts DEF IsState
<1> HIDE DEF raws, regexes
<1>5. new = [correlation_index |-> state.correlation_index, raws |-> raws, regexes |-> regexes]
  BY <1>3 DEF IsState
<1>6. new.correlation_index = state.correlation_index /\ new.raws = raws /\ new.regexes = regexes
  BY <1>5
<1> QED
  BY <1>2, <1>4, <1>5, <1>6 DEF IsState
\* A category that is prepared for c.
Wanted(c, name) ==
  /\ name \in DOMAIN output /\ name \in DOMAIN Categories
  /\ c \in UsedContexts(output[name].category_config)

\* The group that a label is of.
GroupOf(metadata) ==
  LET category == Categories[metadata.category_name]
  IN IF category.kind = "matchers" THEN category.group
     ELSE IF metadata.correlation.is_second THEN MatchGroup(category.group2)
     ELSE MatchGroup(category.group1)

\* Only the matchers of a Correlate category have an index, and it was given out.
Labelled(c, metadata, index) ==
  /\ Wanted(c, metadata.category_name)
  /\ LET category == Categories[metadata.category_name]
     IN \/ category.kind = "matchers" /\ metadata.correlation = NoCorrelation
        \/ /\ category.kind = "correlate"
           /\ metadata.correlation.correlation_index \in 1 .. index
           /\ metadata.correlation.is_second \in BOOLEAN

IndexOf(metadata) == metadata.correlation.correlation_index

\* An index is of one category.
OneEach(labels) ==
  \A x, y \in labels :
    IndexOf(x) # 0 /\ IndexOf(x) = IndexOf(y) => x.category_name = y.category_name

RawIsOf(r) == r.raw \in ToSet(GroupOf(r.metadata).raw)
RegexIsOf(r) ==
  /\ r.regex \in ToSet(GroupOf(r.metadata).regexes)
  /\ r.regex_strip = GroupOf(r.metadata).regex_strip

StateOK(c, state) ==
  /\ IsState(state)
  /\ \A x \in Labels(state) : Labelled(c, x, state.correlation_index)
  /\ OneEach(Labels(state))
  /\ \A r \in ToSet(state.raws) : RawIsOf(r)
  /\ \A r \in ToSet(state.regexes) : RegexIsOf(r)

LEMMA EmptyState ==
  /\ IsState(NoMatchers) /\ Labels(NoMatchers) = {}
  /\ ToSet(NoMatchers.raws) = {} /\ ToSet(NoMatchers.regexes) = {}
<1>1. ToSet(NoMatchers.raws) = {} /\ ToSet(NoMatchers.regexes) = {}
  BY DEF NoMatchers, ToSet
<1>2. Labels(NoMatchers) = {}
  BY <1>1 DEF Labels
<1>3. IsState(NoMatchers)
  <2>1. << >> \in Seq(ToSet(<< >>))
    BY EmptySeq
  <2> QED
    BY <2>1 DEF IsState, IsSeq, NoMatchers
<1> QED
  BY <1>1, <1>2, <1>3

LEMMA AddGroup ==
  ASSUME NEW c, NEW state, StateOK(c, state),
         NEW group, IsGroup(group), NEW metadata, NEW extra,
         Labelled(c, metadata, state.correlation_index), GroupOf(metadata) = group,
         OneEach(Labels(state) \cup {metadata}),
         NEW new, new = PrepareMatchGroup(state, group, metadata, extra)
  PROVE  /\ StateOK(c, new) /\ new.correlation_index = state.correlation_index
         /\ Labels(new) \subseteq Labels(state) \cup {metadata}
         /\ ToSet(new.raws) = ToSet(state.raws) \cup RawsOf(metadata, group)
<1>1. /\ IsState(new) /\ new.correlation_index = state.correlation_index
      /\ ToSet(new.raws) = ToSet(state.raws) \cup RawsOf(metadata, group)
      /\ ToSet(new.regexes) = ToSet(state.regexes) \cup RegexesOf(metadata, group, extra)
  <2>1. IsState(state)
    BY DEF StateOK
  <2> QED
    BY <2>1, GroupFacts
<1>2. \A r \in RawsOf(metadata, group) :
        r.metadata = metadata /\ r.raw \in ToSet(group.raw)
  BY DEF RawOf, RawsOf
<1>3. \A r \in RegexesOf(metadata, group, extra) :
        /\ r.metadata = metadata /\ r.regex \in ToSet(group.regexes)
        /\ r.regex_strip = group.regex_strip
  BY DEF RegexOf, RegexesOf
<1>4. Labels(new) \subseteq Labels(state) \cup {metadata}
  <2> SUFFICES ASSUME NEW r \in ToSet(new.raws) \cup ToSet(new.regexes)
               PROVE  r.metadata \in Labels(state) \cup {metadata}
    BY DEF Labels
  <2> QED
    BY <1>1, <1>2, <1>3 DEF Labels
<1>5. ASSUME NEW r \in ToSet(new.raws) PROVE RawIsOf(r)
  <2>1. CASE r \in ToSet(state.raws)
    BY <2>1 DEF StateOK
  <2>2. CASE r \notin ToSet(state.raws)
    <3>1. r \in RawsOf(metadata, group)
      BY <1>1, <1>5, <2>2
    <3> QED
      BY <1>2, <3>1 DEF RawIsOf
  <2> QED
    BY <2>1, <2>2
<1>6. ASSUME NEW r \in ToSet(new.regexes) PROVE RegexIsOf(r)
  <2>1. CASE r \in ToSet(state.regexes)
    BY <2>1 DEF StateOK
  <2>2. CASE r \notin ToSet(state.regexes)
    <3>1. r \in RegexesOf(metadata, group, extra)
      BY <1>1, <1>6, <2>2
    <3> QED
      BY <1>3, <3>1 DEF RegexIsOf
  <2> QED
    BY <2>1, <2>2
<1>7. /\ \A x \in Labels(new) : Labelled(c, x, new.correlation_index)
      /\ OneEach(Labels(new))
  BY <1>1, <1>4 DEF StateOK, OneEach
<1> QED
  BY <1>1, <1>4, <1>5, <1>6, <1>7 DEF StateOK

LEMMA CategoryFacts ==
  ASSUME NEW name \in DOMAIN Categories
  PROVE  LET category == Categories[name]
         IN \/ category.kind = "matchers" /\ IsGroup(category.group)
            \/ /\ category.kind = "correlate"
               /\ IsGroup(MatchGroup(category.group1))
               /\ IsGroup(MatchGroup(category.group2))
               /\ category.interest \in {"group1", "group2", "all"}
            \/ category.kind = "rematch"
BY CategoriesAssumption

\* A category that is prepared adds its own matchers; those of a Correlate category have
\* an index that no other has.
LEMMA PrepareFacts ==
  ASSUME NEW c, NEW state, StateOK(c, state), NEW name \in DOMAIN output,
         c \in UsedContexts(output[name].category_config), NEW extra,
         NEW new, new = PrepareMatches(state, name, Metadata(name), extra)
  PROVE  /\ StateOK(c, new) /\ ToSet(state.raws) \subseteq ToSet(new.raws)
         /\ name \in DOMAIN Categories /\ Categories[name].kind = "matchers" =>
              \A w \in ToSet(Categories[name].group.raw) :
                RawOf(Metadata(name), w) \in ToSet(new.raws)
<1> DEFINE category == Categories[name]
           metadata == Metadata(name)
<1>1. metadata.category_name = name /\ metadata.correlation = NoCorrelation
  BY DEF Metadata
<1>2. CASE name \notin DOMAIN Categories
  <2>1. new = state
    BY <1>2 DEF PrepareMatches
  <2> QED
    BY <1>2, <2>1
<1>3. CASE name \in DOMAIN Categories /\ category.kind = "rematch"
  <2>1. new = state
    BY <1>3 DEF PrepareMatches
  <2> QED
    BY <1>3, <2>1
<1>4. CASE name \in DOMAIN Categories /\ category.kind = "matchers"
  <2>1. new = PrepareMatchGroup(state, category.group, metadata, extra)
    BY <1>4 DEF PrepareMatches
  <2>2. IsGroup(category.group)
    BY <1>4, CategoryFacts
  <2> HIDE DEF metadata
  <2> DEFINE group == category.group
  <2>3. Labelled(c, metadata, state.correlation_index) /\ GroupOf(metadata) = group
    BY <1>1, <1>4 DEF Labelled, GroupOf, Wanted
  <2>4. OneEach(Labels(state) \cup {metadata})
    <3>1. IndexOf(metadata) = 0
      BY <1>1 DEF IndexOf, NoCorrelation
    <3> QED
      BY <3>1 DEF OneEach, StateOK
  <2>5. /\ StateOK(c, new)
        /\ ToSet(new.raws) = ToSet(state.raws) \cup RawsOf(metadata, group)
    <3> HIDE DEF group
    <3>1. new = PrepareMatchGroup(state, group, metadata, extra) /\ IsGroup(group)
      BY <2>1, <2>2 DEF group
    <3> QED
      BY <2>3, <2>4, <3>1, AddGroup
  <2>6. \A w \in ToSet(group.raw) : RawOf(metadata, w) \in ToSet(new.raws)
    BY <2>5 DEF RawsOf
  <2> QED
    BY <2>5, <2>6 DEF metadata
<1>5. CASE name \in DOMAIN Categories /\ category.kind = "correlate"
  <2> DEFINE index == state.correlation_index + 1
             half(second) == [metadata EXCEPT !.correlation.correlation_index = index,
                                              !.correlation.is_second = second]
             group_one == MatchGroup(category.group1)
             group_two == MatchGroup(category.group2)
             state1 == [state EXCEPT !.correlation_index = index]
             state2 == PrepareMatchGroup(state1, group_one, half(FALSE), extra)
  <2>1. new = PrepareMatchGroup(state2, group_two, half(TRUE), extra)
    BY <1>5 DEF PrepareMatches, PrepareCorrelate, NextIndex
  <2>2. IsGroup(group_one) /\ IsGroup(group_two)
    BY <1>5, CategoryFacts
  <2>3. \A second : /\ half(second).category_name = name
                    /\ half(second).correlation.correlation_index = index
                    /\ half(second).correlation.is_second = second
    BY DEF Metadata, NoCorrelation
  <2>4. /\ state.correlation_index \in Nat /\ IsState(state)
        /\ index \in Nat /\ index >= 1 /\ index > state.correlation_index
    BY DEF StateOK, IsState
  <2>5. /\ state1 = [correlation_index |-> index, raws |-> state.raws,
                     regexes |-> state.regexes]
        /\ state1.correlation_index = index /\ state1.raws = state.raws
        /\ state1.regexes = state.regexes
    BY <2>4 DEF IsState
  <2> HIDE DEF state1, half, index
  <2>6. Labels(state1) = Labels(state)
    BY <2>5 DEF Labels
  <2>7. StateOK(c, state1)
    <3>1. IsState(state1)
      BY <2>4, <2>5 DEF IsState
    <3>2. \A x : Labelled(c, x, state.correlation_index) => Labelled(c, x, index)
      <4>1. \A k \in 1 .. state.correlation_index : k \in 1 .. index
        BY <2>4
      <4> QED
        BY <4>1 DEF Labelled
    <3> QED
      BY <2>5, <2>6, <3>1, <3>2 DEF StateOK
  <2>8. \A x \in Labels(state) : IndexOf(x) # index
    <3>1. \A x \in Labels(state) : Labelled(c, x, state.correlation_index)
      BY DEF StateOK
    <3> SUFFICES ASSUME NEW x \in Labels(state) PROVE IndexOf(x) # index
      OBVIOUS
    <3>2. IndexOf(x) \in 0 .. state.correlation_index
      BY <2>4, <3>1 DEF Labelled, IndexOf, NoCorrelation
    <3> QED
      BY <2>4, <3>2
  <2>9. ASSUME NEW second \in BOOLEAN
        PROVE  /\ Labelled(c, half(second), index)
               /\ IndexOf(half(second)) = index
               /\ GroupOf(half(second)) = IF second THEN group_two ELSE group_one
    <3>1. index \in 1 .. index
      BY <2>4
    <3>2. /\ half(second).category_name = name
          /\ half(second).correlation.correlation_index = index
          /\ half(second).correlation.is_second = second
      BY <2>3
    <3>3. Wanted(c, name) /\ category.kind # "matchers"
      BY <1>5 DEF Wanted
    <3>4. Labelled(c, half(second), index) /\ IndexOf(half(second)) = index
      BY <1>5, <3>1, <3>2, <3>3 DEF Labelled, IndexOf
    <3> QED
      BY <3>2, <3>3, <3>4 DEF GroupOf
  <2> HIDE DEF group_one, group_two
  <2>10. OneEach(Labels(state1) \cup {half(FALSE)})
    <3> SUFFICES ASSUME NEW x \in Labels(state) \cup {half(FALSE)},
                        NEW y \in Labels(state) \cup {half(FALSE)},
                        IndexOf(x) # 0, IndexOf(x) = IndexOf(y)
                 PROVE  x.category_name = y.category_name
      BY <2>6 DEF OneEach
    <3>1. IndexOf(half(FALSE)) = index
      BY <2>9
    <3> QED
      BY <2>8, <3>1 DEF StateOK, OneEach
  <2>11. /\ StateOK(c, state2) /\ state2.correlation_index = index
         /\ Labels(state2) \subseteq Labels(state) \cup {half(FALSE)}
         /\ ToSet(state.raws) \subseteq ToSet(state2.raws)
    <3>1. Labelled(c, half(FALSE), state1.correlation_index) /\ GroupOf(half(FALSE)) = group_one
      BY <2>5, <2>9
    <3> DEFINE metadata1 == half(FALSE)
    <3> HIDE DEF metadata1
    <3>2. /\ StateOK(c, state2) /\ state2.correlation_index = state1.correlation_index
          /\ Labels(state2) \subseteq Labels(state1) \cup {metadata1}
          /\ ToSet(state2.raws) = ToSet(state1.raws) \cup RawsOf(metadata1, group_one)
      <4>1. state2 = PrepareMatchGroup(state1, group_one, metadata1, extra)
        BY DEF metadata1
      <4>2. /\ Labelled(c, metadata1, state1.correlation_index) /\ GroupOf(metadata1) = group_one
            /\ OneEach(Labels(state1) \cup {metadata1})
        BY <2>10, <3>1 DEF metadata1
      <4> HIDE DEF state2
      <4> QED
        BY <2>2, <2>7, <4>1, <4>2, AddGroup
    <3> HIDE DEF state2
    <3> QED
      BY <2>5, <2>6, <3>2 DEF metadata1
  <2> HIDE DEF state2
  <2>12. OneEach(Labels(state2) \cup {half(TRUE)})
    <3> SUFFICES ASSUME NEW x \in Labels(state) \cup {half(FALSE), half(TRUE)},
                        NEW y \in Labels(state) \cup {half(FALSE), half(TRUE)},
                        IndexOf(x) # 0, IndexOf(x) = IndexOf(y)
                 PROVE  x.category_name = y.category_name
      BY <2>11 DEF OneEach
    <3>1. \A z \in {half(FALSE), half(TRUE)} : IndexOf(z) = index /\ z.category_name = name
      BY <2>3, <2>9
    <3> QED
      BY <2>8, <3>1 DEF StateOK, OneEach
  <2>13. StateOK(c, new) /\ ToSet(state2.raws) \subseteq ToSet(new.raws)
    <3> DEFINE metadata2 == half(TRUE)
    <3>1. /\ Labelled(c, metadata2, state2.correlation_index) /\ GroupOf(metadata2) = group_two
          /\ OneEach(Labels(state2) \cup {metadata2})
          /\ new = PrepareMatchGroup(state2, group_two, metadata2, extra)
      BY <2>1, <2>9, <2>11, <2>12
    <3> HIDE DEF metadata2
    <3>2. /\ StateOK(c, new)
          /\ ToSet(new.raws) = ToSet(state2.raws) \cup RawsOf(metadata2, group_two)
      BY <2>2, <2>11, <3>1, AddGroup
    <3> QED
      BY <3>2
  <2> QED
    BY <1>5, <2>11, <2>13
<1>6. name \in DOMAIN Categories => category.kind \in {"matchers", "correlate", "rematch"}
  BY CategoryFacts
<1> QED
  BY <1>2, <1>3, <1>4, <1>5, <1>6
(***************************************************************************)
(* evaluate, with the matchers of a context.                               *)
(***************************************************************************)
LEMMA ElementFacts ==
  ASSUME NEW S, NEW s \in Seq(S), NEW x \in ToSet(s)
  PROVE  x \in S /\ \E k \in DOMAIN s : x = s[k]
<1>1. PICK k \in DOMAIN s : x = s[k]
  BY DEF ToSet
<1>2. k \in 1 .. Len(s)
  OBVIOUS
<1> QED
  BY <1>1, <1>2, ElementOfSeq

LEMMA LabelFacts ==
  ASSUME NEW c, NEW state, StateOK(c, state), NEW x \in Labels(state)
  PROVE  Labelled(c, x, state.correlation_index) /\ IsGroup(GroupOf(x))
<1>1. Labelled(c, x, state.correlation_index)
  BY DEF StateOK
<1>2. x.category_name \in DOMAIN Categories
  BY <1>1 DEF Labelled, Wanted
<1> QED
  BY <1>1, <1>2, CategoryFacts DEF Labelled, GroupOf

LEMMA MatchFacts ==
  ASSUME NEW c, NEW state, StateOK(c, state), NEW source \in Source,
         NEW m \in Evaluate(state, source)
  PROVE  /\ m.metadata \in Labels(state) /\ m.start \in Nat /\ m.length \in Nat
         /\ SubSeq(source, m.start + 1, EndOf(m)) \in Words(GroupOf(m.metadata))
<1>1. CASE \E raw \in ToSet(state.raws) : m \in RawMatches(raw, source)
  <2>1. PICK raw \in ToSet(state.raws) : m \in RawMatches(raw, source)
    BY <1>1
  <2> DEFINE group == GroupOf(raw.metadata)
  <2>2. raw.metadata \in Labels(state)
    BY DEF Labels
  <2>3. IsGroup(group) /\ raw.raw \in ToSet(group.raw)
    BY <2>2, LabelFacts DEF StateOK, RawIsOf
  <2> HIDE DEF group
  <2>4. raw.raw \in Word
    BY <2>3, ElementFacts DEF IsGroup
  <2>5. /\ m.metadata = raw.metadata /\ m.start \in Nat /\ m.length = Len(raw.raw)
        /\ IsAt(source, m.start + 1, raw.raw)
    BY <2>1, <2>4, RawFacts
  <2>6. Len(raw.raw) \in Nat
    BY <2>4, WordFacts
  <2>7. SubSeq(source, m.start + 1, EndOf(m)) = raw.raw
    <3>1. m.start + 1 + Len(raw.raw) - 1 = m.start + Len(raw.raw)
      BY <2>5, <2>6
    <3> QED
      BY <2>5, <3>1 DEF IsAt, EndOf
  <2> QED
    BY <2>2, <2>3, <2>5, <2>6, <2>7 DEF Words, group
<1>2. CASE \E regex \in ToSet(state.regexes) : m \in RegexMatches(regex, source)
  <2>1. PICK regex \in ToSet(state.regexes) : m \in RegexMatches(regex, source)
    BY <1>2
  <2> DEFINE group == GroupOf(regex.metadata)
  <2>2. regex.metadata \in Labels(state)
    BY DEF Labels
  <2>3. /\ IsGroup(group) /\ regex.regex \in ToSet(group.regexes)
        /\ regex.regex_strip = group.regex_strip
    BY <2>2, LabelFacts DEF StateOK, RegexIsOf
  <2> HIDE DEF group
  <2>4. /\ regex.regex \in Seq(Word) /\ regex.regex_strip \in Nat
        /\ \E k \in DOMAIN group.regexes : regex.regex = group.regexes[k]
    BY <2>3, ElementFacts DEF IsGroup
  <2>5. /\ m.metadata = regex.metadata /\ m.start \in Nat /\ m.length \in Nat
        /\ \E w \in ToSet(regex.regex) :
             SubSeq(source, m.start + 1, EndOf(m)) = Strip(w, regex.regex_strip)
    BY <2>1, <2>4, RegexFacts
  <2>6. SubSeq(source, m.start + 1, EndOf(m)) \in Words(group)
    <3>1. PICK w \in ToSet(regex.regex) :
            SubSeq(source, m.start + 1, EndOf(m)) = Strip(w, group.regex_strip)
      BY <2>3, <2>5
    <3>2. PICK k \in DOMAIN group.regexes : regex.regex = group.regexes[k]
      BY <2>4
    <3>3. Strip(w, group.regex_strip)
            \in {Strip(v, group.regex_strip) : v \in ToSet(group.regexes[k])}
      BY <3>1, <3>2
    <3> QED
      BY <3>1, <3>3 DEF Words
  <2> QED
    BY <2>2, <2>5, <2>6 DEF group
<1>3. \/ \E raw \in ToSet(state.raws) : m \in RawMatches(raw, source)
      \/ \E regex \in ToSet(state.regexes) : m \in RegexMatches(regex, source)
  <2> DEFINE R == {RawMatches(raw, source) : raw \in ToSet(state.raws)}
             X == {RegexMatches(regex, source) : regex \in ToSet(state.regexes)}
  <2>1. m \in UNION R \/ m \in UNION X
    BY DEF Evaluate
  <2>2. m \in UNION R => \E raw \in ToSet(state.raws) : m \in RawMatches(raw, source)
    OBVIOUS
  <2>3. m \in UNION X => \E regex \in ToSet(state.regexes) : m \in RegexMatches(regex, source)
    OBVIOUS
  <2> HIDE DEF R, X
  <2> QED
    BY <2>1, <2>2, <2>3
<1> QED
  BY <1>1, <1>2, <1>3

(***************************************************************************)
(* The invariant.                                                          *)
(***************************************************************************)
\* What OnlyConfigured says of one report.
Configured(m) ==
  LET name == m.category_name
      groups == Groups(Categories[name])
      from == endpoints[output[name].endpoint]
  IN /\ name \in DOMAIN from.config
     /\ Wants(from.config[name], response.texts[m.text].context)
     /\ \E k \in DOMAIN from.matches : Denotes(from.matches[k], components)
     /\ Len(m.parts) = Len(groups)
     /\ \A k \in DOMAIN groups : m.parts[k] \in Words(groups[k])

\* A partial hash is of a number of bits that LowEntropyHash takes.
Hashed(m) ==
  m.style.style = "partial_sha256" =>
    /\ Hashable(m.style.report_bits)
    /\ m.matched_value.text = << >>
    /\ m.matched_value.shown = Fmt(m.style.report_bits).shown

\* Each category that was visited has its raw values in the states of its contexts.
RawsThere ==
  \A name \in DOMAIN output \ unprepared : \A c \in Contexts :
    Wanted(c, name) /\ Categories[name].kind = "matchers" =>
      \A w \in ToSet(Categories[name].group.raw) :
        RawOf(Metadata(name), w) \in ToSet(states[c].raws)

\* Whether the word is reported from a place of it that was not seen before, or is one
\* that was, with the place s overlapped by it.
Accounted(reports, t, k, c, word, s) ==
  \E first \in Occurrences(t, word) :
    /\ first <= s /\ s < first + Len(word)
    /\ \/ Seen(t, word, first)
       \/ \E m \in reports :
            /\ m.category_name = c /\ m.text = k /\ m.parts = <<word>>
            /\ m.global_start_position = first + t.offset

\* What EachWordReported says of one text, while the matches of keys are kept apart.
WordsReported(k) ==
  \A c \in DOMAIN output \cap DOMAIN Categories :
    LET t == response.texts[k]
    IN Categories[c].kind = "matchers" /\ Wants(output[c].category_config, t.context) =>
         \A word \in Sought(c) : \A s \in Occurrences(t, word) :
           Accounted(matches \cup key_matches, t, k, c, word, s)

TaskTypes ==
  /\ WellFormed(response)
  /\ states = [c \in Contexts |-> states[c]]
  /\ unprepared \subseteq DOMAIN output
  /\ text \in Nat /\ text >= 1
  /\ phase \in {"path", "task", "done", "panicked"}

Unstarted ==
  /\ states = [c \in Contexts |-> NoMatchers]
  /\ text = 1 /\ unprepared = {} /\ matches = {} /\ key_matches = {}

TaskInv ==
  /\ PolicyInv
  /\ TaskTypes
  /\ phase = "path" => Unstarted
  /\ phase # "path" => RawsThere /\ response.content_type \in {"html", "json"}
  /\ \A c \in Contexts : StateOK(c, states[c])
  /\ \A m \in matches \cup key_matches : Configured(m) /\ Hashed(m)
  /\ \A k \in 1 .. text - 1 : k <= Len(response.texts) => WordsReported(k)
  /\ phase = "done" => text > Len(response.texts) /\ key_matches \subseteq matches

\* What the actions after get_path_config leave as it is.
LEMMA KeptFacts ==
  ASSUME UNCHANGED <<vars, response>>
  PROVE  /\ \A c, x : StateOK(c, x)' <=> StateOK(c, x)
         /\ \A c, name : Wanted(c, name)' <=> Wanted(c, name)
         /\ \A name : Metadata(name)' = Metadata(name)
         /\ \A m : Configured(m)' <=> Configured(m)
         /\ \A k : matches \cup key_matches \subseteq matches' \cup key_matches' =>
              (WordsReported(k) => WordsReported(k)')
         /\ PolicyInv => PolicyInv'
<1>1. /\ endpoints' = endpoints /\ components' = components /\ output' = output
      /\ response' = response
  BY DEF vars
<1>2. \A c, name : Wanted(c, name)' <=> Wanted(c, name)
  BY <1>1 DEF Wanted, UsedContexts
<1>3. \A c, x : StateOK(c, x)' <=> StateOK(c, x)
  BY <1>2 DEF StateOK, Labelled
<1>4. \A name : Metadata(name)' = Metadata(name)
  BY <1>1 DEF Metadata
<1>5. \A config, c : Wants(config, c)' <=> Wants(config, c)
  BY <1>1 DEF Wants
<1>6. \A m : Configured(m)' <=> Configured(m)
  BY <1>1, <1>5 DEF Configured
<1>7. ASSUME NEW k, matches \cup key_matches \subseteq matches' \cup key_matches', WordsReported(k)
      PROVE  WordsReported(k)'
  <2>1. \A c : Sought(c)' = Sought(c)
    BY <1>1 DEF Sought
  <2>2. \A t, c, word, s : Accounted(matches \cup key_matches, t, k, c, word, s) =>
          Accounted(matches' \cup key_matches', t, k, c, word, s)
    BY <1>7 DEF Accounted
  <2> QED
    BY <1>1, <1>5, <1>7, <2>1, <2>2 DEF WordsReported
<1>8. PolicyInv => PolicyInv'
  BY StepPolicy
<1> QED
  BY <1>2, <1>3, <1>4, <1>6, <1>7, <1>8

\* The categories that are prepared for a text are those that are wanted for it.
LEMMA WantsFacts ==
  ASSUME WellFormed(response), response.content_type \in {"html", "json"},
         NEW k \in 1 .. Len(response.texts)
  PROVE  LET t == response.texts[k]
         IN /\ t.context \in Contexts /\ t.bytes \in Source
            /\ t.offset \in Nat /\ t.minimum_end_index \in Nat
            /\ \A config : t.context \in UsedContexts(config) <=> Wants(config, t.context)
<1> DEFINE t == response.texts[k]
<1>1. t \in [context : IF response.content_type = "html" THEN {"html"} ELSE {"keys", "values"},
             bytes : Seq(Bytes), offset : Nat, minimum_end_index : Nat]
  BY ElementOfSeq DEF WellFormed
<1> HIDE DEF t
<1>2. /\ t.bytes \in Source /\ t.offset \in Nat /\ t.minimum_end_index \in Nat
      /\ t.context \in IF response.content_type = "html" THEN {"html"} ELSE {"keys", "values"}
  BY <1>1 DEF Source
<1>3. ASSUME NEW config
      PROVE  t.context \in UsedContexts(config) <=> Wants(config, t.context)
  <2>1. ActionOf(config) = "ignore" <=> config.action = "ignore"
    BY DEF ActionOf
  <2>2. CASE response.content_type = "html"
    <3>1. t.context = "html"
      BY <1>2, <2>2
    <3> QED
      BY <2>1, <2>2, <3>1 DEF UsedContexts, Wants, Admits
  <2>3. CASE response.content_type # "html"
    <3>1. t.context \in {"keys", "values"}
      BY <1>2, <2>3
    <3> QED
      BY <2>1, <2>3, <3>1 DEF UsedContexts, Wants, Admits
  <2> QED
    BY <2>2, <2>3
<1> QED
  BY <1>2, <1>3 DEF t, Contexts

(***************************************************************************)
(* do_matching.                                                            *)
(***************************************************************************)
\* What the text t of the context c has that is new.
Found(t) == {m \in Evaluate(states[t.context], t.bytes) : IsNew(t, m)}

\* What is known when a text is evaluated.
Evaluating(t) ==
  /\ TaskInv /\ phase = "task" /\ unprepared = {}
  /\ text <= Len(response.texts) /\ t = response.texts[text]

LEMMA TextFacts ==
  ASSUME NEW t, Evaluating(t)
  PROVE  /\ text \in 1 .. Len(response.texts) /\ Len(response.texts) \in Nat
         /\ t.context \in Contexts /\ t.bytes \in Source
         /\ t.offset \in Nat /\ t.minimum_end_index \in Nat
         /\ StateOK(t.context, states[t.context])
         /\ \A config : t.context \in UsedContexts(config) <=> Wants(config, t.context)
<1>1. Len(response.texts) \in Nat
  BY LenProperties DEF Evaluating, TaskInv, TaskTypes, WellFormed
<1>2. text \in 1 .. Len(response.texts)
  BY <1>1 DEF Evaluating, TaskInv, TaskTypes
<1>3. WellFormed(response) /\ response.content_type \in {"html", "json"}
  BY DEF Evaluating, TaskInv, TaskTypes
<1>4. t = response.texts[text]
  BY DEF Evaluating
<1>5. /\ t.context \in Contexts /\ t.bytes \in Source
      /\ t.offset \in Nat /\ t.minimum_end_index \in Nat
      /\ \A config : t.context \in UsedContexts(config) <=> Wants(config, t.context)
  BY <1>2, <1>3, <1>4, WantsFacts
<1> QED
  BY <1>1, <1>2, <1>5 DEF Evaluating, TaskInv

\* A match is of a category that an endpoint for this path wants in this text.
LEMMA SourceFacts ==
  ASSUME NEW t, Evaluating(t), NEW m \in Found(t)
  PROVE  LET name == m.metadata.category_name
             e == output[name].endpoint
         IN /\ m.metadata \in Labels(states[t.context])
            /\ Labelled(t.context, m.metadata, states[t.context].correlation_index)
            /\ Part(t, m) \in Words(GroupOf(m.metadata))
            /\ name \in DOMAIN endpoints[e].config
            /\ Wants(endpoints[e].config[name], t.context)
            /\ \E k \in DOMAIN endpoints[e].matches :
                 Denotes(endpoints[e].matches[k], components)
<1> DEFINE c == t.context
           name == m.metadata.category_name
           e == output[name].endpoint
<1>1. /\ StateOK(c, states[c]) /\ t.bytes \in Source
      /\ \A config : c \in UsedContexts(config) <=> Wants(config, c)
  BY TextFacts
<1>2. m \in Evaluate(states[c], t.bytes)
  BY DEF Found
<1> HIDE DEF c
<1>3. /\ m.metadata \in Labels(states[c])
      /\ SubSeq(t.bytes, m.start + 1, EndOf(m)) \in Words(GroupOf(m.metadata))
  BY <1>1, <1>2, MatchFacts
<1>4. Labelled(c, m.metadata, states[c].correlation_index)
  BY <1>1, <1>3, LabelFacts
<1>5. name \in DOMAIN output /\ c \in UsedContexts(output[name].category_config)
  BY <1>4 DEF Labelled, Wanted
<1>6. /\ Meant(e) /\ name \in DOMAIN endpoints[e].config
      /\ output[name].category_config = endpoints[e].config[name]
  BY <1>5 DEF Evaluating, TaskInv, PolicyInv, OutputIsMeant, TakenFrom
<1>7. Wants(endpoints[e].config[name], c)
  BY <1>1, <1>5, <1>6
<1>8. e \in DOMAIN endpoints /\ components \in Path
  BY <1>6, PolicyFacts DEF Meant, Evaluating, TaskInv, PolicyInv, PolicyTypes
<1>9. \E k \in DOMAIN endpoints[e].matches : Denotes(endpoints[e].matches[k], components)
  BY <1>6, <1>8, MatchedIsDenoted DEF Meant, Matched
<1> HIDE DEF e, name
<1> QED
  BY <1>3, <1>4, <1>6, <1>7, <1>9 DEF Part, c, name, e

\* A match by itself is of a Matchers category; a pair is of one Correlate category.
LEMMA SpanFacts ==
  ASSUME NEW t, Evaluating(t), NEW pairs \in SUBSET Candidates(Found(t)),
         NEW s \in Spans(Found(t), pairs)
  PROVE  LET groups == Groups(Categories[s.of[1].metadata.category_name])
         IN /\ s.of[1] \in Found(t)
            /\ DOMAIN s.of = DOMAIN groups /\ Len(s.of) = Len(groups)
            /\ Len(s.of) \in Nat /\ DOMAIN s.of = 1 .. Len(s.of)
            /\ \A k \in DOMAIN groups : Part(t, s.of[k]) \in Words(groups[k])
<1> DEFINE found == Found(t)
           c == t.context
           Single(m) == [span |-> m, of |-> <<m>>]
           Pair(p) == [span |-> PairSpan(p[1], p[2]), of |-> p]
<1> HIDE DEF found
<1>1. \/ \E m \in found : m.metadata.correlation = NoCorrelation /\ s = Single(m)
      \/ \E p \in pairs : s = Pair(p)
  BY DEF Spans, found
<1>2. CASE \E m \in found : m.metadata.correlation = NoCorrelation /\ s = Single(m)
  <2>1. PICK m \in found : m.metadata.correlation = NoCorrelation /\ s = Single(m)
    BY <1>2
  <2> DEFINE category == Categories[m.metadata.category_name]
  <2>2. /\ Labelled(c, m.metadata, states[c].correlation_index)
        /\ Part(t, m) \in Words(GroupOf(m.metadata))
    BY SourceFacts DEF found
  <2>3. category.kind = "matchers"
    BY <2>1, <2>2 DEF Labelled, NoCorrelation
  <2>4. Groups(category) = <<category.group>> /\ GroupOf(m.metadata) = category.group
    BY <2>3 DEF Groups, GroupOf
  <2>5. s.of = <<m>> /\ s.of[1] = m /\ Len(s.of) = 1 /\ DOMAIN s.of = {1}
    BY <2>1
  <2> HIDE DEF category
  <2>6. Len(Groups(category)) = 1 /\ DOMAIN Groups(category) = {1}
        /\ Groups(category)[1] = category.group
    BY <2>4
  <2>7. \A k \in DOMAIN Groups(category) : Part(t, s.of[k]) \in Words(Groups(category)[k])
    BY <2>2, <2>4, <2>5, <2>6
  <2> QED
    BY <2>5, <2>6, <2>7 DEF category, found
<1>3. CASE \E p \in pairs : s = Pair(p)
  <2>1. PICK p \in pairs : s = Pair(p)
    BY <1>3
  <2> DEFINE category == Categories[p[1].metadata.category_name]
             one == MatchGroup(category.group1)
             two == MatchGroup(category.group2)
  <2>2. /\ p \in found \X found
        /\ Half(p[1], FALSE) /\ Half(p[2], TRUE)
        /\ IndexOf(p[1].metadata) = IndexOf(p[2].metadata)
    BY DEF Candidates, found, IndexOf
  <2>3. /\ p[1] \in found /\ p[2] \in found /\ p = <<p[1], p[2]>>
        /\ Len(p) = 2 /\ DOMAIN p = {1, 2}
    BY <2>2
  <2>4. \A m \in found : /\ m.metadata \in Labels(states[c])
                         /\ Labelled(c, m.metadata, states[c].correlation_index)
                         /\ Part(t, m) \in Words(GroupOf(m.metadata))
    BY SourceFacts DEF found
  <2>5. \A m \in found : IndexOf(m.metadata) # 0 =>
          Categories[m.metadata.category_name].kind = "correlate"
    BY <2>4 DEF Labelled, NoCorrelation, IndexOf
  <2>6. IndexOf(p[1].metadata) # 0
    BY <2>2 DEF Half, IndexOf
  <2>7. p[1].metadata.category_name = p[2].metadata.category_name
    <3>1. OneEach(Labels(states[c]))
      BY TextFacts DEF StateOK
    <3> QED
      BY <2>2, <2>3, <2>4, <2>6, <3>1 DEF OneEach
  <2>8. category.kind = "correlate"
    BY <2>3, <2>5, <2>6
  <2>9. GroupOf(p[1].metadata) = one /\ GroupOf(p[2].metadata) = two
    BY <2>2, <2>7, <2>8 DEF GroupOf, Half
  <2>10. Groups(category) = <<one, two>>
    BY <2>8 DEF Groups
  <2> HIDE DEF category, one, two
  <2>11. /\ Len(Groups(category)) = 2 /\ DOMAIN Groups(category) = {1, 2}
         /\ Groups(category)[1] = one /\ Groups(category)[2] = two
    BY <2>10
  <2>12. s.of = p
    BY <2>1
  <2>13. \A k \in DOMAIN Groups(category) : Part(t, s.of[k]) \in Words(Groups(category)[k])
    BY <2>3, <2>4, <2>9, <2>11, <2>12
  <2>14. DOMAIN s.of = 1 .. Len(s.of) /\ Len(s.of) \in Nat
    <3>1. {1, 2} = 1 .. 2
      OBVIOUS
    <3>2. DOMAIN s.of = {1, 2} /\ Len(s.of) = 2
      BY <2>3, <2>12
    <3> HIDE DEF Pair
    <3> QED
      BY <3>1, <3>2
  <2> QED
    BY <2>3, <2>11, <2>12, <2>13, <2>14 DEF category, found
<1> QED
  BY <1>1, <1>2, <1>3

LEMMA ReportFacts ==
  ASSUME NEW t, Evaluating(t), NEW pairs \in SUBSET Candidates(Found(t)),
         NEW s \in Spans(Found(t), pairs), Showable(s.of[1].metadata.local_report_style)
  PROVE  Configured(Report(t, s)) /\ Hashed(Report(t, s))
<1> DEFINE metadata == s.of[1].metadata
           m == Report(t, s)
           style == metadata.local_report_style
           groups == Groups(Categories[metadata.category_name])
<1>1. /\ s.of[1] \in Found(t)
      /\ DOMAIN s.of = DOMAIN groups /\ Len(s.of) = Len(groups)
      /\ Len(s.of) \in Nat /\ DOMAIN s.of = 1 .. Len(s.of)
      /\ \A k \in DOMAIN groups : Part(t, s.of[k]) \in Words(groups[k])
  BY SpanFacts
<1> DEFINE from == endpoints[output[metadata.category_name].endpoint]
<1>2. /\ metadata.category_name \in DOMAIN from.config
      /\ Wants(from.config[metadata.category_name], t.context)
      /\ \E k \in DOMAIN from.matches : Denotes(from.matches[k], components)
  BY <1>1, SourceFacts
<1>3. /\ m.category_name = metadata.category_name /\ m.text = text /\ m.style = style
      /\ m.matched_value = MatchedValue(style, Part(t, s.span))
      /\ m.parts = [k \in DOMAIN s.of |-> Part(t, s.of[k])]
  BY DEF Report
<1>4. t = response.texts[text]
  BY DEF Evaluating
<1>5. Len(m.parts) = Len(groups)
  <2> DEFINE n == Len(s.of)
  <2>1. m.parts = [k \in 1 .. n |-> Part(t, s.of[k])] /\ n \in Nat
    BY <1>1, <1>3
  <2> HIDE DEF n, m
  <2>2. Len(m.parts) = n
    BY <2>1
  <2> QED
    BY <1>1, <2>2 DEF n
<1>6. \A k \in DOMAIN groups : m.parts[k] \in Words(groups[k])
  <2> HIDE DEF groups, m
  <2> QED
    BY <1>1, <1>3
<1>7. Configured(m)
  <2> HIDE DEF m
  <2> QED
    BY <1>2, <1>3, <1>4, <1>5, <1>6 DEF Configured
<1>8. Hashed(m)
  <2> SUFFICES ASSUME style.style = "partial_sha256"
               PROVE  /\ Hashable(style.report_bits) /\ m.matched_value.text = << >>
                      /\ m.matched_value.shown = Fmt(style.report_bits).shown
    BY <1>3 DEF Hashed
  <2>1. Hashable(style.report_bits)
    BY DEF Showable
  <2> HIDE DEF style, m
  <2>2. MatchedValue(style, Part(t, s.span))
          = [text |-> << >>, shown |-> Fmt(style.report_bits).shown]
    BY DEF MatchedValue
  <2> QED
    BY <1>3, <2>1, <2>2
<1> QED
  BY <1>7, <1>8

\* A raw value is found wherever it is, or at a place of it before that one and
\* overlapping it; and that is new, or was seen.
LEMMA OccurrenceFacts ==
  ASSUME NEW t, Evaluating(t), NEW c \in DOMAIN output \cap DOMAIN Categories,
         Categories[c].kind = "matchers", Wants(output[c].category_config, t.context),
         NEW word \in Sought(c), NEW s \in Occurrences(t, word)
  PROVE  \E first \in Occurrences(t, word) :
           /\ first <= s /\ s < first + Len(word)
           /\ \/ Seen(t, word, first)
              \/ \E m \in Found(t) : /\ m.metadata = Metadata(c) /\ m.start = first
                                     /\ Part(t, m) = word
<1> DEFINE raw == RawOf(Metadata(c), word)
           state == states[t.context]
<1>1. /\ t.context \in Contexts /\ t.bytes \in Source
      /\ t.offset \in Nat /\ t.minimum_end_index \in Nat
      /\ t.context \in UsedContexts(output[c].category_config)
  BY TextFacts
<1>2. word \in Word /\ word \in ToSet(Categories[c].group.raw)
  <2>1. IsGroup(Categories[c].group)
    BY CategoryFacts
  <2>2. word \in ToSet(Categories[c].group.raw)
    BY DEF Sought
  <2> QED
    BY <2>1, <2>2, ElementFacts DEF IsGroup
<1>3. Len(word) \in Nat /\ Len(word) >= 1 /\ Len(t.bytes) \in Nat
  BY <1>1, <1>2, WordFacts, LenProperties DEF Source
<1>4. s \in Nat /\ IsAt(t.bytes, s + 1, word)
  BY <1>3 DEF Occurrences
<1>5. raw \in ToSet(state.raws)
  <2>1. Wanted(t.context, c)
    BY <1>1 DEF Wanted
  <2>2. RawsThere /\ c \in DOMAIN output \ unprepared
    BY DEF Evaluating, TaskInv
  <2> QED
    BY <1>1, <1>2, <2>1, <2>2 DEF RawsThere
<1>6. raw.metadata = Metadata(c) /\ raw.raw = word
  BY DEF RawOf
<1> HIDE DEF raw, state
<1>7. PICK m \in RawMatches(raw, t.bytes) : m.start <= s /\ s < m.start + m.length
  BY <1>1, <1>2, <1>4, <1>6, RawFacts
<1>8. /\ m.metadata = Metadata(c) /\ m.start \in Nat /\ m.length = Len(word)
      /\ IsAt(t.bytes, m.start + 1, word)
  BY <1>1, <1>2, <1>6, RawFacts
<1>9. m.start + 1 + Len(word) - 1 = m.start + Len(word)
  BY <1>3, <1>8
<1>10. m.start + Len(word) <= Len(t.bytes)
       /\ SubSeq(t.bytes, m.start + 1, m.start + Len(word)) = word
  BY <1>8, <1>9 DEF IsAt
<1>11. m.start \in Occurrences(t, word)
  <2>1. m.start \in 0 .. Len(t.bytes) - Len(word)
    BY <1>3, <1>8, <1>10
  <2> QED
    BY <1>8, <2>1 DEF Occurrences
<1>12. Part(t, m) = word
  BY <1>8, <1>10 DEF Part, EndOf
<1>13. m \in Evaluate(state, t.bytes)
  <2> DEFINE R == {RawMatches(r, t.bytes) : r \in ToSet(state.raws)}
  <2>1. RawMatches(raw, t.bytes) \in R
    BY <1>5 DEF state
  <2> HIDE DEF R
  <2>2. m \in UNION R
    BY <1>7, <2>1
  <2> QED
    BY <2>2 DEF R, Evaluate
<1>14. Seen(t, word, m.start) \/ m \in Found(t)
  <2>1. IsNew(t, m) \/ Seen(t, word, m.start)
    BY <1>1, <1>3, <1>8 DEF IsNew, Seen
  <2> QED
    BY <1>13, <2>1 DEF Found, state
<1>15. m.start <= s /\ s < m.start + Len(word)
  BY <1>7, <1>8
<1> QED
  BY <1>8, <1>11, <1>12, <1>14, <1>15

(***************************************************************************)
(* The invariant, an action at a time.                                     *)
(***************************************************************************)
LEMMA TaskStart == ASSUME TaskInit PROVE TaskInv
<1>1. PICK case \in Cases : Start(case.endpoints, case.path) /\ response = case.response
  BY DEF TaskInit
<1>2. WellTyped(case.endpoints) /\ case.path \in Path /\ WellFormed(response)
  BY <1>1, CasesAssumption DEF Path
<1>3. PolicyInv
  BY <1>1, <1>2, StartPolicy
<1>4. /\ unprepared = {} /\ states = [c \in Contexts |-> NoMatchers] /\ text = 1
      /\ matches = {} /\ key_matches = {} /\ phase = "path"
  BY DEF TaskInit
<1>5. TaskTypes /\ Unstarted
  BY <1>2, <1>4 DEF TaskTypes, Unstarted
<1>6. \A c \in Contexts : StateOK(c, states[c])
  BY <1>4, EmptyState DEF StateOK, OneEach
<1> QED
  BY <1>3, <1>4, <1>5, <1>6 DEF TaskInv

LEMMA ConfigureTask == ASSUME TaskInv, Configure PROVE TaskInv'
<1>1. /\ phase = "path" /\ Next /\ response' = response /\ unprepared' = unprepared
      /\ states' = states /\ text' = text /\ matches' = matches
      /\ key_matches' = key_matches /\ phase' = phase
  BY DEF Configure, task
<1>2. PolicyInv'
  BY <1>1, StepPolicy DEF TaskInv
<1>3. /\ unprepared = {} /\ states = [c \in Contexts |-> NoMatchers] /\ text = 1
      /\ matches = {} /\ key_matches = {}
  BY <1>1 DEF TaskInv, Unstarted
<1>4. TaskTypes' /\ Unstarted'
  BY <1>1, <1>3 DEF TaskInv, TaskTypes, Unstarted, WellFormed
<1>5. \A c \in Contexts : StateOK(c, states[c])'
  <2>1. \A c : StateOK(c, NoMatchers)'
    BY EmptyState DEF StateOK, OneEach
  <2> QED
    BY <1>1, <1>3, <2>1
<1> QED
  BY <1>1, <1>2, <1>3, <1>4, <1>5 DEF TaskInv

LEMMA BeginTask == ASSUME TaskInv, Begin PROVE TaskInv'
<1>1. /\ phase = "path" /\ response.content_type \in {"html", "json"}
      /\ phase' = "task" /\ unprepared' = DOMAIN output
      /\ UNCHANGED <<vars, response>> /\ output' = output /\ response' = response
      /\ states' = states /\ text' = text /\ matches' = matches /\ key_matches' = key_matches
  BY DEF Begin, vars
<1>2. Unstarted /\ TaskTypes
  BY <1>1 DEF TaskInv
<1>3. PolicyInv' /\ \A c \in Contexts : StateOK(c, states[c])'
  BY <1>1, KeptFacts DEF TaskInv
<1>4. RawsThere'
  BY <1>1 DEF RawsThere
<1>5. TaskTypes' /\ text' = 1 /\ matches' = {} /\ key_matches' = {}
  BY <1>1, <1>2 DEF TaskTypes, Unstarted, WellFormed
<1> QED
  BY <1>1, <1>3, <1>4, <1>5 DEF TaskInv

LEMMA PrepareCategoryTask ==
  ASSUME TaskInv, NEW name \in unprepared, PrepareCategory(name)
  PROVE  TaskInv'
<1> DEFINE config == output[name].category_config
           used == UsedContexts(config)
           Prepared(c) == PrepareMatches(states[c], name, Metadata(name), config.ignore)
<1>1. /\ phase = "task" /\ phase' \in {"task", "panicked"}
      /\ unprepared' = unprepared \ {name}
      /\ states' = [c \in Contexts |-> IF c \in used THEN Prepared(c) ELSE states[c]]
      /\ UNCHANGED <<vars, response>> /\ output' = output /\ response' = response
      /\ text' = text /\ matches' = matches /\ key_matches' = key_matches
  BY DEF PrepareCategory, vars
<1>2. name \in DOMAIN output /\ unprepared \subseteq DOMAIN output
  BY DEF TaskInv, TaskTypes
<1>3. ASSUME NEW c \in Contexts
      PROVE  /\ StateOK(c, states'[c]) /\ ToSet(states[c].raws) \subseteq ToSet(states'[c].raws)
             /\ c \in used /\ name \in DOMAIN Categories /\ Categories[name].kind = "matchers" =>
                  \A w \in ToSet(Categories[name].group.raw) :
                    RawOf(Metadata(name), w) \in ToSet(states'[c].raws)
  <2>1. StateOK(c, states[c])
    BY DEF TaskInv
  <2>2. CASE c \in used
    <3>1. states'[c] = Prepared(c)
      BY <1>1, <2>2
    <3> DEFINE new == states'[c]
    <3> HIDE DEF new
    <3>2. new = PrepareMatches(states[c], name, Metadata(name), config.ignore)
      BY <3>1 DEF new
    <3>3. /\ StateOK(c, new) /\ ToSet(states[c].raws) \subseteq ToSet(new.raws)
          /\ name \in DOMAIN Categories /\ Categories[name].kind = "matchers" =>
               \A w \in ToSet(Categories[name].group.raw) :
                 RawOf(Metadata(name), w) \in ToSet(new.raws)
      BY <1>2, <2>1, <2>2, <3>2, PrepareFacts
    <3> QED
      BY <2>2, <3>3 DEF new
  <2>3. CASE c \notin used
    <3>1. states'[c] = states[c]
      BY <1>1, <2>3
    <3> QED
      BY <2>1, <2>3, <3>1
  <2> QED
    BY <2>2, <2>3
<1>4. PolicyInv' /\ \A c \in Contexts : StateOK(c, states[c])'
  <2>1. \A c \in Contexts : StateOK(c, states'[c])
    BY <1>3
  <2>2. \A c, x : StateOK(c, x)' <=> StateOK(c, x)
    BY <1>1, KeptFacts
  <2>3. PolicyInv'
    BY <1>1, KeptFacts DEF TaskInv
  <2> QED
    BY <2>1, <2>2, <2>3
<1>5. RawsThere'
  <2> SUFFICES ASSUME NEW n \in DOMAIN output \ (unprepared \ {name}), NEW c \in Contexts,
                      Wanted(c, n), Categories[n].kind = "matchers",
                      NEW w \in ToSet(Categories[n].group.raw)
               PROVE  RawOf(Metadata(n), w) \in ToSet(states'[c].raws)
    BY <1>1, KeptFacts DEF RawsThere
  <2>1. CASE n = name
    BY <1>3, <2>1 DEF Wanted
  <2>2. CASE n # name
    <3>1. RawOf(Metadata(n), w) \in ToSet(states[c].raws)
      BY <1>1, <2>2 DEF TaskInv, RawsThere
    <3> QED
      BY <1>3, <3>1
  <2> QED
    BY <2>1, <2>2
<1>6. TaskTypes'
  <2>1. states' = [c \in Contexts |-> states'[c]]
    BY <1>1
  <2> QED
    BY <1>1, <2>1 DEF TaskInv, TaskTypes, WellFormed
<1>7. \A m \in matches' \cup key_matches' : Configured(m)' /\ Hashed(m)'
  BY <1>1, KeptFacts DEF TaskInv, Hashed
<1>8. \A k \in 1 .. text' - 1 : k <= Len(response'.texts) => WordsReported(k)'
  BY <1>1, KeptFacts DEF TaskInv
<1>9. response'.content_type \in {"html", "json"}
  BY <1>1 DEF TaskInv
<1> QED
  BY <1>1, <1>4, <1>5, <1>6, <1>7, <1>8, <1>9 DEF TaskInv

LEMMA FinishTask == ASSUME TaskInv, Finish PROVE TaskInv'
<1>1. /\ phase = "task" /\ phase' = "done" /\ text > Len(response.texts)
      /\ unprepared' = unprepared /\ matches' = matches \cup key_matches
      /\ UNCHANGED <<vars, response>> /\ output' = output /\ response' = response
      /\ states' = states /\ text' = text /\ key_matches' = key_matches
  BY DEF Finish, vars
<1>2. PolicyInv' /\ \A c \in Contexts : StateOK(c, states[c])'
  BY <1>1, KeptFacts DEF TaskInv
<1>3. RawsThere'
  BY <1>1, KeptFacts DEF TaskInv, RawsThere
<1>4. TaskTypes'
  BY <1>1 DEF TaskInv, TaskTypes, WellFormed
<1>5. \A m \in matches' \cup key_matches' : Configured(m)' /\ Hashed(m)'
  BY <1>1, KeptFacts DEF TaskInv, Hashed
<1>6. \A k \in 1 .. text' - 1 : k <= Len(response'.texts) => WordsReported(k)'
  BY <1>1, KeptFacts DEF TaskInv
<1>7. response'.content_type \in {"html", "json"}
  BY <1>1 DEF TaskInv
<1> QED
  BY <1>1, <1>2, <1>3, <1>4, <1>5, <1>6, <1>7 DEF TaskInv

LEMMA DoMatchingTask == ASSUME TaskInv, DoMatching PROVE TaskInv'
<1> DEFINE t == response.texts[text]
<1>1. /\ phase = "task" /\ unprepared = {} /\ text <= Len(response.texts)
      /\ UNCHANGED <<vars, response>> /\ output' = output /\ response' = response
      /\ unprepared' = unprepared /\ states' = states
  BY DEF DoMatching, vars
<1>2. Evaluating(t)
  BY <1>1 DEF Evaluating
<1>3. PICK pairs \in SUBSET Candidates(Found(t)) :
        LET spans == Spans(Found(t), pairs)
            cut == \E s \in spans : ~Sliceable(t.bytes, s.span)
            unshown == \E s \in spans : ~Showable(s.of[1].metadata.local_report_style)
            reports == {Report(t, s) : s \in spans}
        IN IF cut \/ unshown
           THEN phase' = "panicked" /\ UNCHANGED <<text, matches, key_matches>>
           ELSE /\ text' = text + 1 /\ phase' = phase
                /\ IF t.context = "keys"
                   THEN key_matches' = key_matches \cup reports /\ UNCHANGED matches
                   ELSE matches' = matches \cup reports /\ UNCHANGED key_matches
  BY DEF DoMatching, Found
<1> DEFINE spans == Spans(Found(t), pairs)
           cut == \E s \in spans : ~Sliceable(t.bytes, s.span)
           unshown == \E s \in spans : ~Showable(s.of[1].metadata.local_report_style)
           reports == {Report(t, s) : s \in spans}
<1> HIDE DEF t
<1>4. \/ phase' = "panicked" /\ UNCHANGED <<text, matches, key_matches>>
      \/ /\ text' = text + 1 /\ phase' = "task" /\ ~unshown
         /\ matches' \cup key_matches' = matches \cup key_matches \cup reports
  <2>1. CASE cut \/ unshown
    BY <1>3, <2>1
  <2>2. CASE ~(cut \/ unshown)
    <3>1. text' = text + 1 /\ phase' = "task"
      BY <1>1, <1>3, <2>2
    <3>2. IF t.context = "keys"
          THEN key_matches' = key_matches \cup reports /\ UNCHANGED matches
          ELSE matches' = matches \cup reports /\ UNCHANGED key_matches
      BY <1>3, <2>2
    <3> HIDE DEF reports, cut, unshown
    <3>3. matches' \cup key_matches' = matches \cup key_matches \cup reports
      BY <3>2
    <3> QED
      BY <2>2, <3>1, <3>3
  <2> QED
    BY <2>1, <2>2
<1>5. PolicyInv' /\ \A c \in Contexts : StateOK(c, states[c])'
  BY <1>1, KeptFacts DEF TaskInv
<1>6. RawsThere'
  BY <1>1, KeptFacts DEF TaskInv, RawsThere
<1>7. TaskTypes' /\ phase' \in {"task", "panicked"} /\ response'.content_type \in {"html", "json"}
  BY <1>1, <1>4 DEF TaskInv, TaskTypes, WellFormed
<1>8. CASE phase' = "panicked" /\ UNCHANGED <<text, matches, key_matches>>
  <2>1. \A m \in matches' \cup key_matches' : Configured(m)' /\ Hashed(m)'
    BY <1>1, <1>8, KeptFacts DEF TaskInv, Hashed
  <2>2. \A k \in 1 .. text' - 1 : k <= Len(response'.texts) => WordsReported(k)'
    BY <1>1, <1>8, KeptFacts DEF TaskInv
  <2> QED
    BY <1>5, <1>6, <1>7, <1>8, <2>1, <2>2 DEF TaskInv
<1>9. CASE /\ text' = text + 1 /\ phase' = "task" /\ ~unshown
           /\ matches' \cup key_matches' = matches \cup key_matches \cup reports
  <2>1. \A m \in reports : Configured(m) /\ Hashed(m)
    <3> SUFFICES ASSUME NEW s \in spans PROVE Configured(Report(t, s)) /\ Hashed(Report(t, s))
      OBVIOUS
    <3>1. Showable(s.of[1].metadata.local_report_style)
      BY <1>9
    <3> QED
      BY <1>2, <3>1, ReportFacts
  <2>2. \A m \in matches' \cup key_matches' : Configured(m)' /\ Hashed(m)'
    <3> HIDE DEF reports
    <3>1. \A m \in matches' \cup key_matches' : Configured(m) /\ Hashed(m)
      BY <1>9, <2>1 DEF TaskInv
    <3> QED
      BY <1>1, <3>1, KeptFacts DEF Hashed
  <2>3. ASSUME NEW k, k = text PROVE WordsReported(k)'
    <3> SUFFICES ASSUME NEW c \in DOMAIN output \cap DOMAIN Categories,
                        Categories[c].kind = "matchers",
                        Wants(output[c].category_config, t.context),
                        NEW word \in Sought(c), NEW s \in Occurrences(t, word)
                 PROVE  Accounted(reports, t, text, c, word, s)
      <4> HIDE DEF reports
      <4>1. /\ \A c, x : Wants(output[c].category_config, x)' <=> Wants(output[c].category_config, x)
            /\ \A c : Sought(c)' = Sought(c)
        BY <1>1 DEF Wants, Sought
      <4>2. response'.texts[k] = t /\ output' = output
        BY <1>1, <2>3 DEF t
      <4>3. reports \subseteq matches' \cup key_matches'
        BY <1>9
      <4> HIDE DEF t
      <4>4. ASSUME NEW c \in DOMAIN output \cap DOMAIN Categories,
                   Categories[c].kind = "matchers",
                   Wants(output[c].category_config, t.context),
                   NEW word \in Sought(c), NEW s \in Occurrences(t, word)
            PROVE  Accounted(matches' \cup key_matches', t, k, c, word, s)
        <5>1. Accounted(reports, t, text, c, word, s)
          BY <4>4
        <5> QED
          BY <2>3, <4>3, <5>1 DEF Accounted
      <4>5. SUFFICES ASSUME NEW c \in DOMAIN output' \cap DOMAIN Categories,
                            Categories[c].kind = "matchers",
                            Wants(output[c].category_config, response.texts[k].context)',
                            NEW word \in Sought(c)',
                            NEW s \in Occurrences(response'.texts[k], word)
                     PROVE  Accounted(matches' \cup key_matches', response'.texts[k], k, c,
                                      word, s)
        BY DEF WordsReported
      <4>6. Wants(output[c].category_config, t.context) /\ word \in Sought(c)
        BY <4>1, <4>2, <4>5
      <4> QED
        BY <4>2, <4>4, <4>5, <4>6
    <3>1. PICK first \in Occurrences(t, word) :
            /\ first <= s /\ s < first + Len(word)
            /\ \/ Seen(t, word, first)
               \/ \E m \in Found(t) : /\ m.metadata = Metadata(c) /\ m.start = first
                                      /\ Part(t, m) = word
      BY <1>2, OccurrenceFacts
    <3>2. CASE Seen(t, word, first)
      BY <3>1, <3>2 DEF Accounted
    <3>3. ASSUME NEW m \in Found(t),
                 m.metadata = Metadata(c), m.start = first, Part(t, m) = word
          PROVE  Accounted(reports, t, text, c, word, s)
      <4> DEFINE span == [span |-> m, of |-> <<m>>]
                 report == Report(t, span)
      <4>1. span \in spans
        <5>1. m.metadata.correlation = NoCorrelation
          BY <3>3 DEF Metadata
        <5> QED
          BY <5>1 DEF Spans
      <4>2. /\ report.category_name = c /\ report.text = text
            /\ report.global_start_position = first + t.offset
            /\ report.parts = <<word>>
        BY <3>3 DEF Report, Metadata
      <4>3. report \in reports
        <5> HIDE DEF span, spans
        <5> QED
          BY <4>1
      <4> HIDE DEF report, reports
      <4> QED
        BY <3>1, <4>2, <4>3 DEF Accounted
    <3> QED
      BY <3>1, <3>2, <3>3
  <2>4. \A k \in 1 .. text' - 1 : k <= Len(response'.texts) => WordsReported(k)'
    <3> SUFFICES ASSUME NEW k \in 1 .. text, k <= Len(response.texts)
                 PROVE  WordsReported(k)'
      BY <1>1, <1>9 DEF TaskInv, TaskTypes
    <3>1. text \in Nat
      BY DEF TaskInv, TaskTypes
    <3>2. CASE k = text
      BY <2>3, <3>2
    <3>3. CASE k # text
      <4>1. k \in 1 .. text - 1
        BY <3>1, <3>3
      <4>2. WordsReported(k)
        BY <4>1 DEF TaskInv
      <4> HIDE DEF reports
      <4>3. matches \cup key_matches \subseteq matches' \cup key_matches'
        BY <1>9
      <4> QED
        BY <1>1, <4>2, <4>3, KeptFacts
    <3> QED
      BY <3>2, <3>3
  <2> QED
    BY <1>5, <1>6, <1>7, <1>9, <2>2, <2>4 DEF TaskInv
<1> QED
  BY <1>4, <1>8, <1>9

LEMMA RegexFailsTask == ASSUME TaskInv, RegexFails PROVE TaskInv'
<1>1. /\ UNCHANGED <<vars, response>> /\ output' = output /\ response' = response
      /\ unprepared' = unprepared /\ states' = states /\ text' = text
      /\ matches' = matches /\ key_matches' = key_matches
      /\ phase = "task" /\ phase' = "panicked"
  BY DEF RegexFails, vars
<1>2. PolicyInv' /\ \A c \in Contexts : StateOK(c, states[c])'
  BY <1>1, KeptFacts DEF TaskInv
<1>3. RawsThere' /\ response'.content_type \in {"html", "json"}
  BY <1>1, KeptFacts DEF TaskInv, RawsThere
<1>4. TaskTypes'
  BY <1>1 DEF TaskInv, TaskTypes, WellFormed
<1>5. \A m \in matches' \cup key_matches' : Configured(m)' /\ Hashed(m)'
  BY <1>1, KeptFacts DEF TaskInv, Hashed
<1>6. \A k \in 1 .. text' - 1 : k <= Len(response'.texts) => WordsReported(k)'
  BY <1>1, KeptFacts DEF TaskInv
<1> QED
  BY <1>1, <1>2, <1>3, <1>4, <1>5, <1>6 DEF TaskInv

LEMMA TaskStep == ASSUME TaskInv, [TaskNext]_allvars PROVE TaskInv'
<1>1. CASE Configure
  BY <1>1, ConfigureTask
<1>2. CASE Begin
  BY <1>2, BeginTask
<1>3. CASE \E name \in unprepared : PrepareCategory(name)
  BY <1>3, PrepareCategoryTask
<1>4. CASE DoMatching
  BY <1>4, DoMatchingTask
<1>5. CASE Finish
  BY <1>5, FinishTask
<1>6. CASE UNCHANGED allvars
  <2>1. /\ UNCHANGED <<vars, response>> /\ output' = output /\ response' = response
        /\ unprepared' = unprepared /\ states' = states /\ text' = text
        /\ matches' = matches /\ key_matches' = key_matches /\ phase' = phase
    BY <1>6 DEF allvars, task, vars
  <2>2. PolicyInv' /\ \A c \in Contexts : StateOK(c, states[c])'
    BY <2>1, KeptFacts DEF TaskInv
  <2>3. RawsThere => RawsThere'
    BY <2>1, KeptFacts DEF RawsThere
  <2>4. TaskTypes' /\ (Unstarted => Unstarted')
    BY <2>1 DEF TaskInv, TaskTypes, WellFormed, Unstarted
  <2>5. \A m \in matches' \cup key_matches' : Configured(m)' /\ Hashed(m)'
    BY <2>1, KeptFacts DEF TaskInv, Hashed
  <2>6. \A k \in 1 .. text' - 1 : k <= Len(response'.texts) => WordsReported(k)'
    BY <2>1, KeptFacts DEF TaskInv
  <2> QED
    BY <2>1, <2>2, <2>3, <2>4, <2>5, <2>6 DEF TaskInv
<1>7. CASE RegexFails
  BY <1>7, RegexFailsTask
<1> QED
  BY <1>1, <1>2, <1>3, <1>4, <1>5, <1>6, <1>7 DEF TaskNext

LEMMA TaskInvariant == TaskSpec => []TaskInv
<1>1. TaskInit => TaskInv
  BY TaskStart
<1>2. TaskInv /\ [TaskNext]_allvars => TaskInv'
  BY TaskStep
<1> QED
  BY <1>1, <1>2, PTL DEF TaskSpec

(***************************************************************************)
(* What the task promises.                                                 *)
(***************************************************************************)
LEMMA ConfiguredOf == TaskInv => OnlyConfigured
<1> SUFFICES ASSUME TaskInv PROVE OnlyConfigured
  OBVIOUS
<1>1. \A m \in matches \cup key_matches : Configured(m)
  BY DEF TaskInv
<1> QED
  BY <1>1 DEF OnlyConfigured, Configured

LEMMA PrefixOf == TaskInv => FirstBits
<1> SUFFICES ASSUME TaskInv, NEW m \in matches, m.style.style = "partial_sha256"
             PROVE  /\ m.matched_value.text = << >>
                    /\ 0 \in m.matched_value.shown
                    /\ m.matched_value.shown = 0 .. Max(m.matched_value.shown)
  BY DEF FirstBits
<1>1. Hashable(m.style.report_bits) /\ m.matched_value.text = << >>
      /\ m.matched_value.shown = Fmt(m.style.report_bits).shown
  BY DEF TaskInv, Hashed
<1>2. PICK n \in Nat : m.matched_value.shown = 0 .. n
  BY <1>1, ShownFacts
<1>3. Max(0 .. n) = n
  <2>1. Max(0 .. n) \in 0 .. n /\ \A x \in 0 .. n : x <= Max(0 .. n)
    <3>1. 0 .. n # {} /\ 0 .. n \in SUBSET (0 .. n)
      OBVIOUS
    <3> QED
      BY <3>1, MaxFacts
  <2> QED
    BY <2>1
<1> QED
  BY <1>1, <1>2, <1>3

LEMMA ReportedOf == TaskInv => EachWordReported
<1> SUFFICES ASSUME TaskInv, phase = "done" PROVE EachWordReported
  BY DEF EachWordReported
<1>1. text > Len(response.texts) /\ text \in Nat /\ key_matches \subseteq matches
  BY DEF TaskInv, TaskTypes
<1>2. matches \cup key_matches = matches
  BY <1>1
<1>3. ASSUME NEW k \in DOMAIN response.texts PROVE WordsReported(k)
  <2>1. k \in 1 .. Len(response.texts) /\ Len(response.texts) \in Nat
    BY LenProperties DEF TaskInv, TaskTypes, WellFormed
  <2>2. k \in 1 .. text - 1
    BY <1>1, <2>1
  <2> QED
    BY <2>1, <2>2 DEF TaskInv
<1>4. ASSUME NEW k \in DOMAIN response.texts, NEW c \in DOMAIN output \cap DOMAIN Categories,
             Categories[c].kind = "matchers",
             Wants(output[c].category_config, response.texts[k].context),
             NEW word \in Sought(c), NEW s \in Occurrences(response.texts[k], word)
      PROVE  Accounted(matches, response.texts[k], k, c, word, s)
  BY <1>2, <1>3, <1>4 DEF WordsReported
<1> QED
  BY <1>4 DEF EachWordReported, Accounted

\* html.rs 36-80, json/mod.rs 18-123, evaluator.rs 57-271: whatever the policy, the path
\* and the texts of the response, each match that is reported is of a category that an
\* endpoint meant for this path wants in this kind of text, and consists of what that
\* category looks for; the parts of a correlation are never of two categories.
THEOREM OnlyConfiguredHolds == TaskSpec => []OnlyConfigured
BY ConfiguredOf, TaskInvariant, PTL

\* evaluator.rs 137-205: when the body ends, each raw value of a category that is wanted,
\* and is no exception, was reported wherever it is, or the place of it that overlaps this
\* one was, whatever the texts, the values and the pieces.
THEOREM EachWordReportedHolds == TaskSpec => []EachWordReported
BY ReportedOf, TaskInvariant, PTL

\* low_entropy_hash.rs 29-64: whatever the number of bits, a partial digest begins with
\* the first bit of the hash and has no gap.
THEOREM FirstBitsHolds == TaskSpec => []FirstBits
BY PrefixOf, TaskInvariant, PTL

\* lib.rs 351-408: what get_path_config promises holds while the task uses it.
THEOREM TaskPathHolds == TaskSpec => [](OnlyMeant /\ NoneLost)
BY MeantOf, KeptOf, TaskInvariant, PTL DEF TaskInv

LEMMA TaskOrder == ASSUME TaskInv, OrderInv, [TaskNext]_allvars PROVE OrderInv'
<1>1. [Next]_vars
  <2>1. CASE Configure
    BY <2>1 DEF Configure
  <2>2. CASE Begin
    BY <2>2 DEF Begin
  <2>3. CASE \E name \in unprepared : PrepareCategory(name)
    BY <2>3 DEF PrepareCategory
  <2>4. CASE DoMatching
    BY <2>4 DEF DoMatching
  <2>5. CASE Finish
    BY <2>5 DEF Finish
  <2>6. CASE UNCHANGED allvars
    BY <2>6 DEF allvars
  <2>7. CASE RegexFails
    BY <2>7 DEF RegexFails
  <2> QED
    BY <2>1, <2>2, <2>3, <2>4, <2>5, <2>6, <2>7 DEF TaskNext
<1> QED
  BY <1>1, StepOrder DEF TaskInv

\* lib.rs:316-317: the narrower glob has won when the task uses what was configured.
THEOREM TaskNarrowerHolds == TaskSpec => [](ManyAtEnds => NarrowerWins)
<1>1. TaskInit => OrderInv
  <2> SUFFICES ASSUME NEW case \in Cases, Start(case.endpoints, case.path), TaskInit
               PROVE  OrderInv
    BY DEF TaskInit
  <2>1. PolicyTypes
    BY TaskStart DEF TaskInv, PolicyInv
  <2> QED
    BY <2>1, StartOrder
<1>2. TaskInv /\ OrderInv /\ [TaskNext]_allvars => OrderInv'
  BY TaskOrder
<1>3. TaskInv /\ OrderInv => (ManyAtEnds => NarrowerWins)
  BY NarrowerOf DEF TaskInv
<1> QED
  BY <1>1, <1>2, <1>3, TaskInvariant, PTL DEF TaskSpec
=============================================================================
