------------------------------ MODULE HtmlProofs ------------------------------
(***************************************************************************)
(* Proofs about HtmlTask, for bodies, words and chunks of any size: what   *)
(* is matched across the seams of a body, and what is paired.              *)
(***************************************************************************)
EXTENDS HtmlTask, Recursion

Byte == {"a", "b", "lead", "cont"}
Letter == {"a", "b"}
Word == Seq(Letter) \ {<< >>}

\* What from_utf8_lossy makes, and what evaluate finds in it.
Char == [byte : Byte \cup {"replacement"}, at : Nat]
Hit == [start : Nat, at : Nat]

LEMMA WordFacts ==
  ASSUME NEW word \in Word
  PROVE  /\ word \in Seq(Letter) /\ Len(word) \in Nat /\ Len(word) >= 1
         /\ \A k \in 1 .. Len(word) : word[k] \in Letter
<1>1. word \in Seq(Letter) /\ Len(word) \in Nat \ {0}
  BY EmptySeq DEF Word
<1> QED
  BY <1>1, ElementOfSeq

(***************************************************************************)
(* String::from_utf8_lossy.                                                *)
(***************************************************************************)
\* What becomes of each byte.
Pieces(data) ==
  [k \in DOMAIN data |->
    IF Whole(data, k) THEN <<[byte |-> data[k], at |-> k - 1]>>
    ELSE [n \in 1 .. 3 |-> [byte |-> "replacement", at |-> k - 1]]]

LEMMA PiecesFacts ==
  ASSUME NEW data \in Seq(Byte)
  PROVE  /\ Utf8Lossy(data) = FlattenSeq(Pieces(data))
         /\ Pieces(data) \in Seq(Seq(Char)) /\ Len(Pieces(data)) = Len(data)
         /\ Len(data) \in Nat
         /\ \A k \in 1 .. Len(data) :
              /\ Len(Pieces(data)[k]) \in Nat /\ Len(Pieces(data)[k]) >= 1
              /\ data[k] \in Letter =>
                   /\ Len(Pieces(data)[k]) = 1
                   /\ Pieces(data)[k][1] = [byte |-> data[k], at |-> k - 1]
<1>1. Len(data) \in Nat /\ DOMAIN data = 1 .. Len(data)
      /\ \A k \in 1 .. Len(data) : data[k] \in Byte
  BY LenProperties, ElementOfSeq
<1>2. Utf8Lossy(data) = FlattenSeq(Pieces(data))
  BY DEF Utf8Lossy, Pieces
<1>3. ASSUME NEW k \in 1 .. Len(data)
      PROVE  /\ Pieces(data)[k] \in Seq(Char)
             /\ Len(Pieces(data)[k]) \in Nat /\ Len(Pieces(data)[k]) >= 1
             /\ data[k] \in Letter =>
                  /\ Len(Pieces(data)[k]) = 1
                  /\ Pieces(data)[k][1] = [byte |-> data[k], at |-> k - 1]
  <2> DEFINE one == [byte |-> data[k], at |-> k - 1]
             rep == [byte |-> "replacement", at |-> k - 1]
             three == [n \in 1 .. 3 |-> rep]
  <2>1. one \in Char /\ rep \in Char
    <3>1. k - 1 \in Nat
      BY <1>1
    <3> QED
      BY <1>1, <3>1 DEF Char
  <2>2. Pieces(data)[k] = IF Whole(data, k) THEN <<one>> ELSE three
    BY <1>1 DEF Pieces
  <2>3. three \in Seq(Char) /\ Len(three) = 3
    <3>1. three \in [1 .. 3 -> Char]
      BY <2>1
    <3> HIDE DEF three
    <3> QED
      BY <3>1, SeqOfFunction
  <2>4. <<one>> \in Seq(Char) /\ Len(<<one>>) = 1 /\ <<one>>[1] = one
    <3> HIDE DEF one
    <3> QED
      BY <2>1
  <2>5. data[k] \in Letter => Whole(data, k)
    BY DEF Letter, Whole
  <2> QED
    BY <2>2, <2>3, <2>4, <2>5
<1>4. Pieces(data) \in Seq(Seq(Char)) /\ Len(Pieces(data)) = Len(data)
  <2>1. Pieces(data) = [k \in 1 .. Len(data) |-> Pieces(data)[k]]
    BY <1>1 DEF Pieces
  <2>2. Pieces(data) \in [1 .. Len(data) -> Seq(Char)]
    BY <1>3, <2>1
  <2> QED
    BY <1>1, <2>2, SeqOfFunction
<1> QED
  BY <1>1, <1>2, <1>3, <1>4

\* Where the bytes of a body are in the string: a letter is one byte there, and none of
\* the string is in front of where the bytes are that it is made of.
Shown(source, data, pos) ==
  \A k \in 1 .. Len(data) :
    /\ pos[k] \in 1 .. Len(source) /\ pos[k] >= k
    /\ data[k] \in Letter =>
         /\ source[pos[k]] = [byte |-> data[k], at |-> k - 1]
         /\ k + 1 \in 1 .. Len(data) => pos[k + 1] = pos[k] + 1

LEMMA LossyFacts ==
  ASSUME NEW data \in Seq(Byte)
  PROVE  /\ Utf8Lossy(data) \in Seq(Char)
         /\ \E pos : Shown(Utf8Lossy(data), data, pos)
<1> DEFINE s == Pieces(data)
           n == Len(data)
           t == Utf8Lossy(data)
<1>1. t = FlattenSeq(s) /\ s \in Seq(Seq(Char)) /\ Len(s) = n /\ n \in Nat
  BY PiecesFacts
<1>2. \A k \in 1 .. n : /\ Len(s[k]) \in Nat /\ Len(s[k]) >= 1
                        /\ data[k] \in Letter =>
                             Len(s[k]) = 1 /\ s[k][1] = [byte |-> data[k], at |-> k - 1]
  BY PiecesFacts
<1> HIDE DEF s, n, t
<1>3. t \in Seq(Char)
  BY <1>1, FlattenFacts
<1>4. PICK begin : Laid(s, begin) /\ MadeOf(t, s, n, begin)
  BY <1>1, FlattenFacts
<1>5. begin[1] = 0 /\ \A k \in 1 .. n : begin[k + 1] = begin[k] + Len(s[k])
  BY <1>1, <1>4 DEF Laid
<1>6. \A k \in 1 .. n + 1 : begin[k] \in Nat
  BY <1>1, <1>4 DEF Laid
<1> DEFINE T == {k \in Nat : k + 1 \in 1 .. n + 1 => begin[k + 1] >= k}
<1>7. Nat \subseteq T
  <2>1. 0 \in T
    BY <1>5
  <2>2. ASSUME NEW k \in Nat, k \in T PROVE k + 1 \in T
    <3> SUFFICES ASSUME (k + 1) + 1 \in 1 .. n + 1 PROVE begin[(k + 1) + 1] >= k + 1
      OBVIOUS
    <3>1. k + 1 \in 1 .. n /\ k + 1 \in 1 .. n + 1
      BY <1>1
    <3>2. begin[(k + 1) + 1] = begin[k + 1] + Len(s[k + 1]) /\ begin[k + 1] \in Nat
          /\ begin[k + 1] >= k /\ Len(s[k + 1]) >= 1 /\ Len(s[k + 1]) \in Nat
      BY <1>2, <1>5, <1>6, <2>2, <3>1
    <3> QED
      BY <3>2
  <2> HIDE DEF T
  <2> QED
    BY <2>1, <2>2, SetInduction
<1> DEFINE pos == [k \in 1 .. n |-> begin[k] + 1]
<1>8. ASSUME NEW k \in 1 .. n
      PROVE  /\ pos[k] \in 1 .. Len(t) /\ pos[k] >= k
             /\ data[k] \in Letter =>
                  /\ t[pos[k]] = [byte |-> data[k], at |-> k - 1]
                  /\ k + 1 \in 1 .. n => pos[k + 1] = pos[k] + 1
  <2>1. pos[k] = begin[k] + 1 /\ begin[k] \in Nat
    BY <1>1, <1>6
  <2>2. 1 \in 1 .. Len(s[k])
    <3>1. Len(s[k]) \in Nat /\ Len(s[k]) >= 1
      BY <1>2
    <3> QED
      BY <3>1
  <2>3. begin[k] + 1 \in 1 .. Len(t) /\ t[begin[k] + 1] = s[k][1]
    BY <1>4, <2>2 DEF MadeOf
  <2>4. begin[k] >= k - 1
    <3>1. k - 1 \in Nat /\ (k - 1) + 1 = k /\ k \in 1 .. n + 1
      BY <1>1
    <3>2. k - 1 \in T
      BY <1>7, <3>1
    <3> QED
      BY <3>1, <3>2
  <2>5. ASSUME data[k] \in Letter, k + 1 \in 1 .. n PROVE pos[k + 1] = pos[k] + 1
    <3>1. pos[k + 1] = begin[k + 1] + 1 /\ begin[k + 1] = begin[k] + Len(s[k]) /\ Len(s[k]) = 1
      BY <1>2, <1>5, <2>5
    <3> QED
      BY <2>1, <3>1
  <2>6. pos[k] >= k
    BY <1>1, <2>1, <2>4
  <2> HIDE DEF pos
  <2> QED
    BY <1>2, <2>1, <2>3, <2>5, <2>6
<1>9. Shown(t, data, pos)
  <2> HIDE DEF pos
  <2> QED
    BY <1>8 DEF Shown, n
<1> QED
  BY <1>3, <1>9 DEF t

\* A body of letters is its string.
LEMMA PlainLossy ==
  ASSUME NEW data \in Seq(Byte), \A k \in 1 .. Len(data) : data[k] \in Letter
  PROVE  /\ Len(Utf8Lossy(data)) = Len(data)
         /\ \A k \in 1 .. Len(data) : Utf8Lossy(data)[k] = [byte |-> data[k], at |-> k - 1]
<1> DEFINE s == Pieces(data)
           n == Len(data)
           t == Utf8Lossy(data)
<1>1. t = FlattenSeq(s) /\ s \in Seq(Seq(Char)) /\ Len(s) = n /\ n \in Nat
  BY PiecesFacts
<1>2. \A k \in 1 .. n : Len(s[k]) = 1 /\ s[k][1] = [byte |-> data[k], at |-> k - 1]
  BY PiecesFacts
<1> HIDE DEF s, n, t
<1>3. PICK begin : Laid(s, begin) /\ MadeOf(t, s, n, begin)
  BY <1>1, FlattenFacts
<1>4. /\ begin[1] = 0 /\ \A k \in 1 .. n : begin[k + 1] = begin[k] + Len(s[k])
      /\ Len(t) = begin[n + 1]
  BY <1>1, <1>3 DEF Laid, MadeOf
<1> DEFINE T == {k \in Nat : k + 1 \in 1 .. n + 1 => begin[k + 1] = k}
<1>5. Nat \subseteq T
  <2>1. 0 \in T
    BY <1>4
  <2>2. ASSUME NEW k \in Nat, k \in T PROVE k + 1 \in T
    <3> SUFFICES ASSUME (k + 1) + 1 \in 1 .. n + 1 PROVE begin[(k + 1) + 1] = k + 1
      OBVIOUS
    <3>1. k + 1 \in 1 .. n /\ k + 1 \in 1 .. n + 1
      BY <1>1
    <3> QED
      BY <1>2, <1>4, <2>2, <3>1
  <2> HIDE DEF T
  <2> QED
    BY <2>1, <2>2, SetInduction
<1>6. \A k \in 1 .. n + 1 : begin[k] = k - 1
  <2> SUFFICES ASSUME NEW k \in 1 .. n + 1 PROVE begin[k] = k - 1
    OBVIOUS
  <2>1. k - 1 \in Nat /\ (k - 1) + 1 = k
    BY <1>1
  <2>2. k - 1 \in T
    BY <1>5, <2>1
  <2> QED
    BY <2>1, <2>2
<1>7. Len(t) = n
  <2>1. n + 1 \in 1 .. n + 1 /\ (n + 1) - 1 = n
    BY <1>1
  <2> QED
    BY <1>4, <1>6, <2>1
<1>8. ASSUME NEW k \in 1 .. n PROVE t[k] = [byte |-> data[k], at |-> k - 1]
  <2>1. 1 \in 1 .. Len(s[k]) /\ k \in 1 .. n + 1 /\ (k - 1) + 1 = k
    <3>1. Len(s[k]) = 1
      BY <1>2
    <3> QED
      BY <1>1, <3>1
  <2>2. begin[k] + 1 = k /\ t[begin[k] + 1] = s[k][1]
    BY <1>3, <1>6, <2>1 DEF MadeOf
  <2> QED
    BY <1>2, <2>2
<1> QED
  BY <1>7, <1>8 DEF n, t

(***************************************************************************)
(* evaluate.                                                               *)
(***************************************************************************)
\* What is found from k on, when m says it for what comes after k.
EvaluateStep(source, word, m, k) ==
  IF k > Len(source) THEN << >>
  ELSE IF RawAt(source, k, word)
       THEN <<[start |-> k - 1, at |-> source[k].at]>> \o m[k + Len(word)]
       ELSE m[k + 1]

LEMMA SourceFacts ==
  ASSUME NEW source \in Seq(Char), NEW word \in Word
  PROVE  /\ Len(source) \in Nat /\ Len(word) \in Nat /\ Len(word) >= 1
         /\ \A k \in 1 .. Len(source) :
              /\ k - 1 \in Nat /\ source[k].at \in Nat
              /\ [start |-> k - 1, at |-> source[k].at] \in Hit
<1>1. Len(source) \in Nat /\ \A k \in 1 .. Len(source) : source[k] \in Char
  BY LenProperties, ElementOfSeq
<1>2. \A k \in 1 .. Len(source) : k - 1 \in Nat /\ source[k].at \in Nat
  BY <1>1 DEF Char
<1> QED
  BY <1>1, <1>2, WordFacts DEF Hit

LEMMA EvaluateRecursion ==
  ASSUME NEW source \in Seq(Char), NEW word \in Word
  PROVE  \E m : /\ Evaluate(source, word) = m[1]
                /\ \A k \in 1 .. Len(source) + Len(word) + 1 :
                     m[k] = EvaluateStep(source, word, m, k)
<1> DEFINE n == Len(source) + Len(word) + 1
           S == Seq(Hit)
           H == [p \in [1 .. n -> S] \X (1 .. n) |-> EvaluateStep(source, word, p[1], p[2])]
           F(m) == m = [k \in 1 .. n |-> EvaluateStep(source, word, m, k)]
<1>1. Len(source) \in Nat /\ Len(word) \in Nat /\ Len(word) >= 1 /\ n \in Nat
  BY SourceFacts
<1>2. ASSUME NEW k \in 1 .. n, k <= Len(source)
      PROVE  /\ k + 1 \in 1 .. n /\ k + 1 > k
             /\ k + Len(word) \in 1 .. n /\ k + Len(word) > k
  BY <1>1, <1>2
<1>3. ASSUME NEW m \in [1 .. n -> S], NEW k \in 1 .. n
      PROVE  EvaluateStep(source, word, m, k) \in S
  <2>1. CASE k > Len(source)
    BY <2>1, EmptySeq DEF EvaluateStep
  <2>2. CASE ~(k > Len(source))
    <3>1. k \in 1 .. Len(source) /\ k <= Len(source)
      BY <1>1, <2>2
    <3>2. m[k + 1] \in S /\ m[k + Len(word)] \in S
      <4>1. k + 1 \in 1 .. n /\ k + Len(word) \in 1 .. n
        BY <1>2, <3>1
      <4> HIDE DEF n
      <4> QED
        BY <4>1
    <3> DEFINE hit == [start |-> k - 1, at |-> source[k].at]
    <3>3. hit \in Hit
      BY <3>1, SourceFacts
    <3> HIDE DEF hit
    <3>4. <<hit>> \in S
      BY <3>3
    <3>5. <<hit>> \o m[k + Len(word)] \in S
      <4> HIDE DEF n
      <4> QED
        BY <3>2, <3>4, ConcatProperties
    <3> QED
      BY <2>2, <3>2, <3>5 DEF EvaluateStep, hit
  <2> QED
    BY <2>1, <2>2
<1>4. LooksAhead(n, S, H)
  <2>1. H \in [[1 .. n -> S] \X (1 .. n) -> S]
    <3>1. \A p \in [1 .. n -> S] \X (1 .. n) : EvaluateStep(source, word, p[1], p[2]) \in S
      BY <1>3
    <3> HIDE DEF S, n
    <3> QED
      BY <3>1
  <2>2. ASSUME NEW m \in [1 .. n -> S], NEW o \in [1 .. n -> S], NEW k \in 1 .. n,
               \A y \in 1 .. n : y > k => m[y] = o[y]
        PROVE  H[<<m, k>>] = H[<<o, k>>]
    <3>1. k <= Len(source) => m[k + 1] = o[k + 1] /\ m[k + Len(word)] = o[k + Len(word)]
      BY <1>2, <2>2
    <3>2. k > Len(source) \/ k <= Len(source)
      BY <1>1
    <3>3. EvaluateStep(source, word, m, k) = EvaluateStep(source, word, o, k)
      <4> HIDE DEF n
      <4> QED
        BY <3>1, <3>2 DEF EvaluateStep
    <3> QED
      BY <3>3
  <2> HIDE DEF S, H, n
  <2> QED
    BY <2>1, <2>2 DEF LooksAhead
<1>5. PICK m : Solves(m, 1 .. n, S, H)
  <2>1. S # {}
    BY EmptySeq
  <2> HIDE DEF S, H, n
  <2> QED
    BY <1>1, <1>4, <2>1, RecursionFromEnd
<1>6. F(m)
  <2>1. m \in [1 .. n -> S] /\ \A k \in 1 .. n : m[k] = EvaluateStep(source, word, m, k)
    BY <1>5 DEF Solves
  <2>2. m = [k \in 1 .. n |-> m[k]]
    BY <2>1
  <2> HIDE DEF n
  <2> QED
    BY <2>1, <2>2
<1> DEFINE M == CHOOSE t : F(t)
<1>7. F(M)
  BY <1>6
<1>8. Evaluate(source, word) = M[1]
  BY DEF Evaluate, EvaluateStep
<1>9. \A k \in 1 .. n : M[k] = EvaluateStep(source, word, M, k)
  <2> HIDE DEF M
  <2> QED
    BY <1>7
<1> QED
  BY <1>8, <1>9

\* A word that does not end with what it begins with: no two of them overlap.
Unbordered(word) ==
  \A d \in 1 .. Len(word) - 1 : \E k \in 1 .. Len(word) - d : word[k] # word[k + d]

LEMMA NoOverlapOfWord ==
  ASSUME NEW source \in Seq(Char), NEW word \in Word, Unbordered(word),
         NEW x \in Nat, NEW y \in Nat, x < y, y < x + Len(word),
         RawAt(source, x, word), RawAt(source, y, word)
  PROVE  FALSE
<1> DEFINE d == y - x
<1>1. Len(word) \in Nat
  BY WordFacts
<1>2. d \in 1 .. Len(word) - 1 /\ y = x + d
  BY <1>1
<1> HIDE DEF d
<1>3. PICK k \in 1 .. Len(word) - d : word[k] # word[k + d]
  BY <1>2 DEF Unbordered
<1>4. k \in 1 .. Len(word) /\ k + d \in 1 .. Len(word) /\ x + (k + d) - 1 = y + k - 1
  BY <1>1, <1>2
<1>5. source[x + (k + d) - 1].byte = word[k + d] /\ source[y + k - 1].byte = word[k]
  BY <1>4 DEF RawAt
<1> QED
  BY <1>3, <1>4, <1>5

\* t is what is found from x0 on: matches of the word, from left to right, none
\* overlapping another, and all of them if none can.
Hits(t, source, word, x0) ==
  /\ t \in Seq(Hit)
  /\ \A k \in 1 .. Len(t) :
       /\ t[k].start + 1 \in x0 .. Len(source)
       /\ RawAt(source, t[k].start + 1, word)
       /\ t[k].at = source[t[k].start + 1].at
  /\ \A j, k \in 1 .. Len(t) : j < k => t[j].start + Len(word) <= t[k].start
  /\ Unbordered(word) => \A x \in x0 .. Len(source) :
       RawAt(source, x, word) => \E k \in 1 .. Len(t) : t[k].start = x - 1

LEMMA HitsStep ==
  ASSUME NEW source \in Seq(Char), NEW word \in Word, NEW x \in 1 .. Len(source),
         NEW t, RawAt(source, x, word), Hits(t, source, word, x + Len(word))
  PROVE  Hits(<<[start |-> x - 1, at |-> source[x].at]>> \o t, source, word, x)
<1> DEFINE hit == [start |-> x - 1, at |-> source[x].at]
           u == <<hit>> \o t
<1>1. /\ Len(source) \in Nat /\ Len(word) \in Nat /\ Len(word) >= 1
      /\ hit \in Hit /\ x - 1 \in Nat /\ (x - 1) + 1 = x
      /\ hit.start = x - 1 /\ hit.at = source[x].at
  BY SourceFacts
<1>2. t \in Seq(Hit) /\ Len(t) \in Nat /\ \A k \in 1 .. Len(t) : t[k].start \in Nat
  <2>1. t \in Seq(Hit)
    BY DEF Hits
  <2>2. Len(t) \in Nat /\ \A k \in 1 .. Len(t) : t[k] \in Hit
    BY <2>1, LenProperties, ElementOfSeq
  <2> QED
    BY <2>1, <2>2 DEF Hit
<1> HIDE DEF hit
<1>3. <<hit>> \in Seq(Hit) /\ Len(<<hit>>) = 1 /\ <<hit>>[1] = hit
  BY <1>1
<1>4. /\ u \in Seq(Hit) /\ Len(u) = Len(t) + 1
      /\ \A k \in 1 .. Len(t) + 1 : u[k] = IF k <= 1 THEN <<hit>>[k] ELSE t[k - 1]
  <2>1. 1 + Len(t) = Len(t) + 1
    BY <1>2
  <2> QED
    BY <1>2, <1>3, <2>1, ConcatProperties
<1>5. /\ u[1] = hit
      /\ \A k \in 1 .. Len(t) : u[k + 1] = t[k]
      /\ \A k \in 1 .. Len(u) : k = 1 \/ (k - 1 \in 1 .. Len(t) /\ u[k] = t[k - 1])
  <2>1. 1 \in 1 .. Len(t) + 1
    BY <1>2
  <2>2. \A k \in 1 .. Len(t) : k + 1 \in 1 .. Len(t) + 1 /\ ~(k + 1 <= 1) /\ (k + 1) - 1 = k
    BY <1>2
  <2>3. \A k \in 1 .. Len(u) : k = 1 \/ (k - 1 \in 1 .. Len(t) /\ ~(k <= 1))
    BY <1>2, <1>4
  <2> HIDE DEF u
  <2> QED
    BY <1>3, <1>4, <2>1, <2>2, <2>3
<1> HIDE DEF u
<1>6. \A k \in 1 .. Len(t) : t[k].start + 1 >= x + Len(word) /\ t[k].start + 1 <= Len(source)
  BY <1>1, <1>2 DEF Hits
<1>7. \A k \in 1 .. Len(u) :
        /\ u[k].start + 1 \in x .. Len(source)
        /\ RawAt(source, u[k].start + 1, word)
        /\ u[k].at = source[u[k].start + 1].at
  <2> SUFFICES ASSUME NEW k \in 1 .. Len(u)
               PROVE  /\ u[k].start + 1 \in x .. Len(source)
                      /\ RawAt(source, u[k].start + 1, word)
                      /\ u[k].at = source[u[k].start + 1].at
    OBVIOUS
  <2>1. CASE k = 1
    BY <1>1, <1>5, <2>1
  <2>2. CASE k # 1
    <3>1. k - 1 \in 1 .. Len(t) /\ u[k] = t[k - 1]
      BY <1>5, <2>2
    <3>2. /\ t[k - 1].start \in Nat
          /\ t[k - 1].start + 1 >= x + Len(word) /\ t[k - 1].start + 1 <= Len(source)
      BY <1>2, <1>6, <3>1
    <3>3. t[k - 1].start + 1 \in x .. Len(source)
      BY <1>1, <3>2
    <3> QED
      BY <3>1, <3>3 DEF Hits
  <2> QED
    BY <2>1, <2>2
<1>8. ASSUME NEW j \in 1 .. Len(u), NEW k \in 1 .. Len(u), j < k
      PROVE  u[j].start + Len(word) <= u[k].start
  <2>1. k # 1 /\ k - 1 \in 1 .. Len(t) /\ u[k] = t[k - 1]
    BY <1>4, <1>5, <1>8
  <2>2. CASE j = 1
    <3>1. u[j].start = x - 1 /\ t[k - 1].start \in Nat /\ t[k - 1].start + 1 >= x + Len(word)
      BY <1>1, <1>2, <1>5, <1>6, <2>1, <2>2
    <3> QED
      BY <1>1, <2>1, <3>1
  <2>3. CASE j # 1
    <3>1. j - 1 \in 1 .. Len(t) /\ u[j] = t[j - 1]
      BY <1>5, <2>3
    <3>2. j - 1 < k - 1
      BY <1>8
    <3> QED
      BY <2>1, <3>1, <3>2 DEF Hits
  <2> QED
    BY <2>2, <2>3
<1>9. ASSUME Unbordered(word), NEW y \in x .. Len(source), RawAt(source, y, word)
      PROVE  \E k \in 1 .. Len(u) : u[k].start = y - 1
  <2>1. CASE y = x
    <3>1. 1 \in 1 .. Len(u)
      BY <1>2, <1>4
    <3> QED
      BY <1>1, <1>5, <2>1, <3>1
  <2>2. CASE y # x
    <3>1. x \in Nat /\ y \in Nat /\ x < y
      BY <2>2
    <3>2. ~(y < x + Len(word))
      BY <1>9, <3>1, NoOverlapOfWord
    <3>3. y \in x + Len(word) .. Len(source)
      BY <1>1, <3>1, <3>2
    <3>4. PICK k \in 1 .. Len(t) : t[k].start = y - 1
      BY <1>9, <3>3 DEF Hits
    <3>5. k + 1 \in 1 .. Len(u) /\ u[k + 1] = t[k]
      BY <1>2, <1>4, <1>5
    <3> QED
      BY <3>4, <3>5
  <2> QED
    BY <2>1, <2>2
<1>10. Hits(u, source, word, x)
  BY <1>4, <1>7, <1>8, <1>9 DEF Hits
<1> QED
  BY <1>10 DEF u, hit

LEMMA EvaluateFacts ==
  ASSUME NEW source \in Seq(Char), NEW word \in Word
  PROVE  Hits(Evaluate(source, word), source, word, 1)
<1> DEFINE n == Len(source) + Len(word) + 1
<1>1. Len(source) \in Nat /\ Len(word) \in Nat /\ Len(word) >= 1 /\ n \in Nat
  BY SourceFacts
<1>2. PICK m : /\ Evaluate(source, word) = m[1]
               /\ \A k \in 1 .. n : m[k] = EvaluateStep(source, word, m, k)
  BY EvaluateRecursion
<1> DEFINE T == {k \in 1 .. n : Hits(m[k], source, word, k)}
<1>3. ASSUME NEW k \in 1 .. n, \A y \in 1 .. n : y > k => y \in T
      PROVE  Hits(m[k], source, word, k)
  <2>1. m[k] = EvaluateStep(source, word, m, k)
    BY <1>2
  <2>2. CASE k > Len(source)
    <3>1. m[k] = << >> /\ << >> \in Seq(Hit) /\ Len(<< >>) = 0
      BY <2>1, <2>2, EmptySeq DEF EvaluateStep
    <3>2. k .. Len(source) = {} /\ 1 .. 0 = {}
      BY <1>1, <2>2
    <3> QED
      BY <3>1, <3>2 DEF Hits
  <2>3. CASE ~(k > Len(source)) /\ RawAt(source, k, word)
    <3>1. k \in 1 .. Len(source) /\ k + Len(word) \in 1 .. n /\ k + Len(word) > k
      BY <1>1, <2>3
    <3>2. Hits(m[k + Len(word)], source, word, k + Len(word))
      BY <1>3, <3>1
    <3>3. m[k] = <<[start |-> k - 1, at |-> source[k].at]>> \o m[k + Len(word)]
      BY <2>1, <2>3 DEF EvaluateStep
    <3> QED
      BY <2>3, <3>1, <3>2, <3>3, HitsStep
  <2>4. CASE ~(k > Len(source)) /\ ~RawAt(source, k, word)
    <3>1. k \in 1 .. Len(source) /\ k + 1 \in 1 .. n /\ k + 1 > k
      BY <1>1, <2>4
    <3>2. Hits(m[k + 1], source, word, k + 1) /\ m[k] = m[k + 1]
      BY <1>3, <2>1, <2>4, <3>1 DEF EvaluateStep
    <3>3. /\ \A x \in k + 1 .. Len(source) : x \in k .. Len(source)
          /\ \A x \in k .. Len(source) : x = k \/ x \in k + 1 .. Len(source)
      BY <3>1
    <3> QED
      BY <2>4, <3>2, <3>3 DEF Hits
  <2> QED
    BY <2>2, <2>3, <2>4
<1>4. T = 1 .. n
  <2>1. T \in SUBSET (1 .. n)
    OBVIOUS
  <2>2. \A k \in 1 .. n : (\A y \in 1 .. n : y > k => y \in T) => k \in T
    BY <1>3
  <2> HIDE DEF T, n
  <2> QED
    BY <1>1, <2>1, <2>2, FromTheEnd
<1>5. 1 \in 1 .. n
  BY <1>1
<1> QED
  BY <1>2, <1>4, <1>5

(***************************************************************************)
(* do_matching: what is reported of what was found.                        *)
(***************************************************************************)
\* The sequences that have at most one element each, in one: their elements in their
\* order.
LEMMA FilterFacts ==
  ASSUME NEW S, NEW s \in Seq(Seq(S)), \A k \in 1 .. Len(s) : Len(s[k]) \in 0 .. 1
  PROVE  \E from :
           /\ \A x \in 1 .. Len(FlattenSeq(s)) :
                /\ from[x] \in 1 .. Len(s)
                /\ Len(s[from[x]]) = 1 /\ FlattenSeq(s)[x] = s[from[x]][1]
           /\ \A x, y \in 1 .. Len(FlattenSeq(s)) : x < y => from[x] < from[y]
           /\ \A k \in 1 .. Len(s) : Len(s[k]) = 1 =>
                \E x \in 1 .. Len(FlattenSeq(s)) : FlattenSeq(s)[x] = s[k][1]
<1> DEFINE t == FlattenSeq(s)
           n == Len(s)
<1>1. n \in Nat
  BY LenProperties
<1>2. PICK begin : Laid(s, begin) /\ MadeOf(t, s, n, begin)
  BY FlattenFacts
<1> HIDE DEF t, n
<1>3. /\ \A k \in 1 .. n + 1 : begin[k] \in Nat
      /\ \A k \in 1 .. n : begin[k + 1] = begin[k] + Len(s[k])
  BY <1>2 DEF Laid, n
<1>4. \A x \in 1 .. Len(t) : \E k \in 1 .. n :
        x = begin[k] + 1 /\ Len(s[k]) = 1 /\ t[x] = s[k][1]
  <2> SUFFICES ASSUME NEW x \in 1 .. Len(t)
               PROVE  \E k \in 1 .. n : x = begin[k] + 1 /\ Len(s[k]) = 1 /\ t[x] = s[k][1]
    OBVIOUS
  <2>1. PICK k \in 1 .. n : \E j \in 1 .. Len(s[k]) : x = begin[k] + j /\ t[x] = s[k][j]
    BY <1>2 DEF MadeOf
  <2>2. PICK j \in 1 .. Len(s[k]) : x = begin[k] + j /\ t[x] = s[k][j]
    BY <2>1
  <2>3. Len(s[k]) = 1 /\ j = 1
    BY <2>2 DEF n
  <2> QED
    BY <2>2, <2>3
<1> DEFINE from == [x \in 1 .. Len(t) |->
                      CHOOSE k \in 1 .. n : x = begin[k] + 1 /\ Len(s[k]) = 1 /\ t[x] = s[k][1]]
<1>5. \A x \in 1 .. Len(t) : /\ from[x] \in 1 .. n /\ x = begin[from[x]] + 1
                             /\ Len(s[from[x]]) = 1 /\ t[x] = s[from[x]][1]
  BY <1>4
<1> HIDE DEF from
\* begin does not fall.
<1> DEFINE T(l) == {d \in Nat : l + d \in 1 .. n + 1 => begin[l] <= begin[l + d]}
<1>6. ASSUME NEW l \in 1 .. n + 1 PROVE Nat \subseteq T(l)
  <2>1. 0 \in T(l)
    BY <1>3
  <2>2. ASSUME NEW d \in Nat, d \in T(l) PROVE d + 1 \in T(l)
    <3> SUFFICES ASSUME l + (d + 1) \in 1 .. n + 1 PROVE begin[l] <= begin[l + (d + 1)]
      OBVIOUS
    <3>1. /\ l + d \in 1 .. n /\ l + d \in 1 .. n + 1 /\ l + (d + 1) = (l + d) + 1
      BY <1>1
    <3>2. /\ begin[l] \in Nat /\ begin[l + d] \in Nat /\ begin[l] <= begin[l + d]
          /\ begin[(l + d) + 1] = begin[l + d] + Len(s[l + d]) /\ Len(s[l + d]) \in 0 .. 1
      BY <1>3, <2>2, <3>1 DEF n
    <3> QED
      BY <3>1, <3>2
  <2> HIDE DEF T
  <2> QED
    BY <2>1, <2>2, SetInduction
<1>7. ASSUME NEW x \in 1 .. Len(t), NEW y \in 1 .. Len(t), x < y PROVE from[x] < from[y]
  <2> DEFINE a == from[x]
             b == from[y]
  <2>1. a \in 1 .. n /\ b \in 1 .. n /\ x = begin[a] + 1 /\ y = begin[b] + 1
    BY <1>5
  <2> HIDE DEF a, b
  <2>2. a \in 1 .. n + 1 /\ b \in 1 .. n + 1 /\ begin[a] \in Nat /\ begin[b] \in Nat
    BY <1>1, <1>3, <2>1
  <2>3. begin[a] < begin[b]
    BY <1>7, <2>1, <2>2
  <2>4. ASSUME b <= a PROVE FALSE
    <3>1. a - b \in Nat /\ b + (a - b) = a
      BY <2>1, <2>4
    <3>2. a - b \in T(b)
      BY <1>6, <2>2, <3>1
    <3>3. begin[b] <= begin[a]
      BY <2>2, <3>1, <3>2
    <3> QED
      BY <2>2, <2>3, <3>3
  <2>5. a < b
    BY <2>1, <2>4
  <2> QED
    BY <2>5 DEF a, b
<1>8. ASSUME NEW k \in 1 .. n, Len(s[k]) = 1
      PROVE  \E x \in 1 .. Len(t) : t[x] = s[k][1]
  <2>1. 1 \in 1 .. Len(s[k])
    BY <1>8
  <2>2. begin[k] + 1 \in 1 .. Len(t) /\ t[begin[k] + 1] = s[k][1]
    BY <1>2, <2>1 DEF MadeOf
  <2> QED
    BY <2>2
<1> QED
  BY <1>5, <1>7, <1>8 DEF t, n

\* What is reported of a piece that begins at `first`, when all that ends up to `min`
\* was reported before: in their order, the matches that are new.
New(t, source, word, first, min) ==
  /\ t \in Seq(Hit)
  /\ \A x \in 1 .. Len(t) : \E p \in 1 .. Len(source) :
       /\ RawAt(source, p, word)
       /\ t[x].start = p - 1 + first /\ t[x].at = source[p].at + first
       /\ ~(t[x].start + Len(word) <= min)
  /\ \A x, y \in 1 .. Len(t) : x < y => t[x].start + Len(word) <= t[y].start
  /\ Unbordered(word) => \A p \in 1 .. Len(source) :
       RawAt(source, p, word) /\ ~(p - 1 + first + Len(word) <= min) =>
         \E x \in 1 .. Len(t) : t[x].at = source[p].at + first

LEMMA DoMatchingFacts ==
  ASSUME NEW data \in Seq(Byte), raw \in Word, NEW first \in Nat, NEW min \in Nat
  PROVE  New(DoMatching(first, first, min, data), Utf8Lossy(data), raw, first, min)
<1> DEFINE source == Utf8Lossy(data)
           found == Evaluate(source, raw)
           hit(k) == [start |-> found[k].start + first, at |-> found[k].at + first]
           old(k) == found[k].start + first + Len(raw) <= min
           s == [k \in DOMAIN found |-> IF old(k) THEN << >> ELSE <<hit(k)>>]
           t == FlattenSeq(s)
<1>1. source \in Seq(Char)
  BY LossyFacts
<1>2. Len(source) \in Nat /\ Len(raw) \in Nat
      /\ \A p \in 1 .. Len(source) : source[p].at \in Nat
  BY <1>1, SourceFacts
<1> HIDE DEF source
<1>3. Hits(found, source, raw, 1)
  BY <1>1, EvaluateFacts
<1> HIDE DEF found
<1>4. /\ found \in Seq(Hit) /\ Len(found) \in Nat /\ DOMAIN found = 1 .. Len(found)
      /\ \A k \in 1 .. Len(found) : found[k].start \in Nat /\ found[k].at \in Nat
  <2>1. found \in Seq(Hit)
    BY <1>3 DEF Hits
  <2>2. Len(found) \in Nat /\ DOMAIN found = 1 .. Len(found)
        /\ \A k \in 1 .. Len(found) : found[k] \in Hit
    BY <2>1, LenProperties, ElementOfSeq
  <2> QED
    BY <2>1, <2>2 DEF Hit
<1>5. DoMatching(first, first, min, data) = t
  BY DEF DoMatching, Duplicated, source, found
<1>6. ASSUME NEW k \in 1 .. Len(found)
      PROVE  /\ hit(k) \in Hit
             /\ s[k] \in Seq(Hit) /\ Len(s[k]) \in 0 .. 1
             /\ Len(s[k]) = 1 <=> ~old(k)
             /\ Len(s[k]) = 1 => s[k][1] = hit(k)
  <2>1. hit(k) \in Hit
    <3> DEFINE a == found[k].start + first
               b == found[k].at + first
    <3>1. a \in Nat /\ b \in Nat
      BY <1>4
    <3> HIDE DEF a, b
    <3>2. [start |-> a, at |-> b] \in Hit
      BY <3>1 DEF Hit
    <3> QED
      BY <3>2 DEF a, b
  <2>2. s[k] = IF old(k) THEN << >> ELSE <<hit(k)>>
    BY <1>4
  <2> HIDE DEF s, hit, old
  <2>3. << >> \in Seq(Hit) /\ Len(<< >>) = 0
    BY EmptySeq
  <2>4. <<hit(k)>> \in Seq(Hit) /\ Len(<<hit(k)>>) = 1 /\ <<hit(k)>>[1] = hit(k)
    BY <2>1
  <2> QED
    BY <2>1, <2>2, <2>3, <2>4
<1>7. s \in Seq(Seq(Hit)) /\ Len(s) = Len(found)
  <2>1. s = [k \in 1 .. Len(found) |-> s[k]]
    BY <1>4
  <2> HIDE DEF s
  <2>2. s \in [1 .. Len(found) -> Seq(Hit)]
    BY <1>6, <2>1
  <2> QED
    BY <1>4, <2>2, SeqOfFunction
<1>8. \A k \in 1 .. Len(found) : /\ hit(k).start = found[k].start + first
                                 /\ hit(k).at = found[k].at + first
  OBVIOUS
<1> HIDE DEF s, hit
<1>9. t \in Seq(Hit)
  BY <1>7, FlattenFacts
<1>10. PICK from :
         /\ \A x \in 1 .. Len(t) :
              /\ from[x] \in 1 .. Len(s)
              /\ Len(s[from[x]]) = 1 /\ t[x] = s[from[x]][1]
         /\ \A x, y \in 1 .. Len(t) : x < y => from[x] < from[y]
         /\ \A k \in 1 .. Len(s) : Len(s[k]) = 1 => \E x \in 1 .. Len(t) : t[x] = s[k][1]
  BY <1>6, <1>7, FilterFacts
<1> HIDE DEF t
<1>11. \A x \in 1 .. Len(t) :
         from[x] \in 1 .. Len(found) /\ t[x] = hit(from[x]) /\ ~old(from[x])
  BY <1>6, <1>7, <1>10
<1>12. ASSUME NEW x \in 1 .. Len(t)
       PROVE  \E p \in 1 .. Len(source) :
                /\ RawAt(source, p, raw)
                /\ t[x].start = p - 1 + first /\ t[x].at = source[p].at + first
                /\ ~(t[x].start + Len(raw) <= min)
  <2> DEFINE k == from[x]
             p == found[k].start + 1
  <2>1. k \in 1 .. Len(found) /\ t[x] = hit(k) /\ ~old(k)
    BY <1>11
  <2>2. p \in 1 .. Len(source) /\ RawAt(source, p, raw) /\ found[k].at = source[p].at
    BY <1>3, <2>1 DEF Hits
  <2>3. t[x].start = found[k].start + first /\ t[x].at = found[k].at + first
        /\ found[k].start \in Nat
    BY <1>4, <1>8, <2>1
  <2>4. p - 1 + first = found[k].start + first
    BY <2>3
  <2> HIDE DEF p
  <2> QED
    BY <2>1, <2>2, <2>3, <2>4
<1>13. ASSUME NEW x \in 1 .. Len(t), NEW y \in 1 .. Len(t), x < y
       PROVE  t[x].start + Len(raw) <= t[y].start
  <2>1. /\ from[x] \in 1 .. Len(found) /\ from[y] \in 1 .. Len(found) /\ from[x] < from[y]
        /\ t[x].start = found[from[x]].start + first
        /\ t[y].start = found[from[y]].start + first
    BY <1>8, <1>10, <1>11, <1>13
  <2>2. /\ found[from[x]].start + Len(raw) <= found[from[y]].start
        /\ found[from[x]].start \in Nat /\ found[from[y]].start \in Nat
    BY <1>3, <1>4, <2>1 DEF Hits
  <2> DEFINE a == found[from[x]].start
             b == found[from[y]].start
             len == Len(raw)
  <2>3. a \in Nat /\ b \in Nat /\ len \in Nat /\ a + len <= b
    BY <1>2, <2>2
  <2>4. t[x].start = a + first /\ t[y].start = b + first
    BY <2>1
  <2> HIDE DEF a, b, len
  <2>5. (a + first) + len <= b + first
    BY <2>3
  <2> QED
    BY <2>4, <2>5 DEF len
<1>14. ASSUME Unbordered(raw), NEW p \in 1 .. Len(source), RawAt(source, p, raw),
              ~(p - 1 + first + Len(raw) <= min)
       PROVE  \E x \in 1 .. Len(t) : t[x].at = source[p].at + first
  <2>1. PICK k \in 1 .. Len(found) : found[k].start = p - 1
    BY <1>3, <1>14 DEF Hits
  <2>2. found[k].start + 1 = p
    BY <2>1
  <2>3. found[k].at = source[p].at /\ ~old(k)
    <3>1. found[k].at = source[found[k].start + 1].at
      BY <1>3 DEF Hits
    <3>2. ~old(k)
      BY <1>14, <2>1
    <3> QED
      BY <2>2, <3>1, <3>2
  <2>4. Len(s[k]) = 1 /\ s[k][1] = hit(k) /\ k \in 1 .. Len(s)
    BY <1>6, <1>7, <2>3
  <2>5. PICK x \in 1 .. Len(t) : t[x] = hit(k)
    BY <1>10, <2>4
  <2> QED
    BY <1>8, <2>3, <2>5
<1>15. New(t, source, raw, first, min)
  BY <1>9, <1>12, <1>13, <1>14 DEF New
<1> QED
  BY <1>5, <1>15 DEF source

(***************************************************************************)
(* parse_html: the pieces of the body.                                     *)
(***************************************************************************)
\* The word is in the body at s.
At(word, s) == \A k \in 1 .. Len(word) : body[s + k] = word[k]

LEMMA OccursAt ==
  ASSUME NEW word \in Word, body \in Seq(Byte), NEW s \in Nat, s + Len(word) <= Len(body)
  PROVE  SubSeq(body, s + 1, s + Len(word)) = word <=> At(word, s)
<1> DEFINE lo == s + 1
           hi == s + Len(word)
           sub == SubSeq(body, lo, hi)
<1>1. /\ Len(word) \in Nat /\ Len(body) \in Nat /\ word \in Seq(Letter)
      /\ \A k \in 1 .. Len(word) : word[k] \in Letter
  BY WordFacts, LenProperties
<1>2. \A k \in lo .. hi : body[k] \in Byte
  <2>1. \A k \in lo .. hi : k \in 1 .. Len(body)
    BY <1>1
  <2> QED
    BY <2>1, ElementOfSeq
<1>3. /\ lo \in Int /\ hi \in Int /\ hi - lo + 1 = Len(word)
      /\ Len(word) = 0 \/ lo <= hi
      /\ \A k \in 1 .. Len(word) : lo + k - 1 = s + k
  BY <1>1
<1>4. /\ sub \in Seq(Byte)
      /\ Len(sub) = IF lo <= hi THEN hi - lo + 1 ELSE 0
      /\ \A k \in 1 .. hi - lo + 1 : sub[k] = body[lo + k - 1]
  <2> HIDE DEF Byte, lo, hi
  <2> QED
    BY <1>2, <1>3, SubSeqProperties
<1>5. Len(sub) = Len(word) /\ \A k \in 1 .. Len(word) : sub[k] = body[s + k]
  <2> HIDE DEF sub, lo, hi
  <2>1. Len(sub) = Len(word)
    BY <1>1, <1>3, <1>4
  <2> QED
    BY <1>3, <1>4, <2>1
<1>6. word \in Seq(Byte)
  <2>1. Seq(Letter) \subseteq Seq(Byte)
    <3>1. Letter \subseteq Byte
      BY DEF Letter, Byte
    <3> QED
      BY <3>1
  <2> QED
    BY <1>1, <2>1
<1> HIDE DEF sub
<1>7. At(word, s) => sub = word
  <2> HIDE DEF Byte
  <2> QED
    BY <1>4, <1>5, <1>6, SeqEqual DEF At
<1> QED
  BY <1>5, <1>7 DEF At, sub

\* chunk is the last part of what was read, and its end is what is read again: all of
\* the overlap that there is.
Cut ==
  /\ body \in Seq(Byte) /\ raw \in Word /\ chunk \in Seq(Byte)
  /\ total_read \in 0 .. Len(body)
  /\ Len(chunk) <= total_read /\ Len(chunk) <= ChunkSize
  /\ Overlap(total_read) <= Len(chunk)
  /\ overlap_index = Overlap(Len(chunk))
  /\ \A k \in 1 .. Len(chunk) : chunk[k] = body[total_read - Len(chunk) + k]
  /\ matches \in Seq(Hit)
  /\ done \in BOOLEAN

\* The next piece of the body begins where the overlap does.
Extended(n, first, t) ==
  /\ n \in Nat /\ n >= 1 /\ first \in Nat
  /\ first = Index /\ total_read = first + overlap_index
  /\ total_read' = total_read + n /\ total_read + n <= Len(body)
  /\ chunk' \in Seq(Byte)
  /\ Len(chunk') = overlap_index + n /\ Len(chunk') <= ChunkSize
  /\ first + Len(chunk') = total_read'
  /\ \A k \in 1 .. Len(chunk') : chunk'[k] = body[first + k]
  /\ UNCHANGED <<body, raw>>
  /\ New(t, Utf8Lossy(chunk'), raw, first, total_read)
  /\ matches' = matches \o t

LEMMA CutFacts ==
  ASSUME Cut
  PROVE  /\ total_read \in Nat /\ Len(chunk) \in Nat /\ Len(body) \in Nat
         /\ ChunkOverlap \in Nat /\ ChunkSize \in Nat /\ ChunkOverlap < ChunkSize
         /\ overlap_index = Overlap(total_read)
         /\ overlap_index \in Nat /\ overlap_index <= Len(chunk)
         /\ overlap_index <= total_read /\ overlap_index <= ChunkOverlap
<1>1. /\ total_read \in Nat /\ Len(chunk) \in Nat /\ Len(body) \in Nat
      /\ Len(chunk) <= total_read
  BY LenProperties DEF Cut
<1>2. ChunkOverlap \in Nat /\ ChunkSize \in Nat /\ ChunkOverlap < ChunkSize
  BY ChunkAssumption
<1>3. Overlap(total_read) <= Len(chunk) /\ overlap_index = Overlap(Len(chunk))
  BY DEF Cut
<1> QED
  BY <1>1, <1>2, <1>3 DEF Overlap

LEMMA ReadExtends ==
  ASSUME Cut, NEW n \in 1 .. ChunkSize, Read(n)
  PROVE  \E first, t : Extended(n, first, t)
<1> DEFINE first == total_read - overlap_index
           from == Len(chunk) - overlap_index + 1
           kept == SubSeq(chunk, from, Len(chunk))
           lo == total_read + 1
           hi == total_read + n
           added == SubSeq(body, lo, hi)
           t == DoMatching(first, first, total_read, chunk')
<1>1. /\ total_read \in Nat /\ Len(chunk) \in Nat /\ Len(body) \in Nat
      /\ overlap_index \in Nat /\ overlap_index <= Len(chunk)
      /\ overlap_index <= total_read
  BY CutFacts
<1>2. /\ n \in Nat /\ n >= 1 /\ ChunkSize \in Nat
      /\ n <= ChunkSize - overlap_index /\ total_read + n <= Len(body)
      /\ chunk' = kept \o added
      /\ total_read' = total_read + n
      /\ matches' = matches \o DoMatching(total_read' - Len(chunk'), Index, total_read, chunk')
      /\ UNCHANGED <<body, raw>>
  BY CutFacts DEF Read
<1>3. /\ body \in Seq(Byte) /\ chunk \in Seq(Byte) /\ raw \in Word
      /\ \A k \in 1 .. Len(chunk) : chunk[k] = body[total_read - Len(chunk) + k]
  BY DEF Cut
<1>4. /\ kept \in Seq(Byte) /\ Len(kept) = overlap_index
      /\ \A k \in 1 .. overlap_index : kept[k] = body[first + k]
  <2>1. from \in Int /\ Len(chunk) \in Int
    BY <1>1
  <2>2. \A k \in from .. Len(chunk) : chunk[k] \in Byte
    <3>1. \A k \in from .. Len(chunk) : k \in 1 .. Len(chunk)
      BY <1>1
    <3> QED
      BY <1>3, <3>1, ElementOfSeq
  <2>3. /\ kept \in Seq(Byte)
        /\ Len(kept) = IF from <= Len(chunk) THEN Len(chunk) - from + 1 ELSE 0
        /\ \A k \in 1 .. Len(chunk) - from + 1 : kept[k] = chunk[from + k - 1]
    <3> HIDE DEF Byte, from
    <3> QED
      BY <2>1, <2>2, SubSeqProperties
  <2>4. Len(chunk) - from + 1 = overlap_index /\ (from <= Len(chunk) \/ overlap_index = 0)
    BY <1>1
  <2>5. \A k \in 1 .. overlap_index :
          /\ from + k - 1 \in 1 .. Len(chunk)
          /\ total_read - Len(chunk) + (from + k - 1) = first + k
    BY <1>1
  <2> HIDE DEF kept, from, first
  <2>6. Len(kept) = overlap_index
    BY <1>1, <2>3, <2>4
  <2>7. \A k \in 1 .. overlap_index : kept[k] = chunk[from + k - 1]
    BY <2>3, <2>4
  <2> QED
    BY <1>3, <2>3, <2>5, <2>6, <2>7
<1>5. /\ added \in Seq(Byte) /\ Len(added) = n
      /\ \A k \in 1 .. n : added[k] = body[total_read + k]
  <2>1. lo \in Int /\ hi \in Int
    BY <1>1, <1>2
  <2>2. \A k \in lo .. hi : body[k] \in Byte
    <3>1. \A k \in lo .. hi : k \in 1 .. Len(body)
      BY <1>1, <1>2
    <3> QED
      BY <1>3, <3>1, ElementOfSeq
  <2>3. lo <= hi /\ hi - lo + 1 = n
    BY <1>1, <1>2
  <2>4. \A k \in 1 .. n : lo + k - 1 = total_read + k
    BY <1>1
  <2>5. /\ added \in Seq(Byte)
        /\ Len(added) = IF lo <= hi THEN hi - lo + 1 ELSE 0
        /\ \A k \in 1 .. hi - lo + 1 : added[k] = body[lo + k - 1]
    <3> HIDE DEF Byte, lo, hi
    <3> QED
      BY <2>1, <2>2, SubSeqProperties
  <2> HIDE DEF added, lo, hi
  <2> QED
    BY <2>3, <2>4, <2>5
<1> HIDE DEF kept, added, lo, hi
<1>6. /\ chunk' \in Seq(Byte) /\ Len(chunk') = overlap_index + n
      /\ \A k \in 1 .. overlap_index + n :
           chunk'[k] = IF k <= overlap_index THEN kept[k] ELSE added[k - overlap_index]
  <2> DEFINE both == kept \o added
  <2>1. /\ both \in Seq(Byte) /\ Len(both) = Len(kept) + Len(added)
        /\ \A k \in 1 .. Len(kept) + Len(added) :
             both[k] = IF k <= Len(kept) THEN kept[k] ELSE added[k - Len(kept)]
    <3> HIDE DEF Byte
    <3> QED
      BY <1>4, <1>5, ConcatProperties, ZenonT(30)
  <2>2. chunk' = both
    BY <1>2
  <2> HIDE DEF both
  <2> QED
    BY <1>4, <1>5, <2>1, <2>2
<1>7. /\ first \in Nat /\ total_read = first + overlap_index
      /\ total_read' - Len(chunk') = first /\ first + Len(chunk') = total_read'
      /\ Len(chunk') <= ChunkSize
  BY <1>1, <1>2, <1>6
<1>8. ASSUME NEW k \in 1 .. Len(chunk') PROVE chunk'[k] = body[first + k]
  <2>1. CASE k <= overlap_index
    <3>1. k \in 1 .. overlap_index /\ k \in 1 .. overlap_index + n
      BY <1>1, <1>2, <1>6, <2>1
    <3> HIDE DEF first
    <3> QED
      BY <1>4, <1>6, <2>1, <3>1
  <2>2. CASE ~(k <= overlap_index)
    <3>1. k \in 1 .. overlap_index + n
      BY <1>6
    <3>2. k - overlap_index \in 1 .. n
      BY <1>1, <1>2, <2>2, <3>1
    <3>3. total_read + (k - overlap_index) = first + k
      BY <1>1, <3>1
    <3> HIDE DEF first
    <3> QED
      BY <1>5, <1>6, <2>2, <3>1, <3>2, <3>3
  <2> QED
    BY <2>1, <2>2
<1>9. first = Index
  BY DEF Index
<1>10. matches' = matches \o t
  BY <1>2, <1>7, <1>9
<1> HIDE DEF first
<1>11. New(t, Utf8Lossy(chunk'), raw, first, total_read)
  BY <1>1, <1>3, <1>6, <1>7, DoMatchingFacts
<1> HIDE DEF t
<1>12. Extended(n, first, t)
  BY <1>1, <1>2, <1>6, <1>7, <1>8, <1>9, <1>10, <1>11 DEF Extended
<1> QED
  BY <1>12

LEMMA CutInit == Init => Cut
<1> SUFFICES ASSUME Init PROVE Cut
  OBVIOUS
<1>1. /\ Bodies \subseteq Seq(Byte) /\ Raws \subseteq Word
      /\ ChunkOverlap \in Nat /\ ChunkSize \in Nat
  BY ChunkAssumption DEF Byte, Word, Letter
<1>2. /\ body \in Seq(Byte) /\ raw \in Word /\ Len(body) \in Nat
      /\ total_read = 0 /\ chunk = << >> /\ overlap_index = 0 /\ matches = << >>
      /\ done = FALSE
  BY <1>1, LenProperties DEF Init
<1>3. Len(chunk) = 0 /\ chunk \in Seq(Byte) /\ matches \in Seq(Hit)
  BY <1>2, EmptySeq
<1>4. Overlap(0) = 0
  BY <1>1 DEF Overlap
<1>5. \A k \in 1 .. Len(chunk) : chunk[k] = body[total_read - Len(chunk) + k]
  BY <1>3
<1>6. /\ total_read \in 0 .. Len(body)
      /\ Len(chunk) <= total_read /\ Len(chunk) <= ChunkSize
      /\ Overlap(total_read) <= Len(chunk) /\ overlap_index = Overlap(Len(chunk))
  BY <1>1, <1>2, <1>3, <1>4
<1> QED
  BY <1>2, <1>3, <1>5, <1>6 DEF Cut

LEMMA CutRead ==
  ASSUME Cut, NEW n \in 1 .. ChunkSize, Read(n)
  PROVE  Cut'
<1>1. PICK first, t : Extended(n, first, t)
  BY ReadExtends
<1>2. /\ n \in Nat /\ n >= 1 /\ first \in Nat /\ total_read' = total_read + n
      /\ total_read = first + overlap_index
      /\ chunk' \in Seq(Byte) /\ Len(chunk') = overlap_index + n /\ Len(chunk') <= ChunkSize
      /\ first + Len(chunk') = total_read'
      /\ \A k \in 1 .. Len(chunk') : chunk'[k] = body[first + k]
      /\ body' = body /\ raw' = raw /\ matches' = matches \o t /\ t \in Seq(Hit)
  BY <1>1 DEF Extended, New
<1>3. /\ total_read \in Nat /\ Len(body) \in Nat
      /\ ChunkOverlap \in Nat /\ overlap_index \in Nat /\ overlap_index = Overlap(total_read)
  BY CutFacts
<1>4. /\ total_read + n <= Len(body) /\ overlap_index' = Overlap(Len(chunk'))
      /\ done' = done
  BY <1>3 DEF Read
<1>5. /\ body \in Seq(Byte) /\ raw \in Word /\ matches \in Seq(Hit) /\ done \in BOOLEAN
  BY DEF Cut
<1>6. matches' \in Seq(Hit)
  BY <1>2, <1>5, ConcatProperties
<1>7. Overlap(total_read + n) <= overlap_index + n
  BY <1>2, <1>3 DEF Overlap
<1>8. total_read' \in 0 .. Len(body) /\ Len(chunk') <= total_read'
  <2>1. total_read' \in 0 .. Len(body)
    <3>1. /\ n \in Nat /\ total_read \in Nat /\ Len(body) \in Nat
          /\ total_read + n <= Len(body) /\ total_read' = total_read + n
      BY <1>2, <1>3, <1>4
    <3> QED
      BY <3>1
  <2>2. Len(chunk') \in Nat
    BY <1>2, <1>3
  <2> QED
    BY <1>2, <2>1, <2>2
<1>9. total_read' - Len(chunk') = first
  <2>1. first + Len(chunk') = total_read' /\ first \in Nat /\ Len(chunk') \in Nat
    BY <1>2, <1>3
  <2> QED
    BY <2>1
<1>10. Overlap(total_read') <= Len(chunk')
  BY <1>2, <1>7
<1>11. /\ body' \in Seq(Byte) /\ raw' \in Word
       /\ total_read' \in 0 .. Len(body')
       /\ Len(chunk') <= ChunkSize
       /\ \A k \in 1 .. Len(chunk') : chunk'[k] = body'[total_read' - Len(chunk') + k]
       /\ done' \in BOOLEAN
  BY <1>2, <1>4, <1>5, <1>8, <1>9
<1> QED
  BY <1>2, <1>4, <1>6, <1>8, <1>10, <1>11 DEF Cut, Overlap

LEMMA CutStep == Cut /\ [Next]_vars => Cut'
<1> SUFFICES ASSUME Cut, [Next]_vars PROVE Cut'
  OBVIOUS
<1>1. CASE \E n \in 1 .. ChunkSize : Read(n)
  BY <1>1, CutRead
<1>2. CASE ReadEnd
  BY <1>2 DEF ReadEnd, Cut, Overlap
<1>3. CASE UNCHANGED vars
  BY <1>3 DEF vars, Cut, Overlap
<1> QED
  BY <1>1, <1>2, <1>3 DEF Next

\* How HtmlScan cuts a body, whatever the pipe holds at each read.
LEMMA CutHolds == Spec => []Cut
BY CutInit, CutStep, PTL DEF Spec

LEMMA CutTypes == Cut => TypeOK
<1> SUFFICES ASSUME Cut PROVE TypeOK
  OBVIOUS
<1>1. /\ total_read \in Nat /\ Len(chunk) \in Nat /\ Len(body) \in Nat
      /\ overlap_index \in Nat /\ overlap_index <= Len(chunk)
  BY CutFacts
<1>2. /\ body \in Seq(Byte) /\ chunk \in Seq(Byte) /\ total_read \in 0 .. Len(body)
      /\ Len(chunk) <= total_read /\ Len(chunk) <= ChunkSize
      /\ \A k \in 1 .. Len(chunk) : chunk[k] = body[total_read - Len(chunk) + k]
      /\ matches \in Seq(Hit) /\ done \in BOOLEAN
  BY DEF Cut
<1> DEFINE lo == total_read - Len(chunk) + 1
           sub == SubSeq(body, lo, total_read)
<1>3. sub = chunk
  <2>1. lo \in Int /\ total_read \in Int /\ total_read - lo + 1 = Len(chunk)
        /\ (lo <= total_read \/ Len(chunk) = 0)
    BY <1>1
  <2>2. \A k \in lo .. total_read : body[k] \in Byte
    <3>1. \A k \in lo .. total_read : k \in 1 .. Len(body)
      BY <1>1, <1>2
    <3> QED
      BY <1>2, <3>1, ElementOfSeq
  <2>3. \A k \in 1 .. Len(chunk) : lo + k - 1 = total_read - Len(chunk) + k
    BY <1>1
  <2>4. /\ sub \in Seq(Byte)
        /\ Len(sub) = IF lo <= total_read THEN total_read - lo + 1 ELSE 0
        /\ \A k \in 1 .. total_read - lo + 1 : sub[k] = body[lo + k - 1]
    <3> HIDE DEF Byte, lo
    <3> QED
      BY <2>1, <2>2, SubSeqProperties
  <2> HIDE DEF sub, lo
  <2>5. Len(sub) = Len(chunk)
    BY <1>1, <2>1, <2>4
  <2>6. \A k \in 1 .. Len(sub) : sub[k] = chunk[k]
    BY <1>2, <2>1, <2>3, <2>4, <2>5
  <2> HIDE DEF Byte
  <2> QED
    BY <1>2, <2>4, <2>5, <2>6, SeqEqual
<1>4. overlap_index \in 0 .. Len(chunk)
  BY <1>1
<1> QED
  BY <1>2, <1>3, <1>4 DEF TypeOK, Hit

\* The chunk is the last part of what was read, and what is read fits into its buffer
\* (html.rs:96-104).
THEOREM ScanTypesHold == Spec => []TypeOK
BY CutHolds, CutTypes, PTL

(***************************************************************************)
(* ReportedInOrder: what is reported of a plain body was read, and what is *)
(* reported next ends behind it.                                           *)
(***************************************************************************)
Reported ==
  Plain => \A k \in 1 .. Len(matches) :
    /\ matches[k].start \in Nat /\ matches[k].start = matches[k].at
    /\ matches[k].start + Len(raw) <= total_read
    /\ At(raw, matches[k].start)
    /\ \A j \in 1 .. k - 1 : matches[j].start < matches[k].start

\* Where a word is in the string of a piece of a plain body, it is in the body.
LEMMA PlainRawAt ==
  ASSUME Cut, Plain, NEW n \in Nat, NEW first, NEW t, Extended(n, first, t),
         NEW word \in Word, NEW p \in 1 .. Len(Utf8Lossy(chunk')),
         RawAt(Utf8Lossy(chunk'), p, word)
  PROVE  /\ p \in Nat /\ p >= 1 /\ first \in Nat /\ p - 1 + first \in Nat
         /\ Utf8Lossy(chunk')[p].at = p - 1
         /\ p - 1 + first + Len(word) <= total_read'
         /\ At(word, p - 1 + first)
<1> DEFINE source == Utf8Lossy(chunk')
<1>1. /\ first \in Nat /\ chunk' \in Seq(Byte) /\ first + Len(chunk') = total_read'
      /\ \A k \in 1 .. Len(chunk') : chunk'[k] = body[first + k]
      /\ total_read' = total_read + n
  BY DEF Extended
<1>2. total_read \in Nat /\ Len(chunk') \in Nat
  BY <1>1, CutFacts, LenProperties
<1>3. \A k \in 1 .. Len(chunk') : chunk'[k] \in Letter
  <2> SUFFICES ASSUME NEW k \in 1 .. Len(chunk') PROVE chunk'[k] \in Letter
    OBVIOUS
  <2>1. ASSUME first + k \in DOMAIN body PROVE chunk'[k] \in Letter
    BY <1>1, <2>1 DEF Plain, Letter
  <2>2. first + k \in DOMAIN body
    <3>1. DOMAIN body = 1 .. Len(body) /\ Len(body) \in Nat
      BY LenProperties DEF Cut
    <3>2. total_read + n <= Len(body)
      BY DEF Extended
    <3> QED
      BY <1>1, <1>2, <3>1, <3>2
  <2> QED
    BY <2>1, <2>2
<1>4. /\ Len(source) = Len(chunk')
      /\ \A k \in 1 .. Len(chunk') : source[k] = [byte |-> chunk'[k], at |-> k - 1]
  BY <1>1, <1>3, PlainLossy
<1>5. RawAt(source, p, word) /\ p \in 1 .. Len(source)
  OBVIOUS
<1> HIDE DEF source
<1>6. Len(word) \in Nat /\ Len(word) >= 1
  BY WordFacts
<1>7. p \in 1 .. Len(chunk') /\ p \in Nat /\ p >= 1 /\ source[p].at = p - 1
  <2>1. p \in 1 .. Len(chunk')
    BY <1>4, <1>5
  <2>2. source[p] = [byte |-> chunk'[p], at |-> p - 1]
    BY <1>4, <2>1
  <2> QED
    BY <1>2, <2>1, <2>2
<1>8. p + Len(word) - 1 <= Len(chunk')
  BY <1>4, <1>5 DEF RawAt
<1>9. p - 1 + first \in Nat /\ p - 1 + first + Len(word) <= total_read'
  BY <1>1, <1>2, <1>6, <1>7, <1>8
<1>10. At(word, p - 1 + first)
  <2> SUFFICES ASSUME NEW k \in 1 .. Len(word) PROVE body[p - 1 + first + k] = word[k]
    BY DEF At
  <2>1. p + k - 1 \in 1 .. Len(chunk') /\ first + (p + k - 1) = p - 1 + first + k
    BY <1>1, <1>2, <1>6, <1>7, <1>8
  <2>2. source[p + k - 1].byte = word[k]
    BY <1>5 DEF RawAt
  <2>3. source[p + k - 1].byte = chunk'[p + k - 1]
    <3>1. source[p + k - 1] = [byte |-> chunk'[p + k - 1], at |-> p + k - 1 - 1]
      BY <1>4, <2>1
    <3> QED
      BY <3>1
  <2> QED
    BY <1>1, <2>1, <2>2, <2>3
<1> QED
  BY <1>1, <1>7, <1>9, <1>10 DEF source

LEMMA ReportedNew ==
  ASSUME Cut, Plain, NEW n \in Nat, NEW first, NEW t, Extended(n, first, t),
         NEW x \in 1 .. Len(t)
  PROVE  /\ t[x].start \in Nat /\ t[x].start = t[x].at
         /\ t[x].start + Len(raw) <= total_read'
         /\ total_read < t[x].start + Len(raw)
         /\ At(raw, t[x].start)
<1> DEFINE source == Utf8Lossy(chunk')
<1>1. PICK p \in 1 .. Len(source) :
        /\ RawAt(source, p, raw)
        /\ t[x].start = p - 1 + first /\ t[x].at = source[p].at + first
        /\ ~(t[x].start + Len(raw) <= total_read)
  BY DEF Extended, New
<1>2. raw \in Word /\ Len(raw) \in Nat /\ total_read \in Nat
  BY WordFacts, CutFacts DEF Cut
<1>3. /\ p - 1 + first \in Nat /\ source[p].at = p - 1
      /\ p - 1 + first + Len(raw) <= total_read' /\ At(raw, p - 1 + first)
  BY <1>1, <1>2, PlainRawAt
<1> HIDE DEF source
<1>4. total_read < t[x].start + Len(raw)
  BY <1>1, <1>2, <1>3
<1> QED
  BY <1>1, <1>3, <1>4

LEMMA ReportedRead ==
  ASSUME Cut, Reported, NEW n \in 1 .. ChunkSize, Read(n)
  PROVE  Reported'
<1>1. PICK first, t : Extended(n, first, t)
  BY ReadExtends
<1>2. /\ n \in Nat /\ body' = body /\ raw' = raw /\ matches' = matches \o t
      /\ t \in Seq(Hit) /\ total_read' = total_read + n
      /\ \A x, y \in 1 .. Len(t) : x < y => t[x].start + Len(raw) <= t[y].start
  BY <1>1 DEF Extended, New
<1>3. /\ matches \in Seq(Hit) /\ Len(matches) \in Nat /\ Len(t) \in Nat
      /\ Len(raw) \in Nat /\ Len(raw) >= 1 /\ total_read \in Nat
  BY <1>2, LenProperties, WordFacts, CutFacts DEF Cut
<1>4. /\ Len(matches') = Len(matches) + Len(t)
      /\ \A k \in 1 .. Len(matches) + Len(t) :
           matches'[k] = IF k <= Len(matches) THEN matches[k] ELSE t[k - Len(matches)]
  BY <1>2, <1>3, ConcatProperties
<1> SUFFICES ASSUME Plain, NEW k \in 1 .. Len(matches')
             PROVE  /\ matches'[k].start \in Nat /\ matches'[k].start = matches'[k].at
                    /\ matches'[k].start + Len(raw) <= total_read'
                    /\ At(raw, matches'[k].start)
                    /\ \A j \in 1 .. k - 1 : matches'[j].start < matches'[k].start
  BY <1>2 DEF Reported, Plain, At
<1>5. /\ k \in 1 .. Len(matches) + Len(t) /\ k \in Nat
      /\ \A j \in 1 .. k - 1 : j \in 1 .. Len(matches) + Len(t) /\ j \in Nat /\ j < k
  BY <1>3, <1>4
<1>6. \A j \in 1 .. Len(matches) :
        /\ matches'[j] = matches[j]
        /\ matches[j].start \in Nat /\ matches[j].start = matches[j].at
        /\ matches[j].start + Len(raw) <= total_read
        /\ At(raw, matches[j].start)
        /\ \A l \in 1 .. j - 1 : matches[l].start < matches[j].start
  <2> SUFFICES ASSUME NEW j \in 1 .. Len(matches) PROVE matches'[j] = matches[j]
    BY DEF Reported
  <2>1. j \in 1 .. Len(matches) + Len(t) /\ j <= Len(matches)
    BY <1>3
  <2> QED
    BY <1>4, <2>1
<1>7. CASE k <= Len(matches)
  <2>1. k \in 1 .. Len(matches) /\ \A j \in 1 .. k - 1 : j \in 1 .. Len(matches)
    BY <1>3, <1>5, <1>7
  <2>2. matches'[k].start + Len(raw) <= total_read'
    <3> DEFINE e == matches[k].start + Len(raw)
    <3>1. e \in Nat /\ e <= total_read /\ matches'[k] = matches[k]
      BY <1>3, <1>6, <2>1
    <3>2. matches'[k].start + Len(raw) = e
      BY <3>1
    <3> HIDE DEF e
    <3> QED
      BY <1>2, <1>3, <3>1, <3>2
  <2> QED
    BY <1>6, <2>1, <2>2
<1>8. CASE ~(k <= Len(matches))
  <2> DEFINE x == k - Len(matches)
  <2>1. x \in 1 .. Len(t) /\ matches'[k] = t[x]
    BY <1>3, <1>4, <1>5, <1>8
  <2> HIDE DEF x
  <2>2. /\ t[x].start \in Nat /\ t[x].start = t[x].at
        /\ t[x].start + Len(raw) <= total_read'
        /\ total_read < t[x].start + Len(raw)
        /\ At(raw, t[x].start)
    BY <1>1, <1>2, <2>1, ReportedNew
  <2>3. ASSUME NEW j \in 1 .. k - 1 PROVE matches'[j].start < matches'[k].start
    <3>1. CASE j <= Len(matches)
      <4>1. j \in 1 .. Len(matches)
        BY <1>3, <3>1
      <4> DEFINE a == matches[j].start
                 b == t[x].start
                 len == Len(raw)
      <4>2. a \in Nat /\ a + len <= total_read /\ b \in Nat /\ total_read < b + len
            /\ len \in Nat
        BY <1>3, <1>6, <2>2, <4>1
      <4>3. matches'[j].start = a /\ matches'[k].start = b
        BY <1>6, <2>1, <4>1
      <4> HIDE DEF a, b, len
      <4>4. a < b
        BY <1>3, <4>2
      <4> QED
        BY <4>3, <4>4
    <3>2. CASE ~(j <= Len(matches))
      <4> DEFINE y == j - Len(matches)
      <4>1. y \in 1 .. Len(t) /\ matches'[j] = t[y]
        BY <1>3, <1>4, <1>5, <3>2
      <4>2. y < x
        BY <1>3, <1>5, <3>2 DEF x
      <4> HIDE DEF y
      <4>3. t[y].start + Len(raw) <= t[x].start
        BY <1>2, <2>1, <4>1, <4>2
      <4>4. t[y].start \in Nat
        BY <1>1, <1>2, <4>1, ReportedNew
      <4> DEFINE a == t[y].start
                 b == t[x].start
                 len == Len(raw)
      <4>5. a \in Nat /\ b \in Nat /\ len \in Nat /\ len >= 1 /\ a + len <= b
        BY <1>3, <2>2, <4>3, <4>4
      <4>6. matches'[j].start = a /\ matches'[k].start = b
        BY <2>1, <4>1
      <4> HIDE DEF a, b, len
      <4>7. a < b
        BY <4>5
      <4> QED
        BY <4>6, <4>7
    <3> QED
      BY <3>1, <3>2
  <2> QED
    BY <2>1, <2>2, <2>3
<1> QED
  BY <1>7, <1>8

LEMMA ReportedStep == Cut /\ Reported /\ [Next]_vars => Reported'
<1> SUFFICES ASSUME Cut, Reported, [Next]_vars PROVE Reported'
  OBVIOUS
<1>1. CASE \E n \in 1 .. ChunkSize : Read(n)
  BY <1>1, ReportedRead
<1>2. CASE ReadEnd \/ UNCHANGED vars
  BY <1>2 DEF ReadEnd, vars, Reported, Plain, At
<1> QED
  BY <1>1, <1>2 DEF Next

LEMMA ReportedInOrderOf == Cut /\ Reported => ReportedInOrder
<1> SUFFICES ASSUME Cut, Reported, Plain, NEW k \in DOMAIN matches
             PROVE  /\ matches[k].at \in Occurrences
                    /\ matches[k].start = matches[k].at
                    /\ \A j \in 1 .. k - 1 : matches[j].at < matches[k].at
  BY DEF ReportedInOrder
<1>1. /\ Len(matches) \in Nat /\ DOMAIN matches = 1 .. Len(matches)
      /\ total_read \in Nat /\ Len(body) \in Nat /\ total_read <= Len(body)
      /\ body \in Seq(Byte) /\ raw \in Word /\ Len(raw) \in Nat
  BY LenProperties, WordFacts, CutFacts DEF Cut
<1>2. \A j \in 1 .. Len(matches) :
        /\ matches[j].start \in Nat /\ matches[j].start = matches[j].at
        /\ matches[j].start + Len(raw) <= total_read
        /\ At(raw, matches[j].start)
        /\ \A l \in 1 .. j - 1 : matches[l].start < matches[j].start
  BY DEF Reported
<1>3. k \in 1 .. Len(matches) /\ \A j \in 1 .. k - 1 : j \in 1 .. Len(matches)
  BY <1>1
<1> DEFINE s == matches[k].start
<1>4. s \in Nat /\ s + Len(raw) <= total_read /\ At(raw, s) /\ matches[k].at = s
  BY <1>2, <1>3
<1> HIDE DEF s
<1>5. s + Len(raw) <= Len(body)
  BY <1>1, <1>4
<1>6. SubSeq(body, s + 1, s + Len(raw)) = raw
  BY <1>1, <1>4, <1>5, OccursAt
<1>7. s \in 0 .. total_read - Len(raw)
  BY <1>1, <1>4
<1>8. s \in Occurrences
  BY <1>6, <1>7 DEF Occurrences, Occurs
<1> QED
  BY <1>2, <1>3, <1>4, <1>8

\* What HtmlScan reports of a plain body is there, at the position that is reported, once
\* and in the order of the body, however the body is cut and the overlap matched again
\* (evaluator.rs:234, html.rs:103).
THEOREM ReportedInOrderHolds == Spec => []ReportedInOrder
<1>1. Init => Reported
  <2> SUFFICES ASSUME Init PROVE Reported
    OBVIOUS
  <2>1. Len(matches) = 0
    BY EmptySeq DEF Init
  <2> QED
    BY <2>1 DEF Reported
<1>2. Cut /\ Reported /\ [Next]_vars => Reported'
  BY ReportedStep
<1>3. Cut /\ Reported => ReportedInOrder
  BY ReportedInOrderOf
<1>4. Spec => []Cut
  BY CutHolds
<1> QED
  BY <1>1, <1>2, <1>3, <1>4, PTL DEF Spec

(***************************************************************************)
(* NoneMissed: of the overlap that is matched again, a word that fits into *)
(* it and one byte more was never reported.                                *)
(***************************************************************************)
\* A word that the seams cannot hide: it is at most one byte longer than the overlap, and
\* no two of it overlap.
Seamless(word) == Len(word) <= ChunkOverlap + 1 /\ Unbordered(word)

FoundSoFar ==
  \A s \in Nat : s + Len(raw) <= total_read /\ At(raw, s) =>
    \E k \in 1 .. Len(matches) : matches[k].at = s

\* What is in the bytes is in the string that is made of them.
LEMMA ShownWord ==
  ASSUME NEW data \in Seq(Byte), NEW word \in Word, NEW q \in Nat, q >= 1,
         q + Len(word) - 1 <= Len(data),
         \A k \in 1 .. Len(word) : data[q + k - 1] = word[k],
         NEW source \in Seq(Char), NEW pos, Shown(source, data, pos)
  PROVE  /\ pos[q] \in 1 .. Len(source) /\ pos[q] >= q
         /\ RawAt(source, pos[q], word) /\ source[pos[q]].at = q - 1
<1>1. /\ Len(word) \in Nat /\ Len(word) >= 1 /\ Len(data) \in Nat /\ Len(source) \in Nat
      /\ \A k \in 1 .. Len(word) : word[k] \in Letter
  BY WordFacts, LenProperties
<1>2. \A k \in 1 .. Len(word) : q + k - 1 \in 1 .. Len(data)
  BY <1>1
<1>3. \A k \in 1 .. Len(word) :
        /\ pos[q + k - 1] \in 1 .. Len(source)
        /\ source[pos[q + k - 1]] = [byte |-> word[k], at |-> (q + k - 1) - 1]
        /\ (q + k - 1) + 1 \in 1 .. Len(data) => pos[(q + k - 1) + 1] = pos[q + k - 1] + 1
  BY <1>1, <1>2 DEF Shown
<1> DEFINE T == {d \in Nat : d + 1 \in 1 .. Len(word) => pos[q + d] = pos[q] + d}
<1>4. q \in 1 .. Len(data) /\ pos[q] \in 1 .. Len(source) /\ pos[q] >= q
  <2>1. q \in 1 .. Len(data)
    BY <1>1
  <2> QED
    BY <2>1 DEF Shown
<1>5. Nat \subseteq T
  <2>1. 0 \in T
    <3>1. q + 0 = q /\ pos[q] + 0 = pos[q]
      BY <1>4
    <3> QED
      BY <3>1
  <2>2. ASSUME NEW d \in Nat, d \in T PROVE d + 1 \in T
    <3> SUFFICES ASSUME (d + 1) + 1 \in 1 .. Len(word) PROVE pos[q + (d + 1)] = pos[q] + (d + 1)
      OBVIOUS
    <3>1. /\ d + 1 \in 1 .. Len(word) /\ q + (d + 1) - 1 = q + d
          /\ (q + d) + 1 = q + (d + 1) /\ (q + d) + 1 \in 1 .. Len(data)
      BY <1>1
    <3>2. pos[q + (d + 1)] = pos[q + d] + 1
      BY <1>3, <3>1
    <3>3. pos[q + d] = pos[q] + d
      BY <2>2, <3>1
    <3>4. pos[q] \in Nat
      BY <1>4
    <3> DEFINE a == pos[q]
               b == pos[q + d]
               c == pos[q + (d + 1)]
    <3>5. a \in Nat /\ b = a + d /\ c = b + 1
      BY <3>2, <3>3, <3>4
    <3> HIDE DEF a, b, c
    <3>6. c = a + (d + 1)
      BY <3>5
    <3> QED
      BY <3>6 DEF a, c
  <2> HIDE DEF T
  <2> QED
    BY <2>1, <2>2, SetInduction
<1>6. ASSUME NEW k \in 1 .. Len(word)
      PROVE  /\ pos[q] + k - 1 \in 1 .. Len(source) /\ source[pos[q] + k - 1].byte = word[k]
             /\ k = 1 => source[pos[q] + k - 1].at = q - 1
  <2>1. k - 1 \in Nat /\ (k - 1) + 1 = k /\ q + (k - 1) = q + k - 1 /\ k - 1 \in T
    BY <1>5
  <2>2. pos[q + k - 1] = pos[q] + (k - 1)
    BY <2>1
  <2>3. pos[q] + (k - 1) = pos[q] + k - 1
    BY <1>4
  <2>4. source[pos[q] + k - 1] = [byte |-> word[k], at |-> (q + k - 1) - 1]
        /\ pos[q] + k - 1 \in 1 .. Len(source)
    BY <1>3, <2>2, <2>3
  <2>5. k = 1 => (q + k - 1) - 1 = q - 1
    OBVIOUS
  <2> QED
    BY <2>4, <2>5
<1> HIDE DEF T
<1>7. pos[q] + Len(word) - 1 <= Len(source)
  <2>1. Len(word) \in 1 .. Len(word)
    BY <1>1
  <2>2. pos[q] + Len(word) - 1 \in 1 .. Len(source)
    BY <1>6, <2>1
  <2> QED
    BY <1>1, <2>2
<1>8. source[pos[q]].at = q - 1
  <2>1. 1 \in 1 .. Len(word) /\ pos[q] + 1 - 1 = pos[q]
    BY <1>1, <1>4
  <2> QED
    BY <1>6, <2>1
<1> QED
  BY <1>4, <1>6, <1>7, <1>8 DEF RawAt

LEMMA FoundRead ==
  ASSUME Cut, FoundSoFar, Seamless(raw), NEW n \in 1 .. ChunkSize, Read(n)
  PROVE  FoundSoFar'
<1>1. PICK first, t : Extended(n, first, t)
  BY ReadExtends
<1> DEFINE source == Utf8Lossy(chunk')
<1>2. /\ n \in Nat /\ body' = body /\ raw' = raw /\ matches' = matches \o t
      /\ t \in Seq(Hit) /\ first \in Nat
      /\ chunk' \in Seq(Byte) /\ first + Len(chunk') = total_read'
      /\ total_read = first + overlap_index
      /\ \A k \in 1 .. Len(chunk') : chunk'[k] = body[first + k]
      /\ \A p \in 1 .. Len(source) :
           RawAt(source, p, raw) /\ ~(p - 1 + first + Len(raw) <= total_read) =>
             \E x \in 1 .. Len(t) : t[x].at = source[p].at + first
  BY <1>1 DEF Extended, New, Seamless
<1>3. /\ matches \in Seq(Hit) /\ raw \in Word
      /\ Len(matches) \in Nat /\ Len(t) \in Nat /\ Len(chunk') \in Nat
      /\ Len(raw) \in Nat /\ Len(raw) >= 1
      /\ total_read \in Nat /\ overlap_index \in Nat /\ ChunkOverlap \in Nat
      /\ overlap_index = Overlap(total_read)
      /\ Len(raw) <= ChunkOverlap + 1
  BY <1>2, LenProperties, WordFacts, CutFacts DEF Cut, Seamless
<1>4. /\ Len(matches') = Len(matches) + Len(t)
      /\ \A k \in 1 .. Len(matches) + Len(t) :
           matches'[k] = IF k <= Len(matches) THEN matches[k] ELSE t[k - Len(matches)]
  BY <1>2, <1>3, ConcatProperties
<1> SUFFICES ASSUME NEW s \in Nat, s + Len(raw) <= total_read', At(raw, s)
             PROVE  \E k \in 1 .. Len(matches') : matches'[k].at = s
  BY <1>2 DEF FoundSoFar, At
<1>5. CASE s + Len(raw) <= total_read
  <2>1. PICK k \in 1 .. Len(matches) : matches[k].at = s
    BY <1>5 DEF FoundSoFar
  <2>2. k \in 1 .. Len(matches) + Len(t) /\ k <= Len(matches)
    BY <1>3
  <2> QED
    BY <1>4, <2>1, <2>2
<1>6. CASE ~(s + Len(raw) <= total_read)
  <2> DEFINE q == s - first + 1
             len == Len(raw)
             size == Len(chunk')
  <2>0. /\ first \in Nat /\ len \in Nat /\ len >= 1 /\ size \in Nat
        /\ first + size = total_read'
    BY <1>2, <1>3
  <2>1. s >= first
    BY <1>2, <1>3, <1>6 DEF Overlap
  <2>2. q \in Nat /\ q >= 1 /\ q + Len(raw) - 1 <= Len(chunk') /\ q - 1 + first = s
    <3>1. s + len <= first + size
      BY <2>0
    <3> HIDE DEF len, size
    <3>2. q \in Nat /\ q >= 1 /\ q - 1 + first = s
      BY <2>0, <2>1
    <3>3. q + len - 1 <= size
      BY <2>0, <2>1, <3>1
    <3> USE DEF len, size
    <3> QED
      BY <3>2, <3>3
  <2> HIDE DEF q
  <2>3. \A k \in 1 .. Len(raw) :
          q + k - 1 \in 1 .. Len(chunk') /\ first + (q + k - 1) = s + k
    <3> SUFFICES ASSUME NEW k \in 1 .. len
                 PROVE  q + k - 1 \in 1 .. size /\ first + (q + k - 1) = s + k
      OBVIOUS
    <3>1. q \in Nat /\ q >= 1 /\ q + len - 1 <= size /\ q - 1 + first = s
      BY <2>2
    <3> HIDE DEF len, size
    <3>2. q + k - 1 \in 1 .. size
      BY <2>0, <3>1
    <3>3. first + (q + k - 1) = s + k
      BY <2>0, <3>1
    <3> QED
      BY <3>2, <3>3
  <2>4. \A k \in 1 .. Len(raw) : chunk'[q + k - 1] = raw[k]
    BY <1>2, <2>3 DEF At
  <2>5. source \in Seq(Char) /\ \E pos : Shown(source, chunk', pos)
    BY <1>2, LossyFacts
  <2> HIDE DEF source
  <2>6. PICK pos : Shown(source, chunk', pos)
    BY <2>5
  <2> DEFINE p == pos[q]
  <2>7. p \in 1 .. Len(source) /\ p >= q /\ RawAt(source, p, raw) /\ source[p].at = q - 1
    <3>1. chunk' \in Seq(Byte) /\ raw \in Word /\ source \in Seq(Char)
      BY <1>2, <1>3, <2>5
    <3>2. q \in Nat /\ q >= 1 /\ q + Len(raw) - 1 <= Len(chunk')
      BY <2>2
    <3> HIDE DEF Byte, Word, Char, len, size
    <3>3. q + len - 1 <= Len(chunk') /\ \A k \in 1 .. len : chunk'[q + k - 1] = raw[k]
      BY <2>4, <3>2 DEF len
    <3> DEFINE data == chunk'
    <3>4. /\ data \in Seq(Byte) /\ Shown(source, data, pos)
          /\ q + Len(raw) - 1 <= Len(data)
          /\ \A k \in 1 .. Len(raw) : data[q + k - 1] = raw[k]
      BY <2>6, <3>1, <3>3 DEF len
    <3> HIDE DEF data
    <3>5. /\ pos[q] \in 1 .. Len(source) /\ pos[q] >= q
          /\ RawAt(source, pos[q], raw) /\ source[pos[q]].at = q - 1
      BY <3>1, <3>2, <3>4, ShownWord, ZenonT(30)
    <3> QED
      BY <3>5
  <2> HIDE DEF p
  <2>8. ~(p - 1 + first + Len(raw) <= total_read)
    <3>1. p \in Nat /\ p >= q /\ len \in Nat /\ ~(s + len <= total_read)
      BY <1>3, <1>6, <2>7
    <3> HIDE DEF len
    <3> DEFINE m == p - 1 + first
    <3>2. m \in Nat /\ m >= s
      <4>1. q \in Nat /\ q - 1 + first = s /\ q >= 1
        BY <2>2
      <4> QED
        BY <2>0, <3>1, <4>1
    <3> HIDE DEF m
    <3>3. total_read \in Nat
      BY <1>3
    <3>4. ~(m + len <= total_read)
      BY <3>1, <3>2, <3>3
    <3> QED
      BY <3>4 DEF m, len
  <2>9. PICK x \in 1 .. Len(t) : t[x].at = source[p].at + first
    BY <1>2, <2>7, <2>8
  <2>10. t[x].at = s
    BY <2>2, <2>7, <2>9
  <2> DEFINE k == Len(matches) + x
  <2>11. k \in 1 .. Len(matches) + Len(t) /\ ~(k <= Len(matches)) /\ k - Len(matches) = x
    BY <1>3
  <2> HIDE DEF k
  <2> QED
    BY <1>4, <2>10, <2>11
<1> QED
  BY <1>5, <1>6

LEMMA FoundStep == Cut /\ FoundSoFar /\ Seamless(raw) /\ [Next]_vars => FoundSoFar'
<1> SUFFICES ASSUME Cut, FoundSoFar, Seamless(raw), [Next]_vars PROVE FoundSoFar'
  OBVIOUS
<1>1. CASE \E n \in 1 .. ChunkSize : Read(n)
  BY <1>1, FoundRead
<1>2. CASE ReadEnd \/ UNCHANGED vars
  BY <1>2 DEF ReadEnd, vars, FoundSoFar, At
<1> QED
  BY <1>1, <1>2 DEF Next

\* However HtmlScan cuts the body, and whatever its bytes are, a match is found as soon as
\* its last byte was read, of each word that is at most one byte longer than the overlap
\* and no two of which overlap (evaluator.rs:233, html.rs:102-112).
THEOREM NoneMissedHolds ==
  ASSUME \A word \in Raws : Seamless(word)
  PROVE  Spec => []NoneMissed
<1>1. Init => FoundSoFar /\ Seamless(raw)
  <2> SUFFICES ASSUME Init PROVE FoundSoFar /\ Seamless(raw)
    OBVIOUS
  <2>1. total_read = 0 /\ raw \in Raws /\ raw \in Word
    BY ChunkAssumption DEF Init, Word, Letter
  <2>2. Len(raw) \in Nat /\ Len(raw) >= 1
    BY <2>1, WordFacts
  <2> QED
    BY <2>1, <2>2 DEF FoundSoFar
<1>2. Cut /\ FoundSoFar /\ Seamless(raw) /\ [Next]_vars => FoundSoFar' /\ Seamless(raw)'
  <2>1. [Next]_vars => raw' = raw
    BY DEF Next, Read, ReadEnd, vars
  <2> QED
    BY <2>1, FoundStep DEF Seamless, Unbordered
<1>3. Cut /\ FoundSoFar => NoneMissed
  <2> SUFFICES ASSUME Cut, FoundSoFar, NEW s \in Occurrences
               PROVE  \E k \in DOMAIN matches : matches[k].at = s
    BY DEF NoneMissed
  <2>1. /\ total_read \in Nat /\ Len(body) \in Nat /\ total_read <= Len(body)
        /\ body \in Seq(Byte) /\ raw \in Word /\ Len(raw) \in Nat
        /\ DOMAIN matches = 1 .. Len(matches)
    BY LenProperties, WordFacts, CutFacts DEF Cut
  <2>2. s \in 0 .. total_read - Len(raw) /\ SubSeq(body, s + 1, s + Len(raw)) = raw
    BY DEF Occurrences, Occurs
  <2>3. s \in Nat /\ s + Len(raw) <= total_read /\ s + Len(raw) <= Len(body)
    BY <2>1, <2>2
  <2>4. At(raw, s)
    BY <2>1, <2>2, <2>3, OccursAt
  <2> QED
    BY <2>1, <2>3, <2>4 DEF FoundSoFar
<1>4. Spec => []Cut
  BY CutHolds
<1> QED
  BY <1>1, <1>2, <1>3, <1>4, PTL DEF Spec

\* The task scans its body as HtmlScan does, whatever is paired in between: what is proved
\* of HtmlScan holds of it.
THEOREM TaskIsScan == TaskSpec => Spec
<1>1. TaskInit => Init
  BY DEF TaskInit
<1>2. [TaskNext]_allvars => [Next]_vars
  <2> SUFFICES ASSUME [TaskNext]_allvars PROVE [Next]_vars
    OBVIOUS
  <2>1. CASE \E n \in 1 .. ChunkSize : ReadPiece(n)
    BY <2>1 DEF ReadPiece, Next
  <2>2. CASE Pair
    BY <2>2 DEF Pair
  <2>3. CASE TaskEnd
    BY <2>3 DEF TaskEnd, Next
  <2>4. CASE UNCHANGED allvars
    BY <2>4 DEF allvars
  <2> QED
    BY <2>1, <2>2, <2>3, <2>4 DEF TaskNext
<1> QED
  BY <1>1, <1>2, PTL DEF Spec, TaskSpec

(***************************************************************************)
(* sort_by_key.                                                            *)
(***************************************************************************)
\* The pairs of R are a strict order of N.
Orders(R, N) ==
  /\ \A p \in N : <<p, p>> \notin R
  /\ \A p, q, r \in N : <<p, q>> \in R /\ <<q, r>> \in R => <<p, r>> \in R
  /\ \A p, q \in N : p = q \/ <<p, q>> \in R \/ <<q, p>> \in R

\* How many come before q.
Rank(R, N, q) == Cardinality({p \in N : <<p, q>> \in R})

\* Each place but the last is taken: the ranks are those from 0 to one less than how many
\* there are.
LEMMA RankFacts ==
  ASSUME NEW N, IsFiniteSet(N), NEW R, Orders(R, N)
  PROVE  /\ Cardinality(N) \in Nat
         /\ \A q \in N : Rank(R, N, q) \in Nat
         /\ \A p, q \in N : Rank(R, N, p) < Rank(R, N, q) => <<p, q>> \in R
         /\ \A n \in 1 .. Cardinality(N) : \E q \in N : Rank(R, N, q) + 1 = n
<1> DEFINE down(q) == {p \in N : <<p, q>> \in R}
           c == Cardinality(N)
<1>1. c \in Nat
  BY FS_CardinalityType
<1>2. \A q \in N : /\ IsFiniteSet(down(q)) /\ Cardinality(down(q)) \in Nat
                   /\ Cardinality(down(q)) < c
  <2> SUFFICES ASSUME NEW q \in N
               PROVE  /\ IsFiniteSet(down(q)) /\ Cardinality(down(q)) \in Nat
                      /\ Cardinality(down(q)) < c
    OBVIOUS
  <2>1. down(q) \in SUBSET N /\ q \notin down(q)
    BY DEF Orders
  <2> HIDE DEF down
  <2>2. IsFiniteSet(down(q)) /\ Cardinality(down(q)) \in Nat
    BY <2>1, FS_Subset, FS_CardinalityType
  <2>3. Cardinality(down(q)) <= c /\ Cardinality(down(q)) # c
    BY <2>1, FS_Subset
  <2> QED
    BY <1>1, <2>2, <2>3
<1>3. \A p, q \in N : <<p, q>> \in R => Cardinality(down(p)) < Cardinality(down(q))
  <2> SUFFICES ASSUME NEW p \in N, NEW q \in N, <<p, q>> \in R
               PROVE  Cardinality(down(p)) < Cardinality(down(q))
    OBVIOUS
  <2>1. down(p) \in SUBSET down(q) /\ p \in down(q) /\ p \notin down(p)
    BY DEF Orders
  <2>2. /\ IsFiniteSet(down(q)) /\ Cardinality(down(p)) \in Nat
        /\ Cardinality(down(q)) \in Nat
    BY <1>2
  <2> HIDE DEF down
  <2>3. Cardinality(down(p)) <= Cardinality(down(q))
        /\ Cardinality(down(p)) # Cardinality(down(q))
    BY <2>1, <2>2, FS_Subset
  <2> QED
    BY <2>2, <2>3
<1> DEFINE place == [q \in N |-> Cardinality(down(q)) + 1]
<1>4. place \in [N -> 1 .. c]
  <2>1. \A q \in N : Cardinality(down(q)) + 1 \in 1 .. c
    <3> SUFFICES ASSUME NEW q \in N PROVE Cardinality(down(q)) + 1 \in 1 .. c
      OBVIOUS
    <3>1. Cardinality(down(q)) \in Nat /\ Cardinality(down(q)) < c
      BY <1>2
    <3> HIDE DEF down, c
    <3> QED
      BY <1>1, <3>1
  <2> QED
    BY <2>1
<1>5. \A p, q \in N : place[p] = place[q] => p = q
  <2> SUFFICES ASSUME NEW p \in N, NEW q \in N, place[p] = place[q] PROVE p = q
    OBVIOUS
  <2> DEFINE a == Cardinality(down(p))
             b == Cardinality(down(q))
  <2>1. a + 1 = b + 1 /\ a \in Nat /\ b \in Nat
    BY <1>2
  <2>2. (<<p, q>> \in R => a < b) /\ (<<q, p>> \in R => b < a)
    BY <1>3
  <2> HIDE DEF a, b
  <2>3. ~(a < b) /\ ~(b < a)
    BY <2>1
  <2>4. p = q \/ <<p, q>> \in R \/ <<q, p>> \in R
    BY DEF Orders
  <2> QED
    BY <2>2, <2>3, <2>4
<1>6. place \in Injection(N, 1 .. c)
  <2> HIDE DEF place, c
  <2> QED
    BY <1>4, <1>5 DEF Injection, IsInjective
<1>7. IsFiniteSet(1 .. c) /\ Cardinality(1 .. c) = c
  BY <1>1, FS_Interval
<1>8. place \in Surjection(N, 1 .. c)
  <2> HIDE DEF place
  <2> QED
    BY <1>6, <1>7, FS_Injection
<1>9. \A n \in 1 .. c : \E q \in N : place[q] = n
  <2> HIDE DEF place, c
  <2> QED
    BY <1>8 DEF Surjection
<1>10. \A p, q \in N : Cardinality(down(p)) < Cardinality(down(q)) => <<p, q>> \in R
  <2> SUFFICES ASSUME NEW p \in N, NEW q \in N,
                      Cardinality(down(p)) < Cardinality(down(q)), <<p, q>> \notin R
               PROVE  FALSE
    OBVIOUS
  <2>1. Cardinality(down(p)) \in Nat /\ Cardinality(down(q)) \in Nat
    BY <1>2
  <2>2. p = q \/ <<q, p>> \in R
    BY DEF Orders
  <2>3. p = q \/ Cardinality(down(q)) < Cardinality(down(p))
    BY <1>3, <2>2
  <2> HIDE DEF down
  <2> QED
    BY <2>1, <2>3
<1> QED
  BY <1>1, <1>2, <1>9, <1>10 DEF Rank

Item == {x \in [start : Nat, end : Nat] : x.start < x.end}

\* The list that Collect makes: what is new, and sorted.
Group(g) ==
  /\ g \in Seq(Item)
  /\ \A n \in 1 .. Len(g) :
       /\ g[n].end + offset > minimum_end_index
       /\ \A m \in 1 .. n - 1 : g[m].start <= g[n].start

LEMMA SortedFacts ==
  ASSUME NEW found \in Seq(Item), offset \in Nat, minimum_end_index \in Nat
  PROVE  /\ Group(C!Sorted(found))
         /\ \A n \in 1 .. Len(C!Sorted(found)) :
              \E q \in 1 .. Len(found) : C!Sorted(found)[n] = found[q]
<1> DEFINE new == C!NewlyFound(found)
           before(p, q) == \/ found[p].start < found[q].start
                           \/ found[p].start = found[q].start /\ p < q
           place(q) == Cardinality({p \in new : before(p, q)}) + 1
           R == {w \in new \X new : before(w[1], w[2])}
           at(n) == CHOOSE q \in new : place(q) = n
           c == Cardinality(new)
           s == [n \in 1 .. c |-> found[at(n)]]
<1>1. C!Sorted(found) = s
  BY DEF C!Sorted, C!Cardinality, Cardinality
<1>2. Len(found) \in Nat /\ DOMAIN found = 1 .. Len(found)
      /\ \A q \in 1 .. Len(found) : found[q] \in Item
  BY LenProperties, ElementOfSeq
<1>3. new \in SUBSET (1 .. Len(found))
      /\ \A q \in new : found[q].end + offset > minimum_end_index
  BY <1>2 DEF C!NewlyFound, C!IsNew
<1> HIDE DEF new
<1>4. \A q \in new : q \in Nat /\ found[q].start \in Nat /\ found[q] \in Item
  <2> SUFFICES ASSUME NEW q \in new
               PROVE  q \in Nat /\ found[q].start \in Nat /\ found[q] \in Item
    OBVIOUS
  <2>1. q \in 1 .. Len(found)
    BY <1>3
  <2> QED
    BY <1>2, <2>1 DEF Item
<1>5. IsFiniteSet(new)
  <2>1. IsFiniteSet(1 .. Len(found))
    BY <1>2, FS_Interval
  <2> QED
    BY <1>3, <2>1, FS_Subset
<1>6. Orders(R, new)
  <2>1. \A p \in new : ~before(p, p)
    BY <1>4
  <2>2. \A p, q, r \in new : before(p, q) /\ before(q, r) => before(p, r)
    BY <1>4
  <2>3. \A p, q \in new : p = q \/ before(p, q) \/ before(q, p)
    BY <1>4
  <2>4. \A p, q \in new : <<p, q>> \in R <=> before(p, q)
    OBVIOUS
  <2> HIDE DEF R, before
  <2> QED
    BY <2>1, <2>2, <2>3, <2>4 DEF Orders
<1>7. \A q \in new : Rank(R, new, q) + 1 = place(q)
  <2> SUFFICES ASSUME NEW q \in new PROVE Rank(R, new, q) + 1 = place(q)
    OBVIOUS
  <2>1. {p \in new : <<p, q>> \in R} = {p \in new : before(p, q)}
    <3> HIDE DEF before
    <3> QED
      OBVIOUS
  <2> QED
    BY <2>1 DEF Rank
<1>8. \A p, q \in new : <<p, q>> \in R => found[p].start <= found[q].start
  BY <1>4
<1> HIDE DEF R
<1>9. /\ c \in Nat
      /\ \A q \in new : Rank(R, new, q) \in Nat
      /\ \A p, q \in new : Rank(R, new, p) < Rank(R, new, q) => <<p, q>> \in R
      /\ \A n \in 1 .. c : \E q \in new : Rank(R, new, q) + 1 = n
  BY <1>5, <1>6, RankFacts
<1> HIDE DEF place
<1>10. \A n \in 1 .. c : at(n) \in new /\ Rank(R, new, at(n)) + 1 = n
  <2> SUFFICES ASSUME NEW n \in 1 .. c
               PROVE  at(n) \in new /\ Rank(R, new, at(n)) + 1 = n
    OBVIOUS
  <2>1. \E q \in new : place(q) = n
    BY <1>7, <1>9
  <2> QED
    BY <1>7, <2>1
<1> HIDE DEF at
<1>11. \A n \in 1 .. c : s[n] = found[at(n)] /\ s[n] \in Item
  BY <1>4, <1>10
<1>12. s \in Seq(Item) /\ Len(s) = c
  <2>1. s \in [1 .. c -> Item]
    BY <1>11
  <2> HIDE DEF s, c
  <2> QED
    BY <1>9, <2>1, SeqOfFunction
<1> HIDE DEF s
<1>13. ASSUME NEW n \in 1 .. c, NEW m \in 1 .. n - 1
       PROVE  s[m].start <= s[n].start
  <2>1. m \in 1 .. c /\ m < n /\ m \in Nat /\ n \in Nat
    <3> HIDE DEF c
    <3> QED
      BY <1>9
  <2>2. /\ at(m) \in new /\ at(n) \in new
        /\ Rank(R, new, at(m)) + 1 = m /\ Rank(R, new, at(n)) + 1 = n
        /\ Rank(R, new, at(m)) \in Nat /\ Rank(R, new, at(n)) \in Nat
    BY <1>9, <1>10, <2>1
  <2>3. Rank(R, new, at(m)) < Rank(R, new, at(n))
    BY <2>1, <2>2
  <2>4. <<at(m), at(n)>> \in R
    BY <1>9, <2>2, <2>3
  <2> QED
    BY <1>8, <1>11, <2>1, <2>2, <2>4
<1>14. ASSUME NEW n \in 1 .. c
       PROVE  /\ s[n].end + offset > minimum_end_index
              /\ \E q \in 1 .. Len(found) : s[n] = found[q]
  <2>1. at(n) \in new /\ s[n] = found[at(n)]
    BY <1>10, <1>11
  <2> QED
    BY <1>3, <2>1
<1> QED
  BY <1>1, <1>12, <1>13, <1>14 DEF Group

LEMMA ItemFacts ==
  ASSUME NEW x \in Item
  PROVE  x.start \in Nat /\ x.end \in Nat /\ x.start < x.end
BY DEF Item

\* What is found for a group are words of it.
LEMMA FoundFacts ==
  ASSUME NEW source \in Seq(Char), NEW words \in Seq(Word)
  PROVE  /\ FoundBy(words, source) \in Seq(Item)
         /\ \A n \in 1 .. Len(FoundBy(words, source)) :
              \E w \in 1 .. Len(words), p \in 1 .. Len(source) :
                /\ RawAt(source, p, words[w])
                /\ FoundBy(words, source)[n].start = p - 1
                /\ FoundBy(words, source)[n].end = p - 1 + Len(words[w])
<1> DEFINE found(w) == Evaluate(source, words[w])
           item(w, k) == [start |-> found(w)[k].start,
                          end |-> found(w)[k].start + Len(words[w])]
           list(w) == [k \in DOMAIN found(w) |-> item(w, k)]
           s == [w \in DOMAIN words |-> list(w)]
           t == FlattenSeq(s)
<1>1. FoundBy(words, source) = t
  BY DEF FoundBy
<1>2. /\ Len(words) \in Nat /\ DOMAIN words = 1 .. Len(words)
      /\ \A w \in 1 .. Len(words) : words[w] \in Word
  BY LenProperties, ElementOfSeq
<1>3. \A w \in 1 .. Len(words) :
        /\ Hits(found(w), source, words[w], 1)
        /\ Len(words[w]) \in Nat /\ Len(words[w]) >= 1
  BY <1>2, EvaluateFacts, WordFacts
<1> HIDE DEF found
<1>4. \A w \in 1 .. Len(words) :
        /\ Len(found(w)) \in Nat /\ DOMAIN found(w) = 1 .. Len(found(w))
        /\ \A k \in 1 .. Len(found(w)) :
             /\ found(w)[k].start \in Nat
             /\ found(w)[k].start + 1 \in 1 .. Len(source)
             /\ RawAt(source, found(w)[k].start + 1, words[w])
  <2> SUFFICES ASSUME NEW w \in 1 .. Len(words)
               PROVE  /\ Len(found(w)) \in Nat /\ DOMAIN found(w) = 1 .. Len(found(w))
                      /\ \A k \in 1 .. Len(found(w)) :
                           /\ found(w)[k].start \in Nat
                           /\ found(w)[k].start + 1 \in 1 .. Len(source)
                           /\ RawAt(source, found(w)[k].start + 1, words[w])
    OBVIOUS
  <2>1. Hits(found(w), source, words[w], 1)
    BY <1>3
  <2>2. found(w) \in Seq(Hit)
    BY <2>1 DEF Hits
  <2>3. Len(found(w)) \in Nat /\ DOMAIN found(w) = 1 .. Len(found(w))
        /\ \A k \in 1 .. Len(found(w)) : found(w)[k] \in Hit
    BY <2>2, LenProperties, ElementOfSeq
  <2> QED
    BY <2>1, <2>3 DEF Hits, Hit
<1>5. ASSUME NEW w \in 1 .. Len(words)
      PROVE  /\ list(w) \in Seq(Item) /\ Len(list(w)) = Len(found(w))
             /\ \A k \in 1 .. Len(found(w)) : list(w)[k] = item(w, k)
  <2>1. \A k \in 1 .. Len(found(w)) : item(w, k) \in Item
    <3> SUFFICES ASSUME NEW k \in 1 .. Len(found(w)) PROVE item(w, k) \in Item
      OBVIOUS
    <3> DEFINE a == found(w)[k].start
               b == a + Len(words[w])
    <3>1. a \in Nat /\ b \in Nat /\ a < b
      BY <1>3, <1>4
    <3>2. item(w, k) = [start |-> a, end |-> b]
      OBVIOUS
    <3> HIDE DEF a, b, item
    <3> QED
      BY <3>1, <3>2 DEF Item
  <2> HIDE DEF item
  <2>2. DOMAIN found(w) = 1 .. Len(found(w)) /\ Len(found(w)) \in Nat
    BY <1>4
  <2>3. list(w) \in [1 .. Len(found(w)) -> Item]
    BY <2>1, <2>2
  <2>4. \A k \in 1 .. Len(found(w)) : list(w)[k] = item(w, k)
    BY <2>2
  <2> HIDE DEF list
  <2> QED
    BY <2>2, <2>3, <2>4, SeqOfFunction
<1>6. \A w \in 1 .. Len(words) : \A k \in 1 .. Len(found(w)) :
        /\ item(w, k).start = found(w)[k].start
        /\ item(w, k).end = found(w)[k].start + Len(words[w])
  OBVIOUS
<1> HIDE DEF list, item
<1>7. s \in Seq(Seq(Item)) /\ Len(s) = Len(words)
      /\ \A w \in 1 .. Len(words) : s[w] = list(w)
  <2>1. s \in [1 .. Len(words) -> Seq(Item)]
    BY <1>2, <1>5
  <2>2. \A w \in 1 .. Len(words) : s[w] = list(w)
    BY <1>2
  <2> HIDE DEF s
  <2> QED
    BY <1>2, <2>1, <2>2, SeqOfFunction
<1> HIDE DEF s
<1>8. t \in Seq(Item) /\ \E begin : Laid(s, begin) /\ MadeOf(t, s, Len(s), begin)
  BY <1>7, FlattenFacts
<1> HIDE DEF t
<1>9. PICK begin : MadeOf(t, s, Len(s), begin)
  BY <1>8
<1>10. ASSUME NEW n \in 1 .. Len(t)
       PROVE  \E w \in 1 .. Len(words), p \in 1 .. Len(source) :
                /\ RawAt(source, p, words[w])
                /\ t[n].start = p - 1
                /\ t[n].end = p - 1 + Len(words[w])
  <2>1. PICK w \in 1 .. Len(words) : \E k \in 1 .. Len(s[w]) : t[n] = s[w][k]
    <3>1. \E w \in 1 .. Len(s) : \E k \in 1 .. Len(s[w]) :
            n = begin[w] + k /\ t[n] = s[w][k]
      BY <1>9 DEF MadeOf
    <3>2. Len(s) = Len(words)
      BY <1>7
    <3> QED
      BY <3>1, <3>2
  <2>2. PICK k \in 1 .. Len(s[w]) : t[n] = s[w][k]
    BY <2>1
  <2>3. k \in 1 .. Len(found(w)) /\ t[n] = item(w, k)
    BY <1>5, <1>7, <2>2
  <2> DEFINE p == found(w)[k].start + 1
  <2>4. p \in 1 .. Len(source) /\ RawAt(source, p, words[w]) /\ p - 1 = found(w)[k].start
    BY <1>4, <2>3
  <2>5. t[n].start = found(w)[k].start /\ t[n].end = found(w)[k].start + Len(words[w])
    BY <1>6, <2>3
  <2> HIDE DEF p
  <2> QED
    BY <2>4, <2>5
<1> QED
  BY <1>1, <1>8, <1>10

(***************************************************************************)
(* do_matching of a Correlate category.                                    *)
(***************************************************************************)
Couple == [match : Item, item1 : Item, item2 : Item]

\* The two lists are those of this call, unless it did not make them yet, and the indices
\* are in them.
Walk ==
  /\ words1 \in Seq(Word) /\ words2 \in Seq(Word)
  /\ offset \in Nat /\ minimum_end_index \in Nat
  /\ found1 \in Seq(Item) /\ found2 \in Seq(Item)
  /\ pc \in {"idle", "collect", "outer", "inner"}
  /\ pc # "collect" => Group(group1) /\ Group(group2)
  /\ pc \in {"outer", "inner"} => i \in 0 .. Len(group1)
  /\ pc = "inner" => i >= 1
  /\ group2_index \in Nat /\ group2_index >= 1
  /\ continuity_index \in Nat
  /\ correlated \in Seq(Couple)

LEMMA WalkInit == TaskInit => Walk
<1> SUFFICES ASSUME TaskInit PROVE Walk
  OBVIOUS
<1>1. PICK p \in Policies : raw = p.raw /\ words1 = p.group1 /\ words2 = p.group2
  BY DEF TaskInit
<1>2. Policies \subseteq [raw : Word, group1 : Seq(Word), group2 : Seq(Word)]
  BY PoliciesAssumption DEF Word, Letter
<1>3. words1 \in Seq(Word) /\ words2 \in Seq(Word)
  BY <1>1, <1>2
<1>4. /\ offset = 0 /\ minimum_end_index = 0 /\ found1 = << >> /\ found2 = << >>
      /\ group1 = << >> /\ group2 = << >> /\ i = 0 /\ group2_index = 1
      /\ continuity_index = 0 /\ pc = "idle" /\ correlated = << >>
  BY DEF TaskInit, C!Init
<1>5. \A S : << >> \in Seq(S) /\ Len(<< >>) = 0
  BY EmptySeq
<1>6. Group(<< >>)
  BY <1>5 DEF Group
<1> QED
  BY <1>3, <1>4, <1>5, <1>6 DEF Walk

\* What a call of do_matching is given.
LEMMA CallFacts ==
  ASSUME Cut, Walk, NEW n \in 1 .. ChunkSize, ReadPiece(n)
  PROVE  \E first, t :
           /\ Extended(n, first, t)
           /\ Utf8Lossy(chunk') \in Seq(Char)
           /\ found1' = FoundBy(words1, Utf8Lossy(chunk'))
           /\ found2' = FoundBy(words2, Utf8Lossy(chunk'))
           /\ offset' = first /\ minimum_end_index' = total_read
           /\ pc = "idle" /\ pc' = "collect"
           /\ words1' = words1 /\ words2' = words2
           /\ UNCHANGED <<group1, group2, i, group2_index, continuity_index, correlated>>
<1>1. Read(n)
  BY DEF ReadPiece
<1>2. PICK first, t : Extended(n, first, t)
  BY <1>1, ReadExtends
<1>3. first = Index /\ chunk' \in Seq(Byte)
  BY <1>2 DEF Extended
<1>4. Utf8Lossy(chunk') \in Seq(Char)
  BY <1>3, LossyFacts
<1>5. /\ found1' = FoundBy(words1, Utf8Lossy(chunk'))
      /\ found2' = FoundBy(words2, Utf8Lossy(chunk'))
      /\ offset' = Index /\ minimum_end_index' = total_read
      /\ pc = "idle" /\ pc' = "collect"
      /\ words1' = words1 /\ words2' = words2
      /\ UNCHANGED <<group1, group2, i, group2_index, continuity_index, correlated>>
  BY DEF ReadPiece, C!Call, C!indices, task
<1> QED
  BY <1>2, <1>3, <1>4, <1>5

\* What the inner loop looks at.
LEMMA InnerFacts ==
  ASSUME Walk, C!Inner
  PROVE  /\ pc = "inner" /\ i \in 1 .. Len(group1) /\ i \in Nat
         /\ group2_index \in 1 .. Len(group2) /\ group2_index \in Nat
         /\ Group(group1) /\ Group(group2)
         /\ group1[i] \in Item /\ group2[group2_index] \in Item
         /\ group2[group2_index].end + offset > minimum_end_index
<1>1. pc = "inner" /\ group2_index <= Len(group2)
      /\ group2[group2_index].end + offset > minimum_end_index
  BY DEF C!Inner, C!IsNew, C!Item2
<1>2. /\ Group(group1) /\ Group(group2) /\ i \in 0 .. Len(group1) /\ i >= 1
      /\ group2_index \in Nat /\ group2_index >= 1
  BY <1>1 DEF Walk
<1>3. group1 \in Seq(Item) /\ group2 \in Seq(Item)
  BY <1>2 DEF Group
<1>4. Len(group1) \in Nat /\ Len(group2) \in Nat
  BY <1>3, LenProperties
<1>5. i \in 1 .. Len(group1) /\ group2_index \in 1 .. Len(group2)
  BY <1>1, <1>2, <1>4
<1>6. group1[i] \in Item /\ group2[group2_index] \in Item
  BY <1>3, <1>5, ElementOfSeq
<1> QED
  BY <1>1, <1>2, <1>4, <1>5, <1>6

\* What Emit reports of x and y, when the later of their ends is e.
Reports(c, x, y, e) ==
  /\ c \in Couple
  /\ correlated' = Append(correlated, c)
  /\ c.item1 = [start |-> x.start + offset, end |-> x.end + offset]
  /\ c.item2 = [start |-> y.start + offset, end |-> y.end + offset]
  /\ e \in {x.end, y.end} /\ x.end <= e /\ y.end <= e
  /\ c.match.end = x.end + offset \/ c.match.end = y.end + offset

LEMMA EmitFacts ==
  ASSUME Walk, C!Emit, NEW x, NEW y, x = group1[i], y = group2[group2_index]
  PROVE  /\ x \in Item /\ y \in Item
         /\ \E c : Reports(c, x, y, continuity_index')
         /\ y.start >= continuity_index
         /\ x.end + Distance >= y.start /\ y.end + Distance >= x.start
         /\ pc = "inner" /\ group2_index' = group2_index + 2
         /\ UNCHANGED <<offset, minimum_end_index, found1, found2, group1, group2, i, pc>>
<1>1. C!Inner
  BY DEF C!Emit
<1>2. /\ x \in Item /\ y \in Item /\ pc = "inner"
  BY <1>1, InnerFacts
<1>3. /\ x.start \in Nat /\ x.end \in Nat /\ x.start < x.end
      /\ y.start \in Nat /\ y.end \in Nat /\ y.start < y.end
      /\ offset \in Nat /\ Distance \in Nat /\ continuity_index \in Nat
  BY <1>2, ItemFacts, CorrelateAssumption DEF Walk
<1> DEFINE lo == IF x.start < y.start THEN x.start ELSE y.start
           hi == IF x.end > y.end THEN x.end ELSE y.end
           total == [start |-> lo, end |-> hi]
           z == [group1 |-> x, group2 |-> y, all |-> total][Interest]
           in(v) == [start |-> v.start + offset, end |-> v.end + offset]
           c == [match |-> in(z), item1 |-> in(x), item2 |-> in(y)]
<1>4. /\ lo \in Nat /\ hi \in Nat /\ lo < hi
      /\ hi \in {x.end, y.end} /\ x.end <= hi /\ y.end <= hi
  BY <1>3
<1>5. total \in Item /\ total.end = hi
  <2> HIDE DEF lo, hi
  <2> QED
    BY <1>4 DEF Item
<1>6. C!Total(x, y) = total
  BY DEF C!Total, C!Lesser, C!Greater
<1>7. /\ correlated' = Append(correlated, c)
      /\ continuity_index' = total.end
      /\ group2_index' = group2_index + 2
      /\ UNCHANGED <<offset, minimum_end_index, found1, found2, group1, group2, i, pc>>
  <2> HIDE DEF total
  <2> QED
    BY <1>6 DEF C!Emit, C!Emitted, C!InBody, C!Item1, C!Item2, C!groups
<1>8. /\ ~(y.start < continuity_index)
      /\ ~(x.end + Distance < y.start) /\ ~(y.end + Distance < x.start)
  BY DEF C!Emit, C!Item1, C!Item2, C!Item2Overlaps, C!Item2Ahead, C!Item2Behind
<1>9. z \in Item /\ z.end \in {x.end, y.end}
  <2>1. z = x \/ z = y \/ z = total
    <3> HIDE DEF total
    <3> QED
      BY CorrelateAssumption
  <2>2. total.end \in {x.end, y.end}
    BY <1>4, <1>5
  <2> HIDE DEF z, total
  <2> QED
    BY <1>2, <1>5, <2>1, <2>2
<1> HIDE DEF z
<1>10. ASSUME NEW v \in Item PROVE in(v) \in Item /\ in(v).end = v.end + offset
  <2>1. /\ v.start + offset \in Nat /\ v.end + offset \in Nat
        /\ v.start + offset < v.end + offset
    BY <1>3, ItemFacts
  <2> DEFINE a == v.start + offset
             b == v.end + offset
  <2>2. in(v) = [start |-> a, end |-> b]
    OBVIOUS
  <2> HIDE DEF a, b, in
  <2> QED
    BY <2>1, <2>2 DEF Item, a, b
<1>11. c \in Couple /\ c.item1 = in(x) /\ c.item2 = in(y) /\ c.match.end = z.end + offset
  <2>1. in(x) \in Item /\ in(y) \in Item /\ in(z) \in Item /\ in(z).end = z.end + offset
    BY <1>2, <1>9, <1>10
  <2> HIDE DEF in
  <2> QED
    BY <2>1 DEF Couple
<1>12. Reports(c, x, y, continuity_index')
  <2>1. c.match.end = x.end + offset \/ c.match.end = y.end + offset
    BY <1>9, <1>11
  <2>2. continuity_index' = hi
    BY <1>5, <1>7
  <2> HIDE DEF c, hi
  <2> QED
    BY <1>4, <1>7, <1>11, <2>1, <2>2 DEF Reports
<1>13. /\ y.start >= continuity_index
       /\ x.end + Distance >= y.start /\ y.end + Distance >= x.start
  BY <1>3, <1>8
<1> QED
  BY <1>2, <1>7, <1>12, <1>13

LEMMA WalkRead ==
  ASSUME Cut, Walk, NEW n \in 1 .. ChunkSize, ReadPiece(n)
  PROVE  Walk'
<1>1. PICK first, t :
        /\ Extended(n, first, t)
        /\ Utf8Lossy(chunk') \in Seq(Char)
        /\ found1' = FoundBy(words1, Utf8Lossy(chunk'))
        /\ found2' = FoundBy(words2, Utf8Lossy(chunk'))
        /\ offset' = first /\ minimum_end_index' = total_read
        /\ pc = "idle" /\ pc' = "collect"
        /\ words1' = words1 /\ words2' = words2
        /\ UNCHANGED <<group1, group2, i, group2_index, continuity_index, correlated>>
  BY CallFacts
<1>2. first \in Nat /\ total_read \in Nat
  BY <1>1, CutFacts DEF Extended
<1>3. words1 \in Seq(Word) /\ words2 \in Seq(Word)
  BY DEF Walk
<1>4. found1' \in Seq(Item) /\ found2' \in Seq(Item)
  BY <1>1, <1>3, FoundFacts
<1>5. /\ words1' \in Seq(Word) /\ words2' \in Seq(Word)
      /\ offset' \in Nat /\ minimum_end_index' \in Nat
      /\ group2_index' \in Nat /\ group2_index' >= 1
      /\ continuity_index' \in Nat /\ correlated' \in Seq(Couple)
  BY <1>1, <1>2 DEF Walk
<1> QED
  BY <1>1, <1>4, <1>5 DEF Walk

LEMMA WalkCollect ==
  ASSUME Walk, C!Collect, UNCHANGED task
  PROVE  Walk'
<1>1. /\ group1' = C!Sorted(found1) /\ group2' = C!Sorted(found2)
      /\ i' = 0 /\ group2_index' = 1 /\ continuity_index' = 0
      /\ pc' \in {"idle", "outer"}
      /\ UNCHANGED <<offset, minimum_end_index, found1, found2, correlated>>
      /\ words1' = words1 /\ words2' = words2
  BY DEF C!Collect, task
<1>2. /\ found1 \in Seq(Item) /\ found2 \in Seq(Item)
      /\ offset \in Nat /\ minimum_end_index \in Nat
      /\ words1 \in Seq(Word) /\ words2 \in Seq(Word) /\ correlated \in Seq(Couple)
  BY DEF Walk
<1>3. Group(C!Sorted(found1)) /\ Group(C!Sorted(found2))
  BY <1>2, SortedFacts
<1>4. Group(group1)' /\ Group(group2)'
  BY <1>1, <1>3 DEF Group
<1>5. i' \in 0 .. Len(group1')
  <2>1. Len(group1') \in Nat
    BY <1>4, LenProperties DEF Group
  <2> QED
    BY <1>1, <2>1
<1> QED
  BY <1>1, <1>2, <1>4, <1>5 DEF Walk

LEMMA WalkEmit ==
  ASSUME Walk, C!Emit, UNCHANGED task
  PROVE  Walk'
<1>1. PICK c : Reports(c, group1[i], group2[group2_index], continuity_index')
  BY EmitFacts
<1>2. /\ group1[i] \in Item /\ group2[group2_index] \in Item
      /\ pc = "inner" /\ group2_index' = group2_index + 2
      /\ UNCHANGED <<offset, minimum_end_index, found1, found2, group1, group2, i, pc>>
      /\ words1' = words1 /\ words2' = words2
  BY EmitFacts DEF task
<1>3. c \in Couple /\ correlated' = Append(correlated, c)
      /\ continuity_index' \in {group1[i].end, group2[group2_index].end}
  BY <1>1 DEF Reports
<1>4. continuity_index' \in Nat
  BY <1>2, <1>3, ItemFacts
<1>5. correlated' \in Seq(Couple)
  BY <1>3, AppendProperties DEF Walk
<1>6. group2_index' \in Nat /\ group2_index' >= 1
  BY <1>2 DEF Walk
<1> QED
  BY <1>2, <1>4, <1>5, <1>6 DEF Walk, Group

LEMMA WalkStep == Cut /\ Walk /\ [TaskNext]_allvars => Walk'
<1> SUFFICES ASSUME Cut, Walk, [TaskNext]_allvars PROVE Walk'
  OBVIOUS
<1>1. CASE \E n \in 1 .. ChunkSize : ReadPiece(n)
  BY <1>1, WalkRead
<1>2. CASE Pair
  <2>1. UNCHANGED task /\ C!Step
    BY <1>2 DEF Pair
  <2>2. CASE C!Collect
    BY <2>1, <2>2, WalkCollect
  <2>3. CASE C!Outer
    <3>1. /\ pc = "outer" /\ i' \in {i, i + 1} /\ (i' = i + 1 => i # Len(group1))
          /\ pc' \in {"idle", "outer", "inner"} /\ (pc' = "inner" => i' = i + 1)
          /\ UNCHANGED <<offset, minimum_end_index, found1, found2, group1, group2,
                         group2_index, continuity_index, correlated, words1, words2>>
      BY <2>1, <2>3 DEF C!Outer, C!groups, task, Walk
    <3>2. i \in 0 .. Len(group1) /\ Len(group1) \in Nat
      BY <3>1, LenProperties DEF Walk, Group
    <3>3. i' \in 0 .. Len(group1) /\ (pc' = "inner" => i' >= 1)
      BY <3>1, <3>2
    <3> QED
      BY <3>1, <3>3 DEF Walk, Group
  <2>4. CASE C!InnerAhead
    BY <2>1, <2>4 DEF C!InnerAhead, C!Inner, C!Item2Stays, C!groups, task, Walk, Group
  <2>5. CASE C!InnerBehind
    BY <2>1, <2>5 DEF C!InnerBehind, C!Inner, C!groups, task, Walk, Group
  <2>6. CASE C!Emit
    BY <2>1, <2>6, WalkEmit
  <2>7. CASE C!InnerEnds
    BY <2>1, <2>7 DEF C!InnerEnds, C!groups, C!indices, task, Walk, Group
  <2> QED
    BY <2>1, <2>2, <2>3, <2>4, <2>5, <2>6, <2>7 DEF C!Step
<1>3. CASE TaskEnd \/ UNCHANGED allvars
  BY <1>3 DEF TaskEnd, allvars, correlation, task, Walk, Group
<1> QED
  BY <1>1, <1>2, <1>3 DEF TaskNext

LEMMA WalkHolds == TaskSpec => [](Cut /\ Walk)
<1>1. TaskSpec => []Cut
  BY TaskIsScan, CutHolds, PTL
<1> QED
  BY <1>1, WalkInit, WalkStep, PTL DEF TaskSpec

(***************************************************************************)
(* OnlyNear: what the loops let through.                                   *)
(***************************************************************************)
\* What was reported stays, and what is added is of the two items that are looked at.
LEMMA CorrelatedStep ==
  ASSUME Cut, Walk, [TaskNext]_allvars
  PROVE  \/ correlated' = correlated
         \/ C!Emit /\ UNCHANGED <<vars, task>>
<1>1. CASE \E n \in 1 .. ChunkSize : ReadPiece(n)
  BY <1>1 DEF ReadPiece, C!Call
<1>2. CASE Pair
  BY <1>2 DEF Pair, C!Step, C!Collect, C!Outer, C!InnerAhead, C!InnerBehind, C!InnerEnds
<1>3. CASE TaskEnd \/ UNCHANGED allvars
  BY <1>3 DEF TaskEnd, allvars, correlation
<1> QED
  BY <1>1, <1>2, <1>3 DEF TaskNext

LEMMA AppendFacts ==
  ASSUME Walk, NEW c, NEW x, NEW y, NEW e, Reports(c, x, y, e)
  PROVE  /\ Len(correlated) \in Nat /\ Len(correlated') = Len(correlated) + 1
         /\ \A k \in 1 .. Len(correlated) : correlated'[k] = correlated[k]
         /\ correlated'[Len(correlated) + 1] = c
         /\ \A k \in 1 .. Len(correlated') :
              k \in 1 .. Len(correlated) \/ k = Len(correlated) + 1
<1>1. correlated \in Seq(Couple) /\ c \in Couple /\ correlated' = Append(correlated, c)
  BY DEF Walk, Reports
<1>2. /\ Len(correlated) \in Nat /\ Len(correlated') = Len(correlated) + 1
      /\ \A k \in 1 .. Len(correlated) : correlated'[k] = correlated[k]
      /\ correlated'[Len(correlated) + 1] = c
  BY <1>1, AppendProperties, LenProperties
<1> QED
  BY <1>2

\* An item that is neither too far ahead nor too far behind is near.
LEMMA NearFacts ==
  ASSUME NEW x \in Item, NEW y \in Item
  PROVE  C!Near(x, y) <=> x.end + Distance >= y.start /\ y.end + Distance >= x.start
<1> DEFINE a == x.start
           b == x.end
           c == y.start
           d == y.end
<1>1. /\ a \in Nat /\ b \in Nat /\ c \in Nat /\ d \in Nat /\ a < b /\ c < d
      /\ Distance \in Nat
  BY ItemFacts, CorrelateAssumption
<1>2. C!Near(x, y) <=> (IF b < c THEN c - b ELSE IF d < a THEN a - d ELSE 0) <= Distance
  BY DEF C!Near, C!Gap
<1> HIDE DEF a, b, c, d
<1>3. (IF b < c THEN c - b ELSE IF d < a THEN a - d ELSE 0) <= Distance
        <=> b + Distance >= c /\ d + Distance >= a
  BY <1>1
<1> QED
  BY <1>2, <1>3 DEF a, b, c, d

AllNear ==
  \A k \in 1 .. Len(correlated) : C!Near(correlated[k].item1, correlated[k].item2)

LEMMA AllNearStep == Cut /\ Walk /\ AllNear /\ [TaskNext]_allvars => AllNear'
<1> SUFFICES ASSUME Cut, Walk, AllNear, [TaskNext]_allvars PROVE AllNear'
  OBVIOUS
<1>1. CASE correlated' = correlated
  BY <1>1 DEF AllNear, C!Near, C!Gap
<1>2. CASE C!Emit
  <2> DEFINE x == group1[i]
             y == group2[group2_index]
  <2>1. /\ x \in Item /\ y \in Item
        /\ \E c : Reports(c, x, y, continuity_index')
        /\ x.end + Distance >= y.start /\ y.end + Distance >= x.start
    BY <1>2, EmitFacts
  <2> HIDE DEF x, y
  <2>2. PICK c : Reports(c, x, y, continuity_index')
    BY <2>1
  <2>3. c \in Couple /\ c.item1 = [start |-> x.start + offset, end |-> x.end + offset]
        /\ c.item2 = [start |-> y.start + offset, end |-> y.end + offset]
    BY <2>2 DEF Reports
  <2>4. c.item1 \in Item /\ c.item2 \in Item
    BY <2>3 DEF Couple
  <2>5. /\ c.item1.start = x.start + offset /\ c.item1.end = x.end + offset
        /\ c.item2.start = y.start + offset /\ c.item2.end = y.end + offset
    BY <2>3
  <2>6. C!Near(c.item1, c.item2)
    <3> DEFINE xs == x.start
               xe == x.end
               ys == y.start
               ye == y.end
    <3>1. /\ xs \in Nat /\ xe \in Nat /\ ys \in Nat /\ ye \in Nat
          /\ xe + Distance >= ys /\ ye + Distance >= xs
          /\ offset \in Nat /\ Distance \in Nat
      BY <2>1, ItemFacts, CorrelateAssumption DEF Walk
    <3> HIDE DEF xs, xe, ys, ye
    <3>2. /\ xe + offset + Distance >= ys + offset
          /\ ye + offset + Distance >= xs + offset
      BY <3>1
    <3> USE DEF xs, xe, ys, ye
    <3> QED
      BY <2>4, <2>5, <3>2, NearFacts
  <2>7. /\ \A k \in 1 .. Len(correlated) : correlated'[k] = correlated[k]
        /\ correlated'[Len(correlated) + 1] = c
        /\ \A k \in 1 .. Len(correlated') :
             k \in 1 .. Len(correlated) \/ k = Len(correlated) + 1
    BY <2>2, AppendFacts
  <2>8. \A k \in 1 .. Len(correlated') :
          C!Near(correlated'[k].item1, correlated'[k].item2)
    BY <2>6, <2>7 DEF AllNear
  <2> QED
    BY <2>8 DEF AllNear, C!Near, C!Gap
<1> QED
  BY <1>1, <1>2, CorrelatedStep

\* Only items within the distance of each other are correlated, whatever the body and
\* whatever is found in which piece (evaluator.rs:304-312): the distance of the positions
\* that are reported.
THEOREM OnlyNearHolds == TaskSpec => []OnlyNear
<1>1. TaskInit => AllNear
  <2> SUFFICES ASSUME TaskInit PROVE AllNear
    OBVIOUS
  <2>1. Len(correlated) = 0
    BY EmptySeq DEF TaskInit, C!Init
  <2> QED
    BY <2>1 DEF AllNear
<1>2. Cut /\ Walk /\ AllNear => OnlyNear
  <2> SUFFICES ASSUME Walk, AllNear PROVE OnlyNear
    OBVIOUS
  <2>1. DOMAIN correlated = 1 .. Len(correlated)
    BY LenProperties DEF Walk
  <2> QED
    BY <2>1 DEF AllNear, OnlyNear, C!OnlyNear
<1> QED
  BY <1>1, <1>2, AllNearStep, WalkHolds, PTL DEF TaskSpec

(***************************************************************************)
(* PairsAreThere: the position in the body of what is found in a piece.    *)
(***************************************************************************)
\* The item, of a piece that begins at `off`, is a word of the group in what was read.
There(x, words, off) ==
  /\ x.end + off <= total_read
  /\ \E w \in 1 .. Len(words) :
       x.end = x.start + Len(words[w]) /\ At(words[w], x.start + off)

AllThere(g, words) == \A k \in 1 .. Len(g) : There(g[k], words, offset)

CoupleThere(c) ==
  /\ There(c.item1, words1, 0) /\ There(c.item2, words2, 0)
  /\ c.match.end <= total_read

\* The lists of the last call are not of this piece before Collect makes new ones.
PairsThere ==
  Plain =>
    /\ AllThere(found1, words1) /\ AllThere(found2, words2)
    /\ pc # "collect" => AllThere(group1, words1) /\ AllThere(group2, words2)
    /\ \A k \in 1 .. Len(correlated) : CoupleThere(correlated[k])

\* What is found in a piece is there.
LEMMA FoundThere ==
  ASSUME Cut, Plain, NEW n \in Nat, NEW first, NEW t, Extended(n, first, t),
         NEW words \in Seq(Word), NEW f, f = FoundBy(words, Utf8Lossy(chunk'))
  PROVE  \A k \in 1 .. Len(f) :
           /\ f[k].end + first <= total_read'
           /\ \E w \in 1 .. Len(words) :
                /\ f[k].end = f[k].start + Len(words[w])
                /\ At(words[w], f[k].start + first)
<1> DEFINE source == Utf8Lossy(chunk')
<1>1. source \in Seq(Char)
  BY LossyFacts DEF Extended
<1> SUFFICES ASSUME NEW k \in 1 .. Len(f)
             PROVE  /\ f[k].end + first <= total_read'
                    /\ \E w \in 1 .. Len(words) :
                         /\ f[k].end = f[k].start + Len(words[w])
                         /\ At(words[w], f[k].start + first)
  OBVIOUS
<1>2. PICK w \in 1 .. Len(words), p \in 1 .. Len(source) :
        /\ RawAt(source, p, words[w])
        /\ f[k].start = p - 1 /\ f[k].end = p - 1 + Len(words[w])
  BY <1>1, FoundFacts
<1>3. words[w] \in Word /\ Len(words[w]) \in Nat
  BY ElementOfSeq, WordFacts
<1>4. /\ p \in Nat /\ first \in Nat
      /\ p - 1 + first + Len(words[w]) <= total_read' /\ At(words[w], p - 1 + first)
  BY <1>2, <1>3, PlainRawAt
<1> DEFINE len == Len(words[w])
<1>5. p - 1 + len + first = p - 1 + first + len
  <2>1. p \in Nat /\ first \in Nat /\ len \in Nat
    BY <1>3, <1>4
  <2> HIDE DEF len
  <2> QED
    BY <2>1
<1> HIDE DEF source
<1>6. f[k].end + first <= total_read'
  BY <1>2, <1>4, <1>5
<1>7. f[k].end = f[k].start + Len(words[w]) /\ At(words[w], f[k].start + first)
  BY <1>2, <1>4
<1> QED
  BY <1>6, <1>7

\* What is there stays there.
LEMMA ThereStays ==
  ASSUME NEW x \in Item, NEW words, NEW off \in Nat, There(x, words, off),
         total_read \in Nat, total_read' \in Nat, total_read' >= total_read, body' = body
  PROVE  /\ x.end + off <= total_read'
         /\ \E w \in 1 .. Len(words) :
              x.end = x.start + Len(words[w]) /\ At(words[w], x.start + off)'
<1>1. x.end + off <= total_read /\ x.end \in Nat
  BY ItemFacts DEF There
<1>2. x.end + off <= total_read'
  BY <1>1
<1>3. PICK w \in 1 .. Len(words) :
        x.end = x.start + Len(words[w]) /\ At(words[w], x.start + off)
  BY DEF There
<1>4. \A k \in 1 .. Len(words[w]) : body'[x.start + off + k] = words[w][k]
  BY <1>3 DEF At
<1> QED
  BY <1>2, <1>3, <1>4 DEF At

LEMMA CoupleStays ==
  ASSUME NEW c \in Couple, CoupleThere(c),
         total_read \in Nat, total_read' \in Nat, total_read' >= total_read, body' = body,
         words1' = words1, words2' = words2
  PROVE  CoupleThere(c)'
<1>1. c.match \in Item /\ c.item1 \in Item /\ c.item2 \in Item
  BY DEF Couple
<1>2. There(c.item1, words1, 0) /\ There(c.item2, words2, 0) /\ c.match.end <= total_read
  BY DEF CoupleThere
<1>3. There(c.item1, words1, 0)'
  BY <1>1, <1>2, ThereStays DEF There
<1>4. There(c.item2, words2, 0)'
  BY <1>1, <1>2, ThereStays DEF There
<1>5. c.match.end <= total_read'
  BY <1>1, <1>2, ItemFacts
<1> QED
  BY <1>3, <1>4, <1>5 DEF CoupleThere

LEMMA PairsThereRead ==
  ASSUME Cut, Walk, PairsThere, NEW n \in 1 .. ChunkSize, ReadPiece(n)
  PROVE  PairsThere'
<1>1. PICK first, t :
        /\ Extended(n, first, t)
        /\ Utf8Lossy(chunk') \in Seq(Char)
        /\ found1' = FoundBy(words1, Utf8Lossy(chunk'))
        /\ found2' = FoundBy(words2, Utf8Lossy(chunk'))
        /\ offset' = first /\ minimum_end_index' = total_read
        /\ pc = "idle" /\ pc' = "collect"
        /\ words1' = words1 /\ words2' = words2
        /\ UNCHANGED <<group1, group2, i, group2_index, continuity_index, correlated>>
  BY CallFacts
<1>2. /\ n \in Nat /\ body' = body /\ total_read' = total_read + n /\ total_read \in Nat
  BY <1>1, CutFacts DEF Extended
<1> SUFFICES ASSUME Plain PROVE PairsThere'
  BY <1>2 DEF PairsThere, Plain
<1>3. words1 \in Seq(Word) /\ words2 \in Seq(Word)
  BY DEF Walk
<1>4. AllThere(found1, words1)'
  <2>1. \A k \in 1 .. Len(found1') :
           /\ found1'[k].end + first <= total_read'
           /\ \E w \in 1 .. Len(words1) :
                /\ found1'[k].end = found1'[k].start + Len(words1[w])
                /\ At(words1[w], found1'[k].start + first)
    BY <1>1, <1>2, <1>3, FoundThere
  <2>2. offset' = first /\ body' = body /\ words1' = words1
    BY <1>1, <1>2
  <2> QED
    BY <2>1, <2>2 DEF AllThere, There, At
<1>5. AllThere(found2, words2)'
  <2>1. \A k \in 1 .. Len(found2') :
           /\ found2'[k].end + first <= total_read'
           /\ \E w \in 1 .. Len(words2) :
                /\ found2'[k].end = found2'[k].start + Len(words2[w])
                /\ At(words2[w], found2'[k].start + first)
    BY <1>1, <1>2, <1>3, FoundThere
  <2>2. offset' = first /\ body' = body /\ words2' = words2
    BY <1>1, <1>2
  <2> QED
    BY <2>1, <2>2 DEF AllThere, There, At
<1>6. ASSUME NEW k \in 1 .. Len(correlated) PROVE CoupleThere(correlated[k])'
  <2>1. correlated[k] \in Couple /\ CoupleThere(correlated[k])
    BY ElementOfSeq DEF Walk, PairsThere
  <2> DEFINE c == correlated[k]
  <2> HIDE DEF c
  <2>2. c' = c
    BY <1>1 DEF c
  <2>3. total_read' \in Nat /\ total_read' >= total_read
    BY <1>2
  <2>4. /\ c.match.end <= total_read' /\ There(c.item1, words1, 0)'
        /\ There(c.item2, words2, 0)'
    <3>1. c \in Couple /\ CoupleThere(c)
      BY <2>1 DEF c
    <3> QED
      BY <1>1, <1>2, <2>2, <2>3, <3>1, CoupleStays DEF CoupleThere
  <2> QED
    BY <2>2, <2>4 DEF CoupleThere, c
<1> QED
  BY <1>1, <1>4, <1>5, <1>6 DEF PairsThere

\* The lists are made of what was found.
LEMMA SortedThere ==
  ASSUME Walk, NEW found \in Seq(Item), NEW words, AllThere(found, words)
  PROVE  AllThere(C!Sorted(found), words)
<1>1. \A n \in 1 .. Len(C!Sorted(found)) :
        \E q \in 1 .. Len(found) : C!Sorted(found)[n] = found[q]
  BY SortedFacts DEF Walk
<1> QED
  BY <1>1 DEF AllThere

\* What holds of an item of the piece holds of the item in the body.
LEMMA ThereInBody ==
  ASSUME NEW x \in Item, NEW words, offset \in Nat, There(x, words, offset),
         NEW z, z = [start |-> x.start + offset, end |-> x.end + offset],
         words \in Seq(Word)
  PROVE  There(z, words, 0)
<1> DEFINE a == x.start + offset
           b == x.end + offset
<1>1. x.start \in Nat /\ x.end \in Nat /\ a \in Nat /\ b \in Nat /\ b <= total_read
  BY ItemFacts DEF There
<1>2. PICK w \in 1 .. Len(words) :
        x.end = x.start + Len(words[w]) /\ At(words[w], x.start + offset)
  BY DEF There
<1>3. Len(words[w]) \in Nat
  BY ElementOfSeq, WordFacts
<1>4. b = a + Len(words[w])
  <2> DEFINE len == Len(words[w])
  <2>1. x.end = x.start + len /\ len \in Nat
    BY <1>2, <1>3
  <2> HIDE DEF len
  <2>2. b = a + len
    BY <1>1, <2>1
  <2> QED
    BY <2>2 DEF len
<1>5. At(words[w], a)
  BY <1>2
<1>6. z.start = a /\ z.end = b
  OBVIOUS
<1> HIDE DEF a, b
<1>7. z.end + 0 <= total_read /\ z.start + 0 = a
  BY <1>1, <1>6
<1> QED
  BY <1>2, <1>4, <1>5, <1>6, <1>7 DEF There

LEMMA PairsThereEmit ==
  ASSUME Cut, Walk, PairsThere, C!Emit, UNCHANGED <<vars, task>>
  PROVE  PairsThere'
<1> DEFINE x == group1[i]
           y == group2[group2_index]
<1>1. /\ x \in Item /\ y \in Item /\ pc = "inner"
      /\ \E c : Reports(c, x, y, continuity_index')
      /\ UNCHANGED <<offset, minimum_end_index, found1, found2, group1, group2, i, pc>>
      /\ body' = body /\ total_read' = total_read
      /\ words1' = words1 /\ words2' = words2
  BY EmitFacts DEF vars, task
<1>2. i \in 1 .. Len(group1) /\ group2_index \in 1 .. Len(group2)
  BY InnerFacts DEF C!Emit
<1> SUFFICES ASSUME Plain PROVE PairsThere'
  BY <1>1 DEF PairsThere, Plain
<1>3. /\ AllThere(found1, words1) /\ AllThere(found2, words2)
      /\ AllThere(group1, words1) /\ AllThere(group2, words2)
      /\ \A k \in 1 .. Len(correlated) : CoupleThere(correlated[k])
  BY <1>1 DEF PairsThere
<1>4. There(x, words1, offset) /\ There(y, words2, offset)
  BY <1>2, <1>3 DEF AllThere
<1> HIDE DEF x, y
<1>5. PICK c : Reports(c, x, y, continuity_index')
  BY <1>1
<1>6. /\ c.item1 = [start |-> x.start + offset, end |-> x.end + offset]
      /\ c.item2 = [start |-> y.start + offset, end |-> y.end + offset]
      /\ c.match.end = x.end + offset \/ c.match.end = y.end + offset
  BY <1>5 DEF Reports
<1>7. offset \in Nat /\ words1 \in Seq(Word) /\ words2 \in Seq(Word)
  BY DEF Walk
<1>8. There(c.item1, words1, 0) /\ There(c.item2, words2, 0)
  BY <1>1, <1>4, <1>6, <1>7, ThereInBody
<1>9. c.match.end <= total_read
  BY <1>4, <1>6 DEF There
<1>10. CoupleThere(c)
  BY <1>8, <1>9 DEF CoupleThere
<1>11. /\ \A k \in 1 .. Len(correlated) : correlated'[k] = correlated[k]
       /\ correlated'[Len(correlated) + 1] = c
       /\ \A k \in 1 .. Len(correlated') :
            k \in 1 .. Len(correlated) \/ k = Len(correlated) + 1
  BY <1>5, AppendFacts
<1>12. \A k \in 1 .. Len(correlated') : CoupleThere(correlated'[k])
  BY <1>3, <1>10, <1>11
<1>13. \A k \in 1 .. Len(correlated') : CoupleThere(correlated[k])'
  BY <1>1, <1>12 DEF CoupleThere, There, At
<1>14. /\ AllThere(found1, words1)' /\ AllThere(found2, words2)'
       /\ AllThere(group1, words1)' /\ AllThere(group2, words2)'
  BY <1>1, <1>3 DEF AllThere, There, At
<1> QED
  BY <1>13, <1>14 DEF PairsThere

LEMMA PairsThereStep == Cut /\ Walk /\ PairsThere /\ [TaskNext]_allvars => PairsThere'
<1> SUFFICES ASSUME Cut, Walk, PairsThere, [TaskNext]_allvars PROVE PairsThere'
  OBVIOUS
<1>1. CASE \E n \in 1 .. ChunkSize : ReadPiece(n)
  BY <1>1, PairsThereRead
<1>2. CASE Pair
  <2>1. UNCHANGED <<vars, task>> /\ C!Step
    BY <1>2 DEF Pair
  <2>2. body' = body /\ total_read' = total_read /\ words1' = words1 /\ words2' = words2
    BY <2>1 DEF vars, task
  <2>3. CASE C!Collect
    <3>1. /\ group1' = C!Sorted(found1) /\ group2' = C!Sorted(found2)
          /\ UNCHANGED <<offset, minimum_end_index, found1, found2, correlated>>
      BY <2>3 DEF C!Collect
    <3>2. Plain => AllThere(C!Sorted(found1), words1) /\ AllThere(C!Sorted(found2), words2)
      BY SortedThere DEF PairsThere, Walk
    <3> QED
      BY <2>2, <3>1, <3>2 DEF PairsThere, Plain, AllThere, CoupleThere, There, At
  <2>4. CASE C!Emit
    BY <2>1, <2>4, PairsThereEmit
  <2>5. CASE C!Outer \/ C!InnerAhead \/ C!InnerBehind \/ C!InnerEnds
    <3>1. /\ UNCHANGED <<offset, found1, found2, group1, group2, correlated>>
          /\ pc # "collect"
      BY <2>5 DEF C!Outer, C!InnerAhead, C!InnerBehind, C!InnerEnds, C!Inner, C!groups
    <3> SUFFICES ASSUME Plain PROVE PairsThere'
      BY <2>2 DEF PairsThere, Plain
    <3>2. /\ AllThere(found1, words1) /\ AllThere(found2, words2)
          /\ AllThere(group1, words1) /\ AllThere(group2, words2)
          /\ \A k \in 1 .. Len(correlated) : CoupleThere(correlated[k])
      BY <3>1 DEF PairsThere
    <3>3. AllThere(found1, words1)' /\ AllThere(found2, words2)'
      BY <2>2, <3>1, <3>2 DEF AllThere, There, At
    <3>4. AllThere(group1, words1)' /\ AllThere(group2, words2)'
      BY <2>2, <3>1, <3>2 DEF AllThere, There, At
    <3>5. \A k \in 1 .. Len(correlated') : CoupleThere(correlated[k])'
      <4>1. \A k \in 1 .. Len(correlated') : CoupleThere(correlated'[k])
        BY <3>1, <3>2
      <4> QED
        BY <2>2, <4>1 DEF CoupleThere, There, At
    <3> QED
      BY <3>3, <3>4, <3>5 DEF PairsThere
  <2> QED
    BY <2>1, <2>3, <2>4, <2>5 DEF C!Step
<1>3. CASE TaskEnd \/ UNCHANGED allvars
  <2>1. /\ body' = body /\ total_read' = total_read /\ words1' = words1 /\ words2' = words2
        /\ UNCHANGED <<offset, found1, found2, group1, group2, correlated, pc>>
    BY <1>3 DEF TaskEnd, ReadEnd, allvars, vars, correlation, task
  <2> QED
    BY <2>1 DEF PairsThere, Plain, AllThere, CoupleThere, There, At
<1> QED
  BY <1>1, <1>2, <1>3 DEF TaskNext

\* An item of the body, as IsThere has it.
LEMMA IsThereOf ==
  ASSUME Cut, NEW x \in Item, NEW words \in Seq(Word), There(x, words, 0)
  PROVE  IsThere(x, words)
<1>1. x.start \in Nat /\ x.end \in Nat /\ x.end <= total_read /\ x.start + 0 = x.start
  BY ItemFacts DEF There
<1>2. PICK w \in 1 .. Len(words) : x.end = x.start + Len(words[w]) /\ At(words[w], x.start)
  BY <1>1 DEF There
<1>3. words[w] \in Word /\ DOMAIN words = 1 .. Len(words)
  BY ElementOfSeq, LenProperties
<1>4. x.start + Len(words[w]) <= Len(body) /\ body \in Seq(Byte)
  BY <1>1, <1>2, CutFacts DEF Cut
<1>5. SubSeq(body, x.start + 1, x.end) = words[w]
  BY <1>1, <1>2, <1>3, <1>4, OccursAt
<1> QED
  BY <1>1, <1>3, <1>5 DEF IsThere

LEMMA PairsThereHolds == TaskSpec => []PairsThere
<1>1. TaskInit => PairsThere
  <2> SUFFICES ASSUME TaskInit PROVE PairsThere
    OBVIOUS
  <2>1. /\ Len(correlated) = 0 /\ Len(found1) = 0 /\ Len(found2) = 0
        /\ Len(group1) = 0 /\ Len(group2) = 0
    BY EmptySeq DEF TaskInit, C!Init
  <2> QED
    BY <2>1 DEF PairsThere, AllThere
<1> QED
  BY <1>1, PairsThereStep, WalkHolds, PTL DEF TaskSpec

\* What is reported of a correlation in a body of one-byte characters is there, whatever piece its parts
\* were found in: both are words of their groups where they are said to be, and what is
\* reported was read (evaluator.rs:345-349).
THEOREM PairsAreThereHolds == TaskSpec => []PairsAreThere
<1>1. Cut /\ Walk /\ PairsThere => PairsAreThere
  <2> SUFFICES ASSUME Cut, Walk, PairsThere, Plain, NEW k \in DOMAIN correlated
               PROVE  /\ IsThere(correlated[k].item1, words1)
                      /\ IsThere(correlated[k].item2, words2)
                      /\ correlated[k].match.end <= total_read
    BY DEF PairsAreThere
  <2>1. k \in 1 .. Len(correlated) /\ correlated[k] \in Couple
        /\ words1 \in Seq(Word) /\ words2 \in Seq(Word)
    BY LenProperties, ElementOfSeq DEF Walk
  <2>2. CoupleThere(correlated[k])
    BY <2>1 DEF PairsThere
  <2>3. correlated[k].item1 \in Item /\ correlated[k].item2 \in Item
    BY <2>1 DEF Couple
  <2> QED
    BY <2>1, <2>2, <2>3, IsThereOf DEF CoupleThere
<1> QED
  BY <1>1, WalkHolds, PairsThereHolds, PTL

(***************************************************************************)
(* PairedOnce: the end of a piece is matched again.                        *)
(***************************************************************************)
\* What was paired before this call ended where its items are not new, and what was
\* paired in it in front of the continuity index.
Behind(c) ==
  \/ c.item2.end <= minimum_end_index
  \/ pc \in {"outer", "inner"} /\ c.item2.end <= offset + continuity_index

Before ==
  Plain =>
    /\ pc # "idle" => \A k \in 1 .. Len(correlated) : Behind(correlated[k])
    /\ \A k \in 1 .. Len(correlated) : \A j \in 1 .. k - 1 :
         correlated[j].item2 # correlated[k].item2

LEMMA BeforeEmit ==
  ASSUME Walk, Before, C!Emit, UNCHANGED <<vars, task>>
  PROVE  Before'
<1> DEFINE x == group1[i]
           y == group2[group2_index]
           old == continuity_index
           new == continuity_index'
           low == minimum_end_index
<1>1. /\ x \in Item /\ y \in Item /\ pc = "inner" /\ y.start >= old
      /\ \E c : Reports(c, x, y, new)
      /\ UNCHANGED <<offset, minimum_end_index, pc>> /\ body' = body
  BY EmitFacts DEF vars
<1>2. y.end + offset > low
  BY InnerFacts DEF C!Emit
<1> SUFFICES ASSUME Plain PROVE Before'
  BY <1>1 DEF Before, Plain
<1> HIDE DEF x, y
<1>3. PICK c : Reports(c, x, y, new)
  BY <1>1
<1>4. /\ c \in Couple /\ c.item2.end = y.end + offset /\ c.item2 \in Item
      /\ new \in {x.end, y.end} /\ y.end <= new
  BY <1>3 DEF Reports, Couple
<1>5. /\ x.end \in Nat /\ y.start \in Nat /\ y.end \in Nat /\ y.start < y.end
      /\ offset \in Nat /\ old \in Nat /\ low \in Nat
  BY <1>1, ItemFacts DEF Walk
<1>6. new \in Nat /\ old < new /\ c.item2.end <= offset + new
      /\ c.item2.end > low /\ c.item2.end > offset + old
  <2> DEFINE ye == y.end
             ys == y.start
  <2>1. /\ ye \in Nat /\ ys \in Nat /\ new \in Nat /\ ye <= new /\ ys < ye /\ ys >= old
        /\ c.item2.end = ye + offset /\ ye + offset > low
    BY <1>1, <1>2, <1>4, <1>5
  <2> HIDE DEF ye, ys, new, old, low
  <2>2. old < new /\ ye + offset <= offset + new /\ ye + offset > offset + old
    BY <1>5, <2>1
  <2> QED
    BY <2>1, <2>2
<1>7. /\ Len(correlated) \in Nat
      /\ \A k \in 1 .. Len(correlated) : correlated'[k] = correlated[k]
      /\ correlated'[Len(correlated) + 1] = c
      /\ \A k \in 1 .. Len(correlated') :
           k \in 1 .. Len(correlated) \/ k = Len(correlated) + 1
  BY <1>3, AppendFacts
<1>8. \A k \in 1 .. Len(correlated) :
        /\ correlated[k].item2.end \in Nat
        /\ correlated[k].item2.end <= low \/ correlated[k].item2.end <= offset + old
  <2> SUFFICES ASSUME NEW k \in 1 .. Len(correlated)
               PROVE  /\ correlated[k].item2.end \in Nat
                      /\ \/ correlated[k].item2.end <= low
                         \/ correlated[k].item2.end <= offset + old
    OBVIOUS
  <2>1. correlated[k] \in Couple
    BY ElementOfSeq DEF Walk
  <2>2. correlated[k].item2 \in Item
    BY <2>1 DEF Couple
  <2>3. Behind(correlated[k])
    BY <1>1 DEF Before
  <2> QED
    BY <2>2, <2>3, ItemFacts DEF Behind
<1> HIDE DEF old, new, low
\* An old pair stays in front of the index, and is not the new one.
<1>9. ASSUME NEW k \in 1 .. Len(correlated)
      PROVE  /\ correlated[k].item2.end <= low \/ correlated[k].item2.end <= offset + new
             /\ correlated[k].item2 # c.item2
  <2> DEFINE e == correlated[k].item2.end
             f == c.item2.end
  <2>1. /\ e <= low \/ e <= offset + old
        /\ f > low /\ f > offset + old
    BY <1>6, <1>8
  <2>2. e \in Nat /\ f \in Nat
    BY <1>4, <1>8, ItemFacts
  <2> HIDE DEF e, f
  <2>3. e <= low \/ e <= offset + new
    BY <1>5, <1>6, <2>1, <2>2
  <2>4. e # f
    BY <1>5, <1>6, <2>1, <2>2
  <2> QED
    BY <2>3, <2>4 DEF e, f
<1>10. ASSUME NEW k \in 1 .. Len(correlated') PROVE Behind(correlated[k])'
  <2>1. \/ correlated'[k].item2.end <= low
        \/ correlated'[k].item2.end <= offset + new
    BY <1>6, <1>7, <1>9
  <2> QED
    BY <1>1, <2>1 DEF Behind, low, new
<1>11. ASSUME NEW k \in 1 .. Len(correlated'), NEW j \in 1 .. k - 1
       PROVE  correlated'[j].item2 # correlated'[k].item2
  <2>1. j \in 1 .. Len(correlated)
    BY <1>7
  <2>2. CASE k \in 1 .. Len(correlated)
    BY <1>7, <2>1, <2>2 DEF Before
  <2>3. CASE k = Len(correlated) + 1
    BY <1>7, <1>9, <2>1, <2>3
  <2> QED
    BY <1>7, <2>2, <2>3
<1> QED
  BY <1>10, <1>11 DEF Before

LEMMA BeforeStep == Cut /\ Walk /\ PairsThere /\ Before /\ [TaskNext]_allvars => Before'
<1> SUFFICES ASSUME Cut, Walk, PairsThere, Before, [TaskNext]_allvars PROVE Before'
  OBVIOUS
<1>1. CASE \E n \in 1 .. ChunkSize : ReadPiece(n)
  <2>1. PICK n \in 1 .. ChunkSize : ReadPiece(n)
    BY <1>1
  <2>2. PICK first, t :
          /\ Extended(n, first, t)
          /\ Utf8Lossy(chunk') \in Seq(Char)
          /\ found1' = FoundBy(words1, Utf8Lossy(chunk'))
          /\ found2' = FoundBy(words2, Utf8Lossy(chunk'))
          /\ offset' = first /\ minimum_end_index' = total_read
          /\ pc = "idle" /\ pc' = "collect"
          /\ words1' = words1 /\ words2' = words2
          /\ UNCHANGED <<group1, group2, i, group2_index, continuity_index, correlated>>
    BY <2>1, CallFacts
  <2>3. body' = body /\ minimum_end_index' = total_read /\ pc' = "collect"
        /\ correlated' = correlated
    BY <2>2 DEF Extended
  <2>4. ASSUME Plain, NEW k \in 1 .. Len(correlated)
        PROVE  correlated[k].item2.end <= total_read
    <3>1. correlated[k] \in Couple
      BY ElementOfSeq DEF Walk
    <3>2. correlated[k].item2 \in Item
      BY <3>1 DEF Couple
    <3>3. correlated[k].item2.end + 0 <= total_read
      BY <2>4 DEF PairsThere, CoupleThere, There
    <3> QED
      BY <3>2, <3>3, ItemFacts
  <2> QED
    BY <2>3, <2>4 DEF Before, Plain, Behind
<1>2. CASE Pair
  <2>1. UNCHANGED <<vars, task>> /\ C!Step
    BY <1>2 DEF Pair
  <2>2. CASE C!Emit
    BY <2>1, <2>2, BeforeEmit
  <2>3. CASE C!Collect \/ C!Outer \/ C!InnerAhead \/ C!InnerBehind \/ C!InnerEnds
    <3>1. /\ UNCHANGED <<offset, minimum_end_index, correlated>> /\ body' = body
          /\ pc # "idle"
          /\ \/ pc = "collect"
             \/ /\ pc \in {"outer", "inner"} /\ pc' \in {"idle", "outer", "inner"}
                /\ continuity_index' = continuity_index
      BY <2>1, <2>3 DEF C!Collect, C!Outer, C!InnerAhead, C!InnerBehind, C!InnerEnds,
                        C!Inner, C!groups, C!indices, vars
    <3>2. pc = "collect" => \A k \in 1 .. Len(correlated) :
            Behind(correlated[k]) => correlated[k].item2.end <= minimum_end_index
      BY DEF Behind
    <3> QED
      BY <3>1, <3>2 DEF Before, Plain, Behind
  <2> QED
    BY <2>1, <2>2, <2>3 DEF C!Step
<1>3. CASE TaskEnd \/ UNCHANGED allvars
  <2>1. UNCHANGED <<offset, minimum_end_index, continuity_index, correlated, pc, body>>
    BY <1>3 DEF TaskEnd, ReadEnd, allvars, vars, correlation
  <2> QED
    BY <2>1 DEF Before, Plain, Behind
<1> QED
  BY <1>1, <1>2, <1>3 DEF TaskNext

\* No item of group 2 of a body of one-byte characters is correlated twice, though the end of each piece
\* is matched again with the next (evaluator.rs:277, 294-301).
THEOREM PairedOnceHolds == TaskSpec => []PairedOnce
<1>1. TaskInit => Before
  <2> SUFFICES ASSUME TaskInit PROVE Before
    OBVIOUS
  <2>1. Len(correlated) = 0
    BY EmptySeq DEF TaskInit, C!Init
  <2> QED
    BY <2>1 DEF Before
<1>2. Walk /\ Before => PairedOnce
  <2> SUFFICES ASSUME Walk, Before, Plain, NEW j \in DOMAIN correlated,
                      NEW k \in DOMAIN correlated,
                      correlated[j].item2 = correlated[k].item2
               PROVE  j = k
    BY DEF PairedOnce, C!PairedOnce
  <2>1. /\ j \in 1 .. Len(correlated) /\ k \in 1 .. Len(correlated)
        /\ Len(correlated) \in Nat
    BY LenProperties DEF Walk
  <2>2. ~(j < k) /\ ~(k < j)
    <3>1. j < k => j \in 1 .. k - 1
      BY <2>1
    <3>2. k < j => k \in 1 .. j - 1
      BY <2>1
    <3> QED
      BY <2>1, <3>1, <3>2 DEF Before
  <2> QED
    BY <2>1, <2>2
<1> QED
  BY <1>1, <1>2, BeforeStep, WalkHolds, PairsThereHolds, PTL DEF TaskSpec

(***************************************************************************)
(* FirstFound: the loops leave nothing behind that could be paired, until  *)
(* they report a first pair.                                               *)
(***************************************************************************)
Fresh == \E k \in 1 .. Len(correlated) : correlated[k].item2.end > minimum_end_index

\* The loops do not look again at the p-th item of one list with the q-th of the other.
LeftBehind(p, q) ==
  \/ pc = "idle"
  \/ q < group2_index
  \/ p < i
  \/ p = i /\ pc = "outer"

Passed ==
  ~Fresh /\ pc # "collect" =>
    /\ pc # "idle" => continuity_index = 0
    /\ \A p \in 1 .. Len(group1), q \in 1 .. Len(group2) :
         LeftBehind(p, q) => ~C!Near(group1[p], group2[q])

\* The items of a list, and what is behind one in it.
LEMMA GroupFacts ==
  ASSUME NEW g, Group(g)
  PROVE  /\ Len(g) \in Nat
         /\ \A n \in 1 .. Len(g) : g[n] \in Item /\ g[n].end + offset > minimum_end_index
         /\ \A m, n \in 1 .. Len(g) : m <= n => g[m].start <= g[n].start
<1>1. g \in Seq(Item) /\ Len(g) \in Nat /\ \A n \in 1 .. Len(g) : g[n] \in Item
  BY LenProperties, ElementOfSeq DEF Group
<1>2. \A n \in 1 .. Len(g) : g[n].end + offset > minimum_end_index
  BY DEF Group
<1>3. ASSUME NEW m \in 1 .. Len(g), NEW n \in 1 .. Len(g), m <= n
      PROVE  g[m].start <= g[n].start
  <2>1. CASE m = n
    <3>1. g[m].start \in Nat
      BY <1>1, ItemFacts
    <3> QED
      BY <2>1, <3>1
  <2>2. CASE m # n
    <3>1. m \in 1 .. n - 1
      BY <1>1, <1>3, <2>2
    <3> QED
      BY <3>1 DEF Group
  <2> QED
    BY <2>1, <2>2
<1> QED
  BY <1>1, <1>2, <1>3

\* Item2 is too far ahead of Item1: so is all that comes after it.
LEMMA AheadPassed ==
  ASSUME Walk, Passed, C!InnerAhead
  PROVE  Passed'
<1>1. /\ C!Inner /\ C!Item2Ahead /\ pc' = "outer" /\ group2_index' = group2_index
      /\ UNCHANGED <<minimum_end_index, group1, group2, i, continuity_index, correlated>>
  BY DEF C!InnerAhead, C!Item2Stays, C!groups
<1>2. /\ pc = "inner" /\ i \in 1 .. Len(group1) /\ i \in Nat
      /\ group2_index \in 1 .. Len(group2) /\ group2_index \in Nat
      /\ Group(group1) /\ Group(group2)
  BY <1>1, InnerFacts
<1> SUFFICES ASSUME ~Fresh, NEW p \in 1 .. Len(group1), NEW q \in 1 .. Len(group2),
                    q < group2_index \/ p < i \/ p = i
             PROVE  /\ continuity_index = 0
                    /\ ~C!Near(group1[p], group2[q])
  <2>1. Fresh' <=> Fresh
    BY <1>1 DEF Fresh
  <2>2. ~Fresh => continuity_index = 0
    BY <1>2 DEF Passed
  <2> QED
    BY <1>1, <2>1, <2>2 DEF Passed, LeftBehind, C!Near, C!Gap
<1>3. continuity_index = 0
      /\ (q < group2_index \/ p < i => ~C!Near(group1[p], group2[q]))
  BY <1>2 DEF Passed, LeftBehind
<1>4. CASE p = i /\ ~(q < group2_index)
  <2> DEFINE x == group1[i]
             y == group2[group2_index]
             z == group2[q]
  <2>1. x \in Item /\ y \in Item /\ z \in Item /\ y.start <= z.start
    <3>1. group2_index <= q
      BY <1>2, <1>4
    <3> QED
      BY <1>2, <3>1, GroupFacts
  <2>2. x.end + Distance < y.start
    BY <1>1 DEF C!Item2Ahead, C!Item1, C!Item2
  <2> HIDE DEF x, y, z
  <2>3. ~(x.end + Distance >= z.start)
    <3>1. /\ x.end \in Nat /\ y.start \in Nat /\ z.start \in Nat /\ Distance \in Nat
      BY <2>1, ItemFacts, CorrelateAssumption
    <3> QED
      BY <2>1, <2>2, <3>1
  <2>4. ~C!Near(x, z)
    BY <2>1, <2>3, NearFacts
  <2> QED
    BY <1>3, <1>4, <2>4 DEF x, z
<1> QED
  BY <1>3, <1>4

\* Item2 is too far behind Item1: it is too far behind all that comes after it.
LEMMA BehindPassed ==
  ASSUME Walk, Passed, C!InnerBehind
  PROVE  Passed'
<1>1. /\ C!Inner
      /\ C!Item2Overlaps \/ C!Item2Behind
      /\ group2_index' = group2_index + 1
      /\ UNCHANGED <<minimum_end_index, group1, group2, i, continuity_index, correlated, pc>>
  BY DEF C!InnerBehind, C!groups
<1>2. /\ pc = "inner" /\ i \in 1 .. Len(group1) /\ i \in Nat
      /\ group2_index \in 1 .. Len(group2) /\ group2_index \in Nat
      /\ Group(group1) /\ Group(group2)
  BY <1>1, InnerFacts
<1> SUFFICES ASSUME ~Fresh, NEW p \in 1 .. Len(group1), NEW q \in 1 .. Len(group2),
                    q < group2_index + 1 \/ p < i
             PROVE  /\ continuity_index = 0
                    /\ ~C!Near(group1[p], group2[q])
  <2>1. Fresh' <=> Fresh
    BY <1>1 DEF Fresh
  <2>2. ~Fresh => continuity_index = 0
    BY <1>2 DEF Passed
  <2> QED
    BY <1>1, <1>2, <2>1, <2>2 DEF Passed, LeftBehind, C!Near, C!Gap
<1>3. continuity_index = 0
      /\ (q < group2_index \/ p < i => ~C!Near(group1[p], group2[q]))
  BY <1>2 DEF Passed, LeftBehind
<1>4. CASE q = group2_index /\ ~(p < i)
  <2> DEFINE x == group1[i]
             y == group2[group2_index]
             z == group1[p]
  <2>1. x \in Item /\ y \in Item /\ z \in Item /\ x.start <= z.start
    <3>1. i <= p
      BY <1>2, <1>4
    <3> QED
      BY <1>2, <3>1, GroupFacts
  <2>2. y.end + Distance < x.start
    <3>1. y.start \in Nat
      BY <2>1, ItemFacts
    <3>2. ~C!Item2Overlaps
      BY <1>3, <3>1 DEF C!Item2Overlaps, C!Item2
    <3> QED
      BY <1>1, <3>2 DEF C!Item2Behind, C!Item1, C!Item2
  <2> HIDE DEF x, y, z
  <2>3. ~(y.end + Distance >= z.start)
    <3>1. /\ y.end \in Nat /\ x.start \in Nat /\ z.start \in Nat /\ Distance \in Nat
      BY <2>1, ItemFacts, CorrelateAssumption
    <3> QED
      BY <2>1, <2>2, <3>1
  <2>4. ~C!Near(z, y)
    BY <2>1, <2>3, NearFacts
  <2> QED
    BY <1>3, <1>4, <2>4 DEF y, z
<1>5. q = group2_index \/ q < group2_index \/ p < i
  BY <1>2
<1> QED
  BY <1>3, <1>4, <1>5

\* What is correlated is fresh.
LEMMA EmitPassed ==
  ASSUME Walk, C!Emit
  PROVE  Passed'
<1>1. /\ group2[group2_index].end + offset > minimum_end_index
      /\ minimum_end_index' = minimum_end_index
      /\ \E c : Reports(c, group1[i], group2[group2_index], continuity_index')
  BY EmitFacts, InnerFacts DEF C!Emit
<1>2. PICK c : Reports(c, group1[i], group2[group2_index], continuity_index')
  BY <1>1
<1>3. /\ Len(correlated) \in Nat /\ Len(correlated') = Len(correlated) + 1
      /\ correlated'[Len(correlated) + 1] = c
  BY <1>2, AppendFacts
<1>4. Len(correlated) + 1 \in 1 .. Len(correlated')
  BY <1>3
<1>5. c.item2.end = group2[group2_index].end + offset
  <2>1. c.item2 = [start |-> group2[group2_index].start + offset,
                   end |-> group2[group2_index].end + offset]
    BY <1>2 DEF Reports
  <2> QED
    BY <2>1
<1>6. correlated'[Len(correlated) + 1].item2.end > minimum_end_index'
  BY <1>1, <1>3, <1>5
<1>7. Fresh'
  BY <1>4, <1>6 DEF Fresh
<1> QED
  BY <1>7 DEF Passed

LEMMA PassedStep == Cut /\ Walk /\ Passed /\ [TaskNext]_allvars => Passed'
<1> SUFFICES ASSUME Cut, Walk, Passed, [TaskNext]_allvars PROVE Passed'
  OBVIOUS
<1>1. CASE \E n \in 1 .. ChunkSize : ReadPiece(n)
  BY <1>1 DEF ReadPiece, C!Call, Passed
<1>2. CASE Pair
  <2>1. C!Step
    BY <1>2 DEF Pair
  <2>2. CASE C!Collect
    <3>1. /\ i' = 0 /\ group2_index' = 1 /\ continuity_index' = 0
          /\ pc' \in {"idle", "outer"}
          /\ pc' = "idle" => group1' = << >> \/ group2' = << >>
      BY <2>2 DEF C!Collect
    <3>2. ASSUME NEW p \in 1 .. Len(group1'), NEW q \in 1 .. Len(group2'), LeftBehind(p, q)'
          PROVE  FALSE
      <4>1. Len(<< >>) = 0
        BY EmptySeq
      <4>2. pc' = "outer"
        BY <3>1, <4>1
      <4> QED
        BY <3>1, <3>2, <4>2 DEF LeftBehind
    <3> QED
      BY <3>1, <3>2 DEF Passed
  <2>3. CASE C!Outer
    <3>1. /\ pc = "outer"
          /\ UNCHANGED <<minimum_end_index, group1, group2, group2_index,
                         continuity_index, correlated>>
      BY <2>3 DEF C!Outer, C!groups
    <3>2. /\ Group(group1) /\ i \in 0 .. Len(group1) /\ group2_index \in Nat
      BY <3>1 DEF Walk
    <3>3. Len(group1) \in Nat /\ i \in Nat
      BY <3>2, GroupFacts
    <3> SUFFICES ASSUME ~Fresh PROVE Passed'
      BY <3>1 DEF Passed, Fresh
    <3>4. /\ continuity_index = 0
          /\ \A p \in 1 .. Len(group1), q \in 1 .. Len(group2) :
               q < group2_index \/ p < i \/ p = i => ~C!Near(group1[p], group2[q])
      BY <3>1 DEF Passed, LeftBehind
    <3>5. CASE i = Len(group1)
      <4>1. pc' = "idle"
        BY <2>3, <3>5 DEF C!Outer
      <4>2. \A p \in 1 .. Len(group1) : p < i \/ p = i
        BY <3>3, <3>5
      <4> QED
        BY <3>1, <3>4, <4>1, <4>2 DEF Passed, C!Near, C!Gap
    <3>6. CASE i # Len(group1)
      <4>1. i' = i + 1 /\ i' \in 1 .. Len(group1)
        BY <2>3, <3>2, <3>3, <3>6 DEF C!Outer
      <4>2. /\ group1[i'] \in Item
            /\ group1[i'].end + offset > minimum_end_index
        BY <3>2, <4>1, GroupFacts
      <4>3. ~(group1[i'].start < continuity_index)
        BY <3>4, <4>2, ItemFacts
      <4>4. pc' = "inner"
        BY <2>3, <3>6, <4>2, <4>3 DEF C!Outer, C!IsNew
      <4>5. \A p \in 1 .. Len(group1) : p < i' => p < i \/ p = i
        BY <3>3, <4>1
      <4> QED
        BY <3>1, <3>4, <4>4, <4>5 DEF Passed, LeftBehind, C!Near, C!Gap
    <3> QED
      BY <3>5, <3>6
  <2>4. CASE C!InnerAhead
    BY <2>4, AheadPassed
  <2>5. CASE C!InnerBehind
    BY <2>5, BehindPassed
  <2>6. CASE C!Emit
    BY <2>6, EmitPassed
  <2>7. CASE C!InnerEnds
    <3>1. /\ pc = "inner" /\ pc' = "idle" /\ group2_index > Len(group2)
          /\ UNCHANGED <<minimum_end_index, group1, group2, correlated>>
      BY <2>7 DEF C!InnerEnds, C!groups
    <3>2. Group(group2) /\ group2_index \in Nat
      BY <3>1 DEF Walk
    <3>3. Len(group2) \in Nat
      BY <3>2, GroupFacts
    <3>4. \A q \in 1 .. Len(group2) : q < group2_index
      BY <3>1, <3>2, <3>3
    <3>5. ~Fresh => \A p \in 1 .. Len(group1), q \in 1 .. Len(group2) :
                      ~C!Near(group1[p], group2[q])
      BY <3>1, <3>4 DEF Passed, LeftBehind
    <3> QED
      BY <3>1, <3>5 DEF Passed, Fresh, C!Near, C!Gap
  <2> QED
    BY <2>1, <2>2, <2>3, <2>4, <2>5, <2>6, <2>7 DEF C!Step
<1>3. CASE TaskEnd \/ UNCHANGED allvars
  <2>1. UNCHANGED correlation
    BY <1>3 DEF TaskEnd, allvars
  <2> QED
    BY <2>1 DEF correlation, Passed, LeftBehind, Fresh, C!Near, C!Gap
<1> QED
  BY <1>1, <1>2, <1>3 DEF TaskNext

\* If any two items that are new in a piece are near each other a correlation is
\* reported, however many items of either group the loops go past (evaluator.rs:284-362).
THEOREM FirstFoundHolds == TaskSpec => []FirstFound
<1>1. TaskInit => Passed
  <2> SUFFICES ASSUME TaskInit PROVE Passed
    OBVIOUS
  <2>1. Len(group1) = 0 /\ pc = "idle"
    BY EmptySeq DEF TaskInit, C!Init
  <2> QED
    BY <2>1 DEF Passed
<1>2. Walk /\ Passed => FirstFound
  <2> SUFFICES ASSUME Walk, Passed, pc = "idle",
                      NEW p \in DOMAIN group1, NEW q \in DOMAIN group2,
                      C!Near(group1[p], group2[q])
               PROVE  \E k \in DOMAIN correlated :
                        correlated[k].item2.end > minimum_end_index
    BY DEF FirstFound, C!FirstFound
  <2>1. /\ DOMAIN group1 = 1 .. Len(group1) /\ DOMAIN group2 = 1 .. Len(group2)
        /\ DOMAIN correlated = 1 .. Len(correlated)
    BY LenProperties DEF Walk, Group
  <2>2. Fresh
    BY <2>1 DEF Passed, LeftBehind
  <2> QED
    BY <2>1, <2>2 DEF Fresh
<1> QED
  BY <1>1, <1>2, PassedStep, WalkHolds, PTL DEF TaskSpec
=============================================================================
