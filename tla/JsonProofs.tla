------------------------------ MODULE JsonProofs ------------------------------
(***************************************************************************)
(* Proofs about the JSON parser: that what it takes is a value, that it    *)
(* takes what is JSON, and that every string of it gets to its matchers.   *)
(* First the grammar of JsonText, recursive functions that have to be      *)
(* shown to exist.  Then an invariant that ties the parser's stack and     *)
(* program counter to what it has read of the body, one that ties them to  *)
(* what is left of it, and one that ties what was collected and handed     *)
(* over to the strings in front of the place reached.                      *)
(***************************************************************************)
EXTENDS JsonText, Recursion

Text == body \in Seq(STRING)

LEMMA BodyFacts ==
  ASSUME Text
  PROVE  /\ Len(body) \in Nat /\ DOMAIN body = 1 .. Len(body)
         /\ End = Len(body) + 1 /\ End \in Nat /\ End \in Places /\ 1 \in Places
         /\ Places = 1 .. End
         /\ \A i, S : At(i, S) <=> i \in 1 .. Len(body) /\ body[i] \in S
         /\ \A i, S : At(i, S) => i \in Places /\ i + 1 \in Places
BY LenProperties DEF Text, End, Places, At

(***************************************************************************)
(* White space.                                                            *)
(***************************************************************************)
LEMMA Skip ==
  ASSUME Text, NEW i \in Places
  PROVE  /\ SkipFrom(i) \in i .. End /\ SkipFrom(i) \in Places
         /\ ~At(SkipFrom(i), {Space})
         /\ \A j \in i .. End : ~At(j, {Space}) => SkipFrom(i) <= j
<1> DEFINE T == {j \in i .. End : ~At(j, {Space})}
<1>1. End \in T /\ T \in SUBSET Nat
  BY BodyFacts
<1> HIDE DEF T
<1>2. Min(T) \in T /\ \A j \in T : Min(T) <= j
  BY <1>1, MinFacts
<1>3. SkipFrom(i) = Min(T)
  BY DEF SkipFrom, T
<1> QED
  BY <1>2, <1>3, BodyFacts DEF T

LEMMA SkipStep ==
  ASSUME Text, NEW i \in Places
  PROVE  /\ At(i, {Space}) => i + 1 \in Places /\ SkipFrom(i) = SkipFrom(i + 1)
         /\ ~At(i, {Space}) => SkipFrom(i) = i
         /\ SkipFrom(SkipFrom(i)) = SkipFrom(i)
<1>1. ~At(i, {Space}) => SkipFrom(i) = i
  BY Skip, BodyFacts
<1>2. ASSUME At(i, {Space}) PROVE i + 1 \in Places /\ SkipFrom(i) = SkipFrom(i + 1)
  <2>1. i + 1 \in Places
    BY <1>2, BodyFacts
  <2>2. SkipFrom(i) # i
    BY <1>2, Skip
  <2>3. SkipFrom(i) \in i + 1 .. End /\ SkipFrom(i + 1) \in i .. End
    BY <2>1, <2>2, Skip, BodyFacts
  <2>4. SkipFrom(i) <= SkipFrom(i + 1) /\ SkipFrom(i + 1) <= SkipFrom(i)
    BY <2>1, <2>3, Skip
  <2>5. SkipFrom(i) \in Nat /\ SkipFrom(i + 1) \in Nat
    BY <2>1, Skip, BodyFacts
  <2> QED
    BY <2>1, <2>4, <2>5
<1>3. SkipFrom(SkipFrom(i)) = SkipFrom(i)
  <2> DEFINE s == SkipFrom(i)
  <2>1. s \in Places /\ ~At(s, {Space})
    BY Skip
  <2> HIDE DEF s
  <2>2. SkipFrom(s) \in s .. End /\ SkipFrom(s) <= s
    BY <2>1, Skip, BodyFacts
  <2>3. SkipFrom(s) = s
    BY <2>1, <2>2, BodyFacts
  <2> QED
    BY <2>3 DEF s
<1> QED
  BY <1>1, <1>2, <1>3

(***************************************************************************)
(* Strings.                                                                *)
(***************************************************************************)
StringStep(s, i) ==
  IF i >= End THEN 0
  ELSE IF At(i, {"quote"}) THEN i + 1
  ELSE IF At(i, {"backslash"}) /\ At(i + 1, {"u", "lead"}) THEN s[i + 3]
  ELSE IF At(i, {"backslash", "lead"}) THEN s[i + 2]
  ELSE s[i + 1]

LEMMA StringEquation ==
  ASSUME Text
  PROVE  \A i \in 1 .. End + 3 : /\ StringEnds[i] = StringStep(StringEnds, i)
                                 /\ StringEnds[i] = 0 \/ StringEnds[i] \in i + 1 .. End
<1> DEFINE n == End + 3
           I == 1 .. n
           V == 0 .. End
           H == [q \in [I -> V] \X I |-> StringStep(q[1], q[2])]
<1>1. n \in Nat /\ V # {} /\ End \in Nat
  BY BodyFacts
<1>2. ASSUME NEW f \in [I -> V], NEW i \in I
      PROVE  H[<<f, i>>] = StringStep(f, i) /\ StringStep(f, i) \in V
  <2>1. i < End => i + 1 \in I /\ i + 2 \in I /\ i + 3 \in I /\ i + 1 \in V
    BY <1>1
  <2>2. 0 \in V /\ (i >= End \/ i < End)
    BY <1>1
  <2>3. StringStep(f, i) \in V
    BY <2>1, <2>2 DEF StringStep
  <2> QED
    BY <2>3
<1>3. LooksAhead(n, V, H)
  <2>1. H \in [[I -> V] \X I -> V]
    <3>1. \A q \in [I -> V] \X I : H[q] \in V
      <4> SUFFICES ASSUME NEW q \in [I -> V] \X I PROVE H[q] \in V
        OBVIOUS
      <4>1. q = <<q[1], q[2]>> /\ q[1] \in [I -> V] /\ q[2] \in I
        OBVIOUS
      <4> HIDE DEF H, I, V
      <4> QED
        BY <1>2, <4>1
    <3>2. H = [q \in [I -> V] \X I |-> H[q]]
      OBVIOUS
    <3> HIDE DEF H
    <3> QED
      BY <3>1, <3>2
  <2>2. ASSUME NEW f \in [I -> V], NEW g \in [I -> V], NEW i \in I,
               \A y \in I : y > i => f[y] = g[y]
        PROVE  H[<<f, i>>] = H[<<g, i>>]
    <3>1. ~(i >= End) => /\ i + 1 \in I /\ i + 2 \in I /\ i + 3 \in I
                         /\ i + 1 > i /\ i + 2 > i /\ i + 3 > i
      BY <1>1
    <3>2. ~(i >= End) => f[i + 1] = g[i + 1] /\ f[i + 2] = g[i + 2] /\ f[i + 3] = g[i + 3]
      BY <2>2, <3>1
    <3>3. StringStep(f, i) = StringStep(g, i)
      BY <3>2 DEF StringStep
    <3> QED
      BY <1>2, <3>3
  <2> HIDE DEF H, V
  <2> QED
    BY <2>1, <2>2 DEF LooksAhead
<1> HIDE DEF V, H, n
<1>4. \E f : Solves(f, 1 .. n, V, H)
  BY <1>1, <1>3, RecursionFromEnd
<1>5. PICK f : Solves(f, I, V, H)
  BY <1>4
<1>6. f \in [I -> V] /\ \A i \in I : f[i] = StringStep(f, i)
  <2>1. f \in [I -> V] /\ \A i \in I : f[i] = H[<<f, i>>]
    BY <1>5 DEF Solves
  <2> QED
    BY <1>2, <2>1
<1>7. f = [i \in I |-> StringStep(f, i)]
  BY <1>6
<1> DEFINE Is(s) == s = [i \in 1 .. End + 3 |-> StringStep(s, i)]
<1>8. Is(f)
  BY <1>7 DEF I, n
<1>9. StringEnds = CHOOSE s : Is(s)
  BY DEF StringEnds, StringStep
<1> HIDE DEF Is
<1>10. Is(StringEnds)
  BY <1>8, <1>9
<1>11. \A i \in I : StringEnds[i] = StringStep(StringEnds, i)
  BY <1>10 DEF Is, n
<1> DEFINE T == {i \in I : StringEnds[i] = 0 \/ StringEnds[i] \in i + 1 .. End}
<1>12. ASSUME NEW i \in I, \A y \in I : y > i => y \in T PROVE i \in T
  <2>1. CASE i >= End
    BY <1>11, <2>1 DEF StringStep
  <2>2. CASE ~(i >= End)
    <3>1. /\ i \in Nat /\ i + 1 \in I /\ i + 2 \in I /\ i + 3 \in I
          /\ i + 1 > i /\ i + 2 > i /\ i + 3 > i /\ i + 1 \in i + 1 .. End
      BY <1>1, <2>2 DEF n
    <3>2. i + 1 \in T /\ i + 2 \in T /\ i + 3 \in T
      BY <1>12, <3>1
    <3>3. \A k \in {i + 1, i + 2, i + 3} : StringEnds[k] = 0 \/ StringEnds[k] \in i + 1 .. End
      BY <1>1, <3>1, <3>2
    <3>4. StringStep(StringEnds, i) = 0 \/ StringStep(StringEnds, i) \in i + 1 .. End
      BY <2>2, <3>1, <3>3 DEF StringStep
    <3> QED
      BY <1>11, <3>4
  <2> QED
    BY <2>1, <2>2
<1>13. T = 1 .. n
  <2>1. T \in SUBSET (1 .. n)
    OBVIOUS
  <2> HIDE DEF T
  <2> QED
    BY <1>1, <1>12, <2>1, FromTheEnd
<1> QED
  BY <1>11, <1>13 DEF n

(***************************************************************************)
(* The grammar.                                                            *)
(***************************************************************************)
Lists == {"values", "members"}

\* What stands behind the thing p, by what stands behind those further back.
EndsStep(ends, p, least) ==
  IF p[1] = "value" THEN ValueEnds(ends, p[2], least) ELSE ListEnds(ends, p[1], p[2])

\* Nothing ends where it begins, or in front of it.
EndsBehind(ends) ==
  /\ ends \in [Things -> SUBSET Places]
  /\ \A p \in Things : ends[p] \subseteq p[2] + 1 .. End

LEMMA ThingFacts ==
  ASSUME Text, NEW p \in Things
  PROVE  /\ p = <<p[1], p[2]>> /\ p[2] \in Places /\ p[2] \in Nat
         /\ p[1] = "value" \/ p[1] \in Lists
BY BodyFacts DEF Things, Lists

LEMMA FirstValuePlace ==
  ASSUME Text, NEW i \in Places, NEW list \in Lists
  PROVE  FirstValue(list, i) \in i .. End /\ FirstValue(list, i) \in Places
<1>1. CASE list = "values"
  BY <1>1, Skip DEF FirstValue
<1>2. CASE list = "members"
  <2> DEFINE key == SkipFrom(i)
             colon == IF At(key, {"quote"}) /\ StringEnds[key + 1] # 0
                      THEN SkipFrom(StringEnds[key + 1]) ELSE End
  <2>1. key \in i .. End /\ key \in Places /\ End \in Places
    BY Skip, BodyFacts
  <2>2. colon \in i .. End /\ colon \in Places
    <3>1. CASE At(key, {"quote"}) /\ StringEnds[key + 1] # 0
      <4>1. key + 1 \in 1 .. End + 3
        BY <2>1, BodyFacts
      <4>2. StringEnds[key + 1] \in key + 2 .. End
        BY <3>1, <4>1, StringEquation, <2>1, BodyFacts
      <4>3. StringEnds[key + 1] \in Places /\ StringEnds[key + 1] \in i .. End
        BY <2>1, <4>2, BodyFacts
      <4>4. SkipFrom(StringEnds[key + 1]) \in StringEnds[key + 1] .. End
        BY <4>3, Skip
      <4> QED
        BY <3>1, <4>3, <4>4, BodyFacts
    <3>2. CASE ~(At(key, {"quote"}) /\ StringEnds[key + 1] # 0)
      BY <2>1, <3>2, BodyFacts
    <3> QED
      BY <3>1, <3>2
  <2> HIDE DEF key, colon
  <2>3. At(colon, {":"}) => SkipFrom(colon + 1) \in i .. End /\ SkipFrom(colon + 1) \in Places
    <3> SUFFICES ASSUME At(colon, {":"})
                 PROVE  SkipFrom(colon + 1) \in i .. End /\ SkipFrom(colon + 1) \in Places
      OBVIOUS
    <3>1. colon + 1 \in Places
      BY BodyFacts
    <3>2. SkipFrom(colon + 1) \in colon + 1 .. End
      BY <3>1, Skip
    <3> QED
      BY <2>2, <3>1, <3>2, BodyFacts
  <2>4. FirstValue(list, i) = IF At(colon, {":"}) THEN SkipFrom(colon + 1) ELSE End
    BY <1>2 DEF FirstValue, key, colon
  <2> QED
    BY <2>1, <2>3, <2>4, BodyFacts
<1> QED
  BY <1>1, <1>2 DEF Lists

\* A list begins where the white space behind its beginning ends.
LEMMA FirstValueSkips ==
  ASSUME Text, NEW i \in Places, NEW j \in Places, NEW list, SkipFrom(i) = SkipFrom(j)
  PROVE  FirstValue(list, i) = FirstValue(list, j)
BY DEF FirstValue

LEMMA EndsStepBehind ==
  ASSUME Text, NEW ends, EndsBehind(ends), NEW p \in Things, NEW least
  PROVE  EndsStep(ends, p, least) \subseteq p[2] + 1 .. End
<1> DEFINE i == p[2]
<1>1. i \in Places /\ i \in Nat /\ (p[1] = "value" \/ p[1] \in Lists) /\ End \in Nat
  BY ThingFacts, BodyFacts
<1> HIDE DEF i
<1>2. ASSUME NEW list \in Lists, NEW k \in Places
      PROVE  <<list, k>> \in Things /\ ends[<<list, k>>] \subseteq k + 1 .. End
  <2>1. <<list, k>> \in Things /\ <<list, k>>[2] = k
    BY DEF Things, Lists
  <2> QED
    BY <2>1 DEF EndsBehind
<1>3. ASSUME NEW k \in Places PROVE ends[<<"value", k>>] \subseteq k + 1 .. End
  <2>1. <<"value", k>> \in Things /\ <<"value", k>>[2] = k
    BY DEF Things
  <2> QED
    BY <2>1 DEF EndsBehind
<1>4. ASSUME NEW list \in Lists, NEW bracket, i + 1 \in Places
      PROVE  Closed(ends, list, i, bracket) \subseteq i + 1 .. End
  <2> SUFFICES ASSUME NEW j \in {i + 1} \cup ends[<<list, i + 1>>], At(SkipFrom(j), {bracket})
               PROVE  SkipFrom(j) + 1 \in i + 1 .. End
    BY DEF Closed
  <2>1. j \in i + 1 .. End /\ j \in Places
    BY <1>1, <1>2, <1>4, BodyFacts
  <2>2. SkipFrom(j) \in j .. End /\ SkipFrom(j) + 1 \in Places
    BY <2>1, Skip, BodyFacts
  <2> QED
    BY <1>1, <2>1, <2>2, BodyFacts
<1>5. ValueEnds(ends, i, least) \subseteq i + 1 .. End
  <2>1. CASE At(i, {"-"} \cup Digits)
    BY <2>1 DEF ValueEnds
  <2>2. CASE ~At(i, {"-"} \cup Digits) /\ At(i, {"t"}) /\ At(i + 1, {"rue"})
    <3>1. i + 2 \in i + 1 .. End
      BY <1>1, <2>2, BodyFacts
    <3> QED
      BY <2>2, <3>1 DEF ValueEnds
  <2>3. CASE ~At(i, {"-"} \cup Digits) /\ ~(At(i, {"t"}) /\ At(i + 1, {"rue"}))
    <3>1. At(i, {"quote"}) => {StringEnds[i + 1]} \ {0} \subseteq i + 1 .. End
      <4> SUFFICES ASSUME At(i, {"quote"}), StringEnds[i + 1] # 0
                   PROVE  StringEnds[i + 1] \in i + 1 .. End
        OBVIOUS
      <4>1. i + 1 \in 1 .. End + 3
        BY <1>1, BodyFacts
      <4>2. StringEnds[i + 1] \in i + 2 .. End
        BY <1>1, <4>1, StringEquation
      <4> QED
        BY <1>1, <4>2
    <3>2. At(i, {"["}) => Closed(ends, "values", i, "]") \subseteq i + 1 .. End
      BY <1>4, BodyFacts DEF Lists
    <3>3. At(i, {"{"}) => Closed(ends, "members", i, "}") \subseteq i + 1 .. End
      BY <1>4, BodyFacts DEF Lists
    <3> QED
      BY <2>3, <3>1, <3>2, <3>3 DEF ValueEnds
  <2> QED
    BY <2>1, <2>2, <2>3
<1>6. ASSUME NEW list \in Lists PROVE ListEnds(ends, list, i) \subseteq i + 1 .. End
  <2> DEFINE v == FirstValue(list, i)
             one == IF v < End THEN ends[<<"value", v>>] ELSE {}
  <2>1. v \in i .. End /\ v \in Places
    BY <1>1, FirstValuePlace
  <2>2. one \subseteq i + 1 .. End
    <3> HIDE DEF v
    <3>1. ends[<<"value", v>>] \subseteq v + 1 .. End
      BY <1>3, <2>1
    <3> QED
      BY <1>1, <2>1, <3>1
  <2> HIDE DEF v, one
  <2>3. ASSUME NEW j \in one, At(SkipFrom(j), {","})
        PROVE  ends[<<list, SkipFrom(j) + 1>>] \subseteq i + 1 .. End
    <3>1. j \in i + 1 .. End /\ j \in Places
      BY <1>1, <2>2, BodyFacts
    <3>2. SkipFrom(j) \in j .. End /\ SkipFrom(j) + 1 \in Places
      BY <2>3, <3>1, Skip, BodyFacts
    <3>3. ends[<<list, SkipFrom(j) + 1>>] \subseteq (SkipFrom(j) + 1) + 1 .. End
      BY <1>2, <1>6, <3>2
    <3> QED
      BY <1>1, <3>1, <3>2, <3>3
  <2>4. ListEnds(ends, list, i) =
          one \cup UNION {ends[<<list, SkipFrom(j) + 1>>] : j \in {j \in one : At(SkipFrom(j), {","})}}
    BY DEF ListEnds, one, v
  <2> QED
    BY <2>2, <2>3, <2>4
<1> QED
  BY <1>1, <1>5, <1>6 DEF EndsStep, i

\* What is looked at stands further back.
Rank(p) == 2 * (End - p[2]) + (IF p[1] = "value" THEN 0 ELSE 1)

LEMMA EndsStepLooks ==
  ASSUME Text, NEW f, EndsBehind(f), NEW g, NEW p \in Things, NEW least,
         \A q \in Things : Rank(q) < Rank(p) => f[q] = g[q]
  PROVE  EndsStep(f, p, least) = EndsStep(g, p, least)
<1> DEFINE i == p[2]
<1>1. i \in Places /\ i \in Nat /\ (p[1] = "value" \/ p[1] \in Lists) /\ End \in Nat
  BY ThingFacts, BodyFacts
<1>2. Rank(p) = 2 * (End - i) + (IF p[1] = "value" THEN 0 ELSE 1)
  BY DEF Rank
<1> HIDE DEF i
<1>3. ASSUME NEW list \in Lists, NEW k \in Places, k > i PROVE f[<<list, k>>] = g[<<list, k>>]
  <2>1. <<list, k>> \in Things /\ Rank(<<list, k>>) = 2 * (End - k) + 1
    BY DEF Things, Lists, Rank
  <2>2. Rank(<<list, k>>) < Rank(p)
    BY <1>1, <1>2, <1>3, <2>1, BodyFacts
  <2> QED
    BY <2>1, <2>2
<1>4. ASSUME NEW k \in Places, k >= i, p[1] \in Lists PROVE f[<<"value", k>>] = g[<<"value", k>>]
  <2>1. <<"value", k>> \in Things /\ Rank(<<"value", k>>) = 2 * (End - k)
    BY BodyFacts DEF Things, Rank
  <2>2. p[1] # "value"
    BY <1>4 DEF Lists
  <2>3. Rank(<<"value", k>>) < Rank(p)
    BY <1>1, <1>2, <1>4, <2>1, <2>2, BodyFacts
  <2> QED
    BY <2>1, <2>3
<1>5. CASE p[1] = "value"
  <2>1. ASSUME NEW list \in Lists, NEW bracket, NEW other, At(i, {other})
        PROVE  Closed(f, list, i, bracket) = Closed(g, list, i, bracket)
    <3>1. i + 1 \in Places /\ i + 1 > i
      BY <1>1, <2>1, BodyFacts
    <3>2. f[<<list, i + 1>>] = g[<<list, i + 1>>]
      BY <1>3, <3>1
    <3> QED
      BY <3>2 DEF Closed
  <2>2. /\ At(i, {"["}) => Closed(f, "values", i, "]") = Closed(g, "values", i, "]")
        /\ At(i, {"{"}) => Closed(f, "members", i, "}") = Closed(g, "members", i, "}")
    BY <2>1 DEF Lists
  <2>3. ValueEnds(f, i, least) = ValueEnds(g, i, least)
    BY <2>2 DEF ValueEnds
  <2> QED
    BY <1>5, <2>3 DEF EndsStep, i
<1>6. CASE p[1] \in Lists
  <2> DEFINE list == p[1]
             v == FirstValue(list, i)
             one == IF v < End THEN f[<<"value", v>>] ELSE {}
  <2>1. v \in i .. End /\ v \in Places
    BY <1>1, <1>6, FirstValuePlace
  <2>2. f[<<"value", v>>] = g[<<"value", v>>]
    <3> HIDE DEF v
    <3> QED
      BY <1>1, <1>4, <1>6, <2>1
  <2>3. one \subseteq i + 1 .. End
    <3> HIDE DEF v
    <3>1. <<"value", v>> \in Things /\ <<"value", v>>[2] = v
      BY <2>1 DEF Things
    <3>2. f[<<"value", v>>] \subseteq v + 1 .. End
      BY <3>1 DEF EndsBehind
    <3> QED
      BY <1>1, <2>1, <3>2
  <2> HIDE DEF list, v, one
  <2>4. ASSUME NEW j \in one, At(SkipFrom(j), {","})
        PROVE  f[<<list, SkipFrom(j) + 1>>] = g[<<list, SkipFrom(j) + 1>>]
    <3>1. j \in i + 1 .. End /\ j \in Places
      BY <1>1, <2>3, BodyFacts
    <3>2. SkipFrom(j) \in j .. End /\ SkipFrom(j) + 1 \in Places
      BY <2>4, <3>1, Skip, BodyFacts
    <3>3. SkipFrom(j) + 1 > i
      BY <1>1, <3>1, <3>2
    <3> QED
      BY <1>3, <1>6, <3>2, <3>3 DEF list
  <2>5. ListEnds(f, list, i) =
          one \cup UNION {f[<<list, SkipFrom(j) + 1>>] : j \in {j \in one : At(SkipFrom(j), {","})}}
    BY DEF ListEnds, one, v
  <2>6. ListEnds(g, list, i) =
          one \cup UNION {g[<<list, SkipFrom(j) + 1>>] : j \in {j \in one : At(SkipFrom(j), {","})}}
    BY <2>2 DEF ListEnds, one, v
  <2>7. {f[<<list, SkipFrom(j) + 1>>] : j \in {j \in one : At(SkipFrom(j), {","})}}
          = {g[<<list, SkipFrom(j) + 1>>] : j \in {j \in one : At(SkipFrom(j), {","})}}
    BY <2>4
  <2>8. ListEnds(f, list, i) = ListEnds(g, list, i)
    BY <2>5, <2>6, <2>7
  <2> QED
    BY <1>6, <2>8 DEF EndsStep, list, i, Lists
<1> QED
  BY <1>1, <1>5, <1>6

LEMMA EndsExist ==
  ASSUME Text, NEW least
  PROVE  \E ends : EndsBehind(ends) /\ ends = [p \in Things |-> EndsStep(ends, p, least)]
<1> DEFINE V == SUBSET Places
           trim == [f \in [Things -> V] |-> [p \in Things |-> f[p] \cap (p[2] + 1 .. End)]]
           H == [q \in [Things -> V] \X Things |-> EndsStep(trim[q[1]], q[2], least)]
           rank == [p \in Things |-> Rank(p)]
           N == 2 * End + 2
<1>1. ASSUME NEW f \in [Things -> V]
      PROVE  EndsBehind(trim[f]) /\ \A p \in Things : trim[f][p] = f[p] \cap (p[2] + 1 .. End)
  BY DEF EndsBehind
<1>2. ASSUME NEW f \in [Things -> V], NEW p \in Things
      PROVE  /\ H[<<f, p>>] = EndsStep(trim[f], p, least)
             /\ H[<<f, p>>] \in V
             /\ H[<<f, p>>] \subseteq p[2] + 1 .. End
  <2>1. H[<<f, p>>] = EndsStep(trim[f], p, least)
    <3>1. <<f, p>> \in [Things -> V] \X Things
      OBVIOUS
    <3> HIDE DEF trim
    <3> QED
      BY <3>1
  <2> HIDE DEF H, trim
  <2>2. EndsStep(trim[f], p, least) \subseteq p[2] + 1 .. End
    BY <1>1, EndsStepBehind
  <2>3. p[2] + 1 .. End \subseteq Places
    BY ThingFacts, BodyFacts
  <2> QED
    BY <2>1, <2>2, <2>3
<1>3. Ranked(Things, rank, N)
  <2>1. \A p \in Things : Rank(p) \in Nat /\ Rank(p) < N
    BY ThingFacts, BodyFacts DEF Rank
  <2>2. N \in Nat
    BY BodyFacts
  <2> HIDE DEF N
  <2> QED
    BY <2>1, <2>2 DEF Ranked
<1>4. \A p \in Things : rank[p] = Rank(p)
  OBVIOUS
<1>5. LooksBelow(Things, V, rank, H)
  <2> HIDE DEF trim, rank
  <2>1. H \in [[Things -> V] \X Things -> V]
    <3>1. \A q \in [Things -> V] \X Things : H[q] \in V
      <4> SUFFICES ASSUME NEW q \in [Things -> V] \X Things PROVE H[q] \in V
        OBVIOUS
      <4>1. q = <<q[1], q[2]>> /\ q[1] \in [Things -> V] /\ q[2] \in Things
        OBVIOUS
      <4> HIDE DEF H, V
      <4> QED
        BY <1>2, <4>1
    <3>2. H = [q \in [Things -> V] \X Things |-> H[q]]
      OBVIOUS
    <3> HIDE DEF H
    <3> QED
      BY <3>1, <3>2
  <2>2. ASSUME NEW f \in [Things -> V], NEW g \in [Things -> V], NEW p \in Things,
               \A q \in Things : rank[q] < rank[p] => f[q] = g[q]
        PROVE  H[<<f, p>>] = H[<<g, p>>]
    <3> HIDE DEF H, V
    <3>1. ASSUME NEW q \in Things, Rank(q) < Rank(p) PROVE trim[f][q] = trim[g][q]
      <4> HIDE DEF trim, rank
      <4>1. rank[q] < rank[p]
        BY <1>4, <3>1
      <4>2. f[q] = g[q]
        BY <2>2, <4>1
      <4>3. /\ trim[f][q] = f[q] \cap (q[2] + 1 .. End)
            /\ trim[g][q] = g[q] \cap (q[2] + 1 .. End)
        BY <1>1
      <4> QED
        BY <4>2, <4>3
    <3>2. EndsStep(trim[f], p, least) = EndsStep(trim[g], p, least)
      BY <1>1, <3>1, EndsStepLooks
    <3> QED
      BY <1>2, <3>2
  <2> HIDE DEF H, V
  <2> QED
    BY <2>1, <2>2 DEF LooksBelow
<1>6. PICK f : Solves(f, Things, V, H)
  <2>1. V # {} /\ N \in Nat
    BY BodyFacts
  <2> HIDE DEF V, H, rank, N
  <2> QED
    BY <1>3, <1>5, <2>1, RecursiveFunction
<1>7. f \in [Things -> V] /\ \A p \in Things : f[p] = H[<<f, p>>]
  <2> HIDE DEF V, H
  <2> QED
    BY <1>6 DEF Solves
<1>8. EndsBehind(f)
  <2> HIDE DEF H
  <2> QED
    BY <1>2, <1>7 DEF EndsBehind
<1>9. trim[f] = f
  <2>1. \A p \in Things : f[p] \cap (p[2] + 1 .. End) = f[p]
    BY <1>8 DEF EndsBehind
  <2>2. trim[f] = [p \in Things |-> f[p] \cap (p[2] + 1 .. End)]
    BY <1>7
  <2>3. f = [p \in Things |-> f[p]]
    BY <1>7
  <2> HIDE DEF trim
  <2> QED
    BY <2>1, <2>2, <2>3
<1>10. f = [p \in Things |-> EndsStep(f, p, least)]
  <2> HIDE DEF H, trim
  <2> QED
    BY <1>2, <1>7, <1>9
<1> QED
  BY <1>8, <1>10

\* What Ends is chosen to be.
IsEnds(ends, least) == ends = [p \in Things |-> EndsStep(ends, p, least)]

LEMMA EndsAre ==
  ASSUME Text, NEW least
  PROVE  EndsBehind(Ends(least)) /\ IsEnds(Ends(least), least)
<1>1. PICK f : EndsBehind(f) /\ IsEnds(f, least)
  BY EndsExist DEF IsEnds
<1>2. Ends(least) = CHOOSE ends : IsEnds(ends, least)
  BY DEF Ends, IsEnds, EndsStep
<1>3. IsEnds(Ends(least), least)
  BY <1>1, <1>2
<1> DEFINE e == Ends(least)
           rank == [p \in Things |-> Rank(p)]
           T == {p \in Things : e[p] = f[p]}
<1>4. rank \in [Things -> Nat] /\ \A p \in Things : rank[p] = Rank(p)
  <2>1. \A p \in Things : Rank(p) \in Nat
    BY ThingFacts, BodyFacts DEF Rank
  <2> QED
    BY <2>1
<1> HIDE DEF e, rank
<1>5. ASSUME NEW p \in Things, \A q \in Things : rank[q] < rank[p] => q \in T
      PROVE  p \in T
  <2>1. \A q \in Things : Rank(q) < Rank(p) => f[q] = e[q]
    BY <1>4, <1>5
  <2>2. EndsStep(f, p, least) = EndsStep(e, p, least)
    BY <1>1, <2>1, EndsStepLooks
  <2>3. e[p] = EndsStep(e, p, least) /\ f[p] = EndsStep(f, p, least)
    BY <1>1, <1>3 DEF IsEnds, e
  <2> QED
    BY <2>2, <2>3
<1>6. Things \subseteq T
  <2> HIDE DEF T
  <2> QED
    BY <1>4, <1>5, RankInduction
<1>7. e = f
  <2>1. e = [p \in Things |-> e[p]] /\ f = [p \in Things |-> f[p]]
    BY <1>1, <1>3 DEF IsEnds, e
  <2>2. \A p \in Things : e[p] = f[p]
    BY <1>6
  <2> HIDE DEF T
  <2> QED
    BY <2>1, <2>2
<1> QED
  BY <1>1, <1>7 DEF e

(***************************************************************************)
(* The invariant.  What the parser has read and what it reads next are     *)
(* told by places of the grammar: of each open object or array, where it   *)
(* opens (opens), and of what is being read, where that begins.  The       *)
(* operators take the parser's state as arguments, so that only the body   *)
(* is left of it.                                                          *)
(***************************************************************************)
Opening(kind) == IF kind = "object" THEN "{" ELSE "["
Closing(kind) == IF kind = "object" THEN "}" ELSE "]"
List(kind) == IF kind = "object" THEN "members" ELSE "values"

EndsOf(thing, i) == Ends(Lenient)[<<thing, i>>]

\* A list from i on is the rest of the one of the object or array that opens at o.
Continues(kind, o, i) == EndsOf(List(kind), i) \subseteq EndsOf(List(kind), o + 1)

\* A value at v is one of that list.
Belongs(kind, o, v) ==
  \A j \in EndsOf("value", v) :
    /\ j \in EndsOf(List(kind), o + 1)
    /\ At(SkipFrom(j), {","}) => Continues(kind, o, SkipFrom(j) + 1)

\* A value may begin at v inside the first d of the open objects and arrays.
Stands(st, opens, d, v) ==
  IF d = 0 THEN v = SkipFrom(1) /\ v < End ELSE Belongs(st[d].kind, opens[d], v)

Opened(st, opens) ==
  /\ opens \in [1 .. Len(st) -> Places]
  /\ \A k \in 1 .. Len(st) :
       At(opens[k], {Opening(st[k].kind)}) /\ Stands(st, opens, k - 1, opens[k])

\* A list goes on at i in the innermost one; only the first value stands at its beginning.
ListAt(st, opens, kind, i) ==
  /\ st # << >> /\ st[Len(st)].kind = kind
  /\ Continues(kind, opens[Len(st)], i)
  /\ st[Len(st)].first => SkipFrom(i) = SkipFrom(opens[Len(st)] + 1)

ValueAt(st, opens, i) == SkipFrom(i) < End => Stands(st, opens, Len(st), SkipFrom(i))

Behind(st, opens, i) ==
  \E v \in Places : /\ Stands(st, opens, Len(st), v)
                    /\ \E j \in EndsOf("value", v) : SkipFrom(j) = SkipFrom(i)

\* A member whose key begins at q.
KeyAt(st, opens, q) ==
  /\ st # << >> /\ st[Len(st)].kind = "object"
  /\ At(q, {"quote"}) /\ Continues("object", opens[Len(st)], q)

\* The string at q is read up to before i.
StringTo(st, opens, rl, q, i) ==
  /\ At(q, {"quote"})
  /\ rl = "key" => KeyAt(st, opens, q)
  /\ rl = "value" => Stands(st, opens, Len(st), q)
  /\ StringEnds[q + 1] = StringEnds[i]

\* The integer of a number from v to before point, and the fraction behind it.
IntegerTo(v, int, point) ==
  /\ int \in {v, v + 1} /\ (int = v + 1 => At(v, {"-"}))
  /\ int < point /\ point \in Places /\ AllDigits(int, point)
  /\ body[int] = "0" => point = int + 1

FractionTo(point, e) ==
  /\ point <= e /\ e \in Places
  /\ point = e \/ (At(point, {"."}) /\ AllDigits(point + 1, e))

ExponentTo(e, i) ==
  /\ At(e, {"e"})
  /\ \E digits \in {e + 1, e + 2} :
       /\ digits = e + 2 => At(e + 1, {"+", "-"})
       /\ digits <= i /\ AllDigits(digits, i)

\* The number at v is read up to before i.
NumberTo(p, v, i) ==
  /\ At(v, {"-"} \cup Digits)
  /\ p = "minus" => At(v, {"-"}) /\ i = v + 1
  /\ p = "zero" => \E int \in Places : IntegerTo(v, int, i)
  /\ p = "digits" => \E int \in Places : IntegerTo(v, int, i) /\ body[int] # "0"
  /\ p = "fraction" =>
       \E int, point \in Places : /\ IntegerTo(v, int, point) /\ At(point, {"."})
                                  /\ point < i /\ AllDigits(point + 1, i)
  /\ p = "exponent_sign" =>
       \E int, point \in Places : /\ IntegerTo(v, int, point) /\ FractionTo(point, i - 1)
                                  /\ At(i - 1, {"e"})
  /\ p = "exponent" =>
       \E int, point, e \in Places :
         IntegerTo(v, int, point) /\ FractionTo(point, e) /\ ExponentTo(e, i)

\* What has been read up to before i, for each pc.
Reached(p, st, opens, rl, i) ==
  /\ p = "first" => st = << >> /\ SkipFrom(i) = SkipFrom(1)
  /\ p = "key" => ListAt(st, opens, "object", i)
  /\ p = "element" => ListAt(st, opens, "array", i)
  /\ p = "member" => ValueAt(st, opens, i)
  /\ p \in {"after", "after_number"} => Behind(st, opens, i)
  /\ p = "string" => \E q \in Places : StringTo(st, opens, rl, q, i)
  /\ p \in {"char", "unit"} => \E q \in Places : StringTo(st, opens, rl, q, i + 1)
  /\ p = "escape" => At(i - 1, {"backslash"}) /\ \E q \in Places : StringTo(st, opens, rl, q, i - 1)
  /\ p = "colon" =>
       \E q \in Places : /\ KeyAt(st, opens, q) /\ StringEnds[q + 1] # 0
                         /\ SkipFrom(StringEnds[q + 1]) = SkipFrom(i)
  /\ p = "keyword" => \E v \in Places : Stands(st, opens, Len(st), v) /\ At(v, {"t"}) /\ i = v + 1
  /\ p \in NumberPcs => \E v \in Places : Stands(st, opens, Len(st), v) /\ NumberTo(p, v, i)

\* Only the innermost one may have no value yet, and only where one is read for.
Flags(p, st) ==
  \A k \in 1 .. Len(st) : st[k].first => k = Len(st) /\ p \in {"key", "element"}

Readings ==
  {"first", "key", "element", "member", "after", "after_number", "string", "char", "unit",
   "escape", "colon", "keyword"} \cup NumberPcs
Stacks == Seq([kind : {"object", "array"}, first : BOOLEAN])

ParserTypes ==
  /\ Text
  /\ total_read \in 0 .. Len(body)
  /\ pc \in Readings \cup {"done", "failed"}
  /\ stack \in Stacks
  /\ role \in {"key", "value"}

Parsed(p, st, rl, i) ==
  p \in Readings => /\ Flags(p, st)
                    /\ \E opens : Opened(st, opens) /\ Reached(p, st, opens, rl, i)

\* The values are named, so that in the next state the body is the only variable.
Parsing ==
  \E p, st, rl, i : /\ p = pc /\ st = stack /\ rl = role /\ i = total_read + 1
                    /\ Parsed(p, st, rl, i)

ParserInv ==
  /\ ParserTypes
  /\ Parsing
  /\ AcceptsOnlyValues

(***************************************************************************)
(* What the grammar says, rule by rule.                                    *)
(***************************************************************************)
Kinds == {"object", "array"}

LEMMA EndsType ==
  ASSUME Text, NEW thing \in {"value", "values", "members"}, NEW i \in Places, NEW least
  PROVE  Ends(least)[<<thing, i>>] \subseteq i + 1 .. End /\ Ends(least)[<<thing, i>>] \subseteq Places
<1>1. <<thing, i>> \in Things /\ <<thing, i>>[2] = i
  BY DEF Things
<1>2. Ends(least)[<<thing, i>>] \subseteq i + 1 .. End
  BY <1>1, EndsAre DEF EndsBehind
<1>3. i + 1 .. End \subseteq Places
  BY BodyFacts
<1> QED
  BY <1>2, <1>3

LEMMA EndsRule ==
  ASSUME Text, NEW i \in Places, NEW least
  PROVE  /\ Ends(least)[<<"value", i>>] = ValueEnds(Ends(least), i, least)
         /\ \A list \in Lists : Ends(least)[<<list, i>>] = ListEnds(Ends(least), list, i)
<1> DEFINE e == Ends(least)
<1>1. \A p \in Things : e[p] = EndsStep(e, p, least)
  BY EndsAre DEF IsEnds
<1> HIDE DEF e
<1>2. e[<<"value", i>>] = ValueEnds(e, i, least)
  <2>1. <<"value", i>> \in Things /\ <<"value", i>>[1] = "value" /\ <<"value", i>>[2] = i
    BY DEF Things
  <2>2. EndsStep(e, <<"value", i>>, least) = ValueEnds(e, i, least)
    BY <2>1 DEF EndsStep
  <2> QED
    BY <1>1, <2>1, <2>2
<1>3. ASSUME NEW list \in Lists PROVE e[<<list, i>>] = ListEnds(e, list, i)
  <2>1. /\ <<list, i>> \in Things /\ <<list, i>>[1] = list /\ <<list, i>>[2] = i
        /\ list # "value"
    BY DEF Things, Lists
  <2>2. EndsStep(e, <<list, i>>, least) = ListEnds(e, list, i)
    BY <2>1 DEF EndsStep
  <2> QED
    BY <1>1, <2>1, <2>2
<1> QED
  BY <1>2, <1>3 DEF e

LEMMA EndsOfType ==
  ASSUME Text, NEW thing \in {"value", "values", "members"}, NEW i \in Places
  PROVE  EndsOf(thing, i) \subseteq i + 1 .. End /\ EndsOf(thing, i) \subseteq Places
BY EndsType DEF EndsOf

LEMMA EndsOfRule ==
  ASSUME Text, NEW i \in Places
  PROVE  /\ EndsOf("value", i) = ValueEnds(Ends(Lenient), i, Lenient)
         /\ \A list \in Lists : EndsOf(list, i) = ListEnds(Ends(Lenient), list, i)
BY EndsRule DEF EndsOf

\* A list ends behind its first value, or where the list behind the comma does.
LEMMA ListRule ==
  ASSUME Text, NEW i \in Places, NEW list \in Lists, FirstValue(list, i) < End,
         NEW j \in EndsOf("value", FirstValue(list, i))
  PROVE  /\ j \in EndsOf(list, i)
         /\ At(SkipFrom(j), {","}) => EndsOf(list, SkipFrom(j) + 1) \subseteq EndsOf(list, i)
<1> DEFINE v == FirstValue(list, i)
           one == EndsOf("value", v)
<1>1. EndsOf(list, i) =
        one \cup UNION {EndsOf(list, SkipFrom(k) + 1) : k \in {k \in one : At(SkipFrom(k), {","})}}
  BY EndsOfRule DEF ListEnds, EndsOf
<1>2. j \in one
  OBVIOUS
<1> HIDE DEF one
<1> QED
  BY <1>1, <1>2

\* An object or array ends with its bracket.
LEMMA BracketRule ==
  ASSUME Text, NEW kind \in Kinds, NEW i \in Places, At(i, {Opening(kind)}),
         NEW j, j = i + 1 \/ j \in EndsOf(List(kind), i + 1), At(SkipFrom(j), {Closing(kind)})
  PROVE  SkipFrom(j) + 1 \in EndsOf("value", i)
<1>1. /\ ~At(i, {"-"} \cup Digits) /\ ~At(i, {"t"}) /\ ~At(i, {"quote"})
      /\ kind = "object" => ~At(i, {"["})
  BY DEF At, Digits, Opening, Kinds
<1>2. EndsOf("value", i) = Closed(Ends(Lenient), List(kind), i, Closing(kind))
  BY <1>1, EndsOfRule DEF ValueEnds, List, Closing, Opening, Kinds
<1>3. SkipFrom(j) + 1 \in Closed(Ends(Lenient), List(kind), i, Closing(kind))
  BY DEF Closed, EndsOf
<1> QED
  BY <1>2, <1>3

LEMMA StringRule ==
  ASSUME Text, NEW i \in Places, At(i, {"quote"}), StringEnds[i + 1] # 0
  PROVE  StringEnds[i + 1] \in EndsOf("value", i) /\ StringEnds[i + 1] \in i + 2 .. End
<1>1. ~At(i, {"-"} \cup Digits) /\ ~At(i, {"t"})
  BY DEF At, Digits
<1>2. EndsOf("value", i) = {StringEnds[i + 1]} \ {0}
  BY <1>1, EndsOfRule DEF ValueEnds
<1>3. i + 1 \in 1 .. End + 3
  BY BodyFacts
<1> QED
  BY <1>2, <1>3, StringEquation, BodyFacts

LEMMA KeywordRule ==
  ASSUME Text, NEW i \in Places, At(i, {"t"}), At(i + 1, {"rue"})
  PROVE  i + 2 \in EndsOf("value", i)
<1>1. ~At(i, {"-"} \cup Digits)
  BY DEF At, Digits
<1> QED
  BY <1>1, EndsOfRule DEF ValueEnds

LEMMA NumberRule ==
  ASSUME Text, NEW i \in Places, At(i, {"-"} \cup Digits),
         NEW j \in i + 1 .. End, IsNumber(i, j, Lenient)
  PROVE  j \in EndsOf("value", i)
BY EndsOfRule DEF ValueEnds

\* White space in front of a list is no part of it.
LEMMA ListSkips ==
  ASSUME Text, NEW i \in Places, NEW j \in Places, NEW list \in Lists, SkipFrom(i) = SkipFrom(j)
  PROVE  EndsOf(list, i) = EndsOf(list, j)
<1>1. FirstValue(list, i) = FirstValue(list, j)
  BY FirstValueSkips
<1> QED
  BY <1>1, EndsOfRule DEF ListEnds

LEMMA ListKind ==
  ASSUME NEW kind \in Kinds
  PROVE  List(kind) \in Lists /\ List(kind) \in {"value", "values", "members"}
BY DEF List, Lists, Kinds

\* The first value of what is left of a list belongs to it.
LEMMA BelongsRule ==
  ASSUME Text, NEW kind \in Kinds, NEW o, NEW i \in Places, Continues(kind, o, i),
         FirstValue(List(kind), i) < End
  PROVE  Belongs(kind, o, FirstValue(List(kind), i))
<1> SUFFICES ASSUME NEW j \in EndsOf("value", FirstValue(List(kind), i))
             PROVE  /\ j \in EndsOf(List(kind), o + 1)
                    /\ At(SkipFrom(j), {","}) => Continues(kind, o, SkipFrom(j) + 1)
  BY DEF Belongs
<1>1. /\ j \in EndsOf(List(kind), i)
      /\ At(SkipFrom(j), {","}) =>
           EndsOf(List(kind), SkipFrom(j) + 1) \subseteq EndsOf(List(kind), i)
  BY ListKind, ListRule
<1> QED
  BY <1>1 DEF Continues

(***************************************************************************)
(* The stack.                                                              *)
(***************************************************************************)
LEMMA StackFacts ==
  ASSUME NEW st \in Stacks
  PROVE  /\ Len(st) \in Nat /\ (st = << >> <=> Len(st) = 0) /\ DOMAIN st = 1 .. Len(st)
         /\ \A k \in 1 .. Len(st) : st[k].kind \in Kinds /\ st[k].first \in BOOLEAN
<1>1. Len(st) \in Nat /\ DOMAIN st = 1 .. Len(st)
  BY LenProperties DEF Stacks
<1>2. \A k \in 1 .. Len(st) : st[k] \in [kind : {"object", "array"}, first : BOOLEAN]
  BY ElementOfSeq DEF Stacks
<1>3. st = << >> <=> Len(st) = 0
  BY EmptySeq DEF Stacks
<1> QED
  BY <1>1, <1>2, <1>3 DEF Kinds

LEMMA FrontFacts ==
  ASSUME NEW st \in Stacks, st # << >>
  PROVE  /\ Front(st) \in Stacks /\ Len(Front(st)) = Len(st) - 1
         /\ \A k \in 1 .. Len(st) - 1 : Front(st)[k] = st[k]
<1> DEFINE S == [kind : {"object", "array"}, first : BOOLEAN]
           n == Len(st) - 1
<1>1. n \in Nat /\ 1 \in Int /\ n \in Int
  BY StackFacts
<1>2. \A k \in 1 .. n : st[k] \in S
  <2>1. \A k \in 1 .. n : k \in 1 .. Len(st)
    BY StackFacts
  <2> QED
    BY <2>1, ElementOfSeq DEF Stacks
<1>3. /\ SubSeq(st, 1, n) \in Seq(S)
      /\ Len(SubSeq(st, 1, n)) = IF 1 <= n THEN n - 1 + 1 ELSE 0
      /\ \A k \in 1 .. n - 1 + 1 : SubSeq(st, 1, n)[k] = st[1 + k - 1]
  <2> HIDE DEF S, n
  <2> QED
    BY <1>1, <1>2, SubSeqProperties
<1>4. Len(SubSeq(st, 1, n)) = n
  <2> HIDE DEF n
  <2> QED
    BY <1>1, <1>3
<1>5. \A k \in 1 .. n : SubSeq(st, 1, n)[k] = st[k]
  <2> HIDE DEF n
  <2>1. \A k \in 1 .. n : k \in 1 .. n - 1 + 1 /\ 1 + k - 1 = k
    BY <1>1
  <2> QED
    BY <1>3, <2>1
<1>6. Front(st) = SubSeq(st, 1, n)
  BY DEF Front
<1> QED
  BY <1>3, <1>4, <1>5, <1>6 DEF Stacks

\* The stack when its innermost object or array has a value.
NoLongerFirst(st) == [st EXCEPT ![Len(st)].first = FALSE]

LEMMA NoLongerFirstFacts ==
  ASSUME NEW st \in Stacks, st # << >>
  PROVE  /\ NoLongerFirst(st) \in Stacks /\ Len(NoLongerFirst(st)) = Len(st)
         /\ \A k \in 1 .. Len(st) : /\ NoLongerFirst(st)[k].kind = st[k].kind
                                    /\ k # Len(st) => NoLongerFirst(st)[k] = st[k]
         /\ NoLongerFirst(st)[Len(st)].first = FALSE
<1> DEFINE S == [kind : {"object", "array"}, first : BOOLEAN]
           n == Len(st)
           t == [st[n] EXCEPT !.first = FALSE]
<1>1. n \in 1 .. n /\ n \in Nat
  BY StackFacts
<1>2. st \in Seq(S) /\ st[n] \in S
  BY <1>1, ElementOfSeq DEF Stacks
<1>3. t \in S /\ t.kind = st[n].kind /\ t.first = FALSE
  BY <1>2
<1> HIDE DEF S, t
<1>4. /\ [st EXCEPT ![n] = t] \in Seq(S) /\ Len([st EXCEPT ![n] = t]) = n
      /\ \A k \in 1 .. n : [st EXCEPT ![n] = t][k] = IF k = n THEN t ELSE st[k]
  BY <1>1, <1>2, <1>3, ExceptSeq
<1>5. NoLongerFirst(st) = [st EXCEPT ![n] = t]
  BY DEF NoLongerFirst, t
<1> QED
  BY <1>1, <1>3, <1>4, <1>5 DEF Stacks, S

\* Where values may stand depends on the kinds of what is open.
LEMMA SameKinds ==
  ASSUME NEW st \in Stacks, NEW st1 \in Stacks, Len(st1) = Len(st),
         \A k \in 1 .. Len(st) : st1[k].kind = st[k].kind, NEW opens
  PROVE  /\ \A d \in 0 .. Len(st) : \A v : Stands(st1, opens, d, v) <=> Stands(st, opens, d, v)
         /\ Opened(st1, opens) <=> Opened(st, opens)
<1>1. \A d \in 0 .. Len(st) : \A v : Stands(st1, opens, d, v) <=> Stands(st, opens, d, v)
  <2>1. \A d \in 0 .. Len(st) : d = 0 \/ d \in 1 .. Len(st)
    BY StackFacts
  <2> QED
    BY <2>1 DEF Stands
<1>2. \A k \in 1 .. Len(st) : k - 1 \in 0 .. Len(st)
  BY StackFacts
<1> QED
  BY <1>1, <1>2 DEF Opened

\* The stack as the rest of the invariant sees it.
NoneFirst(st) == \A k \in 1 .. Len(st) : ~st[k].first

LEMMA PushStep ==
  ASSUME Text, NEW st \in Stacks, NoneFirst(st), NEW opens, Opened(st, opens),
         NEW kind \in Kinds, NEW o \in Places, Stands(st, opens, Len(st), o),
         At(o, {Opening(kind)}), NEW rl
  PROVE  /\ Append(st, [kind |-> kind, first |-> TRUE]) \in Stacks
         /\ Parsed(IF kind = "object" THEN "key" ELSE "element",
                   Append(st, [kind |-> kind, first |-> TRUE]), rl, o + 1)
<1> DEFINE S == [kind : {"object", "array"}, first : BOOLEAN]
           n == Len(st)
           t == [kind |-> kind, first |-> TRUE]
           st1 == Append(st, t)
           opens1 == [k \in 1 .. n + 1 |-> IF k = n + 1 THEN o ELSE opens[k]]
           p == IF kind = "object" THEN "key" ELSE "element"
<1>1. n \in Nat /\ opens \in [1 .. n -> Places]
  BY StackFacts DEF Opened
<1>2. t \in S /\ t.kind = kind /\ t.first = TRUE
  BY DEF Kinds
<1> HIDE DEF t, n
<1>3. /\ st1 \in Seq(S) /\ st1 # << >> /\ Len(st1) = n + 1
      /\ \A k \in 1 .. n : st1[k] = st[k]
      /\ st1[n + 1] = t
  <2> HIDE DEF S, t
  <2> QED
    BY <1>2, AppendProperties DEF Stacks, S, n
<1>4. st1 \in Stacks
  BY <1>3 DEF Stacks
<1>5. \A k \in 1 .. n + 1 : opens1[k] = IF k = n + 1 THEN o ELSE opens[k]
  OBVIOUS
<1>6. opens1 \in [1 .. n + 1 -> Places]
  <2>1. \A k \in 1 .. n + 1 : k = n + 1 \/ k \in 1 .. n
    BY <1>1
  <2> QED
    BY <1>1, <2>1
<1> HIDE DEF st1, opens1, S
<1>7. ASSUME NEW d \in 0 .. n, NEW v PROVE Stands(st1, opens1, d, v) <=> Stands(st, opens, d, v)
  <2>1. d = 0 \/ (d \in 1 .. n /\ d \in 1 .. n + 1 /\ d # n + 1)
    BY <1>1
  <2>2. d = 0 \/ (st1[d] = st[d] /\ opens1[d] = opens[d])
    BY <1>3, <1>5, <2>1
  <2> QED
    BY <2>2 DEF Stands
<1>8. ASSUME NEW k \in 1 .. n + 1
      PROVE  At(opens1[k], {Opening(st1[k].kind)}) /\ Stands(st1, opens1, k - 1, opens1[k])
  <2>1. CASE k = n + 1
    <3>1. opens1[k] = o /\ st1[k].kind = kind /\ k - 1 = n /\ n \in 0 .. n /\ k - 1 \in 0 .. n
      BY <1>1, <1>2, <1>3, <1>5, <2>1
    <3>2. Stands(st, opens, k - 1, o)
      BY <3>1 DEF n
    <3> QED
      BY <1>7, <3>1, <3>2
  <2>2. CASE k # n + 1
    <3>1. k \in 1 .. n /\ k - 1 \in 0 .. n
      BY <1>1, <2>2
    <3>2. opens1[k] = opens[k] /\ st1[k] = st[k]
      BY <1>3, <1>5, <2>2, <3>1
    <3>3. At(opens[k], {Opening(st[k].kind)}) /\ Stands(st, opens, k - 1, opens[k])
      BY <3>1 DEF Opened, n
    <3> QED
      BY <1>7, <3>1, <3>2, <3>3
  <2> QED
    BY <2>1, <2>2
<1>9. Opened(st1, opens1)
  BY <1>3, <1>6, <1>8 DEF Opened
<1>10. ListAt(st1, opens1, kind, o + 1)
  <2>1. opens1[Len(st1)] = o /\ st1[Len(st1)] = t
    BY <1>1, <1>3, <1>5
  <2> QED
    BY <1>2, <1>3, <2>1 DEF ListAt, Continues
<1>11. Flags(p, st1)
  <2>1. \A k \in 1 .. Len(st1) : st1[k].first => k = Len(st1)
    <3>1. \A k \in 1 .. n + 1 : k = n + 1 \/ k \in 1 .. n
      BY <1>1
    <3> QED
      BY <1>3, <3>1 DEF NoneFirst, n
  <2> QED
    BY <2>1 DEF Flags
<1>12. Reached(p, st1, opens1, rl, o + 1)
  <2>1. (p = "key" /\ kind = "object") \/ (p = "element" /\ kind = "array")
    BY DEF Kinds
  <2> HIDE DEF p
  <2> QED
    BY <1>10, <2>1 DEF Reached, NumberPcs
<1>13. Parsed(p, st1, rl, o + 1)
  BY <1>9, <1>11, <1>12 DEF Parsed
<1> QED
  BY <1>4, <1>13 DEF st1, t

LEMMA PopStep ==
  ASSUME Text, NEW st \in Stacks, st # << >>, \A k \in 1 .. Len(st) - 1 : ~st[k].first,
         NEW opens, Opened(st, opens), NEW j \in Places,
         \/ j = opens[Len(st)] + 1
         \/ j \in EndsOf(List(st[Len(st)].kind), opens[Len(st)] + 1),
         At(SkipFrom(j), {Closing(st[Len(st)].kind)}), NEW rl
  PROVE  Front(st) \in Stacks /\ Parsed("after", Front(st), rl, SkipFrom(j) + 1)
<1> DEFINE n == Len(st)
           st1 == Front(st)
           opens1 == [k \in 1 .. n - 1 |-> opens[k]]
           o == opens[n]
           e == SkipFrom(j) + 1
<1>1. n \in Nat /\ n >= 1 /\ n \in 1 .. n /\ opens \in [1 .. n -> Places]
  BY StackFacts DEF Opened
<1>2. st1 \in Stacks /\ Len(st1) = n - 1 /\ \A k \in 1 .. n - 1 : st1[k] = st[k]
  BY FrontFacts
<1>3. opens1 \in [1 .. n - 1 -> Places] /\ \A k \in 1 .. n - 1 : opens1[k] = opens[k]
  BY <1>1
<1>4. o \in Places /\ At(o, {Opening(st[n].kind)}) /\ st[n].kind \in Kinds
      /\ Stands(st, opens, n - 1, o)
  BY <1>1, StackFacts DEF Opened
<1> HIDE DEF st1, opens1
<1>5. ASSUME NEW d \in 0 .. n - 1, NEW v PROVE Stands(st1, opens1, d, v) <=> Stands(st, opens, d, v)
  <2>1. d = 0 \/ d \in 1 .. n - 1
    BY <1>1
  <2> QED
    BY <1>2, <1>3, <2>1 DEF Stands
<1>6. Opened(st1, opens1)
  <2> SUFFICES ASSUME NEW k \in 1 .. n - 1
               PROVE  At(opens1[k], {Opening(st1[k].kind)}) /\ Stands(st1, opens1, k - 1, opens1[k])
    BY <1>2, <1>3 DEF Opened
  <2>1. k \in 1 .. n /\ k - 1 \in 0 .. n - 1
    BY <1>1
  <2>2. At(opens[k], {Opening(st[k].kind)}) /\ Stands(st, opens, k - 1, opens[k])
    BY <2>1 DEF Opened
  <2> QED
    BY <1>2, <1>3, <1>5, <2>1, <2>2
<1>7. Stands(st1, opens1, Len(st1), o)
  <2>1. n - 1 \in 0 .. n - 1
    BY <1>1
  <2> QED
    BY <1>2, <1>4, <1>5, <2>1
<1>8. e \in EndsOf("value", o)
  BY <1>4, BracketRule
<1>9. Behind(st1, opens1, e)
  BY <1>4, <1>7, <1>8 DEF Behind
<1>10. Flags("after", st1)
  BY <1>2 DEF Flags
<1>11. Reached("after", st1, opens1, rl, e)
  BY <1>9 DEF Reached, NumberPcs
<1> HIDE DEF e
<1>12. Parsed("after", st1, rl, e)
  BY <1>6, <1>10, <1>11 DEF Parsed
<1> QED
  BY <1>2, <1>12 DEF st1, e

\* The byte behind a value.
LEMMA NextByteStep ==
  ASSUME Text, NEW st \in Stacks, NoneFirst(st), NEW opens, Opened(st, opens),
         NEW v \in Places, Stands(st, opens, Len(st), v), NEW j \in EndsOf("value", v), NEW rl
  PROVE  /\ st = << >> => j \in OuterEnds(Lenient)
         /\ st # << >> /\ At(SkipFrom(j), {","}) =>
              Parsed(IF st[Len(st)].kind = "object" THEN "key" ELSE "element", st, rl, SkipFrom(j) + 1)
         /\ st # << >> /\ At(SkipFrom(j), {Closing(st[Len(st)].kind)}) =>
              Front(st) \in Stacks /\ Parsed("after", Front(st), rl, SkipFrom(j) + 1)
<1> DEFINE n == Len(st)
           kind == st[n].kind
           o == opens[n]
<1>1. ASSUME st = << >> PROVE j \in OuterEnds(Lenient)
  <2>1. v = SkipFrom(1) /\ v < End
    BY <1>1, StackFacts DEF Stands
  <2> QED
    BY <2>1, BodyFacts DEF OuterEnds, EndsOf
<1>2. ASSUME st # << >> PROVE n \in 1 .. n /\ kind \in Kinds /\ Belongs(kind, o, v) /\ j \in Places
  <2>1. n # 0 /\ n \in 1 .. n
    BY <1>2, StackFacts
  <2>2. j \in Places
    BY EndsOfType
  <2> QED
    BY <2>1, <2>2, StackFacts DEF Stands
<1>3. ASSUME st # << >>, At(SkipFrom(j), {","})
      PROVE  Parsed(IF kind = "object" THEN "key" ELSE "element", st, rl, SkipFrom(j) + 1)
  <2> DEFINE p == IF kind = "object" THEN "key" ELSE "element"
             i == SkipFrom(j) + 1
  <2>1. Continues(kind, o, i)
    BY <1>2, <1>3 DEF Belongs
  <2>2. ListAt(st, opens, kind, i)
    BY <1>2, <1>3, <2>1 DEF ListAt, NoneFirst
  <2>3. Flags(p, st)
    BY DEF Flags, NoneFirst
  <2>4. (p = "key" /\ kind = "object") \/ (p = "element" /\ kind = "array")
    BY <1>2, <1>3 DEF Kinds
  <2> HIDE DEF p, i, kind
  <2>5. Reached(p, st, opens, rl, i)
    BY <2>2, <2>4 DEF Reached, NumberPcs
  <2> QED
    BY <2>3, <2>5 DEF Parsed, p, i
<1>4. ASSUME st # << >>, At(SkipFrom(j), {Closing(kind)})
      PROVE  Front(st) \in Stacks /\ Parsed("after", Front(st), rl, SkipFrom(j) + 1)
  <2>1. j \in EndsOf(List(kind), o + 1)
    BY <1>2, <1>4 DEF Belongs
  <2>2. \A k \in 1 .. n - 1 : ~st[k].first
    BY <1>2, <1>4 DEF NoneFirst
  <2> QED
    BY <1>2, <1>4, <2>1, <2>2, PopStep
<1> QED
  BY <1>1, <1>3, <1>4

(***************************************************************************)
(* From one step of the parser to the next.                                *)
(***************************************************************************)
\* The grammar is that of the body, which no step changes.
LEMMA SameGrammar ==
  ASSUME body' = body
  PROVE  /\ End' = End /\ StringEnds' = StringEnds /\ Ends(Lenient)' = Ends(Lenient)
         /\ \A i : SkipFrom(i)' = SkipFrom(i)
         /\ \A i, S : At(i, S)' <=> At(i, S)
         /\ \A i, j : AllDigits(i, j)' <=> AllDigits(i, j)
<1>1. End' = End /\ StringEnds' = StringEnds /\ \A i, S : At(i, S)' <=> At(i, S)
  BY DEF End, StringEnds, At
<1>2. \A i : SkipFrom(i)' = SkipFrom(i)
  BY DEF SkipFrom, End, At, Space
<1>3. Ends(Lenient)' = Ends(Lenient)
  BY DEF Ends, ValueEnds, ListEnds, FirstValue, Closed, IsNumber, AllDigits, Things, Places,
         StringEnds, SkipFrom, End, At, Space, Digits, Lenient
<1>4. \A i, j : AllDigits(i, j)' <=> AllDigits(i, j)
  BY DEF AllDigits, Digits
<1> QED
  BY <1>1, <1>2, <1>3, <1>4

LEMMA SameParsed ==
  ASSUME body' = body
  PROVE  \A p, st, rl, i : Parsed(p, st, rl, i)' <=> Parsed(p, st, rl, i)
<1>1. \A thing, i : EndsOf(thing, i)' = EndsOf(thing, i)
  BY SameGrammar DEF EndsOf
<1>2. \A kind, o, i : Continues(kind, o, i)' <=> Continues(kind, o, i)
  BY <1>1 DEF Continues, List
<1>3. \A kind, o, v : Belongs(kind, o, v)' <=> Belongs(kind, o, v)
  BY <1>1, <1>2, SameGrammar DEF Belongs, List
<1>4. \A st, opens, d, v : Stands(st, opens, d, v)' <=> Stands(st, opens, d, v)
  BY <1>3, SameGrammar DEF Stands
<1>5. Places' = Places
  BY SameGrammar DEF Places
<1>6. \A st, opens : Opened(st, opens)' <=> Opened(st, opens)
  BY <1>4, <1>5, SameGrammar DEF Opened, Opening
<1>7. \A st, opens, kind, i : ListAt(st, opens, kind, i)' <=> ListAt(st, opens, kind, i)
  BY <1>2, SameGrammar DEF ListAt
<1>8. \A st, opens, i : /\ ValueAt(st, opens, i)' <=> ValueAt(st, opens, i)
                        /\ Behind(st, opens, i)' <=> Behind(st, opens, i)
                        /\ KeyAt(st, opens, i)' <=> KeyAt(st, opens, i)
  BY <1>1, <1>2, <1>4, <1>5, SameGrammar DEF ValueAt, Behind, KeyAt
<1>9. \A st, opens, rl, q, i : StringTo(st, opens, rl, q, i)' <=> StringTo(st, opens, rl, q, i)
  BY <1>4, <1>8, SameGrammar DEF StringTo
<1>10. \A v, int, point : IntegerTo(v, int, point)' <=> IntegerTo(v, int, point)
  BY <1>5, SameGrammar DEF IntegerTo
<1>11. \A e, i : /\ FractionTo(e, i)' <=> FractionTo(e, i)
                 /\ ExponentTo(e, i)' <=> ExponentTo(e, i)
  BY <1>5, SameGrammar DEF FractionTo, ExponentTo
<1>12. \A p, v, i : NumberTo(p, v, i)' <=> NumberTo(p, v, i)
  BY <1>5, <1>10, <1>11, SameGrammar DEF NumberTo, Digits
<1>13. \A p, st, opens, rl, i : Reached(p, st, opens, rl, i)' <=> Reached(p, st, opens, rl, i)
  BY <1>4, <1>5, <1>7, <1>8, <1>9, <1>12, SameGrammar DEF Reached, NumberPcs
<1>14. \A p, st : Flags(p, st)' <=> Flags(p, st)
  BY DEF Flags
<1> QED
  BY <1>6, <1>13, <1>14 DEF Parsed, Readings, NumberPcs

LEMMA Reading ==
  ASSUME ParserTypes, body' = body, total_read' \in 0 .. Len(body), pc' \in Readings,
         stack' \in Stacks, role' \in {"key", "value"},
         Parsed(pc', stack', role', total_read' + 1)
  PROVE  ParserInv'
<1>1. ParserTypes'
  BY DEF ParserTypes, Text, Readings, NumberPcs, Stacks
<1>2. pc' # "done"
  BY DEF Readings, NumberPcs
<1>3. AcceptsOnlyValues'
  BY <1>2 DEF AcceptsOnlyValues
<1>4. Parsing'
  BY SameParsed DEF Parsing
<1> QED
  BY <1>1, <1>3, <1>4 DEF ParserInv

LEMMA Failing ==
  ASSUME ParserTypes, body' = body, total_read' \in 0 .. Len(body), pc' = "failed",
         stack' \in Stacks, role' \in {"key", "value"}
  PROVE  ParserInv'
<1>1. ParserTypes'
  BY DEF ParserTypes, Text, Readings, NumberPcs, Stacks
<1>2. AcceptsOnlyValues'
  BY DEF AcceptsOnlyValues
<1>3. Parsed(pc', stack', role', total_read' + 1)
  BY DEF Parsed, Readings, NumberPcs
<1>4. Parsing'
  BY <1>3, SameParsed DEF Parsing
<1> QED
  BY <1>1, <1>2, <1>4 DEF ParserInv

LEMMA SameOuter ==
  ASSUME body' = body
  PROVE  OuterEnds(Lenient)' = OuterEnds(Lenient) /\ End' = End /\ \A j : SkipFrom(j)' = SkipFrom(j)
BY DEF OuterEnds, Ends, ValueEnds, ListEnds, FirstValue, Closed, IsNumber, AllDigits, Things, Places,
       StringEnds, SkipFrom, End, At, Space, Digits, Lenient

LEMMA Returning ==
  ASSUME ParserTypes, body' = body, total_read' \in 0 .. Len(body), pc' = "done",
         stack' \in Stacks, role' \in {"key", "value"},
         NEW j \in OuterEnds(Lenient),
         \/ total_read' = Len(body) /\ SkipFrom(j) = End
         \/ SkipFrom(j) = total_read'
  PROVE  ParserInv'
<1>1. ParserTypes'
  BY DEF ParserTypes, Text, Readings, NumberPcs, Stacks
<1>2. AcceptsOnlyValues'
  <2>1. /\ j \in OuterEnds(Lenient)' /\ SkipFrom(j)' = SkipFrom(j) /\ End' = End
        /\ Len(body)' = Len(body)
    BY SameOuter
  <2>2. \/ (total_read = Len(body))' /\ (SkipFrom(j) = End)'
        \/ (SkipFrom(j) = total_read)'
    BY <2>1
  <2> QED
    BY <2>1, <2>2 DEF AcceptsOnlyValues
<1>3. Parsed(pc', stack', role', total_read' + 1)
  BY DEF Parsed, Readings, NumberPcs
<1>4. Parsing'
  BY <1>3, SameParsed DEF Parsing
<1> QED
  BY <1>1, <1>2, <1>4 DEF ParserInv

\* Where the parser is when it reads a byte.
LEMMA Here ==
  ASSUME ParserInv, Take
  PROVE  /\ Text /\ ParserTypes /\ body' = body /\ pc \in Readings /\ stack \in Stacks
         /\ role \in {"key", "value"}
         /\ total_read + 1 \in Places /\ total_read + 1 \in Nat /\ (total_read + 1) + 1 \in Places
         /\ total_read' = total_read + 1 /\ total_read' \in 0 .. Len(body)
         /\ \A S : At(total_read + 1, S) <=> Byte \in S
         /\ Flags(pc, stack)
         /\ \E opens : Opened(stack, opens) /\ Reached(pc, stack, opens, role, total_read + 1)
<1>1. ParserTypes /\ Parsed(pc, stack, role, total_read + 1)
  BY DEF ParserInv, Parsing
<1>2. Text /\ total_read \in 0 .. Len(body) /\ pc \in Readings /\ total_read < Len(body)
  BY <1>1 DEF ParserTypes, Take, More
<1>3. total_read + 1 \in 1 .. Len(body) /\ total_read + 1 \in Places /\ (total_read + 1) + 1 \in Places
  BY <1>2, BodyFacts
<1>4. \A S : At(total_read + 1, S) <=> Byte \in S
  BY <1>2, <1>3, BodyFacts DEF Byte
<1>5. /\ Flags(pc, stack)
      /\ \E opens : Opened(stack, opens) /\ Reached(pc, stack, opens, role, total_read + 1)
  BY <1>1, <1>2 DEF Parsed
<1>6. total_read' = total_read + 1 /\ body' = body /\ total_read' \in 0 .. Len(body)
  BY <1>2, <1>3, BodyFacts DEF Take
<1> QED
  BY <1>1, <1>2, <1>3, <1>4, <1>5, <1>6, BodyFacts DEF ParserTypes

LEMMA SkipReached ==
  ASSUME Text, NEW p \in Skipping, NEW st \in Stacks, NEW opens, NEW rl, NEW i \in Places,
         At(i, {Space}), Reached(p, st, opens, rl, i)
  PROVE  Reached(p, st, opens, rl, i + 1)
<1>1. i + 1 \in Places /\ SkipFrom(i) = SkipFrom(i + 1)
  BY SkipStep
<1>2. p \in {"first", "key", "colon", "member", "element", "after", "after_number"}
  BY DEF Skipping
<1>3. ASSUME NEW kind \in Kinds, ListAt(st, opens, kind, i) PROVE ListAt(st, opens, kind, i + 1)
  <2>1. EndsOf(List(kind), i) = EndsOf(List(kind), i + 1)
    BY <1>1, ListKind, ListSkips
  <2> QED
    BY <1>1, <1>3, <2>1 DEF ListAt, Continues
<1>4. ASSUME p = "key" PROVE ListAt(st, opens, "object", i + 1)
  BY <1>3, <1>4 DEF Reached, Kinds
<1>5. ASSUME p = "element" PROVE ListAt(st, opens, "array", i + 1)
  BY <1>3, <1>5 DEF Reached, Kinds
<1>6. ASSUME p = "first" PROVE st = << >> /\ SkipFrom(i + 1) = SkipFrom(1)
  BY <1>1, <1>6 DEF Reached
<1>7. ASSUME p = "member" PROVE ValueAt(st, opens, i + 1)
  BY <1>1, <1>7 DEF Reached, ValueAt
<1>8. ASSUME p \in {"after", "after_number"} PROVE Behind(st, opens, i + 1)
  BY <1>1, <1>8 DEF Reached, Behind
<1>9. ASSUME p = "colon"
      PROVE  \E q \in Places : /\ KeyAt(st, opens, q) /\ StringEnds[q + 1] # 0
                               /\ SkipFrom(StringEnds[q + 1]) = SkipFrom(i + 1)
  BY <1>1, <1>9 DEF Reached
<1> QED
  BY <1>2, <1>4, <1>5, <1>6, <1>7, <1>8, <1>9 DEF Reached, NumberPcs

LEMMA SkipSpaceKeeps ==
  ASSUME ParserInv, SkipSpace
  PROVE  ParserInv'
<1> DEFINE i == total_read + 1
<1>1. Take /\ pc \in Skipping /\ Byte = Space /\ pc' = pc /\ stack' = stack /\ role' = role
  BY DEF SkipSpace, string
<1>2. PICK opens : Opened(stack, opens) /\ Reached(pc, stack, opens, role, i)
  BY <1>1, Here
<1>3. Text /\ stack \in Stacks /\ i \in Places /\ At(i, {Space}) /\ Flags(pc, stack) /\ pc \in Readings
  BY <1>1, Here
<1>4. Reached(pc, stack, opens, role, i + 1)
  BY <1>1, <1>2, <1>3, SkipReached
<1>5. Parsed(pc, stack, role, i + 1)
  BY <1>2, <1>3, <1>4 DEF Parsed
<1>6. Parsed(pc', stack', role', total_read' + 1)
  BY <1>1, <1>5, Here
<1> QED
  BY <1>1, <1>6, Here, Reading

\* A list whose values begin at i has one there.
LEMMA ElementHere ==
  ASSUME Text, NEW st \in Stacks, NEW opens, NEW i \in Places, SkipFrom(i) = i, i < End,
         ListAt(st, opens, "array", i)
  PROVE  Stands(st, opens, Len(st), i)
<1>1. FirstValue("values", i) = i /\ List("array") = "values" /\ "array" \in Kinds
  BY DEF FirstValue, List, Kinds
<1>2. Belongs("array", opens[Len(st)], i)
  <2>1. Continues("array", opens[Len(st)], i)
    BY DEF ListAt
  <2> QED
    BY <1>1, <2>1, BelongsRule
<1>3. Len(st) # 0 /\ st[Len(st)].kind = "array"
  BY StackFacts DEF ListAt
<1> QED
  BY <1>2, <1>3 DEF Stands

\* The value behind the colon of a member.
LEMMA MemberHere ==
  ASSUME Text, NEW st \in Stacks, NEW opens, NEW q \in Places, KeyAt(st, opens, q),
         StringEnds[q + 1] # 0, At(SkipFrom(StringEnds[q + 1]), {":"})
  PROVE  ValueAt(st, opens, SkipFrom(StringEnds[q + 1]) + 1)
<1> DEFINE colon == SkipFrom(StringEnds[q + 1])
           v == SkipFrom(colon + 1)
<1>1. At(q, {"quote"}) /\ SkipFrom(q) = q
  <2>1. At(q, {"quote"})
    BY DEF KeyAt
  <2>2. ~At(q, {Space})
    BY <2>1 DEF At, Space
  <2> QED
    BY <2>1, <2>2, SkipStep
<1>2. FirstValue("members", q) = v /\ List("object") = "members" /\ "object" \in Kinds
  BY <1>1 DEF FirstValue, List, Kinds
<1>3. Len(st) # 0 /\ st[Len(st)].kind = "object" /\ Continues("object", opens[Len(st)], q)
  BY StackFacts DEF KeyAt
<1> SUFFICES ASSUME v < End PROVE Stands(st, opens, Len(st), v)
  BY DEF ValueAt
<1> HIDE DEF v
<1>4. Belongs("object", opens[Len(st)], v)
  BY <1>2, <1>3, BelongsRule
<1> QED
  BY <1>3, <1>4 DEF Stands

\* A value begins with the byte that is read.
LEMMA ValueBegins ==
  ASSUME ParserInv, Take, pc \in {"first", "member", "element"}, Byte # Space
  PROVE  /\ NotFirst \in Stacks /\ NoneFirst(NotFirst)
         /\ \E opens : /\ Opened(NotFirst, opens)
                       /\ Stands(NotFirst, opens, Len(NotFirst), total_read + 1)
<1> DEFINE i == total_read + 1
           n == Len(stack)
<1>1. /\ Text /\ stack \in Stacks /\ i \in Places /\ ~At(i, {Space}) /\ Flags(pc, stack)
      /\ i + 1 \in Places
  BY Here
<1>2. PICK opens : Opened(stack, opens) /\ Reached(pc, stack, opens, role, i)
  BY Here
<1>3. SkipFrom(i) = i /\ i < End
  BY <1>1, SkipStep, BodyFacts
<1>4. Stands(stack, opens, n, i)
  <2>1. CASE pc = "first"
    <3>1. stack = << >> /\ SkipFrom(1) = i /\ n = 0
      BY <1>1, <1>2, <1>3, <2>1, StackFacts DEF Reached
    <3> QED
      BY <1>3, <3>1 DEF Stands
  <2>2. CASE pc = "member"
    BY <1>2, <1>3, <2>2 DEF Reached, ValueAt
  <2>3. CASE pc = "element"
    <3>1. ListAt(stack, opens, "array", i)
      BY <1>2, <2>3 DEF Reached
    <3> HIDE DEF i
    <3> QED
      BY <1>1, <1>3, <3>1, ElementHere
  <2> QED
    BY <2>1, <2>2, <2>3
<1>5. CASE pc = "element"
  <2>1. stack # << >>
    BY <1>2, <1>5 DEF Reached, ListAt
  <2>2. NotFirst = NoLongerFirst(stack)
    BY <1>5 DEF NotFirst, NoLongerFirst
  <2>3. /\ NotFirst \in Stacks /\ Len(NotFirst) = n
        /\ \A k \in 1 .. n : /\ NotFirst[k].kind = stack[k].kind
                             /\ k # n => NotFirst[k] = stack[k]
        /\ NotFirst[n].first = FALSE
    BY <1>1, <2>1, <2>2, NoLongerFirstFacts
  <2>4. NoneFirst(NotFirst)
    BY <1>1, <2>3 DEF NoneFirst, Flags
  <2>5. n \in 0 .. n
    BY <1>1, StackFacts
  <2>6. Opened(NotFirst, opens) /\ Stands(NotFirst, opens, n, i)
    BY <1>1, <1>2, <1>4, <2>3, <2>5, SameKinds
  <2> QED
    BY <2>3, <2>4, <2>6
<1>6. CASE pc # "element"
  <2>1. NotFirst = stack
    BY <1>6 DEF NotFirst
  <2>2. NoneFirst(stack)
    BY <1>1, <1>6 DEF NoneFirst, Flags
  <2> QED
    BY <1>1, <1>2, <1>4, <2>1, <2>2
<1> QED
  BY <1>5, <1>6

\* What a string or number or keyword that begins here is read as.
LEMMA BeginKeeps ==
  ASSUME ParserInv, Take, pc \in {"first", "member", "element"}, Byte # Space,
         pc' \in Readings, stack' = NotFirst, role' \in {"key", "value"},
         \A opens : Stands(NotFirst, opens, Len(NotFirst), total_read + 1) =>
                      Reached(pc', NotFirst, opens, role', (total_read + 1) + 1)
  PROVE  ParserInv'
<1> DEFINE i == total_read + 1
<1>1. NotFirst \in Stacks /\ NoneFirst(NotFirst)
  BY ValueBegins
<1>2. PICK opens : Opened(NotFirst, opens) /\ Stands(NotFirst, opens, Len(NotFirst), i)
  BY ValueBegins
<1>3. Reached(pc', NotFirst, opens, role', i + 1)
  BY <1>2
<1>4. Flags(pc', NotFirst)
  BY <1>1 DEF Flags, NoneFirst
<1>5. Parsed(pc', NotFirst, role', i + 1)
  BY <1>2, <1>3, <1>4 DEF Parsed
<1>6. Parsed(pc', stack', role', total_read' + 1)
  BY <1>5, Here
<1> QED
  BY <1>1, <1>6, Here, Reading

LEMMA PushKeeps ==
  ASSUME ParserInv, Take, pc \in {"first", "member", "element"},
         NEW kind \in Kinds, Byte = Opening(kind),
         pc' = (IF kind = "object" THEN "key" ELSE "element"),
         stack' = Append(NotFirst, [kind |-> kind, first |-> TRUE]), role' = role
  PROVE  ParserInv'
<1> DEFINE i == total_read + 1
<1>1. Byte # Space
  BY DEF Opening, Space
<1>2. NotFirst \in Stacks /\ NoneFirst(NotFirst)
  BY <1>1, ValueBegins
<1>3. PICK opens : Opened(NotFirst, opens) /\ Stands(NotFirst, opens, Len(NotFirst), i)
  BY <1>1, ValueBegins
<1>4. Text /\ i \in Places /\ At(i, {Opening(kind)})
  BY Here
<1>5. stack' \in Stacks /\ Parsed(pc', stack', role', i + 1)
  <2> HIDE DEF i
  <2> QED
    BY <1>2, <1>3, <1>4, PushStep
<1>6. pc' \in Readings
  BY DEF Readings
<1>7. Parsed(pc', stack', role', total_read' + 1)
  BY <1>5, Here
<1> QED
  BY <1>5, <1>6, <1>7, Here, Reading

LEMMA BeginObjectKeeps ==
  ASSUME ParserInv, BeginObject
  PROVE  ParserInv'
<1>1. /\ Take /\ pc \in {"first", "member", "element"} /\ Byte = Opening("object")
      /\ stack' = Append(NotFirst, [kind |-> "object", first |-> TRUE])
      /\ pc' = "key" /\ role' = role /\ "object" \in Kinds
  BY DEF BeginObject, Value, Opening, Kinds
<1> QED
  BY <1>1, PushKeeps

LEMMA BeginArrayKeeps ==
  ASSUME ParserInv, BeginArray
  PROVE  ParserInv'
<1>1. /\ Take /\ pc \in {"first", "member", "element"} /\ Byte = Opening("array")
      /\ stack' = Append(NotFirst, [kind |-> "array", first |-> TRUE])
      /\ pc' = "element" /\ role' = role /\ "array" \in Kinds /\ "array" # "object"
  BY DEF BeginArray, Value, Opening, Kinds, string
<1> QED
  BY <1>1, PushKeeps

LEMMA EndEmptyArrayKeeps ==
  ASSUME ParserInv, EndEmptyArray
  PROVE  ParserInv'
<1> DEFINE i == total_read + 1
           n == Len(stack)
<1>1. /\ Take /\ pc = "element" /\ Top.first /\ Byte = "]" /\ stack' = Front(stack)
      /\ pc' = "after" /\ role' = role
  BY DEF EndEmptyArray, ClosesEmptyArray, string
<1>2. /\ Text /\ stack \in Stacks /\ i \in Places /\ At(i, {"]"}) /\ ~At(i, {Space})
      /\ Flags(pc, stack) /\ i + 1 \in Places
  BY <1>1, Here DEF Space
<1>3. PICK opens : Opened(stack, opens) /\ Reached(pc, stack, opens, role, i)
  BY <1>1, Here
<1>4. /\ stack # << >> /\ stack[n].kind = "array"
      /\ stack[n].first => SkipFrom(i) = SkipFrom(opens[n] + 1)
  BY <1>1, <1>3 DEF Reached, ListAt
<1>5. n \in 1 .. n /\ \A k \in 1 .. n - 1 : ~stack[k].first
  BY <1>2, <1>4, StackFacts DEF Flags
<1>6. SkipFrom(opens[n] + 1) = i /\ opens[n] + 1 \in Places
  <2>1. stack[n].first
    BY <1>1 DEF Top, Last
  <2>2. SkipFrom(i) = i
    BY <1>2, SkipStep
  <2>3. At(opens[n], {Opening(stack[n].kind)})
    BY <1>3, <1>5 DEF Opened
  <2> QED
    BY <1>2, <1>4, <2>1, <2>2, <2>3, BodyFacts
<1>7. Closing(stack[n].kind) = "]"
  BY <1>4 DEF Closing
<1>8. Front(stack) \in Stacks /\ Parsed("after", Front(stack), role, SkipFrom(opens[n] + 1) + 1)
  <2> HIDE DEF i
  <2> QED
    BY <1>2, <1>3, <1>4, <1>5, <1>6, <1>7, PopStep
<1>9. Parsed(pc', stack', role', total_read' + 1) /\ pc' \in Readings
  BY <1>1, <1>6, <1>8, Here DEF Readings
<1> QED
  BY <1>1, <1>8, <1>9, Here, Reading

LEMMA BeginStringKeeps ==
  ASSUME ParserInv, BeginString
  PROVE  ParserInv'
<1> DEFINE i == total_read + 1
<1>1. /\ Take /\ pc \in {"first", "member", "element"} /\ Byte = "quote" /\ Byte # Space
      /\ pc' = "string" /\ role' = "value" /\ stack' = NotFirst /\ pc' \in Readings
  BY DEF BeginString, Value, Space, Readings
<1>2. i \in Places /\ At(i, {"quote"})
  BY <1>1, Here
<1>3. ASSUME NEW opens, Stands(NotFirst, opens, Len(NotFirst), i)
      PROVE  Reached(pc', NotFirst, opens, role', i + 1)
  <2>1. StringTo(NotFirst, opens, "value", i, i + 1)
    BY <1>2, <1>3 DEF StringTo
  <2> HIDE DEF i
  <2> QED
    BY <1>1, <1>2, <2>1 DEF Reached, NumberPcs
<1> QED
  BY <1>1, <1>3, BeginKeeps

LEMMA BeginNumberKeeps ==
  ASSUME ParserInv, BeginNumber
  PROVE  ParserInv'
<1> DEFINE i == total_read + 1
<1>1. /\ Take /\ pc \in {"first", "member", "element"} /\ Byte # Space
      /\ role' = role /\ stack' = NotFirst
      /\ \/ Byte = "-" /\ pc' = "minus"
         \/ Byte = "0" /\ pc' = "zero"
         \/ Byte = "1" /\ pc' = "digits"
  BY DEF BeginNumber, Value, Space, string
<1>2. pc' \in Readings /\ pc' \in NumberPcs /\ role' \in {"key", "value"}
  BY <1>1, Here DEF Readings, NumberPcs
<1>3. Text /\ i \in Places /\ i + 1 \in Places /\ i \in Nat /\ \A S : At(i, S) <=> Byte \in S
  BY <1>1, Here
<1>4. NumberTo(pc', i, i + 1)
  <2>1. body[i] = Byte /\ i \in 1 .. Len(body)
    BY <1>3, BodyFacts DEF Byte
  <2>2. pc' = "minus" => At(i, {"-"}) /\ At(i, {"-"} \cup Digits)
    BY <1>1, <1>3
  <2>3. pc' # "minus" => IntegerTo(i, i, i + 1) /\ At(i, {"-"} \cup Digits)
    <3> SUFFICES ASSUME pc' # "minus" PROVE IntegerTo(i, i, i + 1) /\ At(i, {"-"} \cup Digits)
      OBVIOUS
    <3>1. Byte \in Digits
      BY <1>1 DEF Digits
    <3>2. AllDigits(i, i + 1)
      <4> HIDE DEF i
      <4>1. \A k \in i .. (i + 1) - 1 : k = i
        BY <1>3
      <4> QED
        BY <2>1, <3>1, <4>1 DEF AllDigits
    <3>3. i # i + 1 /\ i < i + 1
      BY <1>3
    <3> HIDE DEF i
    <3>4. IntegerTo(i, i, i + 1)
      BY <1>3, <3>2, <3>3 DEF IntegerTo
    <3> QED
      BY <1>3, <3>1, <3>4
  <2>4. pc' = "digits" => body[i] # "0"
    BY <1>1, <2>1
  <2> HIDE DEF i
  <2> QED
    BY <1>1, <1>3, <2>2, <2>3, <2>4 DEF NumberTo
<1>5. ASSUME NEW opens, Stands(NotFirst, opens, Len(NotFirst), i)
      PROVE  Reached(pc', NotFirst, opens, role', i + 1)
  <2> HIDE DEF i
  <2> QED
    BY <1>1, <1>3, <1>4, <1>5, <1>2 DEF Reached
<1> QED
  BY <1>1, <1>2, <1>5, BeginKeeps

LEMMA BeginKeywordKeeps ==
  ASSUME ParserInv, BeginKeyword
  PROVE  ParserInv'
<1> DEFINE i == total_read + 1
<1>1. /\ Take /\ pc \in {"first", "member", "element"} /\ Byte = "t" /\ Byte # Space
      /\ pc' = "keyword" /\ role' = role /\ stack' = NotFirst /\ pc' \in Readings
  BY DEF BeginKeyword, Value, Space, string, Readings
<1>2. i \in Places /\ At(i, {"t"}) /\ role' \in {"key", "value"}
  BY <1>1, Here
<1>3. ASSUME NEW opens, Stands(NotFirst, opens, Len(NotFirst), i)
      PROVE  Reached(pc', NotFirst, opens, role', i + 1)
  <2> HIDE DEF i
  <2> QED
    BY <1>1, <1>2, <1>3 DEF Reached, NumberPcs
<1> QED
  BY <1>1, <1>2, <1>3, BeginKeeps

\* Whatever is unexpected ends the parser.
LEMMA FailKeeps ==
  ASSUME ParserInv, Take, Fail
  PROVE  ParserInv'
<1>1. pc' = "failed" /\ stack' = stack /\ role' = role
  BY DEF Fail, string
<1> QED
  BY <1>1, Here, Failing

LEMMA UnexpectedValueKeeps ==
  ASSUME ParserInv, UnexpectedValue
  PROVE  ParserInv'
<1>1. Take /\ Fail
  BY DEF UnexpectedValue, Value
<1> QED
  BY <1>1, FailKeeps

LEMMA KeywordKeeps ==
  ASSUME ParserInv, Keyword
  PROVE  ParserInv'
<1> DEFINE i == total_read + 1
<1>1. Take /\ pc = "keyword" /\ stack' = stack /\ role' = role
  BY DEF Keyword, string
<1>2. CASE Byte # "rue"
  <2>1. Fail
    BY <1>2 DEF Keyword, Fail
  <2> QED
    BY <1>1, <2>1, FailKeeps
<1>3. CASE Byte = "rue"
  <2>1. pc' = "after" /\ pc' \in Readings
    BY <1>3 DEF Keyword, Readings
  <2>2. PICK opens : Opened(stack, opens) /\ Reached(pc, stack, opens, role, i)
    BY <1>1, Here
  <2>3. PICK v \in Places : Stands(stack, opens, Len(stack), v) /\ At(v, {"t"}) /\ i = v + 1
    BY <1>1, <2>2 DEF Reached
  <2>4. Text /\ At(v + 1, {"rue"})
    BY <1>1, <1>3, <2>3, Here
  <2>5. v + 2 \in EndsOf("value", v)
    BY <2>3, <2>4, KeywordRule
  <2>6. i + 1 = v + 2
    BY <2>3, <2>4, BodyFacts
  <2>7. Behind(stack, opens, i + 1)
    BY <2>3, <2>5, <2>6 DEF Behind
  <2>8. Reached("after", stack, opens, role, i + 1)
    BY <2>7 DEF Reached, NumberPcs
  <2>9. Flags("after", stack)
    BY <1>1, Here DEF Flags
  <2>10. Parsed(pc', stack', role', total_read' + 1)
    BY <1>1, <2>1, <2>2, <2>8, <2>9, Here DEF Parsed
  <2> QED
    BY <1>1, <2>1, <2>10, Here, Reading
<1> QED
  BY <1>2, <1>3

LEMMA KeyKeeps ==
  ASSUME ParserInv, Key
  PROVE  ParserInv'
<1> DEFINE i == total_read + 1
           n == Len(stack)
<1>1. Take /\ pc = "key"
  BY DEF Key
<1>2. /\ Text /\ stack \in Stacks /\ i \in Places /\ i + 1 \in Places /\ Flags(pc, stack)
      /\ \A S : At(i, S) <=> Byte \in S
  BY <1>1, Here
<1>3. PICK opens : Opened(stack, opens) /\ Reached(pc, stack, opens, role, i)
  BY <1>1, Here
<1>4. ListAt(stack, opens, "object", i)
  BY <1>1, <1>3 DEF Reached
<1>5. /\ stack # << >> /\ n \in 1 .. n /\ stack[n].kind = "object"
      /\ \A k \in 1 .. n - 1 : ~stack[k].first
  BY <1>2, <1>4, StackFacts DEF ListAt, Flags
<1>6. CASE Byte = "}" /\ Top.first /\ stack' = Front(stack) /\ pc' = "after" /\ role' = role
  <2>1. stack[n].first /\ At(i, {"}"}) /\ ~At(i, {Space})
    BY <1>2, <1>6 DEF Top, Last, Space
  <2>2. SkipFrom(opens[n] + 1) = i /\ opens[n] + 1 \in Places
    <3>1. SkipFrom(i) = i
      BY <1>2, <2>1, SkipStep
    <3>2. At(opens[n], {Opening(stack[n].kind)})
      BY <1>3, <1>5 DEF Opened
    <3>3. SkipFrom(i) = SkipFrom(opens[n] + 1)
      BY <1>2, <1>4, <2>1 DEF ListAt
    <3>4. \A j, S : At(j, S) => j + 1 \in Places
      BY <1>2, BodyFacts
    <3>5. opens[n] + 1 \in Places
      BY <3>2, <3>4
    <3> QED
      BY <3>1, <3>3, <3>5
  <2>3. Closing(stack[n].kind) = "}"
    BY <1>5 DEF Closing
  <2>4. Front(stack) \in Stacks /\ Parsed("after", Front(stack), role, SkipFrom(opens[n] + 1) + 1)
    <3> HIDE DEF i
    <3> QED
      BY <1>2, <1>3, <1>5, <2>1, <2>2, <2>3, PopStep
  <2>5. Parsed(pc', stack', role', total_read' + 1) /\ pc' \in Readings
    BY <1>1, <1>6, <2>2, <2>4, Here DEF Readings
  <2> QED
    BY <1>1, <1>6, <2>4, <2>5, Here, Reading
<1>7. CASE Byte = "quote" /\ stack' = NoLongerFirst(stack) /\ pc' = "string" /\ role' = "key"
  <2>1. /\ stack' \in Stacks /\ Len(stack') = n
        /\ \A k \in 1 .. n : /\ stack'[k].kind = stack[k].kind
                             /\ k # n => stack'[k] = stack[k]
        /\ stack'[n].first = FALSE
    BY <1>2, <1>5, <1>7, NoLongerFirstFacts
  <2>2. NoneFirst(stack')
    BY <1>2, <2>1 DEF NoneFirst, Flags
  <2>3. Opened(stack', opens)
    BY <1>2, <1>3, <2>1, SameKinds
  <2>4. At(i, {"quote"})
    BY <1>2, <1>7
  <2>5. KeyAt(stack', opens, i)
    <3>1. stack' # << >>
      BY <1>5, <2>1, StackFacts
    <3> QED
      BY <1>4, <1>5, <2>1, <2>4, <3>1 DEF KeyAt, ListAt
  <2>6. StringTo(stack', opens, "key", i, i + 1)
    BY <2>4, <2>5 DEF StringTo
  <2>7. Reached("string", stack', opens, "key", i + 1)
    <3> HIDE DEF i
    <3> QED
      BY <1>2, <2>6 DEF Reached, NumberPcs
  <2>8. Flags("string", stack')
    BY <2>2 DEF Flags, NoneFirst
  <2>9. Parsed(pc', stack', role', total_read' + 1) /\ pc' \in Readings
    BY <1>1, <1>7, <2>3, <2>7, <2>8, Here DEF Parsed, Readings
  <2> QED
    BY <1>1, <1>7, <2>1, <2>9, Here, Reading
<1>8. CASE Fail
  BY <1>1, <1>8, FailKeeps
<1> QED
  BY <1>6, <1>7, <1>8 DEF Key, FirstKeyCloses, string, NoLongerFirst

LEMMA ColonKeeps ==
  ASSUME ParserInv, Colon
  PROVE  ParserInv'
<1> DEFINE i == total_read + 1
<1>1. Take /\ pc = "colon" /\ Byte # Space /\ stack' = stack /\ role' = role
  BY DEF Colon, string
<1>2. CASE Byte # ":"
  <2>1. Fail
    BY <1>2 DEF Colon, Fail
  <2> QED
    BY <1>1, <2>1, FailKeeps
<1>3. CASE Byte = ":"
  <2>1. pc' = "member" /\ pc' \in Readings
    BY <1>3 DEF Colon, Readings
  <2>2. /\ Text /\ stack \in Stacks /\ i \in Places /\ At(i, {":"}) /\ ~At(i, {Space})
        /\ Flags(pc, stack)
    BY <1>1, <1>3, Here
  <2>3. PICK opens : Opened(stack, opens) /\ Reached(pc, stack, opens, role, i)
    BY <1>1, Here
  <2>4. PICK q \in Places : /\ KeyAt(stack, opens, q) /\ StringEnds[q + 1] # 0
                            /\ SkipFrom(StringEnds[q + 1]) = SkipFrom(i)
    BY <1>1, <2>3 DEF Reached
  <2>5. SkipFrom(StringEnds[q + 1]) = i
    BY <2>2, <2>4, SkipStep
  <2>6. ValueAt(stack, opens, i + 1)
    <3> HIDE DEF i
    <3> QED
      BY <2>2, <2>4, <2>5, MemberHere
  <2>7. Reached("member", stack, opens, role, i + 1)
    BY <2>6 DEF Reached, NumberPcs
  <2>8. Flags("member", stack)
    BY <1>1, <2>2 DEF Flags
  <2>9. Parsed(pc', stack', role', total_read' + 1)
    BY <1>1, <2>1, <2>3, <2>7, <2>8, Here DEF Parsed
  <2> QED
    BY <1>1, <2>1, <2>9, Here, Reading
<1> QED
  BY <1>2, <1>3

(***************************************************************************)
(* Strings.                                                                *)
(***************************************************************************)
LEMMA StringEndsAt ==
  ASSUME Text, NEW i \in Places, i < End
  PROVE  StringEnds[i] = IF At(i, {"quote"}) THEN i + 1
                         ELSE IF At(i, {"backslash"}) /\ At(i + 1, {"u", "lead"}) THEN StringEnds[i + 3]
                         ELSE IF At(i, {"backslash", "lead"}) THEN StringEnds[i + 2]
                         ELSE StringEnds[i + 1]
<1>1. i \in 1 .. End + 3 /\ ~(i >= End)
  BY BodyFacts
<1>2. StringEnds[i] = StringStep(StringEnds, i)
  BY <1>1, StringEquation
<1> QED
  BY <1>1, <1>2 DEF StringStep

\* A byte inside a string: there are other places up to which it is read.
LEMMA StringKeeps ==
  ASSUME ParserInv, Take, pc \in {"string", "char", "unit", "escape"},
         pc' \in {"string", "char", "unit", "escape"}, stack' = stack, role' = role,
         \A opens : Reached(pc, stack, opens, role, total_read + 1) =>
                      Reached(pc', stack, opens, role, (total_read + 1) + 1)
  PROVE  ParserInv'
<1> DEFINE i == total_read + 1
<1>1. PICK opens : Opened(stack, opens) /\ Reached(pc, stack, opens, role, i)
  BY Here
<1>2. Reached(pc', stack, opens, role, i + 1)
  BY <1>1
<1>3. Flags(pc', stack) /\ pc' \in Readings
  BY Here DEF Flags, Readings
<1>4. Parsed(pc', stack', role', total_read' + 1)
  BY <1>1, <1>2, <1>3, Here DEF Parsed
<1> QED
  BY <1>3, <1>4, Here, Reading

LEMMA StringCharKeeps ==
  ASSUME ParserInv, StringChar
  PROVE  ParserInv'
<1> DEFINE i == total_read + 1
<1>1. /\ Take /\ pc = "string" /\ Byte \notin {"quote", "backslash"}
      /\ stack' = stack /\ role' = role
      /\ pc' = IF Byte = "lead" THEN "char" ELSE "string"
  BY DEF StringChar, PushChar
<1>2. Text /\ i \in Places /\ i + 1 \in Places /\ \A S : At(i, S) <=> Byte \in S
  BY <1>1, Here
<1>3. StringEnds[i] = IF Byte = "lead" THEN StringEnds[i + 2] ELSE StringEnds[i + 1]
  <2>1. i < End
    BY <1>2, BodyFacts
  <2> HIDE DEF i
  <2> QED
    BY <1>1, <1>2, <2>1, StringEndsAt
<1>4. ASSUME NEW opens, Reached(pc, stack, opens, role, i)
      PROVE  Reached(pc', stack, opens, role, i + 1)
  <2>1. PICK q \in Places : StringTo(stack, opens, role, q, i)
    BY <1>1, <1>4 DEF Reached
  <2>2. (i + 1) + 1 = i + 2
    BY <1>2, BodyFacts
  <2>3. StringTo(stack, opens, role, q, IF Byte = "lead" THEN (i + 1) + 1 ELSE i + 1)
    BY <1>3, <2>1, <2>2 DEF StringTo
  <2> HIDE DEF i
  <2> QED
    BY <1>1, <2>3 DEF Reached, NumberPcs
<1> QED
  BY <1>1, <1>4, StringKeeps

LEMMA RestOfCharKeeps ==
  ASSUME ParserInv, RestOfChar
  PROVE  ParserInv'
<1>1. Take /\ pc = "char" /\ pc' = "string" /\ stack' = stack /\ role' = role
  BY DEF RestOfChar
<1>2. \A opens : Reached("char", stack, opens, role, total_read + 1) =>
                   Reached("string", stack, opens, role, (total_read + 1) + 1)
  BY DEF Reached, NumberPcs
<1> QED
  BY <1>1, <1>2, StringKeeps

LEMMA UnitKeeps ==
  ASSUME ParserInv, Unit
  PROVE  ParserInv'
<1>1. Take /\ pc = "unit" /\ pc' = "string" /\ stack' = stack /\ role' = role
  BY DEF Unit
<1>2. \A opens : Reached("unit", stack, opens, role, total_read + 1) =>
                   Reached("string", stack, opens, role, (total_read + 1) + 1)
  BY DEF Reached, NumberPcs
<1> QED
  BY <1>1, <1>2, StringKeeps

LEMMA BackslashKeeps ==
  ASSUME ParserInv, Backslash
  PROVE  ParserInv'
<1> DEFINE i == total_read + 1
<1>1. Take /\ pc = "string" /\ Byte = "backslash" /\ pc' = "escape" /\ stack' = stack /\ role' = role
  BY DEF Backslash, string
<1>2. At(i, {"backslash"}) /\ (i + 1) - 1 = i
  BY <1>1, Here
<1>3. ASSUME NEW opens, Reached(pc, stack, opens, role, i)
      PROVE  Reached(pc', stack, opens, role, i + 1)
  <2> HIDE DEF i
  <2> QED
    BY <1>1, <1>2, <1>3 DEF Reached, NumberPcs
<1> QED
  BY <1>1, <1>3, StringKeeps

LEMMA EscapeKeeps ==
  ASSUME ParserInv, Escape
  PROVE  ParserInv'
<1> DEFINE i == total_read + 1
<1>1. /\ Take /\ pc = "escape" /\ stack' = stack /\ role' = role
      /\ pc' = IF Byte = "u" THEN "unit" ELSE IF Byte = "lead" THEN "char" ELSE "string"
  BY DEF Escape, PushChar, string
<1>2. Text /\ i \in Places /\ i + 1 \in Places /\ i \in Nat /\ \A S : At(i, S) <=> Byte \in S
  BY <1>1, Here
<1>3. ASSUME NEW opens, Reached(pc, stack, opens, role, i)
      PROVE  Reached(pc', stack, opens, role, i + 1)
  <2>1. At(i - 1, {"backslash"})
    BY <1>1, <1>3 DEF Reached
  <2>2. PICK q \in Places : StringTo(stack, opens, role, q, i - 1)
    BY <1>1, <1>3 DEF Reached
  <2>3. i - 1 \in Places /\ i - 1 < End /\ (i - 1) + 1 = i /\ (i - 1) + 2 = i + 1 /\ (i - 1) + 3 = (i + 1) + 1
    BY <1>2, <2>1, BodyFacts
  <2>4. ~At(i - 1, {"quote"}) /\ At(i - 1, {"backslash", "lead"})
    BY <2>1 DEF At
  <2>5. StringEnds[i - 1] = IF Byte \in {"u", "lead"} THEN StringEnds[(i + 1) + 1] ELSE StringEnds[i + 1]
    <3>1. StringEnds[i - 1] = IF At((i - 1) + 1, {"u", "lead"}) THEN StringEnds[(i - 1) + 3]
                              ELSE StringEnds[(i - 1) + 2]
      <4> HIDE DEF i
      <4> QED
        BY <1>2, <2>1, <2>3, <2>4, StringEndsAt
    <3> QED
      BY <1>2, <2>3, <3>1
  <2>6. StringTo(stack, opens, role, q, IF Byte \in {"u", "lead"} THEN (i + 1) + 1 ELSE i + 1)
    BY <2>2, <2>5 DEF StringTo
  <2> HIDE DEF i
  <2> QED
    BY <1>1, <2>6 DEF Reached, NumberPcs
<1> QED
  BY <1>1, <1>3, StringKeeps

LEMMA EndStringKeeps ==
  ASSUME ParserInv, EndString
  PROVE  ParserInv'
<1> DEFINE i == total_read + 1
<1>1. /\ Take /\ pc = "string" /\ Byte = "quote" /\ stack' = stack /\ role' = role
      /\ pc' = IF role = "key" THEN "colon" ELSE "after"
  BY DEF EndString
<1>2. /\ Text /\ i \in Places /\ i + 1 \in Places /\ At(i, {"quote"}) /\ Flags(pc, stack)
      /\ role \in {"key", "value"} /\ i \in Nat
  BY <1>1, Here
<1>3. PICK opens : Opened(stack, opens) /\ Reached(pc, stack, opens, role, i)
  BY <1>1, Here
<1>4. PICK q \in Places : StringTo(stack, opens, role, q, i)
  BY <1>1, <1>3 DEF Reached
<1>5. StringEnds[q + 1] = i + 1 /\ i + 1 # 0 /\ At(q, {"quote"})
  <2>1. i < End
    BY <1>2, BodyFacts
  <2>2. StringEnds[i] = i + 1
    <3> HIDE DEF i
    <3> QED
      BY <1>2, <2>1, StringEndsAt
  <2> QED
    BY <1>2, <1>4, <2>2 DEF StringTo
<1>6. Reached(pc', stack, opens, role, i + 1)
  <2>1. CASE role = "key"
    <3>1. KeyAt(stack, opens, q)
      BY <1>4, <2>1 DEF StringTo
    <3> HIDE DEF i
    <3> QED
      BY <1>1, <1>5, <2>1, <3>1 DEF Reached, NumberPcs
  <2>2. CASE role = "value"
    <3>1. Stands(stack, opens, Len(stack), q)
      BY <1>4, <2>2 DEF StringTo
    <3>2. i + 1 \in EndsOf("value", q)
      BY <1>2, <1>5, StringRule
    <3>3. Behind(stack, opens, i + 1)
      BY <3>1, <3>2 DEF Behind
    <3> HIDE DEF i
    <3> QED
      BY <1>1, <2>2, <3>3 DEF Reached, NumberPcs
  <2> QED
    BY <1>2, <2>1, <2>2
<1>7. Flags(pc', stack) /\ pc' \in Readings
  BY <1>1, <1>2 DEF Flags, Readings
<1>8. Parsed(pc', stack', role', total_read' + 1)
  BY <1>1, <1>3, <1>6, <1>7, Here DEF Parsed
<1> QED
  BY <1>1, <1>7, <1>8, Here, Reading

(***************************************************************************)
(* Behind a value.                                                         *)
(***************************************************************************)
LEMMA NextByteKeeps ==
  ASSUME ParserInv, Take, NoneFirst(stack), NEW opens, Opened(stack, opens),
         NEW v \in Places, Stands(stack, opens, Len(stack), v),
         NEW j \in EndsOf("value", v), SkipFrom(j) = total_read + 1, NextByte(Byte)
  PROVE  ParserInv'
<1> DEFINE i == total_read + 1
           n == Len(stack)
<1>1. Text /\ stack \in Stacks /\ \A S : At(i, S) <=> Byte \in S
  BY Here
<1>2. /\ stack = << >> => j \in OuterEnds(Lenient)
      /\ stack # << >> /\ At(SkipFrom(j), {","}) =>
           Parsed(IF stack[n].kind = "object" THEN "key" ELSE "element", stack, role, SkipFrom(j) + 1)
      /\ stack # << >> /\ At(SkipFrom(j), {Closing(stack[n].kind)}) =>
           Front(stack) \in Stacks /\ Parsed("after", Front(stack), role, SkipFrom(j) + 1)
  BY <1>1, NextByteStep
<1>3. role' = role
  BY DEF NextByte
<1>4. CASE stack = << >> /\ pc' = "done" /\ stack' = stack
  <2>1. j \in OuterEnds(Lenient) /\ SkipFrom(j) = total_read'
    BY <1>2, <1>4, Here
  <2> QED
    BY <1>3, <1>4, <2>1, Here, Returning
<1>5. CASE /\ stack # << >> /\ Byte = "," /\ stack' = stack
           /\ pc' = IF Top.kind = "object" THEN "key" ELSE "element"
  <2>1. Parsed(pc', stack', role', total_read' + 1)
    BY <1>1, <1>2, <1>3, <1>5, Here DEF Top, Last
  <2>2. pc' \in Readings
    BY <1>5 DEF Readings
  <2> QED
    BY <1>3, <1>5, <2>1, <2>2, Here, Reading
<1>6. CASE stack # << >> /\ Closes(Byte) /\ pc' = "after" /\ stack' = Front(stack)
  <2>1. Byte = Closing(stack[n].kind)
    BY <1>6 DEF Closes, Closing, Top, Last
  <2>2. stack' \in Stacks /\ Parsed(pc', stack', role', total_read' + 1)
    BY <1>1, <1>2, <1>3, <1>6, <2>1, Here
  <2>3. pc' \in Readings
    BY <1>6 DEF Readings
  <2> QED
    BY <1>3, <2>2, <2>3, Here, Reading
<1>7. CASE pc' = "failed" /\ stack' = stack
  BY <1>3, <1>7, Here, Failing
<1> QED
  BY <1>4, <1>5, <1>6, <1>7 DEF NextByte

LEMMA AfterKeeps ==
  ASSUME ParserInv, After
  PROVE  ParserInv'
<1> DEFINE i == total_read + 1
<1>1. pc \in {"after", "after_number"} /\ Take /\ Byte # Space /\ NextByte(Byte)
  BY DEF After
<1>2. Text /\ i \in Places /\ ~At(i, {Space}) /\ Flags(pc, stack)
  BY <1>1, Here
<1>3. PICK opens : Opened(stack, opens) /\ Reached(pc, stack, opens, role, i)
  BY <1>1, Here
<1>4. PICK v \in Places : /\ Stands(stack, opens, Len(stack), v)
                          /\ \E j \in EndsOf("value", v) : SkipFrom(j) = SkipFrom(i)
  BY <1>1, <1>3 DEF Reached, Behind
<1>5. PICK j \in EndsOf("value", v) : SkipFrom(j) = SkipFrom(i)
  BY <1>4
<1>6. SkipFrom(j) = i
  BY <1>2, <1>5, SkipStep
<1>7. NoneFirst(stack)
  BY <1>1, <1>2 DEF NoneFirst, Flags
<1> QED
  BY <1>1, <1>3, <1>4, <1>5, <1>6, <1>7, NextByteKeeps

(***************************************************************************)
(* Numbers.                                                                *)
(***************************************************************************)
\* What is read of a number is one, but for a lone minus.
LEMMA NumberSoFar ==
  ASSUME Text, NEW v \in Places, NEW i \in Places, NEW p \in NumberPcs \ {"minus"},
         NumberTo(p, v, i)
  PROVE  i \in EndsOf("value", v)
<1>1. v \in Nat /\ i \in Nat /\ Places = 1 .. End /\ End \in Nat /\ At(v, {"-"} \cup Digits)
  BY BodyFacts DEF NumberTo
<1>2. ASSUME NEW int \in Places, NEW point \in Places, NEW e \in Places,
             IntegerTo(v, int, point), FractionTo(point, e), e = i \/ ExponentTo(e, i)
      PROVE  i \in EndsOf("value", v)
  <2>1. int \in {v, v + 1} /\ int < point /\ point <= e /\ int \in Nat /\ point \in Nat /\ e \in Nat
    BY <1>1, <1>2 DEF IntegerTo, FractionTo
  <2>2. e <= i
    <3>1. ASSUME ExponentTo(e, i) PROVE e <= i
      <4>1. PICK digits \in {e + 1, e + 2} : digits <= i
        BY <3>1 DEF ExponentTo
      <4> QED
        BY <1>1, <2>1, <4>1
    <3> QED
      BY <1>1, <1>2, <3>1
  <2>3. point \in v .. i /\ e \in v .. i /\ i \in v + 1 .. End
    BY <1>1, <2>1, <2>2
  <2>4. point = e \/ (At(point, {"."}) /\ AllDigits(point + 1, e) /\ point + 1 + Lenient <= e)
    BY <1>2, <2>1 DEF FractionTo, Lenient
  <2>5. e = i \/ /\ At(e, {"e"})
                 /\ \E digits \in {e + 1, e + 2} :
                      /\ digits = e + 2 => At(e + 1, {"+", "-"})
                      /\ digits + Lenient <= i /\ AllDigits(digits, i)
    <3>1. ASSUME ExponentTo(e, i)
          PROVE  /\ At(e, {"e"})
                 /\ \E digits \in {e + 1, e + 2} :
                      /\ digits = e + 2 => At(e + 1, {"+", "-"})
                      /\ digits + Lenient <= i /\ AllDigits(digits, i)
      <4>1. \A digits \in {e + 1, e + 2} : digits + Lenient = digits
        BY <2>1 DEF Lenient
      <4> QED
        BY <3>1, <4>1 DEF ExponentTo
    <3> QED
      BY <1>2, <3>1
  <2>6. IsNumber(v, i, Lenient)
    <3>1. /\ int = v + 1 => At(v, {"-"})
          /\ int < point /\ AllDigits(int, point) /\ (body[int] = "0" => point = int + 1)
      BY <1>2 DEF IntegerTo
    <3> QED
      BY <2>1, <2>3, <2>4, <2>5, <3>1 DEF IsNumber
  <2> QED
    BY <1>1, <2>3, <2>6, NumberRule
<1>3. \A e \in Places : FractionTo(e, e)
  BY <1>1 DEF FractionTo
<1>4. CASE p \in {"zero", "digits"}
  <2>1. PICK int \in Places : IntegerTo(v, int, i)
    BY <1>4 DEF NumberTo
  <2> QED
    BY <1>2, <1>3, <2>1
<1>5. CASE p = "fraction"
  <2>1. PICK int \in Places, point \in Places :
          IntegerTo(v, int, point) /\ At(point, {"."}) /\ point < i /\ AllDigits(point + 1, i)
    BY <1>5 DEF NumberTo
  <2>2. FractionTo(point, i)
    BY <1>1, <2>1 DEF FractionTo
  <2> QED
    BY <1>2, <2>1, <2>2
<1>6. CASE p = "exponent_sign"
  <2>1. PICK int \in Places, point \in Places :
          IntegerTo(v, int, point) /\ FractionTo(point, i - 1) /\ At(i - 1, {"e"})
    BY <1>6 DEF NumberTo
  <2>2. i - 1 \in Places /\ (i - 1) + 1 = i /\ (i - 1) + 1 # (i - 1) + 2 /\ i <= i
    BY <1>1, <2>1, BodyFacts
  <2>3. AllDigits(i, i)
    BY <1>1 DEF AllDigits
  <2>4. ExponentTo(i - 1, i)
    BY <2>1, <2>2, <2>3 DEF ExponentTo
  <2> QED
    BY <1>2, <2>1, <2>2, <2>4
<1>7. CASE p = "exponent"
  <2>1. PICK int \in Places, point \in Places, e \in Places :
          IntegerTo(v, int, point) /\ FractionTo(point, e) /\ ExponentTo(e, i)
    BY <1>7 DEF NumberTo
  <2> QED
    BY <1>2, <2>1
<1> QED
  BY <1>4, <1>5, <1>6, <1>7 DEF NumberPcs

LEMMA MoreDigits ==
  ASSUME Text, NEW a \in Nat, NEW i \in Places, AllDigits(a, i), At(i, Digits)
  PROVE  AllDigits(a, i + 1)
<1>1. i \in Nat /\ body[i] \in Digits
  BY BodyFacts
<1>2. \A k \in a .. (i + 1) - 1 : k \in a .. i - 1 \/ k = i
  BY <1>1
<1> QED
  BY <1>1, <1>2 DEF AllDigits

\* A number goes on.
LEMMA NumberKeeps ==
  ASSUME ParserInv, Take, pc \in NumberPcs, pc' \in NumberPcs, stack' = stack, role' = role,
         \A v \in Places : NumberTo(pc, v, total_read + 1) => NumberTo(pc', v, (total_read + 1) + 1)
  PROVE  ParserInv'
<1> DEFINE i == total_read + 1
<1>1. PICK opens : Opened(stack, opens) /\ Reached(pc, stack, opens, role, i)
  BY Here
<1>2. PICK v \in Places : Stands(stack, opens, Len(stack), v) /\ NumberTo(pc, v, i)
  BY <1>1 DEF Reached
<1>3. NumberTo(pc', v, i + 1)
  BY <1>2
<1>4. Reached(pc', stack, opens, role, i + 1)
  <2>1. pc' \notin {"first", "key", "element", "member", "after", "after_number", "string", "char",
                    "unit", "escape", "colon", "keyword"}
    BY DEF NumberPcs
  <2> HIDE DEF i
  <2> QED
    BY <1>2, <1>3, <2>1 DEF Reached
<1>5. Flags(pc', stack) /\ pc' \in Readings
  BY Here DEF Flags, Readings, NumberPcs
<1>6. Parsed(pc', stack', role', total_read' + 1)
  BY <1>1, <1>4, <1>5, Here DEF Parsed
<1> QED
  BY <1>5, <1>6, Here, Reading

LEMMA NumberEndsKeeps ==
  ASSUME ParserInv, Take, pc \in NumberPcs \ {"minus"}, NumberEnds(Byte)
  PROVE  ParserInv'
<1> DEFINE i == total_read + 1
<1>1. Text /\ i \in Places /\ i \in Nat /\ Flags(pc, stack) /\ \A S : At(i, S) <=> Byte \in S
  BY Here
<1>2. PICK opens : Opened(stack, opens) /\ Reached(pc, stack, opens, role, i)
  BY Here
<1>3. PICK v \in Places : Stands(stack, opens, Len(stack), v) /\ NumberTo(pc, v, i)
  BY <1>2 DEF Reached
<1>4. i \in EndsOf("value", v)
  <2> HIDE DEF i
  <2> QED
    BY <1>1, <1>3, NumberSoFar
<1>5. NoneFirst(stack)
  BY <1>1 DEF NoneFirst, Flags, NumberPcs
<1>6. CASE Byte = Space
  <2>1. pc' = "after_number" /\ stack' = stack /\ role' = role /\ pc' \in Readings
    BY <1>6 DEF NumberEnds, string, Readings
  <2>2. SkipFrom(i) = SkipFrom(i + 1)
    BY <1>1, <1>6, SkipStep
  <2>3. Behind(stack, opens, i + 1)
    BY <1>3, <1>4, <2>2 DEF Behind
  <2>4. Reached("after_number", stack, opens, role, i + 1)
    BY <2>3 DEF Reached, NumberPcs
  <2>5. Flags("after_number", stack)
    BY <1>5 DEF Flags, NoneFirst
  <2>6. Parsed(pc', stack', role', total_read' + 1)
    BY <1>2, <2>1, <2>4, <2>5, Here DEF Parsed
  <2> QED
    BY <2>1, <2>6, Here, Reading
<1>7. CASE Byte # Space
  <2>1. NextByte(Byte) /\ SkipFrom(i) = i
    BY <1>1, <1>7, SkipStep DEF NumberEnds
  <2> QED
    BY <1>2, <1>3, <1>4, <1>5, <2>1, NextByteKeeps
<1> QED
  BY <1>6, <1>7

LEMMA PostDigitKeeps ==
  ASSUME ParserInv, Take, pc \in {"zero", "digits"}, PostDigit(Byte)
  PROVE  ParserInv'
<1> DEFINE i == total_read + 1
<1>1. /\ Text /\ i \in Places /\ i \in Nat /\ i + 1 \in Places /\ (i + 1) - 1 = i
      /\ \A S : At(i, S) <=> Byte \in S
  BY Here
<1>2. ASSUME NEW v \in Places, NumberTo(pc, v, i)
      PROVE  /\ At(v, {"-"} \cup Digits)
             /\ \E int \in Places : IntegerTo(v, int, i)
  BY <1>2 DEF NumberTo
<1>3. CASE Byte = "." /\ Stays("fraction")
  <2>1. pc' = "fraction" /\ stack' = stack /\ role' = role
    BY <1>3 DEF Stays, string
  <2>2. ASSUME NEW v \in Places, NumberTo(pc, v, i) PROVE NumberTo("fraction", v, i + 1)
    <3>1. At(i, {"."}) /\ i < i + 1 /\ AllDigits(i + 1, i + 1)
      BY <1>1, <1>3 DEF AllDigits
    <3> HIDE DEF i
    <3> QED
      BY <1>1, <1>2, <2>2, <3>1 DEF NumberTo
  <2>3. pc \in NumberPcs /\ pc' \in NumberPcs
    BY <2>1 DEF NumberPcs
  <2> QED
    BY <2>1, <2>2, <2>3, NumberKeeps
<1>4. CASE Byte = "e" /\ Stays("exponent_sign")
  <2>1. pc' = "exponent_sign" /\ stack' = stack /\ role' = role
    BY <1>4 DEF Stays, string
  <2>2. ASSUME NEW v \in Places, NumberTo(pc, v, i) PROVE NumberTo("exponent_sign", v, i + 1)
    <3>1. At(i, {"e"}) /\ FractionTo(i, i)
      BY <1>1, <1>4 DEF FractionTo
    <3> HIDE DEF i
    <3> QED
      BY <1>1, <1>2, <2>2, <3>1 DEF NumberTo
  <2>3. pc \in NumberPcs /\ pc' \in NumberPcs
    BY <2>1 DEF NumberPcs
  <2> QED
    BY <2>1, <2>2, <2>3, NumberKeeps
<1>5. CASE NumberEnds(Byte)
  <2>1. pc \in NumberPcs \ {"minus"}
    BY DEF NumberPcs
  <2> QED
    BY <1>5, <2>1, NumberEndsKeeps
<1> QED
  BY <1>3, <1>4, <1>5 DEF PostDigit

LEMMA NumberGoesOn ==
  ASSUME Text, NEW v \in Places, NEW i \in Places, i + 1 \in Places, NEW p, NumberTo(p, v, i)
  PROVE  /\ p = "minus" /\ At(i, {"0"}) => NumberTo("zero", v, i + 1)
         /\ p = "minus" /\ At(i, Digits \ {"0"}) => NumberTo("digits", v, i + 1)
         /\ p \in {"digits", "fraction", "exponent"} /\ At(i, Digits) => NumberTo(p, v, i + 1)
         /\ p = "fraction" /\ At(i, {"e"}) => NumberTo("exponent_sign", v, i + 1)
         /\ p = "exponent_sign" /\ At(i, Digits \cup {"+", "-"}) => NumberTo("exponent", v, i + 1)
<1>1. /\ v \in Nat /\ i \in Nat /\ (i + 1) - 1 = i /\ i < i + 1 /\ Places \subseteq Nat
      /\ At(v, {"-"} \cup Digits)
  BY BodyFacts DEF NumberTo
<1>2. ASSUME p = "minus", At(i, Digits)
      PROVE  /\ i \in {v, v + 1} /\ i = v + 1 /\ At(v, {"-"}) /\ IntegerTo(v, i, i + 1)
  <2>1. At(v, {"-"}) /\ i = v + 1
    BY <1>2 DEF NumberTo
  <2>2. AllDigits(i, i)
    BY <1>1 DEF AllDigits
  <2>3. AllDigits(i, i + 1)
    BY <1>1, <1>2, <2>2, MoreDigits
  <2> QED
    BY <1>1, <2>1, <2>3 DEF IntegerTo
<1>3. ASSUME p = "minus", At(i, {"0"}) PROVE NumberTo("zero", v, i + 1)
  <2>1. At(i, Digits)
    BY <1>3, BodyFacts DEF Digits
  <2> QED
    BY <1>1, <1>2, <1>3, <2>1 DEF NumberTo
<1>4. ASSUME p = "minus", At(i, Digits \ {"0"}) PROVE NumberTo("digits", v, i + 1)
  <2>1. At(i, Digits) /\ body[i] # "0"
    BY <1>4, BodyFacts
  <2> QED
    BY <1>1, <1>2, <1>4, <2>1 DEF NumberTo
<1>5. ASSUME NEW int \in Places, IntegerTo(v, int, i), body[int] # "0", At(i, Digits)
      PROVE  IntegerTo(v, int, i + 1)
  <2>1. AllDigits(int, i + 1)
    BY <1>1, <1>5, MoreDigits DEF IntegerTo
  <2>2. int < i + 1
    BY <1>1, <1>5 DEF IntegerTo
  <2> QED
    BY <1>5, <2>1, <2>2 DEF IntegerTo
<1>6. ASSUME p = "digits", At(i, Digits) PROVE NumberTo("digits", v, i + 1)
  <2>1. PICK int \in Places : IntegerTo(v, int, i) /\ body[int] # "0"
    BY <1>6 DEF NumberTo
  <2>2. IntegerTo(v, int, i + 1)
    BY <1>5, <1>6, <2>1
  <2> QED
    BY <1>1, <2>1, <2>2 DEF NumberTo
<1>7. ASSUME p = "fraction"
      PROVE  /\ At(i, Digits) => NumberTo("fraction", v, i + 1)
             /\ At(i, {"e"}) => NumberTo("exponent_sign", v, i + 1)
  <2>1. PICK int \in Places, point \in Places :
          IntegerTo(v, int, point) /\ At(point, {"."}) /\ point < i /\ AllDigits(point + 1, i)
    BY <1>7 DEF NumberTo
  <2>2. ASSUME At(i, Digits) PROVE NumberTo("fraction", v, i + 1)
    <3>1. AllDigits(point + 1, i + 1) /\ point < i + 1
      BY <1>1, <2>1, <2>2, MoreDigits
    <3> QED
      BY <1>1, <2>1, <3>1 DEF NumberTo
  <2>3. ASSUME At(i, {"e"}) PROVE NumberTo("exponent_sign", v, i + 1)
    <3>1. FractionTo(point, i)
      BY <1>1, <2>1 DEF FractionTo
    <3> QED
      BY <1>1, <2>1, <2>3, <3>1 DEF NumberTo
  <2> QED
    BY <2>2, <2>3
<1>8. ASSUME p = "exponent_sign", At(i, Digits \cup {"+", "-"}) PROVE NumberTo("exponent", v, i + 1)
  <2>1. PICK int \in Places, point \in Places :
          IntegerTo(v, int, point) /\ FractionTo(point, i - 1) /\ At(i - 1, {"e"})
    BY <1>8 DEF NumberTo
  <2> DEFINE e == i - 1
  <2>2. e \in Places /\ e + 1 = i /\ e + 2 = i + 1 /\ e + 1 # e + 2 /\ At(e, {"e"})
    BY <1>1, <2>1, BodyFacts
  <2>3. CASE At(i, Digits)
    <3>1. AllDigits(i, i)
      BY <1>1 DEF AllDigits
    <3>2. AllDigits(i, i + 1)
      BY <1>1, <2>3, <3>1, MoreDigits
    <3> HIDE DEF e
    <3>3. ExponentTo(e, i + 1)
      <4>1. e + 1 <= i + 1 /\ AllDigits(e + 1, i + 1)
        BY <1>1, <2>2, <3>2
      <4> QED
        BY <2>2, <4>1 DEF ExponentTo
    <3>4. FractionTo(point, e)
      BY <2>1 DEF e
    <3> QED
      BY <1>1, <2>1, <2>2, <3>3, <3>4 DEF NumberTo
  <2>4. CASE At(i, {"+", "-"})
    <3>1. AllDigits(i + 1, i + 1)
      BY <1>1 DEF AllDigits
    <3> HIDE DEF e
    <3>2. ExponentTo(e, i + 1)
      <4>1. e + 2 <= i + 1 /\ AllDigits(e + 2, i + 1) /\ At(e + 1, {"+", "-"})
        BY <1>1, <2>2, <2>4, <3>1
      <4> QED
        BY <2>2, <4>1 DEF ExponentTo
    <3>3. FractionTo(point, e)
      BY <2>1 DEF e
    <3> QED
      BY <1>1, <2>1, <2>2, <3>2, <3>3 DEF NumberTo
  <2>5. At(i, Digits) \/ At(i, {"+", "-"})
    BY <1>8, BodyFacts
  <2> QED
    BY <2>3, <2>4, <2>5
<1>9. ASSUME p = "exponent", At(i, Digits) PROVE NumberTo("exponent", v, i + 1)
  <2>1. PICK int \in Places, point \in Places, e \in Places :
          IntegerTo(v, int, point) /\ FractionTo(point, e) /\ ExponentTo(e, i)
    BY <1>9 DEF NumberTo
  <2>2. PICK digits \in {e + 1, e + 2} :
          /\ digits = e + 2 => At(e + 1, {"+", "-"})
          /\ digits <= i /\ AllDigits(digits, i)
    BY <2>1 DEF ExponentTo
  <2>3. AllDigits(digits, i + 1) /\ digits <= i + 1
    <3>1. digits \in Nat
      BY <1>1
    <3> QED
      BY <1>1, <1>9, <2>2, <3>1, MoreDigits
  <2>4. ExponentTo(e, i + 1)
    BY <2>1, <2>2, <2>3 DEF ExponentTo
  <2> QED
    BY <1>1, <2>1, <2>4 DEF NumberTo
<1> QED
  BY <1>3, <1>4, <1>6, <1>7, <1>8, <1>9

LEMMA ReadNumberKeeps ==
  ASSUME ParserInv, ReadNumber
  PROVE  ParserInv'
<1> DEFINE i == total_read + 1
<1>1. Take /\ pc \in NumberPcs /\ Number
  BY DEF ReadNumber, Number
<1>2. Text /\ i \in Places /\ i + 1 \in Places /\ \A S : At(i, S) <=> Byte \in S
  BY <1>1, Here
<1>3. ASSUME NEW p \in NumberPcs, Stays(p),
             \A v \in Places : NumberTo(pc, v, i) => NumberTo(p, v, i + 1)
      PROVE  ParserInv'
  <2>1. pc' = p /\ stack' = stack /\ role' = role
    BY <1>3 DEF Stays, string
  <2> QED
    BY <1>1, <1>3, <2>1, NumberKeeps
<1>4. ASSUME NEW v \in Places, NumberTo(pc, v, i)
      PROVE  /\ pc = "minus" /\ At(i, {"0"}) => NumberTo("zero", v, i + 1)
             /\ pc = "minus" /\ At(i, Digits \ {"0"}) => NumberTo("digits", v, i + 1)
             /\ pc \in {"digits", "fraction", "exponent"} /\ At(i, Digits) => NumberTo(pc, v, i + 1)
             /\ pc = "fraction" /\ At(i, {"e"}) => NumberTo("exponent_sign", v, i + 1)
             /\ pc = "exponent_sign" /\ At(i, Digits \cup {"+", "-"}) => NumberTo("exponent", v, i + 1)
  <2> HIDE DEF i
  <2> QED
    BY <1>2, <1>4, NumberGoesOn
<1>5. {"zero", "digits", "fraction", "exponent_sign", "exponent"} \subseteq NumberPcs
  BY DEF NumberPcs
<1> HIDE DEF i
<1>6. CASE pc = "minus" /\ Byte = "0" /\ Stays("zero")
  BY <1>2, <1>3, <1>4, <1>5, <1>6
<1>7. CASE pc = "minus" /\ Byte \in Digits \ {"0"} /\ Stays("digits")
  BY <1>2, <1>3, <1>4, <1>5, <1>7
<1>8. CASE pc = "minus" /\ Fail
  BY <1>1, <1>8, FailKeeps
<1>9. CASE pc \in {"zero", "digits"} /\ PostDigit(Byte)
  BY <1>1, <1>9, PostDigitKeeps
<1>10. CASE pc \in {"digits", "fraction", "exponent"} /\ Byte \in Digits /\ Stays(pc)
  BY <1>1, <1>2, <1>3, <1>4, <1>10
<1>11. CASE pc = "fraction" /\ Byte = "e" /\ Stays("exponent_sign")
  BY <1>2, <1>3, <1>4, <1>5, <1>11
<1>12. CASE pc = "exponent_sign" /\ Byte \in Digits \cup {"+", "-"} /\ Stays("exponent")
  BY <1>2, <1>3, <1>4, <1>5, <1>12
<1>13. CASE pc \in {"fraction", "exponent", "exponent_sign"} /\ NumberEnds(Byte)
  <2>1. pc \in NumberPcs \ {"minus"}
    BY <1>13 DEF NumberPcs
  <2> QED
    BY <1>1, <1>13, <2>1, NumberEndsKeeps
<1> QED
  BY <1>1, <1>6, <1>7, <1>8, <1>9, <1>10, <1>11, <1>12, <1>13 DEF Number

(***************************************************************************)
(* The end of the body.                                                    *)
(***************************************************************************)
LEMMA EofKeeps ==
  ASSUME ParserInv, Eof
  PROVE  ParserInv'
<1> DEFINE i == total_read + 1
<1>1. /\ body' = body /\ total_read' = total_read /\ stack' = stack /\ role' = role
      /\ pc' = (IF EofAllowed THEN "done" ELSE "failed") /\ pc \notin {"done", "failed"}
      /\ total_read = Len(body)
  BY DEF Eof, string
<1>2. ParserTypes /\ Parsed(pc, stack, role, i)
  BY DEF ParserInv, Parsing
<1>3. /\ Text /\ stack \in Stacks /\ role \in {"key", "value"} /\ pc \in Readings
      /\ total_read' \in 0 .. Len(body)
  BY <1>1, <1>2 DEF ParserTypes
<1>4. CASE ~EofAllowed
  BY <1>1, <1>2, <1>3, <1>4, Failing
<1>5. CASE EofAllowed
  <2>1. stack = << >> /\ Len(stack) = 0 /\ (pc = "after" \/ pc \in NumberPcs \ {"minus"})
    BY <1>3, <1>5, StackFacts DEF EofAllowed
  <2>2. PICK opens : Reached(pc, stack, opens, role, i)
    BY <1>2, <1>3 DEF Parsed
  <2>3. i = End /\ i \in Places /\ SkipFrom(i) = End
    <3>1. i = End /\ i \in Places
      BY <1>1, <1>3, BodyFacts
    <3>2. ~At(i, {Space})
      BY <1>3, <3>1, BodyFacts
    <3> QED
      BY <1>3, <3>1, <3>2, SkipStep
  <2>4. \E v \in Places : /\ Stands(stack, opens, 0, v)
                          /\ \E j \in EndsOf("value", v) : SkipFrom(j) = End
    <3>1. CASE pc = "after"
      BY <2>1, <2>2, <2>3, <3>1 DEF Reached, Behind
    <3>2. CASE pc \in NumberPcs \ {"minus"}
      <4>1. PICK v \in Places : Stands(stack, opens, Len(stack), v) /\ NumberTo(pc, v, i)
        BY <2>2, <3>2 DEF Reached
      <4>2. i \in EndsOf("value", v)
        <5> HIDE DEF i
        <5> QED
          BY <1>3, <2>3, <3>2, <4>1, NumberSoFar
      <4> QED
        BY <2>1, <2>3, <4>1, <4>2
    <3> QED
      BY <2>1, <3>1, <3>2
  <2>5. PICK v \in Places : /\ Stands(stack, opens, 0, v)
                            /\ \E j \in EndsOf("value", v) : SkipFrom(j) = End
    BY <2>4
  <2>6. PICK j \in EndsOf("value", v) : SkipFrom(j) = End
    BY <2>5
  <2>7. j \in OuterEnds(Lenient)
    <3>1. v = SkipFrom(1) /\ v < End
      BY <2>5 DEF Stands
    <3>2. SkipFrom(1) # End
      BY <1>3, <3>1, BodyFacts
    <3> QED
      BY <3>1, <3>2 DEF OuterEnds, EndsOf
  <2> QED
    BY <1>1, <1>2, <1>3, <1>5, <2>6, <2>7, Returning
<1> QED
  BY <1>4, <1>5

LEMMA ParserInit ==
  ASSUME Init
  PROVE  ParserInv
<1>1. ParserTypes
  <2>1. Text
    BY BodiesAssumption DEF Init, Text
  <2>2. total_read \in 0 .. Len(body)
    BY <2>1, BodyFacts DEF Init
  <2>3. stack \in Stacks
    BY EmptySeq DEF Init, Stacks
  <2> QED
    BY <2>1, <2>2, <2>3 DEF ParserTypes, Init, Readings
<1>2. Parsed("first", << >>, role, 1)
  <2> DEFINE opens == [k \in {} |-> 0]
  <2>1. Len(<< >>) = 0 /\ 1 .. 0 = {}
    BY EmptySeq
  <2>2. Opened(<< >>, opens)
    BY <2>1 DEF Opened
  <2>3. Flags("first", << >>)
    BY <2>1 DEF Flags
  <2>4. Reached("first", << >>, opens, role, 1)
    BY DEF Reached, NumberPcs
  <2> HIDE DEF opens
  <2> QED
    BY <2>2, <2>3, <2>4 DEF Parsed
<1>3. pc = "first" /\ stack = << >> /\ total_read + 1 = 1
  BY DEF Init
<1> QED
  BY <1>1, <1>2, <1>3 DEF ParserInv, Parsing, AcceptsOnlyValues

LEMMA ParserStep ==
  ASSUME ParserInv, [Next]_vars
  PROVE  ParserInv'
<1>1. CASE UNCHANGED vars
  <2>1. ParserTypes /\ Parsed(pc, stack, role, total_read + 1)
    BY DEF ParserInv, Parsing
  <2>2. /\ body' = body /\ total_read' = total_read /\ pc' = pc /\ stack' = stack /\ role' = role
    BY <1>1 DEF vars, string
  <2>3. Parsed(pc', stack', role', total_read' + 1)
    BY <2>1, <2>2
  <2>4. CASE pc \in Readings
    BY <2>1, <2>2, <2>3, <2>4, Reading DEF ParserTypes
  <2>5. CASE pc = "failed"
    BY <2>1, <2>2, <2>5, Failing DEF ParserTypes
  <2>6. CASE pc = "done"
    <3>1. PICK j \in OuterEnds(Lenient) : \/ total_read = Len(body) /\ SkipFrom(j) = End
                                          \/ SkipFrom(j) = total_read
      BY <2>6 DEF ParserInv, AcceptsOnlyValues
    <3> QED
      BY <2>1, <2>2, <2>6, <3>1, Returning DEF ParserTypes
  <2> QED
    BY <2>1, <2>4, <2>5, <2>6 DEF ParserTypes
<1>2. CASE Next
  BY <1>2, SkipSpaceKeeps, AfterKeeps, EofKeeps, BeginObjectKeeps, BeginArrayKeeps,
     EndEmptyArrayKeeps, BeginStringKeeps, BeginNumberKeeps, BeginKeywordKeeps,
     UnexpectedValueKeeps, KeywordKeeps, KeyKeeps, ColonKeeps, StringCharKeeps, RestOfCharKeeps,
     BackslashKeeps, EscapeKeeps, UnitKeeps, EndStringKeeps, ReadNumberKeeps DEF Next
<1> QED
  BY <1>1, <1>2

\* What the parser takes as a body is a value of JSON from its first byte to its last
\* (but for the digits of numbers), however it is nested: no object or array that is
\* cut short, no comma too many (parse.rs 257-316).
THEOREM AcceptsOnlyValuesHolds == Spec => []AcceptsOnlyValues
<1>1. ParserInv => AcceptsOnlyValues
  BY DEF ParserInv
<1> QED
  BY <1>1, ParserInit, ParserStep, PTL DEF Spec

(***************************************************************************)
(* What is JSON is accepted.  The invariant looks forward: of each open    *)
(* object or array a place is known behind its bracket (closes), up to     *)
(* which the rest of the body is as the grammar has it.  So is what is     *)
(* left of what is being read.                                             *)
(***************************************************************************)
StrictEnds(thing, i) == Ends(Strict)[<<thing, i>>]

\* A list ends at j, and the place behind its bracket is c.
ListEndsAt(kind, c, j) == At(SkipFrom(j), {Closing(kind)}) /\ SkipFrom(j) + 1 = c

\* A list from i on ends so.
ListTo(kind, c, i) == \E j \in StrictEnds(List(kind), i) : ListEndsAt(kind, c, j)

\* A value in the first d of the open objects and arrays may end at j.
MayEnd(st, closes, d, j) ==
  IF d = 0 THEN SkipFrom(j) = End
  ELSE \/ ListEndsAt(st[d].kind, closes[d], j)
       \/ At(SkipFrom(j), {","}) /\ ListTo(st[d].kind, closes[d], SkipFrom(j) + 1)

Planned(st, closes) ==
  /\ closes \in [1 .. Len(st) -> Places]
  /\ \A k \in 1 .. Len(st) : MayEnd(st, closes, k - 1, closes[k])

\* What comes at i, or behind white space there: a value, a list, the rest of a member.
ValueDue(st, closes, i) ==
  /\ SkipFrom(i) < End
  /\ \E j \in StrictEnds("value", SkipFrom(i)) : MayEnd(st, closes, Len(st), j)

ListDue(st, closes, kind, i) ==
  /\ st # << >> /\ st[Len(st)].kind = kind
  /\ \/ ListTo(kind, closes[Len(st)], i)
     \/ st[Len(st)].first /\ ListEndsAt(kind, closes[Len(st)], i)

ColonDue(st, closes, i) == At(SkipFrom(i), {":"}) /\ ValueDue(st, closes, SkipFrom(i) + 1)

\* The rest of a string, with what comes behind it.
StringDue(st, closes, rl, i) ==
  /\ StringEnds[i] # 0
  /\ rl = "key" => ColonDue(st, closes, StringEnds[i])
  /\ rl = "value" => MayEnd(st, closes, Len(st), StringEnds[i])

\* The rest of a number from i to before j.
ExponentLeft(i, j) ==
  \E digits \in {i, i + 1} : /\ digits = i + 1 => At(i, {"+", "-"})
                             /\ digits + 1 <= j /\ AllDigits(digits, j)

ExponentPart(e, j) == e = j \/ (At(e, {"e"}) /\ ExponentLeft(e + 1, j))

FractionPart(point, j) ==
  \E e \in point .. j : /\ \/ point = e
                           \/ At(point, {"."}) /\ AllDigits(point + 1, e) /\ point + 2 <= e
                        /\ ExponentPart(e, j)

NumberLeft(p, i, j) ==
  /\ i <= j
  /\ p = "minus" => \E point \in i + 1 .. j : /\ AllDigits(i, point) /\ FractionPart(point, j)
                                              /\ body[i] = "0" => point = i + 1
  /\ p = "zero" => FractionPart(i, j)
  /\ p = "digits" => \E point \in i .. j : AllDigits(i, point) /\ FractionPart(point, j)
  /\ p = "fraction" => \E e \in i .. j : AllDigits(i, e) /\ ExponentPart(e, j)
  /\ p = "exponent_sign" => ExponentLeft(i, j)
  /\ p = "exponent" => AllDigits(i, j)

NumberDue(p, st, closes, i) ==
  \E j \in Places : NumberLeft(p, i, j) /\ MayEnd(st, closes, Len(st), j)

\* What is left of the body from i on, for each pc.
Left(p, st, closes, rl, i) ==
  /\ p = "first" => st = << >> /\ ValueDue(st, closes, i)
  /\ p = "key" => ListDue(st, closes, "object", i)
  /\ p = "element" => ListDue(st, closes, "array", i)
  /\ p = "member" => ValueDue(st, closes, i)
  /\ p \in {"after", "after_number"} => MayEnd(st, closes, Len(st), i)
  /\ p = "string" => StringDue(st, closes, rl, i)
  /\ p \in {"char", "unit"} => StringDue(st, closes, rl, i + 1)
  /\ p = "escape" => At(i - 1, {"backslash"}) /\ StringDue(st, closes, rl, i - 1)
  /\ p = "colon" => ColonDue(st, closes, i)
  /\ p = "keyword" => At(i, {"rue"}) /\ MayEnd(st, closes, Len(st), i + 1)
  /\ p \in NumberPcs => NumberDue(p, st, closes, i)
  /\ p = "after_number" =>
       At(i - 1, {Space}) /\ (st = << >> => At(SkipFrom(1), {"-"} \cup Digits))

Ahead(p, st, rl, i) ==
  p \in Readings => \E closes : Planned(st, closes) /\ Left(p, st, closes, rl, i)

Awaiting ==
  \E p, st, rl, i : /\ p = pc /\ st = stack /\ rl = role /\ i = total_read + 1
                    /\ Ahead(p, st, rl, i)

AcceptInv ==
  /\ ParserInv
  /\ IsJson => /\ pc = "failed" => NumberThenSpace
               /\ pc = "done" => total_read = Len(body)
               /\ Awaiting

(***************************************************************************)
(* The grammar, in the other direction.                                    *)
(***************************************************************************)
LEMMA StrictRule ==
  ASSUME Text, NEW i \in Places
  PROVE  /\ StrictEnds("value", i) = ValueEnds(Ends(Strict), i, Strict)
         /\ \A list \in Lists : StrictEnds(list, i) = ListEnds(Ends(Strict), list, i)
BY EndsRule DEF StrictEnds

LEMMA StrictType ==
  ASSUME Text, NEW thing \in {"value", "values", "members"}, NEW i \in Places
  PROVE  StrictEnds(thing, i) \subseteq i + 1 .. End /\ StrictEnds(thing, i) \subseteq Places
BY EndsType DEF StrictEnds

\* White space in front of a list is no part of it.
LEMMA ListToSkips ==
  ASSUME Text, NEW i \in Places, NEW j \in Places, NEW kind \in Kinds, SkipFrom(i) = SkipFrom(j),
         NEW c
  PROVE  ListTo(kind, c, i) <=> ListTo(kind, c, j)
<1>1. FirstValue(List(kind), i) = FirstValue(List(kind), j)
  BY FirstValueSkips
<1>2. List(kind) \in Lists
  BY ListKind
<1>3. StrictEnds(List(kind), i) = StrictEnds(List(kind), j)
  BY <1>1, <1>2, StrictRule DEF ListEnds
<1> QED
  BY <1>3 DEF ListTo

\* A list begins with a value, behind which it ends or goes on with a comma.
LEMMA ListBegins ==
  ASSUME Text, NEW st \in Stacks, st # << >>, NEW closes, NEW i \in Places,
         ListTo(st[Len(st)].kind, closes[Len(st)], i)
  PROVE  /\ FirstValue(List(st[Len(st)].kind), i) < End
         /\ \E j \in StrictEnds("value", FirstValue(List(st[Len(st)].kind), i)) :
              MayEnd(st, closes, Len(st), j)
<1> DEFINE n == Len(st)
           kind == st[n].kind
           list == List(kind)
           v == FirstValue(list, i)
           one == IF v < End THEN StrictEnds("value", v) ELSE {}
<1>1. n # 0 /\ n \in 1 .. n /\ kind \in Kinds /\ list \in Lists
  BY StackFacts, ListKind
<1>2. PICK l \in StrictEnds(list, i) : ListEndsAt(kind, closes[n], l)
  BY DEF ListTo
<1>3. StrictEnds(list, i) =
        one \cup UNION {StrictEnds(list, SkipFrom(k) + 1) : k \in {k \in one : At(SkipFrom(k), {","})}}
  BY <1>1, StrictRule DEF ListEnds, StrictEnds
<1> HIDE DEF list, v
<1>4. \E j \in one : MayEnd(st, closes, n, j)
  <2>1. CASE l \in one
    BY <1>1, <1>2, <2>1 DEF MayEnd
  <2>2. CASE l \notin one
    <3>1. PICK j \in one : At(SkipFrom(j), {","}) /\ l \in StrictEnds(list, SkipFrom(j) + 1)
      <4> HIDE DEF one
      <4> QED
        BY <1>2, <1>3, <2>2
    <3>2. ListTo(kind, closes[n], SkipFrom(j) + 1)
      BY <1>2, <3>1 DEF ListTo, list
    <3> QED
      BY <1>1, <3>1, <3>2 DEF MayEnd
  <2> QED
    BY <2>1, <2>2
<1> QED
  BY <1>4 DEF v, list

LEMMA FirstOfMembers ==
  ASSUME Text, NEW i \in Places, FirstValue("members", i) < End
  PROVE  /\ At(SkipFrom(i), {"quote"}) /\ StringEnds[SkipFrom(i) + 1] # 0
         /\ At(SkipFrom(StringEnds[SkipFrom(i) + 1]), {":"})
         /\ FirstValue("members", i) = SkipFrom(SkipFrom(StringEnds[SkipFrom(i) + 1]) + 1)
<1> DEFINE key == SkipFrom(i)
           found == At(key, {"quote"}) /\ StringEnds[key + 1] # 0
           colon == IF found THEN SkipFrom(StringEnds[key + 1]) ELSE End
<1>1. FirstValue("members", i) = IF At(colon, {":"}) THEN SkipFrom(colon + 1) ELSE End
  BY DEF FirstValue
<1>2. At(colon, {":"})
  <2> HIDE DEF colon
  <2> QED
    BY <1>1, BodyFacts
<1>3. ~At(End, {":"})
  BY BodyFacts
<1>4. found
  <2> HIDE DEF found
  <2> QED
    BY <1>2, <1>3
<1>5. colon = SkipFrom(StringEnds[key + 1])
  BY <1>4
<1> HIDE DEF colon
<1> QED
  BY <1>1, <1>2, <1>4, <1>5

\* A value is of one of these forms.
LEMMA ValueForms ==
  ASSUME Text, NEW i \in Places, NEW j \in StrictEnds("value", i)
  PROVE  \/ At(i, {"-"} \cup Digits) /\ IsNumber(i, j, Strict)
         \/ At(i, {"t"}) /\ At(i + 1, {"rue"}) /\ j = i + 2
         \/ At(i, {"quote"}) /\ j = StringEnds[i + 1] /\ j # 0
         \/ \E kind \in Kinds :
              /\ At(i, {Opening(kind)})
              /\ ListEndsAt(kind, j, i + 1) \/ ListTo(kind, j, i + 1)
<1>1. j \in ValueEnds(Ends(Strict), i, Strict)
  BY StrictRule
<1>2. CASE At(i, {"-"} \cup Digits)
  BY <1>1, <1>2 DEF ValueEnds
<1>3. CASE ~At(i, {"-"} \cup Digits) /\ At(i, {"t"}) /\ At(i + 1, {"rue"})
  BY <1>1, <1>3 DEF ValueEnds
<1>4. CASE ~At(i, {"-"} \cup Digits) /\ ~(At(i, {"t"}) /\ At(i + 1, {"rue"})) /\ At(i, {"quote"})
  BY <1>1, <1>4 DEF ValueEnds
<1>5. CASE /\ ~At(i, {"-"} \cup Digits) /\ ~(At(i, {"t"}) /\ At(i + 1, {"rue"}))
           /\ ~At(i, {"quote"})
  <2>1. \E kind \in Kinds : /\ At(i, {Opening(kind)})
                            /\ j \in Closed(Ends(Strict), List(kind), i, Closing(kind))
    <3>1. CASE At(i, {"["})
      BY <1>1, <1>5, <3>1 DEF ValueEnds, Kinds, Opening, Closing, List
    <3>2. CASE ~At(i, {"["})
      BY <1>1, <1>5, <3>2 DEF ValueEnds, Kinds, Opening, Closing, List
    <3> QED
      BY <3>1, <3>2
  <2>2. PICK kind \in Kinds : /\ At(i, {Opening(kind)})
                              /\ j \in Closed(Ends(Strict), List(kind), i, Closing(kind))
    BY <2>1
  <2>3. PICK l \in {i + 1} \cup StrictEnds(List(kind), i + 1) :
          At(SkipFrom(l), {Closing(kind)}) /\ j = SkipFrom(l) + 1
    BY <2>2 DEF Closed, StrictEnds
  <2>4. ListEndsAt(kind, j, i + 1) \/ ListTo(kind, j, i + 1)
    BY <2>3 DEF ListEndsAt, ListTo
  <2> QED
    BY <2>2, <2>4
<1> QED
  BY <1>2, <1>3, <1>4, <1>5

(***************************************************************************)
(* The stack.                                                              *)
(***************************************************************************)
LEMMA SamePlan ==
  ASSUME NEW st \in Stacks, NEW st1 \in Stacks, Len(st1) = Len(st),
         \A k \in 1 .. Len(st) : st1[k].kind = st[k].kind, NEW closes
  PROVE  /\ \A d \in 0 .. Len(st) : \A j : MayEnd(st1, closes, d, j) <=> MayEnd(st, closes, d, j)
         /\ Planned(st1, closes) <=> Planned(st, closes)
<1>1. \A d \in 0 .. Len(st) : \A j : MayEnd(st1, closes, d, j) <=> MayEnd(st, closes, d, j)
  <2>1. \A d \in 0 .. Len(st) : d = 0 \/ d \in 1 .. Len(st)
    BY StackFacts
  <2> QED
    BY <2>1 DEF MayEnd
<1>2. \A k \in 1 .. Len(st) : k - 1 \in 0 .. Len(st)
  BY StackFacts
<1> QED
  BY <1>1, <1>2 DEF Planned

\* Behind an opening bracket.
LEMMA PushPlan ==
  ASSUME Text, NEW st \in Stacks, NEW closes, Planned(st, closes), NEW kind \in Kinds,
         NEW i, NEW c \in Places, MayEnd(st, closes, Len(st), c),
         ListEndsAt(kind, c, i) \/ ListTo(kind, c, i), NEW rl
  PROVE  Ahead(IF kind = "object" THEN "key" ELSE "element",
               Append(st, [kind |-> kind, first |-> TRUE]), rl, i)
<1> DEFINE S == [kind : {"object", "array"}, first : BOOLEAN]
           n == Len(st)
           t == [kind |-> kind, first |-> TRUE]
           st1 == Append(st, t)
           closes1 == [k \in 1 .. n + 1 |-> IF k = n + 1 THEN c ELSE closes[k]]
           p == IF kind = "object" THEN "key" ELSE "element"
<1>1. n \in Nat /\ closes \in [1 .. n -> Places]
  BY StackFacts DEF Planned
<1>2. t \in S /\ t.kind = kind /\ t.first = TRUE
  BY DEF Kinds
<1> HIDE DEF t, n
<1>3. /\ st1 \in Seq(S) /\ st1 # << >> /\ Len(st1) = n + 1
      /\ \A k \in 1 .. n : st1[k] = st[k]
      /\ st1[n + 1] = t
  <2> HIDE DEF S, t
  <2> QED
    BY <1>2, AppendProperties DEF Stacks, S, n
<1>4. \A k \in 1 .. n + 1 : closes1[k] = IF k = n + 1 THEN c ELSE closes[k]
  OBVIOUS
<1>5. closes1 \in [1 .. n + 1 -> Places]
  <2>1. \A k \in 1 .. n + 1 : k = n + 1 \/ k \in 1 .. n
    BY <1>1
  <2> QED
    BY <1>1, <2>1
<1> HIDE DEF st1, closes1, S
<1>6. ASSUME NEW d \in 0 .. n, NEW j PROVE MayEnd(st1, closes1, d, j) <=> MayEnd(st, closes, d, j)
  <2>1. d = 0 \/ (d \in 1 .. n /\ d \in 1 .. n + 1 /\ d # n + 1)
    BY <1>1
  <2>2. d = 0 \/ (st1[d] = st[d] /\ closes1[d] = closes[d])
    BY <1>3, <1>4, <2>1
  <2> QED
    BY <2>2 DEF MayEnd
<1>7. ASSUME NEW k \in 1 .. n + 1 PROVE MayEnd(st1, closes1, k - 1, closes1[k])
  <2>1. CASE k = n + 1
    <3>1. closes1[k] = c /\ k - 1 = n /\ n \in 0 .. n
      BY <1>1, <1>4, <2>1
    <3> QED
      BY <1>6, <3>1 DEF n
  <2>2. CASE k # n + 1
    <3>1. k \in 1 .. n /\ k - 1 \in 0 .. n
      BY <1>1, <2>2
    <3>2. closes1[k] = closes[k] /\ MayEnd(st, closes, k - 1, closes[k])
      BY <1>4, <2>2, <3>1 DEF Planned, n
    <3> QED
      BY <1>6, <3>1, <3>2
  <2> QED
    BY <2>1, <2>2
<1>8. Planned(st1, closes1)
  BY <1>3, <1>5, <1>7 DEF Planned
<1>9. ListDue(st1, closes1, kind, i)
  <2>1. closes1[Len(st1)] = c /\ st1[Len(st1)] = t
    BY <1>1, <1>3, <1>4
  <2> QED
    BY <1>2, <1>3, <2>1 DEF ListDue
<1>10. Left(p, st1, closes1, rl, i)
  <2>1. (p = "key" /\ kind = "object") \/ (p = "element" /\ kind = "array")
    BY DEF Kinds
  <2> HIDE DEF p
  <2> QED
    BY <1>9, <2>1 DEF Left, NumberPcs
<1>11. Ahead(p, st1, rl, i)
  BY <1>8, <1>10 DEF Ahead
<1> QED
  BY <1>11 DEF st1, t

\* Behind a closing bracket.
LEMMA PopPlan ==
  ASSUME NEW st \in Stacks, st # << >>, NEW closes, Planned(st, closes), NEW rl
  PROVE  Ahead("after", Front(st), rl, closes[Len(st)])
<1> DEFINE n == Len(st)
           st1 == Front(st)
           closes1 == [k \in 1 .. n - 1 |-> closes[k]]
<1>1. n \in Nat /\ n >= 1 /\ n \in 1 .. n /\ closes \in [1 .. n -> Places]
  BY StackFacts DEF Planned
<1>2. st1 \in Stacks /\ Len(st1) = n - 1 /\ \A k \in 1 .. n - 1 : st1[k] = st[k]
  BY FrontFacts
<1>3. closes1 \in [1 .. n - 1 -> Places] /\ \A k \in 1 .. n - 1 : closes1[k] = closes[k]
  BY <1>1
<1> HIDE DEF st1, closes1
<1>4. ASSUME NEW d \in 0 .. n - 1, NEW j
      PROVE  MayEnd(st1, closes1, d, j) <=> MayEnd(st, closes, d, j)
  <2>1. d = 0 \/ d \in 1 .. n - 1
    BY <1>1
  <2> QED
    BY <1>2, <1>3, <2>1 DEF MayEnd
<1>5. Planned(st1, closes1)
  <2> SUFFICES ASSUME NEW k \in 1 .. n - 1 PROVE MayEnd(st1, closes1, k - 1, closes1[k])
    BY <1>2, <1>3 DEF Planned
  <2>1. k \in 1 .. n /\ k - 1 \in 0 .. n - 1
    BY <1>1
  <2>2. MayEnd(st, closes, k - 1, closes[k])
    BY <2>1 DEF Planned
  <2> QED
    BY <1>3, <1>4, <2>1, <2>2
<1>6. MayEnd(st1, closes1, Len(st1), closes[n])
  <2>1. n - 1 \in 0 .. n - 1
    BY <1>1
  <2> QED
    BY <1>1, <1>2, <1>4, <2>1 DEF Planned
<1>7. Left("after", st1, closes1, rl, closes[n])
  BY <1>6 DEF Left, NumberPcs
<1> QED
  BY <1>5, <1>7 DEF Ahead, st1

\* The byte behind a value.
LEMMA NextBytePlan ==
  ASSUME Text, NEW st \in Stacks, NEW closes, Planned(st, closes), NEW i \in Places, i < End,
         SkipFrom(i) = i, MayEnd(st, closes, Len(st), i), NEW rl
  PROVE  /\ st # << >>
         /\ \/ /\ At(i, {","})
               /\ Ahead(IF st[Len(st)].kind = "object" THEN "key" ELSE "element", st, rl, i + 1)
            \/ At(i, {Closing(st[Len(st)].kind)}) /\ Ahead("after", Front(st), rl, i + 1)
<1> DEFINE n == Len(st)
           kind == st[n].kind
<1>1. n # 0 /\ st # << >> /\ kind \in Kinds
  <2>1. i # End
    BY BodyFacts
  <2>2. n # 0
    BY <2>1 DEF MayEnd
  <2>3. st # << >> /\ n \in 1 .. n
    BY <2>2, StackFacts
  <2> QED
    BY <2>2, <2>3, StackFacts
<1>2. CASE ListEndsAt(kind, closes[n], i)
  <2>1. At(i, {Closing(kind)}) /\ closes[n] = i + 1
    BY <1>2 DEF ListEndsAt
  <2> QED
    BY <1>1, <2>1, PopPlan
<1>3. CASE At(i, {","}) /\ ListTo(kind, closes[n], i + 1)
  <2> DEFINE p == IF kind = "object" THEN "key" ELSE "element"
  <2>1. ListDue(st, closes, kind, i + 1)
    BY <1>1, <1>3 DEF ListDue
  <2>2. (p = "key" /\ kind = "object") \/ (p = "element" /\ kind = "array")
    BY <1>1 DEF Kinds
  <2> HIDE DEF p, kind
  <2>3. Left(p, st, closes, rl, i + 1)
    BY <2>1, <2>2 DEF Left, NumberPcs
  <2>4. Ahead(p, st, rl, i + 1)
    BY <2>3 DEF Ahead
  <2> QED
    BY <1>1, <1>3, <2>4 DEF p, kind
<1> QED
  BY <1>1, <1>2, <1>3 DEF MayEnd

(***************************************************************************)
(* From one step to the next.                                              *)
(***************************************************************************)
LEMMA SameStrict ==
  ASSUME body' = body
  PROVE  /\ Ends(Strict)' = Ends(Strict) /\ OuterEnds(Strict)' = OuterEnds(Strict)
         /\ (IsJson' <=> IsJson) /\ (NumberThenSpace' <=> NumberThenSpace)
<1>1. Ends(Strict)' = Ends(Strict)
  BY DEF Ends, ValueEnds, ListEnds, FirstValue, Closed, IsNumber, AllDigits, Things, Places,
         StringEnds, SkipFrom, End, At, Space, Digits, Strict
<1>2. OuterEnds(Strict)' = OuterEnds(Strict)
  BY <1>1, SameGrammar DEF OuterEnds
<1>3. WellEncoded' <=> WellEncoded
  BY DEF WellEncoded, At
<1>4. NumberThenSpace' <=> NumberThenSpace
  BY SameGrammar DEF NumberThenSpace, Space
<1>5. IsJson' <=> IsJson
  BY <1>2, <1>3, SameGrammar DEF IsJson
<1> QED
  BY <1>1, <1>2, <1>4, <1>5

LEMMA SameAhead ==
  ASSUME body' = body
  PROVE  \A p, st, rl, i : Ahead(p, st, rl, i)' <=> Ahead(p, st, rl, i)
<1>1. \A thing, i : StrictEnds(thing, i)' = StrictEnds(thing, i)
  BY SameStrict DEF StrictEnds
<1>2. \A kind, c, j : ListEndsAt(kind, c, j)' <=> ListEndsAt(kind, c, j)
  BY SameGrammar DEF ListEndsAt, Closing
<1>3. \A kind, c, j : ListTo(kind, c, j)' <=> ListTo(kind, c, j)
  BY <1>1, <1>2 DEF ListTo, List
<1>4. \A st, closes, d, j : MayEnd(st, closes, d, j)' <=> MayEnd(st, closes, d, j)
  <2> SUFFICES ASSUME NEW st, NEW closes, NEW d, NEW j
               PROVE  MayEnd(st, closes, d, j)' <=> MayEnd(st, closes, d, j)
    OBVIOUS
  <2>1. /\ SkipFrom(j)' = SkipFrom(j) /\ End' = End
        /\ At(SkipFrom(j), {","})' <=> At(SkipFrom(j), {","})
    BY SameGrammar
  <2>2. /\ ListEndsAt(st[d].kind, closes[d], j)' <=> ListEndsAt(st[d].kind, closes[d], j)
        /\ ListTo(st[d].kind, closes[d], SkipFrom(j) + 1)'
             <=> ListTo(st[d].kind, closes[d], SkipFrom(j) + 1)
    BY <1>2, <1>3, <2>1
  <2> QED
    BY <2>1, <2>2 DEF MayEnd
<1>5. Places' = Places
  BY SameGrammar DEF Places
<1>6. \A st, closes : Planned(st, closes)' <=> Planned(st, closes)
  BY <1>4, <1>5 DEF Planned
<1>7. \A st, closes, i : ValueDue(st, closes, i)' <=> ValueDue(st, closes, i)
  BY <1>1, <1>4, SameGrammar DEF ValueDue
<1>8. \A st, closes, kind, i : ListDue(st, closes, kind, i)' <=> ListDue(st, closes, kind, i)
  BY <1>2, <1>3 DEF ListDue
<1>9. \A st, closes, i : ColonDue(st, closes, i)' <=> ColonDue(st, closes, i)
  BY <1>7, SameGrammar DEF ColonDue
<1>10. \A st, closes, rl, i : StringDue(st, closes, rl, i)' <=> StringDue(st, closes, rl, i)
  BY <1>4, <1>9, SameGrammar DEF StringDue
<1>11. \A i, j : ExponentPart(i, j)' <=> ExponentPart(i, j)
  BY SameGrammar DEF ExponentPart, ExponentLeft
<1>12. \A i, j : FractionPart(i, j)' <=> FractionPart(i, j)
  BY <1>11, SameGrammar DEF FractionPart
<1>13. \A p, i, j : NumberLeft(p, i, j)' <=> NumberLeft(p, i, j)
  BY <1>11, <1>12, SameGrammar DEF NumberLeft, ExponentLeft
<1>14. \A p, st, closes, i : NumberDue(p, st, closes, i)' <=> NumberDue(p, st, closes, i)
  BY <1>4, <1>5, <1>13 DEF NumberDue
<1>15. \A p, st, closes, rl, i : Left(p, st, closes, rl, i)' <=> Left(p, st, closes, rl, i)
  <2> SUFFICES ASSUME NEW p, NEW st, NEW closes, NEW rl, NEW i
               PROVE  Left(p, st, closes, rl, i)' <=> Left(p, st, closes, rl, i)
    OBVIOUS
  <2>1. /\ ValueDue(st, closes, i)' <=> ValueDue(st, closes, i)
        /\ ListDue(st, closes, "object", i)' <=> ListDue(st, closes, "object", i)
        /\ ListDue(st, closes, "array", i)' <=> ListDue(st, closes, "array", i)
        /\ ColonDue(st, closes, i)' <=> ColonDue(st, closes, i)
        /\ NumberDue(p, st, closes, i)' <=> NumberDue(p, st, closes, i)
    BY <1>7, <1>8, <1>9, <1>14
  <2>2. /\ StringDue(st, closes, rl, i)' <=> StringDue(st, closes, rl, i)
        /\ StringDue(st, closes, rl, i + 1)' <=> StringDue(st, closes, rl, i + 1)
        /\ StringDue(st, closes, rl, i - 1)' <=> StringDue(st, closes, rl, i - 1)
    BY <1>10
  <2>3. /\ MayEnd(st, closes, Len(st), i)' <=> MayEnd(st, closes, Len(st), i)
        /\ MayEnd(st, closes, Len(st), i + 1)' <=> MayEnd(st, closes, Len(st), i + 1)
    BY <1>4
  <2>4. /\ At(i - 1, {"backslash"})' <=> At(i - 1, {"backslash"})
        /\ At(i, {"rue"})' <=> At(i, {"rue"})
        /\ At(i - 1, {Space})' <=> At(i - 1, {Space})
        /\ At(SkipFrom(1), {"-"} \cup Digits)' <=> At(SkipFrom(1), {"-"} \cup Digits)
    BY SameGrammar DEF Space, Digits
  <2> QED
    BY <2>1, <2>2, <2>3, <2>4 DEF Left, NumberPcs
<1> QED
  BY <1>6, <1>15 DEF Ahead, Readings, NumberPcs

\* What the lemmas about the actions prove of a step.
GoesOn == pc' \in Readings /\ Ahead(pc', stack', role', total_read' + 1)

LEMMA LeftHere ==
  ASSUME AcceptInv, IsJson, Take
  PROVE  /\ ParserInv /\ Ahead(pc, stack, role, total_read + 1)
         /\ \E closes : Planned(stack, closes) /\ Left(pc, stack, closes, role, total_read + 1)
<1>1. ParserInv /\ Ahead(pc, stack, role, total_read + 1)
  BY DEF AcceptInv, Awaiting
<1>2. pc \in Readings
  BY <1>1, Here
<1> QED
  BY <1>1, <1>2 DEF Ahead

LEMMA SkipSpaceGoesOn ==
  ASSUME AcceptInv, IsJson, SkipSpace
  PROVE  GoesOn
<1> DEFINE i == total_read + 1
           n == Len(stack)
<1>1. /\ Take /\ pc \in Skipping /\ Byte = Space /\ pc' = pc /\ stack' = stack /\ role' = role
  BY DEF SkipSpace, string
<1>2. PICK closes : Planned(stack, closes) /\ Left(pc, stack, closes, role, i)
  BY <1>1, LeftHere
<1>3. /\ Text /\ i \in Places /\ At(i, {Space}) /\ i \in Nat /\ stack \in Stacks
      /\ pc \in Readings
  BY <1>1, LeftHere, Here
<1> HIDE DEF i
<1>4. i + 1 \in Places /\ SkipFrom(i) = SkipFrom(i + 1) /\ (i + 1) - 1 = i
  BY <1>3, SkipStep
<1>5. \A kind \in Kinds : \A c : ListTo(kind, c, i) => ListTo(kind, c, i + 1)
  <2> SUFFICES ASSUME NEW kind \in Kinds PROVE \A c : ListTo(kind, c, i) => ListTo(kind, c, i + 1)
    OBVIOUS
  <2> QED
    BY <1>3, <1>4, ListToSkips
<1>6. \A kind, c : ListEndsAt(kind, c, i) => ListEndsAt(kind, c, i + 1)
  BY <1>4 DEF ListEndsAt
<1>7. \A kind \in Kinds : ListDue(stack, closes, kind, i) => ListDue(stack, closes, kind, i + 1)
  BY <1>5, <1>6 DEF ListDue
<1>8. ValueDue(stack, closes, i) => ValueDue(stack, closes, i + 1)
  BY <1>4 DEF ValueDue
<1>9. ColonDue(stack, closes, i) => ColonDue(stack, closes, i + 1)
  BY <1>4 DEF ColonDue
<1>10. MayEnd(stack, closes, n, i) => MayEnd(stack, closes, n, i + 1)
  BY <1>4, <1>6 DEF MayEnd
<1>11. pc \in {"first", "key", "colon", "member", "element", "after", "after_number"}
  BY <1>1 DEF Skipping
<1>12. Left(pc, stack, closes, role, i + 1)
  <2> HIDE DEF n
  <2>1. "object" \in Kinds /\ "array" \in Kinds
    BY DEF Kinds
  <2> QED
    BY <1>2, <1>3, <1>4, <1>7, <1>8, <1>9, <1>10, <1>11, <2>1 DEF Left, NumberPcs, n
<1>13. Ahead(pc, stack, role, i + 1)
  BY <1>2, <1>12 DEF Ahead
<1>14. total_read' = i
  BY <1>1, LeftHere, Here DEF i
<1> QED
  BY <1>1, <1>3, <1>13, <1>14 DEF GoesOn

LEMMA NextByteGoesOn ==
  ASSUME AcceptInv, IsJson, Take, NEW closes, Planned(stack, closes),
         MayEnd(stack, closes, Len(stack), total_read + 1), Byte # Space, NextByte(Byte)
  PROVE  GoesOn
<1> DEFINE i == total_read + 1
           n == Len(stack)
<1>1. /\ Text /\ stack \in Stacks /\ i \in Places /\ i < End /\ SkipFrom(i) = i
      /\ \A S : At(i, S) <=> Byte \in S
  <2>1. /\ Text /\ stack \in Stacks /\ i \in Places /\ \A S : At(i, S) <=> Byte \in S
        /\ i \in 1 .. Len(body)
    BY LeftHere, Here, BodyFacts
  <2> QED
    BY <2>1, SkipStep, BodyFacts
<1>2. /\ stack # << >>
      /\ \/ /\ At(i, {","})
            /\ Ahead(IF stack[n].kind = "object" THEN "key" ELSE "element", stack, role, i + 1)
         \/ At(i, {Closing(stack[n].kind)}) /\ Ahead("after", Front(stack), role, i + 1)
  BY <1>1, NextBytePlan
<1>3. role' = role /\ total_read' = i
  BY LeftHere, Here DEF NextByte
<1>4. Closes(Byte) <=> Byte = Closing(stack[n].kind)
  BY DEF Closes, Closing, Top, Last
<1>5. Closing(stack[n].kind) # ","
  BY DEF Closing
<1>6. CASE /\ Byte = ","
           /\ Ahead(IF stack[n].kind = "object" THEN "key" ELSE "element", stack, role, i + 1)
  <2>1. pc' = (IF stack[n].kind = "object" THEN "key" ELSE "element") /\ stack' = stack
    BY <1>2, <1>4, <1>5, <1>6 DEF NextByte, Top, Last
  <2>2. pc' \in Readings
    BY <2>1 DEF Readings
  <2> QED
    BY <1>3, <1>6, <2>1, <2>2 DEF GoesOn
<1>7. CASE Byte = Closing(stack[n].kind) /\ Ahead("after", Front(stack), role, i + 1)
  <2>1. pc' = "after" /\ stack' = Front(stack)
    BY <1>2, <1>4, <1>5, <1>7 DEF NextByte
  <2>2. pc' \in Readings
    BY <2>1 DEF Readings
  <2> QED
    BY <1>3, <1>7, <2>1, <2>2 DEF GoesOn
<1> QED
  BY <1>1, <1>2, <1>6, <1>7

LEMMA AfterGoesOn ==
  ASSUME AcceptInv, IsJson, After
  PROVE  GoesOn
<1>1. Take /\ pc \in {"after", "after_number"} /\ Byte # Space /\ NextByte(Byte)
  BY DEF After
<1>2. PICK closes : Planned(stack, closes) /\ Left(pc, stack, closes, role, total_read + 1)
  BY <1>1, LeftHere
<1>3. MayEnd(stack, closes, Len(stack), total_read + 1)
  BY <1>1, <1>2 DEF Left
<1> QED
  BY <1>1, <1>2, <1>3, NextByteGoesOn

(***************************************************************************)
(* The first byte of a value.                                              *)
(***************************************************************************)
LEMMA ValueIsDue ==
  ASSUME AcceptInv, IsJson, Take, pc \in {"first", "member", "element"}, Byte # Space
  PROVE  /\ ClosesEmptyArray => \E closes : /\ stack # << >> /\ Planned(stack, closes)
                                            /\ closes[Len(stack)] = (total_read + 1) + 1
         /\ ~ClosesEmptyArray =>
              \E closes : \E j \in StrictEnds("value", total_read + 1) :
                /\ NotFirst \in Stacks /\ Planned(NotFirst, closes)
                /\ MayEnd(NotFirst, closes, Len(NotFirst), j)
<1> DEFINE i == total_read + 1
           n == Len(stack)
<1>1. /\ Text /\ stack \in Stacks /\ i \in Places /\ i < End /\ SkipFrom(i) = i
      /\ \A S : At(i, S) <=> Byte \in S
  <2>1. /\ Text /\ stack \in Stacks /\ i \in Places /\ \A S : At(i, S) <=> Byte \in S
        /\ i \in 1 .. Len(body)
    BY LeftHere, Here, BodyFacts
  <2> QED
    BY <2>1, SkipStep, BodyFacts
<1>2. PICK closes : Planned(stack, closes) /\ Left(pc, stack, closes, role, i)
  BY LeftHere
<1> HIDE DEF i
<1>3. CASE pc # "element"
  <2>1. ValueDue(stack, closes, i)
    BY <1>2, <1>3 DEF Left
  <2>2. PICK j \in StrictEnds("value", i) : MayEnd(stack, closes, n, j)
    BY <1>1, <2>1 DEF ValueDue
  <2>3. NotFirst = stack /\ ~ClosesEmptyArray
    BY <1>3 DEF NotFirst, ClosesEmptyArray
  <2> QED
    BY <1>1, <1>2, <2>2, <2>3 DEF i
<1>4. CASE pc = "element"
  <2>1. ListDue(stack, closes, "array", i)
    BY <1>2, <1>4 DEF Left
  <2>2. stack # << >> /\ stack[n].kind = "array" /\ List("array") = "values" /\ Closing("array") = "]"
    BY <2>1 DEF ListDue, List, Closing
  <2>3. ASSUME ListTo("array", closes[n], i)
        PROVE  ~ClosesEmptyArray /\ \E j \in StrictEnds("value", i) : MayEnd(stack, closes, n, j)
    <3>1. FirstValue("values", i) = i
      BY <1>1 DEF FirstValue
    <3>2. PICK j \in StrictEnds("value", i) : MayEnd(stack, closes, n, j)
      BY <1>1, <2>2, <2>3, <3>1, ListBegins
    <3>3. ~At(i, {"]"})
      BY <1>1, ValueForms DEF At, Digits, Opening, Kinds
    <3> QED
      BY <1>1, <3>2, <3>3 DEF ClosesEmptyArray
  <2>4. ASSUME stack[n].first, ListEndsAt("array", closes[n], i)
        PROVE  ClosesEmptyArray /\ closes[n] = i + 1
    BY <1>1, <1>4, <2>2, <2>4 DEF ListEndsAt, ClosesEmptyArray, Top, Last
  <2>5. /\ NotFirst \in Stacks
        /\ \A j : MayEnd(NotFirst, closes, Len(NotFirst), j) <=> MayEnd(stack, closes, n, j)
        /\ Planned(NotFirst, closes)
    <3>1. NotFirst = NoLongerFirst(stack)
      BY <1>4 DEF NotFirst, NoLongerFirst
    <3>2. /\ NotFirst \in Stacks /\ Len(NotFirst) = n
          /\ \A k \in 1 .. n : NotFirst[k].kind = stack[k].kind
      BY <1>1, <2>2, <3>1, NoLongerFirstFacts
    <3>3. n \in 0 .. n
      BY <1>1, StackFacts
    <3> QED
      BY <1>1, <1>2, <3>2, <3>3, SamePlan
  <2> QED
    BY <1>2, <2>1, <2>2, <2>3, <2>4, <2>5 DEF ListDue, i
<1> QED
  BY <1>3, <1>4

\* What a string, number or keyword that begins here leaves.
LEMMA BeginGoesOn ==
  ASSUME AcceptInv, IsJson, Take, pc \in {"first", "member", "element"}, Byte # Space,
         ~ClosesEmptyArray, pc' \in Readings, stack' = NotFirst,
         \A closes : \A j \in StrictEnds("value", total_read + 1) :
           MayEnd(NotFirst, closes, Len(NotFirst), j) =>
             Left(pc', NotFirst, closes, role', (total_read + 1) + 1)
  PROVE  GoesOn
<1>1. PICK closes : \E j \in StrictEnds("value", total_read + 1) :
        /\ NotFirst \in Stacks /\ Planned(NotFirst, closes)
        /\ MayEnd(NotFirst, closes, Len(NotFirst), j)
  BY ValueIsDue
<1>2. Left(pc', NotFirst, closes, role', (total_read + 1) + 1)
  BY <1>1
<1>3. Ahead(pc', NotFirst, role', (total_read + 1) + 1)
  BY <1>1, <1>2 DEF Ahead
<1>4. total_read' = total_read + 1
  BY LeftHere, Here
<1> QED
  BY <1>3, <1>4 DEF GoesOn

LEMMA PushGoesOn ==
  ASSUME AcceptInv, IsJson, Take, pc \in {"first", "member", "element"}, ~ClosesEmptyArray,
         NEW kind \in Kinds, Byte = Opening(kind),
         pc' = (IF kind = "object" THEN "key" ELSE "element"),
         stack' = Append(NotFirst, [kind |-> kind, first |-> TRUE]), role' = role
  PROVE  GoesOn
<1> DEFINE i == total_read + 1
<1>1. Byte # Space
  BY DEF Opening, Space
<1>2. PICK closes : \E j \in StrictEnds("value", i) :
        /\ NotFirst \in Stacks /\ Planned(NotFirst, closes)
        /\ MayEnd(NotFirst, closes, Len(NotFirst), j)
  BY <1>1, ValueIsDue
<1>3. PICK j \in StrictEnds("value", i) : MayEnd(NotFirst, closes, Len(NotFirst), j)
  BY <1>2
<1>4. Text /\ i \in Places /\ \A S : At(i, S) <=> Byte \in S
  BY LeftHere, Here
<1> HIDE DEF i
<1>5. ListEndsAt(kind, j, i + 1) \/ ListTo(kind, j, i + 1)
  <2>1. /\ ~At(i, {"-"} \cup Digits) /\ ~At(i, {"t"}) /\ ~At(i, {"quote"})
        /\ \A other \in Kinds : At(i, {Opening(other)}) => other = kind
    BY <1>4 DEF Digits, Opening, Kinds
  <2> QED
    BY <1>3, <1>4, <2>1, ValueForms
<1>6. j \in Places
  BY <1>3, <1>4, StrictType
<1>7. Ahead(pc', stack', role, i + 1)
  BY <1>2, <1>3, <1>4, <1>5, <1>6, PushPlan
<1>8. pc' \in Readings /\ total_read' = i
  BY LeftHere, Here DEF Readings, i
<1> QED
  BY <1>7, <1>8 DEF GoesOn

LEMMA BeginObjectGoesOn ==
  ASSUME AcceptInv, IsJson, BeginObject
  PROVE  GoesOn
<1>1. /\ Take /\ pc \in {"first", "member", "element"} /\ Byte = Opening("object")
      /\ stack' = Append(NotFirst, [kind |-> "object", first |-> TRUE])
      /\ pc' = "key" /\ role' = role /\ "object" \in Kinds /\ ~ClosesEmptyArray
  BY DEF BeginObject, Value, Opening, Kinds
<1> QED
  BY <1>1, PushGoesOn

LEMMA BeginArrayGoesOn ==
  ASSUME AcceptInv, IsJson, BeginArray
  PROVE  GoesOn
<1>1. /\ Take /\ pc \in {"first", "member", "element"} /\ Byte = Opening("array")
      /\ stack' = Append(NotFirst, [kind |-> "array", first |-> TRUE])
      /\ pc' = "element" /\ role' = role /\ "array" \in Kinds /\ "array" # "object"
      /\ ~ClosesEmptyArray
  BY DEF BeginArray, Value, Opening, Kinds, string
<1> QED
  BY <1>1, PushGoesOn

LEMMA EndEmptyArrayGoesOn ==
  ASSUME AcceptInv, IsJson, EndEmptyArray
  PROVE  GoesOn
<1>1. /\ Take /\ pc = "element" /\ Byte # Space /\ stack' = Front(stack)
      /\ pc' = "after" /\ role' = role /\ ClosesEmptyArray /\ pc' \in Readings
  BY DEF EndEmptyArray, ClosesEmptyArray, string, Space, Readings
<1>2. PICK closes : /\ stack # << >> /\ Planned(stack, closes)
                    /\ closes[Len(stack)] = (total_read + 1) + 1
  BY <1>1, ValueIsDue
<1>3. stack \in Stacks /\ total_read' = total_read + 1
  BY <1>1, LeftHere, Here
<1>4. Ahead("after", Front(stack), role, (total_read + 1) + 1)
  BY <1>2, <1>3, PopPlan
<1> QED
  BY <1>1, <1>3, <1>4 DEF GoesOn

LEMMA BeginStringGoesOn ==
  ASSUME AcceptInv, IsJson, BeginString
  PROVE  GoesOn
<1> DEFINE i == total_read + 1
<1>1. /\ Take /\ pc \in {"first", "member", "element"} /\ Byte = "quote" /\ Byte # Space
      /\ pc' = "string" /\ role' = "value" /\ stack' = NotFirst /\ pc' \in Readings
      /\ ~ClosesEmptyArray
  BY DEF BeginString, Value, Space, Readings
<1>2. Text /\ i \in Places /\ \A S : At(i, S) <=> Byte \in S
  BY <1>1, LeftHere, Here
<1>3. ASSUME NEW closes, NEW j \in StrictEnds("value", i),
             MayEnd(NotFirst, closes, Len(NotFirst), j)
      PROVE  Left(pc', NotFirst, closes, role', i + 1)
  <2> HIDE DEF i
  <2>1. j = StringEnds[i + 1] /\ j # 0
    BY <1>1, <1>2, ValueForms DEF Digits, Opening, Kinds
  <2>2. StringDue(NotFirst, closes, "value", i + 1)
    BY <1>3, <2>1 DEF StringDue
  <2> QED
    BY <1>1, <2>2 DEF Left, NumberPcs
<1> QED
  BY <1>1, <1>3, BeginGoesOn

LEMMA BeginKeywordGoesOn ==
  ASSUME AcceptInv, IsJson, BeginKeyword
  PROVE  GoesOn
<1> DEFINE i == total_read + 1
<1>1. /\ Take /\ pc \in {"first", "member", "element"} /\ Byte = "t" /\ Byte # Space
      /\ pc' = "keyword" /\ role' = role /\ stack' = NotFirst /\ pc' \in Readings
      /\ ~ClosesEmptyArray
  BY DEF BeginKeyword, Value, Space, string, Readings
<1>2. Text /\ i \in Places /\ (\A S : At(i, S) <=> Byte \in S) /\ i + 2 = (i + 1) + 1
  BY <1>1, LeftHere, Here
<1>3. ASSUME NEW closes, NEW j \in StrictEnds("value", i),
             MayEnd(NotFirst, closes, Len(NotFirst), j)
      PROVE  Left(pc', NotFirst, closes, role', i + 1)
  <2> HIDE DEF i
  <2>1. At(i + 1, {"rue"}) /\ j = i + 2
    BY <1>1, <1>2, ValueForms DEF Digits, Opening, Kinds
  <2> QED
    BY <1>1, <1>2, <1>3, <2>1 DEF Left, NumberPcs
<1> QED
  BY <1>1, <1>3, BeginGoesOn

LEMMA UnexpectedValueGoesOn ==
  ASSUME AcceptInv, IsJson, UnexpectedValue
  PROVE  FALSE
<1> DEFINE i == total_read + 1
<1>1. /\ Take /\ pc \in {"first", "member", "element"} /\ ~ClosesEmptyArray
      /\ Byte \notin {"{", "[", "quote", "-", "0", "1", "t", Space}
  BY DEF UnexpectedValue, Value
<1>2. \E j : j \in StrictEnds("value", i)
  BY <1>1, ValueIsDue
<1>3. Text /\ i \in Places /\ (\A S : At(i, S) <=> Byte \in S)
  BY <1>1, LeftHere, Here
<1> HIDE DEF i
<1> QED
  BY <1>1, <1>2, <1>3, ValueForms DEF Digits, Opening, Kinds

LEMMA KeywordGoesOn ==
  ASSUME AcceptInv, IsJson, Keyword
  PROVE  GoesOn
<1> DEFINE i == total_read + 1
<1>1. /\ Take /\ pc = "keyword" /\ stack' = stack /\ role' = role
      /\ pc' = IF Byte = "rue" THEN "after" ELSE "failed"
  BY DEF Keyword, string
<1>2. PICK closes : Planned(stack, closes) /\ Left(pc, stack, closes, role, i)
  BY <1>1, LeftHere
<1>3. total_read' = i /\ \A S : At(i, S) <=> Byte \in S
  BY <1>1, LeftHere, Here
<1> HIDE DEF i
<1>4. At(i, {"rue"}) /\ MayEnd(stack, closes, Len(stack), i + 1)
  BY <1>1, <1>2 DEF Left
<1>5. pc' = "after" /\ pc' \in Readings
  BY <1>1, <1>3, <1>4 DEF Readings
<1>6. Left("after", stack, closes, role, i + 1)
  BY <1>4 DEF Left, NumberPcs
<1> QED
  BY <1>1, <1>2, <1>3, <1>5, <1>6 DEF GoesOn, Ahead

LEMMA KeyGoesOn ==
  ASSUME AcceptInv, IsJson, Key
  PROVE  GoesOn
<1> DEFINE i == total_read + 1
           n == Len(stack)
<1>1. Take /\ pc = "key" /\ Byte # Space
  <2>1. Take /\ pc = "key"
    BY DEF Key
  <2>2. Byte # Space
    BY DEF Key, FirstKeyCloses, Space
  <2> QED
    BY <2>1, <2>2
<1>2. PICK closes : Planned(stack, closes) /\ Left(pc, stack, closes, role, i)
  BY <1>1, LeftHere
<1>3. /\ Text /\ stack \in Stacks /\ i \in Places /\ SkipFrom(i) = i
      /\ (\A S : At(i, S) <=> Byte \in S) /\ total_read' = i /\ i \in Nat
  <2>1. /\ Text /\ stack \in Stacks /\ i \in Places /\ \A S : At(i, S) <=> Byte \in S
        /\ total_read' = i /\ i \in Nat
    BY <1>1, LeftHere, Here
  <2> QED
    BY <1>1, <2>1, SkipStep
<1> HIDE DEF i
<1>4. ListDue(stack, closes, "object", i)
  BY <1>1, <1>2 DEF Left
<1>5. /\ stack # << >> /\ stack[n].kind = "object" /\ "object" \in Kinds
      /\ List("object") = "members" /\ Closing("object") = "}" /\ n # 0
  BY <1>3, <1>4, StackFacts DEF ListDue, List, Closing, Kinds
<1>6. CASE ListTo("object", closes[n], i)
  <2>1. /\ FirstValue("members", i) < End
        /\ \E j \in StrictEnds("value", FirstValue("members", i)) : MayEnd(stack, closes, n, j)
    BY <1>3, <1>5, <1>6, ListBegins
  <2>2. /\ At(i, {"quote"}) /\ StringEnds[i + 1] # 0 /\ At(SkipFrom(StringEnds[i + 1]), {":"})
        /\ FirstValue("members", i) = SkipFrom(SkipFrom(StringEnds[i + 1]) + 1)
    BY <1>3, <2>1, FirstOfMembers
  <2>3. StringDue(stack, closes, "key", i + 1)
    BY <2>1, <2>2 DEF StringDue, ColonDue, ValueDue
  <2>4. pc' = "string" /\ role' = "key" /\ stack' = NoLongerFirst(stack) /\ pc' \in Readings
    BY <1>3, <2>2 DEF Key, FirstKeyCloses, NoLongerFirst, Readings, Fail
  <2> DEFINE st1 == NoLongerFirst(stack)
  <2>5. /\ st1 \in Stacks /\ Len(st1) = n
        /\ \A k \in 1 .. n : st1[k].kind = stack[k].kind
    BY <1>3, <1>5, NoLongerFirstFacts
  <2>6. n \in 0 .. n
    BY <1>3, StackFacts
  <2> HIDE DEF st1
  <2>7. Planned(st1, closes) /\ \A j : MayEnd(st1, closes, n, j) <=> MayEnd(stack, closes, n, j)
    BY <1>2, <1>3, <2>5, <2>6, SamePlan
  <2>8. StringDue(st1, closes, "key", i + 1)
    BY <2>3, <2>5, <2>7 DEF StringDue, ColonDue, ValueDue
  <2>9. Left("string", st1, closes, "key", i + 1)
    BY <2>8 DEF Left, NumberPcs
  <2> QED
    BY <1>3, <2>4, <2>7, <2>9 DEF GoesOn, Ahead, st1
<1>7. CASE stack[n].first /\ ListEndsAt("object", closes[n], i)
  <2>1. Byte = "}" /\ closes[n] = i + 1
    BY <1>3, <1>5, <1>7 DEF ListEndsAt
  <2>2. FirstKeyCloses
    BY <1>7, <2>1 DEF FirstKeyCloses, Top, Last
  <2>3. pc' = "after" /\ stack' = Front(stack) /\ role' = role /\ pc' \in Readings
    BY <2>1, <2>2 DEF Key, string, Readings
  <2>4. Ahead("after", Front(stack), role, i + 1)
    BY <1>2, <1>3, <1>5, <2>1, PopPlan
  <2> QED
    BY <1>3, <2>3, <2>4 DEF GoesOn
<1> QED
  BY <1>4, <1>6, <1>7 DEF ListDue

LEMMA ColonGoesOn ==
  ASSUME AcceptInv, IsJson, Colon
  PROVE  GoesOn
<1> DEFINE i == total_read + 1
<1>1. /\ Take /\ pc = "colon" /\ Byte # Space /\ stack' = stack /\ role' = role
      /\ pc' = IF Byte = ":" THEN "member" ELSE "failed"
  BY DEF Colon, string
<1>2. PICK closes : Planned(stack, closes) /\ Left(pc, stack, closes, role, i)
  BY <1>1, LeftHere
<1>3. Text /\ i \in Places /\ total_read' = i /\ \A S : At(i, S) <=> Byte \in S
  BY <1>1, LeftHere, Here
<1> HIDE DEF i
<1>4. SkipFrom(i) = i /\ ColonDue(stack, closes, i)
  BY <1>1, <1>2, <1>3, SkipStep DEF Left
<1>5. pc' = "member" /\ pc' \in Readings /\ ValueDue(stack, closes, i + 1)
  BY <1>1, <1>3, <1>4 DEF ColonDue, Readings
<1>6. Left("member", stack, closes, role, i + 1)
  BY <1>5 DEF Left, NumberPcs
<1> QED
  BY <1>1, <1>2, <1>3, <1>5, <1>6 DEF GoesOn, Ahead

(***************************************************************************)
(* Strings.                                                                *)
(***************************************************************************)
LEMMA StringGoesOn ==
  ASSUME AcceptInv, IsJson, Take, pc' \in {"string", "char", "unit", "escape"},
         stack' = stack, role' = role,
         \A closes : Left(pc, stack, closes, role, total_read + 1) =>
                       Left(pc', stack, closes, role, (total_read + 1) + 1)
  PROVE  GoesOn
<1>1. PICK closes : Planned(stack, closes) /\ Left(pc, stack, closes, role, total_read + 1)
  BY LeftHere
<1>2. Left(pc', stack, closes, role, (total_read + 1) + 1) /\ pc' \in Readings
  BY <1>1 DEF Readings
<1>3. Ahead(pc', stack, role, (total_read + 1) + 1)
  BY <1>1, <1>2 DEF Ahead
<1>4. total_read' = total_read + 1
  BY LeftHere, Here
<1> QED
  BY <1>2, <1>3, <1>4 DEF GoesOn

LEMMA StringCharGoesOn ==
  ASSUME AcceptInv, IsJson, StringChar
  PROVE  GoesOn
<1> DEFINE i == total_read + 1
<1>1. /\ Take /\ pc = "string" /\ Byte \notin {"quote", "backslash"}
      /\ stack' = stack /\ role' = role
      /\ pc' = IF Byte = "lead" THEN "char" ELSE "string"
  BY DEF StringChar, PushChar
<1>2. Text /\ i \in Places /\ i + 1 \in Places /\ \A S : At(i, S) <=> Byte \in S
  BY <1>1, LeftHere, Here
<1>3. StringEnds[i] = IF Byte = "lead" THEN StringEnds[i + 2] ELSE StringEnds[i + 1]
  <2>1. i < End
    BY <1>2, BodyFacts
  <2> HIDE DEF i
  <2> QED
    BY <1>1, <1>2, <2>1, StringEndsAt
<1>4. ASSUME NEW closes, Left(pc, stack, closes, role, i)
      PROVE  Left(pc', stack, closes, role, i + 1)
  <2>1. StringDue(stack, closes, role, i)
    BY <1>1, <1>4 DEF Left
  <2>2. (i + 1) + 1 = i + 2
    BY <1>2, BodyFacts
  <2>3. StringDue(stack, closes, role, IF Byte = "lead" THEN (i + 1) + 1 ELSE i + 1)
    BY <1>3, <2>1, <2>2 DEF StringDue
  <2> HIDE DEF i
  <2> QED
    BY <1>1, <2>3 DEF Left, NumberPcs
<1> QED
  BY <1>1, <1>4, StringGoesOn

LEMMA RestOfCharGoesOn ==
  ASSUME AcceptInv, IsJson, RestOfChar
  PROVE  GoesOn
<1>1. Take /\ pc = "char" /\ pc' = "string" /\ stack' = stack /\ role' = role
  BY DEF RestOfChar
<1>2. \A closes : Left("char", stack, closes, role, total_read + 1) =>
                    Left("string", stack, closes, role, (total_read + 1) + 1)
  BY DEF Left, NumberPcs
<1> QED
  BY <1>1, <1>2, StringGoesOn

LEMMA UnitGoesOn ==
  ASSUME AcceptInv, IsJson, Unit
  PROVE  GoesOn
<1>1. Take /\ pc = "unit" /\ pc' = "string" /\ stack' = stack /\ role' = role
  BY DEF Unit
<1>2. \A closes : Left("unit", stack, closes, role, total_read + 1) =>
                    Left("string", stack, closes, role, (total_read + 1) + 1)
  BY DEF Left, NumberPcs
<1> QED
  BY <1>1, <1>2, StringGoesOn

LEMMA BackslashGoesOn ==
  ASSUME AcceptInv, IsJson, Backslash
  PROVE  GoesOn
<1> DEFINE i == total_read + 1
<1>1. Take /\ pc = "string" /\ Byte = "backslash" /\ pc' = "escape" /\ stack' = stack /\ role' = role
  BY DEF Backslash, string
<1>2. At(i, {"backslash"}) /\ (i + 1) - 1 = i
  BY <1>1, LeftHere, Here
<1>3. ASSUME NEW closes, Left(pc, stack, closes, role, i)
      PROVE  Left(pc', stack, closes, role, i + 1)
  <2> HIDE DEF i
  <2> QED
    BY <1>1, <1>2, <1>3 DEF Left, NumberPcs
<1> QED
  BY <1>1, <1>3, StringGoesOn

LEMMA EscapeGoesOn ==
  ASSUME AcceptInv, IsJson, Escape
  PROVE  GoesOn
<1> DEFINE i == total_read + 1
<1>1. /\ Take /\ pc = "escape" /\ stack' = stack /\ role' = role
      /\ pc' = IF Byte = "u" THEN "unit" ELSE IF Byte = "lead" THEN "char" ELSE "string"
  BY DEF Escape, PushChar, string
<1>2. Text /\ i \in Places /\ i + 1 \in Places /\ i \in Nat /\ \A S : At(i, S) <=> Byte \in S
  BY <1>1, LeftHere, Here
<1>3. ASSUME NEW closes, Left(pc, stack, closes, role, i)
      PROVE  Left(pc', stack, closes, role, i + 1)
  <2>1. At(i - 1, {"backslash"}) /\ StringDue(stack, closes, role, i - 1)
    BY <1>1, <1>3 DEF Left
  <2>2. i - 1 \in Places /\ i - 1 < End /\ (i - 1) + 1 = i /\ (i - 1) + 2 = i + 1 /\ (i - 1) + 3 = (i + 1) + 1
    BY <1>2, <2>1, BodyFacts
  <2>3. ~At(i - 1, {"quote"}) /\ At(i - 1, {"backslash", "lead"})
    BY <2>1 DEF At
  <2>4. StringEnds[i - 1] = IF Byte \in {"u", "lead"} THEN StringEnds[(i + 1) + 1] ELSE StringEnds[i + 1]
    <3>1. StringEnds[i - 1] = IF At((i - 1) + 1, {"u", "lead"}) THEN StringEnds[(i - 1) + 3]
                              ELSE StringEnds[(i - 1) + 2]
      <4> HIDE DEF i
      <4> QED
        BY <1>2, <2>1, <2>2, <2>3, StringEndsAt
    <3> QED
      BY <1>2, <2>2, <3>1
  <2>5. StringDue(stack, closes, role, IF Byte \in {"u", "lead"} THEN (i + 1) + 1 ELSE i + 1)
    BY <2>1, <2>4 DEF StringDue
  <2> HIDE DEF i
  <2> QED
    BY <1>1, <2>5 DEF Left, NumberPcs
<1> QED
  BY <1>1, <1>3, StringGoesOn

LEMMA EndStringGoesOn ==
  ASSUME AcceptInv, IsJson, EndString
  PROVE  GoesOn
<1> DEFINE i == total_read + 1
<1>1. /\ Take /\ pc = "string" /\ Byte = "quote" /\ stack' = stack /\ role' = role
      /\ pc' = IF role = "key" THEN "colon" ELSE "after"
  BY DEF EndString
<1>2. PICK closes : Planned(stack, closes) /\ Left(pc, stack, closes, role, i)
  BY <1>1, LeftHere
<1>3. /\ Text /\ i \in Places /\ At(i, {"quote"}) /\ role \in {"key", "value"} /\ total_read' = i
  BY <1>1, LeftHere, Here
<1>4. StringEnds[i] = i + 1
  <2>1. i < End
    BY <1>3, BodyFacts
  <2> HIDE DEF i
  <2> QED
    BY <1>3, <2>1, StringEndsAt
<1> HIDE DEF i
<1>5. StringDue(stack, closes, role, i)
  BY <1>1, <1>2 DEF Left
<1>6. Left(pc', stack, closes, role, i + 1) /\ pc' \in Readings
  BY <1>1, <1>3, <1>4, <1>5 DEF StringDue, Left, NumberPcs, Readings
<1> QED
  BY <1>1, <1>2, <1>3, <1>6 DEF GoesOn, Ahead

(***************************************************************************)
(* Numbers.                                                                *)
(***************************************************************************)
\* What is left of a number behind its first byte.
LEMMA NumberBegins ==
  ASSUME Text, NEW i \in Places, NEW j \in Places, IsNumber(i, j, Strict), NEW p,
         \/ p = "minus" /\ At(i, {"-"})
         \/ p = "zero" /\ At(i, {"0"})
         \/ p = "digits" /\ At(i, {"1"})
  PROVE  NumberLeft(p, i + 1, j)
<1>1. i \in Nat /\ j \in Nat /\ i \in 1 .. Len(body)
  BY BodyFacts
<1>2. PICK int \in {i, i + 1}, point \in i .. j, e \in i .. j :
        /\ int = i + 1 => At(i, {"-"})
        /\ int < point /\ AllDigits(int, point) /\ (body[int] = "0" => point = int + 1)
        /\ point <= e
        /\ \/ point = e
           \/ At(point, {"."}) /\ AllDigits(point + 1, e) /\ point + 1 + Strict <= e
        /\ \/ e = j
           \/ /\ At(e, {"e"})
              /\ \E digits \in {e + 1, e + 2} :
                   /\ digits = e + 2 => At(e + 1, {"+", "-"})
                   /\ digits + Strict <= j /\ AllDigits(digits, j)
  BY DEF IsNumber
<1>3. int \in Nat /\ point \in Nat /\ e \in Nat /\ int < point /\ point <= e /\ e <= j
  BY <1>1, <1>2
<1>4. ExponentPart(e, j)
  <2>1. CASE e = j
    BY <2>1 DEF ExponentPart
  <2>2. CASE e # j
    <3>1. PICK digits \in {e + 1, e + 2} : /\ digits = e + 2 => At(e + 1, {"+", "-"})
                                           /\ digits + Strict <= j /\ AllDigits(digits, j)
      BY <1>2, <2>2
    <3>2. digits \in {e + 1, (e + 1) + 1} /\ digits + 1 <= j
          /\ (digits = (e + 1) + 1 => At(e + 1, {"+", "-"}))
      BY <1>3, <3>1 DEF Strict
    <3>3. ExponentLeft(e + 1, j)
      BY <3>1, <3>2 DEF ExponentLeft
    <3> QED
      BY <1>2, <2>2, <3>3 DEF ExponentPart
  <2> QED
    BY <2>1, <2>2
<1>5. FractionPart(point, j)
  <2>1. e \in point .. j
    BY <1>1, <1>3
  <2>2. point + 1 + Strict <= e => point + 2 <= e
    BY <1>3 DEF Strict
  <2> QED
    BY <1>2, <1>4, <2>1, <2>2 DEF FractionPart
<1>6. body[int] \in Digits
  BY <1>2, <1>3 DEF AllDigits
<1>7. i + 1 <= j /\ point \in i + 1 .. j /\ AllDigits(i + 1, point)
  <2>1. i + 1 <= j /\ point \in i + 1 .. j
    BY <1>1, <1>2, <1>3
  <2>2. \A k \in i + 1 .. point - 1 : k \in int .. point - 1
    BY <1>1, <1>2, <1>3
  <2> QED
    BY <1>2, <2>1, <2>2 DEF AllDigits
<1>8. CASE p = "minus"
  <2>1. int = i + 1
    BY <1>2, <1>6, <1>8 DEF At, Digits
  <2>2. point \in (i + 1) + 1 .. j /\ (body[i + 1] = "0" => point = (i + 1) + 1)
    BY <1>1, <1>2, <1>3, <2>1
  <2> QED
    BY <1>5, <1>7, <1>8, <2>2 DEF NumberLeft
<1>9. CASE p = "zero"
  <2>1. int = i /\ body[i] = "0"
    BY <1>2, <1>9 DEF At
  <2>2. point = i + 1
    BY <1>2, <2>1
  <2> QED
    BY <1>5, <1>7, <1>9, <2>2 DEF NumberLeft
<1>10. CASE p = "digits"
  BY <1>5, <1>7, <1>10 DEF NumberLeft
<1> QED
  BY <1>8, <1>9, <1>10

LEMMA BeginNumberGoesOn ==
  ASSUME AcceptInv, IsJson, BeginNumber
  PROVE  GoesOn
<1> DEFINE i == total_read + 1
<1>1. /\ Take /\ pc \in {"first", "member", "element"} /\ Byte # Space
      /\ role' = role /\ stack' = NotFirst /\ ~ClosesEmptyArray
      /\ \/ Byte = "-" /\ pc' = "minus"
         \/ Byte = "0" /\ pc' = "zero"
         \/ Byte = "1" /\ pc' = "digits"
  BY DEF BeginNumber, Value, Space, string
<1>2. pc' \in Readings /\ pc' \in NumberPcs
  BY <1>1 DEF Readings, NumberPcs
<1>3. Text /\ i \in Places /\ \A S : At(i, S) <=> Byte \in S
  BY <1>1, LeftHere, Here
<1>4. ASSUME NEW closes, NEW j \in StrictEnds("value", i),
             MayEnd(NotFirst, closes, Len(NotFirst), j)
      PROVE  Left(pc', NotFirst, closes, role', i + 1)
  <2> HIDE DEF i
  <2>1. IsNumber(i, j, Strict)
    BY <1>1, <1>3, ValueForms DEF Digits, Opening, Kinds
  <2>2. j \in Places
    BY <1>3, StrictType
  <2>3. \/ pc' = "minus" /\ At(i, {"-"})
        \/ pc' = "zero" /\ At(i, {"0"})
        \/ pc' = "digits" /\ At(i, {"1"})
    BY <1>1, <1>3
  <2>4. NumberLeft(pc', i + 1, j)
    BY <1>3, <2>1, <2>2, <2>3, NumberBegins
  <2>5. NumberDue(pc', NotFirst, closes, i + 1)
    BY <1>4, <2>2, <2>4 DEF NumberDue
  <2> QED
    BY <1>1, <1>2, <2>5 DEF Left
<1> QED
  BY <1>1, <1>2, <1>4, BeginGoesOn

\* What may stand behind a value.
Terminators == {Space, ",", "]", "}"}

LEMMA EndByte ==
  ASSUME Text, NEW i \in Places, i < End, NEW st, NEW closes, MayEnd(st, closes, Len(st), i)
  PROVE  At(i, Terminators)
<1>1. SkipFrom(i) = End \/ At(SkipFrom(i), {",", "]", "}"})
  BY DEF MayEnd, ListEndsAt, Closing, At
<1>2. ~At(i, {Space}) => SkipFrom(i) = i /\ i # End
  BY SkipStep, BodyFacts
<1> QED
  BY <1>1, <1>2 DEF At, Terminators, Space

\* Where the parser is in a number.
LEMMA NumberHere ==
  ASSUME AcceptInv, IsJson, Take, pc \in NumberPcs
  PROVE  /\ \E closes : \E j \in Places :
              /\ Planned(stack, closes) /\ NumberLeft(pc, total_read + 1, j)
              /\ MayEnd(stack, closes, Len(stack), j)
         /\ stack = << >> => At(SkipFrom(1), {"-"} \cup Digits)
<1>1. PICK closes : Planned(stack, closes) /\ Left(pc, stack, closes, role, total_read + 1)
  BY LeftHere
<1>2. NumberDue(pc, stack, closes, total_read + 1)
  BY <1>1 DEF Left
<1>3. ASSUME stack = << >> PROVE At(SkipFrom(1), {"-"} \cup Digits)
  <2>1. PICK opens : Reached(pc, stack, opens, role, total_read + 1)
    BY LeftHere, Here
  <2>2. PICK v \in Places : Stands(stack, opens, Len(stack), v) /\ NumberTo(pc, v, total_read + 1)
    BY <2>1 DEF Reached
  <2>3. Len(stack) = 0
    BY <1>3, LeftHere, Here, StackFacts
  <2> QED
    BY <2>2, <2>3 DEF Stands, NumberTo
<1> QED
  BY <1>1, <1>2, <1>3 DEF NumberDue

LEMMA StaysGoesOn ==
  ASSUME AcceptInv, IsJson, Take, NEW p \in NumberPcs, Stays(p), NEW closes, NEW j \in Places,
         Planned(stack, closes), MayEnd(stack, closes, Len(stack), j),
         NumberLeft(p, (total_read + 1) + 1, j)
  PROVE  GoesOn
<1> DEFINE i == total_read + 1
<1>1. pc' = p /\ stack' = stack /\ role' = role /\ p \in Readings
  BY DEF Stays, string, Readings
<1>2. total_read' = i
  BY LeftHere, Here
<1> HIDE DEF i
<1>3. NumberDue(p, stack, closes, i + 1)
  BY DEF NumberDue, i
<1>4. Left(p, stack, closes, role, i + 1)
  BY <1>3 DEF Left, NumberPcs
<1> QED
  BY <1>1, <1>2, <1>4 DEF GoesOn, Ahead

LEMMA NumberEndsGoesOn ==
  ASSUME AcceptInv, IsJson, Take, pc \in NumberPcs, NEW closes, Planned(stack, closes),
         MayEnd(stack, closes, Len(stack), total_read + 1), NumberEnds(Byte)
  PROVE  GoesOn
<1> DEFINE i == total_read + 1
<1>1. CASE Byte # Space
  <2>1. NextByte(Byte)
    BY <1>1 DEF NumberEnds
  <2> QED
    BY <1>1, <2>1, NextByteGoesOn
<1>2. CASE Byte = Space
  <2>1. pc' = "after_number" /\ stack' = stack /\ role' = role /\ pc' \in Readings
    BY <1>2 DEF NumberEnds, string, Readings
  <2>2. /\ Text /\ i \in Places /\ At(i, {Space}) /\ i \in Nat /\ total_read' = i
    BY <1>2, LeftHere, Here
  <2> HIDE DEF i
  <2>3. SkipFrom(i) = SkipFrom(i + 1) /\ (i + 1) - 1 = i
    <3>1. (i + 1) - 1 = i
      BY <2>2
    <3> QED
      BY <2>2, <3>1, SkipStep
  <2>4. MayEnd(stack, closes, Len(stack), i + 1)
    BY <2>3 DEF MayEnd, ListEndsAt, i
  <2>5. Left("after_number", stack, closes, role, i + 1)
    BY <2>2, <2>3, <2>4, NumberHere DEF Left, NumberPcs
  <2> QED
    BY <2>1, <2>2, <2>5 DEF GoesOn, Ahead
<1> QED
  BY <1>1, <1>2

LEMMA PostDigitGoesOn ==
  ASSUME AcceptInv, IsJson, Take, pc \in NumberPcs, NEW closes, Planned(stack, closes),
         NEW j \in Places, MayEnd(stack, closes, Len(stack), j),
         FractionPart(total_read + 1, j), PostDigit(Byte)
  PROVE  GoesOn
<1> DEFINE i == total_read + 1
<1>1. /\ Text /\ i \in Places /\ i \in Nat /\ i < End /\ (\A S : At(i, S) <=> Byte \in S)
      /\ j \in Nat
  <2>1. Text /\ i \in Places /\ i \in Nat /\ i \in 1 .. Len(body) /\ (\A S : At(i, S) <=> Byte \in S)
    BY LeftHere, Here, BodyFacts
  <2> QED
    BY <2>1, BodyFacts
<1>2. PICK e \in i .. j : /\ \/ i = e
                             \/ At(i, {"."}) /\ AllDigits(i + 1, e) /\ i + 2 <= e
                          /\ ExponentPart(e, j)
  BY DEF FractionPart
<1> HIDE DEF i
<1>3. CASE At(i, {"."}) /\ AllDigits(i + 1, e) /\ i + 2 <= e
  <2>1. Stays("fraction") /\ "fraction" \in NumberPcs
    BY <1>1, <1>3 DEF PostDigit, NumberPcs
  <2>2. NumberLeft("fraction", i + 1, j)
    <3>1. e \in i + 1 .. j /\ i + 1 <= j
      BY <1>1, <1>3
    <3> QED
      BY <1>2, <1>3, <3>1 DEF NumberLeft
  <2> QED
    BY <2>1, <2>2, StaysGoesOn DEF i
<1>4. CASE i = e /\ i = j
  <2>1. At(i, Terminators)
    BY <1>1, <1>4, EndByte
  <2>2. Byte \notin {".", "e"}
    BY <1>1, <2>1 DEF Terminators, Space
  <2>3. NumberEnds(Byte)
    BY <2>2 DEF PostDigit
  <2> QED
    BY <1>4, <2>3, NumberEndsGoesOn DEF i
<1>5. CASE i = e /\ At(i, {"e"}) /\ ExponentLeft(i + 1, j)
  <2>1. Stays("exponent_sign") /\ "exponent_sign" \in NumberPcs
    BY <1>1, <1>5 DEF PostDigit, NumberPcs
  <2>2. NumberLeft("exponent_sign", i + 1, j)
    <3>1. i + 1 <= j
      BY <1>1, <1>5 DEF ExponentLeft
    <3> QED
      BY <1>5, <3>1 DEF NumberLeft
  <2> QED
    BY <2>1, <2>2, StaysGoesOn DEF i
<1> QED
  BY <1>2, <1>3, <1>4, <1>5 DEF ExponentPart

LEMMA ReadNumberGoesOn ==
  ASSUME AcceptInv, IsJson, ReadNumber
  PROVE  GoesOn
<1> DEFINE i == total_read + 1
           n == Len(stack)
<1>1. pc \in NumberPcs /\ Take /\ Number
  BY DEF ReadNumber, Number
<1>2. /\ Text /\ i \in Places /\ i \in Nat /\ i < End /\ (\A S : At(i, S) <=> Byte \in S)
      /\ body[i] = Byte
  <2>1. Text /\ i \in Places /\ i \in Nat /\ i \in 1 .. Len(body) /\ (\A S : At(i, S) <=> Byte \in S)
    BY <1>1, LeftHere, Here, BodyFacts
  <2> QED
    BY <2>1, BodyFacts DEF Byte
<1>3. PICK closes : \E j \in Places : /\ Planned(stack, closes) /\ NumberLeft(pc, i, j)
                                      /\ MayEnd(stack, closes, n, j)
  BY <1>1, NumberHere
<1>4. PICK j \in Places : /\ Planned(stack, closes) /\ NumberLeft(pc, i, j)
                          /\ MayEnd(stack, closes, n, j)
  BY <1>3
<1>5. j \in Nat /\ i <= j
  BY <1>2, <1>4, BodyFacts DEF NumberLeft
<1> HIDE DEF i
<1>6. i = j => Byte \in Terminators
  BY <1>2, <1>4, EndByte
<1>7. Terminators \cap (Digits \cup {".", "e", "+", "-"}) = {}
  BY DEF Terminators, Digits, Space
<1>8. \A k : AllDigits(i, k) /\ i < k /\ k \in Nat => Byte \in Digits /\ AllDigits(i + 1, k)
  <2> SUFFICES ASSUME NEW k \in Nat, AllDigits(i, k), i < k
               PROVE  Byte \in Digits /\ AllDigits(i + 1, k)
    OBVIOUS
  <2>1. i \in i .. k - 1 /\ \A l \in i + 1 .. k - 1 : l \in i .. k - 1
    BY <1>2
  <2> QED
    BY <1>2, <2>1 DEF AllDigits
<1>9. \A p \in NumberPcs : NumberLeft(p, i + 1, j) /\ Stays(p) => GoesOn
  BY <1>1, <1>4, StaysGoesOn DEF i
<1>10. ASSUME FractionPart(i, j), PostDigit(Byte) PROVE GoesOn
  BY <1>1, <1>4, <1>10, PostDigitGoesOn DEF i
<1>11. ASSUME i = j, NumberEnds(Byte) PROVE GoesOn
  BY <1>1, <1>4, <1>11, NumberEndsGoesOn DEF i
<1>12. CASE pc = "minus"
  <2>1. PICK point \in i + 1 .. j : /\ AllDigits(i, point) /\ FractionPart(point, j)
                                    /\ body[i] = "0" => point = i + 1
    BY <1>4, <1>12 DEF NumberLeft
  <2>2. Byte \in Digits /\ AllDigits(i + 1, point) /\ i + 1 <= j
    BY <1>2, <1>5, <1>8, <2>1
  <2>3. CASE Byte = "0"
    <3>1. Stays("zero") /\ "zero" \in NumberPcs
      BY <1>1, <1>12, <2>3 DEF Number, NumberPcs, Digits
    <3>2. NumberLeft("zero", i + 1, j)
      BY <1>2, <2>1, <2>2, <2>3 DEF NumberLeft
    <3> QED
      BY <1>9, <3>1, <3>2
  <2>4. CASE Byte # "0"
    <3>1. Stays("digits") /\ "digits" \in NumberPcs
      BY <1>1, <1>12, <2>2, <2>4 DEF Number, NumberPcs
    <3>2. NumberLeft("digits", i + 1, j)
      BY <1>2, <2>1, <2>2 DEF NumberLeft
    <3> QED
      BY <1>9, <3>1, <3>2
  <2> QED
    BY <2>3, <2>4
<1>13. CASE pc = "zero"
  <2>1. FractionPart(i, j) /\ PostDigit(Byte)
    BY <1>1, <1>4, <1>13 DEF NumberLeft, Number
  <2> QED
    BY <1>10, <2>1
<1>14. CASE pc = "digits"
  <2>1. PICK point \in i .. j : AllDigits(i, point) /\ FractionPart(point, j)
    BY <1>4, <1>14 DEF NumberLeft
  <2>2. CASE i < point
    <3>1. Byte \in Digits /\ AllDigits(i + 1, point) /\ i + 1 <= j /\ point \in i + 1 .. j
      BY <1>2, <1>5, <1>8, <2>1, <2>2
    <3>2. Stays("digits") /\ "digits" \in NumberPcs
      BY <1>1, <1>14, <3>1 DEF Number, NumberPcs
    <3>3. NumberLeft("digits", i + 1, j)
      BY <2>1, <3>1 DEF NumberLeft
    <3> QED
      BY <1>9, <3>2, <3>3
  <2>3. CASE i = point
    <3>1. FractionPart(i, j)
      BY <2>1, <2>3
    <3>2. Byte \notin Digits
      <4>1. i = j \/ Byte \in {".", "e"}
        BY <1>2, <3>1 DEF FractionPart, ExponentPart
      <4> QED
        BY <1>6, <1>7, <4>1 DEF Digits
    <3>3. PostDigit(Byte)
      BY <1>1, <1>14, <3>2 DEF Number
    <3> QED
      BY <1>10, <3>1, <3>3
  <2> QED
    BY <1>2, <1>5, <2>1, <2>2, <2>3
<1>15. CASE pc = "fraction"
  <2>1. PICK e \in i .. j : AllDigits(i, e) /\ ExponentPart(e, j)
    BY <1>4, <1>15 DEF NumberLeft
  <2>2. CASE i < e
    <3>1. Byte \in Digits /\ AllDigits(i + 1, e) /\ i + 1 <= j /\ e \in i + 1 .. j
      BY <1>2, <1>5, <1>8, <2>1, <2>2
    <3>2. Stays("fraction") /\ "fraction" \in NumberPcs
      BY <1>1, <1>15, <3>1 DEF Number, NumberPcs, Digits
    <3>3. NumberLeft("fraction", i + 1, j)
      BY <2>1, <3>1 DEF NumberLeft
    <3> QED
      BY <1>9, <3>2, <3>3
  <2>3. CASE i = e /\ i = j
    <3>1. NumberEnds(Byte)
      BY <1>1, <1>6, <1>7, <1>15, <2>3 DEF Number
    <3> QED
      BY <1>11, <2>3, <3>1
  <2>4. CASE i = e /\ At(i, {"e"}) /\ ExponentLeft(i + 1, j)
    <3>1. Stays("exponent_sign") /\ "exponent_sign" \in NumberPcs
      BY <1>1, <1>2, <1>15, <2>4 DEF Number, NumberPcs, Digits
    <3>2. NumberLeft("exponent_sign", i + 1, j)
      BY <1>2, <1>5, <2>4 DEF NumberLeft, ExponentLeft
    <3> QED
      BY <1>9, <3>1, <3>2
  <2> QED
    BY <1>2, <1>5, <2>1, <2>2, <2>3, <2>4 DEF ExponentPart
<1>16. CASE pc = "exponent_sign"
  <2>1. PICK digits \in {i, i + 1} : /\ digits = i + 1 => At(i, {"+", "-"})
                                     /\ digits + 1 <= j /\ AllDigits(digits, j)
    BY <1>4, <1>16 DEF NumberLeft, ExponentLeft
  <2>2. Byte \in Digits \cup {"+", "-"} /\ AllDigits(i + 1, j) /\ i + 1 <= j
    <3>1. CASE digits = i
      BY <1>2, <1>5, <1>8, <2>1, <3>1
    <3>2. CASE digits = i + 1
      BY <1>2, <1>5, <2>1, <3>2
    <3> QED
      BY <2>1, <3>1, <3>2
  <2>3. Stays("exponent") /\ "exponent" \in NumberPcs
    BY <1>1, <1>16, <2>2 DEF Number, NumberPcs
  <2>4. NumberLeft("exponent", i + 1, j)
    BY <2>2 DEF NumberLeft
  <2> QED
    BY <1>9, <2>3, <2>4
<1>17. CASE pc = "exponent"
  <2>1. AllDigits(i, j)
    BY <1>4, <1>17 DEF NumberLeft
  <2>2. CASE i < j
    <3>1. Byte \in Digits /\ AllDigits(i + 1, j) /\ i + 1 <= j
      BY <1>2, <1>5, <1>8, <2>1, <2>2
    <3>2. Stays("exponent") /\ "exponent" \in NumberPcs
      BY <1>1, <1>17, <3>1 DEF Number, NumberPcs
    <3>3. NumberLeft("exponent", i + 1, j)
      BY <3>1 DEF NumberLeft
    <3> QED
      BY <1>9, <3>2, <3>3
  <2>3. CASE i = j
    <3>1. NumberEnds(Byte)
      BY <1>1, <1>6, <1>7, <1>17, <2>3 DEF Number
    <3> QED
      BY <1>11, <2>3, <3>1
  <2> QED
    BY <1>2, <1>5, <2>2, <2>3
<1> QED
  BY <1>1, <1>12, <1>13, <1>14, <1>15, <1>16, <1>17 DEF NumberPcs

(***************************************************************************)
(* The end of the body.                                                    *)
(***************************************************************************)
LEMMA AtEnd ==
  ASSUME Text
  PROVE  /\ SkipFrom(End) = End /\ \A i, S : i \in {End, End + 1} => ~At(i, S)
         /\ \A i : i \in {End, End + 1, End + 2} => StringEnds[i] = 0
         /\ \A thing \in {"value", "values", "members"} : StrictEnds(thing, End) = {}
<1>1. End \in Nat /\ End \in Places /\ \A i, S : i \in {End, End + 1} => ~At(i, S)
  BY BodyFacts
<1>2. SkipFrom(End) = End
  BY <1>1, SkipStep
<1>3. \A i : i \in {End, End + 1, End + 2} => StringEnds[i] = 0
  <2> SUFFICES ASSUME NEW i \in {End, End + 1, End + 2} PROVE StringEnds[i] = 0
    OBVIOUS
  <2>1. i \in 1 .. End + 3 /\ i >= End
    BY <1>1, BodyFacts
  <2>2. StringEnds[i] = StringStep(StringEnds, i)
    BY <2>1, StringEquation
  <2> QED
    BY <2>1, <2>2 DEF StringStep
<1>4. ASSUME NEW thing \in {"value", "values", "members"} PROVE StrictEnds(thing, End) = {}
  <2>1. StrictEnds(thing, End) \subseteq End + 1 .. End
    BY <1>1, StrictType
  <2> QED
    BY <1>1, <2>1
<1> QED
  BY <1>1, <1>2, <1>3, <1>4

\* Nothing is left but the end of a value.
LEMMA NothingLeft ==
  ASSUME Text, NEW p \in Readings, NEW st \in Stacks, NEW closes,
         NEW rl \in {"key", "value"}, Left(p, st, closes, rl, End)
  PROVE  (p \in {"after"} \cup (NumberPcs \ {"minus"}) /\ st = << >>) \/ NumberThenSpace
<1> DEFINE n == Len(st)
<1>1. /\ End \in Nat /\ End \in Places /\ (End - 1) + 1 = End /\ End = Len(body) + 1
      /\ Len(body) \in Nat /\ End - 1 = Len(body) /\ End >= 1
  BY BodyFacts
<1>2. MayEnd(st, closes, n, End) => st = << >>
  <2>1. MayEnd(st, closes, n, End) => n = 0
    <3>1. SkipFrom(End) = End /\ \A S : ~At(End, S)
      BY AtEnd
    <3> HIDE DEF n
    <3> QED
      BY <3>1 DEF MayEnd, ListEndsAt
  <2>2. n = 0 => st = << >>
    BY StackFacts
  <2> QED
    BY <2>1, <2>2
<1> HIDE DEF n
<1>3. ~ValueDue(st, closes, End)
  BY <1>1, AtEnd DEF ValueDue
<1>4. \A kind \in Kinds : ~ListDue(st, closes, kind, End)
  <2> SUFFICES ASSUME NEW kind \in Kinds PROVE ~ListDue(st, closes, kind, End)
    OBVIOUS
  <2>1. StrictEnds(List(kind), End) = {}
    BY ListKind, AtEnd DEF Lists
  <2>2. \A c : ~ListTo(kind, c, End) /\ ~ListEndsAt(kind, c, End)
    BY <2>1, AtEnd DEF ListTo, ListEndsAt
  <2> QED
    BY <2>2 DEF ListDue
<1>5. ~ColonDue(st, closes, End)
  BY AtEnd DEF ColonDue
<1>6. ~StringDue(st, closes, rl, End) /\ ~StringDue(st, closes, rl, End + 1)
  BY AtEnd DEF StringDue
<1>7. ~(At(End - 1, {"backslash"}) /\ StringDue(st, closes, rl, End - 1))
  <2> SUFFICES ASSUME At(End - 1, {"backslash"}) PROVE StringEnds[End - 1] = 0
    BY DEF StringDue
  <2>1. /\ End - 1 \in Places /\ End - 1 < End /\ (End - 1) + 3 = End + 2 /\ (End - 1) + 2 = End + 1
        /\ ~At(End - 1, {"quote"}) /\ At(End - 1, {"backslash", "lead"})
    BY <1>1, BodyFacts DEF At
  <2> QED
    BY <2>1, StringEndsAt, AtEnd
<1>8. p # "keyword"
  BY AtEnd DEF Left
<1>9. p \in NumberPcs => p # "minus" /\ MayEnd(st, closes, n, End)
  <2> SUFFICES ASSUME p \in NumberPcs PROVE p # "minus" /\ MayEnd(st, closes, n, End)
    OBVIOUS
  <2>1. PICK j \in Places : NumberLeft(p, End, j) /\ MayEnd(st, closes, n, j)
    BY DEF Left, NumberDue, n
  <2>2. j = End
    BY <1>1, <2>1, BodyFacts DEF NumberLeft
  <2>3. End + 1 .. End = {}
    BY <1>1
  <2> QED
    BY <2>1, <2>2, <2>3 DEF NumberLeft
<1>10. p = "after_number" /\ st = << >> => NumberThenSpace
  <2> SUFFICES ASSUME p = "after_number", st = << >> PROVE NumberThenSpace
    OBVIOUS
  <2>1. At(End - 1, {Space}) /\ At(SkipFrom(1), {"-"} \cup Digits)
    BY DEF Left
  <2>2. body[Len(body)] = Space /\ At(SkipFrom(1), {"-", "0", "1"})
    BY <1>1, <2>1 DEF At, Digits
  <2> QED
    BY <2>2 DEF NumberThenSpace
<1>11. p = "first" \/ p = "member" => ValueDue(st, closes, End)
  BY DEF Left
<1>12. p \in {"after", "after_number"} => MayEnd(st, closes, n, End)
  BY DEF Left, n
<1>13. p \notin {"key", "element"}
  BY <1>4 DEF Left, Kinds
<1>14. p \notin {"string", "char", "unit", "escape", "colon"}
  BY <1>5, <1>6, <1>7 DEF Left
<1> QED
  BY <1>2, <1>3, <1>8, <1>9, <1>10, <1>11, <1>12, <1>13, <1>14 DEF Readings

LEMMA EofReturns ==
  ASSUME AcceptInv, IsJson, Eof
  PROVE  /\ pc' = "done" \/ (pc' = "failed" /\ NumberThenSpace)
         /\ total_read' = total_read /\ total_read = Len(body)
<1>1. /\ total_read' = total_read /\ total_read = Len(body) /\ pc \notin {"done", "failed"}
      /\ pc' = IF EofAllowed THEN "done" ELSE "failed"
  BY DEF Eof
<1>2. ParserTypes /\ Ahead(pc, stack, role, total_read + 1)
  BY DEF AcceptInv, ParserInv, Awaiting
<1>3. Text /\ stack \in Stacks /\ role \in {"key", "value"} /\ pc \in Readings
  BY <1>1, <1>2 DEF ParserTypes
<1>4. total_read + 1 = End
  BY <1>1, <1>3, BodyFacts
<1>5. \E closes : Left(pc, stack, closes, role, End)
  BY <1>2, <1>3, <1>4 DEF Ahead
<1>6. (pc \in {"after"} \cup (NumberPcs \ {"minus"}) /\ stack = << >>) \/ NumberThenSpace
  BY <1>3, <1>5, NothingLeft
<1> QED
  BY <1>1, <1>6 DEF EofAllowed

(***************************************************************************)
(* The whole.                                                              *)
(***************************************************************************)
LEMMA AcceptInit ==
  ASSUME Init
  PROVE  AcceptInv
<1>1. /\ pc = "first" /\ stack = << >> /\ total_read = 0 /\ total_read + 1 = 1
  BY DEF Init
<1>2. ParserInv /\ Text
  BY ParserInit DEF ParserInv, ParserTypes
<1>3. ASSUME IsJson PROVE Ahead("first", << >>, role, 1)
  <2> DEFINE closes == [k \in {} |-> 0]
  <2>1. Len(<< >>) = 0 /\ 1 .. 0 = {} /\ << >> \in Stacks
    BY EmptySeq DEF Stacks
  <2>2. closes \in [1 .. 0 -> Places]
    BY <2>1
  <2> HIDE DEF closes
  <2>3. Planned(<< >>, closes)
    BY <2>1, <2>2 DEF Planned
  <2>4. PICK j \in OuterEnds(Strict) : SkipFrom(j) = End
    BY <1>3 DEF IsJson
  <2>5. SkipFrom(1) # End /\ j \in StrictEnds("value", SkipFrom(1))
    BY <2>4 DEF OuterEnds, StrictEnds
  <2>6. SkipFrom(1) < End
    BY <1>2, <2>5, Skip, BodyFacts
  <2>7. MayEnd(<< >>, closes, Len(<< >>), j)
    BY <2>1, <2>4 DEF MayEnd
  <2>8. ValueDue(<< >>, closes, 1)
    BY <2>5, <2>6, <2>7 DEF ValueDue
  <2>9. Left("first", << >>, closes, role, 1)
    BY <2>8 DEF Left, NumberPcs
  <2> QED
    BY <2>3, <2>9 DEF Ahead
<1> QED
  BY <1>1, <1>2, <1>3 DEF AcceptInv, Awaiting

\* A step that goes on keeps the invariant.
LEMMA GoingOn ==
  ASSUME ParserInv', body' = body, GoesOn
  PROVE  AcceptInv'
<1>1. pc' \notin {"done", "failed"}
  BY DEF GoesOn, Readings, NumberPcs
<1>2. Awaiting'
  BY SameAhead DEF GoesOn, Awaiting
<1> QED
  BY <1>1, <1>2 DEF AcceptInv

LEMMA BodyStays ==
  ASSUME [Next]_vars
  PROVE  body' = body
<1>1. Take => body' = body
  BY DEF Take
<1> QED
  BY <1>1 DEF Next, vars, SkipSpace, After, Eof, BeginObject, BeginArray, EndEmptyArray,
              BeginString, BeginNumber, BeginKeyword, UnexpectedValue, Value, Keyword, Key, Colon,
              StringChar, RestOfChar, Backslash, Escape, Unit, EndString, ReadNumber, Number

LEMMA AcceptStep ==
  ASSUME AcceptInv, [Next]_vars
  PROVE  AcceptInv'
<1>1. ParserInv' /\ body' = body
  BY ParserStep, BodyStays DEF AcceptInv
<1>2. CASE ~IsJson
  BY <1>1, <1>2, SameStrict DEF AcceptInv
<1>3. CASE IsJson /\ UNCHANGED vars
  <2>1. /\ total_read' = total_read /\ pc' = pc /\ stack' = stack /\ role' = role
    BY <1>3 DEF vars, string
  <2>2. Ahead(pc, stack, role, total_read + 1)
    BY <1>3 DEF AcceptInv, Awaiting
  <2>3. Ahead(pc', stack', role', total_read' + 1)
    BY <2>1, <2>2
  <2>4. Awaiting'
    BY <1>1, <2>3, SameAhead DEF Awaiting
  <2>5. /\ pc' = "failed" => NumberThenSpace'
        /\ pc' = "done" => total_read' = Len(body')
    BY <1>1, <1>3, <2>1, SameStrict DEF AcceptInv
  <2> QED
    BY <1>1, <2>4, <2>5 DEF AcceptInv
<1>4. CASE IsJson /\ Eof
  <2>1. /\ pc' = "done" \/ (pc' = "failed" /\ NumberThenSpace')
        /\ total_read' = Len(body')
    BY <1>1, <1>4, EofReturns, SameStrict
  <2>2. Ahead(pc', stack', role', total_read' + 1)
    BY <2>1 DEF Ahead, Readings, NumberPcs
  <2>3. Awaiting'
    BY <1>1, <2>2, SameAhead DEF Awaiting
  <2> QED
    BY <1>1, <2>1, <2>3 DEF AcceptInv
<1>5. CASE IsJson /\ Next /\ ~Eof
  <2>1. GoesOn
    BY <1>5, SkipSpaceGoesOn, AfterGoesOn, BeginObjectGoesOn, BeginArrayGoesOn,
       EndEmptyArrayGoesOn, BeginStringGoesOn, BeginNumberGoesOn, BeginKeywordGoesOn,
       UnexpectedValueGoesOn, KeywordGoesOn, KeyGoesOn, ColonGoesOn, StringCharGoesOn,
       RestOfCharGoesOn, BackslashGoesOn, EscapeGoesOn, UnitGoesOn, EndStringGoesOn,
       ReadNumberGoesOn DEF Next
  <2> QED
    BY <1>1, <2>1, GoingOn
<1> QED
  BY <1>2, <1>3, <1>4, <1>5

\* A body that is JSON is parsed to its end, however its values are nested and spaced,
\* unless it is a number with white space behind it (parse.rs 362-384): no value is
\* refused and none is left half read.
THEOREM AcceptsJsonHolds == Spec => []AcceptsJson
<1>1. AcceptInv => AcceptsJson
  BY DEF AcceptInv, AcceptsJson, Returned
<1> QED
  BY <1>1, AcceptInit, AcceptStep, PTL DEF Spec

(***************************************************************************)
(* What the text of a string is, and what is collected of it.              *)
(***************************************************************************)
\* The second set is part of the first, which the provers do not know.
Characters == STRING \cup {"newline", "pair", "bmp", "high", "low", "replacement", "wide"}
Elements == Seq(Characters)

LEMMA Joins ==
  ASSUME NEW S, NEW s \in Seq(S), NEW t \in Seq(S), NEW u \in Seq(S)
  PROVE  /\ s \o t \in Seq(S) /\ (s \o t) \o u = s \o (t \o u)
         /\ s \o << >> = s /\ << >> \o s = s
         /\ \A e \in S : /\ << e >> \in Seq(S) /\ Append(s, e) \in Seq(S)
                         /\ Append(s, e) = s \o << e >> /\ Append(s, e) \o t = s \o (<< e >> \o t)
<1>1. s \o t \in Seq(S) /\ (s \o t) \o u = s \o (t \o u) /\ s \o << >> = s /\ << >> \o s = s
  BY ConcatProperties, ConcatAssociative, ConcatEmptySeq
<1>2. ASSUME NEW e \in S
      PROVE  /\ << e >> \in Seq(S) /\ Append(s, e) \in Seq(S)
             /\ Append(s, e) = s \o << e >> /\ Append(s, e) \o t = s \o (<< e >> \o t)
  <2>1. << e >> \in Seq(S)
    OBVIOUS
  <2>2. Append(s, e) = s \o << e >> /\ Append(s, e) \in Seq(S)
    BY AppendProperties, AppendIsConcat
  <2>3. (s \o << e >>) \o t = s \o (<< e >> \o t)
    BY <2>1, ConcatAssociative
  <2> QED
    BY <2>1, <2>2, <2>3
<1> QED
  BY <1>1, <1>2

Half(j, k, h) == k + 2 < j /\ body[k] = "backslash" /\ body[k + 1] = "u" /\ body[k + 2] = h

TextStep(j, t, k) ==
  IF k >= j THEN << >>
  ELSE IF Half(j, k, "high") /\ Half(j, k + 3, "low") THEN <<"pair">> \o t[k + 6]
  ELSE IF Half(j, k, "bmp") THEN <<"bmp">> \o t[k + 3]
  ELSE IF At(k, {"backslash"}) /\ At(k + 1, {"u"}) THEN <<"replacement">> \o t[k + 3]
  ELSE IF At(k, {"backslash"}) /\ At(k + 1, {"lead"}) THEN <<"wide">> \o t[k + 3]
  ELSE IF At(k, {"backslash"}) THEN <<Unescaped(body[k + 1])>> \o t[k + 2]
  ELSE IF At(k, {"lead"}) THEN <<"wide">> \o t[k + 2]
  ELSE <<body[k]>> \o t[k + 1]

LEMMA TextEquation ==
  ASSUME Text, NEW j \in 1 .. Len(body)
  PROVE  \A k \in 1 .. j + 3 : /\ TextTo(j)[k] = TextStep(j, TextTo(j), k)
                               /\ TextTo(j)[k] \in Elements
<1> DEFINE n == j + 3
           I == 1 .. n
           V == Elements
           H == [q \in [I -> V] \X I |-> TextStep(j, q[1], q[2])]
<1>1. n \in Nat /\ V # {} /\ << >> \in V /\ j \in Nat /\ Len(body) \in Nat
  <2>1. << >> \in Elements
    BY EmptySeq DEF Elements
  <2> QED
    BY <2>1, BodyFacts
<1>2. \A e \in Characters : \A t \in V : <<e>> \o t \in V
  BY Joins DEF Elements
<1>3. \A k \in 1 .. Len(body) : body[k] \in Characters
  BY ElementOfSeq DEF Text, Characters
<1>4. \A b \in Characters : Unescaped(b) \in Characters
  BY DEF Unescaped, Characters
<1> HIDE DEF V
<1>5. ASSUME NEW f, NEW k \in I, \A y \in I : y > k => f[y] \in V
      PROVE  TextStep(j, f, k) \in V
  <2>1. k < j => /\ k + 1 \in I /\ k + 2 \in I /\ k + 3 \in I /\ k \in 1 .. Len(body)
                 /\ k + 1 \in 1 .. Len(body) /\ k + 1 > k /\ k + 2 > k /\ k + 3 > k
    BY <1>1
  <2>2. Half(j, k + 3, "low") => k + 6 \in I /\ k + 6 > k
    BY <1>1 DEF Half
  <2>3. k >= j \/ k < j
    BY <1>1
  <2>4. k < j => body[k] \in Characters /\ Unescaped(body[k + 1]) \in Characters
    BY <1>3, <1>4, <2>1
  <2>5. {"pair", "bmp", "replacement", "wide"} \subseteq Characters
    BY DEF Characters
  <2> QED
    BY <1>1, <1>2, <1>5, <2>1, <2>2, <2>3, <2>4, <2>5 DEF TextStep
<1>6. \A f \in [I -> V], k \in I : H[<<f, k>>] = TextStep(j, f, k)
  OBVIOUS
<1>7. StepsAhead(n, V, H)
  <2>1. \A f \in [I -> V] : \A k \in I : H[<<f, k>>] \in V
    <3> SUFFICES ASSUME NEW f \in [I -> V], NEW k \in I PROVE TextStep(j, f, k) \in V
      BY <1>6
    <3> HIDE DEF I
    <3> QED
      BY <1>5
  <2>2. \A f, g \in [I -> V] : \A k \in I :
          (\A y \in I : y > k => f[y] = g[y]) => H[<<f, k>>] = H[<<g, k>>]
    <3> SUFFICES ASSUME NEW f \in [I -> V], NEW g \in [I -> V], NEW k \in I,
                        \A y \in I : y > k => f[y] = g[y]
                 PROVE  H[<<f, k>>] = H[<<g, k>>]
      OBVIOUS
    <3>1. ~(k >= j) => /\ k + 1 \in I /\ k + 2 \in I /\ k + 3 \in I
                       /\ k + 1 > k /\ k + 2 > k /\ k + 3 > k
      BY <1>1
    <3>2. Half(j, k + 3, "low") => k + 6 \in I /\ k + 6 > k
      BY <1>1 DEF Half
    <3>3. /\ ~(k >= j) => f[k + 1] = g[k + 1] /\ f[k + 2] = g[k + 2] /\ f[k + 3] = g[k + 3]
          /\ Half(j, k + 3, "low") => f[k + 6] = g[k + 6]
      BY <3>1, <3>2
    <3>4. TextStep(j, f, k) = TextStep(j, g, k)
      BY <3>3 DEF TextStep
    <3> QED
      BY <1>6, <3>4
  <2>3. H = [q \in [I -> V] \X I |-> H[q]]
    OBVIOUS
  <2> HIDE DEF H, n
  <2> QED
    BY <2>1, <2>2, <2>3 DEF StepsAhead
<1> HIDE DEF H, n
<1>8. PICK f : Solves(f, 1 .. n, V, H)
  BY <1>1, <1>7, SolvedFromEnd
<1>9. f \in [I -> V] /\ \A k \in I : f[k] = TextStep(j, f, k)
  BY <1>6, <1>8 DEF Solves
<1> DEFINE Is(t) == t = [k \in 1 .. j + 3 |-> TextStep(j, t, k)]
<1>11. Is(f)
  BY <1>9 DEF I, n
<1>12. TextTo(j) = CHOOSE t : Is(t)
  BY DEF TextTo, TextStep, Half
<1> HIDE DEF Is
<1>13. Is(TextTo(j))
  BY <1>11, <1>12
<1>14. \A k \in I : TextTo(j)[k] = TextStep(j, TextTo(j), k)
  BY <1>13 DEF Is, n
<1> DEFINE T == {k \in I : TextTo(j)[k] \in V}
<1>15. ASSUME NEW k \in I, \A y \in I : y > k => y \in T PROVE k \in T
  <2>1. TextStep(j, TextTo(j), k) \in V
    <3>1. \A y \in I : y > k => TextTo(j)[y] \in V
      BY <1>15
    <3> HIDE DEF I, T
    <3> QED
      BY <1>5, <3>1
  <2> QED
    BY <1>14, <2>1
<1>16. T = 1 .. n
  <2>1. T \in SUBSET (1 .. n)
    OBVIOUS
  <2> HIDE DEF T
  <2> QED
    BY <1>1, <1>15, <2>1, FromTheEnd
<1> QED
  BY <1>14, <1>16 DEF n, V

DecodeStep(us, d, i) ==
  IF i > Len(us) THEN << >>
  ELSE IF i < Len(us) /\ us[i] = "high" /\ us[i + 1] = "low" THEN <<"pair">> \o d[i + 2]
  ELSE <<IF us[i] = "bmp" THEN "bmp" ELSE "replacement">> \o d[i + 1]

Decoded(us, d) ==
  /\ \A i \in 1 .. Len(us) + 1 : d[i] = DecodeStep(us, d, i) /\ d[i] \in Elements
  /\ DecodeUtf16(us) = d[1]

LEMMA DecodeEquation ==
  ASSUME NEW us \in Elements
  PROVE  \E d : Decoded(us, d)
<1> DEFINE n == Len(us) + 1
           I == 1 .. n
           V == Elements
           H == [q \in [I -> V] \X I |-> DecodeStep(us, q[1], q[2])]
           Is(d) == d = [i \in 1 .. Len(us) + 1 |-> DecodeStep(us, d, i)]
           found == CHOOSE d : Is(d)
<1>1. n \in Nat /\ V # {} /\ << >> \in V /\ Len(us) \in Nat
  <2>1. << >> \in Elements /\ Len(us) \in Nat
    BY EmptySeq, LenProperties DEF Elements
  <2> QED
    BY <2>1
<1>2. \A e \in Characters : \A t \in V : <<e>> \o t \in V
  BY Joins DEF Elements
<1> HIDE DEF V, Is
<1>3. ASSUME NEW f, NEW i \in I, \A y \in I : y > i => f[y] \in V
      PROVE  DecodeStep(us, f, i) \in V
  <2>1. /\ ~(i > Len(us)) => i + 1 \in I /\ i + 1 > i
        /\ i < Len(us) => i + 2 \in I /\ i + 2 > i
    BY <1>1
  <2>2. {"pair", "bmp", "replacement"} \subseteq Characters
    BY DEF Characters
  <2> QED
    BY <1>1, <1>2, <1>3, <2>1, <2>2 DEF DecodeStep
<1>4. \A f \in [I -> V], i \in I : H[<<f, i>>] = DecodeStep(us, f, i)
  OBVIOUS
<1>5. StepsAhead(n, V, H)
  <2>1. \A f \in [I -> V] : \A i \in I : H[<<f, i>>] \in V
    <3> SUFFICES ASSUME NEW f \in [I -> V], NEW i \in I PROVE DecodeStep(us, f, i) \in V
      BY <1>4
    <3> HIDE DEF I
    <3> QED
      BY <1>3
  <2>2. \A f, g \in [I -> V] : \A i \in I :
          (\A y \in I : y > i => f[y] = g[y]) => H[<<f, i>>] = H[<<g, i>>]
    <3> SUFFICES ASSUME NEW f \in [I -> V], NEW g \in [I -> V], NEW i \in I,
                        \A y \in I : y > i => f[y] = g[y]
                 PROVE  H[<<f, i>>] = H[<<g, i>>]
      OBVIOUS
    <3>1. /\ ~(i > Len(us)) => i + 1 \in I /\ i + 1 > i
          /\ i < Len(us) => i + 2 \in I /\ i + 2 > i
      BY <1>1
    <3>2. /\ ~(i > Len(us)) => f[i + 1] = g[i + 1]
          /\ i < Len(us) => f[i + 2] = g[i + 2]
      BY <3>1
    <3>3. DecodeStep(us, f, i) = DecodeStep(us, g, i)
      BY <3>2 DEF DecodeStep
    <3> QED
      BY <1>4, <3>3
  <2>3. H = [q \in [I -> V] \X I |-> H[q]]
    OBVIOUS
  <2> HIDE DEF H, n
  <2> QED
    BY <2>1, <2>2, <2>3 DEF StepsAhead
<1> HIDE DEF H, n
<1>6. PICK f : Solves(f, 1 .. n, V, H)
  BY <1>1, <1>5, SolvedFromEnd
<1>7. f \in [I -> V] /\ \A i \in I : f[i] = DecodeStep(us, f, i)
  BY <1>4, <1>6 DEF Solves
<1>8. Is(f)
  BY <1>7 DEF Is, n
<1>9. DecodeUtf16(us) = found[1]
  BY DEF DecodeUtf16, DecodeStep, Is
<1>10. Is(found)
  <2> HIDE DEF Is
  <2> QED
    BY <1>8
<1> HIDE DEF found
<1>11. \A i \in I : found[i] = DecodeStep(us, found, i)
  BY <1>10 DEF Is, n
<1> DEFINE T == {i \in I : found[i] \in V}
<1>12. ASSUME NEW i \in I, \A y \in I : y > i => y \in T PROVE i \in T
  <2>1. DecodeStep(us, found, i) \in V
    <3>1. \A y \in I : y > i => found[y] \in V
      BY <1>12
    <3> HIDE DEF I, T
    <3> QED
      BY <1>3, <3>1
  <2> QED
    BY <1>11, <2>1
<1>13. T = 1 .. n
  <2>1. T \in SUBSET (1 .. n)
    OBVIOUS
  <2> HIDE DEF T
  <2> QED
    BY <1>1, <1>12, <2>1, FromTheEnd
<1>14. Decoded(us, found)
  BY <1>9, <1>11, <1>13 DEF Decoded, n, V
<1> QED
  BY <1>14

StringAt(i) == [start |-> i, end |-> StringEnds[i + 1]]
Spans == [start : Places, end : Places]

StringsStep(key, s, i) ==
  IF i = End THEN << >>
  ELSE IF body[i] = "quote" /\ StringEnds[i + 1] # 0
  THEN (IF IsKey(StringAt(i)) = key THEN <<StringAt(i)>> ELSE << >>) \o s[StringEnds[i + 1]]
  ELSE s[i + 1]

LEMMA StringsEquation ==
  ASSUME Text, NEW key
  PROVE  \A i \in Places : /\ StringsFrom(key)[i] = StringsStep(key, StringsFrom(key), i)
                           /\ StringsFrom(key)[i] \in Seq(Spans)
<1> DEFINE n == End
           I == 1 .. n
           V == Seq(Spans)
           H == [q \in [I -> V] \X I |-> StringsStep(key, q[1], q[2])]
           Is(s) == s = [i \in 1 .. End |-> StringsStep(key, s, i)]
           found == CHOOSE s : Is(s)
<1>1. n \in Nat /\ V # {} /\ << >> \in V /\ I = Places
  <2>1. << >> \in V
    BY EmptySeq
  <2> QED
    BY <2>1, BodyFacts
<1>2. ASSUME NEW i \in I, i # End, StringEnds[i + 1] # 0
      PROVE  /\ StringAt(i) \in Spans /\ StringEnds[i + 1] \in I /\ StringEnds[i + 1] > i
             /\ \A s \in V :
                  (IF IsKey(StringAt(i)) = key THEN <<StringAt(i)>> ELSE << >>) \o s \in V
  <2>1. i + 1 \in 1 .. End + 3 /\ i \in Places /\ i \in Nat
    BY <1>1
  <2>2. StringEnds[i + 1] \in (i + 1) + 1 .. End
    BY <1>2, <2>1, StringEquation
  <2>3. StringEnds[i + 1] \in I /\ StringEnds[i + 1] > i
    BY <1>1, <2>1, <2>2
  <2>4. StringAt(i) \in Spans
    BY <1>1, <2>1, <2>3 DEF StringAt, Spans
  <2> HIDE DEF I
  <2>5. <<StringAt(i)>> \in V
    BY <2>4
  <2> QED
    BY <1>1, <2>3, <2>4, <2>5, ConcatProperties
<1> HIDE DEF V, Is
<1>3. ASSUME NEW f, NEW i \in I, \A y \in I : y > i => f[y] \in V
      PROVE  StringsStep(key, f, i) \in V
  <2>1. i # End => i + 1 \in I /\ i + 1 > i
    BY <1>1
  <2> QED
    BY <1>1, <1>2, <1>3, <2>1 DEF StringsStep
<1>4. \A f \in [I -> V], i \in I : H[<<f, i>>] = StringsStep(key, f, i)
  OBVIOUS
<1>5. StepsAhead(n, V, H)
  <2>1. \A f \in [I -> V] : \A i \in I : H[<<f, i>>] \in V
    <3> SUFFICES ASSUME NEW f \in [I -> V], NEW i \in I PROVE StringsStep(key, f, i) \in V
      BY <1>4
    <3> HIDE DEF I
    <3> QED
      BY <1>3
  <2>2. \A f, g \in [I -> V] : \A i \in I :
          (\A y \in I : y > i => f[y] = g[y]) => H[<<f, i>>] = H[<<g, i>>]
    <3> SUFFICES ASSUME NEW f \in [I -> V], NEW g \in [I -> V], NEW i \in I,
                        \A y \in I : y > i => f[y] = g[y]
                 PROVE  H[<<f, i>>] = H[<<g, i>>]
      OBVIOUS
    <3>1. i # End => i + 1 \in I /\ i + 1 > i
      BY <1>1
    <3>2. /\ i # End => f[i + 1] = g[i + 1]
          /\ i # End /\ StringEnds[i + 1] # 0 => f[StringEnds[i + 1]] = g[StringEnds[i + 1]]
      BY <1>2, <3>1
    <3>3. StringsStep(key, f, i) = StringsStep(key, g, i)
      BY <3>2 DEF StringsStep
    <3> QED
      BY <1>4, <3>3
  <2>3. H = [q \in [I -> V] \X I |-> H[q]]
    OBVIOUS
  <2> HIDE DEF H, n
  <2> QED
    BY <2>1, <2>2, <2>3 DEF StepsAhead
<1> HIDE DEF H, n
<1>6. PICK f : Solves(f, 1 .. n, V, H)
  BY <1>1, <1>5, SolvedFromEnd
<1>7. f \in [I -> V] /\ \A i \in I : f[i] = StringsStep(key, f, i)
  BY <1>4, <1>6 DEF Solves
<1>8. Is(f)
  BY <1>7 DEF Is, n
<1>9. StringsFrom(key) = found
  BY DEF StringsFrom, StringsStep, StringAt, Is
<1>10. Is(found)
  BY <1>8
<1> HIDE DEF found
<1>11. \A i \in I : found[i] = StringsStep(key, found, i)
  BY <1>10 DEF Is, n
<1> DEFINE T == {i \in I : found[i] \in V}
<1>12. ASSUME NEW i \in I, \A y \in I : y > i => y \in T PROVE i \in T
  <2>1. StringsStep(key, found, i) \in V
    <3>1. \A y \in I : y > i => found[y] \in V
      BY <1>12
    <3> HIDE DEF I, T
    <3> QED
      BY <1>3, <3>1
  <2> QED
    BY <1>11, <2>1
<1>13. T = 1 .. n
  <2>1. T \in SUBSET (1 .. n)
    OBVIOUS
  <2> HIDE DEF T
  <2> QED
    BY <1>1, <1>12, <2>1, FromTheEnd
<1> QED
  BY <1>1, <1>9, <1>11, <1>13 DEF V

UnitAt(u, x) ==
  /\ u \in {"bmp", "high", "low"}
  /\ At(x, {"backslash"}) /\ At(x + 1, {"u"}) /\ At(x + 2, {u})

UnitsAt(us, p) == \A k \in 1 .. Len(us) : UnitAt(us[k], p + 3 * (k - 1))

EscapeU(i) == At(i, {"backslash"}) /\ At(i + 1, {"u"})

\* Escapes one after the other mean what is decoded of their digits, unless another one follows.
LEMMA UnitsDecoded ==
  ASSUME Text, NEW j \in 1 .. Len(body), NEW us \in Elements, NEW p \in Nat, p >= 1,
         UnitsAt(us, p), p + 3 * Len(us) <= j, ~EscapeU(p + 3 * Len(us))
  PROVE  /\ DecodeUtf16(us) \in Elements
         /\ TextTo(j)[p] = DecodeUtf16(us) \o TextTo(j)[p + 3 * Len(us)]
<1> DEFINE m == Len(us)
           i == p + 3 * m
           place(k) == p + 3 * (k - 1)
           t == TextTo(j)
<1>1. m \in Nat /\ i \in Nat /\ j \in Nat /\ i <= j /\ i \in 1 .. j + 3 /\ Len(body) \in Nat
  BY BodyFacts, LenProperties DEF Elements
<1>2. \A x \in 1 .. j + 3 : t[x] = TextStep(j, t, x) /\ t[x] \in Elements
  BY TextEquation
<1>3. PICK d : Decoded(us, d)
  BY DecodeEquation
<1>4. /\ \A k \in 1 .. m + 1 : d[k] = DecodeStep(us, d, k) /\ d[k] \in Elements
      /\ DecodeUtf16(us) = d[1]
  BY <1>3 DEF Decoded
<1> HIDE DEF t
<1> DEFINE T == {k \in 1 .. m + 1 : t[place(k)] = d[k] \o t[i]}
<1>5. ASSUME NEW k \in 1 .. m + 1, \A y \in 1 .. m + 1 : y > k => y \in T
      PROVE  k \in T
  <2>1. place(k) \in 1 .. j + 3
    BY <1>1
  <2>2. CASE k = m + 1
    <3>1. place(k) = i
      BY <1>1, <2>2
    <3>2. d[k] = << >>
      <4>1. k > Len(us) /\ d[k] = DecodeStep(us, d, k)
        BY <1>1, <1>4, <2>2
      <4> QED
        BY <4>1 DEF DecodeStep
    <3>3. << >> \o t[i] = t[i]
      BY <1>1, <1>2, Joins DEF Elements
    <3> QED
      BY <3>1, <3>2, <3>3
  <2>3. CASE k # m + 1
    <3> DEFINE x == place(k)
    <3>1. /\ k \in 1 .. m /\ k + 1 \in 1 .. m + 1 /\ x \in Nat /\ x >= 1 /\ x + 3 <= i
          /\ place(k + 1) = x + 3 /\ place(k + 2) = x + 6 /\ k + 1 > k /\ k + 2 > k
          /\ k < m => k + 1 \in 1 .. m /\ k + 2 \in 1 .. m + 1 /\ x + 6 <= i
          /\ ~(k < m) => x + 3 = i
      BY <1>1, <2>3
    <3>2. UnitAt(us[k], x) /\ (k < m => UnitAt(us[k + 1], x + 3))
      <4>1. \A l \in 1 .. m : UnitAt(us[l], place(l))
        BY DEF UnitsAt
      <4> HIDE DEF place
      <4> QED
        BY <3>1, <4>1
    <3> HIDE DEF place, x, i, m
    <3>3. t[x + 3] = d[k + 1] \o t[i] /\ (k < m => t[x + 6] = d[k + 2] \o t[i])
      <4>1. k + 1 \in T /\ (k < m => k + 2 \in T)
        BY <1>5, <3>1
      <4> QED
        BY <3>1, <4>1
    <3>4. /\ ~(x >= j) /\ EscapeU(x) /\ At(x, {"backslash"}) /\ At(x + 1, {"u"})
          /\ \A h : Half(j, x, h) <=> us[k] = h
      <4>1. x + 2 < j /\ ~(x >= j)
        BY <1>1, <3>1
      <4> QED
        BY <3>2, <4>1 DEF UnitAt, EscapeU, Half, At
    <3>5. Half(j, x + 3, "low") <=> k < m /\ us[k + 1] = "low"
      <4>1. CASE k < m
        <5>1. (x + 3) + 2 < j /\ (x + 3) + 1 \in Nat
          BY <1>1, <3>1, <4>1
        <5> QED
          BY <3>2, <4>1, <5>1 DEF UnitAt, Half, At
      <4>2. CASE ~(k < m)
        <5>1. Half(j, i, "low") => EscapeU(i)
          <6>1. Half(j, i, "low") => i \in 1 .. Len(body) /\ i + 1 \in 1 .. Len(body)
            BY <1>1 DEF Half
          <6> QED
            BY <6>1, BodyFacts DEF Half, EscapeU
        <5>2. ~EscapeU(i)
          BY DEF i, m
        <5> QED
          BY <3>1, <4>2, <5>1, <5>2
      <4> QED
        BY <4>1, <4>2
    <3>6. /\ us[k] \in {"bmp", "high", "low"} /\ ~(k > m)
          /\ {"pair", "bmp", "replacement"} \subseteq Characters
      BY <1>1, <3>1, <3>2 DEF UnitAt, Characters
    <3>7. /\ t[i] \in Elements /\ d[k + 1] \in Elements
          /\ k < m => d[k + 2] \in Elements
      BY <1>1, <1>2, <1>4, <3>1
    <3>8. \A e \in Characters : \A s \in Elements : <<e>> \o (s \o t[i]) = (<<e>> \o s) \o t[i]
      <4> SUFFICES ASSUME NEW e \in Characters, NEW s \in Elements
                   PROVE  <<e>> \o (s \o t[i]) = (<<e>> \o s) \o t[i]
        OBVIOUS
      <4> DEFINE u == <<e>>
                 v == t[i]
      <4>1. u \in Seq(Characters) /\ s \in Seq(Characters) /\ v \in Seq(Characters)
        BY <3>7 DEF Elements
      <4> HIDE DEF u, v
      <4>2. (u \o s) \o v = u \o (s \o v)
        BY <4>1, Joins
      <4> QED
        BY <4>2 DEF u, v
    <3>9. t[x] = TextStep(j, t, x)
      BY <1>2, <2>1 DEF x
    <3>10. d[k] = DecodeStep(us, d, k)
      BY <1>4
    <3>11. t[x] = d[k] \o t[i]
      <4>1. CASE k < m /\ us[k] = "high" /\ us[k + 1] = "low"
        <5>1. t[x] = <<"pair">> \o t[x + 6] /\ d[k] = <<"pair">> \o d[k + 2]
          BY <3>4, <3>5, <3>6, <3>9, <3>10, <4>1 DEF TextStep, DecodeStep, m
        <5> QED
          BY <3>3, <3>6, <3>7, <3>8, <4>1, <5>1
      <4>2. CASE ~(k < m /\ us[k] = "high" /\ us[k + 1] = "low")
        <5> DEFINE c == IF us[k] = "bmp" THEN "bmp" ELSE "replacement"
        <5>1. d[k] = <<c>> \o d[k + 1]
          BY <3>6, <3>10, <4>2 DEF DecodeStep, m
        <5>2. t[x] = <<c>> \o t[x + 3]
          BY <3>4, <3>5, <3>9, <4>2 DEF TextStep
        <5>3. c \in Characters
          BY <3>6
        <5> HIDE DEF c
        <5> QED
          BY <3>3, <3>7, <3>8, <5>1, <5>2, <5>3
      <4> QED
        BY <4>1, <4>2
    <3> QED
      BY <3>11 DEF x
  <2> QED
    BY <2>2, <2>3
<1>6. T = 1 .. m + 1
  <2>1. T \in SUBSET (1 .. m + 1)
    OBVIOUS
  <2>2. m + 1 \in Nat
    BY <1>1
  <2> HIDE DEF T, m
  <2> QED
    BY <1>5, <2>1, <2>2, FromTheEnd
<1>7. 1 \in 1 .. m + 1 /\ place(1) = p
  BY <1>1
<1> QED
  BY <1>4, <1>6, <1>7 DEF t

(***************************************************************************)
(* The strings of a body that is JSON get to their matchers.  Of the       *)
(* strings in front of the place reached each was handed over; inside a    *)
(* string, what was written and what the collected \u stand for is its     *)
(* text up to there.                                                       *)
(***************************************************************************)
InStrings == {"string", "char", "unit", "escape"}

\* A string begins at q.
Opens(q) == At(q, {"quote"}) /\ StringEnds[q + 1] # 0

TextFrom(q, k) == TextTo(StringEnds[q + 1] - 1)[k]

\* The text of the string at q, up to i, is o and what us stands for.
TextUpTo(o, us, q, i) ==
  /\ o \in Elements /\ us \in Elements
  /\ StringEnds[i] = StringEnds[q + 1]
  /\ ~At(i - 1, {"lead"})
  /\ \E p \in Places : /\ p + 3 * Len(us) = i /\ UnitsAt(us, p)
                       /\ TextFrom(q, q + 1) = o \o TextFrom(q, p)

\* What was collected of it, for each pc.
TextAt(p, o, us, q, i) ==
  /\ p = "string" => TextUpTo(o, us, q, i)
  /\ p = "escape" => At(i - 1, {"backslash"}) /\ TextUpTo(o, us, q, i - 1)
  /\ p = "unit" => EscapeU(i - 2) /\ TextUpTo(o, us, q, i - 2)
  /\ p = "char" => /\ o \in Elements /\ us = << >>
                   /\ At(i - 1, {"lead"}) /\ StringEnds[i + 1] = StringEnds[q + 1]
                   /\ TextFrom(q, q + 1) = Append(o, "wide") \o TextFrom(q, i + 1)

\* Where the code has a string start that begins at q.
StartOf(key, s, q) ==
  IF key THEN body[s] \in {"{", ","} /\ SkipFrom(s + 1) = q ELSE s = q - 1

Found == [text : Elements, start : Nat]
Handed(key, f, s) == f.text = TextOf(s) /\ StartOf(key, f.start, s.start)

\* The strings in front of `at` were handed over.
HandedOver(key, found, at) ==
  \E ss \in Seq(Spans) : /\ Strings(key) = ss \o StringsFrom(key)[at]
                         /\ Len(found) = Len(ss)
                         /\ \A k \in 1 .. Len(ss) : Handed(key, found[k], ss[k])
BothHandedOver(ks, vs, at) == HandedOver(TRUE, ks, at) /\ HandedOver(FALSE, vs, at)

Matching(p, s, rl, o, us, ks, vs, i) ==
  p # "failed" =>
    /\ s \in Nat /\ ks \in Seq(Found) /\ vs \in Seq(Found)
    /\ p \notin InStrings => BothHandedOver(ks, vs, i)
    /\ p \in InStrings => \E q \in Places : /\ Opens(q) /\ BothHandedOver(ks, vs, q)
                                            /\ StartOf(rl = "key", s, q)
                                            /\ TextAt(p, o, us, q, i)
    /\ p = "key" => body[s] \in {"{", ","} /\ SkipFrom(s + 1) = SkipFrom(i)

MatchingNow ==
  \E p, s, rl, o, us, ks, vs, i :
    /\ p = pc /\ s = start /\ rl = role /\ o = out /\ us = units /\ ks = keys /\ vs = values
    /\ i = total_read + 1
    /\ Matching(p, s, rl, o, us, ks, vs, i)

MatchInv == AcceptInv /\ (IsJson => MatchingNow)

\* What the lemmas about the actions prove of a step.
MatchesOn == Matching(pc', start', role', out', units', keys', values', total_read' + 1)

LEMMA SameMatching ==
  ASSUME body' = body
  PROVE  \A p, s, rl, o, us, ks, vs, i :
           Matching(p, s, rl, o, us, ks, vs, i)' <=> Matching(p, s, rl, o, us, ks, vs, i)
<1>1. \A j : TextTo(j)' = TextTo(j)
  BY DEF TextTo, At, Unescaped
<1>2. \A s : IsKey(s)' <=> IsKey(s)
  BY SameGrammar DEF IsKey
<1>3. \A key : StringsFrom(key)' = StringsFrom(key)
  BY DEF StringsFrom, IsKey, StringEnds, SkipFrom, End, At, Space
<1>4. Places' = Places /\ Spans' = Spans
  BY SameGrammar DEF Places, Spans
<1>5. \A q : Opens(q)' <=> Opens(q)
  BY SameGrammar DEF Opens
<1>6. \A q, k : TextFrom(q, k)' = TextFrom(q, k)
  BY <1>1, SameGrammar DEF TextFrom
<1>7. \A u, x : UnitAt(u, x)' <=> UnitAt(u, x)
  BY SameGrammar DEF UnitAt
<1>8. \A us, p : UnitsAt(us, p)' <=> UnitsAt(us, p)
  BY <1>7 DEF UnitsAt
<1>9. \A o, us, q, i : TextUpTo(o, us, q, i)' <=> TextUpTo(o, us, q, i)
  <2> SUFFICES ASSUME NEW o, NEW us, NEW q, NEW i
               PROVE  TextUpTo(o, us, q, i)' <=> TextUpTo(o, us, q, i)
    OBVIOUS
  <2>1. /\ Elements' = Elements /\ StringEnds' = StringEnds
        /\ At(i - 1, {"lead"})' <=> At(i - 1, {"lead"})
    BY SameGrammar DEF Elements, Characters
  <2>2. (\E p \in Places : /\ p + 3 * Len(us) = i /\ UnitsAt(us, p)
                           /\ TextFrom(q, q + 1) = o \o TextFrom(q, p))'
        <=> \E p \in Places : /\ p + 3 * Len(us) = i /\ UnitsAt(us, p)
                              /\ TextFrom(q, q + 1) = o \o TextFrom(q, p)
    BY <1>4, <1>6, <1>8
  <2> QED
    BY <2>1, <2>2 DEF TextUpTo
<1>10. \A i : EscapeU(i)' <=> EscapeU(i)
  BY SameGrammar DEF EscapeU
<1>11. \A p, o, us, q, i : TextAt(p, o, us, q, i)' <=> TextAt(p, o, us, q, i)
  <2> SUFFICES ASSUME NEW p, NEW o, NEW us, NEW q, NEW i
               PROVE  TextAt(p, o, us, q, i)' <=> TextAt(p, o, us, q, i)
    OBVIOUS
  <2>1. Elements' = Elements
    BY DEF Elements, Characters
  <2>2. /\ \A x : TextUpTo(o, us, q, x)' <=> TextUpTo(o, us, q, x)
        /\ At(i - 1, {"backslash"})' <=> At(i - 1, {"backslash"})
        /\ At(i - 1, {"lead"})' <=> At(i - 1, {"lead"})
        /\ EscapeU(i - 2)' <=> EscapeU(i - 2)
        /\ StringEnds' = StringEnds
        /\ TextFrom(q, q + 1)' = TextFrom(q, q + 1) /\ TextFrom(q, i + 1)' = TextFrom(q, i + 1)
    BY <1>6, <1>9, <1>10, SameGrammar
  <2> QED
    BY <2>1, <2>2 DEF TextAt
<1>12. \A key, s, q : StartOf(key, s, q)' <=> StartOf(key, s, q)
  BY SameGrammar DEF StartOf
<1>13. \A s : TextOf(s)' = TextOf(s)
  BY <1>1 DEF TextOf
<1>14. \A key, f, s : Handed(key, f, s)' <=> Handed(key, f, s)
  BY <1>12, <1>13 DEF Handed
<1>15. \A key, found, at : HandedOver(key, found, at)' <=> HandedOver(key, found, at)
  BY <1>3, <1>4, <1>14 DEF HandedOver, Strings
<1>16. \A ks, vs, at : BothHandedOver(ks, vs, at)' <=> BothHandedOver(ks, vs, at)
  BY <1>15 DEF BothHandedOver
<1> QED
  <2> SUFFICES ASSUME NEW p, NEW s, NEW rl, NEW o, NEW us, NEW ks, NEW vs, NEW i
               PROVE  Matching(p, s, rl, o, us, ks, vs, i)' <=> Matching(p, s, rl, o, us, ks, vs, i)
    OBVIOUS
  <2>1. Found' = Found /\ InStrings' = InStrings
    BY DEF Found, Elements, Characters, InStrings
  <2>2. /\ BothHandedOver(ks, vs, i)' <=> BothHandedOver(ks, vs, i)
        /\ SkipFrom(s + 1)' = SkipFrom(s + 1) /\ SkipFrom(i)' = SkipFrom(i)
    BY <1>16, SameGrammar
  <2>3. (\E q \in Places : /\ Opens(q) /\ BothHandedOver(ks, vs, q)
                           /\ StartOf(rl = "key", s, q) /\ TextAt(p, o, us, q, i))'
        <=> \E q \in Places : /\ Opens(q) /\ BothHandedOver(ks, vs, q)
                              /\ StartOf(rl = "key", s, q) /\ TextAt(p, o, us, q, i)
    BY <1>4, <1>5, <1>11, <1>12, <1>16
  <2> QED
    BY <2>1, <2>2, <2>3 DEF Matching

\* Where a string goes on.
LEMMA InsideString ==
  ASSUME Text, NEW q \in Places, Opens(q), NEW i \in 1 .. End + 3,
         StringEnds[i] = StringEnds[q + 1]
  PROVE  /\ StringEnds[q + 1] \in Places /\ i < StringEnds[q + 1] /\ i < End /\ i \in Places
         /\ StringEnds[q + 1] - 1 \in 1 .. Len(body)
         /\ i \in 1 .. (StringEnds[q + 1] - 1) + 3 /\ i <= StringEnds[q + 1] - 1
         /\ TextFrom(q, i) = TextStep(StringEnds[q + 1] - 1, TextTo(StringEnds[q + 1] - 1), i)
         /\ TextFrom(q, i) \in Elements
<1> DEFINE e == StringEnds[q + 1]
           j == e - 1
<1>1. End \in Nat /\ End = Len(body) + 1 /\ Len(body) \in Nat /\ Places = 1 .. End /\ i \in Nat
  BY BodyFacts
<1>2. e # 0 /\ StringEnds[i] = e
  BY DEF Opens
<1>3. e \in i + 1 .. End /\ i < End
  BY <1>1, <1>2, StringEquation DEF StringStep
<1> HIDE DEF e
<1>4. e \in Places /\ j \in 1 .. Len(body) /\ i <= j /\ i \in Places /\ i \in 1 .. j + 3 /\ i < e
  BY <1>1, <1>3
<1>5. TextTo(j)[i] = TextStep(j, TextTo(j), i) /\ TextTo(j)[i] \in Elements
  <2> HIDE DEF j
  <2> QED
    BY <1>4, TextEquation
<1> QED
  BY <1>3, <1>4, <1>5 DEF TextFrom, e

\* What a byte in a string, not of \u, adds to the text.
LEMMA TextRule ==
  ASSUME Text, NEW q \in Places, Opens(q), NEW i \in Places, StringEnds[i] = StringEnds[q + 1]
  PROVE  /\ At(i, {"quote"}) => StringEnds[q + 1] = i + 1 /\ TextFrom(q, i) = << >>
         /\ At(i, {"lead"}) => /\ TextFrom(q, i) = <<"wide">> \o TextFrom(q, i + 2)
                               /\ StringEnds[i + 2] = StringEnds[q + 1]
         /\ EscapeU(i) => StringEnds[i + 3] = StringEnds[q + 1]
         /\ At(i, {"backslash"}) /\ At(i + 1, {"lead"}) =>
              /\ TextFrom(q, i) = <<"wide">> \o TextFrom(q, i + 3)
              /\ StringEnds[i + 3] = StringEnds[q + 1]
         /\ At(i, {"backslash"}) /\ ~At(i + 1, {"lead"}) /\ ~At(i + 1, {"u"}) =>
              /\ TextFrom(q, i) = <<Unescaped(body[i + 1])>> \o TextFrom(q, i + 2)
              /\ StringEnds[i + 2] = StringEnds[q + 1]
         /\ ~At(i, {"quote", "backslash", "lead"}) =>
              /\ TextFrom(q, i) = <<body[i]>> \o TextFrom(q, i + 1)
              /\ StringEnds[i + 1] = StringEnds[q + 1]
<1> DEFINE e == StringEnds[q + 1]
           j == e - 1
           t == TextTo(j)
<1>1. End \in Nat /\ Places = 1 .. End /\ i \in Nat /\ i \in 1 .. End + 3
  BY BodyFacts
<1>2. /\ e \in Places /\ i < e /\ i < End /\ j \in 1 .. Len(body) /\ i <= j
      /\ TextFrom(q, i) = TextStep(j, t, i)
  BY <1>1, InsideString
<1>3. e = IF At(i, {"quote"}) THEN i + 1
          ELSE IF At(i, {"backslash"}) /\ At(i + 1, {"u", "lead"}) THEN StringEnds[i + 3]
          ELSE IF At(i, {"backslash", "lead"}) THEN StringEnds[i + 2]
          ELSE StringEnds[i + 1]
  BY <1>2, StringEndsAt
<1>4. \A k : TextFrom(q, k) = t[k]
  BY DEF TextFrom
<1>5. i + 1 \in 1 .. End + 3 /\ i + 2 \in 1 .. End + 3 /\ i + 3 \in 1 .. End + 3
  BY <1>1, <1>2
<1>6. \A k \in {i + 1, i + 2, i + 3} : StringEnds[k] = e => ~(i >= j)
  <2> SUFFICES ASSUME NEW k \in {i + 1, i + 2, i + 3}, StringEnds[k] = e PROVE ~(i >= j)
    OBVIOUS
  <2>1. k <= j
    BY <1>5, InsideString
  <2> QED
    BY <1>1, <1>2, <2>1
<1> HIDE DEF e, j, t
<1>7. \A S, T : At(i, S) /\ S \cap T = {} => ~At(i, T)
  BY DEF At
<1>8. \A h : Half(j, i, h) => EscapeU(i)
  <2>1. \A h : Half(j, i, h) => i \in 1 .. Len(body) /\ i + 1 \in 1 .. Len(body)
    BY <1>1, <1>2, BodyFacts DEF Half
  <2> QED
    BY <2>1, BodyFacts DEF Half, EscapeU
<1>9. ASSUME At(i, {"quote"}) PROVE e = i + 1 /\ TextFrom(q, i) = << >>
  <2>1. e = i + 1
    BY <1>3, <1>9
  <2>2. i >= j
    BY <1>1, <2>1 DEF j
  <2> QED
    BY <1>2, <2>1, <2>2 DEF TextStep
<1>10. ASSUME At(i, {"lead"})
       PROVE  TextFrom(q, i) = <<"wide">> \o TextFrom(q, i + 2) /\ StringEnds[i + 2] = e
  <2>1. ~At(i, {"quote"}) /\ ~At(i, {"backslash"}) /\ At(i, {"backslash", "lead"})
    BY <1>10 DEF At
  <2>2. StringEnds[i + 2] = e
    BY <1>3, <2>1
  <2>3. ~(i >= j) /\ \A h : ~Half(j, i, h)
    BY <1>6, <1>8, <2>1, <2>2 DEF EscapeU
  <2> QED
    BY <1>2, <1>4, <1>10, <2>1, <2>2, <2>3 DEF TextStep
<1>11. ASSUME EscapeU(i) PROVE StringEnds[i + 3] = e
  BY <1>3, <1>11 DEF EscapeU, At
<1>12. ASSUME At(i, {"backslash"}), At(i + 1, {"lead"})
       PROVE  TextFrom(q, i) = <<"wide">> \o TextFrom(q, i + 3) /\ StringEnds[i + 3] = e
  <2>1. ~At(i, {"quote"}) /\ At(i + 1, {"u", "lead"}) /\ ~At(i + 1, {"u"})
    BY <1>12 DEF At
  <2>2. StringEnds[i + 3] = e
    BY <1>3, <1>12, <2>1
  <2>3. ~(i >= j) /\ \A h : ~Half(j, i, h)
    BY <1>6, <1>8, <2>1, <2>2 DEF EscapeU
  <2> QED
    BY <1>2, <1>4, <1>12, <2>1, <2>2, <2>3 DEF TextStep
<1>13. ASSUME At(i, {"backslash"}), ~At(i + 1, {"lead"}), ~At(i + 1, {"u"})
       PROVE  /\ TextFrom(q, i) = <<Unescaped(body[i + 1])>> \o TextFrom(q, i + 2)
              /\ StringEnds[i + 2] = e
  <2>1. ~At(i, {"quote"}) /\ ~At(i + 1, {"u", "lead"}) /\ At(i, {"backslash", "lead"})
    BY <1>13 DEF At
  <2>2. StringEnds[i + 2] = e
    BY <1>3, <2>1
  <2>3. ~(i >= j) /\ \A h : ~Half(j, i, h)
    BY <1>6, <1>8, <1>13, <2>2 DEF EscapeU
  <2> QED
    BY <1>2, <1>4, <1>13, <2>1, <2>2, <2>3 DEF TextStep
<1>14. ASSUME ~At(i, {"quote", "backslash", "lead"})
       PROVE  TextFrom(q, i) = <<body[i]>> \o TextFrom(q, i + 1) /\ StringEnds[i + 1] = e
  <2>1. /\ ~At(i, {"quote"}) /\ ~At(i, {"backslash"}) /\ ~At(i, {"lead"})
        /\ ~At(i, {"backslash", "lead"})
    BY <1>14 DEF At
  <2>2. StringEnds[i + 1] = e
    BY <1>3, <2>1
  <2>3. ~(i >= j) /\ \A h : ~Half(j, i, h)
    BY <1>6, <1>8, <2>1, <2>2 DEF EscapeU
  <2> QED
    BY <1>2, <1>4, <2>1, <2>2, <2>3 DEF TextStep
<1> QED
  BY <1>9, <1>10, <1>11, <1>12, <1>13, <1>14 DEF e

\* What is written when something else than \u follows.
LEMMA Flushes ==
  ASSUME Text, NEW q \in Places, Opens(q), NEW i \in Places, NEW o, NEW us,
         TextUpTo(o, us, q, i), ~EscapeU(i)
  PROVE  /\ o \o DecodeUtf16(us) \in Elements
         /\ TextFrom(q, q + 1) = (o \o DecodeUtf16(us)) \o TextFrom(q, i)
<1> DEFINE j == StringEnds[q + 1] - 1
<1>1. PICK p \in Places : /\ p + 3 * Len(us) = i /\ UnitsAt(us, p)
                          /\ TextFrom(q, q + 1) = o \o TextFrom(q, p)
  BY DEF TextUpTo
<1>2. o \in Elements /\ us \in Elements /\ StringEnds[i] = StringEnds[q + 1]
  BY DEF TextUpTo
<1>3. i \in 1 .. End + 3 /\ p \in Nat /\ p >= 1
  BY BodyFacts
<1>4. j \in 1 .. Len(body) /\ i <= j /\ TextFrom(q, i) \in Elements
  BY <1>2, <1>3, InsideString
<1>5. \A k : TextFrom(q, k) = TextTo(j)[k]
  BY DEF TextFrom
<1> HIDE DEF j
<1>6. p + 3 * Len(us) <= j /\ ~EscapeU(p + 3 * Len(us))
  BY <1>1, <1>4
<1>7. /\ DecodeUtf16(us) \in Elements
      /\ TextTo(j)[p] = DecodeUtf16(us) \o TextTo(j)[p + 3 * Len(us)]
  BY <1>1, <1>2, <1>3, <1>4, <1>6, UnitsDecoded
<1> DEFINE d == DecodeUtf16(us)
           v == TextFrom(q, i)
<1>8. TextFrom(q, p) = d \o v
  BY <1>1, <1>5, <1>7
<1>9. o \in Seq(Characters) /\ d \in Seq(Characters) /\ v \in Seq(Characters)
  BY <1>2, <1>4, <1>7 DEF Elements
<1> HIDE DEF d, v
<1>10. o \o d \in Seq(Characters) /\ (o \o d) \o v = o \o (d \o v)
  BY <1>9, Joins
<1> QED
  BY <1>1, <1>8, <1>10 DEF d, v, Elements

LEMMA MatchingHere ==
  ASSUME MatchInv, IsJson, Take
  PROVE  /\ AcceptInv /\ ParserInv /\ Text /\ WellEncoded /\ pc # "failed" /\ body[total_read + 1] = Byte
         /\ Matching(pc, start, role, out, units, keys, values, total_read + 1)
         /\ total_read + 1 \in Places /\ total_read + 1 \in Nat
         /\ total_read + 1 < End /\ total_read + 1 # End
         /\ (total_read + 1) + 1 \in Places /\ total_read' = total_read + 1
         /\ \A S : At(total_read + 1, S) <=> Byte \in S
         /\ role \in {"key", "value"}
<1>1. AcceptInv /\ ParserInv /\ Matching(pc, start, role, out, units, keys, values, total_read + 1)
  BY DEF MatchInv, MatchingNow, AcceptInv
<1>2. WellEncoded /\ pc # "failed" /\ body[total_read + 1] = Byte
  BY DEF IsJson, Take, More, Byte
<1>3. total_read + 1 < End /\ total_read + 1 # End
  <2>1. total_read \in 0 .. Len(body) /\ total_read < Len(body) /\ Text
    BY <1>1 DEF ParserInv, ParserTypes, Take, More
  <2> QED
    BY <2>1, BodyFacts
<1> QED
  BY <1>1, <1>2, <1>3, Here

\* A byte outside of strings.
LEMMA OutsideMatches ==
  ASSUME MatchInv, IsJson, Take, pc \notin InStrings, pc' \notin InStrings, Byte # "quote",
         keys' = keys, values' = values, start' \in Nat,
         pc' = "key" => /\ body[start'] \in {"{", ","}
                        /\ SkipFrom(start' + 1) = SkipFrom((total_read + 1) + 1)
  PROVE  MatchesOn
<1> DEFINE i == total_read + 1
<1>1. /\ Text /\ i \in Places /\ i # End /\ i \in Nat /\ total_read' = i /\ body[i] # "quote"
      /\ keys \in Seq(Found) /\ values \in Seq(Found) /\ BothHandedOver(keys, values, i)
  BY MatchingHere DEF Matching
<1> HIDE DEF i
<1>2. \A key : StringsFrom(key)[i] = StringsFrom(key)[i + 1]
  <2> SUFFICES ASSUME NEW key PROVE StringsFrom(key)[i] = StringsFrom(key)[i + 1]
    OBVIOUS
  <2> QED
    BY <1>1, StringsEquation DEF StringsStep
<1>3. BothHandedOver(keys, values, i + 1)
  BY <1>1, <1>2 DEF BothHandedOver, HandedOver
<1> QED
  BY <1>1, <1>3 DEF MatchesOn, Matching, i

\* A byte that begins a string.
LEMMA OpensMatches ==
  ASSUME MatchInv, IsJson, Take, pc \notin InStrings, Byte = "quote", GoesOn, pc' = "string",
         out' = << >>, units' = << >>, keys' = keys, values' = values, start' \in Nat,
         StartOf(role' = "key", start', total_read + 1)
  PROVE  MatchesOn
<1> DEFINE i == total_read + 1
<1>1. /\ Text /\ i \in Places /\ i + 1 \in Places /\ i \in Nat /\ total_read' = i
      /\ At(i, {"quote"}) /\ keys \in Seq(Found) /\ values \in Seq(Found)
      /\ BothHandedOver(keys, values, i)
  BY MatchingHere DEF Matching
<1>2. StringEnds[i + 1] # 0
  BY <1>1 DEF GoesOn, Ahead, Left, StringDue
<1>3. Opens(i)
  BY <1>1, <1>2 DEF Opens
<1> HIDE DEF i
<1>4. TextUpTo(<< >>, << >>, i, i + 1)
  <2>1. TextFrom(i, i + 1) \in Elements
    <3>1. i + 1 \in 1 .. End + 3
      <4>1. Places = 1 .. End /\ End \in Nat
        BY <1>1, BodyFacts
      <4> QED
        BY <1>1, <4>1
    <3> QED
      BY <1>1, <1>3, <3>1, InsideString
  <2>2. << >> \o TextFrom(i, i + 1) = TextFrom(i, i + 1)
    BY <2>1, ConcatEmptySeq DEF Elements
  <2>3. << >> \in Elements /\ Len(<< >>) = 0
    BY EmptySeq DEF Elements
  <2>4. UnitsAt(<< >>, i + 1)
    BY <2>3 DEF UnitsAt
  <2>5. (i + 1) - 1 = i /\ (i + 1) + 3 * Len(<< >>) = i + 1
    BY <1>1, <2>3
  <2>6. ~At(i, {"lead"})
    BY <1>1 DEF At
  <2> QED
    BY <1>1, <2>2, <2>3, <2>4, <2>5, <2>6 DEF TextUpTo
<1>5. TextAt("string", << >>, << >>, i, i + 1)
  BY <1>4 DEF TextAt
<1>6. StartOf(role' = "key", start', i)
  BY DEF i
<1> QED
  BY <1>1, <1>3, <1>5, <1>6 DEF MatchesOn, Matching, InStrings

\* A byte inside a string.
LEMMA InsideMatches ==
  ASSUME MatchInv, IsJson, Take, pc \in InStrings, pc' \in InStrings,
         start' = start, role' = role, keys' = keys, values' = values,
         \A q \in Places : Opens(q) /\ TextAt(pc, out, units, q, total_read + 1) =>
                             TextAt(pc', out', units', q, (total_read + 1) + 1)
  PROVE  MatchesOn
<1> DEFINE i == total_read + 1
<1>1. /\ start \in Nat /\ keys \in Seq(Found) /\ values \in Seq(Found) /\ total_read' = i
      /\ \E q \in Places : /\ Opens(q) /\ BothHandedOver(keys, values, q)
                           /\ StartOf(role = "key", start, q)
                           /\ TextAt(pc, out, units, q, i)
  BY MatchingHere DEF Matching
<1>2. PICK q \in Places : /\ Opens(q) /\ BothHandedOver(keys, values, q)
                          /\ StartOf(role = "key", start, q)
                          /\ TextAt(pc, out, units, q, i)
  BY <1>1
<1>3. TextAt(pc', out', units', q, i + 1)
  BY <1>2
<1> HIDE DEF i
<1>4. pc' # "failed" /\ pc' # "key"
  BY DEF InStrings
<1> QED
  BY <1>1, <1>2, <1>3, <1>4 DEF MatchesOn, Matching

\* A character is added, at the end of what was written so far.
LEMMA AddsCharacter ==
  ASSUME Text, NEW q \in Places, NEW i \in Places, NEW o \in Elements, NEW c \in Characters,
         TextFrom(q, q + 1) = o \o (<<c>> \o TextFrom(q, i)), TextFrom(q, i) \in Elements,
         StringEnds[i] = StringEnds[q + 1], ~At(i - 1, {"lead"})
  PROVE  TextUpTo(Append(o, c), << >>, q, i)
<1> DEFINE o1 == Append(o, c)
           v == TextFrom(q, i)
<1>1. o \in Seq(Characters) /\ v \in Seq(Characters)
  BY DEF Elements
<1> HIDE DEF v
<1>2. o1 \in Seq(Characters) /\ o1 \o v = o \o (<<c>> \o v)
  BY <1>1, Joins
<1>3. << >> \in Elements /\ Len(<< >>) = 0
  BY EmptySeq DEF Elements
<1>4. UnitsAt(<< >>, i) /\ i + 3 * Len(<< >>) = i
  BY <1>3, BodyFacts DEF UnitsAt
<1> HIDE DEF o1
<1>5. TextFrom(q, q + 1) = o1 \o TextFrom(q, i) /\ o1 \in Elements
  BY <1>2 DEF v, Elements
<1>6. TextUpTo(o1, << >>, q, i)
  BY <1>3, <1>4, <1>5 DEF TextUpTo
<1> QED
  BY <1>6 DEF o1

LEMMA BeginsWide ==
  ASSUME Text, NEW q \in Places, NEW i, NEW o \in Elements,
         TextFrom(q, q + 1) = o \o (<<"wide">> \o TextFrom(q, i + 1)), TextFrom(q, i + 1) \in Elements,
         StringEnds[i + 1] = StringEnds[q + 1], At(i - 1, {"lead"})
  PROVE  TextAt("char", o, << >>, q, i)
<1> DEFINE v == TextFrom(q, i + 1)
<1>1. o \in Seq(Characters) /\ v \in Seq(Characters) /\ "wide" \in Characters
  BY DEF Elements, Characters
<1> HIDE DEF v
<1>2. Append(o, "wide") \o v = o \o (<<"wide">> \o v)
  BY <1>1, Joins
<1>3. TextFrom(q, q + 1) = Append(o, "wide") \o TextFrom(q, i + 1)
  BY <1>2 DEF v
<1> QED
  BY <1>3 DEF TextAt

(***************************************************************************)
(* The actions.                                                            *)
(***************************************************************************)
LEMMA SkipSpaceMatches ==
  ASSUME MatchInv, IsJson, SkipSpace
  PROVE  MatchesOn
<1> DEFINE i == total_read + 1
<1>1. /\ Take /\ pc \in Skipping /\ Byte = Space /\ pc' = pc
      /\ start' = start /\ keys' = keys /\ values' = values
  BY DEF SkipSpace, string, matched
<1>2. pc \notin InStrings /\ Byte # "quote" /\ pc # "failed"
  BY <1>1 DEF Skipping, InStrings, Space
<1>3. /\ start \in Nat /\ SkipFrom(i) = SkipFrom(i + 1)
      /\ pc = "key" => body[start] \in {"{", ","} /\ SkipFrom(start + 1) = SkipFrom(i)
  <2>1. Text /\ i \in Places /\ At(i, {Space})
    BY <1>1, MatchingHere
  <2>2. SkipFrom(i) = SkipFrom(i + 1)
    <3> HIDE DEF i
    <3> QED
      BY <2>1, SkipStep
  <2> QED
    BY <1>1, <1>2, <2>2, MatchingHere DEF Matching
<1> QED
  BY <1>1, <1>2, <1>3, OutsideMatches

\* The byte behind a value.
LEMMA NextByteMatches ==
  ASSUME MatchInv, IsJson, Take, pc \notin InStrings, NextByte(Byte), pc' \in Readings
  PROVE  MatchesOn
<1> DEFINE i == total_read + 1
<1>1. keys' = keys /\ values' = values
  BY DEF NextByte, matched
<1>2. start \in Nat /\ i \in Nat /\ body[i] = Byte
  BY MatchingHere DEF Matching
<1>3. CASE Byte = "," /\ pc' \in {"key", "element"} /\ start' = i
  <2>1. body[start'] \in {"{", ","} /\ SkipFrom(start' + 1) = SkipFrom(i + 1)
    BY <1>2, <1>3
  <2> QED
    BY <1>1, <1>2, <1>3, <2>1, OutsideMatches DEF InStrings
<1>4. CASE Byte \in {"}", "]"} /\ pc' = "after" /\ start' = start
  BY <1>1, <1>2, <1>4, OutsideMatches DEF InStrings
<1>5. pc' # "done" /\ pc' # "failed"
  BY DEF Readings, NumberPcs
<1>6. \/ Byte = "," /\ pc' \in {"key", "element"} /\ start' = i
      \/ Byte \in {"}", "]"} /\ pc' = "after" /\ start' = start
  BY <1>5 DEF NextByte, Closes, KeyStart
<1> QED
  BY <1>3, <1>4, <1>6

LEMMA AfterMatches ==
  ASSUME MatchInv, IsJson, After
  PROVE  MatchesOn
<1>1. Take /\ pc \notin InStrings /\ NextByte(Byte)
  BY DEF After, InStrings
<1>2. pc' \in Readings
  BY AfterGoesOn DEF MatchInv, GoesOn
<1> QED
  BY <1>1, <1>2, NextByteMatches

LEMMA BeginObjectMatches ==
  ASSUME MatchInv, IsJson, BeginObject
  PROVE  MatchesOn
<1> DEFINE i == total_read + 1
<1>1. /\ Take /\ pc \notin InStrings /\ pc' = "key" /\ Byte = "{" /\ start' = i
      /\ keys' = keys /\ values' = values
  BY DEF BeginObject, Value, InStrings, matched, KeyStart
<1>2. i \in Nat /\ body[i] = Byte
  BY <1>1, MatchingHere
<1>3. start' \in Nat /\ body[start'] \in {"{", ","} /\ SkipFrom(start' + 1) = SkipFrom(i + 1)
  BY <1>1, <1>2
<1> QED
  BY <1>1, <1>3, OutsideMatches DEF InStrings

\* The other actions that take a byte outside of strings and keep everything else.
LEMMA PlainMatches ==
  ASSUME MatchInv, IsJson, Take, pc \notin InStrings, pc' \notin InStrings \cup {"key"},
         Byte # "quote", start' = start, keys' = keys, values' = values
  PROVE  MatchesOn
<1>1. start \in Nat
  BY MatchingHere DEF Matching
<1> QED
  BY <1>1, OutsideMatches

LEMMA BeginOthersMatch ==
  ASSUME MatchInv, IsJson, BeginArray \/ EndEmptyArray \/ BeginNumber \/ BeginKeyword
  PROVE  MatchesOn
<1>1. BeginArray => /\ Take /\ pc \notin InStrings /\ pc' \notin InStrings \cup {"key"}
                    /\ Byte # "quote" /\ start' = start /\ keys' = keys /\ values' = values
  BY DEF BeginArray, Value, InStrings, string, matched
<1>2. EndEmptyArray => /\ Take /\ pc \notin InStrings /\ pc' \notin InStrings \cup {"key"}
                       /\ Byte # "quote" /\ start' = start /\ keys' = keys /\ values' = values
  BY DEF EndEmptyArray, ClosesEmptyArray, InStrings, string, matched
<1>3. BeginNumber => /\ Take /\ pc \notin InStrings /\ pc' \notin InStrings \cup {"key"}
                     /\ Byte # "quote" /\ start' = start /\ keys' = keys /\ values' = values
  BY DEF BeginNumber, Value, InStrings, string, matched
<1>4. BeginKeyword => /\ Take /\ pc \notin InStrings /\ pc' \notin InStrings \cup {"key"}
                      /\ Byte # "quote" /\ start' = start /\ keys' = keys /\ values' = values
  BY DEF BeginKeyword, Value, InStrings, string, matched
<1> QED
  BY <1>1, <1>2, <1>3, <1>4, PlainMatches

LEMMA KeywordMatches ==
  ASSUME MatchInv, IsJson, Keyword
  PROVE  MatchesOn
<1>1. pc' # "failed"
  BY KeywordGoesOn DEF MatchInv, GoesOn, Readings, NumberPcs
<1>2. /\ Take /\ pc \notin InStrings /\ pc' \notin InStrings \cup {"key"} /\ Byte # "quote"
      /\ start' = start /\ keys' = keys /\ values' = values
  BY <1>1 DEF Keyword, InStrings, string, matched
<1> QED
  BY <1>2, PlainMatches

LEMMA ColonMatches ==
  ASSUME MatchInv, IsJson, Colon
  PROVE  MatchesOn
<1>1. pc' # "failed"
  BY ColonGoesOn DEF MatchInv, GoesOn, Readings, NumberPcs
<1>2. /\ Take /\ pc \notin InStrings /\ pc' \notin InStrings \cup {"key"} /\ Byte # "quote"
      /\ start' = start /\ keys' = keys /\ values' = values
  BY <1>1 DEF Colon, InStrings, string, matched
<1> QED
  BY <1>2, PlainMatches

LEMMA ReadNumberMatches ==
  ASSUME MatchInv, IsJson, ReadNumber
  PROVE  MatchesOn
<1>1. pc' \in Readings /\ pc' # "failed"
  BY ReadNumberGoesOn DEF MatchInv, GoesOn, Readings, NumberPcs
<1>2. Take /\ pc \in NumberPcs /\ pc \notin InStrings /\ Number
  BY DEF ReadNumber, Number, NumberPcs, InStrings
<1>3. ASSUME NumberEnds(Byte) PROVE MatchesOn
  <2>1. CASE Byte = Space
    <3>1. /\ pc' \notin InStrings \cup {"key"} /\ Byte # "quote"
          /\ start' = start /\ keys' = keys /\ values' = values
      BY <1>3, <2>1 DEF NumberEnds, InStrings, string, matched, Space
    <3> QED
      BY <1>2, <3>1, PlainMatches
  <2>2. CASE Byte # Space
    BY <1>1, <1>2, <1>3, <2>2, NextByteMatches DEF NumberEnds
  <2> QED
    BY <2>1, <2>2
<1>4. ASSUME NEW p \in NumberPcs, Stays(p), Byte # "quote" PROVE MatchesOn
  <2>1. /\ pc' \notin InStrings \cup {"key"}
        /\ start' = start /\ keys' = keys /\ values' = values
    BY <1>4 DEF Stays, InStrings, string, matched, NumberPcs
  <2> QED
    BY <1>2, <1>4, <2>1, PlainMatches
<1>5. ASSUME PostDigit(Byte) PROVE MatchesOn
  BY <1>3, <1>4, <1>5 DEF PostDigit, NumberPcs
<1>6. ~Fail
  BY <1>1 DEF Fail
<1> QED
  BY <1>2, <1>3, <1>4, <1>5, <1>6 DEF Number, NumberPcs, Digits

LEMMA BeginStringMatches ==
  ASSUME MatchInv, IsJson, BeginString
  PROVE  MatchesOn
<1> DEFINE i == total_read + 1
<1>1. /\ Take /\ pc \notin InStrings /\ Byte = "quote" /\ pc' = "string" /\ role' = "value"
      /\ out' = << >> /\ units' = << >> /\ keys' = keys /\ values' = values /\ start' = total_read
  BY DEF BeginString, Value, InStrings, matched
<1>2. GoesOn
  BY BeginStringGoesOn DEF MatchInv
<1>3. total_read \in Nat
  BY <1>1, MatchingHere DEF ParserInv, ParserTypes
<1>4. StartOf(role' = "key", start', i)
  BY <1>1, <1>3 DEF StartOf
<1> QED
  BY <1>1, <1>2, <1>3, <1>4, OpensMatches

LEMMA KeyMatches ==
  ASSUME MatchInv, IsJson, Key
  PROVE  MatchesOn
<1> DEFINE i == total_read + 1
<1>1. Take /\ pc = "key" /\ pc \notin InStrings
  BY DEF Key, InStrings
<1>2. GoesOn /\ pc' # "failed"
  BY KeyGoesOn DEF MatchInv, GoesOn, Readings, NumberPcs
<1>3. CASE Byte = "quote"
  <2>1. /\ pc' = "string" /\ role' = "key" /\ out' = << >> /\ units' = << >>
        /\ start' = start /\ keys' = keys /\ values' = values
    BY <1>3 DEF Key, FirstKeyCloses, Fail, matched
  <2>2. /\ start \in Nat /\ body[start] \in {"{", ","} /\ SkipFrom(start + 1) = SkipFrom(i)
        /\ Text /\ i \in Places /\ ~At(i, {Space})
    BY <1>1, <1>3, MatchingHere DEF Matching, Space
  <2>3. SkipFrom(i) = i
    <3> HIDE DEF i
    <3> QED
      BY <2>2, SkipStep
  <2>4. StartOf(role' = "key", start', i)
    BY <2>1, <2>2, <2>3 DEF StartOf
  <2> QED
    BY <1>1, <1>2, <1>3, <2>1, <2>2, <2>4, OpensMatches
<1>4. CASE Byte # "quote"
  <2>1. /\ pc' = "after" /\ start' = start /\ keys' = keys /\ values' = values
    BY <1>2, <1>4 DEF Key, Fail, string, matched
  <2> QED
    BY <1>1, <1>4, <2>1, PlainMatches DEF InStrings
<1> QED
  BY <1>3, <1>4

\* The byte inside a string, and what was collected so far.
LEMMA StringHere ==
  ASSUME MatchInv, IsJson, Take
  PROVE  /\ Text /\ total_read + 1 \in Places /\ total_read + 1 \in Nat
         /\ (total_read + 1) + 1 \in Places /\ Byte \in Characters
         /\ body[total_read + 1] = Byte /\ \A S : At(total_read + 1, S) <=> Byte \in S
         /\ \A k \in 0 .. Len(body) :
              /\ At(k, {"lead"}) <=> At(k + 1, {"cont"})
              /\ EscapeU(k) => At(k + 2, {"bmp", "high", "low"})
<1>1. WellEncoded
  BY MatchingHere
<1>2. \A k \in 0 .. Len(body) :
        /\ At(k, {"lead"}) <=> At(k + 1, {"cont"})
        /\ EscapeU(k) => At(k + 2, {"bmp", "high", "low"})
  BY <1>1 DEF WellEncoded, EscapeU
<1>3. Byte \in Characters
  <2>1. Text /\ body[total_read + 1] = Byte /\ total_read + 1 \in 1 .. Len(body)
    <3>1. /\ Text /\ body[total_read + 1] = Byte /\ total_read + 1 \in Places
          /\ total_read + 1 \in Nat /\ total_read + 1 < End
      BY MatchingHere
    <3>2. Places = 1 .. End /\ End = Len(body) + 1 /\ Len(body) \in Nat
      BY <3>1, BodyFacts
    <3> QED
      BY <3>1, <3>2
  <2> QED
    BY <2>1, ElementOfSeq DEF Text, Characters
<1> QED
  BY <1>2, <1>3, MatchingHere

LEMMA BackslashMatches ==
  ASSUME MatchInv, IsJson, Backslash
  PROVE  MatchesOn
<1> DEFINE i == total_read + 1
<1>1. /\ Take /\ pc = "string" /\ pc' = "escape" /\ Byte = "backslash"
      /\ start' = start /\ role' = role /\ out' = out /\ units' = units
      /\ keys' = keys /\ values' = values
  BY DEF Backslash, string, matched
<1>2. At(i, {"backslash"}) /\ (i + 1) - 1 = i
  BY <1>1, StringHere
<1> HIDE DEF i
<1>3. ASSUME NEW q \in Places, TextAt(pc, out, units, q, i)
      PROVE  TextAt(pc', out', units', q, i + 1)
  BY <1>1, <1>2, <1>3 DEF TextAt
<1> QED
  BY <1>1, <1>3, InsideMatches DEF InStrings, i

LEMMA UnitMatches ==
  ASSUME MatchInv, IsJson, Unit
  PROVE  MatchesOn
<1> DEFINE i == total_read + 1
           u == IF Byte \in {"bmp", "high", "low"} THEN Byte ELSE "bad"
<1>1. /\ Take /\ pc = "unit" /\ pc' = "string" /\ units' = Append(units, u)
      /\ start' = start /\ role' = role /\ out' = out /\ keys' = keys /\ values' = values
  BY DEF Unit, matched
<1>2. /\ Text /\ i \in Nat /\ i \in Places /\ Byte \in Characters
      /\ \A S : At(i, S) <=> Byte \in S
      /\ \A k \in 0 .. Len(body) : EscapeU(k) => At(k + 2, {"bmp", "high", "low"})
  BY <1>1, StringHere
<1> HIDE DEF i
<1>3. ASSUME NEW q \in Places, Opens(q), TextAt(pc, out, units, q, i)
      PROVE  TextAt(pc', out', units', q, i + 1)
  <2> DEFINE x == i - 2
  <2>1. EscapeU(x) /\ TextUpTo(out, units, q, x)
    BY <1>1, <1>3 DEF TextAt
  <2>2. x \in 1 .. Len(body) /\ x \in Nat /\ x + 2 = i /\ x + 3 = i + 1 /\ x \in Places
    <3>1. x \in 1 .. Len(body) /\ x \in Places
      BY <1>2, <2>1, BodyFacts DEF EscapeU
    <3> QED
      BY <1>2, <3>1
  <2> HIDE DEF x
  <2>3. At(i, {"bmp", "high", "low"})
    <3>1. x \in 0 .. Len(body)
      BY <2>2
    <3> QED
      BY <1>2, <2>1, <2>2, <3>1
  <2>4. Byte \in {"bmp", "high", "low"} /\ u = Byte
    BY <1>2, <2>3
  <2>5. UnitAt(Byte, x)
    BY <1>2, <2>1, <2>2, <2>4 DEF UnitAt, EscapeU
  <2>6. PICK p \in Places : /\ p + 3 * Len(units) = x /\ UnitsAt(units, p)
                            /\ TextFrom(q, q + 1) = out \o TextFrom(q, p)
    BY <2>1 DEF TextUpTo
  <2> DEFINE us == Append(units, Byte)
             m == Len(units)
  <2>7. units \in Elements /\ m \in Nat /\ out \in Elements
    BY <2>1, LenProperties DEF TextUpTo, Elements
  <2>8. us \in Elements /\ Len(us) = m + 1 /\ us[m + 1] = Byte /\ \A k \in 1 .. m : us[k] = units[k]
    BY <1>2, <2>7, AppendProperties DEF Elements
  <2> HIDE DEF us, m
  <2>9. p \in Nat /\ p + 3 * m = x
    BY <1>2, <2>6, BodyFacts DEF m
  <2>10. p + 3 * Len(us) = i + 1
    BY <2>2, <2>7, <2>8, <2>9
  <2>11. UnitsAt(us, p)
    <3> SUFFICES ASSUME NEW k \in 1 .. m + 1 PROVE UnitAt(us[k], p + 3 * (k - 1))
      BY <2>8 DEF UnitsAt
    <3>1. CASE k = m + 1
      <4>1. p + 3 * (k - 1) = x
        BY <2>7, <2>9, <3>1
      <4> QED
        BY <2>5, <2>8, <3>1, <4>1
    <3>2. CASE k # m + 1
      <4>1. k \in 1 .. m
        BY <2>7, <3>2
      <4>2. UnitAt(units[k], p + 3 * (k - 1))
        BY <2>6, <4>1 DEF UnitsAt, m
      <4> QED
        BY <2>8, <4>1, <4>2
    <3> QED
      BY <3>1, <3>2
  <2>12. ~At(i, {"lead"}) /\ (i + 1) - 1 = i
    BY <1>2, <2>4
  <2>13. StringEnds[i + 1] = StringEnds[q + 1]
    <3>1. StringEnds[x] = StringEnds[q + 1]
      BY <2>1 DEF TextUpTo
    <3>2. StringEnds[x + 3] = StringEnds[q + 1]
      BY <1>2, <1>3, <2>1, <2>2, <3>1, TextRule
    <3> QED
      BY <2>2, <3>2
  <2>14. TextUpTo(out, us, q, i + 1)
    BY <2>6, <2>7, <2>8, <2>10, <2>11, <2>12, <2>13 DEF TextUpTo
  <2>15. units' = us
    BY <1>1, <2>4 DEF us
  <2> QED
    BY <1>1, <2>14, <2>15 DEF TextAt
<1> QED
  BY <1>1, <1>3, InsideMatches DEF InStrings, i

LEMMA RestOfCharMatches ==
  ASSUME MatchInv, IsJson, RestOfChar
  PROVE  MatchesOn
<1> DEFINE i == total_read + 1
<1>1. /\ Take /\ pc = "char" /\ pc' = "string" /\ units' = units
      /\ out' = Append(out, IF Byte = "cont" THEN "wide" ELSE "garbled")
      /\ start' = start /\ role' = role /\ keys' = keys /\ values' = values
  BY DEF RestOfChar, matched
<1>2. /\ Text /\ i \in Nat /\ i \in Places /\ i + 1 \in Places
      /\ \A S : At(i, S) <=> Byte \in S
      /\ \A k \in 0 .. Len(body) : At(k, {"lead"}) <=> At(k + 1, {"cont"})
  BY <1>1, StringHere
<1> HIDE DEF i
<1>3. ASSUME NEW q \in Places, Opens(q), TextAt(pc, out, units, q, i)
      PROVE  TextAt(pc', out', units', q, i + 1)
  <2>1. /\ out \in Elements /\ units = << >>
        /\ At(i - 1, {"lead"}) /\ StringEnds[i + 1] = StringEnds[q + 1]
        /\ TextFrom(q, q + 1) = Append(out, "wide") \o TextFrom(q, i + 1)
    BY <1>1, <1>3 DEF TextAt
  <2>2. Byte = "cont"
    <3>1. i - 1 \in 0 .. Len(body) /\ (i - 1) + 1 = i
      BY <1>2, <2>1, BodyFacts
    <3> QED
      BY <1>2, <2>1, <3>1
  <2>3. out' = Append(out, "wide") /\ ~At(i, {"lead"}) /\ (i + 1) - 1 = i
    BY <1>1, <1>2, <2>2
  <2>4. TextFrom(q, i + 1) \in Elements
    <3>1. i + 1 \in 1 .. End + 3
      <4>1. Places = 1 .. End /\ End \in Nat
        BY <1>2, BodyFacts
      <4> QED
        BY <1>2, <4>1
    <3> QED
      BY <1>2, <1>3, <2>1, <3>1, InsideString
  <2>5. TextFrom(q, q + 1) = out \o (<<"wide">> \o TextFrom(q, i + 1)) /\ "wide" \in Characters
    <3> DEFINE v == TextFrom(q, i + 1)
    <3>1. out \in Seq(Characters) /\ v \in Seq(Characters) /\ "wide" \in Characters
      BY <2>1, <2>4 DEF Elements, Characters
    <3> HIDE DEF v
    <3>2. Append(out, "wide") \o v = out \o (<<"wide">> \o v)
      BY <3>1, Joins
    <3> QED
      BY <2>1, <3>1, <3>2 DEF v
  <2>6. TextUpTo(Append(out, "wide"), << >>, q, i + 1)
    BY <1>2, <2>1, <2>3, <2>4, <2>5, AddsCharacter
  <2> QED
    BY <1>1, <2>1, <2>3, <2>6 DEF TextAt
<1> QED
  BY <1>1, <1>3, InsideMatches DEF InStrings, i

\* What is pushed behind what was collected of the text up to x, and what follows at y.
LEMMA PushMatches ==
  ASSUME MatchInv, IsJson, Take, pc \in InStrings, NEW c, PushChar(Byte, c),
         \A q \in Places : Opens(q) /\ TextAt(pc, out, units, q, total_read + 1) =>
           \E x \in Places : \E y :
             /\ TextUpTo(out, units, q, x) /\ ~EscapeU(x)
             /\ y = (total_read + 1) + (IF Byte = "lead" THEN 2 ELSE 1) /\ y \in 1 .. End + 3
             /\ StringEnds[y] = StringEnds[q + 1]
             /\ TextFrom(q, x) = <<IF Byte = "lead" THEN "wide" ELSE c>> \o TextFrom(q, y),
         Byte # "lead" => c \in Characters
  PROVE  MatchesOn
<1> DEFINE i == total_read + 1
<1>1. /\ start' = start /\ role' = role /\ keys' = keys /\ values' = values /\ units' = << >>
      /\ Byte = "lead" => pc' = "char" /\ out' = Flushed
      /\ Byte # "lead" => pc' = "string" /\ out' = Append(Flushed, c)
  BY DEF PushChar, matched
<1>2. /\ Text /\ i \in Nat /\ i \in Places /\ i + 1 \in Places
      /\ \A S : At(i, S) <=> Byte \in S
  BY StringHere
<1>3. ASSUME NEW q \in Places, Opens(q), TextAt(pc, out, units, q, i)
      PROVE  TextAt(pc', out', units', q, i + 1)
  <2>1. PICK x \in Places : \E y :
          /\ TextUpTo(out, units, q, x) /\ ~EscapeU(x)
          /\ y = i + (IF Byte = "lead" THEN 2 ELSE 1) /\ y \in 1 .. End + 3
          /\ StringEnds[y] = StringEnds[q + 1]
          /\ TextFrom(q, x) = <<IF Byte = "lead" THEN "wide" ELSE c>> \o TextFrom(q, y)
    BY <1>3
  <2>2. PICK y :
          /\ TextUpTo(out, units, q, x) /\ ~EscapeU(x)
          /\ y = i + (IF Byte = "lead" THEN 2 ELSE 1) /\ y \in 1 .. End + 3
          /\ StringEnds[y] = StringEnds[q + 1]
          /\ TextFrom(q, x) = <<IF Byte = "lead" THEN "wide" ELSE c>> \o TextFrom(q, y)
    BY <2>1
  <2> HIDE DEF i
  <2>3. Flushed \in Elements /\ TextFrom(q, q + 1) = Flushed \o TextFrom(q, x)
    <3>1. TextUpTo(out, units, q, x) /\ ~EscapeU(x) /\ Text
      BY <1>2, <2>2
    <3>2. /\ out \o DecodeUtf16(units) \in Elements
          /\ TextFrom(q, q + 1) = (out \o DecodeUtf16(units)) \o TextFrom(q, x)
      BY <1>3, <3>1, Flushes
    <3> QED
      BY <3>2 DEF Flushed
  <2>4. TextFrom(q, y) \in Elements
    BY <1>2, <1>3, <2>2, InsideString
  <2>5. (i + 1) - 1 = i /\ (i + 1) + 1 = i + 2
    BY <1>2
  <2>6. CASE Byte = "lead"
    <3>1. At(i, {"lead"}) /\ y = (i + 1) + 1
      BY <1>2, <2>2, <2>5, <2>6
    <3>2. TextFrom(q, q + 1) = Flushed \o (<<"wide">> \o TextFrom(q, (i + 1) + 1))
      BY <2>2, <2>3, <2>6, <3>1
    <3>3. TextAt("char", Flushed, << >>, q, i + 1)
      BY <1>2, <2>2, <2>3, <2>4, <2>5, <3>1, <3>2, BeginsWide
    <3> QED
      BY <1>1, <2>6, <3>3
  <2>7. CASE Byte # "lead"
    <3>1. ~At(i, {"lead"}) /\ y = i + 1
      BY <1>2, <2>2, <2>7
    <3>2. TextFrom(q, q + 1) = Flushed \o (<<c>> \o TextFrom(q, i + 1))
      BY <2>2, <2>3, <2>7, <3>1
    <3>3. TextUpTo(Append(Flushed, c), << >>, q, i + 1)
      BY <1>2, <2>2, <2>3, <2>4, <2>5, <2>7, <3>1, <3>2, AddsCharacter
    <3> QED
      BY <1>1, <2>7, <3>3 DEF TextAt
  <2> QED
    BY <2>6, <2>7
<1>4. pc' \in InStrings
  BY <1>1 DEF InStrings
<1> HIDE DEF i
<1> QED
  BY <1>1, <1>3, <1>4, InsideMatches DEF i

LEMMA StringCharMatches ==
  ASSUME MatchInv, IsJson, StringChar
  PROVE  MatchesOn
<1> DEFINE i == total_read + 1
<1>1. /\ Take /\ pc = "string" /\ Byte \notin {"quote", "backslash"} /\ PushChar(Byte, Char(Byte))
  BY DEF StringChar
<1>2. /\ Text /\ i \in Nat /\ i \in Places /\ i + 1 \in Places /\ Byte \in Characters
      /\ body[i] = Byte /\ (\A S : At(i, S) <=> Byte \in S)
      /\ \A k \in 0 .. Len(body) : At(k, {"lead"}) <=> At(k + 1, {"cont"})
  BY <1>1, StringHere
<1>3. End \in Nat /\ Places = 1 .. End
  BY <1>2, BodyFacts
<1> HIDE DEF i
<1>4. ASSUME NEW q \in Places, Opens(q), TextAt(pc, out, units, q, i)
      PROVE  \E x \in Places : \E y :
               /\ TextUpTo(out, units, q, x) /\ ~EscapeU(x)
               /\ y = i + (IF Byte = "lead" THEN 2 ELSE 1) /\ y \in 1 .. End + 3
               /\ StringEnds[y] = StringEnds[q + 1]
               /\ TextFrom(q, x) = <<IF Byte = "lead" THEN "wide" ELSE Char(Byte)>> \o TextFrom(q, y)
  <2>1. TextUpTo(out, units, q, i) /\ StringEnds[i] = StringEnds[q + 1]
    BY <1>1, <1>4 DEF TextAt, TextUpTo
  <2>2. ~EscapeU(i)
    BY <1>1, <1>2 DEF EscapeU
  <2>3. i + 1 \in 1 .. End + 3 /\ i + 2 \in 1 .. End + 3
    BY <1>2, <1>3
  <2>4. CASE Byte = "lead"
    <3>1. TextFrom(q, i) = <<"wide">> \o TextFrom(q, i + 2) /\ StringEnds[i + 2] = StringEnds[q + 1]
      BY <1>2, <1>4, <2>1, <2>4, TextRule
    <3> QED
      BY <1>2, <2>1, <2>2, <2>3, <2>4, <3>1
  <2>5. CASE Byte # "lead"
    <3>1. ~At(i, {"quote", "backslash", "lead"})
      BY <1>1, <1>2, <2>5
    <3>2. TextFrom(q, i) = <<Byte>> \o TextFrom(q, i + 1) /\ StringEnds[i + 1] = StringEnds[q + 1]
      BY <1>2, <1>4, <2>1, <3>1, TextRule
    <3>3. Byte # "cont"
      <4>1. ~At(i - 1, {"lead"}) /\ i - 1 \in 0 .. Len(body) /\ (i - 1) + 1 = i
        <5>1. i - 1 \in 0 .. Len(body) /\ (i - 1) + 1 = i
          BY <1>2, BodyFacts
        <5> QED
          BY <2>1, <5>1 DEF TextUpTo
      <4> QED
        BY <1>2, <4>1
    <3>4. Char(Byte) = Byte
      BY <3>3 DEF Char
    <3> QED
      BY <1>2, <2>1, <2>2, <2>3, <2>5, <3>2, <3>4
  <2> QED
    BY <2>4, <2>5
<1>5. Char(Byte) \in Characters
  BY <1>2 DEF Char, Characters
<1> QED
  BY <1>1, <1>4, <1>5, PushMatches DEF i, InStrings

LEMMA EscapeMatches ==
  ASSUME MatchInv, IsJson, Escape
  PROVE  MatchesOn
<1> DEFINE i == total_read + 1
           c == Char(Unescaped(Byte))
<1>1. Take /\ pc = "escape"
  BY DEF Escape
<1>2. /\ Text /\ i \in Nat /\ i \in Places /\ i + 1 \in Places /\ Byte \in Characters
      /\ body[i] = Byte /\ (\A S : At(i, S) <=> Byte \in S)
      /\ \A k \in 0 .. Len(body) : At(k, {"lead"}) <=> At(k + 1, {"cont"})
  BY <1>1, StringHere
<1>3. End \in Nat /\ Places = 1 .. End
  BY <1>2, BodyFacts
<1> HIDE DEF i
<1>4. CASE Byte = "u"
  <2>1. /\ pc' = "unit" /\ start' = start /\ role' = role /\ out' = out /\ units' = units
        /\ keys' = keys /\ values' = values
    BY <1>4 DEF Escape, string, matched
  <2>2. At(i, {"u"}) /\ (i + 1) - 2 = i - 1 /\ (i - 1) + 1 = i
    BY <1>2, <1>4
  <2>3. ASSUME NEW q \in Places, TextAt(pc, out, units, q, i)
        PROVE  TextAt(pc', out', units', q, i + 1)
    BY <1>1, <2>1, <2>2, <2>3 DEF TextAt, EscapeU
  <2> QED
    BY <1>1, <2>1, <2>3, InsideMatches DEF InStrings, i
<1>5. CASE Byte # "u"
  <2>1. PushChar(Byte, c)
    BY <1>5 DEF Escape
  <2>2. ASSUME NEW q \in Places, Opens(q), TextAt(pc, out, units, q, i)
        PROVE  \E x \in Places : \E y :
                 /\ TextUpTo(out, units, q, x) /\ ~EscapeU(x)
                 /\ y = i + (IF Byte = "lead" THEN 2 ELSE 1) /\ y \in 1 .. End + 3
                 /\ StringEnds[y] = StringEnds[q + 1]
                 /\ TextFrom(q, x) = <<IF Byte = "lead" THEN "wide" ELSE c>> \o TextFrom(q, y)
    <3> DEFINE x == i - 1
    <3>1. TextUpTo(out, units, q, x) /\ At(x, {"backslash"})
      BY <1>1, <2>2 DEF TextAt
    <3>2. x \in Places /\ x \in 0 .. Len(body) /\ x + 1 = i /\ x + 2 = i + 1 /\ x + 3 = i + 2
      <4>1. x \in 1 .. Len(body) /\ Len(body) \in Nat /\ x \in Places
        BY <1>2, <3>1, BodyFacts
      <4> QED
        BY <1>2, <4>1
    <3> HIDE DEF x
    <3>3. StringEnds[x] = StringEnds[q + 1] /\ ~EscapeU(x)
      BY <1>2, <1>5, <3>1, <3>2 DEF TextUpTo, EscapeU
    <3>4. i + 1 \in 1 .. End + 3 /\ i + 2 \in 1 .. End + 3
      BY <1>2, <1>3
    <3>5. CASE Byte = "lead"
      <4>1. At(x + 1, {"lead"})
        BY <1>2, <3>2, <3>5
      <4>2. TextFrom(q, x) = <<"wide">> \o TextFrom(q, x + 3) /\ StringEnds[x + 3] = StringEnds[q + 1]
        <5>1. /\ Text /\ x \in Places /\ StringEnds[x] = StringEnds[q + 1]
              /\ At(x, {"backslash"}) /\ At(x + 1, {"lead"})
          BY <1>2, <3>1, <3>2, <3>3, <4>1
        <5> QED
          BY <2>2, <5>1, TextRule
      <4> QED
        BY <1>2, <3>1, <3>2, <3>3, <3>4, <3>5, <4>2
    <3>6. CASE Byte # "lead"
      <4>1. ~At(x + 1, {"lead"}) /\ ~At(x + 1, {"u"}) /\ body[x + 1] = Byte
        BY <1>2, <1>5, <3>2, <3>6
      <4>2. /\ TextFrom(q, x) = <<Unescaped(Byte)>> \o TextFrom(q, x + 2)
            /\ StringEnds[x + 2] = StringEnds[q + 1]
        <5>1. /\ Text /\ x \in Places /\ StringEnds[x] = StringEnds[q + 1]
              /\ At(x, {"backslash"}) /\ ~At(x + 1, {"lead"}) /\ ~At(x + 1, {"u"})
          BY <1>2, <3>1, <3>2, <3>3, <4>1
        <5>2. /\ TextFrom(q, x) = <<Unescaped(body[x + 1])>> \o TextFrom(q, x + 2)
              /\ StringEnds[x + 2] = StringEnds[q + 1]
          BY <2>2, <5>1, TextRule
        <5> QED
          BY <4>1, <5>2
      <4>3. Byte # "cont"
        <5>1. ~At(x, {"lead"})
          BY <3>1 DEF At
        <5> QED
          BY <1>2, <3>2, <5>1
      <4>4. c = Unescaped(Byte)
        BY <4>3 DEF Char, Unescaped
      <4> HIDE DEF c
      <4> QED
        BY <1>2, <3>1, <3>2, <3>3, <3>4, <3>6, <4>2, <4>4
    <3> QED
      BY <3>5, <3>6
  <2>3. c \in Characters
    BY <1>2 DEF Char, Unescaped, Characters
  <2> HIDE DEF c
  <2> QED
    BY <1>1, <2>1, <2>2, <2>3, PushMatches DEF i, InStrings
<1> QED
  BY <1>4, <1>5

(***************************************************************************)
(* The end of a string, and of the body.                                   *)
(***************************************************************************)
LEMMA HandsOver ==
  ASSUME Text, NEW q \in Places, Opens(q), NEW key, NEW found \in Seq(Found),
         HandedOver(key, found, q)
  PROVE  /\ IsKey(StringAt(q)) = key =>
              \A f \in Found : Handed(key, f, StringAt(q)) =>
                                 HandedOver(key, Append(found, f), StringEnds[q + 1])
         /\ IsKey(StringAt(q)) # key => HandedOver(key, found, StringEnds[q + 1])
<1> DEFINE e == StringEnds[q + 1]
           s == StringAt(q)
           from == StringsFrom(key)
<1>1. q # End /\ body[q] = "quote" /\ e # 0 /\ q + 1 \in 1 .. End + 3 /\ q \in Nat /\ End \in Nat
  BY BodyFacts DEF Opens
<1>2. e \in Places
  <2>1. e \in (q + 1) + 1 .. End
    BY <1>1, StringEquation
  <2> QED
    BY <1>1, <2>1, BodyFacts
<1>3. s \in Spans
  BY <1>2 DEF StringAt, Spans
<1>4. /\ from[q] = (IF IsKey(s) = key THEN <<s>> ELSE << >>) \o from[e]
      /\ from[e] \in Seq(Spans)
  BY <1>1, <1>2, StringsEquation DEF StringsStep
<1>5. PICK ss \in Seq(Spans) : /\ Strings(key) = ss \o from[q]
                               /\ Len(found) = Len(ss)
                               /\ \A k \in 1 .. Len(ss) : Handed(key, found[k], ss[k])
  BY DEF HandedOver
<1> HIDE DEF e, s, from
<1>6. ASSUME IsKey(s) = key, NEW f \in Found, Handed(key, f, s)
      PROVE  HandedOver(key, Append(found, f), e)
  <2> DEFINE more == Append(ss, s)
             given == Append(found, f)
  <2>1. Strings(key) = more \o from[e]
    <3>1. from[q] = <<s>> \o from[e]
      BY <1>4, <1>6
    <3> DEFINE v == from[e]
    <3>2. v \in Seq(Spans)
      BY <1>4
    <3> HIDE DEF v
    <3>3. more \o v = ss \o (<<s>> \o v)
      BY <1>3, <3>2, Joins
    <3>4. more \o from[e] = ss \o (<<s>> \o from[e])
      BY <3>3 DEF v
    <3> QED
      BY <1>5, <3>1, <3>4
  <2>2. /\ more \in Seq(Spans) /\ Len(more) = Len(ss) + 1 /\ Len(ss) \in Nat
        /\ more[Len(ss) + 1] = s /\ \A k \in 1 .. Len(ss) : more[k] = ss[k]
    BY <1>3, AppendProperties, LenProperties
  <2>3. /\ Len(given) = Len(ss) + 1 /\ given[Len(ss) + 1] = f
        /\ \A k \in 1 .. Len(ss) : given[k] = found[k]
    BY <1>5, AppendProperties
  <2> HIDE DEF more, given
  <2>4. ASSUME NEW k \in 1 .. Len(more) PROVE Handed(key, given[k], more[k])
    <3>1. k \in 1 .. Len(ss) \/ k = Len(ss) + 1
      BY <2>2
    <3> QED
      BY <1>5, <1>6, <2>2, <2>3, <3>1
  <2>5. HandedOver(key, given, e)
    BY <2>1, <2>2, <2>3, <2>4 DEF HandedOver, from
  <2> QED
    BY <2>5 DEF given
<1>7. ASSUME IsKey(s) # key PROVE HandedOver(key, found, e)
  <2>1. from[q] = from[e]
    BY <1>4, <1>7, ConcatEmptySeq
  <2> QED
    BY <1>5, <2>1 DEF HandedOver, from
<1> QED
  BY <1>6, <1>7 DEF e, s

\* Whether the string that ends here is a key.
LEMMA KeyOrValue ==
  ASSUME MatchInv, IsJson, EndString
  PROVE  LET i == total_read + 1
         IN /\ role = "key" => At(SkipFrom(i + 1), {":"})
            /\ role = "value" => ~At(SkipFrom(i + 1), {":"})
<1> DEFINE i == total_read + 1
<1>1. /\ Take /\ total_read' + 1 = i + 1 /\ stack' = stack
      /\ role = "key" => pc' = "colon"
      /\ role = "value" => pc' = "after"
  BY DEF EndString, Take
<1>2. Text /\ stack \in Stacks /\ i + 1 \in Places
  BY <1>1, MatchingHere DEF ParserInv, ParserTypes
<1>3. GoesOn
  BY EndStringGoesOn DEF MatchInv
<1>4. PICK closes : Planned(stack, closes) /\ Left(pc', stack, closes, role', i + 1)
  BY <1>1, <1>3 DEF GoesOn, Ahead
<1> HIDE DEF i
<1>5. role = "key" => At(SkipFrom(i + 1), {":"})
  BY <1>1, <1>4 DEF Left, ColonDue
<1>6. ASSUME role = "value" PROVE ~At(SkipFrom(i + 1), {":"})
  <2>1. MayEnd(stack, closes, Len(stack), i + 1)
    BY <1>1, <1>4, <1>6 DEF Left
  <2>2. ~At(End, {":"})
    BY <1>2, BodyFacts
  <2> DEFINE d == Len(stack)
             at == SkipFrom(i + 1)
             c == Closing(stack[d].kind)
  <2>3. at = End \/ At(at, {c}) \/ At(at, {","})
    BY <2>1 DEF MayEnd, ListEndsAt
  <2>4. c # ":"
    BY DEF Closing
  <2> HIDE DEF at, c
  <2>5. ~At(at, {":"})
    BY <2>2, <2>3, <2>4 DEF At
  <2> QED
    BY <2>5 DEF at
<1> QED
  BY <1>5, <1>6 DEF i

LEMMA EndStringMatches ==
  ASSUME MatchInv, IsJson, EndString
  PROVE  MatchesOn
<1> DEFINE i == total_read + 1
           f == [text |-> Flushed, start |-> start]
<1>1. /\ Take /\ pc = "string" /\ Byte = "quote" /\ start' = start /\ role' = role
      /\ pc' \notin InStrings \cup {"key"}
      /\ role = "key" => keys' = Append(keys, f) /\ values' = values
      /\ role # "key" => values' = Append(values, f) /\ keys' = keys
  BY DEF EndString, InStrings
<1>2. /\ Text /\ i \in Places /\ i \in Nat /\ i + 1 \in Places /\ total_read' = i
      /\ At(i, {"quote"}) /\ role \in {"key", "value"}
      /\ Matching(pc, start, role, out, units, keys, values, i)
  BY <1>1, MatchingHere
<1>3. /\ start \in Nat /\ keys \in Seq(Found) /\ values \in Seq(Found)
      /\ \E q \in Places : /\ Opens(q) /\ BothHandedOver(keys, values, q)
                           /\ StartOf(role = "key", start, q)
                           /\ TextAt(pc, out, units, q, i)
  BY <1>1, <1>2 DEF Matching, InStrings
<1>4. PICK q \in Places : /\ Opens(q) /\ BothHandedOver(keys, values, q)
                          /\ StartOf(role = "key", start, q)
                          /\ TextAt(pc, out, units, q, i)
  BY <1>3
<1>5. /\ role = "key" => At(SkipFrom(i + 1), {":"})
      /\ role = "value" => ~At(SkipFrom(i + 1), {":"})
  BY KeyOrValue
<1> HIDE DEF i
<1>6. TextUpTo(out, units, q, i) /\ ~EscapeU(i)
  BY <1>1, <1>2, <1>4 DEF TextAt, EscapeU, At
<1>7. StringEnds[q + 1] = i + 1 /\ TextFrom(q, i) = << >>
  <2>1. StringEnds[i] = StringEnds[q + 1]
    BY <1>6 DEF TextUpTo
  <2> QED
    BY <1>2, <1>4, <2>1, TextRule
<1>8. Flushed \in Elements /\ TextFrom(q, q + 1) = Flushed
  <2>1. /\ out \o DecodeUtf16(units) \in Elements
        /\ TextFrom(q, q + 1) = (out \o DecodeUtf16(units)) \o TextFrom(q, i)
    BY <1>2, <1>4, <1>6, Flushes
  <2>2. /\ Flushed \in Elements
        /\ TextFrom(q, q + 1) = Flushed \o TextFrom(q, i)
    BY <2>1 DEF Flushed
  <2> HIDE DEF f
  <2> QED
    BY <1>7, <2>2, ConcatEmptySeq DEF Elements
<1>9. f \in Found
  BY <1>3, <1>8 DEF Found
<1>10. TextOf(StringAt(q)) = Flushed
  BY <1>8 DEF TextOf, StringAt, TextFrom
<1>11. IsKey(StringAt(q)) = At(SkipFrom(i + 1), {":"})
  BY <1>7 DEF IsKey, StringAt
<1>12. HandedOver(TRUE, keys, q) /\ HandedOver(FALSE, values, q)
  BY <1>4 DEF BothHandedOver
<1>13. CASE role = "key"
  <2>1. Handed(TRUE, f, StringAt(q))
    BY <1>4, <1>10, <1>13 DEF Handed, StringAt
  <2>2. IsKey(StringAt(q)) = TRUE /\ IsKey(StringAt(q)) # FALSE
    BY <1>5, <1>11, <1>13
  <2> HIDE DEF f
  <2>3. HandedOver(TRUE, Append(keys, f), i + 1)
    BY <1>2, <1>3, <1>4, <1>7, <1>9, <1>12, <2>1, <2>2, HandsOver
  <2>4. HandedOver(FALSE, values, i + 1)
    BY <1>2, <1>3, <1>4, <1>7, <1>12, <2>2, HandsOver
  <2>5. Append(keys, f) \in Seq(Found)
    BY <1>3, <1>9, AppendProperties
  <2> QED
    BY <1>1, <1>2, <1>3, <1>13, <2>3, <2>4, <2>5 DEF MatchesOn, Matching, BothHandedOver
<1>14. CASE role # "key"
  <2>1. Handed(FALSE, f, StringAt(q))
    BY <1>4, <1>10, <1>14 DEF Handed, StringAt, StartOf
  <2>2. IsKey(StringAt(q)) = FALSE /\ IsKey(StringAt(q)) # TRUE
    BY <1>2, <1>5, <1>11, <1>14 DEF At
  <2> HIDE DEF f
  <2>3. HandedOver(FALSE, Append(values, f), i + 1)
    BY <1>2, <1>3, <1>4, <1>7, <1>9, <1>12, <2>1, <2>2, HandsOver
  <2>4. HandedOver(TRUE, keys, i + 1)
    BY <1>2, <1>3, <1>4, <1>7, <1>12, <2>2, HandsOver
  <2>5. Append(values, f) \in Seq(Found)
    BY <1>3, <1>9, AppendProperties
  <2> QED
    BY <1>1, <1>2, <1>3, <1>14, <2>3, <2>4, <2>5 DEF MatchesOn, Matching, BothHandedOver
<1> QED
  BY <1>13, <1>14

LEMMA EofMatches ==
  ASSUME MatchInv, IsJson, Eof
  PROVE  MatchesOn
<1>1. CASE pc' = "failed"
  BY <1>1 DEF MatchesOn, Matching
<1>2. CASE pc' # "failed"
  <2>1. /\ pc' = "done" /\ EofAllowed /\ pc # "failed" /\ total_read' = total_read
        /\ start' = start /\ role' = role /\ out' = out /\ units' = units
        /\ keys' = keys /\ values' = values
    BY <1>2 DEF Eof, string, matched
  <2>2. pc \notin InStrings /\ pc' \notin InStrings \cup {"key"}
    BY <2>1 DEF EofAllowed, InStrings, NumberPcs
  <2>3. Matching(pc, start, role, out, units, keys, values, total_read + 1)
    BY DEF MatchInv, MatchingNow
  <2> QED
    BY <2>1, <2>2, <2>3 DEF MatchesOn, Matching
<1> QED
  BY <1>1, <1>2

LEMMA UnexpectedValueMatches ==
  ASSUME MatchInv, IsJson, UnexpectedValue
  PROVE  MatchesOn
BY DEF UnexpectedValue, Fail, MatchesOn, Matching

LEMMA MatchInit ==
  ASSUME Init
  PROVE  MatchInv
<1>1. /\ pc = "first" /\ total_read = 0 /\ total_read + 1 = 1 /\ start = 0
      /\ keys = << >> /\ values = << >>
  BY DEF Init
<1>2. AcceptInv /\ Text
  BY AcceptInit DEF AcceptInv, ParserInv, ParserTypes
<1>3. ASSUME NEW key PROVE HandedOver(key, << >>, 1)
  <2>1. << >> \in Seq(Spans) /\ Len(<< >>) = 0
    BY EmptySeq
  <2>2. 1 \in Places
    BY <1>2, BodyFacts
  <2>3. StringsFrom(key)[1] \in Seq(Spans)
    BY <1>2, <2>2, StringsEquation
  <2>4. Strings(key) = << >> \o StringsFrom(key)[1]
    BY <2>3, ConcatEmptySeq DEF Strings
  <2>5. \A k \in 1 .. Len(<< >>) : FALSE
    BY <2>1
  <2> DEFINE none == << >>
  <2>6. /\ none \in Seq(Spans) /\ Strings(key) = none \o StringsFrom(key)[1]
        /\ \A k \in 1 .. Len(none) : FALSE
    BY <2>1, <2>4, <2>5
  <2> HIDE DEF none
  <2>7. HandedOver(key, none, 1)
    BY <2>6 DEF HandedOver
  <2> QED
    BY <2>7 DEF none
<1>4. << >> \in Seq(Found)
  BY EmptySeq
<1>5. Matching(pc, start, role, out, units, keys, values, total_read + 1)
  BY <1>1, <1>3, <1>4 DEF Matching, InStrings, BothHandedOver
<1> QED
  BY <1>2, <1>5 DEF MatchInv, MatchingNow

LEMMA MatchStep ==
  ASSUME MatchInv, [Next]_vars
  PROVE  MatchInv'
<1>1. AcceptInv' /\ body' = body
  BY AcceptStep, BodyStays DEF MatchInv
<1>2. IsJson' <=> IsJson
  BY <1>1, SameStrict
<1>3. CASE ~IsJson
  BY <1>1, <1>2, <1>3 DEF MatchInv
<1>4. CASE IsJson
  <2>1. MatchesOn
    <3>1. CASE UNCHANGED vars
      <4>1. Matching(pc, start, role, out, units, keys, values, total_read + 1)
        BY <1>4 DEF MatchInv, MatchingNow
      <4>2. /\ pc' = pc /\ start' = start /\ role' = role /\ out' = out /\ units' = units
            /\ keys' = keys /\ values' = values /\ total_read' = total_read
        BY <3>1 DEF vars, string, matched
      <4> QED
        BY <4>1, <4>2 DEF MatchesOn
    <3>2. CASE Next
      BY <1>4, <3>2, SkipSpaceMatches, AfterMatches, EofMatches, BeginObjectMatches,
         BeginOthersMatch, BeginStringMatches, UnexpectedValueMatches, KeywordMatches,
         KeyMatches, ColonMatches, StringCharMatches, RestOfCharMatches, BackslashMatches,
         EscapeMatches, UnitMatches, EndStringMatches, ReadNumberMatches DEF Next
    <3> QED
      BY <3>1, <3>2
  <2>2. MatchingNow'
    BY <1>1, <2>1, SameMatching DEF MatchesOn, MatchingNow
  <2> QED
    BY <1>1, <2>2 DEF MatchInv
<1> QED
  BY <1>3, <1>4

\* What was handed over of a body that was parsed to its end.
LEMMA AllHandedOver ==
  ASSUME Text, NEW key, NEW found \in Seq(Found), HandedOver(key, found, End)
  PROVE  /\ TextsFound(found) = Texts(Strings(key))
         /\ \A k \in DOMAIN Strings(key) : StartOf(key, found[k].start, Strings(key)[k].start)
<1>1. PICK ss \in Seq(Spans) : /\ Strings(key) = ss \o StringsFrom(key)[End]
                               /\ Len(found) = Len(ss)
                               /\ \A k \in 1 .. Len(ss) : Handed(key, found[k], ss[k])
  BY DEF HandedOver
<1>2. StringsFrom(key)[End] = << >>
  BY BodyFacts, StringsEquation DEF StringsStep
<1>3. Strings(key) = ss
  BY <1>1, <1>2, ConcatEmptySeq
<1>4. DOMAIN found = 1 .. Len(ss) /\ DOMAIN ss = 1 .. Len(ss)
  BY <1>1, LenProperties
<1>5. \A k \in 1 .. Len(ss) : /\ found[k].text = TextOf(ss[k])
                              /\ StartOf(key, found[k].start, ss[k].start)
  BY <1>1 DEF Handed
<1> QED
  BY <1>3, <1>4, <1>5 DEF TextsFound, Texts

\* Of a body that is JSON every key gets to the matchers of keys and every other string to
\* those of values, once, in the order of the body and decoded (parse.rs 113-184, 267-272,
\* 318-323), with the position that the code gives it (parse.rs:256, 262).
THEOREM EveryStringMatchedHolds == Spec => []EveryStringMatched
<1>1. MatchInv => EveryStringMatched
  <2> SUFFICES ASSUME MatchInv, pc = "done", IsJson PROVE EveryStringMatched
    BY DEF EveryStringMatched
  <2>1. Text /\ total_read + 1 = End
    <3>1. Text /\ total_read = Len(body)
      BY DEF MatchInv, AcceptInv, ParserInv, ParserTypes
    <3> QED
      BY <3>1, BodyFacts
  <2>2. /\ keys \in Seq(Found) /\ values \in Seq(Found)
        /\ HandedOver(TRUE, keys, End) /\ HandedOver(FALSE, values, End)
    <3>1. Matching("done", start, role, out, units, keys, values, End)
      BY <2>1 DEF MatchInv, MatchingNow
    <3>2. "done" # "failed" /\ "done" \notin InStrings
      BY DEF InStrings
    <3> QED
      BY <3>1, <3>2 DEF Matching, BothHandedOver
  <2>3. /\ TextsFound(keys) = Texts(Strings(TRUE))
        /\ \A k \in DOMAIN Strings(TRUE) :
             StartOf(TRUE, keys[k].start, Strings(TRUE)[k].start)
    BY <2>1, <2>2, AllHandedOver
  <2>4. /\ TextsFound(values) = Texts(Strings(FALSE))
        /\ \A k \in DOMAIN Strings(FALSE) :
             StartOf(FALSE, values[k].start, Strings(FALSE)[k].start)
    BY <2>1, <2>2, AllHandedOver
  <2> QED
    BY <2>3, <2>4 DEF EveryStringMatched, StartOf
<1> QED
  BY <1>1, MatchInit, MatchStep, PTL DEF Spec
=============================================================================
