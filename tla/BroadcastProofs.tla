---------------------------- MODULE BroadcastProofs ----------------------------
(***************************************************************************)
(* Proofs about BroadcastToWorkers, for any number of queues: the removal  *)
(* by index hits the queues it means, and the loop implements the atomic   *)
(* broadcast that ControlPlane uses.                                       *)
(***************************************************************************)
EXTENDS BroadcastToWorkers, SequenceTheorems, TLAPS

\* A queue that was gone when the loop came to it, or before the broadcast.
Missing == gone \ late

\* What the loop did for a queue it has passed.
Offered(q) ==
  \/ q \in Missing /\ received[q] = 0
  \/ q \notin Missing /\ (received[q] = 1 \/ (received[q] = 0 /\ q \in Unreliable))

\* The indices remembered are those of the missing queues the loop has passed, in
\* the order of the loop; the queues ahead of it are as they were.
SendInv ==
  pc = "send" =>
    /\ before.queues = ToSet(policy_update_queues)
    /\ \A a \in DOMAIN bad_stream_index :
         bad_stream_index[a] \in DOMAIN policy_update_queues /\ bad_stream_index[a] < i
    /\ \A a, b \in DOMAIN bad_stream_index :
         a < b => bad_stream_index[a] < bad_stream_index[b]
    /\ \A k \in DOMAIN policy_update_queues :
         IF k < i
         THEN /\ Offered(policy_update_queues[k])
              /\ policy_update_queues[k] \in Missing <=> k \in ToSet(bad_stream_index)
         ELSE /\ received[policy_update_queues[k]] = 0
              /\ policy_update_queues[k] \notin late
    /\ \A q \in Queues \ before.queues : received[q] = 0

\* The indices that are left are those of the missing queues in the list that is
\* left, the highest first.
RemoveInv ==
  pc = "remove" =>
    /\ ToSet(policy_update_queues) \subseteq before.queues
    /\ before.queues \ ToSet(policy_update_queues) \subseteq Missing
    /\ \A a \in DOMAIN bad_stream_index :
         bad_stream_index[a] \in DOMAIN policy_update_queues
    /\ \A a, b \in DOMAIN bad_stream_index :
         a < b => bad_stream_index[a] > bad_stream_index[b]
    /\ \A k \in DOMAIN policy_update_queues :
         policy_update_queues[k] \in Missing <=> k \in ToSet(bad_stream_index)
    /\ \A q \in before.queues : Offered(q)
    /\ \A q \in Queues \ before.queues : received[q] = 0

\* on_queue_ready registers a queue once, and nothing else writes the list.
ListedOnce ==
  \A k, l \in DOMAIN policy_update_queues :
    policy_update_queues[k] = policy_update_queues[l] => k = l

LoopInv ==
  /\ TypeOK
  /\ ListedOnce
  /\ pc = "idle" => late = {}
  /\ SendInv
  /\ RemoveInv

(***************************************************************************)
(* The operators on sequences.                                             *)
(***************************************************************************)
\* Vec::remove takes one element out and moves those behind it.
LEMMA RemoveAtFacts ==
  ASSUME NEW S, NEW s \in Seq(S), NEW h \in 1 .. Len(s)
  PROVE  /\ RemoveAt(s, h) \in Seq(S)
         /\ Len(RemoveAt(s, h)) = Len(s) - 1
         /\ DOMAIN RemoveAt(s, h) = 1 .. Len(s) - 1
         /\ \A k \in 1 .. Len(s) - 1 :
              RemoveAt(s, h)[k] = IF k < h THEN s[k] ELSE s[k + 1]
<1> DEFINE front == SubSeq(s, 1, h - 1)
           back == SubSeq(s, h + 1, Len(s))
<1>1. Len(s) \in Nat /\ \A k \in 1 .. Len(s) : s[k] \in S
  BY LenProperties, ElementOfSeq
<1>2. /\ front \in Seq(S) /\ Len(front) = h - 1
      /\ \A k \in 1 .. h - 1 : front[k] = s[k]
  <2>1. 1 \in Int /\ h - 1 \in Int /\ \A k \in 1 .. h - 1 : s[k] \in S
    BY <1>1
  <2>2. /\ front \in Seq(S)
        /\ Len(front) = IF 1 <= h - 1 THEN (h - 1) - 1 + 1 ELSE 0
        /\ \A k \in 1 .. (h - 1) - 1 + 1 : front[k] = s[1 + k - 1]
    BY <2>1, SubSeqProperties
  <2> QED
    BY <1>1, <2>2
<1>3. /\ back \in Seq(S) /\ Len(back) = Len(s) - h
      /\ \A k \in 1 .. Len(s) - h : back[k] = s[h + k]
  <2>1. h + 1 \in Int /\ Len(s) \in Int /\ \A k \in h + 1 .. Len(s) : s[k] \in S
    BY <1>1
  <2>2. /\ back \in Seq(S)
        /\ Len(back) = IF h + 1 <= Len(s) THEN Len(s) - (h + 1) + 1 ELSE 0
        /\ \A k \in 1 .. Len(s) - (h + 1) + 1 : back[k] = s[(h + 1) + k - 1]
    BY <2>1, SubSeqProperties
  <2> QED
    BY <1>1, <2>2
<1> HIDE DEF front, back
<1>4. /\ front \o back \in Seq(S)
      /\ Len(front \o back) = Len(front) + Len(back)
      /\ \A k \in 1 .. Len(front) + Len(back) :
           (front \o back)[k] = IF k <= Len(front) THEN front[k] ELSE back[k - Len(front)]
  BY <1>2, <1>3, ConcatProperties
<1>5. Len(front) + Len(back) = Len(s) - 1
  BY <1>1, <1>2, <1>3
<1>6. ASSUME NEW k \in 1 .. Len(s) - 1
      PROVE  (front \o back)[k] = IF k < h THEN s[k] ELSE s[k + 1]
  <2>1. CASE k < h
    BY <1>1, <1>2, <1>4, <1>5, <2>1
  <2>2. CASE ~(k < h)
    <3>1. k - Len(front) \in 1 .. Len(s) - h /\ ~(k <= Len(front))
          /\ h + (k - Len(front)) = k + 1
      BY <1>1, <1>2, <2>2
    <3> QED
      BY <1>3, <1>4, <1>5, <2>2, <3>1
  <2> QED
    BY <2>1, <2>2
<1>7. RemoveAt(s, h) = front \o back
  BY DEF RemoveAt, front, back
<1>8. DOMAIN (front \o back) = 1 .. Len(s) - 1
  BY <1>4, <1>5, LenProperties
<1> QED
  BY <1>4, <1>5, <1>6, <1>7, <1>8

LEMMA ReverseFacts ==
  ASSUME NEW S, NEW s \in Seq(S)
  PROVE  /\ Reverse(s) \in Seq(S)
         /\ DOMAIN Reverse(s) = DOMAIN s
         /\ \A k \in DOMAIN s : /\ Len(s) - k + 1 \in DOMAIN s
                                /\ Reverse(s)[k] = s[Len(s) - k + 1]
         /\ ToSet(Reverse(s)) = ToSet(s)
<1>1. /\ Len(s) \in Nat /\ DOMAIN s = 1 .. Len(s)
      /\ \A k \in 1 .. Len(s) : s[k] \in S
  BY LenProperties, ElementOfSeq
<1>2. \A k \in 1 .. Len(s) : /\ Len(s) - k + 1 \in 1 .. Len(s)
                             /\ Len(s) - (Len(s) - k + 1) + 1 = k
  BY <1>1
<1>3. /\ DOMAIN Reverse(s) = 1 .. Len(s)
      /\ \A k \in 1 .. Len(s) : Reverse(s)[k] = s[Len(s) - k + 1]
  BY DEF Reverse
<1>4. Reverse(s) \in [1 .. Len(s) -> S]
  BY <1>1, <1>2 DEF Reverse
<1>5. Reverse(s) \in Seq(S)
  BY <1>1, <1>4, SeqDef
<1>6. ToSet(Reverse(s)) \subseteq ToSet(s)
  BY <1>1, <1>2, <1>3 DEF ToSet
<1>7. ASSUME NEW k \in 1 .. Len(s) PROVE s[k] \in ToSet(Reverse(s))
  <2>1. Reverse(s)[Len(s) - k + 1] = s[k] /\ Len(s) - k + 1 \in DOMAIN Reverse(s)
    BY <1>2, <1>3
  <2> QED
    BY <2>1 DEF ToSet
<1>8. ToSet(s) \subseteq ToSet(Reverse(s))
  BY <1>1, <1>7 DEF ToSet
<1> QED
  BY <1>1, <1>2, <1>3, <1>5, <1>6, <1>8

LEMMA AppendFacts ==
  ASSUME NEW S, NEW s \in Seq(S), NEW e \in S
  PROVE  /\ Append(s, e) \in Seq(S)
         /\ DOMAIN s = 1 .. Len(s) /\ Len(s) \in Nat
         /\ DOMAIN Append(s, e) = 1 .. Len(s) + 1
         /\ \A k \in 1 .. Len(s) : Append(s, e)[k] = s[k]
         /\ Append(s, e)[Len(s) + 1] = e
         /\ ToSet(Append(s, e)) = ToSet(s) \cup {e}
<1>1. /\ Append(s, e) \in Seq(S)
      /\ DOMAIN s = 1 .. Len(s) /\ Len(s) \in Nat
      /\ DOMAIN Append(s, e) = 1 .. Len(s) + 1
      /\ \A k \in 1 .. Len(s) : Append(s, e)[k] = s[k]
      /\ Append(s, e)[Len(s) + 1] = e
  BY AppendProperties, LenProperties
<1>2. ToSet(Append(s, e)) \subseteq ToSet(s) \cup {e}
  BY <1>1 DEF ToSet
<1>3. ToSet(s) \subseteq ToSet(Append(s, e))
  BY <1>1 DEF ToSet
<1>4. Len(s) + 1 \in DOMAIN Append(s, e)
  BY <1>1
<1>5. e \in ToSet(Append(s, e))
  BY <1>1, <1>4 DEF ToSet
<1> QED
  BY <1>1, <1>2, <1>3, <1>5

LEMMA TailFacts ==
  ASSUME NEW S, NEW s \in Seq(S), s # <<>>
  PROVE  /\ Len(s) \in Nat \ {0} /\ DOMAIN s = 1 .. Len(s)
         /\ Head(s) = s[1] /\ Tail(s) \in Seq(S)
         /\ DOMAIN Tail(s) = 1 .. Len(s) - 1
         /\ \A k \in 1 .. Len(s) - 1 : Tail(s)[k] = s[k + 1]
         /\ ToSet(s) = {Head(s)} \cup ToSet(Tail(s))
<1>1. /\ Len(s) \in Nat \ {0} /\ DOMAIN s = 1 .. Len(s)
      /\ Head(s) = s[1] /\ Tail(s) \in Seq(S)
      /\ DOMAIN Tail(s) = 1 .. Len(s) - 1
      /\ \A k \in 1 .. Len(s) - 1 : Tail(s)[k] = s[k + 1]
  BY HeadTailProperties, LenProperties, EmptySeq
<1>2. ASSUME NEW k \in 1 .. Len(s) PROVE s[k] \in {Head(s)} \cup ToSet(Tail(s))
  <2>1. CASE k = 1
    BY <1>1, <2>1
  <2>2. CASE k # 1
    <3>1. k - 1 \in DOMAIN Tail(s) /\ Tail(s)[k - 1] = s[k]
      BY <1>1, <2>2
    <3> QED
      BY <3>1 DEF ToSet
  <2> QED
    BY <2>1, <2>2
<1>3. ASSUME NEW k \in DOMAIN Tail(s) PROVE k + 1 \in DOMAIN s /\ s[k + 1] = Tail(s)[k]
  BY <1>1
<1>4. 1 \in DOMAIN s
  BY <1>1
<1> QED
  BY <1>1, <1>2, <1>3, <1>4 DEF ToSet

(***************************************************************************)
(* The invariant, an action at a time.                                     *)
(***************************************************************************)
LEMMA InitLoop == Init => LoopInv
<1> SUFFICES ASSUME Init PROVE LoopInv
  OBVIOUS
<1>1. <<>> \in Seq(Queues) /\ <<>> \in Seq(Nat \ {0}) /\ DOMAIN <<>> = {}
  BY EmptySeq
<1>2. NoMessages \in [Queues -> Nat]
  BY DEF NoMessages
<1>3. TypeOK
  BY <1>1, <1>2 DEF Init, TypeOK
<1> QED
  BY <1>1, <1>3 DEF Init, LoopInv, ListedOnce, SendInv, RemoveInv

LEMMA RegisterLoop ==
  ASSUME LoopInv, NEW q \in Queues, Register(q)
  PROVE  LoopInv'
<1> USE DEF LoopInv
<1>1. policy_update_queues \in Seq(Queues)
  BY DEF TypeOK
<1>2. TypeOK'
  BY <1>1, AppendFacts DEF Register, TypeOK
<1>3. \A k \in 1 .. Len(policy_update_queues) : policy_update_queues[k] # q
  BY DEF Register, Contains
<1>4. ListedOnce'
  BY <1>1, <1>3, AppendFacts DEF Register, ListedOnce
<1> QED
  BY <1>2, <1>4 DEF Register, SendInv, RemoveInv

LEMMA BeginLoop == ASSUME LoopInv, Begin PROVE LoopInv'
<1> USE DEF LoopInv
<1>1. /\ policy_update_queues \in Seq(Queues)
      /\ DOMAIN policy_update_queues = 1 .. Len(policy_update_queues)
      /\ Len(policy_update_queues) \in Nat
      /\ \A k \in DOMAIN policy_update_queues : policy_update_queues[k] \in Queues
  BY LenProperties, ElementOfSeq DEF TypeOK
<1>2. <<>> \in Seq(Nat \ {0}) /\ DOMAIN <<>> = {} /\ 1 \in Nat \ {0}
  BY EmptySeq
<1>3. NoMessages \in [Queues -> Nat] /\ \A q \in Queues : NoMessages[q] = 0
  BY DEF NoMessages
<1>4. ToSet(policy_update_queues) \subseteq Queues
  BY <1>1 DEF ToSet
<1>5. TypeOK'
  BY <1>2, <1>3, <1>4 DEF Begin, TypeOK
<1>6. SendInv'
  BY <1>1, <1>2, <1>3 DEF Begin, SendInv
<1> QED
  BY <1>5, <1>6 DEF Begin, ListedOnce, RemoveInv

LEMMA SendLoop == ASSUME LoopInv, SendOne PROVE LoopInv'
<1> DEFINE q == policy_update_queues[i]
<1> USE DEF LoopInv
<1>1. /\ DOMAIN policy_update_queues = 1 .. Len(policy_update_queues)
      /\ Len(policy_update_queues) \in Nat
      /\ \A k \in DOMAIN policy_update_queues : policy_update_queues[k] \in Queues
      /\ i \in DOMAIN policy_update_queues
      /\ i + 1 \in Nat \ {0}
  BY LenProperties, ElementOfSeq DEF TypeOK, SendOne, LoopEnd
<1>2. /\ bad_stream_index \in Seq(Nat \ {0})
      /\ DOMAIN bad_stream_index = 1 .. Len(bad_stream_index)
      /\ Len(bad_stream_index) \in Nat
      /\ \A a \in DOMAIN bad_stream_index : bad_stream_index[a] \in Nat
      /\ i \in Nat \ {0}
  BY LenProperties, ElementOfSeq DEF TypeOK
<1>3. /\ pc = "send" /\ pc' = "send" /\ i' = i + 1
      /\ UNCHANGED <<policy_update_queues, gone, before, late>>
  BY DEF SendOne
<1>4. /\ q \in Queues /\ received[q] = 0 /\ q \notin late
      /\ \A k \in DOMAIN policy_update_queues : k # i => policy_update_queues[k] # q
      /\ \A k \in DOMAIN policy_update_queues : k < i + 1 <=> k < i \/ k = i
      /\ i \notin ToSet(bad_stream_index)
      /\ q \in before.queues
  <2>1. ~(i < i)
    BY <1>2
  <2>2. received[q] = 0 /\ q \notin late
    BY <1>1, <1>3, <2>1 DEF SendInv
  <2>3. i \notin ToSet(bad_stream_index)
    BY <1>3, <2>1 DEF SendInv, ToSet
  <2>4. q \in before.queues
    BY <1>1, <1>3 DEF SendInv, ToSet
  <2> QED
    BY <1>1, <1>2, <2>2, <2>3, <2>4 DEF ListedOnce
<1> HIDE DEF q
<1>5. CASE /\ q \notin gone
           /\ received' = [received EXCEPT ![q] = received[q] + 1]
           /\ UNCHANGED bad_stream_index
  <2>1. /\ received' \in [Queues -> Nat] /\ received'[q] = 1
        /\ \A p \in Queues : p # q => received'[p] = received[p]
    BY <1>4, <1>5 DEF TypeOK
  <2>2. TypeOK'
    BY <1>1, <1>3, <1>5, <2>1 DEF TypeOK
  <2>3. SendInv'
    BY <1>1, <1>3, <1>4, <1>5, <2>1 DEF SendInv, Offered, Missing, q, TypeOK
  <2> QED
    BY <1>3, <2>2, <2>3 DEF ListedOnce, RemoveInv
<1>6. CASE /\ q \in gone
           /\ bad_stream_index' = Append(bad_stream_index, i)
           /\ UNCHANGED received
  <2>1. /\ bad_stream_index' \in Seq(Nat \ {0})
        /\ DOMAIN bad_stream_index' = 1 .. Len(bad_stream_index) + 1
        /\ \A a \in DOMAIN bad_stream_index : bad_stream_index'[a] = bad_stream_index[a]
        /\ bad_stream_index'[Len(bad_stream_index) + 1] = i
        /\ ToSet(bad_stream_index') = ToSet(bad_stream_index) \cup {i}
    BY <1>2, <1>6, AppendFacts
  <2>2. TypeOK'
    BY <1>1, <1>3, <1>6, <2>1 DEF TypeOK
  <2>3. \A a \in DOMAIN bad_stream_index' :
          bad_stream_index'[a] \in DOMAIN policy_update_queues'
          /\ bad_stream_index'[a] < i'
    <3> SUFFICES ASSUME NEW a \in 1 .. Len(bad_stream_index) + 1
                 PROVE  /\ bad_stream_index'[a] \in DOMAIN policy_update_queues
                        /\ bad_stream_index'[a] < i + 1
      BY <1>3, <2>1
    <3>1. CASE a \in DOMAIN bad_stream_index
      BY <1>2, <1>3, <2>1, <3>1 DEF SendInv
    <3>2. CASE a = Len(bad_stream_index) + 1
      BY <1>1, <1>2, <2>1, <3>2
    <3> QED
      BY <1>2, <3>1, <3>2
  <2>4. \A a, b \in DOMAIN bad_stream_index' :
          a < b => bad_stream_index'[a] < bad_stream_index'[b]
    <3> SUFFICES ASSUME NEW a \in 1 .. Len(bad_stream_index) + 1,
                        NEW b \in 1 .. Len(bad_stream_index) + 1, a < b
                 PROVE  bad_stream_index'[a] < bad_stream_index'[b]
      BY <2>1
    <3>1. a \in DOMAIN bad_stream_index /\ bad_stream_index'[a] = bad_stream_index[a]
      <4>1. a \in 1 .. Len(bad_stream_index)
        BY <1>2
      <4> QED
        BY <1>2, <2>1, <4>1
    <3>2. CASE b \in DOMAIN bad_stream_index
      BY <1>3, <2>1, <3>1, <3>2 DEF SendInv
    <3>3. CASE b = Len(bad_stream_index) + 1
      BY <1>3, <2>1, <3>1, <3>3 DEF SendInv
    <3> QED
      BY <1>2, <3>2, <3>3
  <2>5. ASSUME NEW k \in DOMAIN policy_update_queues
        PROVE IF k < i + 1
              THEN /\ Offered(policy_update_queues[k])'
                   /\ policy_update_queues[k] \in Missing <=> k \in ToSet(bad_stream_index')
              ELSE /\ received[policy_update_queues[k]] = 0
                   /\ policy_update_queues[k] \notin late
    <3>1. CASE k = i
      BY <1>1, <1>2, <1>3, <1>4, <1>6, <2>1, <3>1 DEF Offered, Missing, q
    <3>2. CASE k # i
      BY <1>1, <1>2, <1>3, <1>4, <1>6, <2>1, <3>2 DEF SendInv, Offered, Missing
    <3> QED
      BY <3>1, <3>2
  <2>6. SendInv'
    BY <1>3, <1>6, <2>3, <2>4, <2>5 DEF SendInv, Missing
  <2> QED
    BY <1>3, <2>2, <2>6 DEF ListedOnce, RemoveInv
<1>7. CASE q \in Unreliable \ gone /\ UNCHANGED <<received, bad_stream_index>>
  <2>1. TypeOK'
    BY <1>1, <1>3, <1>7 DEF TypeOK
  <2>2. SendInv'
    BY <1>1, <1>3, <1>4, <1>7 DEF SendInv, Offered, Missing, q
  <2> QED
    BY <1>3, <2>1, <2>2 DEF ListedOnce, RemoveInv
<1> QED
  BY <1>5, <1>6, <1>7 DEF SendOne, q

LEMMA SentAllLoop == ASSUME LoopInv, SentAll PROVE LoopInv'
<1> USE DEF LoopInv
<1>1. /\ DOMAIN policy_update_queues = 1 .. Len(policy_update_queues)
      /\ Len(policy_update_queues) \in Nat
      /\ \A k \in DOMAIN policy_update_queues : k < i
  BY LenProperties DEF TypeOK, SentAll, LoopEnd
<1>2. /\ pc = "send" /\ pc' = "remove"
      /\ bad_stream_index' = Reverse(bad_stream_index)
      /\ UNCHANGED <<policy_update_queues, i, gone, received, before, late>>
  BY DEF SentAll, RemovalOrder
<1>3. /\ bad_stream_index' \in Seq(Nat \ {0})
      /\ DOMAIN bad_stream_index' = DOMAIN bad_stream_index
      /\ \A k \in DOMAIN bad_stream_index :
           /\ Len(bad_stream_index) - k + 1 \in DOMAIN bad_stream_index
           /\ bad_stream_index'[k] = bad_stream_index[Len(bad_stream_index) - k + 1]
      /\ ToSet(bad_stream_index') = ToSet(bad_stream_index)
  BY <1>2, ReverseFacts DEF TypeOK
<1>4. TypeOK'
  BY <1>2, <1>3 DEF TypeOK
<1>5. \A a \in DOMAIN bad_stream_index' :
        bad_stream_index'[a] \in DOMAIN policy_update_queues'
  BY <1>2, <1>3 DEF SendInv
<1>6. \A a, b \in DOMAIN bad_stream_index' :
        a < b => bad_stream_index'[a] > bad_stream_index'[b]
  <2> SUFFICES ASSUME NEW a \in DOMAIN bad_stream_index, NEW b \in DOMAIN bad_stream_index,
                      a < b
               PROVE  bad_stream_index'[a] > bad_stream_index'[b]
    BY <1>3
  <2>1. /\ Len(bad_stream_index) \in Nat
        /\ DOMAIN bad_stream_index = 1 .. Len(bad_stream_index)
        /\ \A k \in DOMAIN bad_stream_index : bad_stream_index[k] \in Nat
    BY LenProperties, ElementOfSeq DEF TypeOK
  <2>2. Len(bad_stream_index) - b + 1 < Len(bad_stream_index) - a + 1
    BY <2>1
  <2>3. bad_stream_index[Len(bad_stream_index) - b + 1]
          < bad_stream_index[Len(bad_stream_index) - a + 1]
    BY <1>2, <1>3, <2>2 DEF SendInv
  <2> QED
    BY <1>3, <2>1, <2>3
<1>7. ASSUME NEW k \in DOMAIN policy_update_queues
      PROVE  /\ Offered(policy_update_queues[k])
             /\ policy_update_queues[k] \in Missing <=> k \in ToSet(bad_stream_index)
  BY <1>1, <1>2 DEF SendInv
<1>8. /\ before.queues = ToSet(policy_update_queues)
      /\ \A q \in Queues \ before.queues : received[q] = 0
  BY <1>2 DEF SendInv
<1>9. \A q \in before.queues : Offered(q)
  BY <1>7, <1>8 DEF ToSet
<1>10. RemoveInv'
  BY <1>2, <1>3, <1>5, <1>6, <1>7, <1>8, <1>9 DEF RemoveInv, Offered, Missing
<1> QED
  BY <1>2, <1>4, <1>10 DEF ListedOnce, SendInv

\* The highest index goes first, so those below it stay those of the same queues.
LEMMA RemoveLoop == ASSUME LoopInv, RemoveOne PROVE LoopInv'
<1> DEFINE h == Head(bad_stream_index)
           n == Len(policy_update_queues)
<1> USE DEF LoopInv
<1>1. /\ policy_update_queues \in Seq(Queues)
      /\ DOMAIN policy_update_queues = 1 .. n /\ n \in Nat
      /\ \A k \in 1 .. n : policy_update_queues[k] \in Queues
  BY LenProperties, ElementOfSeq DEF TypeOK
<1>2. /\ pc = "remove" /\ pc' = "remove"
      /\ bad_stream_index # <<>>
      /\ policy_update_queues' = RemoveAt(policy_update_queues, h)
      /\ bad_stream_index' = Tail(bad_stream_index)
      /\ UNCHANGED <<i, gone, received, before, late>>
  BY DEF RemoveOne
<1>3. /\ Len(bad_stream_index) \in Nat \ {0}
      /\ DOMAIN bad_stream_index = 1 .. Len(bad_stream_index)
      /\ h = bad_stream_index[1] /\ bad_stream_index' \in Seq(Nat \ {0})
      /\ DOMAIN bad_stream_index' = 1 .. Len(bad_stream_index) - 1
      /\ \A k \in 1 .. Len(bad_stream_index) - 1 :
           bad_stream_index'[k] = bad_stream_index[k + 1]
      /\ ToSet(bad_stream_index) = {h} \cup ToSet(bad_stream_index')
  BY <1>2, TailFacts DEF TypeOK
<1>4. /\ \A a \in DOMAIN bad_stream_index : bad_stream_index[a] \in 1 .. n
      /\ h \in 1 .. n
      /\ \A a, b \in DOMAIN bad_stream_index :
           a < b => bad_stream_index[a] > bad_stream_index[b]
  BY <1>1, <1>2, <1>3 DEF RemoveInv
<1>5. \A k \in ToSet(bad_stream_index') : k < h
  <2>1. ASSUME NEW a \in DOMAIN bad_stream_index' PROVE bad_stream_index'[a] < h
    <3>1. a + 1 \in DOMAIN bad_stream_index /\ 1 \in DOMAIN bad_stream_index /\ 1 < a + 1
      BY <1>3
    <3>2. bad_stream_index[1] > bad_stream_index[a + 1]
      BY <1>4, <3>1
    <3>3. bad_stream_index[1] \in 1 .. n /\ bad_stream_index[a + 1] \in 1 .. n
      BY <1>4, <3>1
    <3> QED
      BY <1>1, <1>3, <3>2, <3>3
  <2> QED
    BY <2>1 DEF ToSet
<1> HIDE DEF h, n
<1>6. /\ policy_update_queues' \in Seq(Queues)
      /\ DOMAIN policy_update_queues' = 1 .. n - 1
      /\ \A k \in 1 .. n - 1 :
           policy_update_queues'[k] = IF k < h THEN policy_update_queues[k]
                                               ELSE policy_update_queues[k + 1]
  <2>1. h \in 1 .. Len(policy_update_queues)
    BY <1>4 DEF n
  <2> QED
    BY <1>1, <1>2, <2>1, RemoveAtFacts DEF n
<1>7. TypeOK'
  BY <1>2, <1>3, <1>6 DEF TypeOK
<1>8. ListedOnce'
  <2> SUFFICES ASSUME NEW k \in 1 .. n - 1, NEW l \in 1 .. n - 1,
                      policy_update_queues'[k] = policy_update_queues'[l]
               PROVE  k = l
    BY <1>6 DEF ListedOnce
  <2> DEFINE was(m) == IF m < h THEN m ELSE m + 1
  <2>1. /\ was(k) \in 1 .. n /\ was(l) \in 1 .. n
        /\ was(k) = was(l) => k = l
    BY <1>1, <1>4
  <2>2. /\ policy_update_queues'[k] = policy_update_queues[was(k)]
        /\ policy_update_queues'[l] = policy_update_queues[was(l)]
    BY <1>6
  <2> HIDE DEF was
  <2>3. was(k) = was(l)
    BY <1>1, <2>1, <2>2 DEF ListedOnce
  <2> QED
    BY <2>1, <2>3
<1>9. policy_update_queues[h] \in Missing
  BY <1>1, <1>2, <1>3, <1>4 DEF RemoveInv
<1>10. /\ ToSet(policy_update_queues') \subseteq ToSet(policy_update_queues)
       /\ ToSet(policy_update_queues) \subseteq
            ToSet(policy_update_queues') \cup {policy_update_queues[h]}
  <2>1. ASSUME NEW k \in 1 .. n - 1
        PROVE  policy_update_queues'[k] \in ToSet(policy_update_queues)
    <3>1. k \in DOMAIN policy_update_queues /\ k + 1 \in DOMAIN policy_update_queues
      BY <1>1
    <3> QED
      BY <1>6, <3>1 DEF ToSet
  <2>2. ASSUME NEW k \in 1 .. n, k # h
        PROVE  policy_update_queues[k] \in ToSet(policy_update_queues')
    <3>1. CASE k < h
      <4>1. k \in DOMAIN policy_update_queues'
            /\ policy_update_queues'[k] = policy_update_queues[k]
        BY <1>1, <1>4, <1>6, <3>1
      <4> QED
        BY <4>1 DEF ToSet
    <3>2. CASE k > h
      <4>1. k - 1 \in DOMAIN policy_update_queues'
            /\ policy_update_queues'[k - 1] = policy_update_queues[k]
        BY <1>1, <1>4, <1>6, <3>2
      <4> QED
        BY <4>1 DEF ToSet
    <3> QED
      BY <1>1, <1>4, <2>2, <3>1, <3>2
  <2>3. ToSet(policy_update_queues') \subseteq ToSet(policy_update_queues)
    BY <1>6, <2>1 DEF ToSet
  <2>4. ToSet(policy_update_queues) \subseteq
          ToSet(policy_update_queues') \cup {policy_update_queues[h]}
    BY <1>1, <2>2 DEF ToSet
  <2> QED
    BY <2>3, <2>4
<1>11. /\ ToSet(policy_update_queues') \subseteq before.queues
       /\ before.queues \ ToSet(policy_update_queues') \subseteq Missing
  BY <1>2, <1>9, <1>10 DEF RemoveInv
<1>12. \A a \in DOMAIN bad_stream_index' :
         bad_stream_index'[a] \in DOMAIN policy_update_queues'
  <2>1. ASSUME NEW a \in DOMAIN bad_stream_index'
        PROVE  bad_stream_index'[a] \in 1 .. n /\ bad_stream_index'[a] < h
    BY <1>3, <1>4, <1>5 DEF ToSet
  <2> QED
    BY <1>1, <1>4, <1>6, <2>1
<1>13. \A a, b \in DOMAIN bad_stream_index' :
         a < b => bad_stream_index'[a] > bad_stream_index'[b]
  <2> SUFFICES ASSUME NEW a \in 1 .. Len(bad_stream_index) - 1,
                      NEW b \in 1 .. Len(bad_stream_index) - 1, a < b
               PROVE  bad_stream_index'[a] > bad_stream_index'[b]
    BY <1>3
  <2>1. a + 1 \in DOMAIN bad_stream_index /\ b + 1 \in DOMAIN bad_stream_index
        /\ a + 1 < b + 1
    BY <1>3
  <2> QED
    BY <1>3, <1>4, <2>1
<1>14. \A k \in DOMAIN policy_update_queues' :
         policy_update_queues'[k] \in Missing <=> k \in ToSet(bad_stream_index')
  <2> SUFFICES ASSUME NEW k \in 1 .. n - 1
               PROVE  policy_update_queues'[k] \in Missing <=> k \in ToSet(bad_stream_index')
    BY <1>6
  <2>1. \A l \in 1 .. n : policy_update_queues[l] \in Missing <=> l \in ToSet(bad_stream_index)
    BY <1>1, <1>2 DEF RemoveInv
  <2>2. CASE k < h
    BY <1>1, <1>3, <1>4, <1>6, <2>1, <2>2
  <2>3. CASE ~(k < h)
    <3>1. k + 1 \in 1 .. n /\ k + 1 # h /\ ~(k + 1 < h)
      BY <1>1, <1>4, <2>3
    <3>2. k \notin ToSet(bad_stream_index') /\ k + 1 \notin ToSet(bad_stream_index)
      BY <1>3, <1>5, <2>3, <3>1
    <3> QED
      BY <1>6, <2>1, <2>3, <3>1, <3>2
  <2> QED
    BY <2>2, <2>3
<1>15. (\A q \in before.queues : Offered(q))
       /\ (\A q \in Queues \ before.queues : received[q] = 0)
  BY <1>2 DEF RemoveInv
<1>16. RemoveInv'
  BY <1>2, <1>11, <1>12, <1>13, <1>14, <1>15 DEF RemoveInv, Offered, Missing
<1> QED
  BY <1>2, <1>7, <1>8, <1>16 DEF SendInv

LEMMA StopLoop ==
  ASSUME LoopInv, NEW q \in Queues, StopFilter(q)
  PROVE  LoopInv'
<1> USE DEF LoopInv
<1>1. /\ q \notin gone /\ q \notin late /\ gone' = gone \cup {q}
      /\ late' = IF Written(q) THEN late \cup {q} ELSE late
      /\ UNCHANGED <<policy_update_queues, pc, i, bad_stream_index, received, before>>
  BY DEF StopFilter, TypeOK
<1>2. TypeOK'
  BY <1>1 DEF TypeOK
<1>3. Missing' = IF Written(q) THEN Missing ELSE Missing \cup {q}
  BY <1>1 DEF Missing
<1>4. pc' = "idle" => late' = {}
  BY <1>1 DEF Written
<1>5. SendInv'
  <2> SUFFICES ASSUME pc = "send" PROVE SendInv'
    BY <1>1 DEF SendInv
  <2>1. /\ DOMAIN policy_update_queues = 1 .. Len(policy_update_queues)
        /\ Len(policy_update_queues) \in Nat /\ i \in Nat \ {0}
    BY LenProperties DEF TypeOK
  <2>2. ASSUME NEW k \in DOMAIN policy_update_queues, k < i
        PROVE  policy_update_queues[k] \in Missing' <=> policy_update_queues[k] \in Missing
    <3>1. policy_update_queues[k] = q => Written(q)
      BY <2>1, <2>2 DEF Written
    <3> QED
      BY <1>3, <3>1
  <2>3. ASSUME NEW k \in DOMAIN policy_update_queues, ~(k < i)
        PROVE  policy_update_queues[k] \notin late'
    <3>1. policy_update_queues[k] \notin late
      BY <2>3 DEF SendInv
    <3>2. policy_update_queues[k] = q => ~Written(q)
      <4> SUFFICES ASSUME NEW l \in 1 .. i - 1, l \in DOMAIN policy_update_queues,
                          policy_update_queues[k] = q, policy_update_queues[l] = q
                   PROVE  FALSE
        BY <2>1, <2>3 DEF Written
      <4> QED
        BY <2>1, <2>3 DEF ListedOnce
    <3> QED
      BY <1>1, <3>1, <3>2
  <2> QED
    BY <1>1, <2>2, <2>3 DEF SendInv, Offered
<1>6. RemoveInv'
  BY <1>1, <1>3 DEF RemoveInv, Offered, Written
<1> QED
  BY <1>1, <1>2, <1>4, <1>5, <1>6 DEF ListedOnce

LEMMA StepLoop == LoopInv /\ [Next]_vars => LoopInv'
<1> SUFFICES ASSUME LoopInv, [Next]_vars PROVE LoopInv'
  OBVIOUS
<1>1. ASSUME NEW q \in Queues, Register(q) PROVE LoopInv'
  BY <1>1, RegisterLoop
<1>2. ASSUME NEW q \in Queues, StopFilter(q) PROVE LoopInv'
  BY <1>2, StopLoop
<1>3. CASE RemovedAll
  BY <1>3 DEF RemovedAll, LoopInv, TypeOK, ListedOnce, SendInv, RemoveInv
<1>4. CASE Return
  BY <1>4 DEF Return, LoopInv, TypeOK, ListedOnce, SendInv, RemoveInv
<1>5. CASE UNCHANGED vars
  BY <1>5 DEF vars, LoopInv, TypeOK, ListedOnce, SendInv, RemoveInv, Offered, Missing
<1> QED
  BY <1>1, <1>2, <1>3, <1>4, <1>5, BeginLoop, SendLoop, SentAllLoop, RemoveLoop DEF Next

LEMMA LoopInvariant == Spec => []LoopInv
BY InitLoop, StepLoop, PTL DEF Spec

(***************************************************************************)
(* The theorems.                                                           *)
(***************************************************************************)
\* Vec::remove never panics.
THEOREM RemoveInRangeHolds == Spec => []RemoveInRange
<1>1. LoopInv => RemoveInRange
  <2> SUFFICES ASSUME LoopInv, pc = "remove", NEW n \in DOMAIN bad_stream_index
               PROVE  bad_stream_index[n] <= Len(policy_update_queues)
    BY DEF RemoveInRange
  <2>1. /\ DOMAIN policy_update_queues = 1 .. Len(policy_update_queues)
        /\ Len(policy_update_queues) \in Nat
    BY LenProperties DEF LoopInv, TypeOK
  <2>2. bad_stream_index[n] \in DOMAIN policy_update_queues
    BY DEF LoopInv, RemoveInv
  <2> QED
    BY <2>1, <2>2
<1> QED
  BY <1>1, LoopInvariant, PTL

\* A step that removes takes out one queue, which is gone, and leaves the others in
\* their order.
LEMMA RemoveOneKeeps ==
  ASSUME LoopInv, RemoveOne, NEW n \in DOMAIN policy_update_queues,
         policy_update_queues[n] \notin gone
  PROVE  \E m \in 1 .. n : m \in DOMAIN policy_update_queues'
                           /\ policy_update_queues'[m] = policy_update_queues[n]
<1> DEFINE h == Head(bad_stream_index)
<1>1. /\ policy_update_queues \in Seq(Queues)
      /\ DOMAIN policy_update_queues = 1 .. Len(policy_update_queues)
      /\ Len(policy_update_queues) \in Nat
  BY LenProperties DEF LoopInv, TypeOK
<1>2. /\ pc = "remove" /\ bad_stream_index # <<>>
      /\ policy_update_queues' = RemoveAt(policy_update_queues, h)
  BY DEF RemoveOne
<1>3. h \in ToSet(bad_stream_index) /\ h = bad_stream_index[1] /\ 1 \in DOMAIN bad_stream_index
  BY <1>2, TailFacts DEF LoopInv, TypeOK
<1>4. h \in 1 .. Len(policy_update_queues) /\ policy_update_queues[h] \in gone
  BY <1>1, <1>2, <1>3 DEF LoopInv, RemoveInv, Missing
<1> HIDE DEF h
<1>5. /\ DOMAIN policy_update_queues' = 1 .. Len(policy_update_queues) - 1
      /\ \A k \in 1 .. Len(policy_update_queues) - 1 :
           policy_update_queues'[k] = IF k < h THEN policy_update_queues[k]
                                               ELSE policy_update_queues[k + 1]
  BY <1>1, <1>2, <1>4, RemoveAtFacts
<1>6. n # h
  BY <1>4
<1>7. CASE n < h
  <2>1. /\ n \in 1 .. n /\ n \in DOMAIN policy_update_queues'
        /\ policy_update_queues'[n] = policy_update_queues[n]
    BY <1>1, <1>4, <1>5, <1>7
  <2> QED
    BY <2>1
<1>8. CASE n > h
  <2>1. /\ n - 1 \in 1 .. n /\ n - 1 \in DOMAIN policy_update_queues'
        /\ policy_update_queues'[n - 1] = policy_update_queues[n]
    BY <1>1, <1>4, <1>5, <1>8
  <2> QED
    BY <2>1
<1> QED
  BY <1>1, <1>4, <1>6, <1>7, <1>8

\* The list only loses queues that are gone, and keeps the order of the others.
THEOREM OnlyGoneRemovedHolds == Spec => OnlyGoneRemoved
<1> DEFINE kept(q, n) == \E m \in 1 .. n : m \in DOMAIN policy_update_queues'
                                           /\ policy_update_queues'[m] = q
           onlyGone == \A n \in DOMAIN policy_update_queues :
                         LET q == policy_update_queues[n] IN q \in gone \/ kept(q, n)
<1>1. LoopInv /\ [Next]_vars => onlyGone
  <2> SUFFICES ASSUME LoopInv, [Next]_vars, NEW n \in DOMAIN policy_update_queues,
                      policy_update_queues[n] \notin gone
               PROVE  kept(policy_update_queues[n], n)
    OBVIOUS
  <2>1. /\ DOMAIN policy_update_queues = 1 .. Len(policy_update_queues)
        /\ policy_update_queues \in Seq(Queues)
        /\ n \in 1 .. n
    BY LenProperties DEF LoopInv, TypeOK
  <2>2. CASE UNCHANGED policy_update_queues
    BY <2>1, <2>2
  <2>3. ASSUME NEW q \in Queues, Register(q) PROVE kept(policy_update_queues[n], n)
    <3>1. /\ n \in DOMAIN policy_update_queues'
          /\ policy_update_queues'[n] = policy_update_queues[n]
      BY <2>1, <2>3, AppendFacts DEF Register
    <3> QED
      BY <2>1, <3>1
  <2>4. CASE RemoveOne
    BY <2>4, RemoveOneKeeps
  <2> QED
    BY <2>2, <2>3, <2>4
       DEF Next, vars, StopFilter, Begin, SendOne, SentAll, RemovedAll, Return
<1>2. LoopInv /\ [Next]_vars => [onlyGone]_vars
  BY <1>1
<1> QED
  BY <1>2, LoopInvariant, PTL DEF Spec, OnlyGoneRemoved

(***************************************************************************)
(* The refinement.  What the mapping shows changes in four steps: a queue  *)
(* joins, a filter stops, the loop returns (the broadcast), and what       *)
(* stopped late is counted as gone.                                        *)
(***************************************************************************)
Members == IF Sending THEN before.queues ELSE ToSet(policy_update_queues)
Delivered == IF Sending THEN before.received ELSE received

AtomicNext == Atomic!Join \/ Atomic!Stop \/ Atomic!BroadcastOnce
UnchangedView == UNCHANGED <<Members, Missing, Delivered>>

\* When the last index is removed, the list is what a single broadcast would leave, and
\* so is what the queues hold: a queue that was refused is one the host may refuse.
LEMMA BroadcastAtReturn == ASSUME LoopInv, RemovedAll PROVE Atomic!BroadcastOnce
<1>1. /\ pc = "remove" /\ pc' = "return" /\ bad_stream_index = <<>>
      /\ UNCHANGED <<policy_update_queues, gone, received, before, late>>
  BY DEF RemovedAll
<1>2. /\ before.queues \subseteq Queues
      /\ received \in [Queues -> Nat]
  BY DEF LoopInv, TypeOK
<1>3. ToSet(policy_update_queues) = before.queues \ Missing
  <2>1. ToSet(bad_stream_index) = {}
    BY <1>1, EmptySeq DEF ToSet
  <2>2. \A k \in DOMAIN policy_update_queues : policy_update_queues[k] \notin Missing
    BY <1>1, <2>1 DEF LoopInv, RemoveInv
  <2>3. /\ ToSet(policy_update_queues) \subseteq before.queues
        /\ before.queues \ ToSet(policy_update_queues) \subseteq Missing
    BY <1>1 DEF LoopInv, RemoveInv
  <2>4. ToSet(policy_update_queues) \cap Missing = {}
    BY <2>2 DEF ToSet
  <2> QED
    BY <2>3, <2>4
<1> DEFINE refused == {q \in before.queues \ Missing : received[q] = 0}
<1>4. /\ \A q \in before.queues : Offered(q)
      /\ \A q \in Queues \ before.queues : received[q] = 0
  BY <1>1 DEF LoopInv, RemoveInv
<1>5. refused \in SUBSET (before.queues \cap Unreliable)
  BY <1>2, <1>4 DEF Offered
<1>6. received = [q \in Queues |-> IF q \in (before.queues \ Missing) \ refused THEN 1 ELSE 0]
  <2>1. ASSUME NEW q \in Queues
        PROVE  received[q] = IF q \in (before.queues \ Missing) \ refused THEN 1 ELSE 0
    BY <1>4 DEF Offered
  <2> QED
    BY <1>2, <2>1
<1>7. Sending /\ ~Sending'
  BY <1>1 DEF Sending
<1> QED
  BY <1>1, <1>3, <1>5, <1>6, <1>7 DEF Atomic!BroadcastOnce, Missing

LEMMA AtomicStep ==
  ASSUME LoopInv, [Next]_vars
  PROVE  AtomicNext \/ UnchangedView
<1> USE DEF Members, Delivered, UnchangedView, AtomicNext
<1>1. ASSUME NEW q \in Queues, Register(q) PROVE Atomic!Join
  <2>1. /\ policy_update_queues \in Seq(Queues)
        /\ DOMAIN policy_update_queues = 1 .. Len(policy_update_queues)
    BY LenProperties DEF LoopInv, TypeOK
  <2>2. q \notin ToSet(policy_update_queues)
    BY <1>1, <2>1 DEF Register, Contains, ToSet
  <2>3. ToSet(policy_update_queues') = ToSet(policy_update_queues) \cup {q}
    BY <1>1, <2>1, AppendFacts DEF Register
  <2>4. ~Sending /\ ~Sending'
    BY <1>1 DEF Register, Sending
  <2> QED
    BY <1>1, <2>2, <2>3, <2>4 DEF Register, Atomic!Join
<1>2. ASSUME NEW q \in Queues, StopFilter(q) PROVE Atomic!Stop \/ UnchangedView
  <2>1. /\ q \notin gone /\ q \notin late /\ gone \subseteq Queues
        /\ gone' = gone \cup {q}
        /\ late' = IF Written(q) THEN late \cup {q} ELSE late
        /\ UNCHANGED <<policy_update_queues, pc, received, before>>
    BY <1>2 DEF StopFilter, LoopInv, TypeOK
  <2>2. UNCHANGED <<Members, Delivered>>
    BY <2>1 DEF Sending
  <2>3. CASE Written(q)
    BY <2>1, <2>2, <2>3 DEF Missing
  <2>4. CASE ~Written(q)
    <3>1. Missing' = Missing \cup {q} /\ Missing' \subseteq Queues
      BY <2>1, <2>4 DEF Missing
    <3> QED
      BY <2>2, <3>1 DEF Atomic!Stop, Missing
  <2> QED
    BY <2>3, <2>4
<1>3. CASE Begin
  <2>1. before'.queues = ToSet(policy_update_queues) /\ before'.received = received
    BY <1>3 DEF Begin
  <2> QED
    BY <1>3, <2>1 DEF Begin, Sending, Missing
<1>4. CASE SendOne \/ SentAll \/ RemoveOne
  <2>1. Sending /\ Sending' /\ UNCHANGED <<before, gone, late>>
    BY <1>4 DEF SendOne, SentAll, RemoveOne, Sending
  <2> QED
    BY <2>1 DEF Missing
<1>5. CASE Return
  <2>1. ~Sending /\ ~Sending'
    BY <1>5 DEF Return, Sending
  <2>2. Missing' = gone /\ gone \subseteq Queues
    BY <1>5 DEF Return, Missing, LoopInv, TypeOK
  <2> QED
    BY <1>5, <2>1, <2>2 DEF Return, Atomic!Stop, Missing
<1>6. CASE UNCHANGED vars
  BY <1>6 DEF vars, Sending, Missing
<1> QED
  BY <1>1, <1>2, <1>3, <1>4, <1>5, <1>6, BroadcastAtReturn DEF Next

\* Whatever stops in between, the loop does what one atomic broadcast does.
THEOREM AtomicHolds == Spec => AtomicSpec
<1>1. Init => Atomic!AtomicInit
  <2> SUFFICES ASSUME Init PROVE Atomic!AtomicInit
    OBVIOUS
  <2>1. ToSet(policy_update_queues) = {}
    BY EmptySeq DEF Init, ToSet
  <2> QED
    BY <2>1 DEF Init, Atomic!AtomicInit, Sending, NoMessages
<1>2. LoopInv /\ [Next]_vars => [AtomicNext]_Atomic!avars
  BY AtomicStep DEF Atomic!avars, UnchangedView, Members, Delivered, Missing
<1> QED
  BY <1>1, <1>2, LoopInvariant, PTL DEF Spec, AtomicSpec, Atomic!AtomicSpec, AtomicNext
=============================================================================
