------------------------------- MODULE Correlate -------------------------------
(***************************************************************************)
(* How the matches of the two groups of a Correlate category are paired    *)
(* (evaluator.rs 217-246, 273-363).  do_matching is called for a piece of  *)
(* a body: of what was found there two lists are made, sorted by where     *)
(* their items start, and walked together; each iteration of the loops is  *)
(* an action.  Positions of items are those in the piece.                  *)
(***************************************************************************)
EXTENDS Naturals, Sequences, FiniteSets

CONSTANTS
  Lists,      \* what evaluate may find for a group: sequences of [start, end]
  Distance,   \* max_distance
  Interest    \* which of a pair is reported

VARIABLES
  offset,             \* where the piece begins in the body
  minimum_end_index,  \* how much of the body was matched before
  found1, found2,     \* what evaluate found for each group
  group1, group2,     \* the items that were not matched before, sorted
  i,                  \* the item of group1 that the outer loop is at
  group2_index,       \* from 1
  continuity_index,
  pc,                 \* which loop is next, or "idle" between two calls
  correlated          \* what was reported, and the pair that it is of

groups == <<offset, minimum_end_index, found1, found2, group1, group2>>
indices == <<i, group2_index, continuity_index>>
vars == <<groups, indices, pc, correlated>>

Init ==
  /\ offset = 0 /\ minimum_end_index = 0
  /\ found1 = << >> /\ found2 = << >>
  /\ group1 = << >> /\ group2 = << >>
  /\ i = 0 /\ group2_index = 1 /\ continuity_index = 0
  /\ pc = "idle"
  /\ correlated = << >>

\* do_matching, once evaluate has returned.
Call(f1, f2, off, min) ==
  /\ pc = "idle"
  /\ found1' = f1 /\ found2' = f2
  /\ offset' = off /\ minimum_end_index' = min
  /\ pc' = "collect"
  /\ UNCHANGED <<group1, group2, indices, correlated>>

-----------------------------------------------------------------------------
\* Faulty variant: what was matched before is kept.
KeepAll(item) == TRUE
IsNew(item) == item.end + offset > minimum_end_index

\* Faulty variant: the lists are made of all that was found.
AllFound(found) == DOMAIN found
NewlyFound(found) == {k \in DOMAIN found : IsNew(found[k])}

\* sort_by_key keeps the order of the items that start together: the n-th item is the
\* one with n - 1 new ones in front of it.
Sorted(found) ==
  LET new == NewlyFound(found)
      before(p, q) == \/ found[p].start < found[q].start
                      \/ found[p].start = found[q].start /\ p < q
      place(q) == Cardinality({p \in new : before(p, q)}) + 1
  IN [n \in 1 .. Cardinality(new) |-> found[CHOOSE q \in new : place(q) = n]]

Collect ==
  /\ pc = "collect"
  /\ group1' = Sorted(found1)
  /\ group2' = Sorted(found2)
  /\ i' = 0 /\ group2_index' = 1 /\ continuity_index' = 0
  /\ pc' = IF group1' = << >> \/ group2' = << >> THEN "idle" ELSE "outer"
  /\ UNCHANGED <<offset, minimum_end_index, found1, found2, correlated>>

\* group1.next(), and the `continue`s of the outer loop.
Outer ==
  /\ pc = "outer"
  /\ IF i = Len(group1)
     THEN pc' = "idle" /\ i' = i
     ELSE /\ i' = i + 1
          /\ pc' = IF \/ ~IsNew(group1[i'])
                      \/ group1[i'].start < continuity_index
                   THEN "outer" ELSE "inner"
  /\ UNCHANGED <<groups, group2_index, continuity_index, correlated>>

Item1 == group1[i]
Item2 == group2[group2_index]

\* An Item2 that was matched before would be looked at for ever: that `continue` does
\* not move on (evaluator.rs:294-297).
Inner ==
  /\ pc = "inner" /\ group2_index <= Len(group2)
  /\ IsNew(Item2)

\* Faulty variants: no distance is too far; both lists move on when Item2 is too far
\* ahead.
NeverBehind == FALSE
BothMoveOn == group2_index + 1
Item2Stays == group2_index

Item2Overlaps == Item2.start < continuity_index
Item2Ahead == Item1.end + Distance < Item2.start
Item2Behind == Item2.end + Distance < Item1.start

InnerAhead ==
  /\ Inner /\ ~Item2Overlaps /\ Item2Ahead
  /\ pc' = "outer"
  /\ group2_index' = Item2Stays
  /\ UNCHANGED <<groups, i, continuity_index, correlated>>

InnerBehind ==
  /\ Inner
  /\ Item2Overlaps \/ (~Item2Ahead /\ Item2Behind)
  /\ group2_index' = group2_index + 1
  /\ UNCHANGED <<groups, i, continuity_index, pc, correlated>>

Lesser(m, n) == IF m < n THEN m ELSE n
Greater(m, n) == IF m > n THEN m ELSE n

\* From the first of a pair to the last.
Total(x, y) == [start |-> Lesser(x.start, y.start), end |-> Greater(x.end, y.end)]

\* What is reported of a pair, in the body.
Emitted ==
  [group1 |-> Item1, group2 |-> Item2, all |-> Total(Item1, Item2)][Interest]

\* Faulty variant: the position in the piece.
InPiece(item) == item
InBody(item) == [start |-> item.start + offset, end |-> item.end + offset]

\* A pair; the index moves on twice, and Item1 stays.
Emit ==
  /\ Inner /\ ~Item2Overlaps /\ ~Item2Ahead /\ ~Item2Behind
  /\ correlated' = Append(correlated, [match |-> InBody(Emitted), item1 |-> InBody(Item1),
                                       item2 |-> InBody(Item2)])
  /\ continuity_index' = Total(Item1, Item2).end
  /\ group2_index' = group2_index + 2
  /\ UNCHANGED <<groups, i, pc>>

InnerEnds ==
  /\ pc = "inner" /\ group2_index > Len(group2)
  /\ pc' = "idle"
  /\ UNCHANGED <<groups, indices, correlated>>

Step == Collect \/ Outer \/ InnerAhead \/ InnerBehind \/ Emit \/ InnerEnds

Next ==
  \/ \E f1, f2 \in Lists, off, min \in Nat : Call(f1, f2, off, min)
  \/ Step

\* The call runs to its end unless it loops for ever.
Spec == Init /\ [][Next]_vars /\ WF_vars(Step)

-----------------------------------------------------------------------------
(***************************************************************************)
(* Properties.                                                             *)
(***************************************************************************)
\* How many bytes are between two items; none if they overlap.
Gap(x, y) ==
  IF x.end < y.start THEN y.start - x.end
  ELSE IF y.end < x.start THEN x.start - y.end ELSE 0

Near(x, y) == Gap(x, y) <= Distance

\* Only items within the distance of each other are correlated (POLICY.md:78), at the
\* positions that are reported of them.
OnlyNear == \A k \in DOMAIN correlated : Near(correlated[k].item1, correlated[k].item2)

\* No item of group 2 is correlated twice, though the end of each piece of a body is
\* matched again with the next piece (evaluator.rs:277, 294-301).
PairedOnce ==
  \A j, k \in DOMAIN correlated : correlated[j].item2 = correlated[k].item2 => j = k

\* If any two items that are new in a piece are near each other a correlation is
\* reported, however many items of either group are in front of them.
FirstFound ==
  pc = "idle" /\ (\E p \in DOMAIN group1, q \in DOMAIN group2 : Near(group1[p], group2[q])) =>
    \E k \in DOMAIN correlated : correlated[k].item2.end > minimum_end_index

\* Each call returns (evaluator.rs:284-362).
Terminates == pc # "idle" ~> pc = "idle"

Disjoint(x, y) == x.end <= y.start \/ y.end <= x.start

(***************************************************************************)
(* Statements of the documentation that the code does not keep.            *)
(***************************************************************************)
\* evaluator.rs:277: overlapping correlations within a group are avoided.
NoOverlap ==
  \A j, k \in DOMAIN correlated :
    LET pair(n) == Total(correlated[n].item1, correlated[n].item2)
    IN j # k => Disjoint(pair(j), pair(k))

\* POLICY.md:81: the items of a group that are within the distance of one of the other
\* group are matched, unless what is reported overlaps them.
NearAreFound ==
  pc = "idle" => \A p \in DOMAIN group1, q \in DOMAIN group2 :
    Near(group1[p], group2[q]) =>
      \E k \in DOMAIN correlated :
        ~Disjoint(InBody(Total(group1[p], group2[q])),
                  Total(correlated[k].item1, correlated[k].item2))
=============================================================================
