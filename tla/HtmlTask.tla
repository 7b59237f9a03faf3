------------------------------- MODULE HtmlTask -------------------------------
(***************************************************************************)
(* The task of an HTML body with a policy of two categories: HtmlScan,     *)
(* which reads the body in pieces and looks for the word of a Matchers     *)
(* category, together with Correlate, which pairs in each piece what was   *)
(* found for the two groups of a Correlate category.  The task may be      *)
(* suspended when it reads, and nowhere else.                              *)
(***************************************************************************)
EXTENDS HtmlScan

CONSTANTS
  Policies,            \* the policies considered: the word of the one category, and the
                       \* words of the groups of the other
  Distance, Interest

ASSUME CorrelateAssumption ==
  /\ Distance \in Nat
  /\ Interest \in {"group1", "group2", "all"}

ASSUME PoliciesAssumption ==
  LET Words == Seq({"a", "b"}) \ {<< >>}
  IN Policies \subseteq [raw : Words, group1 : Seq(Words), group2 : Seq(Words)]

VARIABLES
  words1, words2,      \* the raw matchers of each group
  offset, minimum_end_index, found1, found2, group1, group2,
  i, group2_index, continuity_index, pc, correlated

C == INSTANCE Correlate WITH Lists <- {}

task == <<words1, words2>>
correlation == <<offset, minimum_end_index, found1, found2, group1, group2,
                 i, group2_index, continuity_index, pc, correlated>>
allvars == <<vars, task, correlation>>

TaskInit ==
  /\ Init
  /\ \E p \in Policies : raw = p.raw /\ words1 = p.group1 /\ words2 = p.group2
  /\ C!Init

\* What evaluate finds for a group: one matcher after the other.
FoundBy(words, source) ==
  FlattenSeq([w \in DOMAIN words |->
    LET found == Evaluate(source, words[w])
    IN [k \in DOMAIN found |-> [start |-> found[k].start,
                                end |-> found[k].start + Len(words[w])]]])

\* The next piece: the matches of the word are reported, those of the groups collected.
ReadPiece(n) ==
  /\ pc = "idle"
  /\ Read(n)
  /\ LET source == Utf8Lossy(chunk')
     IN C!Call(FoundBy(words1, source), FoundBy(words2, source), Index, total_read)
  /\ UNCHANGED task

Pair == C!Step /\ UNCHANGED <<vars, task>>

TaskEnd == pc = "idle" /\ ReadEnd /\ UNCHANGED <<task, correlation>>

TaskNext == (\E n \in 1 .. ChunkSize : ReadPiece(n)) \/ Pair \/ TaskEnd

\* do_matching runs to its end; what is read depends on the peer.
TaskSpec == TaskInit /\ [][TaskNext]_allvars /\ WF_allvars(Pair)

-----------------------------------------------------------------------------
(***************************************************************************)
(* Properties.                                                             *)
(***************************************************************************)
\* Only items within the distance of each other are correlated (POLICY.md:78,
\* evaluator.rs:304-312), in any body: the distance is that in the decoded piece both were
\* found in, wherever a cut character has shifted the two of them.
OnlyNear == C!OnlyNear

\* No item of group 2 of a plain body, one of one-byte characters, is correlated twice,
\* though the end of each piece is matched again with the next (evaluator.rs:277,
\* 294-301).  In other bodies the item may be elsewhere when it is found again, as
\* HtmlScan's OnlyOnce has it.
PairedOnce == Plain => C!PairedOnce

\* If any two items that are new in a piece are near each other a correlation is reported,
\* however many items of either group are in front of them (evaluator.rs:284-362).
FirstFound == C!FirstFound

\* Each call of do_matching returns (evaluator.rs:284-362).
Terminates == C!Terminates

\* Whether a word of the group is where the item is in the body.
IsThere(item, words) ==
  /\ item.end <= total_read
  /\ \E w \in DOMAIN words : SubSeq(body, item.start + 1, item.end) = words[w]

\* What is reported of a correlation in a body of one-byte characters is there: both its parts are words
\* of their groups, where they are said to be, whatever piece they were found in
\* (evaluator.rs:345-349).
PairsAreThere ==
  Plain => \A k \in DOMAIN correlated :
    /\ IsThere(correlated[k].item1, words1)
    /\ IsThere(correlated[k].item2, words2)
    /\ correlated[k].match.end <= total_read

(***************************************************************************)
(* Statements of the documentation that the code does not keep.            *)
(***************************************************************************)
NoOverlap == Plain => C!NoOverlap
NearAreFound == Plain => C!NearAreFound

\* POLICY.md:81: an item of group 1 within the distance of one of group 2 is matched,
\* wherever the body was cut, and a chunk overlaps the last one by more than both.
PairsAcrossPieces ==
  LET item(s, word) == [start |-> s, end |-> s + Len(word)]
  IN Plain /\ pc = "idle" =>
       \A v \in DOMAIN words1, w \in DOMAIN words2 :
         \A s \in Occurs(words1[v]), t \in Occurs(words2[w]) :
           LET x == item(s, words1[v])
               y == item(t, words2[w])
           IN C!Near(x, y) /\ C!Total(x, y).end - C!Total(x, y).start <= ChunkOverlap =>
                \E k \in DOMAIN correlated :
                  ~C!Disjoint(C!Total(x, y),
                              C!Total(correlated[k].item1, correlated[k].item2))
=============================================================================
