------------------------------ MODULE MCHtmlTask ------------------------------
(* Instances of HtmlTask for TLC. *)
EXTENDS HtmlTask

\* With an overlap of three: a word that fits into it and one that is a byte longer.
AB == <<"a", "b">>
ABBB == <<"a", "b", "b", "b">>
MCRaws == {AB, ABBB}

\* Groups of one word, and of two that are found out of order and overlap the other's.
A == <<<<"a">>>>
BorAB == <<<<"b">>, AB>>
MCPolicies ==
  {[raw |-> AB, group1 |-> A, group2 |-> BorAB],
   [raw |-> ABBB, group1 |-> BorAB, group2 |-> A]}

\* Bodies of one-byte characters, and bodies with characters of two bytes.
Characters == {<<"a">>, <<"b">>, <<"lead", "cont">>}
MCBodies == SeqOf({"a", "b"}, 7) \cup {FlattenSeq(s) : s \in SeqOf(Characters, 5)}
=============================================================================
