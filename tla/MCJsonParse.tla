------------------------------ MODULE MCJsonParse ------------------------------
(* Instances of JsonParse for TLC. *)
EXTENDS JsonText

CONSTANTS MaxStructure, MaxString, MaxEscapes, MaxNumber   \* the lengths of the bodies

\* Every body of objects, arrays, empty strings and numbers; every string; every
\* number.
Structures == SeqOf({"{", "}", "[", "]", ",", ":", "quote", "1", Space}, MaxStructure)
StringBodies ==
  {<<"quote">> \o s :
     s \in SeqOf({"quote", "backslash", "u", "bmp", "high", "low", "lead", "cont", "n"}, MaxString)}

\* Longer strings of whole characters and escapes, as a value and as a key.
Escapes ==
  {<<"backslash", "u", h>> : h \in {"bmp", "high", "low"}}
    \cup {<<"backslash", "n">>, <<"backslash", "quote">>, <<"backslash", "lead", "cont">>}
Quoted ==
  {<<"quote">> \o FlattenSeq(s) \o <<"quote">> :
     s \in SeqOf(Escapes \cup {<<"lead", "cont">>, <<"n">>}, MaxEscapes)}
StringsInside == Quoted \cup {<<"{">> \o k \o <<":", "1", "}">> : k \in Quoted}

Numbers == SeqOf({"-", "0", "1", ".", "e", "+", Space, ","}, MaxNumber)

\* Larger values: those of an array or object of two values, one of which may be an
\* array or object itself, with and without white space.
Atoms == {<<"1">>, <<"t", "rue">>, <<"quote", "x", "quote">>}
Member(v) == <<"quote", "k", "quote", ":">> \o v
Pairs(S, T) ==
  {<<"[">> \o v \o <<",">> \o w \o <<"]">> : v \in S, w \in T}
    \cup {<<"{">> \o Member(v) \o <<",">> \o Member(w) \o <<"}">> : v \in S, w \in T}
Flat == Pairs(Atoms, Atoms) \cup {<<"[", "]">>, <<"{", "}">>}
Nested == Flat \cup Pairs(Atoms, Flat) \cup Pairs(Flat, Atoms)

\* White space in front of, or behind, each element that is no part of a string.
InString(v, k) == Cardinality({j \in 1 .. k - 1 : v[j] = "quote"}) % 2 = 1
Spaced(v) ==
  LET loose(k) == ~InString(v, k) /\ v[k] \notin {"rue", "quote"}
  IN {v, FlattenSeq([k \in DOMAIN v |-> IF loose(k) THEN <<Space, v[k]>> ELSE <<v[k]>>]),
      FlattenSeq([k \in DOMAIN v |-> IF loose(k) /\ v[k] # "t" THEN <<v[k], Space>> ELSE <<v[k]>>])}

\* One element is missing, or what follows it, or there is a comma too many.
Faulty(v) ==
  {SubSeq(v, 1, k - 1) \o SubSeq(v, k + 1, Len(v)) : k \in DOMAIN v}
    \cup {SubSeq(v, 1, k) : k \in DOMAIN v}
    \cup {SubSeq(v, 1, k) \o <<",">> \o SubSeq(v, k + 1, Len(v)) : k \in DOMAIN v}

MCBodies ==
  Structures \cup StringBodies \cup StringsInside \cup Numbers
    \cup UNION {Spaced(v) : v \in Nested} \cup UNION {Faulty(v) : v \in Nested}
=============================================================================
