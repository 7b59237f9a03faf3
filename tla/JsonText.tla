------------------------------- MODULE JsonText -------------------------------
(***************************************************************************)
(* What JSON is (RFC 8259), over the elements of JsonParse, and what its   *)
(* parser is to do with a body: the properties that MCJsonParse checks.    *)
(* A grammar says from where to where in the body something stands, and    *)
(* nothing about how it is read.                                           *)
(***************************************************************************)
EXTENDS JsonParse, FiniteSetsExt

End == Len(body) + 1
Places == 1 .. End
At(i, S) == i \in DOMAIN body /\ body[i] \in S

\* The first place from i on that is not white space.
SkipFrom(i) == Min({j \in i .. End : ~At(j, {Space})})

AllDigits(i, j) == \A k \in i .. j - 1 : body[k] \in Digits

\* A number from i to before j; `least` is how many digits its fraction and its
\* exponent need.
IsNumber(i, j, least) ==
  \E int \in {i, i + 1}, point \in i .. j, e \in i .. j :
    /\ int = i + 1 => At(i, {"-"})
    /\ int < point /\ AllDigits(int, point) /\ (body[int] = "0" => point = int + 1)
    /\ point <= e
    /\ \/ point = e
       \/ At(point, {"."}) /\ AllDigits(point + 1, e) /\ point + 1 + least <= e
    /\ \/ e = j
       \/ /\ At(e, {"e"})
          /\ \E digits \in {e + 1, e + 2} :
               /\ digits = e + 2 => At(e + 1, {"+", "-"})
               /\ digits + least <= j /\ AllDigits(digits, j)

\* Where the string whose text begins at i ends, behind its quote; 0 if nowhere.
StringEnds ==
  LET s[i \in 1 .. End + 3] ==
        IF i >= End THEN 0
        ELSE IF At(i, {"quote"}) THEN i + 1
        ELSE IF At(i, {"backslash"}) /\ At(i + 1, {"u", "lead"}) THEN s[i + 3]
        ELSE IF At(i, {"backslash", "lead"}) THEN s[i + 2]
        ELSE s[i + 1]
  IN s

\* Where the first value of a list begins, of the values of an array or of the members
\* of an object; End if nowhere.
FirstValue(list, i) ==
  IF list = "values" THEN SkipFrom(i)
  ELSE LET key == SkipFrom(i)
           colon == IF At(key, {"quote"}) /\ StringEnds[key + 1] # 0
                    THEN SkipFrom(StringEnds[key + 1]) ELSE End
       IN IF At(colon, {":"}) THEN SkipFrom(colon + 1) ELSE End

\* The places behind the bracket that closes the list from i + 1 on, which may be empty.
Closed(ends, list, i, bracket) ==
  {SkipFrom(j) + 1 : j \in {j \in {i + 1} \cup ends[<<list, i + 1>>] : At(SkipFrom(j), {bracket})}}

\* The places behind a value that begins at i, and behind a list, given those of what
\* begins further back.
ValueEnds(ends, i, least) ==
  IF At(i, {"-"} \cup Digits) THEN {j \in i + 1 .. End : IsNumber(i, j, least)}
  ELSE IF At(i, {"t"}) /\ At(i + 1, {"rue"}) THEN {i + 2}
  ELSE IF At(i, {"quote"}) THEN {StringEnds[i + 1]} \ {0}
  ELSE IF At(i, {"["}) THEN Closed(ends, "values", i, "]")
  ELSE IF At(i, {"{"}) THEN Closed(ends, "members", i, "}")
  ELSE {}

ListEnds(ends, list, i) ==
  LET one == IF FirstValue(list, i) < End THEN ends[<<"value", FirstValue(list, i)>>] ELSE {}
  IN one \cup UNION {ends[<<list, SkipFrom(j) + 1>>] : j \in {j \in one : At(SkipFrom(j), {","})}}

Things == {"value", "values", "members"} \X Places
Ends(least) ==
  LET ends[p \in Things] ==
        IF p[1] = "value" THEN ValueEnds(ends, p[2], least) ELSE ListEnds(ends, p[1], p[2])
  IN ends

\* Where the outermost value may end, the numbers as in RFC 8259 or as in parse.rs:
\* digits may be missing behind the point and in the exponent.
Strict == 1
Lenient == 0
OuterEnds(least) == IF SkipFrom(1) = End THEN {} ELSE Ends(least)[<<"value", SkipFrom(1)>>]

\* Every character of the body is whole, and \u has its digits.
WellEncoded ==
  \A k \in 0 .. Len(body) :
    /\ At(k, {"lead"}) <=> At(k + 1, {"cont"})
    /\ At(k, {"backslash"}) /\ At(k + 1, {"u"}) => At(k + 2, {"bmp", "high", "low"})

\* JSON, where a backslash may stand in front of any character.
IsJson == WellEncoded /\ \E j \in OuterEnds(Strict) : SkipFrom(j) = End

-----------------------------------------------------------------------------
\* The strings of the body that are keys, or the others, from left to right: where they
\* begin and end.
IsKey(s) == At(SkipFrom(s.end), {":"})

StringsFrom(key) ==
  LET s[i \in 1 .. End] ==
        IF i = End THEN << >>
        ELSE IF body[i] = "quote" /\ StringEnds[i + 1] # 0
        THEN LET found == [start |-> i, end |-> StringEnds[i + 1]]
             IN (IF IsKey(found) = key THEN <<found>> ELSE << >>) \o s[found.end]
        ELSE s[i + 1]
  IN s
Strings(key) == StringsFrom(key)[1]

\* The text from each place to before the quote at j: two halves of a pair one after the
\* other are one character.
TextTo(j) ==
  LET half(k, h) == k + 2 < j /\ body[k] = "backslash" /\ body[k + 1] = "u" /\ body[k + 2] = h
      t[k \in 1 .. j + 3] ==
        IF k >= j THEN << >>
        ELSE IF half(k, "high") /\ half(k + 3, "low") THEN <<"pair">> \o t[k + 6]
        ELSE IF half(k, "bmp") THEN <<"bmp">> \o t[k + 3]
        ELSE IF At(k, {"backslash"}) /\ At(k + 1, {"u"}) THEN <<"replacement">> \o t[k + 3]
        ELSE IF At(k, {"backslash"}) /\ At(k + 1, {"lead"}) THEN <<"wide">> \o t[k + 3]
        ELSE IF At(k, {"backslash"}) THEN <<Unescaped(body[k + 1])>> \o t[k + 2]
        ELSE IF At(k, {"lead"}) THEN <<"wide">> \o t[k + 2]
        ELSE <<body[k]>> \o t[k + 1]
  IN t
TextOf(s) == TextTo(s.end - 1)[s.start + 1]

Texts(ss) == [k \in DOMAIN ss |-> TextOf(ss[k])]
TextsFound(found) == [k \in DOMAIN found |-> found[k].text]

-----------------------------------------------------------------------------
(***************************************************************************)
(* Properties.                                                             *)
(***************************************************************************)
Returned == pc \in {"done", "failed"}

\* A number that nothing but white space follows.
NumberThenSpace ==
  /\ At(SkipFrom(1), {"-", "0", "1"})
  /\ body[Len(body)] = Space

\* A body that is JSON is parsed to its end, however its values are nested and spaced,
\* and its report is sent (parse.rs 362-384).
AcceptsJson == Returned /\ IsJson /\ ~NumberThenSpace => pc = "done" /\ total_read = Len(body)

\* What is parsed is a value from its first byte to its last, and no more than one byte
\* behind it is read: an object or array that is cut short, or has a comma too many, is
\* an error (parse.rs 257-316).  Of numbers the parser takes more than there are, and in
\* strings any four bytes behind \u, any other escape, and bytes that are no character:
\* what begins and ends a string is looked at, not what is in it.
AcceptsOnlyValues ==
  pc = "done" => \E j \in OuterEnds(Lenient) :
    \/ total_read = Len(body) /\ SkipFrom(j) = End
    \/ SkipFrom(j) = total_read

\* Of a body that is JSON every key gets to the matchers of keys and every other string
\* to those of values, once, in the order of the body and decoded (parse.rs 113-184,
\* 267-272, 318-323).  The position given with a value is that of its quote, that of a
\* key is behind the brace or comma in front of it (parse.rs:256, 262).
EveryStringMatched ==
  pc = "done" /\ IsJson =>
    LET ks == Strings(TRUE)
        vs == Strings(FALSE)
    IN /\ TextsFound(keys) = Texts(ks)
       /\ TextsFound(values) = Texts(vs)
       /\ \A k \in DOMAIN vs : values[k].start = vs[k].start - 1
       /\ \A k \in DOMAIN ks : /\ body[keys[k].start] \in {"{", ","}
                               /\ SkipFrom(keys[k].start + 1) = ks[k].start

(***************************************************************************)
(* A statement of the source that the code does not keep.                  *)
(***************************************************************************)
\* parse.rs:248: the byte behind a value is returned "if any", so white space up to the
\* end of the body is no error, behind a number as behind any other value.
AcceptsAllJson == Returned /\ IsJson => pc = "done"
=============================================================================
