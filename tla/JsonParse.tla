------------------------------ MODULE JsonParse ------------------------------
(***************************************************************************)
(* The task that reads a JSON body (parsers/json/parse.rs) and hands each  *)
(* key and each string value to its matchers (parsers/json/mod.rs).  The   *)
(* recursive descent of parse_json_internal is a machine with a stack of   *)
(* the objects and arrays it is in; an action reads one element of the     *)
(* body, which is where the task may be suspended, or finds its end.       *)
(*                                                                         *)
(* An element is one byte, except those that are always read together: the *)
(* rest of a keyword ("rue" after "t"), the rest of a character that takes *)
(* more than one byte ("cont" after "lead"), and the four bytes behind \u, *)
(* whatever they are.  "bmp", "high" and "low" are four digits: those of a *)
(* character, or of half of a surrogate pair.  Any other element behind \u *)
(* stands for four bytes that are not all digits: a quote among them is    *)
(* part of that element and ends nothing.                                  *)
(* Of all digits but 0, of white space, of the keywords and of the         *)
(* characters of strings there is one each.  The callbacks never return    *)
(* early: do_matching always continues.                                    *)
(***************************************************************************)
EXTENDS Naturals, Sequences, SequencesExt

CONSTANT Bodies   \* the bodies considered
ASSUME BodiesAssumption == Bodies \subseteq Seq(STRING)

VARIABLES
  body,
  total_read,     \* input.total_read()
  pc,             \* what the next element is read for
  stack,          \* the objects and arrays that are open: kind, and first_key or first_value
  start,          \* where the string that is read starts, as the code has it
  role,           \* whether it is a key
  out,            \* read_json_string: the text so far
  units,          \* current_unicode_sequence
  keys, values    \* handed to key_out and value_out: [text, start]

string == <<start, role, out, units>>
matched == <<keys, values>>
vars == <<body, total_read, pc, stack, string, matched>>

Init ==
  /\ body \in Bodies
  /\ total_read = 0
  /\ pc = "first"
  /\ stack = << >>
  /\ start = 0 /\ role = "value" /\ out = << >> /\ units = << >>
  /\ keys = << >> /\ values = << >>

-----------------------------------------------------------------------------
(***************************************************************************)
(* Reading.                                                                *)
(***************************************************************************)
Space == " "
Digits == {"0", "1"}

More == pc \notin {"done", "failed"} /\ total_read < Len(body)
Byte == body[total_read + 1]

\* read_exact of what is read next.
Take == More /\ total_read' = total_read + 1 /\ UNCHANGED body

\* Where the code reads until it gets something else than white space.
Skipping == {"first", "key", "colon", "member", "element", "after", "after_number"}

SkipSpace ==
  /\ pc \in Skipping /\ Take /\ Byte = Space
  /\ UNCHANGED <<pc, stack, string, matched>>

Fail == pc' = "failed" /\ UNCHANGED <<stack, string, matched>>

-----------------------------------------------------------------------------
(***************************************************************************)
(* After a value: the byte that was read behind it goes to the object or   *)
(* array that it is in.                                                    *)
(***************************************************************************)
Top == Last(stack)
Closes(c) == c = (IF Top.kind = "object" THEN "}" ELSE "]")

KeyStart == total_read + 1

NextByte(c) ==
  /\ \/ stack = << >> /\ pc' = "done" /\ UNCHANGED <<stack, start>>
     \/ /\ stack # << >> /\ c = ","
        /\ pc' = IF Top.kind = "object" THEN "key" ELSE "element"
        /\ start' = KeyStart
        /\ UNCHANGED stack
     \/ /\ stack # << >> /\ Closes(c)
        /\ pc' = "after" /\ stack' = Front(stack) /\ UNCHANGED start
     \/ /\ stack # << >> /\ c # "," /\ ~Closes(c)
        /\ pc' = "failed" /\ UNCHANGED <<stack, start>>
  /\ UNCHANGED <<role, out, units, matched>>

\* maybe_read_u8_non_whitespace at the end of parse_json_internal.
After ==
  /\ pc \in {"after", "after_number"} /\ Take /\ Byte # Space
  /\ NextByte(Byte)

-----------------------------------------------------------------------------
(***************************************************************************)
(* The first byte of a value.                                              *)
(***************************************************************************)
\* "]" ends an array that has no values.
ClosesEmptyArray == pc = "element" /\ Top.first /\ Byte = "]"

Value(b) ==
  /\ pc \in {"first", "member", "element"} /\ Take /\ Byte = b
  /\ ~ClosesEmptyArray

NotFirst ==
  IF pc = "element" THEN [stack EXCEPT ![Len(stack)].first = FALSE] ELSE stack

BeginObject ==
  /\ Value("{")
  /\ stack' = Append(NotFirst, [kind |-> "object", first |-> TRUE])
  /\ pc' = "key"
  /\ start' = KeyStart
  /\ UNCHANGED <<role, out, units, matched>>

BeginArray ==
  /\ Value("[")
  /\ stack' = Append(NotFirst, [kind |-> "array", first |-> TRUE])
  /\ pc' = "element"
  /\ UNCHANGED <<string, matched>>

EndEmptyArray ==
  /\ Take /\ ClosesEmptyArray
  /\ stack' = Front(stack)
  /\ pc' = "after"
  /\ UNCHANGED <<string, matched>>

BeginString ==
  /\ Value("quote")
  /\ pc' = "string" /\ role' = "value"
  /\ start' = total_read
  /\ out' = << >> /\ units' = << >>
  /\ stack' = NotFirst
  /\ UNCHANGED matched

BeginNumber ==
  /\ \/ Value("-") /\ pc' = "minus"
     \/ Value("0") /\ pc' = "zero"
     \/ Value("1") /\ pc' = "digits"
  /\ stack' = NotFirst
  /\ UNCHANGED <<string, matched>>

BeginKeyword ==
  /\ Value("t")
  /\ pc' = "keyword"
  /\ stack' = NotFirst
  /\ UNCHANGED <<string, matched>>

UnexpectedValue ==
  /\ Value(Byte)
  /\ Byte \notin {"{", "[", "quote", "-", "0", "1", "t", Space}
  /\ Fail

Keyword ==
  /\ pc = "keyword" /\ Take
  /\ pc' = IF Byte = "rue" THEN "after" ELSE "failed"
  /\ UNCHANGED <<stack, string, matched>>

-----------------------------------------------------------------------------
(***************************************************************************)
(* Objects.                                                                *)
(***************************************************************************)
\* Faulty variant: "}" may follow a comma.
AnyKeyCloses == Byte = "}"
FirstKeyCloses == Byte = "}" /\ Top.first

Key ==
  /\ pc = "key" /\ Take
  /\ \/ /\ FirstKeyCloses
        /\ stack' = Front(stack) /\ pc' = "after"
        /\ UNCHANGED <<string, matched>>
     \/ /\ Byte = "quote"
        /\ pc' = "string" /\ role' = "key"
        /\ out' = << >> /\ units' = << >>
        /\ stack' = [stack EXCEPT ![Len(stack)].first = FALSE]
        /\ UNCHANGED <<start, matched>>
     \/ /\ Byte \notin {"quote", Space} /\ ~FirstKeyCloses
        /\ Fail

Colon ==
  /\ pc = "colon" /\ Take /\ Byte # Space
  /\ pc' = IF Byte = ":" THEN "member" ELSE "failed"
  /\ UNCHANGED <<stack, string, matched>>

-----------------------------------------------------------------------------
(***************************************************************************)
(* Strings.                                                                *)
(***************************************************************************)
\* char::decode_utf16: halves that have no other half become U+FFFD.
DecodeUtf16(us) ==
  LET d[i \in 1 .. Len(us) + 1] ==
        IF i > Len(us) THEN << >>
        ELSE IF i < Len(us) /\ us[i] = "high" /\ us[i + 1] = "low" THEN <<"pair">> \o d[i + 2]
        ELSE <<IF us[i] = "bmp" THEN "bmp" ELSE "replacement">> \o d[i + 1]
  IN d[1]

\* Faulty variant: each \u is written by itself.
FlushedSingly == out \o [k \in DOMAIN units |-> DecodeUtf16(<<units[k]>>)[1]]
Flushed == out \o DecodeUtf16(units)

\* What a byte stands for behind a backslash, and elsewhere.
Unescaped(b) == IF b = "n" THEN "newline" ELSE b
Char(b) == IF b = "cont" THEN "replacement" ELSE b

\* read_char_with.
PushChar(b, c) ==
  /\ units' = << >>
  /\ IF b = "lead" THEN pc' = "char" /\ out' = Flushed
                   ELSE pc' = "string" /\ out' = Append(Flushed, c)
  /\ UNCHANGED <<stack, start, role, matched>>

StringChar ==
  /\ pc = "string" /\ Take
  /\ Byte \notin {"quote", "backslash"}
  /\ PushChar(Byte, Char(Byte))

\* The bytes behind the first one of a character are not looked at.
RestOfChar ==
  /\ pc = "char" /\ Take
  /\ pc' = "string"
  /\ out' = Append(out, IF Byte = "cont" THEN "wide" ELSE "garbled")
  /\ UNCHANGED <<stack, start, role, units, matched>>

Backslash ==
  /\ pc = "string" /\ Take /\ Byte = "backslash"
  /\ pc' = "escape"
  /\ UNCHANGED <<stack, string, matched>>

Escape ==
  /\ pc = "escape" /\ Take
  /\ IF Byte = "u"
     THEN pc' = "unit" /\ UNCHANGED <<stack, string, matched>>
     ELSE PushChar(Byte, Char(Unescaped(Byte)))

\* read_hex4 takes four bytes in any case.
Unit ==
  /\ pc = "unit" /\ Take
  /\ units' = Append(units, IF Byte \in {"bmp", "high", "low"} THEN Byte ELSE "bad")
  /\ pc' = "string"
  /\ UNCHANGED <<stack, start, role, out, matched>>

\* The callbacks get the text before anything that follows it is read.
EndString ==
  /\ pc = "string" /\ Take /\ Byte = "quote"
  /\ out' = Flushed /\ units' = << >>
  /\ LET found == [text |-> Flushed, start |-> start]
     IN IF role = "key"
        THEN keys' = Append(keys, found) /\ UNCHANGED values
        ELSE values' = Append(values, found) /\ UNCHANGED keys
  /\ pc' = IF role = "key" THEN "colon" ELSE "after"
  /\ UNCHANGED <<stack, start, role>>

-----------------------------------------------------------------------------
(***************************************************************************)
(* Numbers.                                                                *)
(***************************************************************************)
\* White space behind a number is skipped by read_u8_non_whitespace.
NumberEnds(c) ==
  IF c = Space
  THEN pc' = "after_number" /\ UNCHANGED <<stack, string, matched>>
  ELSE NextByte(c)

Stays(p) == pc' = p /\ UNCHANGED <<stack, string, matched>>

\* The first byte behind the digits in front of the point.
PostDigit(c) ==
  \/ c = "." /\ Stays("fraction")
  \/ c = "e" /\ Stays("exponent_sign")
  \/ c \notin {".", "e"} /\ NumberEnds(c)

Number ==
  /\ Take
  /\ \/ pc = "minus" /\ Byte = "0" /\ Stays("zero")
     \/ pc = "minus" /\ Byte \in Digits \ {"0"} /\ Stays("digits")
     \/ pc = "minus" /\ Byte \notin Digits /\ Fail
     \/ pc = "zero" /\ PostDigit(Byte)
     \/ pc \in {"digits", "fraction", "exponent"} /\ Byte \in Digits /\ Stays(pc)
     \/ pc = "digits" /\ Byte \notin Digits /\ PostDigit(Byte)
     \/ pc = "fraction" /\ Byte = "e" /\ Stays("exponent_sign")
     \/ pc = "fraction" /\ Byte \notin Digits \cup {"e"} /\ NumberEnds(Byte)
     \/ pc = "exponent" /\ Byte \notin Digits /\ NumberEnds(Byte)
     \/ pc = "exponent_sign" /\ Byte \in Digits \cup {"+", "-"} /\ Stays("exponent")
     \/ pc = "exponent_sign" /\ Byte \notin Digits \cup {"+", "-"} /\ NumberEnds(Byte)

NumberPcs == {"minus", "zero", "digits", "fraction", "exponent_sign", "exponent"}
ReadNumber == pc \in NumberPcs /\ Number

-----------------------------------------------------------------------------
(***************************************************************************)
(* The end of the body.                                                    *)
(***************************************************************************)
\* Faulty variant: a number must be followed by something.
EofBehindOthers == stack = << >> /\ pc = "after"

\* maybe_read_u8: the end is as good as a byte behind the outermost value.
EofAllowed == stack = << >> /\ pc \in {"after"} \cup (NumberPcs \ {"minus"})

Eof ==
  /\ pc \notin {"done", "failed"} /\ total_read = Len(body)
  /\ pc' = IF EofAllowed THEN "done" ELSE "failed"
  /\ UNCHANGED <<body, total_read, stack, string, matched>>

Next ==
  \/ SkipSpace \/ After \/ Eof
  \/ BeginObject \/ BeginArray \/ EndEmptyArray
  \/ BeginString \/ BeginNumber \/ BeginKeyword \/ UnexpectedValue
  \/ Keyword \/ Key \/ Colon
  \/ StringChar \/ RestOfChar \/ Backslash \/ Escape \/ Unit \/ EndString
  \/ ReadNumber

Spec == Init /\ [][Next]_vars
=============================================================================
