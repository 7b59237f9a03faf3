------------------------------- MODULE HtmlScan -------------------------------
(***************************************************************************)
(* The task that matches an HTML body (parsers/html.rs 87-125) with one    *)
(* raw matcher (evaluator.rs 162-193, 217-272): the body is read in pieces *)
(* of whatever sizes the pipe holds, and the end of each piece is matched  *)
(* again together with the next, so that a match across the seam is found. *)
(*                                                                         *)
(* A body is a sequence of bytes; "lead" and "cont" are the two bytes of a *)
(* character that takes two, the other bytes are one character each.       *)
(***************************************************************************)
EXTENDS Naturals, Sequences, SequencesExt

CONSTANTS
  Bodies,       \* the bodies
  Raws,         \* the bytes that a matcher may look for
  ChunkSize,    \* CHUNK_SIZE
  ChunkOverlap  \* CHUNK_OVERLAP

ASSUME ChunkAssumption ==
  /\ ChunkSize \in Nat /\ ChunkOverlap \in Nat
  /\ ChunkOverlap < ChunkSize
  /\ Raws \subseteq Seq({"a", "b"}) \ {<< >>}
  /\ Bodies \subseteq Seq({"a", "b", "lead", "cont"})

VARIABLES
  body,           \* the bytes of the response
  raw,            \* the bytes that the matcher looks for
  total_read,     \* body.total_read()
  chunk,          \* chunk[..chunk_len]
  overlap_index,
  matches,        \* reported: where the code says it starts, and where it does
  done            \* the read returned 0

vars == <<body, raw, total_read, chunk, overlap_index, matches, done>>

Init ==
  /\ body \in Bodies
  /\ raw \in Raws
  /\ total_read = 0
  /\ chunk = << >>
  /\ overlap_index = 0
  /\ matches = << >>
  /\ done = FALSE

-----------------------------------------------------------------------------
(***************************************************************************)
(* evaluate and do_matching.                                               *)
(***************************************************************************)
Whole(data, i) ==
  /\ data[i] = "lead" => i < Len(data) /\ data[i + 1] = "cont"
  /\ data[i] = "cont" => i > 1 /\ data[i - 1] = "lead"

\* String::from_utf8_lossy: a byte without the rest of its character becomes U+FFFD,
\* which takes three.  Each byte comes with its index in data, from 0.
Utf8Lossy(data) ==
  FlattenSeq([i \in DOMAIN data |->
    IF Whole(data, i) THEN <<[byte |-> data[i], at |-> i - 1]>>
    ELSE [k \in 1 .. 3 |-> [byte |-> "replacement", at |-> i - 1]]])

RawAt(source, i, word) ==
  /\ i + Len(word) - 1 <= Len(source)
  /\ \A k \in 1 .. Len(word) : source[i + k - 1].byte = word[k]

\* The matches of a raw matcher in source from left to right, none overlapping another.
Evaluate(source, word) ==
  LET from[i \in 1 .. Len(source) + Len(word) + 1] ==
        IF i > Len(source) THEN << >>
        ELSE IF RawAt(source, i, word)
             THEN <<[start |-> i - 1, at |-> source[i].at]>> \o from[i + Len(word)]
             ELSE from[i + 1]
  IN from[1]

\* Faulty variants: a match that ends with the last piece is new; one that began in it
\* is not.
EndsInclusive(start, minimum_end_index) == start + Len(raw) < minimum_end_index
StartsBefore(start, minimum_end_index) == start < minimum_end_index

\* "skipping duplicated match"
Duplicated(start, minimum_end_index) == start + Len(raw) <= minimum_end_index

\* `first` is where data begins in the body, `index` where the code takes it to begin.
DoMatching(first, index, minimum_end_index, data) ==
  LET found == Evaluate(Utf8Lossy(data), raw)
  IN FlattenSeq([k \in DOMAIN found |->
       IF Duplicated(found[k].start + index, minimum_end_index) THEN << >>
       ELSE <<[start |-> found[k].start + index, at |-> found[k].at + first]>>])

-----------------------------------------------------------------------------
(***************************************************************************)
(* parse_html: one iteration of its loop.                                  *)
(***************************************************************************)
Index == total_read - overlap_index

Overlap(length) == IF length < ChunkOverlap THEN length ELSE ChunkOverlap

\* A read returns what the pipe holds, up to the room in the chunk.
Read(n) ==
  /\ ~done
  /\ n \in 1 .. ChunkSize - overlap_index
  /\ total_read + n <= Len(body)
  /\ chunk' = SubSeq(chunk, Len(chunk) - overlap_index + 1, Len(chunk))
                \o SubSeq(body, total_read + 1, total_read + n)
  /\ total_read' = total_read + n
  /\ overlap_index' = Overlap(Len(chunk'))
  /\ matches' = matches \o DoMatching(total_read' - Len(chunk'), Index, total_read, chunk')
  /\ UNCHANGED <<body, raw, done>>

\* The writer is gone and everything was read.
ReadEnd ==
  /\ ~done
  /\ total_read = Len(body)
  /\ done' = TRUE
  /\ UNCHANGED <<body, raw, total_read, chunk, overlap_index, matches>>

Next == (\E n \in 1 .. ChunkSize : Read(n)) \/ ReadEnd

Spec == Init /\ [][Next]_vars

-----------------------------------------------------------------------------
(***************************************************************************)
(* Properties.                                                             *)
(***************************************************************************)
\* The chunk is the last part of what was read, and never outgrows its buffer.
TypeOK ==
  /\ total_read \in 0 .. Len(body)
  /\ Len(chunk) <= ChunkSize
  /\ overlap_index \in 0 .. Len(chunk)
  /\ Len(chunk) <= total_read
  /\ chunk = SubSeq(body, total_read - Len(chunk) + 1, total_read)
  /\ matches \in Seq([start : Nat, at : Nat])
  /\ done \in BOOLEAN

\* Where a word occurs in what was read.
Occurs(word) ==
  {s \in 0 .. total_read - Len(word) : SubSeq(body, s + 1, s + Len(word)) = word}
Occurrences == Occurs(raw)

\* However the body is cut into pieces, a match in it is found as soon as its last byte
\* was read (evaluator.rs:233, html.rs:102-112).
NoneMissed == \A s \in Occurrences : \E k \in DOMAIN matches : matches[k].at = s

\* Bodies of one-byte characters: no seam can cut one.
Plain == \A k \in DOMAIN body : body[k] \in {"a", "b"}

\* What is reported of a plain body is there, at the position that is reported, and once,
\* in the order of the body, though the overlap is matched twice (evaluator.rs:234,
\* html.rs:103).
ReportedInOrder ==
  Plain => \A k \in DOMAIN matches :
    /\ matches[k].at \in Occurrences
    /\ matches[k].start = matches[k].at
    /\ \A j \in 1 .. k - 1 : matches[j].at < matches[k].at

\* html.rs:113, evaluator.rs:234: truncated characters are trimmed and a match that
\* the last piece had already is skipped, so none is reported twice.
OnlyOnce ==
  \A j, k \in DOMAIN matches : matches[j].at = matches[k].at => j = k
=============================================================================
