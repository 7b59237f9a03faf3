--------------------------------- MODULE Pipe ---------------------------------
(***************************************************************************)
(* The pipe between on_http_response_body, which appends each chunk of a   *)
(* response, and the parser, which polls for bytes (leaksignal/src/pipe.rs *)
(* 12-184).  Writer and reader share an Rc and run on one thread: nothing  *)
(* interleaves with poll_read, whose loop is modelled one iteration per    *)
(* action.  Bytes are numbered 1, 2, ... in the order they were appended.  *)
(***************************************************************************)
EXTENDS Integers, Sequences, SequencesExt

CONSTANTS
  Persistances,    \* the max_persistance of the pipes considered
  Sizes,           \* the lengths of the appended Vecs and of the read buffers
  MaxBytes,        \* bound on the bytes appended
  MaxSegments      \* bound on the calls of append

ASSUME SizesAssumption ==
  /\ Persistances \subseteq Nat
  /\ Sizes \subseteq Nat
  /\ MaxBytes \in Nat /\ MaxSegments \in Nat

VARIABLES
  max_persistance,   \* what the pipe was made with
  data,              \* the Vec of segments
  segment_index, segment_subindex, total_read,   \* as in PipeReader
  writer, reader,    \* whether each end is still there: the strong count
  room,              \* buf.len() during poll_read
  written,           \* `written` during poll_read
  poll,              \* where poll_read is, or what it returned
  appended,          \* history: how many bytes were appended
  delivered          \* history: the bytes copied out, in order

ends == <<max_persistance, writer, reader>>
indices == <<segment_index, segment_subindex, total_read>>
vars == <<ends, data, indices, room, written, poll, appended, delivered>>

TypeOK ==
  /\ max_persistance \in Persistances
  /\ data \in Seq(Seq(Nat \ {0}))
  /\ segment_index \in 0 .. Len(data)
  /\ segment_subindex \in Nat
  /\ total_read = Len(delivered)
  /\ writer \in BOOLEAN /\ reader \in BOOLEAN
  /\ room \in Nat /\ written \in Nat
  /\ poll \in {"none", "reading", "ready", "pending", "eof", "panic"}
  /\ appended \in Nat
  /\ delivered \in Seq(Nat \ {0})

Init ==
  /\ max_persistance \in Persistances
  /\ data = <<>>
  /\ segment_index = 0 /\ segment_subindex = 0 /\ total_read = 0
  /\ writer = TRUE /\ reader = TRUE
  /\ room = 0 /\ written = 0
  /\ poll = "none"
  /\ appended = 0
  /\ delivered = <<>>

-----------------------------------------------------------------------------
(***************************************************************************)
(* The two ends.                                                           *)
(***************************************************************************)
Idle == poll \notin {"reading", "panic"}

\* append; when the reader is gone it does nothing and returns false.
AppendData(n) ==
  /\ Idle /\ writer /\ reader
  /\ appended + n <= MaxBytes /\ Len(data) < MaxSegments
  /\ data' = Append(data, [k \in 1 .. n |-> appended + k])
  /\ appended' = appended + n
  /\ UNCHANGED <<ends, indices, room, written, poll, delivered>>

DropWriter ==
  /\ Idle /\ writer
  /\ writer' = FALSE
  /\ UNCHANGED <<max_persistance, reader, data, indices, room, written, poll, appended,
                 delivered>>

DropReader ==
  /\ Idle /\ reader
  /\ reader' = FALSE
  /\ UNCHANGED <<max_persistance, writer, data, indices, room, written, poll, appended,
                 delivered>>

-----------------------------------------------------------------------------
(***************************************************************************)
(* poll_read.                                                              *)
(***************************************************************************)
\* An empty buffer is answered at once, with Ok(0).
PollRead(n) ==
  /\ Idle /\ reader
  /\ room' = n /\ written' = 0
  /\ poll' = IF n = 0 THEN "ready" ELSE "reading"
  /\ UNCHANGED <<ends, data, indices, appended, delivered>>

InSegment == poll = "reading" /\ segment_index < Len(data)
Left == Len(data[segment_index + 1]) - segment_subindex

\* The segments of the set s, cleared: they are empty from then on, though Vec::clear
\* keeps what they have allocated.
Cleared(s) == [i \in DOMAIN data |-> IF i \in s THEN <<>> ELSE data[i]]

\* data[i].clear() for i in 0..segment_subindex, once max_persistance is reached.
OldSegments(subindex, n) ==
  IF total_read < max_persistance /\ total_read + n >= max_persistance
  THEN 1 .. subindex ELSE {}

\* Faulty variant: a segment that was read is always cleared.
ClearSegment(n) == {segment_index + 1}

\* The current segment, once it was read.
ReadSegment(n) ==
  IF total_read + n >= max_persistance THEN {segment_index + 1} ELSE {}

\* The slice of a segment that was cleared behind the reader's back is out of range.
Panic ==
  /\ InSegment /\ Left < 0
  /\ poll' = "panic"
  /\ UNCHANGED <<ends, data, indices, room, written, appended, delivered>>

SkipSegment ==
  /\ InSegment /\ Left = 0
  /\ data' = Cleared(ReadSegment(0))
  /\ segment_index' = segment_index + 1
  /\ segment_subindex' = 0
  /\ UNCHANGED <<ends, total_read, room, written, poll, appended, delivered>>

CopySegment ==
  /\ InSegment /\ Left > 0
  /\ LET n == IF Left <= room THEN Left ELSE room
         whole == n = Left
         subindex == IF whole THEN 0 ELSE segment_subindex + n
         old == OldSegments(subindex, n)
     IN /\ delivered' = delivered \o [k \in 1 .. n |->
                                        data[segment_index + 1][segment_subindex + k]]
        /\ data' = Cleared((IF whole THEN ReadSegment(n) ELSE {}) \cup old)
        /\ segment_index' = IF whole THEN segment_index + 1 ELSE segment_index
        /\ segment_subindex' = subindex
        /\ total_read' = total_read + n
        /\ room' = room - n
        /\ written' = written + n
        /\ poll' = IF ~(old \subseteq DOMAIN data) THEN "panic"
                   ELSE IF room = n THEN "ready" ELSE "reading"
  /\ UNCHANGED <<ends, appended>>

\* Faulty variant: the end is reported though bytes were copied out.
EofWhenClosed == IF ~writer THEN "eof" ELSE IF written > 0 THEN "ready" ELSE "pending"
Exhausted == IF written > 0 THEN "ready" ELSE IF ~writer THEN "eof" ELSE "pending"

NoMoreSegments ==
  /\ poll = "reading" /\ segment_index = Len(data)
  /\ poll' = Exhausted
  /\ UNCHANGED <<ends, data, indices, room, written, appended, delivered>>

-----------------------------------------------------------------------------
(***************************************************************************)
(* fetch_full_content.  It changes nothing: it returns None once           *)
(* max_persistance bytes were read, and Content before, provided that      *)
(* exactly those bytes are there.  Otherwise its assertion fails.          *)
(***************************************************************************)
Content == FlattenSeq(data)
Persists == total_read < max_persistance

FetchPanics ==
  /\ Idle /\ reader
  /\ Persists /\ Len(Content) # total_read
  /\ poll' = "panic"
  /\ UNCHANGED <<ends, data, indices, room, written, appended, delivered>>

Next ==
  \/ \E n \in Sizes : AppendData(n)
  \/ DropWriter
  \/ DropReader
  \/ \E n \in Sizes : PollRead(n)
  \/ SkipSegment
  \/ CopySegment
  \/ NoMoreSegments
  \/ Panic
  \/ FetchPanics

Spec == Init /\ [][Next]_vars

-----------------------------------------------------------------------------
(***************************************************************************)
(* Properties.                                                             *)
(***************************************************************************)
\* With pipe(0), which is what http_response.rs:474 makes, the parser gets the bytes
\* that were appended, each once and in order, is told to wait only when it has them
\* all, and that the body ended only when it has them all and the writer is gone
\* (poll_read).  Of another pipe this says nothing.
AsMade(value, otherwise) == IF max_persistance = 0 THEN value ELSE otherwise
Stream ==
  INSTANCE ByteStream WITH
    sent <- AsMade(appended, 0), received <- AsMade(delivered, <<>>),
    writing <- AsMade(writer, TRUE),
    answer <- AsMade(IF poll # "reading" THEN poll
                     ELSE IF written > 0 THEN "some" ELSE "none", "none")
StreamSpec == Stream!StreamSpec

\* While less than max_persistance bytes were read, fetch_full_content returns what the
\* reader was given, byte for byte: it does so whenever the reader was given all that
\* was appended, and at no other time does it return anything else (pipe.rs 94-107).
\* When something was appended that is not read yet it does not return: FetchIsSafe.
FetchedIsRead ==
  Persists /\ (total_read = appended \/ Len(Content) = total_read) => Content = delivered

-----------------------------------------------------------------------------
(***************************************************************************)
(* Statements of the repository that the code does not keep.               *)
(***************************************************************************)
\* pipe.rs:34 "persist read data up to `max_persistance` bytes, after which it is
\* cleared": what was not read yet is not cleared.
UnreadIsKept ==
  \A k \in total_read + 1 .. appended : \E i \in DOMAIN data : Contains(data[i], k)

\* pipe.rs:95 "Fetches the entire content of the pipe if `total_read` <
\* `max_persistence`": while a byte of it is unread, its assertion fails instead
\* (pipe.rs:106).
FetchIsSafe == Idle /\ reader /\ Persists => Len(Content) = total_read

\* pipe.rs:243-246 "Poll::Ready(Err(_))": reading after the writer was dropped and
\* everything was read is an error.
ReadAfterCloseFails == poll # "eof"
=============================================================================
