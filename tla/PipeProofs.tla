------------------------------ MODULE PipeProofs ------------------------------
(***************************************************************************)
(* Proofs about Pipe, for bodies, segments and reads of any length: a      *)
(* pipe(0) is a byte stream, and from any other what was read can be       *)
(* fetched again until its reader passes the limit.                        *)
(***************************************************************************)
EXTENDS Pipe, Recursion

Byte == Nat \ {0}

\* A read is only continued while there is room in its buffer.
RoomToRead == poll = "reading" => room > 0

\* The reader stands inside the segment it is at, or at its end.
InPlace == IF segment_index < Len(data)
           THEN segment_subindex <= Len(data[segment_index + 1])
           ELSE segment_subindex = 0

\* start[j] is the number of the bytes appended before segment j: the segments that
\* are not read yet hold the bytes that follow those the reader was given.
Unread(start) ==
  /\ start[segment_index + 1] + segment_subindex = total_read
  /\ start[Len(data) + 1] = appended
  /\ \A j \in segment_index + 1 .. Len(data) :
       /\ start[j + 1] = start[j] + Len(data[j])
       /\ \A k \in 1 .. Len(data[j]) : data[j][k] = start[j] + k

AsAppended == \E start \in [1 .. Len(data) + 1 -> 0 .. appended] : Unread(start)

UpTo(n) == [k \in 1 .. n |-> k]

\* What is not read yet is there: in a pipe(0) always, in any other until
\* max_persistance bytes were read.
Ordered == max_persistance = 0 \/ Persists

PipeInv ==
  /\ TypeOK
  /\ RoomToRead
  /\ Ordered => InPlace /\ AsAppended /\ delivered = UpTo(total_read)
  /\ max_persistance = 0 => poll # "panic"

(***************************************************************************)
(* Segments.                                                               *)
(***************************************************************************)
LEMMA SegmentTypes ==
  ASSUME TypeOK
  PROVE  /\ data \in Seq(Seq(Byte)) /\ delivered \in Seq(Byte)
         /\ Len(data) \in Nat /\ DOMAIN data = 1 .. Len(data)
         /\ \A j \in 1 .. Len(data) :
              /\ data[j] \in Seq(Byte) /\ Len(data[j]) \in Nat
              /\ \A k \in 1 .. Len(data[j]) : data[j][k] \in Byte
<1>1. data \in Seq(Seq(Byte)) /\ delivered \in Seq(Byte)
  BY DEF TypeOK, Byte
<1>2. Len(data) \in Nat /\ DOMAIN data = 1 .. Len(data)
  BY <1>1, LenProperties
<1>3. ASSUME NEW j \in 1 .. Len(data)
      PROVE  /\ data[j] \in Seq(Byte) /\ Len(data[j]) \in Nat
             /\ \A k \in 1 .. Len(data[j]) : data[j][k] \in Byte
  <2>1. data[j] \in Seq(Byte)
    BY <1>1, ElementOfSeq
  <2> QED
    BY <2>1, LenProperties, ElementOfSeq
<1> QED
  BY <1>1, <1>2, <1>3

LEMMA ClearedFacts ==
  ASSUME TypeOK, NEW s
  PROVE  /\ Cleared(s) \in Seq(Seq(Byte))
         /\ Len(Cleared(s)) = Len(data)
         /\ \A j \in 1 .. Len(data) : Cleared(s)[j] = IF j \in s THEN <<>> ELSE data[j]
<1>1. /\ Len(data) \in Nat /\ DOMAIN data = 1 .. Len(data)
      /\ \A j \in 1 .. Len(data) : data[j] \in Seq(Byte)
  BY SegmentTypes
<1>2. <<>> \in Seq(Byte)
  BY EmptySeq
<1>3. Cleared(s) \in [1 .. Len(data) -> Seq(Byte)]
  BY <1>1, <1>2 DEF Cleared
<1>4. \A j \in 1 .. Len(data) : Cleared(s)[j] = IF j \in s THEN <<>> ELSE data[j]
  BY <1>1 DEF Cleared
<1> QED
  BY <1>1, <1>3, <1>4, SeqOfFunction

(***************************************************************************)
(* The invariant, an action at a time.                                     *)
(***************************************************************************)
LEMMA InitPipe == Init => PipeInv
<1> SUFFICES ASSUME Init PROVE PipeInv
  OBVIOUS
<1>1. /\ <<>> \in Seq(Seq(Byte)) /\ <<>> \in Seq(Byte)
      /\ Len(<<>>) = 0 /\ 0 \in 0 .. 0
  BY EmptySeq
<1>2. TypeOK
  BY <1>1 DEF Init, TypeOK, Byte
<1>3. InPlace
  BY <1>1 DEF Init, InPlace
<1>4. AsAppended
  <2> DEFINE start == [j \in 1 .. 1 |-> 0]
  <2>1. start \in [1 .. Len(data) + 1 -> 0 .. appended]
    BY <1>1 DEF Init
  <2>2. Unread(start)
    BY <1>1 DEF Init, Unread
  <2> QED
    BY <2>1, <2>2 DEF AsAppended
<1>5. delivered = UpTo(total_read)
  <2>1. UpTo(0) \in Seq(Byte) /\ Len(UpTo(0)) = 0
    <3>1. UpTo(0) \in [1 .. 0 -> Byte]
      BY DEF UpTo
    <3> QED
      BY <3>1, SeqOfFunction
  <2>2. UpTo(0) = <<>>
    BY <2>1, EmptySeq
  <2> QED
    BY <2>2 DEF Init
<1> QED
  BY <1>2, <1>3, <1>4, <1>5 DEF Init, PipeInv, RoomToRead

LEMMA AppendPipe ==
  ASSUME PipeInv, NEW n \in Sizes, AppendData(n)
  PROVE  PipeInv'
<1> DEFINE segment == [k \in 1 .. n |-> appended + k]
<1>1. /\ n \in Nat /\ appended \in Nat /\ appended' = appended + n
      /\ data' = Append(data, segment)
      /\ UNCHANGED <<ends, indices, room, written, poll, delivered>>
  BY SizesAssumption DEF AppendData, PipeInv, TypeOK
<1>2. /\ data \in Seq(Seq(Byte)) /\ Len(data) \in Nat
      /\ DOMAIN data = 1 .. Len(data)
      /\ \A j \in 1 .. Len(data) : Len(data[j]) \in Nat
      /\ segment_index \in 0 .. Len(data)
      /\ segment_subindex \in Nat
  BY SegmentTypes DEF PipeInv, TypeOK
<1>3. /\ segment \in Seq(Byte) /\ Len(segment) = n
      /\ \A k \in 1 .. n : segment[k] = appended + k
  <2>1. segment \in [1 .. n -> Byte]
    BY <1>1 DEF Byte
  <2> QED
    BY <1>1, <2>1, SeqOfFunction
<1> HIDE DEF segment
<1>4. /\ data' \in Seq(Seq(Byte))
      /\ Len(data') = Len(data) + 1
      /\ \A j \in 1 .. Len(data) : data'[j] = data[j]
      /\ data'[Len(data) + 1] = segment
  BY <1>1, <1>2, <1>3, AppendProperties
<1>5. TypeOK'
  BY <1>1, <1>2, <1>4 DEF PipeInv, TypeOK, Byte, ends, indices
<1>6. RoomToRead'
  BY <1>1 DEF PipeInv, RoomToRead
<1>7. max_persistance' = 0 => poll' # "panic"
  BY <1>1 DEF PipeInv, ends
<1>8. ASSUME Ordered PROVE InPlace' /\ AsAppended' /\ (delivered = UpTo(total_read))'
  <2>1. InPlace /\ AsAppended /\ delivered = UpTo(total_read)
    BY <1>8 DEF PipeInv
  <2>2. InPlace'
    BY <1>1, <1>2, <1>3, <1>4, <2>1 DEF InPlace, indices
  <2>3. PICK start \in [1 .. Len(data) + 1 -> 0 .. appended] : Unread(start)
    BY <2>1 DEF AsAppended
  <2>4. PICK starts \in [1 .. Len(data) + 2 -> 0 .. appended + n] :
          starts = [j \in 1 .. Len(data) + 2 |->
                      IF j = Len(data) + 2 THEN appended + n ELSE start[j]]
    <3>1. [j \in 1 .. Len(data) + 2 |->
             IF j = Len(data) + 2 THEN appended + n ELSE start[j]]
            \in [1 .. Len(data) + 2 -> 0 .. appended + n]
      BY <1>1, <1>2
    <3> QED
      BY <3>1
  <2>5. /\ \A j \in 1 .. Len(data) + 1 : starts[j] = start[j]
        /\ starts[Len(data) + 2] = appended + n
    BY <1>2, <2>4
  <2>6. ASSUME NEW j \in segment_index + 1 .. Len(data) + 1
        PROVE  /\ starts[j + 1] = starts[j] + Len(data'[j])
               /\ \A k \in 1 .. Len(data'[j]) : data'[j][k] = starts[j] + k
    <3>1. CASE j <= Len(data)
      <4>1. j \in 1 .. Len(data) /\ j \in segment_index + 1 .. Len(data)
            /\ j + 1 \in 1 .. Len(data) + 1
        BY <1>2, <3>1
      <4>2. /\ start[j + 1] = start[j] + Len(data[j])
            /\ \A k \in 1 .. Len(data[j]) : data[j][k] = start[j] + k
        BY <2>3, <4>1 DEF Unread
      <4>3. data'[j] = data[j] /\ starts[j] = start[j] /\ starts[j + 1] = start[j + 1]
        BY <1>2, <1>4, <2>5, <4>1
      <4> QED
        BY <4>2, <4>3
    <3>2. CASE j = Len(data) + 1
      <4>1. starts[j] = appended /\ starts[j + 1] = appended + n
        BY <1>2, <2>3, <2>5, <3>2 DEF Unread
      <4> QED
        BY <1>3, <1>4, <3>2, <4>1
    <3> QED
      BY <1>2, <3>1, <3>2
  <2>7. starts[segment_index + 1] + segment_subindex = total_read
    BY <1>2, <2>3, <2>5 DEF Unread
  <2>8. Unread(starts)'
    <3>1. starts[Len(data') + 1] = appended'
      BY <1>1, <1>2, <1>4, <2>5
    <3> QED
      BY <1>1, <1>2, <1>4, <2>6, <2>7, <3>1 DEF Unread, indices
  <2>9. starts \in [1 .. Len(data') + 1 -> 0 .. appended']
    BY <1>1, <1>2, <1>4
  <2>10. AsAppended'
    BY <2>8, <2>9 DEF AsAppended
  <2>11. (delivered = UpTo(total_read))'
    BY <1>1, <2>1 DEF indices
  <2> QED
    BY <2>2, <2>10, <2>11
<1> QED
  BY <1>1, <1>5, <1>6, <1>7, <1>8 DEF PipeInv, Ordered, Persists, ends, indices

LEMMA SkipPipe == ASSUME PipeInv, SkipSegment PROVE PipeInv'
<1>1. /\ Len(data) \in Nat /\ DOMAIN data = 1 .. Len(data)
      /\ \A j \in 1 .. Len(data) : Len(data[j]) \in Nat
      /\ segment_index \in 0 .. Len(data)
      /\ segment_subindex \in Nat /\ total_read \in Nat
      /\ max_persistance \in Nat
  <2>1. Len(delivered) \in Nat
    BY LenProperties DEF PipeInv, TypeOK
  <2> QED
    BY <2>1, SegmentTypes, SizesAssumption DEF PipeInv, TypeOK
<1>2. /\ segment_index < Len(data)
      /\ Len(data[segment_index + 1]) = segment_subindex
      /\ data' = Cleared(ReadSegment(0))
      /\ segment_index' = segment_index + 1 /\ segment_subindex' = 0
      /\ UNCHANGED <<ends, total_read, room, written, poll, appended, delivered>>
  BY <1>1 DEF SkipSegment, InSegment, Left
<1>3. /\ data' \in Seq(Seq(Byte)) /\ Len(data') = Len(data)
      /\ \A j \in 1 .. Len(data) :
           data'[j] = IF j \in ReadSegment(0) THEN <<>> ELSE data[j]
  BY <1>2, ClearedFacts DEF PipeInv
<1>4. ReadSegment(0) \subseteq {segment_index + 1}
  BY <1>1 DEF ReadSegment
<1>5. TypeOK'
  BY <1>1, <1>2, <1>3 DEF PipeInv, TypeOK, Byte, ends
<1>6. RoomToRead'
  BY <1>2 DEF PipeInv, RoomToRead
<1>7. max_persistance' = 0 => poll' # "panic"
  BY <1>2 DEF PipeInv, ends
<1>8. ASSUME Ordered PROVE InPlace' /\ AsAppended' /\ (delivered = UpTo(total_read))'
  <2>1. AsAppended /\ delivered = UpTo(total_read)
    BY <1>8 DEF PipeInv
  <2>2. InPlace'
    <3> SUFFICES ASSUME segment_index + 1 < Len(data)
                 PROVE  0 <= Len(data'[segment_index + 2])
      BY <1>1, <1>2, <1>3 DEF InPlace
    <3>1. segment_index + 2 \in 1 .. Len(data)
      BY <1>1
    <3>2. data'[segment_index + 2] = data[segment_index + 2]
      BY <1>1, <1>3, <1>4, <3>1
    <3> QED
      BY <1>1, <3>1, <3>2
  <2>3. PICK start \in [1 .. Len(data) + 1 -> 0 .. appended] : Unread(start)
    BY <2>1 DEF AsAppended
  <2>4. start[segment_index + 2] = total_read
    <3>1. segment_index + 1 \in segment_index + 1 .. Len(data)
      BY <1>1, <1>2
    <3>2. start[(segment_index + 1) + 1] = start[segment_index + 1] + Len(data[segment_index + 1])
      BY <2>3, <3>1 DEF Unread
    <3> QED
      BY <1>1, <1>2, <2>3, <3>2 DEF Unread
  <2>5. \A j \in segment_index + 2 .. Len(data) :
          data'[j] = data[j] /\ j \in segment_index + 1 .. Len(data)
    BY <1>1, <1>3, <1>4
  <2>6. total_read + 0 = total_read /\ (segment_index + 1) + 1 = segment_index + 2
    BY <1>1
  <2>7. Unread(start)'
    <3>1. /\ segment_index' = segment_index + 1 /\ segment_subindex' = 0
          /\ total_read' = total_read /\ appended' = appended /\ Len(data') = Len(data)
      BY <1>2, <1>3 DEF ends
    <3>2. \A j \in segment_index + 2 .. Len(data) :
            /\ start[j + 1] = start[j] + Len(data'[j])
            /\ \A k \in 1 .. Len(data'[j]) : data'[j][k] = start[j] + k
      BY <2>3, <2>5 DEF Unread
    <3>3. start[Len(data) + 1] = appended
      BY <2>3 DEF Unread
    <3> QED
      BY <2>4, <2>6, <3>1, <3>2, <3>3 DEF Unread
  <2>8. AsAppended'
    BY <1>2, <1>3, <2>3, <2>7 DEF AsAppended
  <2> QED
    BY <1>2, <2>1, <2>2, <2>8
<1> QED
  BY <1>2, <1>5, <1>6, <1>7, <1>8 DEF PipeInv, Ordered, Persists, ends

\* What one iteration copies out: never past the segment or the buffer.
Copies(n) ==
  /\ poll = "reading" /\ segment_index \in 0 .. Len(data) - 1
  /\ n <= room
  /\ delivered' = delivered \o
       [k \in 1 .. n |-> data[segment_index + 1][segment_subindex + k]]
  /\ total_read' = total_read + n
  /\ room' = room - n /\ written' = written + n
  /\ \/ /\ segment_subindex + n = Len(data[segment_index + 1])
        /\ segment_index' = segment_index + 1 /\ segment_subindex' = 0
        /\ data' = Cleared(ReadSegment(n) \cup OldSegments(0, n))
     \/ /\ segment_subindex + n < Len(data[segment_index + 1])
        /\ segment_index' = segment_index
        /\ segment_subindex' = segment_subindex + n
        /\ data' = Cleared(OldSegments(segment_subindex + n, n))
  /\ poll' \in {"panic", "ready", "reading"}
  /\ poll' = "reading" => room # n
  /\ poll' = "panic" => total_read < max_persistance
  /\ UNCHANGED <<ends, appended>>

LEMMA CopyFacts ==
  ASSUME PipeInv, CopySegment
  PROVE  \E n \in Byte : Copies(n)
<1>1. /\ Len(data) \in Nat /\ DOMAIN data = 1 .. Len(data)
      /\ \A j \in 1 .. Len(data) : Len(data[j]) \in Nat
      /\ segment_index \in 0 .. Len(data) /\ segment_subindex \in Nat
      /\ room \in Nat /\ (poll = "reading" => room > 0)
  BY SegmentTypes DEF PipeInv, TypeOK, RoomToRead
<1>2. /\ poll = "reading" /\ segment_index < Len(data) /\ Left > 0
      /\ segment_index + 1 \in 1 .. Len(data)
      /\ Len(data[segment_index + 1]) \in Nat
      /\ Left = Len(data[segment_index + 1]) - segment_subindex
  BY <1>1 DEF CopySegment, InSegment, Left
<1> DEFINE n == IF Left <= room THEN Left ELSE room
           whole == n = Left
           subindex == IF whole THEN 0 ELSE segment_subindex + n
           old == OldSegments(subindex, n)
<1>3. n \in Byte /\ n <= room /\ n <= Left
  BY <1>1, <1>2 DEF Byte
<1>4. /\ delivered' = delivered \o
           [k \in 1 .. n |-> data[segment_index + 1][segment_subindex + k]]
      /\ data' = Cleared((IF whole THEN ReadSegment(n) ELSE {}) \cup old)
      /\ segment_index' = IF whole THEN segment_index + 1 ELSE segment_index
      /\ segment_subindex' = subindex
      /\ total_read' = total_read + n
      /\ room' = room - n
      /\ written' = written + n
      /\ poll' = IF ~(old \subseteq DOMAIN data) THEN "panic"
                 ELSE IF room = n THEN "ready" ELSE "reading"
      /\ UNCHANGED <<ends, appended>>
  BY DEF CopySegment
<1> HIDE DEF n
<1>5. /\ whole => segment_subindex + n = Len(data[segment_index + 1])
      /\ ~whole => segment_subindex + n < Len(data[segment_index + 1])
  BY <1>1, <1>2, <1>3 DEF Byte
<1>6. {} \cup old = old
  OBVIOUS
<1>7. /\ poll' \in {"panic", "ready", "reading"}
      /\ poll' = "reading" => room # n
      /\ poll' = "panic" => total_read < max_persistance
  BY <1>4 DEF OldSegments
<1>8. ASSUME whole PROVE Copies(n)
  <2>1. /\ segment_subindex + n = Len(data[segment_index + 1])
        /\ segment_index' = segment_index + 1 /\ segment_subindex' = 0
        /\ data' = Cleared(ReadSegment(n) \cup OldSegments(0, n))
    BY <1>4, <1>5, <1>8
  <2> QED
    BY <1>1, <1>2, <1>3, <1>4, <1>7, <2>1 DEF Copies
<1>9. ASSUME ~whole PROVE Copies(n)
  <2>1. /\ segment_subindex + n < Len(data[segment_index + 1])
        /\ segment_index' = segment_index
        /\ segment_subindex' = segment_subindex + n
        /\ data' = Cleared(OldSegments(segment_subindex + n, n))
    BY <1>4, <1>5, <1>6, <1>9
  <2> QED
    BY <1>1, <1>2, <1>3, <1>4, <1>7, <2>1 DEF Copies
<1> QED
  BY <1>3, <1>8, <1>9

\* The bytes that are copied out are bytes, and as long as the segments are in order
\* they are those that follow what was delivered before.
LEMMA CopiedBytes ==
  ASSUME PipeInv, NEW n \in Byte, Copies(n)
  PROVE  /\ delivered' \in Seq(Byte) /\ Len(delivered') = total_read + n
         /\ Ordered =>
              /\ delivered' = delivered \o [k \in 1 .. n |-> total_read + k]
              /\ total_read + n <= appended
<1> DEFINE copied == [k \in 1 .. n |-> data[segment_index + 1][segment_subindex + k]]
<1>1. /\ Len(data) \in Nat /\ delivered \in Seq(Byte)
      /\ segment_index \in 0 .. Len(data) - 1 /\ segment_subindex \in Nat
      /\ segment_index + 1 \in 1 .. Len(data)
      /\ Len(data[segment_index + 1]) \in Nat
      /\ \A k \in 1 .. Len(data[segment_index + 1]) : data[segment_index + 1][k] \in Byte
      /\ total_read = Len(delivered) /\ total_read \in Nat
      /\ n \in Nat
  <2>1. TypeOK /\ delivered \in Seq(Byte) /\ total_read = Len(delivered) /\ n \in Nat
    BY DEF PipeInv, TypeOK, Byte
  <2>2. segment_index < Len(data) /\ segment_index \in Nat /\ segment_subindex \in Nat
    BY DEF PipeInv, TypeOK, Copies
  <2>3. Len(data) \in Nat
    BY <2>1, SegmentTypes
  <2>4. segment_index \in 0 .. Len(data) - 1 /\ segment_index + 1 \in 1 .. Len(data)
    BY <2>2, <2>3
  <2>5. /\ Len(data[segment_index + 1]) \in Nat
        /\ \A k \in 1 .. Len(data[segment_index + 1]) : data[segment_index + 1][k] \in Byte
    BY <2>1, <2>4, SegmentTypes
  <2>6. Len(delivered) \in Nat
    BY <2>1, LenProperties
  <2> QED
    BY <2>1, <2>2, <2>3, <2>4, <2>5, <2>6
<1>2. segment_subindex + n <= Len(data[segment_index + 1])
  BY <1>1 DEF Copies
<1>3. \A k \in 1 .. n : segment_subindex + k \in 1 .. Len(data[segment_index + 1])
  BY <1>1, <1>2
<1>4. copied \in Seq(Byte) /\ Len(copied) = n
  <2>1. copied \in [1 .. n -> Byte]
    BY <1>1, <1>3
  <2> QED
    BY <1>1, <2>1, SeqOfFunction
<1>5. delivered' = delivered \o copied
  BY DEF Copies
<1>6. delivered' \in Seq(Byte) /\ Len(delivered') = total_read + n
  BY <1>1, <1>4, <1>5, ConcatProperties
<1>7. ASSUME Ordered
      PROVE  /\ copied = [k \in 1 .. n |-> total_read + k]
             /\ total_read + n <= appended
  <2>1. PICK start \in [1 .. Len(data) + 1 -> 0 .. appended] : Unread(start)
    BY <1>7 DEF PipeInv, AsAppended
  <2>2. segment_index + 1 \in segment_index + 1 .. Len(data)
    BY <1>1
  <2>3. /\ start[segment_index + 1] + segment_subindex = total_read
        /\ start[(segment_index + 1) + 1] =
             start[segment_index + 1] + Len(data[segment_index + 1])
        /\ \A k \in 1 .. Len(data[segment_index + 1]) :
             data[segment_index + 1][k] = start[segment_index + 1] + k
    BY <2>1, <2>2 DEF Unread
  <2>4. start[segment_index + 1] \in Nat /\ start[(segment_index + 1) + 1] <= appended
        /\ appended \in Nat
    <3>1. /\ segment_index + 1 \in 1 .. Len(data) + 1
          /\ (segment_index + 1) + 1 \in 1 .. Len(data) + 1
      BY <1>1
    <3>2. appended \in Nat
      BY DEF PipeInv, TypeOK
    <3>3. /\ start[segment_index + 1] \in 0 .. appended
          /\ start[(segment_index + 1) + 1] \in 0 .. appended
      BY <2>1, <3>1
    <3> QED
      BY <3>2, <3>3
  <2>5. ASSUME NEW k \in 1 .. n
        PROVE  data[segment_index + 1][segment_subindex + k] = total_read + k
    <3>1. segment_subindex + k \in 1 .. Len(data[segment_index + 1])
      BY <1>3
    <3>2. data[segment_index + 1][segment_subindex + k] =
            start[segment_index + 1] + (segment_subindex + k)
      BY <2>3, <3>1
    <3>3. start[segment_index + 1] \in Nat /\ segment_subindex \in Nat /\ k \in Nat
      BY <1>1, <2>4
    <3>4. start[segment_index + 1] + (segment_subindex + k) =
            (start[segment_index + 1] + segment_subindex) + k
      BY <3>3
    <3> QED
      BY <2>3, <3>2, <3>4
  <2>6. total_read + n <= start[(segment_index + 1) + 1]
    <3>1. /\ start[segment_index + 1] \in Nat /\ segment_subindex \in Nat
          /\ Len(data[segment_index + 1]) \in Nat /\ n \in Nat
          /\ segment_subindex + n <= Len(data[segment_index + 1])
      BY <1>1, <1>2, <2>4
    <3>2. (start[segment_index + 1] + segment_subindex) + n <=
            start[segment_index + 1] + Len(data[segment_index + 1])
      BY <3>1
    <3> QED
      BY <2>3, <3>2
  <2>7. start[(segment_index + 1) + 1] \in Nat /\ total_read + n \in Nat
    BY <1>1, <2>1
  <2>8. total_read + n <= appended
    BY <2>4, <2>6, <2>7
  <2> QED
    BY <2>5, <2>8
<1> QED
  BY <1>5, <1>6, <1>7

\* Consecutive segments make one sequence.
LEMMA UpToConcat ==
  ASSUME NEW m \in Nat, NEW t \in Seq(Byte), \A k \in 1 .. Len(t) : t[k] = m + k
  PROVE  UpTo(m) \o t = UpTo(m + Len(t))
<1>1. Len(t) \in Nat
  BY LenProperties
<1>2. /\ UpTo(m) \in Seq(Byte) /\ Len(UpTo(m)) = m
      /\ UpTo(m + Len(t)) \in Seq(Byte) /\ Len(UpTo(m + Len(t))) = m + Len(t)
  <2>1. UpTo(m) \in [1 .. m -> Byte] /\ UpTo(m + Len(t)) \in [1 .. m + Len(t) -> Byte]
    BY <1>1 DEF UpTo, Byte
  <2>2. m + Len(t) \in Nat
    BY <1>1
  <2> QED
    BY <2>1, <2>2, SeqOfFunction
<1>3. /\ UpTo(m) \o t \in Seq(Byte) /\ Len(UpTo(m) \o t) = m + Len(t)
      /\ \A i \in 1 .. m + Len(t) :
           (UpTo(m) \o t)[i] = IF i <= m THEN UpTo(m)[i] ELSE t[i - m]
  <2>1. /\ UpTo(m) \o t \in Seq(Byte)
        /\ Len(UpTo(m) \o t) = Len(UpTo(m)) + Len(t)
        /\ \A i \in 1 .. Len(UpTo(m)) + Len(t) : (UpTo(m) \o t)[i] =
                IF i <= Len(UpTo(m)) THEN UpTo(m)[i] ELSE t[i - Len(UpTo(m))]
    <3> HIDE DEF UpTo
    <3> QED
      BY <1>2, ConcatProperties
  <2> QED
    BY <1>2, <2>1
<1>4. ASSUME NEW i \in 1 .. m + Len(t) PROVE (UpTo(m) \o t)[i] = UpTo(m + Len(t))[i]
  <2>1. UpTo(m + Len(t))[i] = i
    BY DEF UpTo
  <2>2. CASE i <= m
    <3>1. i \in 1 .. m
      BY <1>1, <2>2
    <3>2. UpTo(m)[i] = i
      BY <3>1 DEF UpTo
    <3> QED
      BY <1>3, <2>1, <2>2, <3>2
  <2>3. CASE ~(i <= m)
    <3>1. i - m \in 1 .. Len(t) /\ m + (i - m) = i
      BY <1>1, <2>3
    <3>2. t[i - m] = i
      BY <3>1
    <3> QED
      BY <1>3, <2>1, <2>3, <3>2
  <2> QED
    BY <2>2, <2>3
<1> QED
  BY <1>2, <1>3, <1>4, SeqEqual

LEMMA CopyPipe == ASSUME PipeInv, CopySegment PROVE PipeInv'
<1>1. PICK n \in Byte : Copies(n)
  BY CopyFacts
<1>2. /\ Len(data) \in Nat /\ DOMAIN data = 1 .. Len(data)
      /\ \A j \in 1 .. Len(data) : Len(data[j]) \in Nat
      /\ segment_index \in 0 .. Len(data) - 1
      /\ segment_subindex \in Nat /\ total_read \in Nat
      /\ max_persistance \in Nat /\ room \in Nat /\ n \in Nat \ {0}
      /\ written \in Nat
  <2>1. Len(delivered) \in Nat
    BY LenProperties DEF PipeInv, TypeOK
  <2> QED
    BY <1>1, <2>1, SegmentTypes, SizesAssumption DEF PipeInv, TypeOK, Copies, Byte
<1>3. PICK s : /\ data' = Cleared(s)
               /\ \/ /\ segment_subindex + n = Len(data[segment_index + 1])
                     /\ segment_index' = segment_index + 1 /\ segment_subindex' = 0
                     /\ s = ReadSegment(n) \cup OldSegments(0, n)
                  \/ /\ segment_subindex + n < Len(data[segment_index + 1])
                     /\ segment_index' = segment_index
                     /\ segment_subindex' = segment_subindex + n
                     /\ s = OldSegments(segment_subindex + n, n)
  BY <1>1 DEF Copies
<1>4. /\ data' \in Seq(Seq(Byte)) /\ Len(data') = Len(data)
      /\ \A j \in 1 .. Len(data) : data'[j] = IF j \in s THEN <<>> ELSE data[j]
  BY <1>3, ClearedFacts DEF PipeInv
<1>5. /\ n <= room /\ room' = room - n /\ written' = written + n
      /\ total_read' = total_read + n
      /\ poll' \in {"panic", "ready", "reading"}
      /\ poll' = "reading" => room # n
      /\ poll' = "panic" => total_read < max_persistance
      /\ UNCHANGED <<ends, appended>>
  BY <1>1 DEF Copies
<1>6. TypeOK'
  <2>1. delivered' \in Seq(Byte) /\ total_read' = Len(delivered')
    BY <1>1, <1>5, CopiedBytes
  <2>2. segment_index' \in 0 .. Len(data') /\ segment_subindex' \in Nat
    BY <1>2, <1>3, <1>4
  <2>3. room' \in Nat /\ written' \in Nat
    BY <1>2, <1>5
  <2>4. /\ max_persistance' \in Persistances
        /\ writer' \in BOOLEAN /\ reader' \in BOOLEAN /\ appended' \in Nat
    BY <1>5 DEF PipeInv, TypeOK, ends
  <2> QED
    BY <1>4, <1>5, <2>1, <2>2, <2>3, <2>4 DEF TypeOK, Byte
<1>7. RoomToRead'
  BY <1>2, <1>5 DEF RoomToRead
<1>8. ASSUME Ordered'
      PROVE  Ordered /\ s \subseteq IF segment_index' = segment_index THEN {}
                                   ELSE {segment_index + 1}
  <2>1. max_persistance = 0 \/ total_read + n < max_persistance
    BY <1>5, <1>8 DEF Ordered, Persists, ends
  <2>2. Ordered
    BY <1>2, <2>1 DEF Ordered, Persists
  <2>3. \A m : OldSegments(m, n) = {}
    BY <1>2, <2>1 DEF OldSegments
  <2> QED
    BY <1>2, <1>3, <2>2, <2>3 DEF ReadSegment
<1>9. max_persistance' = 0 => poll' # "panic"
  BY <1>2, <1>5 DEF ends
<1>10. ASSUME Ordered' PROVE InPlace' /\ AsAppended' /\ (delivered = UpTo(total_read))'
  <2>1. AsAppended /\ delivered = UpTo(total_read)
    BY <1>8, <1>10 DEF PipeInv
  <2>2. \A j \in segment_index' + 1 .. Len(data) :
          /\ j \in segment_index + 1 .. Len(data) /\ j \in 1 .. Len(data)
          /\ data'[j] = data[j]
    <3>1. segment_index' = segment_index \/ segment_index' = segment_index + 1
      BY <1>3
    <3>2. s \subseteq IF segment_index' = segment_index THEN {} ELSE {segment_index + 1}
      BY <1>8, <1>10
    <3> TAKE j \in segment_index' + 1 .. Len(data)
    <3>3. j \in segment_index + 1 .. Len(data) /\ j \in 1 .. Len(data)
      BY <1>2, <3>1
    <3>4. ASSUME j \in s PROVE FALSE
      <4>1. segment_index' # segment_index /\ j = segment_index + 1
        BY <3>2, <3>4
      <4> QED
        BY <1>2, <3>1, <4>1
    <3> QED
      BY <1>4, <3>3, <3>4
  <2>3. InPlace'
    <3>1. CASE segment_index' < Len(data)
      <4>1. segment_index' + 1 \in segment_index' + 1 .. Len(data)
        BY <1>2, <1>3, <3>1
      <4>2. Len(data'[segment_index' + 1]) = Len(data[segment_index' + 1])
            /\ Len(data[segment_index' + 1]) \in Nat
        BY <1>2, <2>2, <4>1
      <4> QED
        BY <1>2, <1>3, <1>4, <3>1, <4>2 DEF InPlace
    <3>2. CASE ~(segment_index' < Len(data))
      BY <1>2, <1>3, <1>4, <3>2 DEF InPlace
    <3> QED
      BY <3>1, <3>2
  <2>4. PICK start \in [1 .. Len(data) + 1 -> 0 .. appended] : Unread(start)
    BY <2>1 DEF AsAppended
  <2>5. start[segment_index' + 1] + segment_subindex' = total_read + n
    <3>1. segment_index + 1 \in segment_index + 1 .. Len(data)
      BY <1>2
    <3>2. /\ start[segment_index + 1] + segment_subindex = total_read
          /\ start[(segment_index + 1) + 1] =
               start[segment_index + 1] + Len(data[segment_index + 1])
      BY <2>4, <3>1 DEF Unread
    <3>3. start[segment_index + 1] \in Nat /\ Len(data[segment_index + 1]) \in Nat
      <4>1. /\ appended \in Nat
            /\ segment_index + 1 \in 1 .. Len(data)
            /\ segment_index + 1 \in 1 .. Len(data) + 1
        BY <1>2 DEF PipeInv, TypeOK
      <4>2. start[segment_index + 1] \in 0 .. appended
        BY <2>4, <4>1
      <4> QED
        BY <1>2, <4>1, <4>2
    <3>4. CASE segment_index' = segment_index
      <4>1. segment_subindex' = segment_subindex + n
        BY <1>2, <1>3, <3>4
      <4>2. start[segment_index + 1] + (segment_subindex + n) =
              (start[segment_index + 1] + segment_subindex) + n
        BY <1>2, <3>3
      <4> QED
        BY <3>2, <3>4, <4>1, <4>2
    <3>5. CASE segment_index' # segment_index
      <4>1. /\ segment_index' = segment_index + 1 /\ segment_subindex' = 0
            /\ segment_subindex + n = Len(data[segment_index + 1])
        BY <1>3, <3>5
      <4>2. start[segment_index + 1] + (segment_subindex + n) + 0 =
              (start[segment_index + 1] + segment_subindex) + n
        BY <1>2, <3>3
      <4> QED
        BY <3>2, <4>1, <4>2
    <3> QED
      BY <3>4, <3>5
  <2>6. Unread(start)'
    BY <1>4, <1>5, <2>2, <2>4, <2>5 DEF Unread
  <2>7. AsAppended'
    BY <1>4, <1>5, <2>4, <2>6 DEF AsAppended
  <2>8. (delivered = UpTo(total_read))'
    <3> DEFINE copied == [k \in 1 .. n |-> total_read + k]
    <3>1. delivered' = UpTo(total_read) \o copied
      BY <1>1, <1>8, <1>10, <2>1, CopiedBytes
    <3>2. /\ copied \in Seq(Byte) /\ Len(copied) = n
          /\ \A k \in 1 .. Len(copied) : copied[k] = total_read + k
      <4>1. copied \in [1 .. n -> Byte]
        BY <1>2 DEF Byte
      <4>2. copied \in Seq(Byte) /\ Len(copied) = n
        BY <1>2, <4>1, SeqOfFunction
      <4> QED
        BY <4>2
    <3> HIDE DEF copied
    <3>3. UpTo(total_read) \o copied = UpTo(total_read + n)
      BY <1>2, <3>2, UpToConcat
    <3> QED
      BY <1>5, <3>1, <3>3
  <2> QED
    BY <2>3, <2>7, <2>8
<1> QED
  BY <1>5, <1>6, <1>7, <1>9, <1>10 DEF PipeInv

LEMMA StepPipe == PipeInv /\ [Next]_vars => PipeInv'
<1> SUFFICES ASSUME PipeInv, [Next]_vars PROVE PipeInv'
  OBVIOUS
<1> USE DEF ends, indices
<1>1. ASSUME NEW n \in Sizes, AppendData(n) PROVE PipeInv'
  BY <1>1, AppendPipe
<1>2. ASSUME UNCHANGED <<max_persistance, data, indices, appended, delivered>>,
             TypeOK', RoomToRead', max_persistance = 0 => poll' # "panic"
      PROVE  PipeInv'
  BY <1>2 DEF PipeInv, Ordered, Persists, InPlace, AsAppended, Unread
<1>3. CASE DropWriter
  <2>1. /\ UNCHANGED <<max_persistance, data, indices, appended, delivered>>
        /\ TypeOK' /\ RoomToRead' /\ (max_persistance = 0 => poll' # "panic")
    BY <1>3 DEF DropWriter, Idle, PipeInv, TypeOK, RoomToRead
  <2> QED
    BY <1>2, <2>1
<1>4. CASE DropReader
  <2>1. /\ UNCHANGED <<max_persistance, data, indices, appended, delivered>>
        /\ TypeOK' /\ RoomToRead' /\ (max_persistance = 0 => poll' # "panic")
    BY <1>4 DEF DropReader, Idle, PipeInv, TypeOK, RoomToRead
  <2> QED
    BY <1>2, <2>1
<1>5. ASSUME NEW n \in Sizes, PollRead(n) PROVE PipeInv'
  <2>1. n \in Nat
    BY SizesAssumption
  <2>2. /\ UNCHANGED <<max_persistance, data, indices, appended, delivered>>
        /\ TypeOK' /\ RoomToRead' /\ (max_persistance = 0 => poll' # "panic")
    BY <1>5, <2>1 DEF PollRead, PipeInv, TypeOK, RoomToRead
  <2> QED
    BY <1>2, <2>2
<1>6. CASE SkipSegment
  BY <1>6, SkipPipe
<1>7. CASE CopySegment
  BY <1>7, CopyPipe
<1>8. CASE NoMoreSegments
  <2>1. poll' \in {"ready", "eof", "pending"}
    BY <1>8 DEF NoMoreSegments, Exhausted
  <2>2. /\ UNCHANGED <<max_persistance, data, indices, appended, delivered>>
        /\ TypeOK' /\ RoomToRead' /\ (max_persistance = 0 => poll' # "panic")
    BY <1>8, <2>1 DEF NoMoreSegments, PipeInv, TypeOK, RoomToRead
  <2> QED
    BY <1>2, <2>2
<1>9. CASE Panic
  <2>1. segment_index < Len(data) /\ Left < 0
    BY <1>9 DEF Panic, InSegment
  <2>2. max_persistance # 0
    <3>1. SUFFICES ASSUME InPlace PROVE FALSE
      BY DEF PipeInv, Ordered
    <3>2. /\ Len(data) \in Nat /\ segment_index \in Nat /\ segment_subindex \in Nat
      BY SegmentTypes DEF PipeInv, TypeOK
    <3>3. Len(data[segment_index + 1]) \in Nat
      BY <2>1, <3>2, SegmentTypes DEF PipeInv
    <3> QED
      BY <2>1, <3>1, <3>2, <3>3 DEF InPlace, Left
  <2>3. /\ UNCHANGED <<max_persistance, data, indices, appended, delivered>>
        /\ TypeOK' /\ RoomToRead'
    BY <1>9 DEF Panic, PipeInv, TypeOK, RoomToRead
  <2> QED
    BY <1>2, <2>2, <2>3
<1>10. CASE FetchPanics
  <2>1. max_persistance # 0
    <3>1. total_read \in Nat /\ total_read < max_persistance
      BY <1>10, LenProperties DEF FetchPanics, Persists, PipeInv, TypeOK
    <3> QED
      BY <3>1
  <2>2. /\ UNCHANGED <<max_persistance, data, indices, appended, delivered>>
        /\ TypeOK' /\ RoomToRead'
    BY <1>10 DEF FetchPanics, PipeInv, TypeOK, RoomToRead
  <2> QED
    BY <1>2, <2>1, <2>2
<1>11. CASE UNCHANGED vars
  <2>1. /\ UNCHANGED <<max_persistance, data, indices, appended, delivered>>
        /\ TypeOK' /\ RoomToRead' /\ (max_persistance = 0 => poll' # "panic")
    BY <1>11 DEF vars, PipeInv, TypeOK, RoomToRead
  <2> QED
    BY <1>2, <2>1
<1> QED
  BY <1>1, <1>3, <1>4, <1>5, <1>6, <1>7, <1>8, <1>9, <1>10, <1>11 DEF Next

LEMMA PipeInvariant == Spec => []PipeInv
BY InitPipe, StepPipe, PTL DEF Spec

(***************************************************************************)
(* The theorems.                                                           *)
(***************************************************************************)
\* A pipe(0) is not asked for more than it holds: slicing a segment never panics,
\* and fetch_full_content has nothing to assert.
THEOREM NeverPanics == Spec => [](max_persistance = 0 => poll # "panic")
<1>1. PipeInv => (max_persistance = 0 => poll # "panic")
  BY DEF PipeInv
<1> QED
  BY <1>1, PipeInvariant, PTL

StreamNext == Stream!Send \/ Stream!Finish \/ Stream!Ask \/ Stream!Receive \/ Stream!Answer
UnchangedStream ==
  UNCHANGED <<AsMade(appended, 0), AsMade(delivered, <<>>), AsMade(writer, TRUE),
              AsMade(IF poll # "reading" THEN poll
                     ELSE IF written > 0 THEN "some" ELSE "none", "none")>>

\* When there is no segment left, everything that was appended was delivered.
LEMMA AllDelivered ==
  ASSUME PipeInv, max_persistance = 0, segment_index = Len(data)
  PROVE  Len(delivered) = appended
<1>1. InPlace /\ AsAppended /\ Len(data) \in Nat
  BY SegmentTypes DEF PipeInv, Ordered
<1>2. PICK start \in [1 .. Len(data) + 1 -> 0 .. appended] : Unread(start)
  BY <1>1 DEF AsAppended
<1>3. segment_subindex = 0 /\ total_read = Len(delivered)
  BY <1>1 DEF InPlace, PipeInv, TypeOK
<1>4. start[segment_index + 1] + 0 = total_read /\ start[segment_index + 1] = appended
  BY <1>2, <1>3 DEF Unread
<1> QED
  BY <1>3, <1>4 DEF PipeInv, TypeOK

\* A pipe that persists shows nothing in the mapping, and nothing changes its kind.
LEMMA PersistentIsHidden ==
  ASSUME max_persistance # 0, [Next]_vars
  PROVE  UnchangedStream
<1>1. max_persistance' = max_persistance
  BY DEF Next, vars, ends, AppendData, DropWriter, DropReader, PollRead, Panic,
         SkipSegment, CopySegment, NoMoreSegments, FetchPanics
<1> QED
  BY <1>1 DEF UnchangedStream, AsMade

LEMMA StreamStep ==
  ASSUME PipeInv, [Next]_vars, max_persistance = 0
  PROVE  StreamNext \/ UnchangedStream
<1> USE DEF StreamNext, UnchangedStream, AsMade, ends, indices
<1>1. ASSUME NEW n \in Sizes, AppendData(n) PROVE Stream!Send
  <2>1. n \in Nat /\ appended \in Nat
    BY SizesAssumption DEF PipeInv, TypeOK
  <2> QED
    BY <1>1, <2>1 DEF AppendData, Idle, Stream!Send
<1>2. CASE DropWriter
  BY <1>2 DEF DropWriter, Idle, Stream!Finish
<1>3. CASE DropReader
  BY <1>3 DEF DropReader
<1>4. ASSUME NEW n \in Sizes, PollRead(n) PROVE Stream!Ask
  BY <1>4 DEF PollRead, Stream!Ask
<1>5. CASE SkipSegment
  BY <1>5 DEF SkipSegment, InSegment
<1>6. CASE CopySegment
  <2>1. PICK n \in Byte : Copies(n)
    BY <1>6, CopyFacts
  <2>2. /\ delivered' = delivered \o [k \in 1 .. n |-> Len(delivered) + k]
        /\ n \in 1 .. appended - Len(delivered)
    <3>1. /\ delivered' = delivered \o [k \in 1 .. n |-> total_read + k]
          /\ total_read + n <= appended
      BY <2>1, CopiedBytes DEF Ordered
    <3>2. total_read = Len(delivered) /\ total_read \in Nat /\ appended \in Nat
      BY LenProperties DEF PipeInv, TypeOK
    <3>3. n \in 1 .. appended - Len(delivered)
      BY <3>1, <3>2 DEF Byte
    <3> QED
      BY <3>1, <3>2, <3>3
  <2>3. /\ poll = "reading" /\ poll' \in {"ready", "reading"}
        /\ written' > 0
        /\ UNCHANGED <<ends, appended>>
    <3>1. written \in Nat /\ n \in Nat \ {0}
      BY DEF PipeInv, TypeOK, Byte
    <3>2. total_read \in Nat
      BY LenProperties DEF PipeInv, TypeOK
    <3> QED
      BY <2>1, <3>1, <3>2 DEF Copies
  <2>4. Stream!Receive
    BY <2>2, <2>3 DEF Stream!Receive
  <2> QED
    BY <2>4
<1>7. CASE NoMoreSegments
  <2>1. /\ poll = "reading" /\ segment_index = Len(data) /\ poll' = Exhausted
        /\ UNCHANGED <<ends, written, appended, delivered>>
    BY <1>7 DEF NoMoreSegments
  <2>2. Len(delivered) = appended
    BY <2>1, AllDelivered
  <2>3. writer \in BOOLEAN
    BY DEF PipeInv, TypeOK
  <2> QED
    BY <2>1, <2>2, <2>3 DEF Exhausted, Stream!Answer
<1>8. ~Panic /\ ~FetchPanics
  <2> SUFFICES ASSUME Panic \/ FetchPanics PROVE FALSE
    OBVIOUS
  <2>1. PipeInv' /\ max_persistance' = 0 /\ poll' = "panic"
    BY StepPipe DEF Panic, FetchPanics
  <2> QED
    BY <2>1 DEF PipeInv
<1>9. CASE UNCHANGED vars
  BY <1>9 DEF vars
<1> QED
  BY <1>1, <1>2, <1>3, <1>4, <1>5, <1>6, <1>7, <1>8, <1>9 DEF Next

\* The parser is given the bytes that were appended, each once and in order; it waits
\* only when it has them all, and the end comes only after that and after the writer
\* is gone.
THEOREM StreamHolds == Spec => StreamSpec
<1>1. Init => Stream!StreamInit
  BY DEF Init, AsMade, Stream!StreamInit
<1>2. PipeInv /\ [Next]_vars => [StreamNext]_Stream!svars
  BY StreamStep, PersistentIsHidden DEF Stream!svars, UnchangedStream
<1> QED
  BY <1>1, <1>2, PipeInvariant, PTL DEF Spec, StreamSpec, Stream!StreamSpec, StreamNext
(***************************************************************************)
(* What fetch_full_content returns.                                        *)
(***************************************************************************)
\* start[j] is the number of the bytes in the segments before segment j of s, which holds
\* the ones that follow them.
Numbered(s, start) ==
  /\ start[1] = 0
  /\ \A j \in 1 .. Len(s) :
       /\ start[j + 1] = start[j] + Len(s[j])
       /\ \A k \in 1 .. Len(s[j]) : s[j][k] = start[j] + k

LEMMA FlattenNumbered ==
  ASSUME NEW s \in Seq(Seq(Byte)), NEW start \in [1 .. Len(s) + 1 -> Nat],
         Numbered(s, start)
  PROVE  FlattenSeq(s) = UpTo(start[Len(s) + 1])
<1>1. /\ Len(s) \in Nat /\ s \in [1 .. Len(s) -> Seq(Byte)]
      /\ \A j \in 1 .. Len(s) : s[j] \in Seq(Byte) /\ Len(s[j]) \in Nat
  <2>1. Len(s) \in Nat /\ s \in [1 .. Len(s) -> Seq(Byte)]
    BY LenProperties
  <2> QED
    BY <2>1, LenProperties
<1>2. ASSUME NEW j \in 1 .. Len(s)
      PROVE  UpTo(start[j]) \o s[j] = UpTo(start[j + 1]) /\ (j = 1 => s[j] = UpTo(start[j + 1]))
  <2>1. start[j] \in Nat /\ start[j + 1] = start[j] + Len(s[j])
        /\ \A k \in 1 .. Len(s[j]) : s[j][k] = start[j] + k
    <3>1. j \in 1 .. Len(s) + 1
      BY <1>1
    <3> QED
      BY <3>1 DEF Numbered
  <2>2. UpTo(start[j]) \o s[j] = UpTo(start[j + 1])
    BY <1>1, <2>1, UpToConcat
  <2>3. ASSUME j = 1 PROVE s[j] = UpTo(start[j + 1])
    <3>1. start[j] = 0
      BY <2>3 DEF Numbered
    <3>2. UpTo(start[j + 1]) \in Seq(Byte) /\ Len(UpTo(start[j + 1])) = Len(s[j])
          /\ \A k \in 1 .. Len(s[j]) : s[j][k] = k
      <4>1. start[j + 1] = Len(s[j]) /\ \A k \in 1 .. Len(s[j]) : s[j][k] = k
        BY <1>1, <2>1, <3>1
      <4>2. UpTo(start[j + 1]) \in [1 .. start[j + 1] -> Byte] /\ start[j + 1] \in Nat
        BY <1>1, <4>1 DEF UpTo, Byte
      <4>3. UpTo(start[j + 1]) \in Seq(Byte) /\ Len(UpTo(start[j + 1])) = start[j + 1]
        <5> DEFINE t == UpTo(start[j + 1])
                   n == start[j + 1]
        <5>1. t \in [1 .. n -> Byte] /\ n \in Nat
          BY <4>2
        <5> HIDE DEF t, n
        <5>2. t \in Seq(Byte) /\ Len(t) = n
          BY <5>1, SeqOfFunction
        <5> QED
          BY <5>2 DEF t, n
      <4> QED
        BY <4>1, <4>3
    <3>3. \A k \in 1 .. Len(s[j]) : UpTo(start[j + 1])[k] = s[j][k]
      BY <1>1, <2>1, <3>1, <3>2 DEF UpTo
    <3> QED
      BY <1>1, <3>2, <3>3, SeqEqual
  <2> QED
    BY <2>2, <2>3
<1> DEFINE whole == [i \in 1 .. Len(s) |-> UpTo(start[i + 1])]
<1>3. Flattens(s, whole)
  <2>1. ASSUME NEW i \in 1 .. Len(s)
        PROVE  whole[i] = IF i = 1 THEN s[i] ELSE whole[i - 1] \o s[i]
    <3>1. CASE i = 1
      BY <1>2, <3>1
    <3>2. CASE i # 1
      <4>1. i - 1 \in 1 .. Len(s) /\ (i - 1) + 1 = i
        BY <1>1, <3>2
      <4>2. whole[i - 1] = UpTo(start[i])
        BY <4>1
      <4> QED
        BY <1>2, <3>2, <4>2
    <3> QED
      BY <3>1, <3>2
  <2> QED
    BY <2>1 DEF Flattens
<1>4. ASSUME NEW f, Flattens(s, f) PROVE f = whole
  <2> DEFINE T == {i \in 1 .. Len(s) : f[i] # whole[i]}
  <2>1. ASSUME T # {} PROVE FALSE
    <3>1. PICK x \in T : \A y \in T : x <= y
      <4>1. T \in SUBSET Nat
        BY <1>1
      <4> HIDE DEF T
      <4> QED
        BY <2>1, <4>1, LeastNatural
    <3>2. x \in 1 .. Len(s) /\ f[x] # whole[x]
      OBVIOUS
    <3>3. x = 1 \/ (x - 1 \in 1 .. Len(s) /\ ~(x <= x - 1))
      BY <1>1, <3>2
    <3>4. x = 1 \/ f[x - 1] = whole[x - 1]
      BY <3>1, <3>3
    <3>5. f[x] = IF x = 1 THEN s[x] ELSE f[x - 1] \o s[x]
      BY <1>4, <3>2 DEF Flattens
    <3>6. whole[x] = IF x = 1 THEN s[x] ELSE whole[x - 1] \o s[x]
      <4> HIDE DEF whole
      <4> QED
        BY <1>3, <3>2 DEF Flattens
    <3> HIDE DEF whole, T
    <3> QED
      BY <3>2, <3>4, <3>5, <3>6
  <2>2. \A i \in 1 .. Len(s) : f[i] = whole[i]
    BY <2>1
  <2>3. f = [i \in 1 .. Len(s) |-> f[i]]
    <3>1. f = [i \in 1 .. Len(s) |-> IF i = 1 THEN s[i] ELSE f[i - 1] \o s[i]]
      BY <1>4 DEF Flattens
    <3> QED
      BY <3>1
  <2>4. whole = [i \in 1 .. Len(s) |-> whole[i]]
    OBVIOUS
  <2> HIDE DEF whole
  <2> QED
    BY <2>2, <2>3, <2>4
<1>5. CASE Len(s) = 0
  <2>1. s = << >> /\ UpTo(start[Len(s) + 1]) = << >>
    <3>1. s = << >>
      BY <1>5, EmptySeq
    <3>2. start[Len(s) + 1] = 0
      BY <1>5 DEF Numbered
    <3>3. UpTo(0) \in Seq(Byte) /\ Len(UpTo(0)) = 0
      <4>1. UpTo(0) \in [1 .. 0 -> Byte]
        BY DEF UpTo
      <4> QED
        BY <4>1, SeqOfFunction
    <3>4. UpTo(0) = << >>
      BY <3>3, EmptySeq
    <3> QED
      BY <3>1, <3>2, <3>4
  <2> QED
    BY <1>5, <2>1 DEF FlattenSeq
<1>6. CASE Len(s) # 0
  <2>1. FlattenSeq(s) = (CHOOSE f : Flattens(s, f))[Len(s)]
    BY <1>6 DEF FlattenSeq, Flattens
  <2>2. (CHOOSE f : Flattens(s, f)) = whole
    <3> HIDE DEF whole
    <3> QED
      BY <1>3, <1>4
  <2>3. Len(s) \in 1 .. Len(s)
    BY <1>1, <1>6
  <2> QED
    BY <2>1, <2>2, <2>3
<1> QED
  BY <1>5, <1>6

\* While less than max_persistance bytes were read, every segment is as it was appended.
Kept == \E start \in [1 .. Len(data) + 1 -> Nat] :
          Numbered(data, start) /\ start[Len(data) + 1] = appended

KeptInv == total_read < max_persistance => Kept

LEMMA AppendKept ==
  ASSUME PipeInv, Kept, NEW n \in Sizes, AppendData(n)
  PROVE  Kept'
<1> DEFINE segment == [k \in 1 .. n |-> appended + k]
<1>1. /\ n \in Nat /\ appended \in Nat /\ appended' = appended + n
      /\ data' = Append(data, segment)
  BY SizesAssumption DEF AppendData, PipeInv, TypeOK
<1>2. data \in Seq(Seq(Byte)) /\ Len(data) \in Nat
  BY SegmentTypes DEF PipeInv
<1>3. /\ segment \in Seq(Byte) /\ Len(segment) = n
      /\ \A k \in 1 .. n : segment[k] = appended + k
  <2>1. segment \in [1 .. n -> Byte]
    BY <1>1 DEF Byte
  <2> QED
    BY <1>1, <2>1, SeqOfFunction
<1> HIDE DEF segment
<1>4. /\ Len(data') = Len(data) + 1
      /\ \A j \in 1 .. Len(data) : data'[j] = data[j]
      /\ data'[Len(data) + 1] = segment
  BY <1>1, <1>2, <1>3, AppendProperties
<1>5. PICK old \in [1 .. Len(data) + 1 -> Nat] :
        Numbered(data, old) /\ old[Len(data) + 1] = appended
  BY DEF Kept
<1> DEFINE new == [j \in 1 .. Len(data) + 2 |->
                     IF j <= Len(data) + 1 THEN old[j] ELSE appended + n]
<1>6. new \in [1 .. Len(data) + 2 -> Nat]
  BY <1>1, <1>2
<1>7. /\ \A j \in 1 .. Len(data) + 1 : new[j] = old[j]
      /\ new[(Len(data) + 1) + 1] = appended + n
  BY <1>2
<1> HIDE DEF new
<1>8. ASSUME NEW j \in 1 .. Len(data) + 1
      PROVE  /\ new[j + 1] = new[j] + Len(data'[j])
             /\ \A k \in 1 .. Len(data'[j]) : data'[j][k] = new[j] + k
  <2>1. CASE j \in 1 .. Len(data)
    <3>1. j + 1 \in 1 .. Len(data) + 1 /\ data'[j] = data[j]
      BY <1>2, <1>4, <2>1
    <3> QED
      BY <1>5, <1>7, <2>1, <3>1 DEF Numbered
  <2>2. CASE j = Len(data) + 1
    BY <1>3, <1>4, <1>5, <1>7, <2>2
  <2> QED
    BY <1>2, <2>1, <2>2
<1>9. new[1] = 0
  BY <1>2, <1>5, <1>7 DEF Numbered
<1>10. /\ Numbered(data', new) /\ new[Len(data') + 1] = appended'
       /\ new \in [1 .. Len(data') + 1 -> Nat]
  <2>1. (Len(data) + 1) + 1 = Len(data) + 2
    BY <1>2
  <2> QED
    BY <1>1, <1>4, <1>6, <1>7, <1>8, <1>9, <2>1 DEF Numbered
<1> QED
  BY <1>10 DEF Kept

LEMMA StepKept == PipeInv /\ KeptInv /\ [Next]_vars => KeptInv'
<1> SUFFICES ASSUME PipeInv, KeptInv, [Next]_vars, (total_read < max_persistance)'
             PROVE  Kept'
  BY DEF KeptInv
<1>1. total_read \in Nat /\ max_persistance \in Nat
  BY LenProperties, SizesAssumption DEF PipeInv, TypeOK
<1>2. ASSUME UNCHANGED <<total_read, max_persistance, data, appended>> PROVE Kept'
  BY <1>2 DEF KeptInv, Kept
<1>3. ASSUME NEW n \in Sizes, AppendData(n) PROVE Kept'
  <2>1. UNCHANGED <<total_read, max_persistance>>
    BY <1>3 DEF AppendData, ends, indices
  <2> QED
    BY <1>3, <2>1, AppendKept DEF KeptInv
<1>4. Cleared({}) = data
  <2>1. data = [j \in DOMAIN data |-> data[j]]
    BY SegmentTypes, LenProperties DEF PipeInv
  <2> QED
    BY <2>1 DEF Cleared
<1>5. CASE SkipSegment
  <2>1. UNCHANGED <<total_read, max_persistance, appended>>
    BY <1>5 DEF SkipSegment, ends
  <2>2. ReadSegment(0) = {}
    BY <1>1, <2>1 DEF ReadSegment
  <2>3. data' = data
    BY <1>4, <1>5, <2>2 DEF SkipSegment
  <2> QED
    BY <1>2, <2>1, <2>3
<1>6. CASE CopySegment
  <2>1. PICK n \in Byte : Copies(n)
    BY <1>6, CopyFacts
  <2>2. n \in Nat /\ total_read' = total_read + n /\ UNCHANGED <<max_persistance, appended>>
    BY <2>1 DEF Copies, ends, Byte
  <2>3. /\ ReadSegment(n) = {}
        /\ \A m : OldSegments(m, n) = {}
    BY <1>1, <2>2 DEF ReadSegment, OldSegments
  <2>4. data' = Cleared({})
    BY <2>1, <2>3 DEF Copies
  <2>5. total_read < max_persistance
    BY <1>1, <2>2
  <2> QED
    BY <1>4, <2>2, <2>4, <2>5 DEF KeptInv, Kept
<1>7. CASE DropWriter \/ DropReader \/ (\E n \in Sizes : PollRead(n)) \/ NoMoreSegments
         \/ Panic \/ FetchPanics
  BY <1>2, <1>7 DEF DropWriter, DropReader, PollRead, NoMoreSegments, Panic, FetchPanics,
                    ends, indices
<1>8. CASE UNCHANGED vars
  BY <1>2, <1>8 DEF vars, ends, indices
<1> QED
  BY <1>3, <1>5, <1>6, <1>7, <1>8 DEF Next

\* Until max_persistance bytes were read, fetch_full_content returns what the reader was
\* given when that is all that was appended, and never anything else.
THEOREM FetchedIsReadHolds == Spec => []FetchedIsRead
<1>1. Init => KeptInv
  <2> SUFFICES ASSUME Init PROVE Kept
    BY DEF KeptInv
  <2> DEFINE start == [j \in 1 .. 1 |-> 0]
  <2>1. data = <<>> /\ Len(<<>>) = 0 /\ appended = 0
    BY EmptySeq DEF Init
  <2>2. start \in [1 .. Len(data) + 1 -> Nat] /\ Numbered(data, start)
        /\ start[Len(data) + 1] = appended
    BY <2>1 DEF Numbered
  <2> QED
    BY <2>2 DEF Kept
<1>2. PipeInv /\ KeptInv => FetchedIsRead
  <2> SUFFICES ASSUME PipeInv, Kept, Persists,
                      total_read = appended \/ Len(Content) = total_read
               PROVE  Content = delivered
    BY DEF KeptInv, FetchedIsRead, Persists
  <2>1. PICK start \in [1 .. Len(data) + 1 -> Nat] :
          Numbered(data, start) /\ start[Len(data) + 1] = appended
    BY DEF Kept
  <2>2. data \in Seq(Seq(Byte))
    BY SegmentTypes DEF PipeInv
  <2>3. Content = UpTo(appended)
    BY <2>1, <2>2, FlattenNumbered DEF Content
  <2>4. Len(UpTo(appended)) = appended
    <3>1. appended \in Nat
      BY DEF PipeInv, TypeOK
    <3>2. UpTo(appended) \in [1 .. appended -> Byte]
      BY <3>1 DEF UpTo, Byte
    <3> QED
      BY <3>1, <3>2, SeqOfFunction
  <2>5. total_read = appended
    BY <2>3, <2>4
  <2>6. delivered = UpTo(total_read)
    BY DEF PipeInv, Ordered
  <2> QED
    BY <2>3, <2>5, <2>6
<1> QED
  BY <1>1, <1>2, StepKept, PipeInvariant, PTL DEF Spec

=============================================================================
