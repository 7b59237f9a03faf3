-------------------------- MODULE ResponsePathProofs --------------------------
(***************************************************************************)
(* Proofs about ResponsePath: an exchange is reported once, no task is     *)
(* left behind and no chunk without its writer, for bodies, chunks and     *)
(* policies of any number.                                                 *)
(***************************************************************************)
EXTENDS ResponsePath, SequenceTheorems, TLAPS

\* Until the first chunk that is scanned, nothing has happened: `data` is what
\* on_http_response_body takes when it starts the task.
Untouched ==
  data => /\ response_read_task = None /\ uploaded = <<>>
          /\ appended = 0 /\ consumed = 0

\* A task is only started for a body with a configuration, and after the headers,
\* which nothing changes any more.
StartedIsScannable == ~data => Scannable /\ phase # "request"

\* The report is the last thing that a task does.
ReportedIsDone == uploaded # <<>> => response_read_task = None

PathInv ==
  /\ TypeOK
  /\ Untouched
  /\ StartedIsScannable
  /\ ReportedIsDone
  /\ NothingLeftBehind
  /\ EndedIsFinished
  /\ WholeBodyReported
  /\ ReportedOnce
  /\ ChunkFindsWriter

(***************************************************************************)
(* A poll of the task.                                                     *)
(***************************************************************************)
\* A poll consumes what there is, or stops in the middle of a JSON body; an HTML task
\* is done exactly when the writer is gone, and any task is done then.
LEMMA OutcomeFacts ==
  ASSUME NEW size \in Nat, NEW open \in BOOLEAN, consumed \in 0 .. size,
         NEW o \in PollOutcomes(size, open)
  PROVE  /\ o.consumed \in consumed .. size
         /\ o.result = "pending" => open /\ o.consumed = size
         /\ content_type = "html" /\ o.result = "some" => ~open /\ o.consumed = size
<1>1. CASE o = [consumed |-> size, result |-> IF open THEN "pending" ELSE "some"]
  BY <1>1
<1>2. CASE content_type = "json" /\ o \in [consumed : consumed .. size,
                                           result : {"some", "none"}]
  BY <1>2
<1> QED
  BY <1>1, <1>2 DEF PollOutcomes

\* What a poll of a task that has reported nothing yet leaves: either it waits, with
\* its policy and with the whole pipe read, or it is done and has reported at most
\* once.
LEMMA PollFacts ==
  ASSUME TypeOK, NEW task \in 0 .. policy, NEW size \in 0 .. MaxBody, NEW open \in BOOLEAN,
         Scannable, uploaded = <<>>, consumed \in 0 .. size, Poll(task, size, open)
  PROVE  /\ consumed' \in 0 .. size
         /\ uploaded' \in Seq(Upload)
         /\ \/ /\ response_read_task' = TaskPolicy(task)
               /\ uploaded' = <<>> /\ open /\ consumed' = size
            \/ /\ response_read_task' = None
               /\ Len(uploaded') <= 1
               /\ content_type = "html" /\ uploaded' # <<>> =>
                    ~open /\ uploaded'[1].body_size = size
<1> DEFINE report(o) == [policy |-> TaskPolicy(task), path_policy |-> path_policy,
                         body_size |-> o.consumed]
<1>1. PICK o \in PollOutcomes(size, open) :
        /\ consumed' = o.consumed
        /\ response_read_task' = IF o.result = "pending" THEN TaskPolicy(task) ELSE None
        /\ uploaded' = IF o.result = "some" /\ upstream
                       THEN Append(uploaded, report(o)) ELSE uploaded
  BY DEF Poll
<1>2. /\ size \in Nat
      /\ o.consumed \in consumed .. size
      /\ o.result = "pending" => open /\ o.consumed = size
      /\ content_type = "html" /\ o.result = "some" => ~open /\ o.consumed = size
  BY OutcomeFacts, BoundAssumption DEF TypeOK
<1>3. report(o) \in Upload
  <2>1. /\ TaskPolicy(task) \in 1 .. MaxPolicies
        /\ path_policy \in 1 .. MaxPolicies
        /\ o.consumed \in 0 .. MaxBody
    BY <1>2, BoundAssumption DEF TypeOK, Scannable, TaskPolicy
  <2> QED
    BY <2>1 DEF Upload
<1>4. /\ <<>> \in Seq(Upload)
      /\ Append(<<>>, report(o)) \in Seq(Upload)
      /\ Len(Append(<<>>, report(o))) = 1
      /\ Append(<<>>, report(o))[1] = report(o)
  BY <1>3, AppendProperties, EmptySeq
<1>5. Len(<<>>) = 0
  OBVIOUS
<1> QED
  BY <1>1, <1>2, <1>4, <1>5

(***************************************************************************)
(* A chunk that is scanned.                                                *)
(***************************************************************************)
\* What every outcome of a scanned chunk has in common.
LEMMA ScanStart ==
  ASSUME PathInv, NEW size \in 0 .. MaxChunk, NEW end_of_stream \in BOOLEAN,
         ScanBody(size, end_of_stream)
  PROVE  /\ Task \in 0 .. policy
         /\ ~data => Task = response_read_task
         /\ Scannable /\ uploaded = <<>>
         /\ phase' = IF end_of_stream THEN "ended" ELSE "response"
         /\ data' = FALSE
         /\ ~finish_failed => consumed = appended
BY DEF PathInv, TypeOK, Untouched, StartedIsScannable, ReportedIsDone,
       NothingLeftBehind, ScanBody, Task, DataTaken

\* A chunk that is decoded and fed to the task.
LEMMA FeedFacts ==
  ASSUME PathInv, NEW size \in 0 .. MaxChunk, NEW end_of_stream \in BOOLEAN,
         ScanBody(size, end_of_stream), Feed(size, end_of_stream)
  PROVE  /\ appended' \in 0 .. MaxBody
         /\ consumed' \in 0 .. appended'
         /\ uploaded' \in Seq(Upload)
         /\ \/ /\ response_read_task' \in {Task, TaskPolicy(Task)}
               /\ uploaded' = <<>> /\ ~end_of_stream
               /\ ~finish_failed => consumed' = appended'
            \/ /\ response_read_task' = None
               /\ Len(uploaded') <= 1
               /\ content_type = "html" /\ uploaded' # <<>> =>
                    end_of_stream /\ uploaded'[1].body_size = appended'
<1>1. /\ Task \in 0 .. policy /\ Scannable /\ uploaded = <<>>
      /\ ~finish_failed => consumed = appended
  BY ScanStart
<1>2. PICK n \in DecodedLengths(size), m \in FinalLengths(end_of_stream) :
        appended' = appended + n + m
  BY DEF Feed
<1>3. /\ n \in Nat /\ m \in Nat
      /\ size = 0 => n = 0
      /\ ~end_of_stream => m = 0
  BY BoundAssumption DEF DecodedLengths, FinalLengths
<1>4. appended' \in 0 .. MaxBody /\ consumed \in 0 .. appended'
  BY <1>2, <1>3, BoundAssumption DEF Feed, PathInv, TypeOK
<1>5. CASE Polled(size, end_of_stream)
  <2>1. Poll(Task, appended', ~end_of_stream)
    BY <1>5 DEF Feed, WriterAtPoll
  <2>2. (~end_of_stream) \in BOOLEAN
    OBVIOUS
  <2>3. TypeOK
    BY DEF PathInv
  <2>4. /\ consumed' \in 0 .. appended'
        /\ uploaded' \in Seq(Upload)
        /\ \/ /\ response_read_task' = TaskPolicy(Task)
              /\ uploaded' = <<>> /\ ~end_of_stream /\ consumed' = appended'
           \/ /\ response_read_task' = None
              /\ Len(uploaded') <= 1
              /\ content_type = "html" /\ uploaded' # <<>> =>
                   ~~end_of_stream /\ uploaded'[1].body_size = appended'
    BY ONLY <1>1, <1>4, <2>1, <2>2, <2>3, PollFacts
  <2> QED
    BY <1>4, <2>4
<1>6. CASE ~Polled(size, end_of_stream)
  <2>1. appended' = appended
    BY <1>2, <1>3, <1>6 DEF Polled, PathInv, TypeOK
  <2> QED
    BY <1>1, <1>4, <1>6, <2>1 DEF Feed, Polled, PathInv, TypeOK
<1> QED
  BY <1>5, <1>6

(***************************************************************************)
(* The invariant.                                                          *)
(***************************************************************************)
LEMMA InitPath == Init => PathInv
<1> SUFFICES ASSUME Init PROVE PathInv
  OBVIOUS
<1>1. TypeOK
  <2>1. <<>> \in Seq(Upload)
    BY EmptySeq
  <2>2. 0 \in 0 .. MaxPolicies /\ 0 \in 0 .. MaxBody /\ 0 \in 0 .. 0
    BY BoundAssumption
  <2> QED
    BY <2>1, <2>2 DEF Init, TypeOK, ContentTypes, ContentEncodings
<1>2. Len(<<>>) = 0
  OBVIOUS
<1> QED
  BY <1>1, <1>2
     DEF Init, PathInv, Untouched, StartedIsScannable, ReportedIsDone,
         NothingLeftBehind, EndedIsFinished, WholeBodyReported, ReportedOnce,
         ChunkFindsWriter

LEMMA ScanPath ==
  ASSUME PathInv, NEW size \in 0 .. MaxChunk, NEW end_of_stream \in BOOLEAN,
         ScanBody(size, end_of_stream)
  PROVE  PathInv'
<1>1. /\ Task \in 0 .. policy
      /\ Scannable /\ uploaded = <<>>
      /\ phase' = IF end_of_stream THEN "ended" ELSE "response"
      /\ data' = FALSE
      /\ ~finish_failed => consumed = appended
  BY ScanStart
<1>2. UNCHANGED <<statics, headers>>
  BY DEF ScanBody
<1>3. StartedIsScannable' /\ Untouched'
  BY <1>1, <1>2 DEF StartedIsScannable, Untouched, Scannable, headers
<1>4. TaskPolicy(Task) \in 0 .. policy
  BY <1>1 DEF TaskPolicy, PathInv, TypeOK
<1>5. Len(<<>>) = 0
  OBVIOUS
<1>9. ~end_of_stream => phase = "response" /\ (data \/ response_read_task # None)
  BY DEF ScanBody
<1>6. CASE DecodeFails(size, end_of_stream)
  <2>1. TypeOK'
    BY <1>1, <1>2, <1>6 DEF DecodeFails, PathInv, TypeOK, statics, headers
  <2>2. /\ decode_failed' /\ uploaded' = <<>>
        /\ UNCHANGED <<consumed, appended, finish_failed>>
        /\ response_writer' = (data \/ response_writer)
    BY <1>1, <1>6 DEF DecodeFails
  <2> QED
    BY <1>1, <1>9, <1>3, <1>5, <2>1, <2>2
       DEF PathInv, ReportedIsDone, NothingLeftBehind, EndedIsFinished,
           WholeBodyReported, ReportedOnce, ChunkFindsWriter
<1>7. CASE FinishFails(size, end_of_stream)
  <2>1. /\ appended' \in Nat
        /\ appended <= appended'
    <3>1. PICK n \in DecodedLengths(size) : appended' = appended + n
      BY <1>7 DEF FinishFails
    <3>2. n \in Nat
      BY BoundAssumption DEF DecodedLengths
    <3> QED
      BY <3>1, <3>2, BoundAssumption DEF PathInv, TypeOK
  <2>2. TypeOK'
    <3>1. response_writer' \in BOOLEAN
      BY <1>7 DEF FinishFails
    <3>2. appended' \in 0 .. MaxBody /\ consumed' \in 0 .. appended'
      BY <1>7, <2>1, BoundAssumption DEF FinishFails, PathInv, TypeOK
    <3> QED
      BY <1>1, <1>2, <1>7, <3>1, <3>2
         DEF FinishFails, PathInv, TypeOK, statics, headers
  <2>3. finish_failed' /\ uploaded' = <<>> /\ phase' = "ended"
    BY <1>1, <1>7 DEF FinishFails
  <2> QED
    BY <1>3, <1>5, <2>2, <2>3
       DEF PathInv, ReportedIsDone, NothingLeftBehind, EndedIsFinished,
           WholeBodyReported, ReportedOnce, ChunkFindsWriter
<1>8. CASE Feed(size, end_of_stream)
  <2>1. UNCHANGED failures
    BY <1>8 DEF Feed
  <2>2. /\ appended' \in 0 .. MaxBody
        /\ consumed' \in 0 .. appended'
        /\ uploaded' \in Seq(Upload)
        /\ \/ /\ response_read_task' \in {Task, TaskPolicy(Task)}
              /\ uploaded' = <<>> /\ ~end_of_stream
              /\ ~finish_failed => consumed' = appended'
           \/ /\ response_read_task' = None
              /\ Len(uploaded') <= 1
              /\ content_type = "html" /\ uploaded' # <<>> =>
                   end_of_stream /\ uploaded'[1].body_size = appended'
    BY <1>8, FeedFacts
  <2>3. response_writer' = ~end_of_stream
    BY <1>8 DEF Feed, WriterAtPoll
  <2>4. TypeOK'
    BY <1>1, <1>2, <1>4, <2>1, <2>2, <2>3
       DEF PathInv, TypeOK, statics, headers, failures
  <2>5. NothingLeftBehind' /\ EndedIsFinished'
    BY <1>1, <2>1, <2>2 DEF NothingLeftBehind, EndedIsFinished, failures
  <2>6. WholeBodyReported' /\ ReportedOnce' /\ ReportedIsDone'
    BY <1>1, <1>2, <1>5, <2>2
       DEF WholeBodyReported, ReportedOnce, ReportedIsDone, headers
  <2>7. ChunkFindsWriter'
    BY <1>1, <2>3 DEF ChunkFindsWriter
  <2> QED
    BY <1>3, <2>4, <2>5, <2>6, <2>7 DEF PathInv
<1> QED
  BY <1>6, <1>7, <1>8 DEF ScanBody

LEMMA StepPath == PathInv /\ [Next]_vars => PathInv'
<1> SUFFICES ASSUME PathInv, [Next]_vars PROVE PathInv'
  OBVIOUS
<1> USE DEF PathInv, Untouched, StartedIsScannable, Scannable, ReportedIsDone,
            NothingLeftBehind, EndedIsFinished, WholeBodyReported, ReportedOnce,
            ChunkFindsWriter
<1>1. CASE UpdatePolicy
  BY <1>1, BoundAssumption DEF UpdatePolicy, TypeOK, headers, pipe, failures
<1>2. CASE UpdateUpstream
  BY <1>2 DEF UpdateUpstream, TypeOK, headers, pipe, failures
<1>3. CASE OnHttpRequestHeaders
  BY <1>3 DEF OnHttpRequestHeaders, TypeOK, statics, pipe, failures
<1>4. CASE OnHttpResponseHeaders
  BY <1>4 DEF OnHttpResponseHeaders, TypeOK, statics, pipe, failures
<1>5. ASSUME NEW end_of_stream \in BOOLEAN, SkipBody(end_of_stream) PROVE PathInv'
  BY <1>5 DEF SkipBody, TypeOK, statics, headers, pipe, failures
<1>6. ASSUME NEW size \in 0 .. MaxChunk, NEW end_of_stream \in BOOLEAN,
             ScanBody(size, end_of_stream)
      PROVE  PathInv'
  BY <1>6, ScanPath
<1>7. CASE EndWithoutLastChunk
  BY <1>7 DEF EndWithoutLastChunk, TypeOK, statics, headers, pipe, failures
<1>8. CASE UNCHANGED vars
  BY <1>8 DEF vars, TypeOK, statics, headers, pipe, failures
<1> QED
  BY <1>1, <1>2, <1>3, <1>4, <1>5, <1>6, <1>7, <1>8 DEF Next

LEMMA PathInvariant == Spec => []PathInv
BY InitPath, StepPath, PTL DEF Spec

(***************************************************************************)
(* The theorems.                                                           *)
(***************************************************************************)
\* A task that is left waiting has read the whole pipe: nothing but the next chunk
\* will wake it.
THEOREM NothingLeftBehindHolds == Spec => []NothingLeftBehind
<1>1. PathInv => NothingLeftBehind
  BY DEF PathInv
<1> QED
  BY <1>1, PathInvariant, PTL

\* After the last chunk of a body of which every chunk was had and decompressed no task
\* is left.
THEOREM EndedIsFinishedHolds == Spec => []EndedIsFinished
<1>1. PathInv => EndedIsFinished
  BY DEF PathInv
<1> QED
  BY <1>1, PathInvariant, PTL

\* The report on an HTML body comes with its last chunk and covers all that was appended.
THEOREM WholeBodyReportedHolds == Spec => []WholeBodyReported
<1>1. PathInv => WholeBodyReported
  BY DEF PathInv
<1> QED
  BY <1>1, PathInvariant, PTL

\* An exchange is reported at most once.
THEOREM ReportedOnceHolds == Spec => []ReportedOnce
<1>1. PathInv => ReportedOnce
  BY DEF PathInv
<1> QED
  BY <1>1, PathInvariant, PTL

\* A chunk that a task waits for finds its writer.
THEOREM ChunkFindsWriterHolds == Spec => []ChunkFindsWriter
<1>1. PathInv => ChunkFindsWriter
  BY DEF PathInv
<1> QED
  BY <1>1, PathInvariant, PTL
=============================================================================
