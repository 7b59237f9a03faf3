------------------------------ MODULE ResponsePath ------------------------------
(***************************************************************************)
(* One HTTP exchange in a filter VM (leaksignal/src/http_response.rs): the *)
(* context picks the configuration of the path when the request headers    *)
(* arrive, starts a task with the first chunk of the body, feeds it        *)
(* through a pipe and reports what it found when the task is done.  The    *)
(* VM's policy and upstream are statics that the control plane replaces    *)
(* between any two callbacks.                                              *)
(*                                                                         *)
(* Nothing ever wakes the task (DummyWaker): it runs only when a callback  *)
(* polls it.  The pipe is the one ByteStream describes: the task gets all  *)
(* that was appended, and the end once the writer is dropped.              *)
(***************************************************************************)
EXTENDS Integers, Sequences

CONSTANTS
  MaxPolicies,   \* bound on the policies the VM is given
  MaxChunk,      \* bound on the bytes that one chunk decodes to
  MaxBody        \* bound on the bytes of a body

ASSUME BoundAssumption == MaxPolicies \in Nat /\ MaxChunk \in Nat /\ MaxBody \in Nat

VARIABLES
  policy,             \* POLICY, by number; 0 is None
  upstream,           \* whether LEAKSIGNAL_UPSTREAM is Some
  \* HttpResponseContext
  data,               \* whether `data` is still there
  path_policy,        \* data.policy: the policy its path configuration is from
  content_type, content_encoding,
  response_writer,
  response_read_task, \* the policy the task uses, 0 before its first poll, or None
  \* the host: how far the exchange is
  phase,              \* "ended": on_http_response_body got the last chunk
  \* the pipe
  appended, consumed,
  \* history: what was uploaded; whether finish() of the decompressor failed, and
  \* whether process_data failed for a chunk
  uploaded, finish_failed, decode_failed

None == -1
ContentTypes == {"html", "json", "unknown"}
ContentEncodings == {"gzip", "none", "unknown"}
Upload == [policy : 1 .. MaxPolicies, path_policy : 1 .. MaxPolicies, body_size : 0 .. MaxBody]

statics == <<policy, upstream>>
headers == <<path_policy, content_type, content_encoding>>
pipe == <<response_writer, appended, consumed>>
failures == <<finish_failed, decode_failed>>
vars == <<statics, data, headers, pipe, response_read_task, phase, uploaded, failures>>

TypeOK ==
  /\ policy \in 0 .. MaxPolicies
  /\ upstream \in BOOLEAN
  /\ data \in BOOLEAN
  /\ path_policy \in 0 .. policy
  /\ content_type \in ContentTypes
  /\ content_encoding \in ContentEncodings
  /\ response_writer \in BOOLEAN
  /\ response_read_task \in (0 .. policy) \cup {None}
  /\ response_read_task # None => ~data
  /\ phase \in {"request", "response", "ended", "gone"}
  /\ appended \in 0 .. MaxBody
  /\ consumed \in 0 .. appended
  /\ uploaded \in Seq(Upload)
  /\ finish_failed \in BOOLEAN /\ decode_failed \in BOOLEAN

Init ==
  /\ policy = 0
  /\ upstream = FALSE
  /\ data = TRUE
  /\ path_policy = 0
  /\ content_type = "unknown"
  /\ content_encoding = "none"
  /\ response_writer = FALSE
  /\ response_read_task = None
  /\ phase = "request"
  /\ appended = 0
  /\ consumed = 0
  /\ uploaded = <<>>
  /\ finish_failed = FALSE /\ decode_failed = FALSE

-----------------------------------------------------------------------------
(***************************************************************************)
(* What other callbacks of the VM do to its statics (ControlPlane).        *)
(***************************************************************************)
UpdatePolicy ==
  /\ policy < MaxPolicies
  /\ policy' = policy + 1
  /\ UNCHANGED <<upstream, data, headers, pipe, response_read_task, phase, uploaded,
                 failures>>

UpdateUpstream ==
  /\ upstream' = ~upstream
  /\ UNCHANGED <<policy, data, headers, pipe, response_read_task, phase, uploaded,
                 failures>>

-----------------------------------------------------------------------------
(***************************************************************************)
(* Headers.                                                                *)
(***************************************************************************)
\* The first call with a policy picks the configuration of the path; request_start
\* is set with it.
OnHttpRequestHeaders ==
  /\ phase = "request"
  /\ path_policy' = IF path_policy = 0 THEN policy ELSE path_policy
  /\ UNCHANGED <<statics, data, content_type, content_encoding, pipe,
                 response_read_task, phase, uploaded, failures>>

\* A response may come without a request (a local reply).
OnHttpResponseHeaders ==
  /\ phase = "request"
  /\ phase' = "response"
  /\ IF path_policy = 0
     THEN UNCHANGED <<content_type, content_encoding>>
     ELSE content_type' \in ContentTypes /\ content_encoding' \in ContentEncodings
  /\ UNCHANGED <<statics, data, path_policy, pipe, response_read_task, uploaded,
                 failures>>

-----------------------------------------------------------------------------
(***************************************************************************)
(* The task: it reads all of an HTML body; it stops in the middle of a     *)
(* JSON body that is malformed, or after its first value.                  *)
(***************************************************************************)
\* The outcomes of a poll when the pipe holds `size` bytes in all and the writer is
\* there or not: how much was consumed, and whether the task is done, with an
\* upload or without.
PollOutcomes(size, open) ==
  {[consumed |-> size, result |-> IF open THEN "pending" ELSE "some"]}
    \cup IF content_type = "json"
         THEN [consumed : consumed .. size, result : {"some", "none"}] ELSE {}

\* The policy that the task uses: the one that its first poll finds.
TaskPolicy(task) == IF task = 0 THEN policy ELSE task

\* poll_unpin of the task, and the upload if there is something to say and somebody
\* to say it to.
Poll(task, size, open) ==
  \E o \in PollOutcomes(size, open) :
    /\ consumed' = o.consumed
    /\ response_read_task' = IF o.result = "pending" THEN TaskPolicy(task) ELSE None
    /\ uploaded' = IF o.result = "some" /\ upstream
                   THEN Append(uploaded, [policy |-> TaskPolicy(task),
                                          path_policy |-> path_policy,
                                          body_size |-> o.consumed])
                   ELSE uploaded

-----------------------------------------------------------------------------
(***************************************************************************)
(* on_http_response_body.                                                  *)
(***************************************************************************)
Scannable == path_policy # 0 /\ content_type # "unknown"

\* The task that a chunk is for: a new one with the first chunk.
Task == IF data THEN 0 ELSE response_read_task

\* No policy, a content type that is not scanned, or a task that is done already.
SkipBody(end_of_stream) ==
  /\ phase = "response"
  /\ IF data THEN ~Scannable ELSE response_read_task = None
  /\ phase' = IF end_of_stream THEN "ended" ELSE phase
  /\ UNCHANGED <<statics, data, headers, pipe, response_read_task, uploaded, failures>>

\* The lengths that one call of the decompressor, or one plain chunk, may yield.
DecodedLengths(size) ==
  CASE size = 0 -> {0}
    [] size > 0 /\ content_encoding = "gzip" -> 0 .. MaxChunk
    [] OTHER -> {size}

\* Faulty variant: a chunk that fails takes the writer with it.
FailureDropsWriter(size, end_of_stream) ==
  /\ size > 0
  /\ decode_failed' = TRUE
  /\ response_read_task' = Task
  /\ response_writer' = FALSE
  /\ UNCHANGED <<appended, consumed, uploaded, finish_failed>>

\* process_data fails: the host has no body for the chunk, or it does not decode.  The
\* callback returns, whether or not it was the last chunk.
DecodeFails(size, end_of_stream) ==
  /\ size > 0
  /\ decode_failed' = TRUE
  /\ response_read_task' = Task
  /\ response_writer' = (data \/ response_writer)
  /\ UNCHANGED <<appended, consumed, uploaded, finish_failed>>

\* finish() of the decompressor fails after the last chunk: the same.
FinishFails(size, end_of_stream) ==
  /\ end_of_stream
  /\ content_encoding = "gzip"
  /\ \E n \in DecodedLengths(size) : appended' = appended + n
  /\ appended' <= MaxBody
  /\ finish_failed' = TRUE
  /\ response_read_task' = Task
  /\ response_writer' = (data \/ response_writer)
  /\ UNCHANGED <<consumed, uploaded, decode_failed>>

\* What finish() leaves.
FinalLengths(end_of_stream) ==
  IF end_of_stream /\ content_encoding = "gzip" THEN 0 .. MaxChunk ELSE {0}

\* Faulty variants: the task is polled at the end only; the writer is dropped after
\* the poll, or with the first chunk; `data` is not taken.
PolledAtEnd(size, end_of_stream) == end_of_stream
WriterKept(end_of_stream) == TRUE
WriterDropped(end_of_stream) == FALSE
DataKept == data
DataTaken == FALSE
Polled(size, end_of_stream) == end_of_stream \/ size > 0
WriterAtPoll(end_of_stream) == ~end_of_stream

Feed(size, end_of_stream) ==
  /\ \E n \in DecodedLengths(size), m \in FinalLengths(end_of_stream) :
       appended' = appended + n + m
  /\ appended' <= MaxBody
  /\ response_writer' = WriterAtPoll(end_of_stream)
  /\ IF Polled(size, end_of_stream)
     THEN Poll(Task, appended', WriterAtPoll(end_of_stream))
     ELSE response_read_task' = Task /\ UNCHANGED <<consumed, uploaded>>
  /\ UNCHANGED failures

ScanBody(size, end_of_stream) ==
  /\ phase = "response"
  /\ IF data THEN Scannable ELSE response_read_task # None
  /\ data' = DataTaken
  /\ phase' = IF end_of_stream THEN "ended" ELSE phase
  /\ \/ DecodeFails(size, end_of_stream)
     \/ FinishFails(size, end_of_stream)
     \/ Feed(size, end_of_stream)
  /\ UNCHANGED <<statics, headers>>

\* A body that is followed by trailers has no last chunk, and the stream may be reset:
\* no callback of the context is left.
EndWithoutLastChunk ==
  /\ phase \in {"request", "response"}
  /\ phase' = "gone"
  /\ UNCHANGED <<statics, data, headers, pipe, response_read_task, uploaded, failures>>

Next ==
  \/ UpdatePolicy
  \/ UpdateUpstream
  \/ OnHttpRequestHeaders
  \/ OnHttpResponseHeaders
  \/ \E end_of_stream \in BOOLEAN : SkipBody(end_of_stream)
  \/ \E size \in 0 .. MaxChunk, end_of_stream \in BOOLEAN : ScanBody(size, end_of_stream)
  \/ EndWithoutLastChunk

Spec == Init /\ [][Next]_vars

-----------------------------------------------------------------------------
(***************************************************************************)
(* Properties.                                                             *)
(***************************************************************************)
\* A task that is left waiting has read all that was appended, since nothing but the
\* next chunk will wake it (unless finish() failed, http_response.rs:506-510).
NothingLeftBehind ==
  response_read_task # None /\ ~finish_failed => consumed = appended

\* When the last chunk was handled no task is left waiting, whatever the sizes of the
\* chunks were, and whether or not the last one was empty: its matches were counted
\* and its report was sent, or it found the body malformed.  Only a body of
\* which a chunk could not be had, or did not decompress, is left
\* (http_response.rs:487-492, 503-511).
EndedIsFinished ==
  phase = "ended" /\ ~finish_failed /\ ~decode_failed => response_read_task = None

\* The report on an HTML body is sent with its last chunk and covers all that was
\* appended: the whole body, without the chunks that process_data failed for, which are
\* skipped and leave no trace in the report (http_response.rs:487-492).
WholeBodyReported ==
  uploaded # <<>> /\ content_type = "html" =>
    phase = "ended" /\ uploaded[1].body_size = appended

\* An exchange is reported at most once, also when its JSON value ends long before
\* its body does (http_response.rs:465, 481-485).
ReportedOnce == Len(uploaded) <= 1

\* A chunk that a task waits for finds the writer: none of the chunks before it dropped
\* it, not those either that failed or were empty, so that neither the two
\* expect("receives data after end_of_stream") nor the unwrap at the end of the body
\* fails (http_response.rs:498, 516, 520).
ChunkFindsWriter ==
  phase = "response" /\ response_read_task # None => response_writer

-----------------------------------------------------------------------------
(***************************************************************************)
(* Statements of the repository that the code does not keep.               *)
(***************************************************************************)
\* POLICY.md:191 "A category name's presence enables it for requests that match this
\* endpoint configuration": the names of an endpoint are those of the same policy's
\* categories.  A body is matched with the path configuration of the policy at its
\* request and the categories, and the policy_id, of the one at its first poll
\* (http_response.rs:335, 143-149, 227).
OnePolicy ==
  \A i \in DOMAIN uploaded : uploaded[i].path_policy = uploaded[i].policy
=============================================================================
