# Verification of the LeakSignal proxy filter

LeakSignal is a WebAssembly filter for Envoy.  Every VM that runs it executes
one callback at a time; concurrency comes from there being several VMs (one
per worker thread and one for the collector), a host that delivers timers,
gRPC events and queue messages in its own order, and response bodies that
arrive in pieces of any size.  This directory holds TLA+ models of that
program, TLC configurations that check them, and TLAPS proofs about the
control plane, the broadcast, the pipe, the response path, the path policy, the
HTML task, the matchers and the JSON parser.

`tlc -config X.cfg M` checks a module, `tlapm M.tla` its proofs.
`PROJECT.json` maps every definition to the lines of `src/` that it models and
lists the runs, the faulty variants that each property was tried against, the
hazards and the theorems.

## 1. Inventory

### Components

| component | source | state | operations |
|---|---|---|---|
| control plane | `leaksignal/src/root.rs`, `config.rs`, `policy.rs` | per VM: `CONFIG`, `POLICY`, `LEAKSIGNAL_UPSTREAM`; per root context: policy stream, ping, the workers' queues | `on_configure`, `on_tick`, stream message / close, call response, `on_queue_ready` |
| broadcast | `root.rs` 176-208 | `policy_update_queues`, indices to remove | `broadcast_to_workers` |
| pipe | `leaksignal/src/pipe.rs` | segments, read position, the two ends | `append`, drop, `poll_read`, `fetch_full_content` |
| response path | `leaksignal/src/http_response.rs` | `data`, the task, the writer, content type and encoding | request headers, response headers, response body |
| HTML scan | `parsers/html.rs`, `evaluator.rs` | chunk, overlap, matches | the loop of `parse_html`, `do_matching` |
| correlation | `evaluator.rs` 217-363 | two sorted lists and their indices | the two loops of `do_matching` |
| path policy | `leakpolicy/src/lib.rs`, `path_glob.rs` | (pure) | `matches`, `Ord`, `get_path_config` |
| matchers | `evaluator.rs`, `html.rs` 36-80, `json/mod.rs`, `policy.rs` | `MatcherState` per context, `correlation_index`, the report | `prepare_match_state`, `prepare_matches`, `evaluate`, `do_matching`, `evaluate_report_style` |
| low entropy hash | `low_entropy_hash.rs`, `policy.rs` | (pure) | `finalize`, `Display` |
| JSON parser | `parsers/json/` | recursion, look-ahead byte, the string that is read | `parse_json`, one read at a time |
| metrics, logging, startup | `metric.rs`, `lib.rs` | metric ids | - |
| formats | serde types of `leakpolicy` and `config.rs` | - | parsing by the library |
| JPEG parser | `parsers/jpeg.rs` | - | commented out in `parsers/mod.rs:8`; not compiled |

### How they interact

- The **root VM** (a `LocalCollector`, or a `DirectFilter` alone) opens a gRPC
  stream to its upstream and pings it.  A policy that arrives is adopted and
  written to the queue of every filter VM that registered; so is a change of
  the upstream.
- A **filter VM** resolves the collector's register queue when it is first
  configured, writes the name of its own queue there, and applies what arrives
  in that queue to its statics.
- For every exchange a **response context** takes the path's configuration
  from `POLICY` (path policy), creates a pipe and a task with the first chunk,
  polls the task from `on_http_response_body` only (the waker does nothing), and
  reports to `LEAKSIGNAL_UPSTREAM`.
- The **task** prepares matchers from the path's configuration, reads the pipe and
  runs the HTML scan or the JSON parser.  Each piece of HTML, key or value is
  evaluated; what is found is correlated, hashed and put into the report.

So the statics are shared between the control plane and the response path
(between two callbacks of one VM), the queues between the VMs, and the pipe
between the context and its task.

### What is hard here

| behaviour | where it shows | properties |
|---|---|---|
| order of reconfigurations, closes, failed opens, late answers | policy stream | `StreamTarget`, `StreamKept`, `CurrentUpstreamOnly`, `StreamRestarts`, `PingGivesUp` |
| registration against broadcasts, VMs that stop, queues that refuse | distribution | `PolicyInSync`, `UpstreamInSync`, `GroupIsolation`, `ReplicationSpec`, `FoundIsRegistered`, `Converges` |
| removal by index while queues disappear | broadcast | `RemoveInRange`, `OnlyGoneRemoved`, `AtomicSpec` |
| reads of every size against appends of every size; what is fetched in between | pipe | `StreamSpec`, `FetchedIsRead`, `FetchIsSafe` (not kept) |
| nothing wakes the task; callbacks that return early in mid-body; a policy replaced in mid-body | response path | `NothingLeftBehind`, `EndedIsFinished`, `WholeBodyReported`, `ReportedOnce`, `ChunkFindsWriter`; `OnePolicy` (not kept) |
| matches across the seam of two reads | HTML scan | `NoneMissed`, `ReportedInOrder` |
| boundaries of distances, pairs at a seam, items seen before | correlation | `OnlyNear`, `PairedOnce`, `FirstFound`, `PairsAreThere`, `Terminates` |
| nesting, look-ahead at the end of the body, surrogate pairs over several escapes | JSON parser | `AcceptsJson`, `AcceptsOnlyValues`, `EveryStringMatched` |
| precedence of globs, shared keys, overrides | path policy | `OnlyMeant`, `NoneLost`, `NarrowerWins`; `AllMeant`, `MostSpecificWins` (not kept) |
| actions, content types and contexts together; bytes and characters | matchers | `OnlyConfigured`, `EachWordReported`, `StripsCharacters` (a finding) |
| widths that are no multiple of 8 | hash | `FirstBits` |

## 2. Modules

```
ControlPlane ----------- refines --> PolicyReplication (theorem ReplicationHolds)
  |  MCControlPlane
  |  ControlPlaneProofs
BroadcastToWorkers ----- refines --> AtomicBroadcast   (theorem AtomicHolds; what
  |  BroadcastProofs                                    ControlPlane's Broadcast does)
Pipe ------------------- refines --> ByteStream        (theorem StreamHolds; what the
  |  PipeProofs                                         three below assume)
ResponsePath
  |  ResponsePathProofs
HtmlTask = HtmlScan + Correlate
  |  MCHtmlTask
  |  HtmlProofs
JsonParse, with the grammar and properties of JsonText
  |  MCJsonParse
  |  JsonProofs
PathPolicy
Matchers = PathPolicy + LowEntropyHash + evaluation    (MCMatchers, which extends MCPathPolicy)
  |  MatchersProofs, the proofs about both

Recursion: induction, recursive functions, FlattenSeq; used by PipeProofs,
           HtmlProofs, MatchersProofs and JsonProofs
```

Every module has one action per callback or per loop iteration, named as in the
source where the source has a name.  Definitions commented "Faulty variant" are
plausible bugs in the definition that follows them: no specification uses them;
each property was seen to be violated when one of them takes the place of the
right definition.

**ControlPlane** models every callback of `EnvoyRootContext`.  One action is one
callback of one VM.  `policy_update_queues` is a set here and a sequence in
`BroadcastToWorkers`; the host is the variables `streams`, `calls`,
`register_queue`, `policy_queue`, `gone`.
 - A policy is its place in the order in which the root adopted it
   (`published` has the origins); 0 is none and -1 a filter's local policy.
 - Time is counted in ticks of 15 s: `PING_TIMEOUT` (20 s) is 1 tick and
   `PING_INTERVAL` (300 s) 20; the comparison is `>` as in the code.  The runs
   use an interval of 2, since only the order of the two limits matters.
 - A token of a stream or a call is used again once it is closed or answered,
   so a small set stands for the host's unbounded supply.
 - A change of `mode` takes the same early return as one of `group`
   (`root.rs` 288-296); the group stands for both.
 - An upstream in the model is a cluster with its deployment.
 - The bounds are `MaxPolicies` (policies adopted) and `MaxQueued` (the root is
   reconfigured only while all queues are shorter).

**BroadcastToWorkers** breaks `broadcast_to_workers` into its host calls: the loop
that collects the indices of the missing queues and the removal from the last
to the first, while queues disappear at any step.  **AtomicBroadcast** is the single step
that `ControlPlane!Broadcast` takes.

**Pipe** models `poll_read` one iteration of its loop per action; bytes are
numbered.  `fetch_full_content` changes nothing, so what it returns is an expression
(`Content`) and its assertion a step (`FetchPanics`).  A segment that is cleared is
empty; what it has allocated stays (`Vec::clear`), and memory is no part of the model.
**ByteStream** says what a reader may rely on.  `StreamSpec` maps a
pipe with `max_persistance` 0, the only kind that is made
(`http_response.rs:474`), to a byte stream, and any other to one that stays
empty: a pipe that persists loses unread data (see section 6).  `FetchedIsRead` speaks
of the pipes that persist: what a fetch returns is what the reader was given.

**ResponsePath** models one exchange.  The control plane appears as `UpdatePolicy` and
`UpdateUpstream`, enabled between any two callbacks.  Chunks have a size only;
gzip yields any number of bytes for a chunk and any number when it finishes,
or fails at either point; a chunk of any encoding may be missing in the host, which
ends the callback as early.  The task is `PollOutcomes`: an HTML task reads all
there is, a JSON task may stop in the middle, with or without a result.

**HtmlScan** models the loop of `parse_html` for one raw matcher, byte by byte,
with characters of one and two bytes, and `from_utf8_lossy`.  A match is
reported with the position the code computes; the model also notes where the
match really is.

**Correlate** models the two loops at the end of `do_matching` on a piece of the body, one
iteration per action, with the `minimum_end_index` the piece is scanned with.

**HtmlTask** composes the two: every read of HtmlScan is followed by a call of
Correlate on what the two groups find in the same piece, so its lists are those
that a body can yield, out of order and overlapping, and the parts of a pair can
lie on both sides of a seam.

**JsonParse** models the recursive descent of `parse_json_internal` as a machine:
`stack` is the recursion, `pc` the read it waits for, and an action reads one
element, so the task can be suspended wherever the code awaits.  The byte behind
a value that a call returns to its caller is consumed in the same action as in
the code (`NextByte`).  Elements that are only read together are one: "rue" after
"t", the four bytes behind `\u`, which are taken whatever they are, the rest of a longer
character.  Of the classes of
bytes that the code does not tell apart there is one member each.
**JsonText** says what JSON is by a grammar over places in the body (a recursive
function, not a parser: it looks at the whole body), what its strings are and
what they mean, and states the properties against it.  The grammar takes
any character behind a backslash, as the parser does.

**PathPolicy** models glob matching and ordering and `get_path_config`, with
overrides, styles and token extractors.  A glob component is a kind with the set
of path components it matches, which covers regexes, prefixes, suffixes and
literals.

**LowEntropyHash** says which bits of the digest are shown; SHA-256 is opaque.

**Matchers** follows one response from the path's configuration to its report:
`PrepareCategory` (a category of the configuration at a time, into the matcher
states of keys, values or HTML, with the running `correlation_index`), `DoMatching` (a
text at a time: raw words and regexes, `regex_strip`, exceptions, what was seen
before, slicing, the report in its style) and `Finish`.  Its panics are states:
a slice inside a character, `report_bits` outside of 1 to 256, a native regex, a regex
whose search gives up (`RegexFails`).
A regex is the words it stands for, in the order in which it prefers them.  Which
pairs of a correlation are reported is Correlate's matter and left open here:
any set of pairs with one index.  The order in a report is left out.

## 3. Runs

| run | module, configuration | what it shows | bounds |
|---|---|---|---|
| `stream` | MCControlPlane, MCStream | where the stream leads, what may cost it, that it comes back | 2 upstreams, 2 stream and 2 call tokens, 2 policies, all configurations |
| `distribution` | MCControlPlane, MCDistribution | filters stay in step, in order, in their group | 2 filters, 2 groups, 2 policies, queues of 2, one unreliable |
| `distribution_live` | MCControlPlane, MCDistributionLive | registration happens, views converge | the same with 1 policy and 1 upstream |
| `broadcast` | BroadcastToWorkers, MCBroadcast | the loop implements the atomic broadcast | 4 queues, 2 unreliable |
| `policy_requested` | MCControlPlane, MCPolicyRequested | a finding (section 6) | 1 stream, no filters |
| `pipe` | Pipe, MCPipe | the byte stream, what is fetched from a pipe that persists | 6 bytes, 4 segments, sizes 0 to 3, `max_persistance` 0 and 3 |
| `response` | ResponsePath, MCResponsePath | the task ends, one complete report, each chunk finds its writer | 2 policies, chunks up to 2, bodies up to 4 |
| `html` | MCHtmlTask, MCHtmlTask | matches and pairs at seams | chunk 5, overlap 3, distance 1, bodies up to 7 bytes (plain) or 5 characters, 2 policies |
| `html_only_once` | MCHtmlTask, MCHtmlOnlyOnce | a finding (section 6) | as `html` |
| `json` | MCJsonParse, MCJsonParse | what is taken, what is refused, which strings are matched | every structure of up to 6 elements, every string of up to 5 and of up to 4 escapes or characters, every number of up to 5, and values of 2 levels with 2 members each, spaced or with one fault |
| `matching` | MCMatchers, MCMatchers | configurations, matchers and reports | 9 globs, two of them partial and one inside the other, 1 or 2 endpoints, paths of up to 2 components of 4 names and of 3 components of 2; 9 categories, one with a raw word that overlaps itself, in 1 or 2 endpoints, with the actions unset, ignore and block, every set of content types and contexts; `report_bits` 0 to 17, 248 and 255 to 257 |
| `strip_characters` | MCMatchers, MCStripsCharacters | a finding (section 6) | as `matching` |

Type invariants of modules whose runs have deeper properties are checked by
configurations of their own, which pass: MCBroadcastTypes (BroadcastToWorkers) and
MCHtmlTypes (MCHtmlTask).  Those of Pipe and ResponsePath are the first part of the
inductive invariants that are proved of them (`PipeInv`, `PathInv`).

Why the bounds are enough for the cases of interest:
 - `stream`: two upstreams and two tokens give a dropped stream that still
   delivers beside the stream in use, and a late answer beside a new ping; the
   third tick is beyond both limits.  The proofs remove the bounds for safety.
 - `distribution`: two policies and a queue of two give an old message in front
   of a new one; the second filter has every configuration that differs from
   plain following.  Pings are not dispatched here (`CallIds` is empty), so a
   tick changes nothing but the age of the ping and the stream.
 - `broadcast`: four queues allow two neighbours and two ends to be missing at
   once, the cases in which removal in the wrong order goes wrong.
 - `pipe`: four segments of up to three bytes with reads of up to three have
   reads that end inside, at the end of, and beyond a segment, and empty ones.
 - `html`: the pieces are shorter than, equal to and longer than the overlap;
   words fit into it or are one byte longer, which is the code's limit
   (`CHUNK_OVERLAP + 1`), and do not overlap themselves.  Of the groups one has
   two words, found out of order and one inside the other's range, so that items
   touch, overlap, start together, lie at the distance and one byte beyond it, and
   were seen before or not.
 - `json`: the parser's state is its stack and its place in one value, so two levels and
   two members meet every transition, the faults are at each place of each of
   them, and four escapes in a row hold two surrogate pairs or any wrong half.
 - `matching`: a category is wanted, not wanted, or overridden either way; two
   correlations share a state; numbers stand beside characters of one and two
   bytes; the bits are those around each multiple of 4 and 8 and both ends.

`CHECK_DEADLOCK FALSE` stands in the configurations of systems that end (a
call returns, a body is done, both ends of a pipe or all queues are gone); the
runs of ControlPlane check that it never stops.

PathPolicy, JsonParse and Matchers have no type invariant: their properties evaluate
the whole state.

### Fairness

`FairSpec` of ControlPlane assumes:
 - weak fairness of `OnTick`: the host's timer fires;
 - weak fairness of the queue callbacks: the host runs the callback of a queue
   that holds a message;
 - strong fairness of `TickOpensStream`: an upstream that can be reached at
   infinitely many ticks is reached at one of them; without it no retry helps;
 - weak fairness of the close of a stream that the root dropped.  The root never
   closes it (`root.rs` 325); here it only frees a token, of which the host has
   no shortage.
No fairness is assumed of upstreams, of answers to pings, or of configuration.
`HtmlTask` assumes weak fairness of `Pair`: `do_matching` does not await, so a call
that can take its next step does.  When the body goes on is up to the peer.

## 4. What is proved

Every theorem below holds for all constants that satisfy the named assumptions
of its module, and TLC evaluates those in the runs.

| theorem | module | statement |
|---|---|---|
| `TypeCorrect` | ControlPlaneProofs | `Spec => []TypeOK` |
| `StreamTargetHolds` | ControlPlaneProofs | `Spec => []StreamTarget` |
| `StreamKeptHolds` | ControlPlaneProofs | `Spec => StreamKept` |
| `CurrentUpstreamOnlyHolds` | ControlPlaneProofs | `Spec => CurrentUpstreamOnly` |
| `ReplicationHolds` | ControlPlaneProofs | `Spec => ReplicationSpec`, the refinement |
| `PolicyInSyncHolds` | ControlPlaneProofs | `Spec => []PolicyInSync` |
| `UpstreamInSyncHolds` | ControlPlaneProofs | `Spec => []UpstreamInSync` |
| `GroupIsolationHolds` | ControlPlaneProofs | `Spec => []GroupIsolation` |
| `RemoveInRangeHolds` | BroadcastProofs | `Spec => []RemoveInRange` |
| `OnlyGoneRemovedHolds` | BroadcastProofs | `Spec => OnlyGoneRemoved` |
| `AtomicHolds` | BroadcastProofs | `Spec => AtomicSpec`, the refinement |
| `NeverPanics` | PipeProofs | a pipe with `max_persistance` 0 never panics |
| `FetchedIsReadHolds` | PipeProofs | `Spec => []FetchedIsRead` |
| `StreamHolds` | PipeProofs | `Spec => StreamSpec`, the refinement |
| `NothingLeftBehindHolds` | ResponsePathProofs | `Spec => []NothingLeftBehind` |
| `EndedIsFinishedHolds` | ResponsePathProofs | `Spec => []EndedIsFinished` |
| `WholeBodyReportedHolds` | ResponsePathProofs | `Spec => []WholeBodyReported` |
| `ReportedOnceHolds` | ResponsePathProofs | `Spec => []ReportedOnce` |
| `ChunkFindsWriterHolds` | ResponsePathProofs | `Spec => []ChunkFindsWriter` |
| `OnlyMeantHolds` | MatchersProofs | `Spec => []OnlyMeant` |
| `NoneLostHolds` | MatchersProofs | `Spec => []NoneLost` |
| `NarrowerWinsHolds` | MatchersProofs | `Spec => [](ManyAtEnds => NarrowerWins)` |
| `OnlyConfiguredHolds` | MatchersProofs | `TaskSpec => []OnlyConfigured` |
| `EachWordReportedHolds` | MatchersProofs | `TaskSpec => []EachWordReported` |
| `FirstBitsHolds` | MatchersProofs | `TaskSpec => []FirstBits` |
| `TaskPathHolds` | MatchersProofs | `TaskSpec => [](OnlyMeant /\ NoneLost)` |
| `TaskNarrowerHolds` | MatchersProofs | `TaskSpec => [](ManyAtEnds => NarrowerWins)` |
| `AcceptsOnlyValuesHolds` | JsonProofs | `Spec => []AcceptsOnlyValues` |
| `AcceptsJsonHolds` | JsonProofs | `Spec => []AcceptsJson` |
| `EveryStringMatchedHolds` | JsonProofs | `Spec => []EveryStringMatched` |
| `ScanTypesHold` | HtmlProofs | `Spec => []TypeOK`, of HtmlScan |
| `ReportedInOrderHolds` | HtmlProofs | `Spec => []ReportedInOrder` |
| `NoneMissedHolds` | HtmlProofs | `Spec => []NoneMissed`, if each word is `Seamless` |
| `TaskIsScan` | HtmlProofs | `TaskSpec => Spec`: HtmlTask implements HtmlScan |
| `OnlyNearHolds` | HtmlProofs | `TaskSpec => []OnlyNear` |
| `PairsAreThereHolds` | HtmlProofs | `TaskSpec => []PairsAreThere` |
| `PairedOnceHolds` | HtmlProofs | `TaskSpec => []PairedOnce` |
| `FirstFoundHolds` | HtmlProofs | `TaskSpec => []FirstFound` |

### Assumptions

They say what types the code's values have, and little else:
 - ControlPlane: `ConfigAssumption` (configurations have their type), `NameAssumption`
   (the root is no worker, `None` is none of the other values), `PingAssumption` (the
   timeout is shorter than the interval), `BoundAssumption` (the bounds are numbers).
 - BroadcastToWorkers: `UnreliableAssumption`; Pipe: `SizesAssumption`; ResponsePath:
   `BoundAssumption`: sizes and bounds are numbers, the unreliable queues are queues.
 - PathPolicy: `PoliciesAssumption` (the policies are `WellTyped`, the paths sequences
   of names) and `StylesAssumption`.
 - HtmlScan: `ChunkAssumption` (the overlap is shorter than the chunk, as 512 is
   than 65536; words are not empty and of one-byte characters; a body is any sequence of
   its four classes of bytes, well-formed UTF-8 or not).  HtmlTask: `CorrelateAssumption`
   (the distance is a number, and what the interest may be) and `PoliciesAssumption` (the
   words of the groups are words too).
 - Matchers: `CasesAssumption` (the policies, paths and responses have their types; HTML
   is evaluated as HTML, the texts of a JSON body are keys or values) and
   `CategoriesAssumption` (the categories have their types, and neither a raw value nor what
   a regex stands for is empty).
 - JsonParse: `BodiesAssumption` (a body is a sequence of elements).

`NoneMissed` needs one hypothesis more, that each word is `Seamless`: at most one
byte longer than the overlap, and with no border (no two places of it overlap).  That
is the code's limit: a longer word is cut by a seam and lost (section 5), and of two
places that overlap the first hides the second.  `EachWordReported` needs no such hypothesis,
because it says what the code does of such places: the place itself or one of the same word
that it overlaps was reported, or was seen before.

`NarrowerWins` says itself which globs it compares (`OrderTells`): their partial components
match several names and not all, and none is strictly narrower than the other's at its place.
The code counts the partial components and does not compare them: `ab*` and `a*` have one
key, under which the glob of the first endpoint and the configuration of the last are kept, and
the run has both.  The theorem needs `ManyAtEnds` besides: `**` stands at the end of a glob only,
and paths of any names up to one component longer than the glob are requested.  Every policy of
the run meets the first condition but those with the glob `**/b`.

`ReportedInOrder`, `PairsAreThere` and `PairedOnce` speak of bodies of one-byte characters
(`Plain`): of others they are false (`OnlyOnce`, section 6).  `OnlyNear` is about any body: the
positions it compares are the reported ones, which behind a cut character are not those of the
body.

### The arguments

A step is proved for each action, and for each conjunct it can disturb.

**Control plane.**
 - `StreamInv` is `TypeOK`, `StreamTarget`, `PingAwaited` (a pending ping is one
   the host has not answered) and `Unconnected` (no stream before the first
   configuration).  `PingAwaited` is what makes `StreamKept` true: a timeout can
   only concern a call that is open.
 - `OrderInv` adds `InOrder` (the policies in a filter's queue grow strictly, lie
   above the one it applied, and not above the root's), `JoinOnce` (a filter waits
   to be registered once, before it is in the list) and `Fresh` (a filter that runs
   and is not in the list has received nothing).  Without the last two the initial
   messages of `on_queue_ready` could repeat a policy or fall behind a newer one.
 - `SyncInv` adds `AllInSync`, which is `PolicyInSync` and `UpstreamInSync` in terms
   of the last message of a kind in a queue, and `SameGroup`.

**Broadcast.**  `LoopInv` says which indices the first loop remembers (`SendInv`: those of the
missing queues it has passed, rising) and what the second has left (`RemoveInv`: the
indices of the missing queues that remain, the highest first).  That they are the
indices of the list as it is *now* needs `ListedOnce`, and that the highest comes
first: a removal moves only what lies behind it.  At the return the two give
`Atomic!BroadcastOnce`; every other step but `Register` and `StopFilter` is hidden by the mapping.

**Pipe.**  `PipeInv` has, for a pipe(0) and for any other until `max_persistance` bytes were
read (`Ordered`), a ghost that no variable holds:
there is a number for each segment, where it starts in the body (`AsAppended`), so that
the bytes behind the reader are those that were appended next.  It also gives that the
reader stands inside its segment (`InPlace`), hence `NeverPanics`.  A pipe that persists does not
keep this beyond its limit (`UnreadIsKept`, section 6).  Below it no segment was cleared
(`KeptInv`): all of them are as they were appended, so what is fetched begins with what was
delivered, and is no longer if nothing is unread: `FetchedIsRead`.

**Response path.**  `PathInv` adds to the five properties that a task is started by a body with a
configuration only (`StartedIsScannable`), that nothing happened before (`Untouched`) and
that a report ends its task (`ReportedIsDone`).

**Path policy.**  `PolicyInv` says that every entry is one an endpoint means (`EntryIsMeant`), that
every endpoint behind the loop's has its categories in the entries (`EachIsKept`), and
that entries already applied are in the output (`EachIsApplied`).  `MatchedIsDenoted` carries
`OnlyMeant`: what the code's matching accepts, the glob denotes.  The other direction,
`DenotedIsMatched`, holds for globs with `**` at their end at most; that it fails in general is
`AllMeant` (section 6).

`OrderInv` adds which glob wins: each key is the order of the glob entered with it
(`KeysAreOrders`), no key that was applied comes in front of one yet to be, and the key that
configures a category now comes behind none that was applied and configures it (`WonBy`).  So
no glob that matches and configures a category comes in front of the winner (`FirstWins`).
`NarrowerFirst` is the rest of `NarrowerWins`: of two globs of one length that `OrderTells` the one that denotes
fewer paths comes in front.  What such a glob denotes has a form without recursion
(`DenotesFits`), a path can be built with any name at any place of it (`SamplePath`), so the
narrower glob has the smaller set of names at every place; its `**`, `*` and partial
components are then at places where the other has them too, and are counted as sets
(`CountLess`).

**HTML task.**
 - `Cut`: the chunk is the last part of what was read, at least as long as the overlap or
   all of it.
 - `Reported` and `FoundSoFar`: what was reported of a body was read, in order; each word that was
   read was reported.  The step: of the part that is matched again, exactly what ends
   behind `minimum_end_index` is new (`EvaluateFacts`, `DoMatchingFacts`); a seamless word that
   begins in front of the chunk ended before it.
 - `TaskIsScan` takes these three to the task.
 - `Walk`: the loops of `do_matching` stay in their lists, which are sorted.
 - `AllNear`, `PairsThere` (the items are in the body, where offset and start say), `Before` (all
   pairs of earlier calls ended at `minimum_end_index`, and those of this one behind the
   continuity index, so none has the item that comes next), and `Passed` (as long as this
   call paired nothing, none of the items behind its two indices are near each other).

**Matchers.**  `TaskInv` keeps `PolicyInv` and says of each matcher state (`StateOK`) that its
matchers are those of a category wanted there (`Labelled`), with the words of its own group
(`RawIsOf`, `RegexIsOf`), and that an index is of one category (`OneEach`): a new one
is above all given out before.  That halves with one index belong together is all `OnlyConfigured` needs of
a pair.  Another part (`RawsThere`) is that a category the loop has visited is in the
states: with what `FindIterFacts` says of a search, that what is found is there
(`Sound`) and nothing is passed over but what a place found before overlaps (`Covered`), it gives
`WordsReported` for each text that was evaluated: each place is `Accounted` for.  `StripFacts` says that stripping the match strips the word.  `Hashed`
defers `FirstBits` to `ShownFacts`, which is the arithmetic of `finalize` and `Display`: what they
let through is a prefix, for every remainder of the number of bits.

**JSON parser.**  First the grammar: that `Ends`, a function that looks behind the place it is
asked for, exists and satisfies its equation (`EndsExist`, `EndsAre`; values and lists at
one place look at each other, so the induction is over a rank of both), and from that the
rules one by one (`ListRule`, `BracketRule`, `StringRule`, `KeywordRule`, `NumberRule`).
`ParserInv` then says of the state (`Parsed`) that there is a place for each open object and
array where it opens (`Opened`), such that
 - where the parser reads on, whatever list the grammar finds from there is the rest of the
   list that began behind that place (`Continues`), and whatever value it finds is a member of it
   (`Belongs`).  These are implications about all ends the grammar allows, not about one: the
   grammar is ambiguous about numbers, whose end is known when the next byte is;
 - what is being read is the beginning of a string, key or number that started where one may stand
   (`StringTo`, `KeyAt`, `NumberTo`), for each `pc` (`Reached`);
 - only the innermost one may be without values, and only where its first is looked for
   (`Flags`): this is what refuses `[1,]` and `{,}`.

A bracket that closes turns what `Continues` says into an end of the value it closes, one level down
(`BracketRule`, `PopStep`); at level 0 that is `AcceptsOnlyValues`.

`AcceptInv`, for `AcceptsJson`, looks forward: it says what is left of the body, if that is
JSON.  Some plan for the rest is always kept to:
 - a place behind the bracket of each open object and array (`Planned`), such that the value in
   it may end there: the list around it ends or goes on with a comma (`MayEnd`);
 - what is being read ends where the innermost value may end (`Left`, for each `pc`): the rest of a
   string, key or number (`StringDue`, `ColonDue`, `NumberDue`), a value (`ValueDue`) or a list (`ListDue`).

An opening bracket adds the place behind its closing one to the plan (`PushPlan`), a closing one
takes it away (`PopPlan`).  Where a number ends is part of the plan, and the parser, which takes as many
digits as there are, cannot miss it: nothing that may stand behind a value goes on with a
number (`EndByte`).  At the end of the body nothing can be left but the end of the
outermost value (`NothingLeft`), in front of which the parser returns no error unless it has
read white space behind a number: the exception that `AcceptsJson` makes.

`MatchInv`, for `EveryStringMatched`, adds what was collected and handed over of a body that is JSON:
 - outside of strings, each string in front of the place reached was handed over (`HandedOver`, of
   keys and of values): all strings of the body are those and the ones the grammar finds from there
   on.  Inside a string that holds of the quote it began with;
 - inside a string, its text is what was written, what the collected `\u` units decode to if
   nothing else joins them, and the text from there on (`TextUpTo`, `TextAt`).  The units are those of
   the escapes right in front of the place reached (`UnitsAt`), and no text is split between two
   of them: a high half may still find its low one.

So what is written when something else than `\u` follows is the text so far, however the halves are
mixed (`UnitsDecoded`, `Flushes`), and at the quote it is the whole text.  That the parser's role
of a string is the one the grammar gives it, a key if a colon follows, is `AcceptInv`'s plan
(`KeyOrValue`).

**Induction over data.**  The library's induction theorems have an operator for a parameter,
which no prover here can instantiate.  `Recursion` states induction for *sets* of numbers
instead (`SetInduction`, from the least element of a set of numbers), and proves from it that a function
defined by recursion satisfies its equation and has its type (`RecursiveFunction`, `RecursionFromEnd`,
`SolvedFromEnd`, and `RankInduction` for two functions that look at each other).
So what the glob matching, `evaluate`, `find_iter`, `from_utf8_lossy` (`FlattenFacts`), the inserts of
`get_path_config` and the grammar of JSON compute is proved for every input.  That `Sorted` sorts is a
counting argument: the rank of an element is the number of those in front of it, and the
ranks of different ones differ (`RankFacts`).

### Only model-checked

 - Liveness: `StreamRestarts`, `PingGivesUp`, `FoundIsRegistered`, `Converges`, `Terminates`.  They need
   fairness and `ENABLED`, which the provers do not treat.
 - `NarrowerWins` for policies outside `ManyAtEnds`: of `**` in front of other components,
   which the run has.
 - The findings of section 6, by their counterexamples.

## 5. What is not modelled

 - The early return of the JSON callbacks (`parse.rs` 268-272, 319-323): `do_matching` always
   answers `Continue` (`evaluator.rs:370`).
 - The search of a regular expression: `fancy_regex`'s.
 - An empty raw word, whose last byte `evaluator.rs:175` looks for in front of it, a
   regex that matches the empty text, and a match longer than the overlap: no
   document says what they should do.
 - Metrics, logging, startup, the extraction of tokens, the collected headers and the
   body sample of a report: they decide nothing.
 - Parsing of policies, configurations and globs: serde and pure syntax; it changes no
   state.  Two things seen while reading it: a group that names a category
   (`POLICY.md:98`) does not parse as the string it is shown with, and as a map
   `name: ...` it is taken for an empty group (`lib.rs` 181-191; modelled so),
   and the flattened `action` (`lib.rs` 143-145) reads a key named after the action
   instead of `action` (`POLICY.md:197`).
 - Memory: `Vec::clear` keeps the allocation of a segment that was read (`pipe.rs` 134, 147, 158),
   so the whole body stays allocated until the exchange ends.
 - `body_collection_rate` (`POLICY.md:258`): a body is recorded with `fetch_full_content`, which
   returns `None` for a pipe(0), so nothing is ever recorded.
 - The JPEG parser: not compiled.  Examples and deployment files.

## 6. Where the code and its documentation part

Three are runs of the project (`expect: violation`):
 - `PolicyRequested`: a stream that was opened while `local_policy` was set has no
   request on it and is kept when a reconfiguration removes the local policy,
   so no policy comes until a close, a ping that times out or a new upstream opens another
   stream (`root.rs` 221-236, 320-333; `config.rs:44`).
 - `OnlyOnce`: a character that the seam cuts becomes U+FFFD per byte, which is
   longer, so the matches behind it appear to end later than they do and are
   reported twice, at wrong positions (`html.rs` 113-117, `evaluator.rs:234`).
 - `StripsCharacters`: `regex_strip` counts bytes; a regex whose first or last
   character is longer than one byte leaves a position inside it, and slicing the
   body there panics, which ends the VM (`evaluator.rs` 202, 248-251, against
   `POLICY.md:67`).

The others are definitions under the heading "Statements ... that the code does
not keep", each with a configuration that yields its counterexample:

| statement | configuration, module | what the code does |
|---|---|---|
| `FilterJoins` | MCFilterJoins, MCControlPlane | a filter that is configured before the collector never registers (`root.rs` 261-272, against `root.rs:366`) |
| `LocalPolicyUsed` | MCLocalPolicyUsed, MCControlPlane | the stream that stays open overwrites a local policy set later (`root.rs` 320-333, against `config.rs:44`) |
| `OwnUpstreamKept` | MCOwnUpstreamKept, MCControlPlane | the collector's first message unsets a filter's own upstream (`root.rs` 484-488, against `config.rs:32`) |
| `UnreadIsKept` | MCPipeUnreadKept, Pipe | `0..segment_subindex` counts bytes, not segments (`pipe.rs:157`, against `pipe.rs:34`); not reached with `pipe(0)` |
| `FetchIsSafe` | MCPipeFetch, Pipe | `fetch_full_content` asserts that what was appended is what was read, and panics while something is unread (`pipe.rs:106`, against `pipe.rs:95`); not reached with `pipe(0)` |
| `ReadAfterCloseFails` | MCPipeClosed, Pipe | `Ok(0)` at the end, where the test at `pipe.rs:243` expects an error |
| `OnePolicy` | MCOnePolicy, ResponsePath | a body is matched with the path configuration of the policy at its request and the categories, and the `policy_id`, of the one at the first poll of its task (`http_response.rs` 335, 143-149, 227, against `POLICY.md:191`) |
| `AllMeant` | MCAllMeant, MCPathPolicy | `**` before other components does not try again (`path_glob.rs:251`, against `POLICY.md:152`) |
| `MostSpecificWins` | MCMostSpecific, MCPathPolicy | the longer glob wins though it is wider (`path_glob.rs:118`), and of two globs that differ in a partial component the later endpoint (`path_glob.rs` 155-162), against `lib.rs:317` |
| `EndpointStyleUsed` | MCEndpointStyle, MCPathPolicy | a shadowed name (`lib.rs:386`, against `POLICY.md:193`) |
| `NoOverlap` | MCNoOverlap, MCHtmlTask | one item of group 1 in two pairs (`evaluator.rs:293`, against `evaluator.rs:277`) |
| `NearAreFound` | MCNearAreFound, MCHtmlTask | an item of group 2 is skipped after each pair (`evaluator.rs` 312, 358, against `POLICY.md:81`) |
| `PairsAcrossPieces` | MCPairsAcrossPieces, MCHtmlTask | a part that the piece before had is dropped as duplicated when the other part arrives (`evaluator.rs:233`, against `POLICY.md:81`) |
| `ReportsBits` | MCReportsBits, MCMatchers | the mask keeps `8 - bits % 8` bits (`low_entropy_hash.rs:34`, against `POLICY.md:214`) |
| `IgnoredNotReported` | MCIgnoredNotReported, MCMatchers | exceptions are compared with the match before it is stripped, and not at all with raw values (`evaluator.rs` 162-199, against `POLICY.md:201`) |
| `AcceptsAllJson` | MCJsonAll, MCJsonParse | a number that white space follows to the end of the body is an error, and its report is lost (`parse.rs` 325-332, against `parse.rs:248`) |

## 7. Plan

Done, in this order: ControlPlane with PolicyReplication, its runs and its
proofs; BroadcastToWorkers; Pipe; ResponsePath; HtmlScan; PathPolicy; Correlate;
LowEntropyHash; JsonParse; HtmlTask; Matchers.

Proved: all safety properties of ControlPlane, BroadcastToWorkers, Pipe, ResponsePath,
HtmlScan, HtmlTask, PathPolicy, Matchers and JsonParse, some of them under the hypotheses
that section 4 names, and the three refinements.

To come: the composition of ResponsePath with Pipe instead of the byte stream it assumes.
