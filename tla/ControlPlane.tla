----------------------------- MODULE ControlPlane -----------------------------
(***************************************************************************)
(* The control plane of the filter: how a policy and an upstream reach     *)
(* every VM (leaksignal/src/root.rs, config.rs, policy.rs).                *)
(*                                                                         *)
(* The root VM (a LocalCollector, or a DirectFilter on its own) holds the  *)
(* gRPC policy stream to the upstream and pings it.  A collector forwards  *)
(* what it learns to the filter VMs, one per Envoy worker thread, through  *)
(* host queues.  Each VM runs one callback at a time, so a callback is one *)
(* action here; BroadcastToWorkers justifies that for the only callback    *)
(* that loops over several VMs.                                            *)
(*                                                                         *)
(* A policy is identified by its place in the order in which the root      *)
(* adopted it: `published` records where each came from.                   *)
(***************************************************************************)
EXTENDS Integers, Sequences, FiniteSets

CONSTANTS
  Root,           \* the collector's VM, or the VM of a DirectFilter
  Workers,        \* the filter VMs; a restarted worker thread is a new one
  Mode,           \* the root's mode: "LocalCollector" or "DirectFilter"
  Groups,         \* deployment groups
  Upstreams,      \* upstream clusters with their deployment
  None,           \* Rust's None
  RootConfigs,    \* the configurations the root VM may be given
  FilterConfigs,  \* for each worker, the configurations it may be given
  Unreliable,     \* the workers whose queue the host may refuse to write
  StreamIds,      \* tokens of gRPC streams, reused once closed
  CallIds,        \* tokens of gRPC calls, reused once answered
  PingTimeout,    \* PING_TIMEOUT in ticks (20s of 15s ticks: 1)
  PingInterval,   \* PING_INTERVAL in ticks (300s of 15s ticks: 20)
  MaxPolicies,    \* bound on the number of policies the root adopts
  MaxQueued       \* bound: the root is reconfigured only while every filter has
                  \* fewer messages than this in its queue

Local == "local"                      \* the origin of a local_policy
Origins == Upstreams \cup {Local}
NoPolicy == 0
OwnPolicy == -1                       \* a filter's own local_policy
VMs == {Root} \cup Workers
Config == [group : Groups, upstream : Upstreams \cup {None}, local_policy : BOOLEAN]
Kinds == {"policy", "upstream"}
Message == [kind : {"policy"}, value : Nat \ {0}]
             \cup [kind : {"upstream"}, value : Upstreams \cup {None}]

ASSUME ConfigAssumption ==
  /\ RootConfigs \subseteq Config
  /\ FilterConfigs \in [Workers -> SUBSET Config]
ASSUME NameAssumption ==
  /\ Root \notin Workers
  /\ Unreliable \subseteq Workers
  /\ Mode \in {"LocalCollector", "DirectFilter"}
  /\ None \notin Upstreams \cup StreamIds \cup CallIds \cup Config \cup Nat
  /\ Local \notin Upstreams
ASSUME PingAssumption ==
  /\ PingTimeout \in Nat /\ PingInterval \in Nat
  /\ PingTimeout < PingInterval
ASSUME BoundAssumption == MaxPolicies \in Nat /\ MaxQueued \in Nat

VARIABLES
  \* statics of each VM: CONFIG (with CONFIGURED), POLICY, LEAKSIGNAL_UPSTREAM
  config, policy, upstream,
  \* the root's EnvoyRootContext; last_ping_sent is the age of the ping in ticks
  policy_update_queues, policy_stream_id, last_ping_sent, last_ping_data,
  \* a filter's EnvoyRootContext: whether it resolved the collector's queue
  worker_register_queue,
  \* the host: the register queue, each worker's queue, the VMs it destroyed,
  \* the target of each open stream, the streams a request was sent on, the
  \* calls that are not answered yet
  register_queue, policy_queue, gone, streams, requested, calls,
  \* history: origins of the policies the root adopted; the workers whose last
  \* message of a kind the host refused
  published, missed

rootVars   == <<policy_stream_id, last_ping_sent, last_ping_data>>
hostVars   == <<streams, requested, calls>>
workerVars == <<policy_update_queues, policy_queue, missed>>
joinVars   == <<worker_register_queue, register_queue, gone>>
dataVars   == <<policy, upstream, published>>
vars == <<config, dataVars, rootVars, hostVars, workerVars, joinVars>>

TypeOK ==
  /\ config \in [VMs -> Config \cup {None}]
  /\ policy \in [VMs -> Nat \cup {OwnPolicy}]
  /\ policy[Root] \in Nat
  /\ upstream \in [VMs -> Upstreams \cup {None}]
  /\ policy_update_queues \subseteq Workers
  /\ policy_stream_id \in StreamIds \cup {None}
  /\ last_ping_sent \in (0 .. PingInterval) \cup {None}
  /\ last_ping_data \in CallIds \cup {None}
  /\ worker_register_queue \in [Workers -> BOOLEAN]
  /\ register_queue \in Seq(Workers)
  /\ policy_queue \in [Workers -> Seq(Message)]
  /\ gone \subseteq Workers
  /\ streams \in [StreamIds -> Upstreams \cup {None}]
  /\ requested \subseteq StreamIds
  /\ calls \subseteq CallIds
  /\ published \in Seq(Origins)
  /\ missed \subseteq Workers \X Kinds

Init ==
  /\ config = [v \in VMs |-> None]
  /\ policy = [v \in VMs |-> NoPolicy]
  /\ upstream = [v \in VMs |-> None]
  /\ policy_update_queues = {}
  /\ policy_stream_id = None
  /\ last_ping_sent = None
  /\ last_ping_data = None
  /\ worker_register_queue = [w \in Workers |-> FALSE]
  /\ register_queue = <<>>
  /\ policy_queue = [w \in Workers |-> <<>>]
  /\ gone = {}
  /\ streams = [t \in StreamIds |-> None]
  /\ requested = {}
  /\ calls = {}
  /\ published = <<>>
  /\ missed = {}

-----------------------------------------------------------------------------
(***************************************************************************)
(* Messages from the collector to its filters.                             *)
(***************************************************************************)
PolicyUpdate(n)   == [kind |-> "policy", value |-> n]
UpstreamUpdate(u) == [kind |-> "upstream", value |-> u]

\* Faulty variant: messages overtake the ones that wait.
PushedInFront(q, kinds, n, u) ==
  LET withPolicy == IF "policy" \in kinds THEN <<PolicyUpdate(n)>> \o q ELSE q
  IN  IF "upstream" \in kinds
      THEN <<UpstreamUpdate(u)>> \o withPolicy ELSE withPolicy

\* The queue q after the host took the messages of `kinds`, in this order.
Pushed(q, kinds, n, u) ==
  LET withPolicy == IF "policy" \in kinds THEN Append(q, PolicyUpdate(n)) ELSE q
  IN  IF "upstream" \in kinds
      THEN Append(withPolicy, UpstreamUpdate(u)) ELSE withPolicy

\* enqueue_shared_queue of the messages of `kinds` to each running worker of ws;
\* the host may refuse some of them, which the code logs and forgets.
Enqueue(ws, kinds, n, u) ==
  \E refused \in SUBSET ((ws \cap Unreliable) \X kinds) :
    /\ policy_queue' =
         [w \in Workers |->
           IF w \in ws
           THEN Pushed(policy_queue[w], {k \in kinds : <<w, k>> \notin refused}, n, u)
           ELSE policy_queue[w]]
    /\ missed' = (missed \ (ws \X kinds)) \cup refused

\* broadcast_to_workers, for the messages of `kinds` that one callback sends: a
\* queue that is NotFound leaves the list, one refused otherwise stays.
Broadcast(kinds, n, u) ==
  IF Mode = "LocalCollector" /\ kinds # {}
  THEN /\ Enqueue(policy_update_queues \ gone, kinds, n, u)
       /\ policy_update_queues' = policy_update_queues \ gone
  ELSE UNCHANGED workerVars

\* update_policy at the root: the next policy of the root comes from `origin`.
AdoptPolicy(origin) ==
  /\ Len(published) < MaxPolicies
  /\ published' = Append(published, origin)
  /\ policy' = [policy EXCEPT ![Root] = Len(published) + 1]

-----------------------------------------------------------------------------
(***************************************************************************)
(* The policy stream and the ping.                                         *)
(***************************************************************************)
\* The token check of the stream callbacks; faulty variant: any stream will do.
SomePolicyStream(t) == policy_stream_id # None
IsPolicyStream(t) == t = policy_stream_id

\* open_grpc_stream, and the policy request unless a local policy is set.
OpenPolicyStream(u, conf) ==
  \/ \E t \in StreamIds :
       /\ streams[t] = None
       /\ streams' = [streams EXCEPT ![t] = u]
       /\ requested' = IF conf.local_policy THEN requested ELSE requested \cup {t}
       /\ policy_stream_id' = t
  \/ /\ policy_stream_id' = None
     /\ UNCHANGED <<streams, requested>>

\* try_start_update_policy of the root, its caller having left the stream id `id`
\* and the ping time `sent`.
TryStartUpdatePolicy(id, sent, u, conf) ==
  IF id = None /\ u # None
  THEN OpenPolicyStream(u, conf) /\ last_ping_sent' = None
  ELSE /\ policy_stream_id' = id
       /\ last_ping_sent' = sent
       /\ UNCHANGED <<streams, requested>>

\* dispatch_grpc_call of a ping: on an error the last ping's data stays.
DispatchPing(awaited) ==
  \/ \E c \in CallIds \ calls :
       calls' = calls \cup {c} /\ last_ping_data' = c
  \/ last_ping_data' = awaited /\ UNCHANGED calls

PingAge == IF last_ping_sent = None THEN None ELSE last_ping_sent + 1
\* Faulty variants: the timeout looks at a ping that was not sent; no second ping.
UnsentPingTimedOut == last_ping_data # None /\ last_ping_sent = None
PingDueOnce == last_ping_sent = None
PingTimedOut ==
  last_ping_data # None /\ last_ping_sent # None /\ PingAge > PingTimeout
PingDue == last_ping_sent = None \/ PingAge > PingInterval

OnTick ==
  /\ config[Root] # None
  /\ upstream[Root] # None
  /\ LET id == IF PingTimedOut THEN None ELSE policy_stream_id
         awaited == IF PingTimedOut THEN None ELSE last_ping_data
     IN IF PingDue
        THEN /\ DispatchPing(awaited)
             /\ TryStartUpdatePolicy(id, 0, upstream[Root], config[Root])
        ELSE /\ last_ping_data' = awaited
             /\ TryStartUpdatePolicy(id, PingAge, upstream[Root], config[Root])
             /\ UNCHANGED calls
  /\ UNCHANGED <<config, dataVars, workerVars, joinVars>>

\* The upstream answers a request with policies, as often as it likes.
OnGrpcStreamMessage(t) ==
  /\ streams[t] # None
  /\ t \in requested
  /\ \/ /\ IsPolicyStream(t)
        /\ AdoptPolicy(streams[t])
        /\ Broadcast({"policy"}, Len(published) + 1, None)
        /\ UNCHANGED <<config, upstream, rootVars, hostVars, joinVars>>
     \/ UNCHANGED vars      \* not the policy stream, or it does not parse

\* Faulty variant: the closed stream is not forgotten.
CloseKeepsStreamId(t) ==
  /\ streams[t] # None
  /\ streams' = [streams EXCEPT ![t] = None]
  /\ requested' = requested \ {t}
  /\ UNCHANGED <<config, dataVars, rootVars, calls, workerVars, joinVars>>

OnGrpcStreamClose(t) ==
  /\ streams[t] # None
  /\ streams' = [streams EXCEPT ![t] = None]
  /\ requested' = requested \ {t}
  /\ policy_stream_id' = IF IsPolicyStream(t) THEN None ELSE policy_stream_id
  /\ UNCHANGED <<config, dataVars, last_ping_sent, last_ping_data, calls,
                 workerVars, joinVars>>

\* Faulty variant: an error response leaves the ping pending.
FailureKeepsPing(c) ==
  /\ c \in calls
  /\ calls' = calls \ {c}
  /\ last_ping_data' \in {last_ping_data, None}
  /\ UNCHANGED <<config, dataVars, policy_stream_id, last_ping_sent, streams,
                 requested, workerVars, joinVars>>

\* A ping is over whatever its status and its body say.
OnGrpcCallResponse(c) ==
  /\ c \in calls
  /\ calls' = calls \ {c}
  /\ last_ping_data' = IF last_ping_data = c THEN None ELSE last_ping_data
  /\ UNCHANGED <<config, dataVars, policy_stream_id, last_ping_sent, streams,
                 requested, workerVars, joinVars>>

-----------------------------------------------------------------------------
(***************************************************************************)
(* on_configure.                                                           *)
(***************************************************************************)
\* Faulty variant: a change of the group is taken over.
ChangesNothing(v, conf) == FALSE

\* A change of the group (or of the mode, by the same early return) is ignored.
ChangesIdentity(v, conf) == config[v] # None /\ config[v].group # conf.group

\* The upstream of a configuration is None unless both upstream_cluster and
\* deployment_name are given.
ConfiguredUpstream(v, conf) ==
  IF conf.upstream # None THEN conf.upstream ELSE upstream[v]

\* CONFIG and LEAKSIGNAL_UPSTREAM; an upstream is never unset.
SetConfig(v, conf) ==
  /\ ~ChangesIdentity(v, conf)
  /\ config' = [config EXCEPT ![v] = conf]
  /\ upstream' = [upstream EXCEPT ![v] = ConfiguredUpstream(v, conf)]

SetLocalPolicy(conf) ==
  IF conf.local_policy THEN AdoptPolicy(Local) ELSE UNCHANGED <<policy, published>>

\* The first call starts the ticks and, in a collector, the register queue.
ConfigureRoot(conf) ==
  /\ config[Root] = None
  /\ SetConfig(Root, conf)
  /\ SetLocalPolicy(conf)
  /\ UNCHANGED <<rootVars, hostVars, workerVars, joinVars>>

\* Faulty variant: only the first upstream counts as a change.
UpstreamFirstSet(conf) == upstream[Root] = None /\ conf.upstream # None
UpstreamChanges(conf) == ConfiguredUpstream(Root, conf) # upstream[Root]

ReconfigureRoot(conf) ==
  /\ config[Root] # None
  /\ \A w \in Workers : Len(policy_queue[w]) < MaxQueued
  /\ SetConfig(Root, conf)
  /\ SetLocalPolicy(conf)
  /\ IF UpstreamChanges(conf)
     THEN TryStartUpdatePolicy(None, last_ping_sent, ConfiguredUpstream(Root, conf), conf)
     ELSE UNCHANGED <<policy_stream_id, last_ping_sent, streams, requested>>
  /\ Broadcast({k \in Kinds : \/ k = "policy" /\ conf.local_policy
                              \/ k = "upstream" /\ UpstreamChanges(conf)},
               Len(published) + 1, ConfiguredUpstream(Root, conf))
  /\ UNCHANGED <<last_ping_data, calls, joinVars>>

SetOwnPolicy(w, conf) ==
  policy' = IF conf.local_policy THEN [policy EXCEPT ![w] = OwnPolicy] ELSE policy

\* resolve_shared_queue of the collector's queue: it must be registered already.
CollectorQueueExists(group) ==
  /\ Mode = "LocalCollector"
  /\ config[Root] # None
  /\ config[Root].group = group

\* The first call of a filter: it looks for the collector once, and never again.
ConfigureFilter(w, conf) ==
  /\ config[w] = None
  /\ SetConfig(w, conf)
  /\ SetOwnPolicy(w, conf)
  /\ worker_register_queue' =
       [worker_register_queue EXCEPT ![w] = CollectorQueueExists(conf.group)]
  /\ register_queue' = IF CollectorQueueExists(conf.group)
                       THEN Append(register_queue, w) ELSE register_queue
  /\ UNCHANGED <<rootVars, hostVars, workerVars, published, gone>>

ReconfigureFilter(w, conf) ==
  /\ config[w] # None
  /\ w \notin gone
  /\ SetConfig(w, conf)
  /\ SetOwnPolicy(w, conf)
  /\ UNCHANGED <<rootVars, hostVars, workerVars, published, joinVars>>

IgnoreConfigure(v, conf) ==
  /\ v \notin gone
  /\ ChangesIdentity(v, conf)
  /\ UNCHANGED vars

-----------------------------------------------------------------------------
(***************************************************************************)
(* on_queue_ready, and the end of a filter VM.                             *)
(***************************************************************************)
\* The collector resolves the worker's queue and brings it up to date.
\* Faulty variants: without the policy; with a policy even if there is none; no
\* registration before there is a policy.
InitialUpstreamOnly == {"upstream"}
InitialAlwaysBoth == Kinds
ResolvesWithPolicy(w) ==
  w \notin gone /\ config[w].group = config[Root].group /\ policy[Root] # NoPolicy
InitialKinds == IF policy[Root] = NoPolicy THEN {"upstream"} ELSE Kinds

QueueResolves(w) == w \notin gone /\ config[w].group = config[Root].group

OnRegisterQueueReady ==
  /\ register_queue # <<>>
  /\ register_queue' = Tail(register_queue)
  /\ LET w == Head(register_queue) IN
       IF QueueResolves(w)
       THEN /\ Enqueue({w}, InitialKinds, policy[Root], upstream[Root])
            /\ policy_update_queues' = policy_update_queues \cup {w}
       ELSE UNCHANGED workerVars
  /\ UNCHANGED <<config, dataVars, rootVars, hostVars, worker_register_queue, gone>>

OnPolicyQueueReady(w) ==
  /\ w \notin gone
  /\ policy_queue[w] # <<>>
  /\ policy_queue' = [policy_queue EXCEPT ![w] = Tail(policy_queue[w])]
  /\ LET message == Head(policy_queue[w]) IN
       \/ /\ message.kind = "policy"
          /\ policy' = [policy EXCEPT ![w] = message.value]
          /\ UNCHANGED upstream
       \/ /\ message.kind = "upstream"
          /\ upstream' = [upstream EXCEPT ![w] = message.value]
          /\ UNCHANGED policy
  /\ UNCHANGED <<config, published, rootVars, hostVars, policy_update_queues,
                 missed, joinVars>>

\* The host destroys a filter VM and its queue (a worker thread ends, or it traps).
WorkerStops(w) ==
  /\ config[w] # None
  /\ w \notin gone
  /\ gone' = gone \cup {w}
  /\ policy_queue' = [policy_queue EXCEPT ![w] = <<>>]
  /\ UNCHANGED <<config, dataVars, rootVars, hostVars, policy_update_queues, missed,
                 worker_register_queue, register_queue>>

-----------------------------------------------------------------------------
RootNext ==
  \/ OnTick
  \/ \E t \in StreamIds : OnGrpcStreamMessage(t)
  \/ \E t \in StreamIds : OnGrpcStreamClose(t)
  \/ \E c \in CallIds : OnGrpcCallResponse(c)
  \/ \E conf \in RootConfigs : ConfigureRoot(conf)
  \/ \E conf \in RootConfigs : ReconfigureRoot(conf)
  \/ \E conf \in RootConfigs : IgnoreConfigure(Root, conf)
  \/ OnRegisterQueueReady

FilterNext(w) ==
  \/ \E conf \in FilterConfigs[w] : ConfigureFilter(w, conf)
  \/ \E conf \in FilterConfigs[w] : ReconfigureFilter(w, conf)
  \/ \E conf \in FilterConfigs[w] : IgnoreConfigure(w, conf)
  \/ OnPolicyQueueReady(w)
  \/ WorkerStops(w)

Next == RootNext \/ \E w \in Workers : FilterNext(w)

Spec == Init /\ [][Next]_vars

-----------------------------------------------------------------------------
(***************************************************************************)
(* Fairness.  The host's timer fires; the host runs the callback of every  *)
(* queue that holds a message; an upstream that can be reached again and   *)
(* again is reached once; and the host in the end closes a stream that the *)
(* root has dropped without closing it, which frees its token here.        *)
(***************************************************************************)
TickOpensStream == OnTick /\ policy_stream_id' # None
CloseDroppedStream(t) == ~IsPolicyStream(t) /\ OnGrpcStreamClose(t)

Fairness ==
  /\ WF_vars(OnTick)
  /\ SF_vars(TickOpensStream)
  /\ \A t \in StreamIds : WF_vars(CloseDroppedStream(t))
  /\ WF_vars(OnRegisterQueueReady)
  /\ \A w \in Workers : WF_vars(OnPolicyQueueReady(w))

FairSpec == Spec /\ Fairness

-----------------------------------------------------------------------------
(***************************************************************************)
(* Safety.                                                                 *)
(***************************************************************************)
\* The policy stream is one the host still has open, and it leads to the upstream
\* in use, whatever reconfigurations, closes and timeouts came before
\* (root.rs on_configure, on_grpc_stream_close, try_start_update_policy).
StreamTarget ==
  policy_stream_id # None => /\ streams[policy_stream_id] # None
                             /\ streams[policy_stream_id] = upstream[Root]

\* A tick drops the policy stream only while a ping is still unanswered: an
\* answered ping, even one answered late or with an error, never costs the stream
\* (root.rs on_tick, on_grpc_call_response).
StreamKept ==
  [][OnTick /\ policy_stream_id # None /\ policy_stream_id' # policy_stream_id
       => last_ping_data \in calls]_vars

\* The root takes a policy only from the upstream in use, or from its own
\* configuration: a policy that a dropped stream still delivers is not taken
\* (root.rs on_grpc_stream_message).
CurrentUpstreamOnly ==
  [][published' # published =>
       LET origin == published'[Len(published')] IN
         \/ origin = upstream'[Root]
         \/ origin = Local /\ config'[Root].local_policy]_vars

PoliciesQueued(w) == {i \in DOMAIN policy_queue[w] : policy_queue[w][i].kind = "policy"}
UpstreamsQueued(w) == {i \in DOMAIN policy_queue[w] : policy_queue[w][i].kind = "upstream"}

\* A registered filter has, or has on its way as the last policy in its queue, the
\* root's policy, unless the host refused that policy; only a local policy of its
\* own can stand in its place (root.rs on_queue_ready, broadcast_to_workers).
PolicyInSync ==
  \A w \in policy_update_queues \ gone : <<w, "policy">> \notin missed =>
    /\ \A i \in PoliciesQueued(w) :
         (\A j \in PoliciesQueued(w) : j <= i) => policy_queue[w][i].value = policy[Root]
    /\ PoliciesQueued(w) = {} => policy[w] \in {policy[Root], OwnPolicy}

\* A filter whose configurations leave the upstream to the collector.
Forwarded(w) == \A conf \in FilterConfigs[w] : conf.upstream = None

\* The same for the upstream of a filter that leaves it to the collector
\* (config.rs, root.rs on_queue_ready and on_configure).
UpstreamInSync ==
  \A w \in policy_update_queues \ gone :
    Forwarded(w) /\ <<w, "upstream">> \notin missed =>
      /\ \A i \in UpstreamsQueued(w) :
           (\A j \in UpstreamsQueued(w) : j <= i)
             => policy_queue[w][i].value = upstream[Root]
      /\ UpstreamsQueued(w) = {} => upstream[w] = upstream[Root]

\* A collector forwards its policies only to filters of its own group, whatever
\* either was configured with later (root.rs on_configure, config.rs group).
GroupIsolation ==
  \A w \in policy_update_queues \ gone : config[w].group = config[Root].group

\* Filters go through the root's policies in the order of adoption.
Replication ==
  INSTANCE PolicyReplication WITH view <- policy, Own <- OwnPolicy
ReplicationSpec == Replication!ReplicationSpec

-----------------------------------------------------------------------------
(***************************************************************************)
(* Liveness, under FairSpec.                                               *)
(***************************************************************************)
\* Once it has an upstream, a root without a policy stream gets one, however often
\* streams fail to open, close or are dropped (root.rs on_tick).
StreamRestarts ==
  upstream[Root] # None ~>
    /\ policy_stream_id # None
    /\ streams[policy_stream_id] # None

\* A stream does not outlive a ping that is never answered: the ping is answered or
\* replaced, or the stream goes (root.rs on_tick).
PingGivesUp ==
  \A t \in StreamIds, c \in CallIds :
    (policy_stream_id = t /\ last_ping_data = c)
      ~> ~(policy_stream_id = t /\ last_ping_data = c)

\* A filter that found the collector's queue is registered (root.rs on_queue_ready).
FoundIsRegistered ==
  \A w \in Workers : worker_register_queue[w] ~> (w \in policy_update_queues \cup gone)

\* A registered filter in the end uses the root's policy and upstream for good, if
\* the host refuses it nothing (root.rs on_queue_ready).
Converges ==
  \A w \in Workers \ Unreliable :
    <>[](w \in policy_update_queues \ gone)
      => <>[](/\ policy[w] \in {policy[Root], OwnPolicy}
              /\ Forwarded(w) => upstream[w] = upstream[Root])

-----------------------------------------------------------------------------
(***************************************************************************)
(* Statements of the repository that the code does not keep.               *)
(***************************************************************************)
\* root.rs:366 "Mode::Filter needs to call this only once": looking for the
\* collector once is enough for a filter to be registered.
FilterJoins ==
  \A w \in Workers : config[w] # None ~> (w \in policy_update_queues \cup gone)

\* The host configures the root in the end.
ConfiguresRoot == WF_vars(\E conf \in RootConfigs : ConfigureRoot(conf))
StartupSpec == FairSpec /\ ConfiguresRoot

\* config.rs:44 "If set, a policy is parsed and used instead of requesting a policy
\* from upstream/leaksignal command".
LocalPolicyUsed ==
  config[Root] # None =>
    (config[Root].local_policy =>
       policy[Root] # NoPolicy /\ published[policy[Root]] = Local)

\* The other side of the same sentence: without a local policy, the policy is
\* requested from upstream.  The stream that was opened beside a local policy never
\* carries a request; one that takes its place after a close, a ping that timed out
\* or a change of the upstream does.
PolicyRequested ==
  policy_stream_id # None /\ ~config[Root].local_policy
    => policy_stream_id \in requested

\* config.rs:32,35,38: the upstream "can be omitted on filters in favor of" the
\* collector's, so a filter for which it is given has one.
OwnUpstreamKept ==
  \A w \in Workers : config[w] # None =>
    (config[w].upstream # None => upstream[w] # None)
=============================================================================
