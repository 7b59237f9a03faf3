-------------------------- MODULE ControlPlaneProofs --------------------------
(***************************************************************************)
(* Proofs about ControlPlane, for every set of filters, configurations,    *)
(* upstreams and tokens: types, the policy stream, and that the filters    *)
(* stay in step with the collector and go through its policies in the      *)
(* order of adoption.                                                      *)
(***************************************************************************)
EXTENDS ControlPlane, SequenceTheorems, TLAPS

(***************************************************************************)
(* Types.                                                                  *)
(***************************************************************************)
\* What the host takes from the collector are messages.
LEMMA PushedType ==
  ASSUME NEW q \in Seq(Message), NEW kinds \in SUBSET Kinds,
         NEW n, "policy" \in kinds => n \in Nat \ {0},
         NEW u \in Upstreams \cup {None}
  PROVE  Pushed(q, kinds, n, u) \in Seq(Message)
<1>1. "policy" \in kinds => PolicyUpdate(n) \in Message
  BY DEF PolicyUpdate, Message
<1>2. UpstreamUpdate(u) \in Message
  BY DEF UpstreamUpdate, Message
<1>3. (IF "policy" \in kinds THEN Append(q, PolicyUpdate(n)) ELSE q) \in Seq(Message)
  BY <1>1, AppendProperties
<1> QED
  BY <1>2, <1>3, AppendProperties DEF Pushed

\* Messages that are sent leave the queues and the record of refusals well typed.
LEMMA EnqueueType ==
  ASSUME TypeOK, NEW ws \in SUBSET Workers, NEW kinds \in SUBSET Kinds,
         NEW n, "policy" \in kinds => n \in Nat \ {0},
         NEW u \in Upstreams \cup {None}, Enqueue(ws, kinds, n, u)
  PROVE  /\ policy_queue' \in [Workers -> Seq(Message)]
         /\ missed' \subseteq Workers \X Kinds
<1>1. PICK refused \in SUBSET ((ws \cap Unreliable) \X kinds) :
        /\ policy_queue' =
             [w \in Workers |->
               IF w \in ws
               THEN Pushed(policy_queue[w], {k \in kinds : <<w, k>> \notin refused}, n, u)
               ELSE policy_queue[w]]
        /\ missed' = (missed \ (ws \X kinds)) \cup refused
  BY DEF Enqueue
<1>2. ASSUME NEW w \in Workers
      PROVE  Pushed(policy_queue[w], {k \in kinds : <<w, k>> \notin refused}, n, u)
               \in Seq(Message)
  <2> DEFINE taken == {k \in kinds : <<w, k>> \notin refused}
  <2>1. taken \in SUBSET Kinds /\ ("policy" \in taken => n \in Nat \ {0})
    OBVIOUS
  <2>2. policy_queue[w] \in Seq(Message)
    BY DEF TypeOK
  <2> HIDE DEF taken
  <2>3. Pushed(policy_queue[w], taken, n, u) \in Seq(Message)
    BY <2>1, <2>2, PushedType
  <2> QED
    BY <2>3 DEF taken
<1>3. policy_queue' \in [Workers -> Seq(Message)]
  BY <1>1, <1>2 DEF TypeOK
<1>4. missed' \subseteq Workers \X Kinds
  BY <1>1 DEF TypeOK
<1> QED
  BY <1>3, <1>4

LEMMA BroadcastType ==
  ASSUME TypeOK, NEW kinds \in SUBSET Kinds,
         NEW n, "policy" \in kinds => n \in Nat \ {0},
         NEW u \in Upstreams \cup {None}, Broadcast(kinds, n, u)
  PROVE  /\ policy_queue' \in [Workers -> Seq(Message)]
         /\ missed' \subseteq Workers \X Kinds
         /\ policy_update_queues' \subseteq Workers
<1>1. CASE Mode = "LocalCollector" /\ kinds # {}
  <2>1. policy_update_queues \ gone \in SUBSET Workers
    BY DEF TypeOK
  <2>2. Enqueue(policy_update_queues \ gone, kinds, n, u)
        /\ policy_update_queues' = policy_update_queues \ gone
    BY <1>1 DEF Broadcast
  <2> QED
    BY <2>1, <2>2, EnqueueType DEF TypeOK
<1>2. CASE ~(Mode = "LocalCollector" /\ kinds # {})
  BY <1>2 DEF Broadcast, workerVars, TypeOK
<1> QED
  BY <1>1, <1>2

LEMMA AdoptType ==
  ASSUME TypeOK, NEW origin \in Origins, AdoptPolicy(origin)
  PROVE  /\ policy' \in [VMs -> Nat \cup {OwnPolicy}]
         /\ policy'[Root] \in Nat
         /\ published' \in Seq(Origins)
         /\ Len(published) + 1 \in Nat \ {0}
<1>1. published \in Seq(Origins) /\ Len(published) \in Nat
  BY LenProperties DEF TypeOK
<1>2. published' \in Seq(Origins)
  BY <1>1, AppendProperties DEF AdoptPolicy
<1>3. policy' \in [VMs -> Nat \cup {OwnPolicy}] /\ policy'[Root] \in Nat
  BY <1>1 DEF TypeOK, AdoptPolicy, VMs
<1> QED
  BY <1>1, <1>2, <1>3

\* try_start_update_policy leaves a stream id, a table of streams and a ping time.
LEMMA TryStartType ==
  ASSUME TypeOK, NEW id \in StreamIds \cup {None},
         NEW sent \in (0 .. PingInterval) \cup {None},
         NEW u \in Upstreams \cup {None}, NEW conf,
         TryStartUpdatePolicy(id, sent, u, conf)
  PROVE  /\ policy_stream_id' \in StreamIds \cup {None}
         /\ last_ping_sent' \in (0 .. PingInterval) \cup {None}
         /\ streams' \in [StreamIds -> Upstreams \cup {None}]
         /\ requested' \subseteq StreamIds
  BY DEF TypeOK, TryStartUpdatePolicy, OpenPolicyStream

LEMMA SetConfigType ==
  ASSUME TypeOK, NEW v \in VMs, NEW conf \in Config, SetConfig(v, conf)
  PROVE  /\ config' \in [VMs -> Config \cup {None}]
         /\ upstream' \in [VMs -> Upstreams \cup {None}]
         /\ ConfiguredUpstream(v, conf) \in Upstreams \cup {None}
  BY DEF TypeOK, SetConfig, ConfiguredUpstream, Config

LEMMA InitType == Init => TypeOK
<1> SUFFICES ASSUME Init PROVE TypeOK
  OBVIOUS
<1>1. /\ <<>> \in Seq(Workers) /\ <<>> \in Seq(Message) /\ <<>> \in Seq(Origins)
  BY EmptySeq
<1>2. None \in (0 .. PingInterval) \cup {None}
  OBVIOUS
<1> QED
  BY <1>1, <1>2 DEF Init, TypeOK, VMs, NoPolicy, OwnPolicy

LEMMA StepType == TypeOK /\ [Next]_vars => TypeOK'
<1> SUFFICES ASSUME TypeOK, [Next]_vars PROVE TypeOK'
  OBVIOUS
<1> USE DEF rootVars, hostVars, workerVars, joinVars, dataVars
<1>1. CASE OnTick
  <2>1. /\ last_ping_data' \in CallIds \cup {None}
        /\ calls' \subseteq CallIds
    BY <1>1 DEF OnTick, DispatchPing, TypeOK
  <2>2. ASSUME PingDue
        PROVE  \E id \in StreamIds \cup {None} :
                 TryStartUpdatePolicy(id, 0, upstream[Root], config[Root])
    BY <1>1, <2>2 DEF OnTick, TypeOK
  <2>3. ASSUME ~PingDue
        PROVE  /\ PingAge \in 0 .. PingInterval
               /\ \E id \in StreamIds \cup {None} :
                    TryStartUpdatePolicy(id, PingAge, upstream[Root], config[Root])
    <3>1. last_ping_sent \in 0 .. PingInterval /\ PingAge = last_ping_sent + 1
      BY <2>3 DEF PingDue, PingAge, TypeOK
    <3>2. ~(PingAge > PingInterval)
      BY <2>3 DEF PingDue
    <3>3. PingAge \in 0 .. PingInterval
      BY <3>1, <3>2, PingAssumption
    <3> QED
      BY <1>1, <2>3, <3>3 DEF OnTick, TypeOK
  <2>4. upstream[Root] \in Upstreams \cup {None}
    BY DEF TypeOK, VMs
  <2>5. 0 \in 0 .. PingInterval
    BY PingAssumption
  <2>6. /\ policy_stream_id' \in StreamIds \cup {None}
        /\ last_ping_sent' \in (0 .. PingInterval) \cup {None}
        /\ streams' \in [StreamIds -> Upstreams \cup {None}]
        /\ requested' \subseteq StreamIds
    BY <2>2, <2>3, <2>4, <2>5, TryStartType
  <2> QED
    BY <1>1, <2>1, <2>6 DEF OnTick, TypeOK
<1>2. ASSUME NEW t \in StreamIds, OnGrpcStreamMessage(t) PROVE TypeOK'
  <2>1. CASE UNCHANGED vars
    BY <2>1 DEF vars, TypeOK
  <2>2. CASE ~UNCHANGED vars
    <3>1. streams[t] \in Origins
      BY <1>2 DEF OnGrpcStreamMessage, TypeOK, Origins
    <3>2. AdoptPolicy(streams[t]) /\ Broadcast({"policy"}, Len(published) + 1, None)
      BY <1>2, <2>2 DEF OnGrpcStreamMessage
    <3>3. /\ policy' \in [VMs -> Nat \cup {OwnPolicy}]
          /\ policy'[Root] \in Nat
          /\ published' \in Seq(Origins)
          /\ Len(published) + 1 \in Nat \ {0}
      BY <3>1, <3>2, AdoptType
    <3>4. {"policy"} \in SUBSET Kinds
      BY DEF Kinds
    <3>5. /\ policy_queue' \in [Workers -> Seq(Message)]
          /\ missed' \subseteq Workers \X Kinds
          /\ policy_update_queues' \subseteq Workers
      BY <3>2, <3>3, <3>4, BroadcastType
    <3>6. UNCHANGED <<config, upstream, rootVars, hostVars, joinVars>>
      BY <1>2, <2>2 DEF OnGrpcStreamMessage
    <3> QED
      BY <3>3, <3>5, <3>6 DEF TypeOK
  <2> QED
    BY <2>1, <2>2
<1>3. ASSUME NEW t \in StreamIds, OnGrpcStreamClose(t) PROVE TypeOK'
  BY <1>3 DEF OnGrpcStreamClose, TypeOK
<1>4. ASSUME NEW c \in CallIds, OnGrpcCallResponse(c) PROVE TypeOK'
  BY <1>4 DEF OnGrpcCallResponse, TypeOK
<1>5. ASSUME NEW conf \in RootConfigs, SetLocalPolicy(conf)
      PROVE  /\ policy' \in [VMs -> Nat \cup {OwnPolicy}]
             /\ policy'[Root] \in Nat
             /\ published' \in Seq(Origins)
  <2>1. Local \in Origins
    BY DEF Origins
  <2> QED
    BY <1>5, <2>1, AdoptType DEF SetLocalPolicy, TypeOK
<1>6. ASSUME NEW conf \in RootConfigs, ConfigureRoot(conf) PROVE TypeOK'
  <2>1. conf \in Config /\ Root \in VMs
    BY ConfigAssumption DEF VMs
  <2>2. /\ config' \in [VMs -> Config \cup {None}]
        /\ upstream' \in [VMs -> Upstreams \cup {None}]
    BY <1>6, <2>1, SetConfigType DEF ConfigureRoot
  <2> QED
    BY <1>5, <1>6, <2>2 DEF ConfigureRoot, TypeOK
<1>7. ASSUME NEW conf \in RootConfigs, ReconfigureRoot(conf) PROVE TypeOK'
  <2> DEFINE kinds == {k \in Kinds : \/ k = "policy" /\ conf.local_policy
                                     \/ k = "upstream" /\ UpstreamChanges(conf)}
             u == ConfiguredUpstream(Root, conf)
  <2>1. conf \in Config /\ Root \in VMs
    BY ConfigAssumption DEF VMs
  <2>2. /\ config' \in [VMs -> Config \cup {None}]
        /\ upstream' \in [VMs -> Upstreams \cup {None}]
        /\ u \in Upstreams \cup {None}
    BY <1>7, <2>1, SetConfigType DEF ReconfigureRoot
  <2>3. /\ policy' \in [VMs -> Nat \cup {OwnPolicy}]
        /\ policy'[Root] \in Nat
        /\ published' \in Seq(Origins)
    BY <1>5, <1>7 DEF ReconfigureRoot
  <2>4. /\ policy_stream_id' \in StreamIds \cup {None}
        /\ last_ping_sent' \in (0 .. PingInterval) \cup {None}
        /\ streams' \in [StreamIds -> Upstreams \cup {None}]
        /\ requested' \subseteq StreamIds
    <3>1. CASE UpstreamChanges(conf)
      <4>1. TryStartUpdatePolicy(None, last_ping_sent, u, conf)
        BY <1>7, <3>1 DEF ReconfigureRoot
      <4>2. last_ping_sent \in (0 .. PingInterval) \cup {None}
        BY DEF TypeOK
      <4> HIDE DEF u
      <4> QED
        BY <2>2, <4>1, <4>2, TryStartType
    <3>2. CASE ~UpstreamChanges(conf)
      BY <1>7, <3>2 DEF ReconfigureRoot, TypeOK
    <3> QED
      BY <3>1, <3>2
  <2>5. /\ policy_queue' \in [Workers -> Seq(Message)]
        /\ missed' \subseteq Workers \X Kinds
        /\ policy_update_queues' \subseteq Workers
    <3>1. Len(published) + 1 \in Nat \ {0}
      BY LenProperties DEF TypeOK
    <3>2. kinds \in SUBSET Kinds
      OBVIOUS
    <3>3. Broadcast(kinds, Len(published) + 1, u)
      BY <1>7 DEF ReconfigureRoot
    <3> HIDE DEF kinds, u
    <3> QED
      BY <2>2, <3>1, <3>2, <3>3, BroadcastType
  <2>6. UNCHANGED <<last_ping_data, calls, joinVars>>
    BY <1>7 DEF ReconfigureRoot
  <2> QED
    BY <2>2, <2>3, <2>4, <2>5, <2>6 DEF TypeOK
<1>8. ASSUME NEW v \in VMs, NEW conf, IgnoreConfigure(v, conf) PROVE TypeOK'
  BY <1>8 DEF IgnoreConfigure, vars, TypeOK
<1>9. CASE OnRegisterQueueReady
  <2>1. /\ Head(register_queue) \in Workers
        /\ register_queue' \in Seq(Workers)
    BY <1>9, HeadTailProperties DEF OnRegisterQueueReady, TypeOK
  <2>2. CASE QueueResolves(Head(register_queue))
    <3> DEFINE w == Head(register_queue)
    <3>1. InitialKinds \in SUBSET Kinds
          /\ ("policy" \in InitialKinds => policy[Root] \in Nat \ {0})
      <4>1. policy[Root] \in Nat \cup {OwnPolicy}
        BY DEF TypeOK, VMs
      <4>2. policy[Root] # OwnPolicy
        BY DEF TypeOK, OwnPolicy
      <4> QED
        BY <4>1, <4>2 DEF InitialKinds, Kinds, NoPolicy
    <3>2. Enqueue({w}, InitialKinds, policy[Root], upstream[Root])
      BY <1>9, <2>2 DEF OnRegisterQueueReady
    <3>3. upstream[Root] \in Upstreams \cup {None}
      BY DEF TypeOK, VMs
    <3>4. /\ policy_queue' \in [Workers -> Seq(Message)]
          /\ missed' \subseteq Workers \X Kinds
      BY <2>1, <3>1, <3>2, <3>3, EnqueueType
    <3>5. policy_update_queues' \subseteq Workers
      BY <1>9, <2>1, <2>2 DEF OnRegisterQueueReady, TypeOK
    <3> QED
      BY <1>9, <2>1, <3>4, <3>5 DEF OnRegisterQueueReady, TypeOK
  <2>3. CASE ~QueueResolves(Head(register_queue))
    BY <1>9, <2>1, <2>3 DEF OnRegisterQueueReady, TypeOK
  <2> QED
    BY <2>2, <2>3
<1>10. ASSUME NEW w \in Workers, NEW conf \in FilterConfigs[w],
              \/ ConfigureFilter(w, conf) \/ ReconfigureFilter(w, conf)
       PROVE  TypeOK'
  <2>1. conf \in Config /\ w \in VMs
    BY ConfigAssumption DEF VMs
  <2>2. SetConfig(w, conf) /\ SetOwnPolicy(w, conf)
    BY <1>10 DEF ConfigureFilter, ReconfigureFilter
  <2>3. /\ config' \in [VMs -> Config \cup {None}]
        /\ upstream' \in [VMs -> Upstreams \cup {None}]
    BY <2>1, <2>2, SetConfigType
  <2>4. policy' \in [VMs -> Nat \cup {OwnPolicy}] /\ policy'[Root] \in Nat
    BY <2>1, <2>2, NameAssumption DEF SetOwnPolicy, TypeOK, VMs
  <2>5. /\ worker_register_queue' \in [Workers -> BOOLEAN]
        /\ register_queue' \in Seq(Workers)
    <3>1. CollectorQueueExists(conf.group) \in BOOLEAN
      BY DEF CollectorQueueExists
    <3>2. /\ worker_register_queue \in [Workers -> BOOLEAN]
          /\ register_queue \in Seq(Workers) /\ Append(register_queue, w) \in Seq(Workers)
      BY AppendProperties DEF TypeOK
    <3> QED
      BY <1>10, <3>1, <3>2 DEF ConfigureFilter, ReconfigureFilter
  <2> QED
    BY <1>10, <2>3, <2>4, <2>5 DEF ConfigureFilter, ReconfigureFilter, TypeOK
<1>11. ASSUME NEW w \in Workers, OnPolicyQueueReady(w) PROVE TypeOK'
  <2>1. policy_queue[w] \in Seq(Message) /\ policy_queue[w] # <<>>
    BY <1>11 DEF OnPolicyQueueReady, TypeOK
  <2>2. Head(policy_queue[w]) \in Message /\ Tail(policy_queue[w]) \in Seq(Message)
    BY <2>1, HeadTailProperties
  <2>3. policy_queue' \in [Workers -> Seq(Message)]
    BY <1>11, <2>2 DEF OnPolicyQueueReady, TypeOK
  <2>4. /\ policy' \in [VMs -> Nat \cup {OwnPolicy}]
        /\ policy'[Root] \in Nat
        /\ upstream' \in [VMs -> Upstreams \cup {None}]
    BY <1>11, <2>2, NameAssumption DEF OnPolicyQueueReady, TypeOK, Message, VMs
  <2> QED
    BY <1>11, <2>3, <2>4 DEF OnPolicyQueueReady, TypeOK
<1>12. ASSUME NEW w \in Workers, WorkerStops(w) PROVE TypeOK'
  <2>1. <<>> \in Seq(Message)
    BY EmptySeq
  <2> QED
    BY <1>12, <2>1 DEF WorkerStops, TypeOK
<1>13. CASE UNCHANGED vars
  BY <1>13 DEF vars, TypeOK
<1>14. Root \in VMs /\ \A w \in Workers : w \in VMs
  BY DEF VMs
<1> QED
  BY <1>1, <1>2, <1>3, <1>4, <1>6, <1>7, <1>8, <1>9, <1>10, <1>11, <1>12, <1>13, <1>14
  DEF Next, RootNext, FilterNext

\* The variables keep their types, whatever the host and the upstream do
\* (the statics of config.rs and policy.rs, EnvoyRootContext of root.rs).
THEOREM TypeCorrect == Spec => []TypeOK
<1>1. Init => TypeOK
  BY InitType
<1>2. TypeOK /\ [Next]_vars => TypeOK'
  BY StepType
<1> QED
  BY <1>1, <1>2, PTL DEF Spec

-----------------------------------------------------------------------------
(***************************************************************************)
(* The policy stream and the ping.                                         *)
(***************************************************************************)
\* The ping that the root waits for is one the host has not answered.
PingAwaited == last_ping_data # None => last_ping_data \in calls

\* A root that is not configured yet has no stream.
Unconnected == config[Root] = None => policy_stream_id = None

StreamInv == TypeOK /\ StreamTarget /\ PingAwaited /\ Unconnected

\* Opening a stream, or leaving one that is right for u alone, is right for u.
LEMMA TryStartTarget ==
  ASSUME TypeOK, NEW id \in StreamIds \cup {None}, NEW sent,
         NEW u \in Upstreams \cup {None}, NEW conf,
         id # None => streams[id] # None /\ streams[id] = u,
         TryStartUpdatePolicy(id, sent, u, conf)
  PROVE  policy_stream_id' # None =>
           streams'[policy_stream_id'] # None /\ streams'[policy_stream_id'] = u
  BY DEF TypeOK, TryStartUpdatePolicy, OpenPolicyStream

LEMMA InitStream == Init => StreamTarget /\ PingAwaited /\ Unconnected
  BY DEF Init, StreamTarget, PingAwaited, Unconnected

LEMMA StepStream == StreamInv /\ [Next]_vars => StreamTarget' /\ PingAwaited' /\ Unconnected'
<1> SUFFICES ASSUME StreamInv, [Next]_vars PROVE StreamTarget' /\ PingAwaited' /\ Unconnected'
  OBVIOUS
<1> USE DEF rootVars, hostVars, workerVars, joinVars, dataVars
<1>1. TypeOK /\ StreamTarget /\ PingAwaited /\ Unconnected
  BY DEF StreamInv
<1>2. Root \in VMs /\ upstream[Root] \in Upstreams \cup {None}
  BY <1>1 DEF TypeOK, VMs
<1>3. CASE OnTick
  <2>1. upstream' = upstream
    BY <1>3 DEF OnTick
  <2>2. PICK id, sent :
          /\ id \in StreamIds \cup {None}
          /\ id # None => streams[id] # None /\ streams[id] = upstream[Root]
          /\ TryStartUpdatePolicy(id, sent, upstream[Root], config[Root])
    <3>1. ASSUME NEW id, id = IF PingTimedOut THEN None ELSE policy_stream_id
          PROVE  /\ id \in StreamIds \cup {None}
                 /\ id # None => streams[id] # None /\ streams[id] = upstream[Root]
      BY <1>1, <3>1 DEF StreamTarget, TypeOK
    <3>2. \E sent : TryStartUpdatePolicy(IF PingTimedOut THEN None ELSE policy_stream_id,
                                         sent, upstream[Root], config[Root])
      BY <1>3 DEF OnTick
    <3> QED
      BY <3>1, <3>2
  <2>3. StreamTarget'
    BY <1>1, <1>2, <2>1, <2>2, TryStartTarget DEF StreamTarget
  <2>4. PingAwaited'
    BY <1>1, <1>3 DEF OnTick, DispatchPing, PingAwaited
  <2>5. Unconnected'
    BY <1>3 DEF OnTick, Unconnected
  <2> QED
    BY <2>3, <2>4, <2>5
<1>4. ASSUME NEW t \in StreamIds, OnGrpcStreamMessage(t)
      PROVE  StreamTarget' /\ PingAwaited' /\ Unconnected'
  BY <1>1, <1>4 DEF OnGrpcStreamMessage, StreamTarget, PingAwaited, Unconnected, vars
<1>5. ASSUME NEW t \in StreamIds, OnGrpcStreamClose(t)
      PROVE  StreamTarget' /\ PingAwaited' /\ Unconnected'
  BY <1>1, <1>5 DEF OnGrpcStreamClose, IsPolicyStream, StreamTarget, PingAwaited, Unconnected, TypeOK
<1>6. ASSUME NEW c \in CallIds, OnGrpcCallResponse(c)
      PROVE  StreamTarget' /\ PingAwaited' /\ Unconnected'
  BY <1>1, <1>6 DEF OnGrpcCallResponse, StreamTarget, PingAwaited, Unconnected
<1>7. ASSUME NEW conf \in RootConfigs, ConfigureRoot(conf)
      PROVE  StreamTarget' /\ PingAwaited' /\ Unconnected'
  <2>1. conf \in Config /\ conf # None
    BY ConfigAssumption, NameAssumption
  <2>2. policy_stream_id = None /\ config'[Root] # None
    BY <1>1, <1>2, <1>7, <2>1 DEF ConfigureRoot, SetConfig, Unconnected, TypeOK
  <2> QED
    BY <1>1, <1>7, <2>2 DEF ConfigureRoot, StreamTarget, PingAwaited, Unconnected
<1>8. ASSUME NEW conf \in RootConfigs, ReconfigureRoot(conf)
      PROVE  StreamTarget' /\ PingAwaited' /\ Unconnected'
  <2> DEFINE u == ConfiguredUpstream(Root, conf)
  <2>1. conf \in Config
    BY ConfigAssumption
  <2>2. u \in Upstreams \cup {None} /\ upstream'[Root] = u
    BY <1>1, <1>2, <1>8, <2>1
    DEF ReconfigureRoot, SetConfig, ConfiguredUpstream, Config, TypeOK
  <2>3. StreamTarget'
    <3>1. CASE UpstreamChanges(conf)
      <4>1. TryStartUpdatePolicy(None, last_ping_sent, u, conf)
        BY <1>8, <3>1 DEF ReconfigureRoot
      <4> HIDE DEF u
      <4> QED
        BY <1>1, <2>2, <4>1, TryStartTarget DEF StreamTarget
    <3>2. CASE ~UpstreamChanges(conf)
      BY <1>1, <1>8, <2>2, <3>2 DEF ReconfigureRoot, UpstreamChanges, StreamTarget
    <3> QED
      BY <3>1, <3>2
  <2>4. PingAwaited'
    BY <1>1, <1>8 DEF ReconfigureRoot, PingAwaited
  <2>5. Unconnected'
    BY <1>1, <1>2, <1>8, <2>1, NameAssumption
    DEF ReconfigureRoot, SetConfig, Unconnected, TypeOK
  <2> QED
    BY <2>3, <2>4, <2>5
<1>9. ASSUME NEW w \in Workers, NEW conf \in FilterConfigs[w],
             \/ ConfigureFilter(w, conf) \/ ReconfigureFilter(w, conf)
      PROVE  StreamTarget' /\ PingAwaited' /\ Unconnected'
  <2>1. upstream'[Root] = upstream[Root]
    BY <1>1, <1>2, <1>9, NameAssumption
    DEF ConfigureFilter, ReconfigureFilter, SetConfig, TypeOK
  <2>2. config'[Root] = config[Root]
    BY <1>1, <1>2, <1>9, NameAssumption
    DEF ConfigureFilter, ReconfigureFilter, SetConfig, TypeOK
  <2> QED
    BY <1>1, <1>9, <2>1, <2>2
    DEF ConfigureFilter, ReconfigureFilter, StreamTarget, PingAwaited, Unconnected
<1>10. ASSUME NEW w \in Workers, OnPolicyQueueReady(w)
       PROVE  StreamTarget' /\ PingAwaited' /\ Unconnected'
  <2>1. upstream'[Root] = upstream[Root]
    BY <1>1, <1>2, <1>10, NameAssumption DEF OnPolicyQueueReady, TypeOK
  <2> QED
    BY <1>1, <1>10, <2>1 DEF OnPolicyQueueReady, StreamTarget, PingAwaited, Unconnected
<1>11. CASE \/ OnRegisterQueueReady \/ UNCHANGED vars
            \/ \E w \in Workers : WorkerStops(w)
            \/ \E v \in VMs : \E conf : IgnoreConfigure(v, conf)
  BY <1>1, <1>11
  DEF OnRegisterQueueReady, WorkerStops, IgnoreConfigure, vars, StreamTarget, PingAwaited, Unconnected
<1>12. \A w \in Workers : w \in VMs
  BY DEF VMs
<1> QED
  BY <1>2, <1>3, <1>4, <1>5, <1>6, <1>7, <1>8, <1>9, <1>10, <1>11, <1>12
  DEF Next, RootNext, FilterNext

LEMMA StreamInvariant == Spec => []StreamInv
<1>1. Init => StreamInv
  BY InitType, InitStream DEF StreamInv
<1>2. StreamInv /\ [Next]_vars => StreamInv'
  BY StepType, StepStream DEF StreamInv
<1> QED
  BY <1>1, <1>2, PTL DEF Spec

\* The policy stream is open at the host and leads to the upstream in use
\* (root.rs on_configure, on_grpc_stream_close, try_start_update_policy).
THEOREM StreamTargetHolds == Spec => []StreamTarget
<1>1. StreamInv => StreamTarget
  BY DEF StreamInv
<1> QED
  BY <1>1, StreamInvariant, PTL

\* A tick drops the policy stream only for a ping that nobody answered
\* (root.rs on_tick, on_grpc_call_response).
THEOREM StreamKeptHolds == Spec => StreamKept
<1> DEFINE Kept == OnTick /\ policy_stream_id # None /\ policy_stream_id' # policy_stream_id
                     => last_ping_data \in calls
<1>1. StreamInv /\ [Next]_vars => [Kept]_vars
  <2> SUFFICES ASSUME StreamInv, OnTick, policy_stream_id # None,
                      policy_stream_id' # policy_stream_id
               PROVE  last_ping_data \in calls
    OBVIOUS
  <2>1. PingTimedOut
    BY DEF OnTick, TryStartUpdatePolicy
  <2> QED
    BY <2>1 DEF PingTimedOut, StreamInv, PingAwaited
<1> QED
  BY <1>1, StreamInvariant, PTL DEF Spec, StreamKept

\* The policy that is adopted last is the one adopted now.
LEMMA AdoptedLast ==
  ASSUME TypeOK, NEW origin \in Origins, AdoptPolicy(origin)
  PROVE  published'[Len(published')] = origin
  BY AppendProperties DEF TypeOK, AdoptPolicy

\* The root takes policies only from the upstream in use, or from its own
\* configuration (root.rs on_grpc_stream_message, on_configure).
THEOREM CurrentUpstreamOnlyHolds == Spec => CurrentUpstreamOnly
<1> DEFINE Source == \/ published'[Len(published')] = upstream'[Root]
                     \/ /\ published'[Len(published')] = Local
                        /\ config'[Root].local_policy
           Current == published' # published =>
                        LET origin == published'[Len(published')] IN
                          \/ origin = upstream'[Root]
                          \/ origin = Local /\ config'[Root].local_policy
<1>1. StreamInv /\ [Next]_vars => [Current]_vars
  <2> SUFFICES ASSUME StreamInv, Next, published' # published PROVE Source
    BY DEF vars
  <2> USE DEF rootVars, hostVars, workerVars, joinVars, dataVars
  <2>1. TypeOK /\ StreamTarget
    BY DEF StreamInv
  <2>2. ASSUME NEW t \in StreamIds, OnGrpcStreamMessage(t) PROVE Source
    <3>1. IsPolicyStream(t) /\ AdoptPolicy(streams[t]) /\ upstream' = upstream
      BY <2>2 DEF OnGrpcStreamMessage, vars
    <3>2. streams[t] \in Origins
      BY <2>1, <2>2 DEF OnGrpcStreamMessage, TypeOK, Origins
    <3>3. streams[t] = upstream[Root]
      <4>1. t = policy_stream_id /\ t # None
        BY <3>1, NameAssumption DEF IsPolicyStream
      <4> QED
        BY <2>1, <4>1 DEF StreamTarget
    <3> QED
      BY <2>1, <3>1, <3>2, <3>3, AdoptedLast
  <2>3. ASSUME NEW conf \in RootConfigs, SetConfig(Root, conf), SetLocalPolicy(conf)
        PROVE  Source
    <3>1. conf.local_policy /\ AdoptPolicy(Local)
      BY <2>3 DEF SetLocalPolicy
    <3>2. config'[Root] = conf
      BY <2>1, <2>3 DEF SetConfig, TypeOK, VMs
    <3>3. Local \in Origins
      BY DEF Origins
    <3> QED
      BY <2>1, <3>1, <3>2, <3>3, AdoptedLast
  <2>4. ASSUME NEW w \in Workers, FilterNext(w) PROVE published' = published
    BY <2>4 DEF FilterNext, ConfigureFilter, ReconfigureFilter, IgnoreConfigure,
                OnPolicyQueueReady, WorkerStops, vars
  <2>5. CASE \/ OnTick \/ OnRegisterQueueReady
             \/ \E t \in StreamIds : OnGrpcStreamClose(t)
             \/ \E c \in CallIds : OnGrpcCallResponse(c)
             \/ \E conf \in RootConfigs : IgnoreConfigure(Root, conf)
    BY <2>5 DEF OnTick, OnRegisterQueueReady, OnGrpcStreamClose, OnGrpcCallResponse,
                IgnoreConfigure, vars
  <2> QED
    BY <2>2, <2>3, <2>4, <2>5 DEF Next, RootNext, ConfigureRoot, ReconfigureRoot
<1> QED
  BY <1>1, StreamInvariant, PTL DEF Spec, CurrentUpstreamOnly

(***************************************************************************)
(* Replication.                                                            *)
(*                                                                         *)
(* The inductive invariant says what is true of a filter's queue together  *)
(* with what the filter has applied: the policies in the queue are in      *)
(* order, newer than the applied one and not newer than the root's; a      *)
(* filter that has not registered has received nothing; and a filter       *)
(* registers at most once, so it is never sent the same policy twice.      *)
(***************************************************************************)
(***************************************************************************)
(* Queues of messages.                                                     *)
(***************************************************************************)
IsPolicy(m) == m.kind = "policy"

\* The policies in the queue q of a filter that applied p, when the root is at n.
Ordered(q, p, n) ==
  /\ p <= n
  /\ \A i \in DOMAIN q : IsPolicy(q[i]) => p < q[i].value /\ q[i].value <= n
  /\ \A i, j \in DOMAIN q :
       i < j /\ IsPolicy(q[i]) /\ IsPolicy(q[j]) => q[i].value < q[j].value

NoneOf(q, k) == \A i \in DOMAIN q : q[i].kind # k

\* The last message of kind k in q, if there is one, carries v.
LatestIs(q, k, v) ==
  \A i \in DOMAIN q :
    /\ q[i].kind = k
    /\ \A j \in DOMAIN q : q[j].kind = k => j <= i
    => q[i].value = v

LEMMA MessageTypes ==
  /\ \A n \in Nat \ {0} : PolicyUpdate(n) \in Message /\ PolicyUpdate(n).value = n
                          /\ IsPolicy(PolicyUpdate(n)) /\ PolicyUpdate(n).kind = "policy"
  /\ \A u \in Upstreams \cup {None} :
       /\ UpstreamUpdate(u) \in Message /\ UpstreamUpdate(u).value = u
       /\ ~IsPolicy(UpstreamUpdate(u)) /\ UpstreamUpdate(u).kind = "upstream"
  /\ \A m \in Message : IsPolicy(m) => m.value \in Nat \ {0}
  /\ \A m \in Message : m.kind \in Kinds
BY DEF PolicyUpdate, UpstreamUpdate, Message, IsPolicy, Kinds

LEMMA OrderedAppendPolicy ==
  ASSUME NEW q \in Seq(Message), NEW p \in Int, NEW m \in Nat, NEW n \in Nat,
         Ordered(q, p, m), m < n
  PROVE  Ordered(Append(q, PolicyUpdate(n)), p, n)
<1>1. /\ Len(q) \in Nat
      /\ DOMAIN q = 1 .. Len(q)
      /\ DOMAIN Append(q, PolicyUpdate(n)) = 1 .. Len(q) + 1
      /\ \A i \in 1 .. Len(q) : Append(q, PolicyUpdate(n))[i] = q[i]
      /\ Append(q, PolicyUpdate(n))[Len(q) + 1] = PolicyUpdate(n)
  BY AppendProperties, LenProperties DEF PolicyUpdate
<1>2. PolicyUpdate(n).value = n /\ IsPolicy(PolicyUpdate(n))
  BY DEF PolicyUpdate, IsPolicy
<1>3. \A i \in 1 .. Len(q) : IsPolicy(q[i]) => q[i].value \in Nat
  <2>1. \A i \in 1 .. Len(q) : q[i] \in Message
    BY ElementOfSeq
  <2> QED
    BY <2>1, MessageTypes
<1> QED
  BY <1>1, <1>2, <1>3 DEF Ordered

LEMMA OrderedAppendUpstream ==
  ASSUME NEW q \in Seq(Message), NEW p \in Int, NEW n \in Nat, NEW u,
         Ordered(q, p, n)
  PROVE  Ordered(Append(q, UpstreamUpdate(u)), p, n)
<1>1. /\ Len(q) \in Nat
      /\ DOMAIN q = 1 .. Len(q)
      /\ DOMAIN Append(q, UpstreamUpdate(u)) = 1 .. Len(q) + 1
      /\ \A i \in 1 .. Len(q) : Append(q, UpstreamUpdate(u))[i] = q[i]
      /\ Append(q, UpstreamUpdate(u))[Len(q) + 1] = UpstreamUpdate(u)
  BY AppendProperties, LenProperties DEF UpstreamUpdate
<1>2. ~IsPolicy(UpstreamUpdate(u))
  BY DEF UpstreamUpdate, IsPolicy
<1> QED
  BY <1>1, <1>2 DEF Ordered

LEMMA OrderedLater ==
  ASSUME NEW q \in Seq(Message), NEW p \in Int, NEW m \in Nat, NEW n \in Nat,
         Ordered(q, p, m), m <= n
  PROVE  Ordered(q, p, n)
<1>1. \A i \in DOMAIN q : IsPolicy(q[i]) => q[i].value \in Nat
  <2>1. \A i \in DOMAIN q : q[i] \in Message
    BY ElementOfSeq, LenProperties
  <2> QED
    BY <2>1, MessageTypes
<1> QED
  BY <1>1 DEF Ordered

\* What is enqueued for a policy newer than all before keeps a queue in order.
LEMMA PushedOrdered ==
  ASSUME NEW q \in Seq(Message), NEW p \in Int, NEW m \in Nat, NEW n \in Nat,
         NEW kinds \in SUBSET Kinds, NEW l \in Nat, NEW u \in Upstreams \cup {None},
         Ordered(q, p, m), m <= n,
         "policy" \in kinds => l = n /\ m < n
  PROVE  Ordered(Pushed(q, kinds, l, u), p, n)
<1> DEFINE r == IF "policy" \in kinds THEN Append(q, PolicyUpdate(l)) ELSE q
<1>1. r \in Seq(Message) /\ Ordered(r, p, n)
  <2>1. CASE "policy" \in kinds
    <3>1. l = n /\ m < n /\ n \in Nat \ {0}
      BY <2>1
    <3>2. r = Append(q, PolicyUpdate(n))
      BY <2>1, <3>1
    <3>3. PolicyUpdate(n) \in Message
      BY <3>1, MessageTypes
    <3> QED
      BY <3>1, <3>2, <3>3, OrderedAppendPolicy, AppendProperties
  <2>2. CASE "policy" \notin kinds
    BY <2>2, OrderedLater
  <2> QED
    BY <2>1, <2>2
<1> HIDE DEF r
<1>2. Ordered(Append(r, UpstreamUpdate(u)), p, n)
  BY <1>1, OrderedAppendUpstream
<1> QED
  BY <1>1, <1>2 DEF Pushed, r

\* Taking the first message, and applying it if it is a policy.
LEMMA OrderedTail ==
  ASSUME NEW q \in Seq(Message), q # <<>>, NEW p \in Int, NEW n \in Nat,
         Ordered(q, p, n)
  PROVE  /\ Ordered(Tail(q), p, n)
         /\ IsPolicy(Head(q)) => /\ Ordered(Tail(q), Head(q).value, n)
                                 /\ p < Head(q).value /\ Head(q).value <= n
<1>1. /\ Len(q) \in Nat \ {0}
      /\ DOMAIN q = 1 .. Len(q)
      /\ Head(q) = q[1]
      /\ DOMAIN Tail(q) = 1 .. Len(q) - 1
      /\ \A i \in 1 .. Len(q) - 1 : Tail(q)[i] = q[i + 1]
  BY HeadTailProperties, LenProperties, EmptySeq
<1>2. \A i \in 1 .. Len(q) : IsPolicy(q[i]) => q[i].value \in Nat
  <2>1. \A i \in 1 .. Len(q) : q[i] \in Message
    BY ElementOfSeq
  <2> QED
    BY <2>1, MessageTypes
<1>3. Ordered(Tail(q), p, n)
  BY <1>1, <1>2 DEF Ordered
<1>4. ASSUME IsPolicy(Head(q))
      PROVE  /\ Ordered(Tail(q), Head(q).value, n)
             /\ p < Head(q).value /\ Head(q).value <= n
  BY <1>1, <1>2, <1>4 DEF Ordered
<1> QED
  BY <1>3, <1>4

-----------------------------------------------------------------------------
(***************************************************************************)
(* What one enqueue does to one filter: it takes some of the kinds that    *)
(* are sent, and a kind it does not take is recorded as missed.            *)
(***************************************************************************)
TookFrom(w, ws, kinds, n, u, taken) ==
  /\ w \notin ws => /\ policy_queue'[w] = policy_queue[w]
                    /\ \A k \in Kinds : <<w, k>> \in missed' <=> <<w, k>> \in missed
  /\ w \in ws =>
       /\ policy_queue'[w] = Pushed(policy_queue[w], taken, n, u)
       /\ \A k \in kinds : <<w, k>> \notin missed' => k \in taken
       /\ \A k \in Kinds \ kinds : <<w, k>> \in missed' <=> <<w, k>> \in missed

LEMMA EnqueueEffect ==
  ASSUME TypeOK, NEW ws \in SUBSET Workers, NEW kinds \in SUBSET Kinds, NEW n, NEW u,
         Enqueue(ws, kinds, n, u), NEW w \in Workers
  PROVE  \E taken \in SUBSET kinds : TookFrom(w, ws, kinds, n, u, taken)
<1>1. PICK refused \in SUBSET ((ws \cap Unreliable) \X kinds) :
        /\ policy_queue' =
             [x \in Workers |->
               IF x \in ws
               THEN Pushed(policy_queue[x], {k \in kinds : <<x, k>> \notin refused}, n, u)
               ELSE policy_queue[x]]
        /\ missed' = (missed \ (ws \X kinds)) \cup refused
  BY DEF Enqueue
<1> DEFINE taken == {k \in kinds : <<w, k>> \notin refused}
<1>2. policy_queue'[w] = IF w \in ws THEN Pushed(policy_queue[w], taken, n, u)
                                     ELSE policy_queue[w]
  BY <1>1
<1>3. w \notin ws => \A k \in Kinds : <<w, k>> \in missed' <=> <<w, k>> \in missed
  BY <1>1
<1>4. \A k \in kinds : <<w, k>> \notin missed' => k \in taken
  BY <1>1
<1>5. \A k \in Kinds \ kinds : <<w, k>> \in missed' <=> <<w, k>> \in missed
  BY <1>1
<1>6. taken \in SUBSET kinds
  OBVIOUS
<1> HIDE DEF taken
<1> QED
  BY <1>2, <1>3, <1>4, <1>5, <1>6 DEF TookFrom

\* The same for a broadcast, which may also find nothing to send.
LEMMA BroadcastEffect ==
  ASSUME TypeOK, NEW kinds \in SUBSET Kinds, NEW n, NEW u,
         Broadcast(kinds, n, u), NEW w \in Workers
  PROVE  \E ws \in SUBSET (policy_update_queues \ gone) : \E taken \in SUBSET kinds :
           /\ TookFrom(w, ws, kinds, n, u, taken)
           /\ Mode = "LocalCollector" /\ kinds # {} => ws = policy_update_queues \ gone
           /\ policy_update_queues \ gone \subseteq policy_update_queues'
           /\ policy_update_queues' \subseteq policy_update_queues
<1>1. CASE Mode = "LocalCollector" /\ kinds # {}
  <2> DEFINE ws == policy_update_queues \ gone
  <2>1. ws \in SUBSET Workers /\ Enqueue(ws, kinds, n, u) /\ policy_update_queues' = ws
    BY <1>1 DEF Broadcast, TypeOK
  <2> HIDE DEF ws
  <2>2. PICK taken \in SUBSET kinds : TookFrom(w, ws, kinds, n, u, taken)
    BY <2>1, EnqueueEffect
  <2> QED
    BY <2>1, <2>2 DEF ws
<1>2. CASE ~(Mode = "LocalCollector" /\ kinds # {})
  <2>1. UNCHANGED workerVars
    BY <1>2 DEF Broadcast
  <2>2. TookFrom(w, {}, kinds, n, u, {})
    BY <2>1 DEF TookFrom, workerVars
  <2> QED
    BY <1>2, <2>1, <2>2 DEF workerVars
<1> QED
  BY <1>1, <1>2

-----------------------------------------------------------------------------
(***************************************************************************)
(* Registration, and the order of policies.                                *)
(***************************************************************************)
RootLatest == policy[Root] = Len(published)

\* A filter waits in the register queue once, before it is in the list, and only
\* after it was configured.
JoinOnce ==
  /\ \A i, j \in DOMAIN register_queue : register_queue[i] = register_queue[j] => i = j
  /\ \A i \in DOMAIN register_queue : /\ register_queue[i] \notin policy_update_queues
                                      /\ config[register_queue[i]] # None
  /\ \A w \in policy_update_queues : config[w] # None

\* A filter that runs and is not in the list has received nothing.
Fresh ==
  \A w \in Workers \ (policy_update_queues \cup gone) :
    policy_queue[w] = <<>> /\ policy[w] <= NoPolicy

\* There is a list, and there are filters looking for it, only with a collector.
CollectorOnly ==
  Mode # "LocalCollector" \/ config[Root] = None
    => policy_update_queues = {} /\ register_queue = <<>>

InOrder == \A w \in Workers : Ordered(policy_queue[w], policy[w], Len(published))

OrderInv == StreamInv /\ RootLatest /\ JoinOnce /\ Fresh /\ CollectorOnly /\ InOrder

OrderParts == RootLatest /\ JoinOnce /\ Fresh /\ CollectorOnly /\ InOrder

LEMMA InitOrder == Init => OrderParts
<1> SUFFICES ASSUME Init PROVE OrderParts
  OBVIOUS
<1>1. published = <<>> /\ Len(published) = 0 /\ register_queue = <<>>
      /\ DOMAIN register_queue = {}
  BY EmptySeq, LenProperties DEF Init
<1>2. \A w \in Workers : policy_queue[w] = <<>> /\ policy[w] = 0
  BY DEF Init, VMs, NoPolicy
<1>3. InOrder
  <2>1. DOMAIN (<<>>) = {}
    OBVIOUS
  <2> QED
    BY <1>1, <1>2, <2>1 DEF InOrder, Ordered
<1>4. RootLatest
  BY <1>1 DEF Init, RootLatest, VMs, NoPolicy
<1>5. JoinOnce /\ Fresh /\ CollectorOnly
  BY <1>1, <1>2 DEF Init, JoinOnce, Fresh, CollectorOnly, NoPolicy
<1> QED
  BY <1>3, <1>4, <1>5 DEF OrderParts

\* What holds of types once and for all.
LEMMA OrderTypes ==
  ASSUME TypeOK
  PROVE  /\ Root \in VMs /\ \A w \in Workers : w \in VMs /\ w # Root
         /\ Len(published) \in Nat
         /\ \A w \in Workers : policy[w] \in Int /\ policy_queue[w] \in Seq(Message)
  BY NameAssumption, LenProperties DEF TypeOK, VMs, OwnPolicy

\* The root sends its newest policy, or only an upstream, to the filters of its list.
LEMMA RootSends ==
  ASSUME OrderInv, NEW kinds \in SUBSET Kinds, NEW u \in Upstreams \cup {None},
         Broadcast(kinds, Len(published) + 1, u),
         "policy" \in kinds => \E origin \in Origins : AdoptPolicy(origin),
         "policy" \notin kinds => UNCHANGED <<policy, published>>,
         UNCHANGED joinVars, config[Root] # None,
         \A w \in VMs : config[w] # None => config'[w] # None
  PROVE  OrderParts'
<1> USE DEF joinVars
<1> DEFINE m == Len(published)
           n == IF "policy" \in kinds THEN m + 1 ELSE m
<1>1. /\ TypeOK /\ RootLatest /\ JoinOnce /\ Fresh /\ CollectorOnly /\ InOrder
      /\ m \in Nat /\ n \in Nat
  BY OrderTypes DEF OrderInv, StreamInv
<1>2. /\ Len(published') = n
      /\ policy'[Root] = n
      /\ \A w \in Workers : policy'[w] = policy[w]
  <2>1. CASE "policy" \in kinds
    <3>1. PICK origin \in Origins : AdoptPolicy(origin)
      BY <2>1
    <3> QED
      BY <1>1, <2>1, <3>1, OrderTypes, AppendProperties DEF AdoptPolicy, TypeOK
  <2>2. CASE "policy" \notin kinds
    BY <1>1, <2>2 DEF RootLatest
  <2> QED
    BY <2>1, <2>2
<1>3. RootLatest'
  BY <1>2 DEF RootLatest
<1>4. JoinOnce' /\ CollectorOnly'
  <2>1. policy_update_queues' \subseteq policy_update_queues
    BY DEF Broadcast, workerVars
  <2>2. config'[Root] # None /\ register_queue' = register_queue
        /\ register_queue \in Seq(Workers) /\ policy_update_queues \subseteq Workers
    BY <1>1, OrderTypes DEF TypeOK
  <2>3. \A i \in DOMAIN register_queue : register_queue[i] \in VMs
    BY <2>2, ElementOfSeq, LenProperties, OrderTypes, <1>1
  <2>4. \A w \in policy_update_queues : w \in VMs
    BY <1>1, <2>2, OrderTypes
  <2> QED
    BY <1>1, <2>1, <2>2, <2>3, <2>4 DEF JoinOnce, CollectorOnly
<1>5. ASSUME NEW w \in Workers
      PROVE  /\ Ordered(policy_queue'[w], policy'[w], Len(published'))
             /\ w \notin policy_update_queues' \cup gone
                  => policy_queue'[w] = <<>> /\ policy'[w] <= NoPolicy
  <2>1. PICK ws \in SUBSET (policy_update_queues \ gone), taken \in SUBSET kinds :
          /\ TookFrom(w, ws, kinds, Len(published) + 1, u, taken)
          /\ policy_update_queues \ gone \subseteq policy_update_queues'
    BY <1>1, BroadcastEffect
  <2>2. policy_queue[w] \in Seq(Message) /\ policy[w] \in Int
        /\ Ordered(policy_queue[w], policy[w], m)
    BY <1>1, OrderTypes DEF InOrder
  <2>3. CASE w \in ws
    <3>1. policy_queue'[w] = Pushed(policy_queue[w], taken, m + 1, u)
      BY <2>1, <2>3 DEF TookFrom
    <3>2. m + 1 \in Nat /\ m <= n /\ ("policy" \in taken => m + 1 = n /\ m < n)
          /\ taken \in SUBSET Kinds
      BY <1>1
    <3> HIDE DEF m, n
    <3>3. Ordered(Pushed(policy_queue[w], taken, m + 1, u), policy[w], n)
      BY <1>1, <2>2, <3>2, PushedOrdered
    <3> QED
      BY <1>2, <2>1, <2>3, <3>1, <3>3
  <2>4. CASE w \notin ws
    <3>1. policy_queue'[w] = policy_queue[w]
      BY <2>1, <2>4 DEF TookFrom
    <3>2. Ordered(policy_queue[w], policy[w], n)
      <4>1. m <= n
        BY <1>1
      <4> HIDE DEF m, n
      <4> QED
        BY <1>1, <2>2, <4>1, OrderedLater
    <3> QED
      BY <1>1, <1>2, <2>1, <3>1, <3>2 DEF Fresh
  <2> QED
    BY <2>3, <2>4
<1>6. InOrder'
  BY <1>5 DEF InOrder
<1>7. Fresh'
  BY <1>5 DEF Fresh
<1> QED
  BY <1>3, <1>4, <1>6, <1>7 DEF OrderParts

\* What configuring a filter, or the root, does to one VM.
LEMMA SetConfigEffect ==
  ASSUME TypeOK, NEW v \in VMs, NEW conf \in Config, SetConfig(v, conf)
  PROVE  /\ config'[v] # None
         /\ \A x \in VMs : x # v => config'[x] = config[x] /\ upstream'[x] = upstream[x]
         /\ \A x \in VMs : config[x] # None => config'[x] # None
  BY NameAssumption DEF SetConfig, TypeOK

\* The collector registers a filter and brings it up to date.
LEMMA RegisterOrder ==
  ASSUME OrderInv, OnRegisterQueueReady
  PROVE  OrderParts'
<1> USE DEF rootVars, hostVars, dataVars, workerVars
<1> DEFINE h == Head(register_queue)
           n == Len(published)
<1>1. /\ TypeOK /\ RootLatest /\ JoinOnce /\ Fresh /\ CollectorOnly /\ InOrder
      /\ n \in Nat
  BY OrderTypes DEF OrderInv, StreamInv
<1>2. /\ register_queue \in Seq(Workers) /\ register_queue # <<>>
      /\ Len(register_queue) \in Nat \ {0}
      /\ DOMAIN register_queue = 1 .. Len(register_queue)
      /\ h = register_queue[1] /\ h \in Workers
      /\ DOMAIN Tail(register_queue) = 1 .. Len(register_queue) - 1
      /\ \A i \in 1 .. Len(register_queue) - 1 :
           Tail(register_queue)[i] = register_queue[i + 1]
  BY <1>1, HeadTailProperties, LenProperties, EmptySeq DEF OnRegisterQueueReady, TypeOK
<1>3. /\ register_queue' = Tail(register_queue)
      /\ UNCHANGED <<config, policy, published, gone>>
      /\ policy_update_queues' \in {policy_update_queues, policy_update_queues \cup {h}}
  BY DEF OnRegisterQueueReady
<1> HIDE DEF h
<1>4. RootLatest'
  BY <1>1, <1>3 DEF RootLatest
<1>5. JoinOnce'
  <2>1. \A i \in 1 .. Len(register_queue) - 1 : register_queue[i + 1] # h
    BY <1>1, <1>2 DEF JoinOnce
  <2>2. \A i, j \in DOMAIN register_queue' : register_queue'[i] = register_queue'[j] => i = j
    BY <1>1, <1>2, <1>3 DEF JoinOnce
  <2>3. \A i \in DOMAIN register_queue' : /\ register_queue'[i] \notin policy_update_queues'
                                         /\ config'[register_queue'[i]] # None
    BY <1>1, <1>2, <1>3, <2>1 DEF JoinOnce
  <2>4. \A w \in policy_update_queues' : config'[w] # None
    BY <1>1, <1>2, <1>3 DEF JoinOnce
  <2> QED
    BY <2>2, <2>3, <2>4 DEF JoinOnce
<1>6. CollectorOnly'
  BY <1>1, <1>2, <1>3 DEF CollectorOnly
<1>7. CASE QueueResolves(h)
  <2>1. /\ Enqueue({h}, InitialKinds, policy[Root], upstream[Root])
        /\ policy_update_queues' = policy_update_queues \cup {h}
        /\ h \notin gone
    BY <1>7 DEF OnRegisterQueueReady, QueueResolves, h
  <2>2. policy_queue[h] = <<>> /\ policy[h] <= NoPolicy
    <3>1. h \notin policy_update_queues
      BY <1>1, <1>2 DEF JoinOnce
    <3> QED
      BY <1>1, <1>2, <2>1, <3>1 DEF Fresh
  <2>3. InitialKinds \in SUBSET Kinds /\ policy[Root] = n
        /\ ("policy" \in InitialKinds => n # 0)
    BY <1>1 DEF InitialKinds, Kinds, RootLatest, NoPolicy
  <2>4. upstream[Root] \in Upstreams \cup {None} /\ {h} \in SUBSET Workers
    BY <1>1, <1>2 DEF TypeOK, VMs
  <2>5. ASSUME NEW w \in Workers
        PROVE  /\ Ordered(policy_queue'[w], policy'[w], Len(published'))
               /\ w # h => policy_queue'[w] = policy_queue[w]
    <3>1. PICK taken \in SUBSET InitialKinds :
            TookFrom(w, {h}, InitialKinds, policy[Root], upstream[Root], taken)
      BY <1>1, <2>1, <2>3, <2>4, EnqueueEffect
    <3>2. policy_queue[w] \in Seq(Message) /\ policy[w] \in Int
          /\ Ordered(policy_queue[w], policy[w], n)
      BY <1>1, OrderTypes DEF InOrder
    <3>3. CASE w = h
      <4>1. Ordered(policy_queue[w], policy[w], 0)
        BY <2>2, <3>2, <3>3 DEF Ordered, NoPolicy
      <4>2. /\ taken \in SUBSET Kinds /\ 0 \in Nat /\ 0 <= n
            /\ ("policy" \in taken => n = n /\ 0 < n)
        BY <1>1, <2>3
      <4> HIDE DEF n
      <4>3. Ordered(Pushed(policy_queue[w], taken, n, upstream[Root]), policy[w], n)
        BY <1>1, <2>4, <3>2, <4>1, <4>2, PushedOrdered
      <4> QED
        BY <1>3, <2>3, <3>1, <3>3, <4>3 DEF TookFrom, n
    <3>4. CASE w # h
      BY <1>3, <3>1, <3>2, <3>4 DEF TookFrom
    <3> QED
      BY <3>3, <3>4
  <2>6. InOrder'
    BY <2>5 DEF InOrder
  <2>7. Fresh'
    BY <1>1, <1>3, <2>1, <2>5 DEF Fresh
  <2> QED
    BY <1>4, <1>5, <1>6, <2>6, <2>7 DEF OrderParts
<1>8. CASE ~QueueResolves(h)
  <2>1. UNCHANGED <<policy_queue, policy_update_queues>>
    BY <1>8 DEF OnRegisterQueueReady, h
  <2>2. InOrder' /\ Fresh'
    BY <1>1, <1>3, <2>1 DEF InOrder, Fresh
  <2> QED
    BY <1>4, <1>5, <1>6, <2>2 DEF OrderParts
<1> QED
  BY <1>7, <1>8

\* A filter is configured, for the first time or again.
LEMMA ConfigureFilterOrder ==
  ASSUME OrderInv, NEW w \in Workers, NEW conf \in FilterConfigs[w],
         ConfigureFilter(w, conf) \/ ReconfigureFilter(w, conf)
  PROVE  OrderParts'
<1> USE DEF workerVars, joinVars
<1>1. /\ TypeOK /\ RootLatest /\ JoinOnce /\ Fresh /\ CollectorOnly /\ InOrder
      /\ conf \in Config
  BY ConfigAssumption DEF OrderInv, StreamInv
<1>2. /\ SetConfig(w, conf) /\ SetOwnPolicy(w, conf)
      /\ UNCHANGED <<published, policy_queue, policy_update_queues, gone>>
  BY DEF ConfigureFilter, ReconfigureFilter
<1>3. /\ config'[w] # None
      /\ config'[Root] = config[Root]
      /\ \A x \in VMs : config[x] # None => config'[x] # None
  BY <1>1, <1>2, OrderTypes, SetConfigEffect
<1>4. /\ policy'[Root] = policy[Root]
      /\ \A x \in Workers : policy'[x] = policy[x] \/ policy'[x] = OwnPolicy
  BY <1>1, <1>2, OrderTypes DEF SetOwnPolicy, TypeOK
<1>5. RootLatest'
  BY <1>1, <1>2, <1>4 DEF RootLatest
<1>6. Fresh'
  BY <1>1, <1>2, <1>4 DEF Fresh, NoPolicy, OwnPolicy
<1>7. InOrder'
  <2>1. ASSUME NEW x \in Workers
        PROVE  Ordered(policy_queue[x], OwnPolicy, Len(published))
    <3>1. \A i \in DOMAIN policy_queue[x] :
            IsPolicy(policy_queue[x][i]) => policy_queue[x][i].value \in Nat
      BY <1>1, OrderTypes, ElementOfSeq, LenProperties, MessageTypes
    <3> QED
      BY <1>1, <3>1, OrderTypes DEF InOrder, Ordered, OwnPolicy
  <2> QED
    BY <1>1, <1>2, <1>4, <2>1 DEF InOrder
<1>8. JoinOnce' /\ CollectorOnly'
  <2>1. /\ register_queue \in Seq(Workers) /\ policy_update_queues \subseteq Workers
        /\ DOMAIN register_queue = 1 .. Len(register_queue)
        /\ Len(register_queue) \in Nat
        /\ \A i \in DOMAIN register_queue : register_queue[i] \in Workers
    BY <1>1, ElementOfSeq, LenProperties DEF TypeOK
  <2>2. CASE register_queue' = register_queue
    BY <1>1, <1>2, <1>3, <2>1, <2>2, OrderTypes DEF JoinOnce, CollectorOnly
  <2>3. CASE register_queue' # register_queue
    <3>1. /\ config[w] = None
          /\ CollectorQueueExists(conf.group)
          /\ register_queue' = Append(register_queue, w)
      BY <2>3 DEF ConfigureFilter, ReconfigureFilter
    <3>2. /\ DOMAIN register_queue' = 1 .. Len(register_queue) + 1
          /\ \A i \in 1 .. Len(register_queue) : register_queue'[i] = register_queue[i]
          /\ register_queue'[Len(register_queue) + 1] = w
      BY <2>1, <3>1, AppendProperties
    <3>3. /\ w \notin policy_update_queues
          /\ \A i \in DOMAIN register_queue : register_queue[i] # w
      BY <1>1, <3>1 DEF JoinOnce
    <3>4. \A i, j \in DOMAIN register_queue' :
            register_queue'[i] = register_queue'[j] => i = j
      BY <1>1, <2>1, <3>2, <3>3 DEF JoinOnce
    <3>5. \A i \in DOMAIN register_queue' :
            /\ register_queue'[i] \notin policy_update_queues
            /\ config'[register_queue'[i]] # None
      BY <1>1, <1>3, <2>1, <3>2, <3>3, OrderTypes DEF JoinOnce
    <3>6. \A x \in policy_update_queues : config'[x] # None
      BY <1>1, <1>3, <2>1, OrderTypes DEF JoinOnce
    <3>7. CollectorOnly'
      BY <1>3, <3>1 DEF CollectorOnly, CollectorQueueExists
    <3> QED
      BY <1>2, <3>4, <3>5, <3>6, <3>7 DEF JoinOnce
  <2> QED
    BY <2>2, <2>3
<1> QED
  BY <1>5, <1>6, <1>7, <1>8 DEF OrderParts

\* A filter takes the first message of its queue.
LEMMA DequeueOrder ==
  ASSUME OrderInv, NEW w \in Workers, OnPolicyQueueReady(w)
  PROVE  OrderParts'
<1> USE DEF rootVars, hostVars, joinVars
<1>1. /\ TypeOK /\ RootLatest /\ JoinOnce /\ Fresh /\ CollectorOnly /\ InOrder
      /\ Len(published) \in Nat
  BY OrderTypes DEF OrderInv, StreamInv
<1>2. /\ UNCHANGED <<config, published, policy_update_queues, register_queue, gone>>
      /\ w \in policy_update_queues
  BY <1>1 DEF OnPolicyQueueReady, Fresh
<1>3. /\ policy_queue[w] \in Seq(Message) /\ policy_queue[w] # <<>>
      /\ Head(policy_queue[w]) \in Message
      /\ policy[w] \in Int
      /\ Ordered(policy_queue[w], policy[w], Len(published))
  BY <1>1, OrderTypes, HeadTailProperties DEF OnPolicyQueueReady, InOrder
<1>4. /\ policy_queue'[w] = Tail(policy_queue[w])
      /\ \A x \in Workers : x # w => policy_queue'[x] = policy_queue[x]
      /\ IF IsPolicy(Head(policy_queue[w]))
         THEN policy' = [policy EXCEPT ![w] = Head(policy_queue[w]).value]
         ELSE policy' = policy
  BY <1>1, <1>3 DEF OnPolicyQueueReady, IsPolicy, TypeOK
<1>5. /\ policy'[Root] = policy[Root]
      /\ policy'[w] = IF IsPolicy(Head(policy_queue[w]))
                      THEN Head(policy_queue[w]).value ELSE policy[w]
      /\ \A x \in Workers : x # w => policy'[x] = policy[x]
  BY <1>1, <1>4, OrderTypes DEF TypeOK
<1>6. Ordered(policy_queue'[w], policy'[w], Len(published))
  BY <1>1, <1>3, <1>4, <1>5, OrderedTail
<1>7. InOrder'
  BY <1>1, <1>2, <1>4, <1>5, <1>6 DEF InOrder
<1>8. Fresh'
  BY <1>1, <1>2, <1>4, <1>5 DEF Fresh
<1>9. RootLatest' /\ JoinOnce' /\ CollectorOnly'
  BY <1>1, <1>2, <1>5 DEF RootLatest, JoinOnce, CollectorOnly
<1> QED
  BY <1>7, <1>8, <1>9 DEF OrderParts

LEMMA StopOrder ==
  ASSUME OrderInv, NEW w \in Workers, WorkerStops(w)
  PROVE  OrderParts'
<1> USE DEF rootVars, hostVars, dataVars
<1>1. /\ TypeOK /\ RootLatest /\ JoinOnce /\ Fresh /\ CollectorOnly /\ InOrder
  BY DEF OrderInv, StreamInv
<1>2. /\ UNCHANGED <<config, policy, published, policy_update_queues, register_queue>>
      /\ gone' = gone \cup {w}
      /\ policy_queue'[w] = <<>>
      /\ \A x \in Workers : x # w => policy_queue'[x] = policy_queue[x]
  BY <1>1 DEF WorkerStops, TypeOK
<1>3. Ordered(<<>>, policy[w], Len(published))
  BY <1>1 DEF InOrder, Ordered
<1>4. InOrder'
  BY <1>1, <1>2, <1>3 DEF InOrder
<1>5. Fresh'
  BY <1>1, <1>2 DEF Fresh
<1>6. RootLatest' /\ JoinOnce' /\ CollectorOnly'
  BY <1>1, <1>2 DEF RootLatest, JoinOnce, CollectorOnly
<1> QED
  BY <1>4, <1>5, <1>6 DEF OrderParts

LEMMA StepOrder == OrderInv /\ [Next]_vars => OrderParts'
<1> SUFFICES ASSUME OrderInv, [Next]_vars PROVE OrderParts'
  OBVIOUS
<1> USE DEF rootVars, hostVars, dataVars, workerVars, joinVars
<1>1. /\ TypeOK /\ RootLatest /\ JoinOnce /\ Fresh /\ CollectorOnly /\ InOrder
  BY DEF OrderInv, StreamInv
<1>2. CASE UNCHANGED <<config, policy, published, policy_update_queues, policy_queue,
                       register_queue, gone>>
  BY <1>1, <1>2 DEF OrderParts, RootLatest, JoinOnce, Fresh, CollectorOnly, InOrder
<1>3. ASSUME NEW t \in StreamIds, OnGrpcStreamMessage(t),
             ~UNCHANGED <<config, policy, published, policy_update_queues, policy_queue,
                          register_queue, gone>>
      PROVE  OrderParts'
  <2>1. /\ AdoptPolicy(streams[t]) /\ Broadcast({"policy"}, Len(published) + 1, None)
        /\ UNCHANGED <<config, joinVars>>
        /\ streams[t] # None
    BY <1>3 DEF OnGrpcStreamMessage, vars
  <2>2. streams[t] \in Origins /\ {"policy"} \in SUBSET Kinds
    BY <1>1, <2>1 DEF TypeOK, Origins, Kinds
  <2>3. IsPolicyStream(t)
    BY <1>3 DEF OnGrpcStreamMessage, vars
  <2>4. config[Root] # None
    <3>1. policy_stream_id # None
      BY <2>3, NameAssumption DEF IsPolicyStream
    <3> QED
      BY <3>1 DEF OrderInv, StreamInv, Unconnected
  <2> QED
    BY <2>1, <2>2, <2>4, RootSends
<1>4. ASSUME NEW conf \in RootConfigs, ConfigureRoot(conf) PROVE OrderParts'
  <2>1. /\ config[Root] = None /\ SetConfig(Root, conf) /\ SetLocalPolicy(conf)
        /\ UNCHANGED <<policy_update_queues, policy_queue, register_queue, gone, missed>>
    BY <1>4 DEF ConfigureRoot
  <2>2. policy_update_queues = {} /\ register_queue = <<>> /\ DOMAIN register_queue = {}
    BY <1>1, <2>1 DEF CollectorOnly
  <2>3. CASE UNCHANGED <<policy, published>>
    BY <1>1, <2>1, <2>2, <2>3
    DEF OrderParts, RootLatest, JoinOnce, Fresh, CollectorOnly, InOrder
  <2>4. CASE AdoptPolicy(Local)
    <3>1. Local \in Origins
      BY DEF Origins
    <3>2. /\ Len(published') = Len(published) + 1
          /\ policy'[Root] = Len(published) + 1
          /\ \A w \in Workers : policy'[w] = policy[w]
      BY <1>1, <2>4, <3>1, OrderTypes, AppendProperties DEF AdoptPolicy, TypeOK
    <3>3. ASSUME NEW w \in Workers
          PROVE  Ordered(policy_queue[w], policy[w], Len(published) + 1)
      <4>1. Len(published) + 1 \in Nat /\ Len(published) <= Len(published) + 1
        BY <1>1, OrderTypes
      <4> QED
        BY <1>1, <4>1, OrderTypes, OrderedLater DEF InOrder
    <3>4. InOrder'
      BY <2>1, <3>2, <3>3 DEF InOrder
    <3>5. Fresh'
      BY <1>1, <2>1, <3>2 DEF Fresh
    <3>6. RootLatest' /\ JoinOnce' /\ CollectorOnly'
      BY <1>1, <2>1, <2>2, <3>2 DEF RootLatest, JoinOnce, CollectorOnly
    <3> QED
      BY <3>4, <3>5, <3>6 DEF OrderParts
  <2> QED
    BY <2>1, <2>3, <2>4 DEF SetLocalPolicy
<1>5. ASSUME NEW conf \in RootConfigs, ReconfigureRoot(conf) PROVE OrderParts'
  <2> DEFINE kinds == {k \in Kinds : \/ k = "policy" /\ conf.local_policy
                                     \/ k = "upstream" /\ UpstreamChanges(conf)}
             u == ConfiguredUpstream(Root, conf)
  <2>1. conf \in Config /\ Root \in VMs
    BY ConfigAssumption DEF VMs
  <2>2. SetConfig(Root, conf) /\ config[Root] # None /\ SetLocalPolicy(conf)
        /\ Broadcast(kinds, Len(published) + 1, u) /\ UNCHANGED joinVars
    BY <1>5 DEF ReconfigureRoot
  <2>3. u \in Upstreams \cup {None}
    BY <1>1, <2>1, <2>2, SetConfigType
  <2>4. \A v \in VMs : config[v] # None => config'[v] # None
    BY <1>1, <2>1, <2>2, SetConfigEffect
  <2>5. /\ "policy" \in kinds => \E origin \in Origins : AdoptPolicy(origin)
        /\ "policy" \notin kinds => UNCHANGED <<policy, published>>
    BY <2>2 DEF SetLocalPolicy, Origins, Kinds
  <2>6. kinds \in SUBSET Kinds
    OBVIOUS
  <2> HIDE DEF kinds, u
  <2> QED
    BY <2>2, <2>3, <2>4, <2>5, <2>6, RootSends
<1>6. CASE OnRegisterQueueReady
  BY <1>6, RegisterOrder
<1>7. ASSUME NEW w \in Workers, FilterNext(w),
             ~UNCHANGED <<config, policy, published, policy_update_queues, policy_queue,
                          register_queue, gone>>
      PROVE  OrderParts'
  BY <1>7, ConfigureFilterOrder, DequeueOrder, StopOrder DEF FilterNext, IgnoreConfigure, vars
<1>8. CASE \/ OnTick
           \/ \E t \in StreamIds : OnGrpcStreamClose(t)
           \/ \E c \in CallIds : OnGrpcCallResponse(c)
           \/ \E conf \in RootConfigs : IgnoreConfigure(Root, conf)
           \/ UNCHANGED vars
  BY <1>2, <1>8 DEF OnTick, OnGrpcStreamClose, OnGrpcCallResponse, IgnoreConfigure, vars
<1> QED
  BY <1>2, <1>3, <1>4, <1>5, <1>6, <1>7, <1>8 DEF Next, RootNext

LEMMA OrderInvariant == Spec => []OrderInv
<1>1. Init => OrderInv
  BY InitType, InitStream, InitOrder DEF OrderInv, StreamInv, OrderParts
<1>2. OrderInv /\ [Next]_vars => OrderInv'
  BY StepType, StepStream, StepOrder DEF OrderInv, StreamInv, OrderParts
<1> QED
  BY <1>1, <1>2, PTL DEF Spec

-----------------------------------------------------------------------------
(***************************************************************************)
(* The control plane implements the abstract replication.                  *)
(***************************************************************************)
\* Filters go through the root's policies in the order of adoption, and each is one
\* the root adopted (root.rs do_policy_update, broadcast_to_workers, on_queue_ready).
THEOREM ReplicationHolds == Spec => ReplicationSpec
<1>1. Init => Replication!ReplicationInit
  BY DEF Init, Replication!ReplicationInit, VMs, NoPolicy
<1>2. OrderInv /\ [Next]_vars => [Replication!ReplicationNext]_Replication!rvars
  <2> SUFFICES ASSUME OrderInv, [Next]_vars
               PROVE  Replication!ReplicationNext \/ UNCHANGED <<published, policy>>
    BY DEF Replication!rvars
  <2> USE DEF rootVars, hostVars, workerVars, joinVars, dataVars
  <2>1. TypeOK /\ InOrder /\ Len(published) \in Nat
    BY OrderTypes DEF OrderInv, StreamInv
  <2>2. ASSUME NEW origin \in Origins, AdoptPolicy(origin)
        PROVE  Replication!ReplicationNext
    BY <2>2 DEF AdoptPolicy, Replication!ReplicationNext, Replication!Publish
  <2>3. ASSUME NEW t \in StreamIds, OnGrpcStreamMessage(t)
        PROVE  Replication!ReplicationNext \/ UNCHANGED <<published, policy>>
    BY <2>1, <2>2, <2>3 DEF OnGrpcStreamMessage, TypeOK, Origins, vars
  <2>4. ASSUME NEW conf, SetLocalPolicy(conf)
        PROVE  Replication!ReplicationNext \/ UNCHANGED <<published, policy>>
    BY <2>2, <2>4 DEF SetLocalPolicy, Origins
  <2>5. ASSUME NEW w \in Workers, NEW conf, SetOwnPolicy(w, conf), published' = published
        PROVE  Replication!ReplicationNext \/ UNCHANGED <<published, policy>>
    BY <2>5 DEF SetOwnPolicy, Replication!ReplicationNext, Replication!UseOwn
  <2>6. ASSUME NEW w \in Workers, OnPolicyQueueReady(w)
        PROVE  Replication!ReplicationNext \/ UNCHANGED <<published, policy>>
    <3> DEFINE m == Head(policy_queue[w])
    <3>1. policy_queue[w] # <<>> /\ published' = published
          /\ \/ IsPolicy(m) /\ policy' = [policy EXCEPT ![w] = m.value]
             \/ policy' = policy
      BY <2>6 DEF OnPolicyQueueReady, IsPolicy
    <3>2. policy_queue[w] \in Seq(Message) /\ policy[w] \in Int
          /\ Ordered(policy_queue[w], policy[w], Len(published))
      BY <2>1, OrderTypes DEF InOrder
    <3>3. CASE IsPolicy(m) /\ policy' = [policy EXCEPT ![w] = m.value]
      <4>1. policy[w] < m.value /\ m.value <= Len(published)
        BY <2>1, <3>1, <3>2, <3>3, OrderedTail
      <4>2. m.value \in Nat \ {0}
        BY <3>1, <3>2, <3>3, HeadTailProperties, MessageTypes
      <4>3. m.value \in 1 .. Len(published) /\ m.value > policy[w]
        BY <2>1, <3>2, <4>1, <4>2
      <4>4. Replication!Advance(w)
        BY <3>1, <3>3, <4>3 DEF Replication!Advance
      <4> QED
        BY <4>4 DEF Replication!ReplicationNext
    <3>4. CASE policy' = policy
      BY <3>1, <3>4
    <3> QED
      BY <3>1, <3>3, <3>4
  <2>7. CASE \/ OnTick \/ OnRegisterQueueReady \/ UNCHANGED vars
             \/ \E t \in StreamIds : OnGrpcStreamClose(t)
             \/ \E c \in CallIds : OnGrpcCallResponse(c)
             \/ \E v \in VMs : \E conf : IgnoreConfigure(v, conf)
             \/ \E w \in Workers : WorkerStops(w)
    BY <2>7 DEF OnTick, OnRegisterQueueReady, OnGrpcStreamClose, OnGrpcCallResponse,
                IgnoreConfigure, WorkerStops, vars
  <2>8. Root \in VMs /\ \A w \in Workers : w \in VMs
    BY DEF VMs
  <2> QED
    BY <2>3, <2>4, <2>5, <2>6, <2>7, <2>8
    DEF Next, RootNext, FilterNext, ConfigureRoot, ReconfigureRoot, ConfigureFilter,
        ReconfigureFilter
<1> QED
  BY <1>1, <1>2, OrderInvariant, PTL
  DEF Spec, ReplicationSpec, Replication!ReplicationSpec

-----------------------------------------------------------------------------
(***************************************************************************)
(* That a registered filter has, or has on its way, the policy and the     *)
(* upstream of the collector, and that it is one of the collector's group  *)
(* and stays registered.                                                   *)
(***************************************************************************)
(***************************************************************************)
(* The last message of a kind.                                             *)
(***************************************************************************)
LEMMA LatestAppend ==
  ASSUME NEW q \in Seq(Message), NEW m \in Message, NEW k, NEW v
  PROVE  /\ m.kind = k => LatestIs(Append(q, m), k, m.value) /\ ~NoneOf(Append(q, m), k)
         /\ m.kind # k => /\ LatestIs(q, k, v) => LatestIs(Append(q, m), k, v)
                          /\ NoneOf(Append(q, m), k) => NoneOf(q, k)
<1>1. /\ Len(q) \in Nat
      /\ DOMAIN q = 1 .. Len(q)
      /\ DOMAIN Append(q, m) = 1 .. Len(q) + 1
      /\ \A i \in 1 .. Len(q) : Append(q, m)[i] = q[i]
      /\ Append(q, m)[Len(q) + 1] = m
  BY AppendProperties, LenProperties
<1>2. ASSUME m.kind = k
      PROVE  LatestIs(Append(q, m), k, m.value) /\ ~NoneOf(Append(q, m), k)
  BY <1>1, <1>2 DEF LatestIs, NoneOf
<1>3. ASSUME m.kind # k, LatestIs(q, k, v) PROVE LatestIs(Append(q, m), k, v)
  BY <1>1, <1>3 DEF LatestIs
<1>4. ASSUME NoneOf(Append(q, m), k) PROVE NoneOf(q, k)
  BY <1>1, <1>4 DEF NoneOf
<1> QED
  BY <1>2, <1>3, <1>4

LEMMA LatestTail ==
  ASSUME NEW q \in Seq(Message), q # <<>>, NEW k, NEW v, LatestIs(q, k, v)
  PROVE  /\ LatestIs(Tail(q), k, v)
         /\ NoneOf(Tail(q), k) => \/ Head(q).kind = k /\ Head(q).value = v
                                  \/ Head(q).kind # k /\ NoneOf(q, k)
<1>1. /\ Len(q) \in Nat \ {0}
      /\ DOMAIN q = 1 .. Len(q)
      /\ Head(q) = q[1]
      /\ DOMAIN Tail(q) = 1 .. Len(q) - 1
      /\ \A i \in 1 .. Len(q) - 1 : Tail(q)[i] = q[i + 1]
      /\ \A i \in 2 .. Len(q) : q[i] = Tail(q)[i - 1]
  BY HeadTailProperties, LenProperties, EmptySeq
<1>2. LatestIs(Tail(q), k, v)
  <2> SUFFICES ASSUME NEW i \in 1 .. Len(q) - 1, Tail(q)[i].kind = k,
                      \A j \in 1 .. Len(q) - 1 : Tail(q)[j].kind = k => j <= i
               PROVE  Tail(q)[i].value = v
    BY <1>1 DEF LatestIs
  <2>1. i + 1 \in DOMAIN q /\ q[i + 1].kind = k
    BY <1>1
  <2>2. ASSUME NEW j \in DOMAIN q, q[j].kind = k PROVE j <= i + 1
    <3>1. CASE j = 1
      BY <3>1
    <3>2. CASE j # 1
      <4>1. j - 1 \in 1 .. Len(q) - 1 /\ Tail(q)[j - 1].kind = k
        BY <1>1, <2>2, <3>2
      <4> QED
        BY <1>1, <4>1
    <3> QED
      BY <3>1, <3>2
  <2> QED
    BY <1>1, <2>1, <2>2 DEF LatestIs
<1>3. ASSUME NoneOf(Tail(q), k), Head(q).kind = k PROVE Head(q).value = v
  <2>1. ASSUME NEW j \in DOMAIN q, q[j].kind = k PROVE j = 1
    <3>1. SUFFICES ASSUME j # 1 PROVE FALSE
      OBVIOUS
    <3>2. j - 1 \in DOMAIN Tail(q) /\ Tail(q)[j - 1] = q[j]
      BY <1>1, <2>1, <3>1
    <3> QED
      BY <1>3, <2>1, <3>2 DEF NoneOf
  <2> QED
    BY <1>1, <1>3, <2>1 DEF LatestIs
<1>4. ASSUME NoneOf(Tail(q), k), Head(q).kind # k PROVE NoneOf(q, k)
  <2>1. SUFFICES ASSUME NEW j \in DOMAIN q PROVE q[j].kind # k
    BY DEF NoneOf
  <2>2. CASE j = 1
    BY <1>1, <1>4, <2>2
  <2>3. CASE j # 1
    <3>1. j - 1 \in DOMAIN Tail(q) /\ Tail(q)[j - 1] = q[j]
      BY <1>1, <2>1, <2>3
    <3> QED
      BY <1>4, <3>1 DEF NoneOf
  <2> QED
    BY <2>2, <2>3
<1> QED
  BY <1>2, <1>3, <1>4

LEMMA PushedLatest ==
  ASSUME NEW q \in Seq(Message), NEW kinds \in SUBSET Kinds, NEW n,
         "policy" \in kinds => n \in Nat \ {0},
         NEW u \in Upstreams \cup {None}
  PROVE  \A v :
         /\ "policy" \in kinds => /\ LatestIs(Pushed(q, kinds, n, u), "policy", n)
                                  /\ ~NoneOf(Pushed(q, kinds, n, u), "policy")
         /\ "policy" \notin kinds =>
              /\ LatestIs(q, "policy", v) => LatestIs(Pushed(q, kinds, n, u), "policy", v)
              /\ NoneOf(Pushed(q, kinds, n, u), "policy") => NoneOf(q, "policy")
         /\ "upstream" \in kinds => /\ LatestIs(Pushed(q, kinds, n, u), "upstream", u)
                                    /\ ~NoneOf(Pushed(q, kinds, n, u), "upstream")
         /\ "upstream" \notin kinds =>
              /\ LatestIs(q, "upstream", v) => LatestIs(Pushed(q, kinds, n, u), "upstream", v)
              /\ NoneOf(Pushed(q, kinds, n, u), "upstream") => NoneOf(q, "upstream")
<1> TAKE v
<1> DEFINE r == IF "policy" \in kinds THEN Append(q, PolicyUpdate(n)) ELSE q
           s == IF "upstream" \in kinds THEN Append(r, UpstreamUpdate(u)) ELSE r
<1>1. "policy" \in kinds => /\ PolicyUpdate(n) \in Message /\ PolicyUpdate(n).value = n
                            /\ PolicyUpdate(n).kind = "policy"
  BY MessageTypes
<1>2. UpstreamUpdate(u) \in Message /\ UpstreamUpdate(u).value = u
      /\ UpstreamUpdate(u).kind = "upstream"
  BY MessageTypes
<1>3. r \in Seq(Message)
  BY <1>1, AppendProperties
<1>4. /\ "policy" \in kinds => LatestIs(r, "policy", n) /\ ~NoneOf(r, "policy")
      /\ "policy" \notin kinds => r = q
      /\ LatestIs(q, "upstream", v) => LatestIs(r, "upstream", v)
      /\ NoneOf(r, "upstream") => NoneOf(q, "upstream")
  BY <1>1, LatestAppend
<1> HIDE DEF r
<1>5. /\ "upstream" \in kinds => LatestIs(s, "upstream", u) /\ ~NoneOf(s, "upstream")
      /\ "upstream" \notin kinds => s = r
      /\ \A x : LatestIs(r, "policy", x) => LatestIs(s, "policy", x)
      /\ NoneOf(s, "policy") => NoneOf(r, "policy")
  BY <1>2, <1>3, LatestAppend
<1>6. Pushed(q, kinds, n, u) = s
  BY DEF Pushed, r
<1> QED
  BY <1>4, <1>5, <1>6

-----------------------------------------------------------------------------
(***************************************************************************)
(* The invariant: PolicyInSync and UpstreamInSync, filter by filter.       *)
(***************************************************************************)
PolicyPart(w) ==
  <<w, "policy">> \notin missed =>
    /\ LatestIs(policy_queue[w], "policy", policy[Root])
    /\ NoneOf(policy_queue[w], "policy") => policy[w] \in {policy[Root], OwnPolicy}

UpstreamPart(w) ==
  Forwarded(w) /\ <<w, "upstream">> \notin missed =>
    /\ LatestIs(policy_queue[w], "upstream", upstream[Root])
    /\ NoneOf(policy_queue[w], "upstream") => upstream[w] = upstream[Root]

AllInSync == \A w \in policy_update_queues \ gone : PolicyPart(w) /\ UpstreamPart(w)

SameGroup ==
  \A w \in policy_update_queues \ gone : config[w].group = config[Root].group

SyncInv == OrderInv /\ AllInSync /\ SameGroup

\* A broadcast keeps the list in step with a root that sends whatever it changes.
LEMMA RootSync ==
  ASSUME SyncInv, NEW kinds \in SUBSET Kinds, NEW u \in Upstreams \cup {None},
         Broadcast(kinds, Len(published) + 1, u),
         "policy" \in kinds => \E origin \in Origins : AdoptPolicy(origin),
         "policy" \notin kinds => UNCHANGED policy,
         "upstream" \in kinds => upstream'[Root] = u,
         "upstream" \notin kinds => upstream'[Root] = upstream[Root],
         \A w \in Workers : upstream'[w] = upstream[w],
         UNCHANGED joinVars
  PROVE  AllInSync'
<1> USE DEF joinVars
<1>1. TypeOK /\ CollectorOnly /\ AllInSync
  BY DEF SyncInv, OrderInv, StreamInv
<1> DEFINE n == Len(published) + 1
<1>2. n \in Nat \ {0}
  BY <1>1, OrderTypes
<1>3. /\ "policy" \in kinds => policy'[Root] = n
      /\ "policy" \notin kinds => policy'[Root] = policy[Root]
      /\ \A w \in Workers : policy'[w] = policy[w]
  BY <1>1, OrderTypes DEF AdoptPolicy, TypeOK
<1>4. SUFFICES ASSUME NEW w \in policy_update_queues' \ gone'
               PROVE  PolicyPart(w)' /\ UpstreamPart(w)'
  BY DEF AllInSync
<1>5. w \in policy_update_queues \ gone /\ w \in Workers
  BY <1>1, <1>4 DEF Broadcast, workerVars, TypeOK
<1>6. Mode = "LocalCollector"
  BY <1>1, <1>5 DEF CollectorOnly
<1>7. PolicyPart(w) /\ UpstreamPart(w) /\ policy_queue[w] \in Seq(Message)
  BY <1>1, <1>5, OrderTypes DEF AllInSync
<1>8. CASE kinds = {}
  BY <1>3, <1>5, <1>7, <1>8 DEF Broadcast, workerVars, PolicyPart, UpstreamPart
<1>9. CASE kinds # {}
  <2>1. PICK ws \in SUBSET (policy_update_queues \ gone), taken \in SUBSET kinds :
          /\ TookFrom(w, ws, kinds, Len(published) + 1, u, taken)
          /\ ws = policy_update_queues \ gone
    BY <1>1, <1>5, <1>6, <1>9, BroadcastEffect
  <2>2. /\ policy_queue'[w] = Pushed(policy_queue[w], taken, n, u)
        /\ \A k \in kinds : <<w, k>> \notin missed' => k \in taken
        /\ \A k \in Kinds \ kinds : <<w, k>> \in missed' <=> <<w, k>> \in missed
    BY <1>5, <2>1 DEF TookFrom
  <2> HIDE DEF n
  <2>3. taken \in SUBSET Kinds /\ "policy" \in Kinds /\ "upstream" \in Kinds
        /\ ("policy" \in taken => n \in Nat \ {0})
    BY <1>2 DEF Kinds
  <2>4. \A v :
        /\ "policy" \in taken => /\ LatestIs(policy_queue'[w], "policy", n)
                                 /\ ~NoneOf(policy_queue'[w], "policy")
        /\ "policy" \notin taken =>
             /\ LatestIs(policy_queue[w], "policy", v)
                  => LatestIs(policy_queue'[w], "policy", v)
             /\ NoneOf(policy_queue'[w], "policy") => NoneOf(policy_queue[w], "policy")
        /\ "upstream" \in taken => /\ LatestIs(policy_queue'[w], "upstream", u)
                                   /\ ~NoneOf(policy_queue'[w], "upstream")
        /\ "upstream" \notin taken =>
             /\ LatestIs(policy_queue[w], "upstream", v)
                  => LatestIs(policy_queue'[w], "upstream", v)
             /\ NoneOf(policy_queue'[w], "upstream") => NoneOf(policy_queue[w], "upstream")
    <3> DEFINE new == Pushed(policy_queue[w], taken, n, u)
    <3>1. policy_queue[w] \in Seq(Message)
      BY <1>7
    <3>2. \A v :
          /\ "policy" \in taken => /\ LatestIs(new, "policy", n)
                                   /\ ~NoneOf(new, "policy")
          /\ "policy" \notin taken =>
               /\ LatestIs(policy_queue[w], "policy", v) => LatestIs(new, "policy", v)
               /\ NoneOf(new, "policy") => NoneOf(policy_queue[w], "policy")
          /\ "upstream" \in taken => /\ LatestIs(new, "upstream", u)
                                     /\ ~NoneOf(new, "upstream")
          /\ "upstream" \notin taken =>
               /\ LatestIs(policy_queue[w], "upstream", v) => LatestIs(new, "upstream", v)
               /\ NoneOf(new, "upstream") => NoneOf(policy_queue[w], "upstream")
      BY <2>3, <3>1, PushedLatest
    <3>3. policy_queue'[w] = new
      BY <2>2
    <3> HIDE DEF new
    <3> QED
      BY <3>2, <3>3
  <2>5. PolicyPart(w)'
    <3>1. CASE "policy" \in kinds
      BY <1>3, <2>2, <2>4, <3>1 DEF PolicyPart
    <3>2. CASE "policy" \notin kinds
      BY <1>3, <1>5, <1>7, <2>2, <2>3, <2>4, <3>2 DEF PolicyPart
    <3> QED
      BY <3>1, <3>2
  <2>6. UpstreamPart(w)'
    <3>1. CASE "upstream" \in kinds
      BY <2>2, <2>4, <3>1 DEF UpstreamPart, Forwarded
    <3>2. CASE "upstream" \notin kinds
      BY <1>5, <1>7, <2>2, <2>3, <2>4, <3>2 DEF UpstreamPart, Forwarded
    <3> QED
      BY <3>1, <3>2
  <2> QED
    BY <2>5, <2>6
<1> QED
  BY <1>8, <1>9

\* A filter that registers is sent all it needs.
LEMMA RegisterSync ==
  ASSUME SyncInv, OnRegisterQueueReady
  PROVE  AllInSync' /\ SameGroup'
<1> USE DEF rootVars, hostVars, dataVars, workerVars
<1>1. /\ TypeOK /\ RootLatest /\ JoinOnce /\ Fresh /\ AllInSync /\ SameGroup
      /\ Len(published) \in Nat
  BY OrderTypes DEF SyncInv, OrderInv, StreamInv
<1>2. PICK h \in Workers : h = Head(register_queue) /\ h \notin policy_update_queues
  <2>1. register_queue \in Seq(Workers) /\ register_queue # <<>>
    BY <1>1 DEF OnRegisterQueueReady, TypeOK
  <2>2. /\ Head(register_queue) = register_queue[1] /\ 1 \in DOMAIN register_queue
        /\ Head(register_queue) \in Workers
    BY <2>1, HeadTailProperties, LenProperties, EmptySeq
  <2> QED
    BY <1>1, <2>2 DEF JoinOnce
<1>3. UNCHANGED <<config, policy, upstream, gone>>
  BY DEF OnRegisterQueueReady
<1>4. CASE QueueResolves(h)
  <2>1. /\ Enqueue({h}, InitialKinds, policy[Root], upstream[Root])
        /\ policy_update_queues' = policy_update_queues \cup {h}
        /\ h \notin gone /\ config[h].group = config[Root].group
    BY <1>2, <1>4 DEF OnRegisterQueueReady, QueueResolves
  <2>2. SameGroup'
    BY <1>1, <1>3, <2>1 DEF SameGroup
  <2>3. /\ InitialKinds \in SUBSET Kinds /\ {h} \in SUBSET Workers
        /\ policy[Root] \in Nat /\ ("policy" \in InitialKinds => policy[Root] # 0)
        /\ upstream[Root] \in Upstreams \cup {None}
        /\ "upstream" \in InitialKinds
        /\ ("policy" \notin InitialKinds => policy[Root] = 0)
    BY <1>1, <1>2 DEF InitialKinds, Kinds, NoPolicy, TypeOK, VMs
  <2>4. ASSUME NEW w \in policy_update_queues' \ gone', w # h
        PROVE  PolicyPart(w)' /\ UpstreamPart(w)'
    <3>1. w \in policy_update_queues \ gone /\ w \in Workers
      BY <1>1, <1>3, <2>1, <2>4 DEF TypeOK
    <3>2. PICK taken \in SUBSET InitialKinds :
            TookFrom(w, {h}, InitialKinds, policy[Root], upstream[Root], taken)
      BY <1>1, <2>1, <2>3, <3>1, EnqueueEffect
    <3>3. policy_queue'[w] = policy_queue[w]
          /\ \A k \in Kinds : <<w, k>> \in missed' <=> <<w, k>> \in missed
      BY <2>4, <3>2 DEF TookFrom
    <3>4. "policy" \in Kinds /\ "upstream" \in Kinds
      BY DEF Kinds
    <3> QED
      BY <1>1, <1>3, <3>1, <3>3, <3>4 DEF AllInSync, PolicyPart, UpstreamPart, Forwarded
  <2>5. PolicyPart(h)' /\ UpstreamPart(h)'
    <3>1. PICK taken \in SUBSET InitialKinds :
            TookFrom(h, {h}, InitialKinds, policy[Root], upstream[Root], taken)
      BY <1>1, <1>2, <2>1, <2>3, EnqueueEffect
    <3>2. /\ policy_queue'[h] = Pushed(policy_queue[h], taken, policy[Root], upstream[Root])
          /\ \A k \in InitialKinds : <<h, k>> \notin missed' => k \in taken
      BY <3>1 DEF TookFrom
    <3>3. policy_queue[h] = <<>> /\ policy[h] <= NoPolicy /\ policy_queue[h] \in Seq(Message)
          /\ policy[h] \in Nat \cup {OwnPolicy}
      BY <1>1, <1>2, <2>1, OrderTypes DEF Fresh, TypeOK
    <3>4. LatestIs(policy_queue[h], "policy", policy[Root])
      BY <3>3 DEF LatestIs
    <3>5. taken \in SUBSET Kinds /\ ("policy" \in taken => policy[Root] \in Nat \ {0})
      BY <2>3
    <3>6. /\ "policy" \in taken => /\ LatestIs(policy_queue'[h], "policy", policy[Root])
                                   /\ ~NoneOf(policy_queue'[h], "policy")
          /\ "upstream" \in taken => /\ LatestIs(policy_queue'[h], "upstream", upstream[Root])
                                     /\ ~NoneOf(policy_queue'[h], "upstream")
          /\ "policy" \notin taken => LatestIs(policy_queue'[h], "policy", policy[Root])
      <4> DEFINE new == Pushed(policy_queue[h], taken, policy[Root], upstream[Root])
      <4>1. /\ "policy" \in taken => /\ LatestIs(new, "policy", policy[Root])
                                     /\ ~NoneOf(new, "policy")
            /\ "upstream" \in taken => /\ LatestIs(new, "upstream", upstream[Root])
                                       /\ ~NoneOf(new, "upstream")
            /\ "policy" \notin taken /\ LatestIs(policy_queue[h], "policy", policy[Root])
                 => LatestIs(new, "policy", policy[Root])
        <5>1. /\ policy_queue[h] \in Seq(Message) /\ taken \in SUBSET Kinds
              /\ "policy" \in taken => policy[Root] \in Nat \ {0}
              /\ upstream[Root] \in Upstreams \cup {None}
          BY <2>3, <3>3, <3>5
        <5> QED
          BY <5>1, PushedLatest
      <4>2. policy_queue'[h] = new
        BY <3>2
      <4> HIDE DEF new
      <4> QED
        BY <3>4, <4>1, <4>2
    <3>7. PolicyPart(h)'
      <4>1. CASE "policy" \in InitialKinds
        BY <1>3, <3>2, <3>6, <4>1 DEF PolicyPart
      <4>2. CASE "policy" \notin InitialKinds
        <5>1. policy[h] \in {policy[Root], OwnPolicy}
          BY <2>3, <3>3, <4>2 DEF NoPolicy, OwnPolicy
        <5> QED
          BY <1>3, <3>1, <3>6, <4>2, <5>1 DEF PolicyPart
      <4> QED
        BY <4>1, <4>2
    <3>8. UpstreamPart(h)'
      BY <1>3, <2>3, <3>2, <3>6 DEF UpstreamPart, Forwarded
    <3> QED
      BY <3>7, <3>8
  <2>6. AllInSync'
    BY <2>4, <2>5 DEF AllInSync
  <2> QED
    BY <2>2, <2>6
<1>5. CASE ~QueueResolves(h)
  <2>1. UNCHANGED workerVars
    BY <1>2, <1>5 DEF OnRegisterQueueReady
  <2> QED
    BY <1>1, <1>3, <2>1
    DEF AllInSync, SameGroup, PolicyPart, UpstreamPart, Forwarded
<1> QED
  BY <1>4, <1>5

\* What a configuration leaves of the group, and of a forwarded upstream.
LEMMA SetConfigSync ==
  ASSUME TypeOK, NEW v \in VMs, NEW conf \in Config, SetConfig(v, conf)
  PROVE  /\ config[v] # None => config'[v].group = config[v].group
         /\ \A x \in VMs : x # v => config'[x] = config[x] /\ upstream'[x] = upstream[x]
         /\ upstream'[v] = ConfiguredUpstream(v, conf)
         /\ conf.upstream = None => upstream'[v] = upstream[v]
<1>1. /\ config' = [config EXCEPT ![v] = conf] /\ config'[v] = conf
      /\ upstream' = [upstream EXCEPT ![v] = ConfiguredUpstream(v, conf)]
      /\ ~ChangesIdentity(v, conf)
  BY DEF SetConfig, TypeOK
<1> QED
  BY <1>1 DEF ChangesIdentity, ConfiguredUpstream, TypeOK

\* A configuration of a filter.
LEMMA FilterConfigSync ==
  ASSUME SyncInv, NEW w \in Workers, NEW conf \in FilterConfigs[w],
         SetConfig(w, conf), SetOwnPolicy(w, conf),
         UNCHANGED <<workerVars, gone>>
  PROVE  AllInSync' /\ SameGroup'
<1> USE DEF workerVars
<1>1. /\ TypeOK /\ JoinOnce /\ AllInSync /\ SameGroup
      /\ Root \in VMs /\ w \in VMs /\ w # Root /\ policy_update_queues \subseteq VMs
  BY OrderTypes DEF SyncInv, OrderInv, StreamInv, TypeOK, VMs
<1>2. conf \in Config
  BY ConfigAssumption
<1>3. /\ config[w] # None => config'[w].group = config[w].group
      /\ \A x \in VMs : x # w => config'[x] = config[x] /\ upstream'[x] = upstream[x]
      /\ conf.upstream = None => upstream'[w] = upstream[w]
  BY <1>1, <1>2, SetConfigSync
<1>4. /\ \A x \in VMs : x # w => policy'[x] = policy[x]
      /\ policy'[w] \in {policy[w], OwnPolicy}
  BY <1>1 DEF SetOwnPolicy, TypeOK
<1>5. ASSUME NEW x \in policy_update_queues \ gone
      PROVE  PolicyPart(x)' /\ UpstreamPart(x)'
  <2>1. x \in VMs /\ PolicyPart(x) /\ UpstreamPart(x)
    BY <1>1, <1>5 DEF AllInSync
  <2>2. PolicyPart(x)'
    BY <1>1, <1>4, <2>1 DEF PolicyPart
  <2>3. UpstreamPart(x)'
    BY <1>1, <1>3, <2>1 DEF UpstreamPart, Forwarded
  <2> QED
    BY <2>2, <2>3
<1>6. SameGroup'
  BY <1>1, <1>3 DEF SameGroup, JoinOnce
<1> QED
  BY <1>5, <1>6 DEF AllInSync

\* A filter applies the first message of its queue.
LEMMA DequeueSync ==
  ASSUME SyncInv, NEW w \in Workers, OnPolicyQueueReady(w)
  PROVE  AllInSync' /\ SameGroup'
<1> USE DEF joinVars
<1>1. /\ TypeOK /\ AllInSync /\ SameGroup
      /\ Root \in VMs /\ w \in VMs /\ w # Root /\ policy_update_queues \subseteq Workers
      /\ \A x \in Workers : x \in VMs /\ x # Root
  BY OrderTypes DEF SyncInv, OrderInv, StreamInv, TypeOK
<1>2. UNCHANGED <<config, policy_update_queues, missed, gone>>
  BY DEF OnPolicyQueueReady
<1> DEFINE q == policy_queue[w]
           m == Head(q)
<1>3. q \in Seq(Message) /\ q # <<>>
  BY <1>1, OrderTypes DEF OnPolicyQueueReady
<1>4. /\ policy_queue'[w] = Tail(q)
      /\ \A x \in Workers : x # w => policy_queue'[x] = policy_queue[x]
  BY <1>1 DEF OnPolicyQueueReady, TypeOK
<1>5. /\ \A x \in VMs : x # w => policy'[x] = policy[x] /\ upstream'[x] = upstream[x]
      /\ m.kind = "policy" => policy'[w] = m.value /\ upstream'[w] = upstream[w]
      /\ m.kind = "upstream" => upstream'[w] = m.value /\ policy'[w] = policy[w]
      /\ m.kind \in {"policy", "upstream"}
  BY <1>1 DEF OnPolicyQueueReady, TypeOK
<1>6. ASSUME NEW x \in policy_update_queues \ gone, x # w
      PROVE  PolicyPart(x)' /\ UpstreamPart(x)'
  BY <1>1, <1>2, <1>4, <1>5, <1>6 DEF AllInSync, PolicyPart, UpstreamPart, Forwarded
<1>7. ASSUME w \in policy_update_queues \ gone
      PROVE  PolicyPart(w)' /\ UpstreamPart(w)'
  <2>1. PolicyPart(w) /\ UpstreamPart(w)
    BY <1>1, <1>7 DEF AllInSync
  <2> HIDE DEF m, q
  <2>2. \A k, v : LatestIs(q, k, v) =>
          /\ LatestIs(Tail(q), k, v)
          /\ NoneOf(Tail(q), k) => \/ Head(q).kind = k /\ Head(q).value = v
                                   \/ Head(q).kind # k /\ NoneOf(q, k)
    BY <1>3, LatestTail
  <2>3. m = Head(q) /\ q = policy_queue[w]
    BY DEF m, q
  <2>4. PolicyPart(w)'
    <3>1. SUFFICES ASSUME <<w, "policy">> \notin missed
                   PROVE  /\ LatestIs(Tail(q), "policy", policy[Root])
                          /\ NoneOf(Tail(q), "policy")
                               => policy'[w] \in {policy[Root], OwnPolicy}
      BY <1>1, <1>2, <1>4, <1>5 DEF PolicyPart
    <3>2. /\ LatestIs(q, "policy", policy[Root])
          /\ NoneOf(q, "policy") => policy[w] \in {policy[Root], OwnPolicy}
      BY <2>1, <2>3, <3>1 DEF PolicyPart
    <3> QED
      BY <1>5, <2>2, <2>3, <3>2
  <2>5. UpstreamPart(w)'
    <3>1. SUFFICES ASSUME Forwarded(w), <<w, "upstream">> \notin missed
                   PROVE  /\ LatestIs(Tail(q), "upstream", upstream[Root])
                          /\ NoneOf(Tail(q), "upstream") => upstream'[w] = upstream[Root]
      BY <1>1, <1>2, <1>4, <1>5 DEF UpstreamPart, Forwarded
    <3>2. /\ LatestIs(q, "upstream", upstream[Root])
          /\ NoneOf(q, "upstream") => upstream[w] = upstream[Root]
      BY <2>1, <2>3, <3>1 DEF UpstreamPart
    <3> QED
      BY <1>5, <2>2, <2>3, <3>2
  <2> QED
    BY <2>4, <2>5
<1> QED
  BY <1>1, <1>2, <1>6, <1>7 DEF AllInSync, SameGroup

LEMMA StepSync == SyncInv /\ [Next]_vars => AllInSync' /\ SameGroup'
<1> SUFFICES ASSUME SyncInv, [Next]_vars PROVE AllInSync' /\ SameGroup'
  OBVIOUS
<1> USE DEF rootVars, hostVars, dataVars, workerVars, joinVars
<1>1. /\ TypeOK /\ JoinOnce /\ CollectorOnly /\ AllInSync /\ SameGroup
      /\ Root \in VMs /\ \A w \in Workers : w \in VMs /\ w # Root
      /\ policy_update_queues \subseteq Workers
  BY OrderTypes DEF SyncInv, OrderInv, StreamInv, TypeOK
<1>2. CASE UNCHANGED <<config, policy, upstream, policy_update_queues, policy_queue,
                       missed, gone>>
  BY <1>1, <1>2 DEF AllInSync, SameGroup, PolicyPart, UpstreamPart, Forwarded
<1>3. ASSUME NEW t \in StreamIds, OnGrpcStreamMessage(t), ~UNCHANGED vars
      PROVE  AllInSync' /\ SameGroup'
  <2>1. /\ AdoptPolicy(streams[t]) /\ Broadcast({"policy"}, Len(published) + 1, None)
        /\ UNCHANGED <<config, upstream, joinVars>>
        /\ streams[t] # None
    BY <1>3 DEF OnGrpcStreamMessage
  <2>2. streams[t] \in Origins /\ {"policy"} \in SUBSET Kinds
    BY <1>1, <2>1 DEF TypeOK, Origins, Kinds
  <2>3. AllInSync'
    BY <2>1, <2>2, RootSync
  <2>4. policy_update_queues' \subseteq policy_update_queues
    BY <2>1 DEF Broadcast
  <2> QED
    BY <1>1, <2>1, <2>3, <2>4 DEF SameGroup
<1>4. ASSUME NEW conf \in RootConfigs, ConfigureRoot(conf)
      PROVE  AllInSync' /\ SameGroup'
  BY <1>1, <1>4 DEF ConfigureRoot, CollectorOnly, AllInSync, SameGroup
<1>5. ASSUME NEW conf \in RootConfigs, ReconfigureRoot(conf)
      PROVE  AllInSync' /\ SameGroup'
  <2> DEFINE kinds == {k \in Kinds : \/ k = "policy" /\ conf.local_policy
                                     \/ k = "upstream" /\ UpstreamChanges(conf)}
             u == ConfiguredUpstream(Root, conf)
  <2>1. conf \in Config
    BY ConfigAssumption
  <2>2. SetConfig(Root, conf) /\ config[Root] # None /\ SetLocalPolicy(conf)
        /\ Broadcast(kinds, Len(published) + 1, u) /\ UNCHANGED joinVars
    BY <1>5 DEF ReconfigureRoot
  <2>3. u \in Upstreams \cup {None}
    BY <1>1, <2>1, <2>2, SetConfigType
  <2>4. /\ config'[Root].group = config[Root].group
        /\ \A w \in Workers : config'[w] = config[w] /\ upstream'[w] = upstream[w]
        /\ upstream'[Root] = u
    BY <1>1, <2>1, <2>2, SetConfigSync
  <2>5. /\ "policy" \in kinds => \E origin \in Origins : AdoptPolicy(origin)
        /\ "policy" \notin kinds => UNCHANGED policy
        /\ "upstream" \notin kinds => upstream'[Root] = upstream[Root]
    BY <2>2, <2>4 DEF SetLocalPolicy, Origins, Kinds, UpstreamChanges
  <2>6. kinds \in SUBSET Kinds
    OBVIOUS
  <2> HIDE DEF kinds, u
  <2>7. AllInSync'
    BY <2>2, <2>3, <2>4, <2>5, <2>6, RootSync
  <2>8. policy_update_queues' \subseteq policy_update_queues
    BY <2>2 DEF Broadcast
  <2> QED
    BY <1>1, <2>2, <2>4, <2>7, <2>8 DEF SameGroup
<1>6. CASE OnRegisterQueueReady
  BY <1>6, RegisterSync
<1>7. ASSUME NEW w \in Workers, FilterNext(w), ~UNCHANGED vars
      PROVE  AllInSync' /\ SameGroup'
  <2>1. ASSUME NEW conf \in FilterConfigs[w], ConfigureFilter(w, conf)
        PROVE  AllInSync' /\ SameGroup'
    BY <2>1, FilterConfigSync DEF ConfigureFilter
  <2>2. ASSUME NEW conf \in FilterConfigs[w], ReconfigureFilter(w, conf)
        PROVE  AllInSync' /\ SameGroup'
    BY <2>2, FilterConfigSync DEF ReconfigureFilter
  <2>3. CASE WorkerStops(w)
    <3>1. /\ UNCHANGED <<config, policy, upstream, policy_update_queues, missed>>
          /\ gone' = gone \cup {w}
          /\ \A x \in Workers : x # w => policy_queue'[x] = policy_queue[x]
      BY <1>1, <2>3 DEF WorkerStops, TypeOK
    <3> QED
      BY <1>1, <3>1 DEF AllInSync, SameGroup, PolicyPart, UpstreamPart, Forwarded
  <2> QED
    BY <1>7, <2>1, <2>2, <2>3, DequeueSync DEF FilterNext, IgnoreConfigure
<1>8. CASE \/ OnTick
           \/ \E t \in StreamIds : OnGrpcStreamClose(t)
           \/ \E c \in CallIds : OnGrpcCallResponse(c)
           \/ UNCHANGED vars
  BY <1>2, <1>8 DEF OnTick, OnGrpcStreamClose, OnGrpcCallResponse, vars
<1>9. CASE \E conf \in RootConfigs : IgnoreConfigure(Root, conf)
  BY <1>8, <1>9 DEF IgnoreConfigure
<1> QED
  BY <1>3, <1>4, <1>5, <1>6, <1>7, <1>8, <1>9 DEF Next, RootNext

LEMMA SyncInvariant == Spec => []SyncInv
<1>1. Init => SyncInv
  <2>1. Init => OrderInv
    BY InitType, InitStream, InitOrder DEF OrderInv, StreamInv, OrderParts
  <2> QED
    BY <2>1 DEF Init, SyncInv, AllInSync, SameGroup
<1>2. SyncInv /\ [Next]_vars => SyncInv'
  <2>1. OrderInv /\ [Next]_vars => OrderInv'
    BY StepType, StepStream, StepOrder DEF OrderInv, StreamInv, OrderParts
  <2> QED
    BY <2>1, StepSync DEF SyncInv
<1> QED
  BY <1>1, <1>2, PTL DEF Spec

-----------------------------------------------------------------------------
\* A registered filter has, or will have once its queue is empty, the policy of the
\* root (root.rs on_queue_ready, broadcast_to_workers).
THEOREM PolicyInSyncHolds == Spec => []PolicyInSync
<1>1. SyncInv => PolicyInSync
  BY DEF SyncInv, AllInSync, PolicyPart, LatestIs, NoneOf, PolicyInSync, PoliciesQueued
<1> QED
  BY <1>1, SyncInvariant, PTL

\* The same for the upstream of a filter that is not configured with its own
\* (root.rs on_configure, on_queue_ready).
THEOREM UpstreamInSyncHolds == Spec => []UpstreamInSync
<1>1. SyncInv => UpstreamInSync
  BY DEF SyncInv, AllInSync, UpstreamPart, LatestIs, NoneOf, UpstreamInSync, UpstreamsQueued
<1> QED
  BY <1>1, SyncInvariant, PTL

\* No policy crosses from one deployment group to another (root.rs on_configure).
THEOREM GroupIsolationHolds == Spec => []GroupIsolation
<1>1. SyncInv => GroupIsolation
  BY DEF SyncInv, SameGroup, GroupIsolation
<1> QED
  BY <1>1, SyncInvariant, PTL

=============================================================================
