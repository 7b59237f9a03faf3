---------------------------- MODULE MCControlPlane ----------------------------
(***************************************************************************)
(* Instances of ControlPlane for TLC.  The runs about the stream have no   *)
(* filters; the runs about the distribution have a stream but no pings     *)
(* that are dispatched (CallIds is empty, so every dispatch is an error).  *)
(***************************************************************************)
EXTENDS ControlPlane, TLC

CONSTANTS w1, w2, u1, u2, g1, g2

Conf(group, u, local) == [group |-> group, upstream |-> u, local_policy |-> local]

\* Every configuration of one group.
AllRootConfigs == {Conf(g1, u, local) : u \in Upstreams \cup {None}, local \in BOOLEAN}

\* A root that follows its upstream, and one that is moved from u1 to u2.
FollowerRootConfigs == {Conf(g1, u, FALSE) : u \in Upstreams \cup {None}}

\* The same, and an attempt to move it to group g2.
GroupRootConfigs == FollowerRootConfigs \cup {Conf(g2, None, FALSE)}

NoFilterConfigs == [w \in Workers |-> {}]

\* Filters that leave everything to the collector.
PlainFilterConfigs == [w \in Workers |-> {Conf(g1, None, FALSE)}]

\* One filter leaves everything to the collector; the other may have its own upstream or
\* its own policy, and may be of the other group or be moved to it.
MixedFilterConfigs ==
  [w \in Workers |->
    IF w = w1 THEN {Conf(g1, None, FALSE)}
              ELSE {Conf(g1, u1, FALSE), Conf(g1, None, TRUE), Conf(g2, None, FALSE)}]

OwnUpstreamConfigs == [w \in Workers |-> {Conf(g1, u1, FALSE)}]
=============================================================================
