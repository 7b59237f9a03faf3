--------------------------- MODULE PolicyReplication ---------------------------
(***************************************************************************)
(* What the control plane promises about policies, without streams, queues *)
(* or registration: the root adopts a sequence of policies, and a filter   *)
(* goes through that sequence in the order of adoption.  It may skip       *)
(* policies, and it may at any time fall back to a policy of its own, but  *)
(* it never returns from one of the root's policies to an earlier one.     *)
(***************************************************************************)
EXTENDS Integers, Sequences

CONSTANTS Root, Workers, Origins, Own

VARIABLES
  published,  \* the origins of the root's policies, in the order of adoption
  view        \* for each VM, the place of its policy in published; 0 is none

rvars == <<published, view>>

ReplicationInit ==
  /\ published = <<>>
  /\ view = [v \in {Root} \cup Workers |-> 0]

\* The root adopts a policy and uses it at once.
Publish ==
  \E origin \in Origins :
    /\ published' = Append(published, origin)
    /\ view' = [view EXCEPT ![Root] = Len(published) + 1]

\* A filter moves forward to a policy of the root.
Advance(w) ==
  \E n \in 1 .. Len(published) :
    /\ n > view[w]
    /\ view' = [view EXCEPT ![w] = n]
    /\ UNCHANGED published

\* A filter is given a local policy.
UseOwn(w) ==
  /\ view' = [view EXCEPT ![w] = Own]
  /\ UNCHANGED published

ReplicationNext == Publish \/ \E w \in Workers : Advance(w) \/ UseOwn(w)

ReplicationSpec == ReplicationInit /\ [][ReplicationNext]_rvars
=============================================================================
