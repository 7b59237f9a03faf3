---------------------------- MODULE AtomicBroadcast ----------------------------
(***************************************************************************)
(* broadcast_to_workers as ControlPlane sees it: in one step every queue   *)
(* of the list that exists is offered one message, which the host may      *)
(* refuse for an unreliable one, and every queue that is gone leaves the   *)
(* list.                                                                   *)
(***************************************************************************)
CONSTANTS Queues, Unreliable

VARIABLES
  members,   \* policy_update_queues, as a set
  gone,      \* the queues whose VM the host destroyed
  received   \* how many messages of the last broadcast each queue holds

avars == <<members, gone, received>>

AtomicInit ==
  /\ members = {}
  /\ gone = {}
  /\ received = [q \in Queues |-> 0]

Join ==
  \E q \in Queues \ members :
    /\ members' = members \cup {q}
    /\ UNCHANGED <<gone, received>>

Stop ==
  /\ gone' \in SUBSET Queues
  /\ gone \subseteq gone'
  /\ UNCHANGED <<members, received>>

BroadcastOnce ==
  \E refused \in SUBSET (members \cap Unreliable) :
    /\ received' = [q \in Queues |->
                      IF q \in (members \ gone) \ refused THEN 1 ELSE 0]
    /\ members' = members \ gone
    /\ UNCHANGED gone

AtomicSpec == AtomicInit /\ [][Join \/ Stop \/ BroadcastOnce]_avars
=============================================================================
