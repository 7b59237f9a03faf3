-------------------------- MODULE BroadcastToWorkers --------------------------
(***************************************************************************)
(* broadcast_to_workers (leaksignal/src/root.rs:176-208) one host call at  *)
(* a time: the loop over policy_update_queues that remembers the index of  *)
(* every queue that is NotFound, and the removal of those indices, highest *)
(* first.  Filter VMs run on other threads, so a queue may disappear       *)
(* between any two calls; registration is another callback of the same VM  *)
(* and waits for the broadcast to return.                                  *)
(***************************************************************************)
EXTENDS Naturals, Sequences, SequencesExt

CONSTANTS
  Queues,      \* the queues that filters may register
  Unreliable   \* those that the host may refuse to write

ASSUME UnreliableAssumption == Unreliable \subseteq Queues

VARIABLES
  policy_update_queues,  \* the Vec
  pc,                    \* "idle", "send", "remove", "return"
  i,                     \* the next index of the loop
  bad_stream_index,      \* the indices of the queues that are NotFound
  gone,                  \* the queues the host destroyed
  received,              \* messages of this broadcast in each queue
  \* history: the list and the messages when the broadcast began, and the queues
  \* that disappeared after they had been written
  before, late

vars == <<policy_update_queues, pc, i, bad_stream_index, gone, received, before, late>>

NoMessages == [q \in Queues |-> 0]

TypeOK ==
  /\ policy_update_queues \in Seq(Queues)
  /\ pc \in {"idle", "send", "remove", "return"}
  /\ i \in Nat \ {0}
  /\ bad_stream_index \in Seq(Nat \ {0})
  /\ gone \subseteq Queues
  /\ received \in [Queues -> Nat]
  /\ before \in [queues : SUBSET Queues, received : [Queues -> Nat]]
  /\ late \subseteq gone

Init ==
  /\ policy_update_queues = <<>>
  /\ pc = "idle"
  /\ i = 1
  /\ bad_stream_index = <<>>
  /\ gone = {}
  /\ received = NoMessages
  /\ before = [queues |-> {}, received |-> NoMessages]
  /\ late = {}

\* on_queue_ready pushes the queue of a filter that registered; each does so once.
Register(q) ==
  /\ pc = "idle"
  /\ q \notin gone
  /\ ~Contains(policy_update_queues, q)
  /\ policy_update_queues' = Append(policy_update_queues, q)
  /\ UNCHANGED <<pc, i, bad_stream_index, gone, received, before, late>>

Begin ==
  /\ pc = "idle"
  /\ pc' = "send"
  /\ i' = 1
  /\ bad_stream_index' = <<>>
  /\ received' = NoMessages
  /\ before' = [queues |-> ToSet(policy_update_queues), received |-> received]
  /\ UNCHANGED <<policy_update_queues, gone, late>>

\* The loop covers the whole list and remembers the index it is at.
\* Faulty variant: the last queue is left out.
LoopEndsEarly == Len(policy_update_queues) - 1
LoopEnd == Len(policy_update_queues)

\* One enqueue_shared_queue: Ok, NotFound, or another error.
SendOne ==
  /\ pc = "send"
  /\ i <= LoopEnd
  /\ i' = i + 1
  /\ LET q == policy_update_queues[i] IN
       \/ /\ q \notin gone
          /\ received' = [received EXCEPT ![q] = received[q] + 1]
          /\ UNCHANGED bad_stream_index
       \/ /\ q \in gone
          /\ bad_stream_index' = Append(bad_stream_index, i)
          /\ UNCHANGED received
       \/ /\ q \in Unreliable \ gone
          /\ UNCHANGED <<received, bad_stream_index>>
  /\ UNCHANGED <<policy_update_queues, pc, gone, before, late>>

\* into_iter().rev(); the faulty variant removes in the order of the loop.
LoopOrder(indices) == indices
RemovalOrder(indices) == Reverse(indices)

SentAll ==
  /\ pc = "send"
  /\ i > LoopEnd
  /\ pc' = "remove"
  /\ bad_stream_index' = RemovalOrder(bad_stream_index)
  /\ UNCHANGED <<policy_update_queues, i, gone, received, before, late>>

RemoveOne ==
  /\ pc = "remove"
  /\ bad_stream_index # <<>>
  /\ policy_update_queues' = RemoveAt(policy_update_queues, Head(bad_stream_index))
  /\ bad_stream_index' = Tail(bad_stream_index)
  /\ UNCHANGED <<pc, i, gone, received, before, late>>

RemovedAll ==
  /\ pc = "remove"
  /\ bad_stream_index = <<>>
  /\ pc' = "return"
  /\ UNCHANGED <<policy_update_queues, i, bad_stream_index, gone, received, before, late>>

Return ==
  /\ pc = "return"
  /\ pc' = "idle"
  /\ i' = 1      \* the loop variable is dead, like bad_stream_index here
  /\ late' = {}
  /\ UNCHANGED <<policy_update_queues, bad_stream_index, gone, received, before>>

\* The filter's thread ends between two host calls of the collector.
Written(q) ==
  \/ pc \in {"remove", "return"}
  \/ pc = "send" /\ \E n \in 1 .. (i - 1) : policy_update_queues[n] = q

StopFilter(q) ==
  /\ q \notin gone
  /\ gone' = gone \cup {q}
  /\ late' = IF Written(q) THEN late \cup {q} ELSE late
  /\ UNCHANGED <<policy_update_queues, pc, i, bad_stream_index, received, before>>

Next ==
  \/ \E q \in Queues : Register(q)
  \/ \E q \in Queues : StopFilter(q)
  \/ Begin \/ SendOne \/ SentAll \/ RemoveOne \/ RemovedAll \/ Return

Spec == Init /\ [][Next]_vars

-----------------------------------------------------------------------------
\* Vec::remove never panics: an index that is still to be removed is in range
\* (root.rs:204-206).
RemoveInRange ==
  pc = "remove" => \A n \in DOMAIN bad_stream_index :
                     bad_stream_index[n] <= Len(policy_update_queues)

\* The list only loses queues that are gone, and keeps the order of the others,
\* also while the indices in bad_stream_index go stale (root.rs:204-206).
OnlyGoneRemoved ==
  [][\A n \in DOMAIN policy_update_queues :
       LET q == policy_update_queues[n] IN
         q \in gone \/ \E m \in 1 .. n : m \in DOMAIN policy_update_queues'
                                         /\ policy_update_queues'[m] = q]_vars

\* Whatever disappears in between, the broadcast is one atomic step: a filter that
\* disappears after its own queue was written disappears after the broadcast.
Sending == pc \in {"send", "remove"}
Atomic == INSTANCE AtomicBroadcast WITH
  members  <- IF Sending THEN before.queues ELSE ToSet(policy_update_queues),
  received <- IF Sending THEN before.received ELSE received,
  gone     <- gone \ late
AtomicSpec == Atomic!AtomicSpec
=============================================================================
