----------------------------- MODULE AtLeastOnce -----------------------------
(***************************************************************************)
(* What the outbox promises its consumers: an event of the ledger reaches  *)
(* the topic at least once, nothing else does, and an event is retired     *)
(* only after the topic has it.  Module Relay shows that POST              *)
(* /outbox/publish implements this.                                        *)
(***************************************************************************)
EXTENDS Sequences, Functions

CONSTANT Events

VARIABLES
  queued,    \* events the ledger has committed
  topic,     \* copies the broker accepted, in order
  retired    \* events that will not be sent again

Init == queued = {} /\ topic = <<>> /\ retired = {}

Enqueue(e) ==
  /\ e \notin queued
  /\ queued' = queued \cup {e}
  /\ UNCHANGED <<topic, retired>>

Deliver(e) ==
  /\ e \in queued
  /\ topic' = Append(topic, e)
  /\ UNCHANGED <<queued, retired>>

Retire(es) ==
  /\ es \subseteq Range(topic)
  /\ retired' = retired \cup es
  /\ UNCHANGED <<queued, topic>>

Next ==
  \/ \E e \in Events : Enqueue(e) \/ Deliver(e)
  \/ \E es \in SUBSET Events : Retire(es)

Spec == Init /\ [][Next]_<<queued, topic, retired>>
=============================================================================
