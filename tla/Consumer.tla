------------------------------ MODULE Consumer ------------------------------
(***************************************************************************)
(* scripts/consumer.py: one process that takes the messages of the         *)
(* subscription on several callback threads and counts each event once,    *)
(* with a set of seen event ids kept in memory.                            *)
(*                                                                         *)
(* A message is its position in the topic; several messages may carry one  *)
(* event, since the relay is at-least-once.  The subscription delivers     *)
(* every message until it is acknowledged.                                 *)
(***************************************************************************)
EXTENDS Integers, Sequences, FiniteSets

CONSTANTS
  Events,        \* values of the event_id attribute
  Kinds,         \* the transaction types counted
  KindOf,        \* the type in each event's payload; the topic is shared, so
                 \* it may be none of Kinds
  Malformed,     \* events whose payload is no JSON
  Threads,       \* callback threads of the subscriber
  MaxMessages,   \* bound on the messages of the topic
  MaxLapses,     \* bound on expired leases and lost acknowledgements
  MaxRestarts    \* bound on restarts of the process

ASSUME KindsAssumption == DOMAIN KindOf = Events /\ Malformed \subseteq Events

ASSUME ThreadsAssumption == IsFiniteSet(Threads)

ASSUME BoundsAssumption ==
  MaxMessages \in Nat /\ MaxLapses \in Nat /\ MaxRestarts \in Nat

VARIABLES
  topic,      \* event of each message, in publication order
  status,     \* what the subscription knows of each message
  pc,         \* what each thread does next
  message,    \* the message each thread works on, 0 for none
  seen,       \* dedup._seen
  totals,     \* totals
  handled,    \* observer: every event processed since the first start
  lapses,     \* expired leases and lost acknowledgements so far
  restarts    \* restarts so far

vars == <<topic, status, pc, message, seen, totals, handled, lapses, restarts>>

Messages == 1 .. MaxMessages

\* FAULT: messages are published without the attribute and look alike.
missing_id(t) == topic[1]

event_id(t) == topic[message[t]]

Init ==
  /\ topic = <<>>
  /\ status = [m \in Messages |-> "waiting"]
  /\ pc = [t \in Threads |-> "idle"]
  /\ message = [t \in Threads |-> 0]
  /\ seen = {}
  /\ totals = [k \in Kinds |-> 0]
  /\ handled = {}
  /\ lapses = 0
  /\ restarts = 0

-----------------------------------------------------------------------------
\* The subscription

Arrive(e) ==
  /\ Len(topic) < MaxMessages
  /\ topic' = Append(topic, e)
  /\ UNCHANGED <<status, pc, message, seen, totals, handled, lapses, restarts>>

\* A thread is given a message that nobody holds.
Deliver(t, m) ==
  /\ pc[t] = "idle"
  /\ m \in DOMAIN topic /\ status[m] = "waiting"
  /\ status' = [status EXCEPT ![m] = "leased"]
  /\ message' = [message EXCEPT ![t] = m]
  /\ pc' = [pc EXCEPT ![t] = "check"]
  /\ UNCHANGED <<topic, seen, totals, handled, lapses, restarts>>

\* The lease runs out while a callback is still busy with the message.
Lapse(m) ==
  /\ status[m] = "leased"
  /\ lapses < MaxLapses
  /\ lapses' = lapses + 1
  /\ status' = [status EXCEPT ![m] = "waiting"]
  /\ UNCHANGED <<topic, pc, message, seen, totals, handled, restarts>>

-----------------------------------------------------------------------------
\* handle(message)

Finish(t, outcome) ==
  /\ status' = [status EXCEPT ![message[t]] = outcome]
  /\ pc' = [pc EXCEPT ![t] = "idle"]
  /\ message' = [message EXCEPT ![t] = 0]

is_duplicate(e) == e \in seen

\* FAULT: a duplicate is dropped without message.ack().
drop_duplicate(t) == pc' = [pc EXCEPT ![t] = "idle"]

settle_duplicate(t) == pc' = [pc EXCEPT ![t] = "ack"]

\* dedup.is_duplicate and, for a new event, json.loads.
Check(t) ==
  /\ pc[t] = "check"
  /\ \/ /\ is_duplicate(event_id(t))
        /\ settle_duplicate(t)
        /\ UNCHANGED <<status, message>>
     \/ /\ ~ is_duplicate(event_id(t)) /\ event_id(t) \in Malformed
        /\ Finish(t, "waiting")
     \/ /\ ~ is_duplicate(event_id(t)) /\ event_id(t) \notin Malformed
        /\ pc' = [pc EXCEPT ![t] = "count"]
        /\ UNCHANGED <<status, message>>
  /\ UNCHANGED <<topic, seen, totals, handled, lapses, restarts>>

add(k) == IF k \in Kinds THEN [totals EXCEPT ![k] = @ + 1] ELSE totals

\* if kind in totals: totals[kind] += 1.  CPython 3.12 runs it without switching threads.
Count(t) ==
  /\ pc[t] = "count"
  /\ totals' = add(KindOf[event_id(t)])
  /\ handled' = handled \cup {event_id(t)}
  /\ pc' = [pc EXCEPT ![t] = "mark"]
  /\ UNCHANGED <<topic, status, message, seen, lapses, restarts>>

\* dedup.mark.
Mark(t) ==
  /\ pc[t] = "mark"
  /\ seen' = seen \cup {event_id(t)}
  /\ pc' = [pc EXCEPT ![t] = "ack"]
  /\ UNCHANGED <<topic, status, message, totals, handled, lapses, restarts>>

\* message.ack(), which may get lost on its way.
Ack(t) ==
  /\ pc[t] = "ack"
  /\ \/ Finish(t, "acked") /\ UNCHANGED lapses
     \/ /\ lapses < MaxLapses
        /\ lapses' = lapses + 1
        /\ Finish(t, IF status[message[t]] = "acked" THEN "acked" ELSE "waiting")
  /\ UNCHANGED <<topic, seen, totals, handled, restarts>>

\* FAULT: totals are restored after a restart, the seen ids are not.
saved_totals == totals

fresh_totals == [k \in Kinds |-> 0]

\* The process stops, at SIGINT or otherwise, and starts anew: what it knew is
\* gone and the leases it held run out.
Restart ==
  /\ restarts < MaxRestarts
  /\ restarts' = restarts + 1
  /\ seen' = {}
  /\ totals' = fresh_totals
  /\ pc' = [t \in Threads |-> "idle"]
  /\ message' = [t \in Threads |-> 0]
  /\ status' = [m \in Messages |-> IF status[m] = "leased" THEN "waiting" ELSE status[m]]
  /\ UNCHANGED <<topic, handled, lapses>>

Handle(t) == Check(t) \/ Count(t) \/ Mark(t) \/ Ack(t)

\* Nothing left to deliver: the process waits for the next message.
Listen ==
  /\ \A t \in Threads : pc[t] = "idle"
  /\ \A m \in DOMAIN topic : status[m] = "acked"
  /\ UNCHANGED vars

Next ==
  \/ \E e \in Events : Arrive(e)
  \/ \E t \in Threads : Handle(t) \/ \E m \in Messages : Deliver(t, m)
  \/ \E m \in Messages : Lapse(m)
  \/ Restart
  \/ Listen

Spec == Init /\ [][Next]_vars

\* A callback that runs goes on, and a waiting message is delivered again and
\* again until it is acknowledged.
FairSpec ==
  /\ Spec
  /\ \A t \in Threads : WF_vars(Handle(t))
  /\ \A m \in Messages : SF_vars(\E t \in Threads : Deliver(t, m))

-----------------------------------------------------------------------------
\* Properties

\* The types of the subscription, of the threads and of the process's memory.
TypeOK ==
  /\ topic \in Seq(Events) /\ Len(topic) <= MaxMessages
  /\ status \in [Messages -> {"waiting", "leased", "acked"}]
  /\ pc \in [Threads -> {"idle", "check", "count", "mark", "ack"}]
  /\ message \in [Threads -> 0 .. MaxMessages]
  /\ \A t \in Threads : pc[t] = "idle" \/ message[t] \in DOMAIN topic
  /\ seen \subseteq Events
  /\ totals \in [Kinds -> Nat]
  /\ handled \subseteq Events
  /\ lapses \in 0 .. MaxLapses
  /\ restarts \in 0 .. MaxRestarts

\* A message leaves the subscription only when its event has been handled, in
\* this run of the process or an earlier one: no interleaving of duplicates,
\* lapsed leases and restarts loses an event.
AckedWasCounted ==
  \A m \in DOMAIN topic : status[m] = "acked" => topic[m] \in handled

counted(k)  == {e \in seen : KindOf[e] = k}
counting(k) == {event_id(t) : t \in {u \in Threads : pc[u] = "mark"}}

\* The running totals never miss a seen event, and count one at most once per
\* thread, however often and wherever it is delivered: with a single callback
\* at a time they are exact.
TotalsWithinBounds ==
  \A k \in Kinds :
    /\ Cardinality(counted(k)) <= totals[k]
    /\ totals[k] <= Cardinality(Threads)
                      * Cardinality({e \in seen \cup counting(k) : KindOf[e] = k})

\* Every message of a well-formed event is acknowledged in the end.
EveryMessageIsAcked ==
  \A m \in Messages :
    (m \in DOMAIN topic /\ topic[m] \notin Malformed) ~> status[m] = "acked"

\* "Tracks processed event ids so a redelivered event is a no-op"
\* (consumer.py:27): once no callback runs, the totals count each seen event once.
RedeliveryIsNoOp ==
  (\A t \in Threads : pc[t] = "idle") =>
    \A k \in Kinds : totals[k] = Cardinality(counted(k))
=============================================================================
