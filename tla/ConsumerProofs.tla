---------------------------- MODULE ConsumerProofs ----------------------------
(***************************************************************************)
(* Theorems about Consumer for any number of threads, events, messages and *)
(* restarts: no acknowledged message is lost, and the totals stay within   *)
(* once and once per thread for each event.                                *)
(***************************************************************************)
EXTENDS Consumer, FiniteSetTheorems, TLAPS

-----------------------------------------------------------------------------
\* The invariant

\* What is marked, or about to be marked or acknowledged, has been handled, and
\* only messages of the topic are.
Delivered ==
  /\ \A e \in handled : \E m \in DOMAIN topic : topic[m] = e
  /\ seen \subseteq handled
  /\ \A t \in Threads : pc[t] \in {"mark", "ack"} => event_id(t) \in handled
  /\ \A m \in Messages : status[m] = "acked" => m \in DOMAIN topic /\ topic[m] \in handled

\* The events that totals[k] has counted at least once.
due(k) == {e \in seen \cup counting(k) : KindOf[e] = k}

\* Threads that will count an event already marked by another thread.
late(k) == {t \in Threads : pc[t] = "count" /\ event_id(t) \in seen /\ KindOf[event_id(t)] = k}

\* Threads that have counted an event nobody has marked yet.
early(k) == {t \in Threads : pc[t] = "mark" /\ event_id(t) \notin seen /\ KindOf[event_id(t)] = k}

\* Once an event is marked no thread starts to count it any more, so its
\* counts are those of the threads that were past the check by then.
Counts ==
  /\ IsFiniteSet(seen)
  /\ \A k \in Kinds :
       /\ Cardinality(due(k)) <= totals[k]
       /\ totals[k] + Cardinality(late(k))
            <= Cardinality(Threads) * Cardinality(counted(k)) + Cardinality(early(k))

IInv == TypeOK /\ Delivered /\ Counts

-----------------------------------------------------------------------------
\* Types

LEMMA TypeInit == Init => TypeOK
<1> SUFFICES ASSUME Init PROVE TypeOK
  OBVIOUS
<1>1. topic \in Seq(Events) /\ Len(topic) = 0
  BY DEF Init
<1> QED
  BY <1>1, BoundsAssumption DEF Init, TypeOK

\* The messages of the topic are among the bounded ones.
LEMMA TopicType ==
  ASSUME TypeOK
  PROVE  /\ DOMAIN topic = 1 .. Len(topic) /\ Len(topic) \in Nat
         /\ DOMAIN topic \subseteq Messages
         /\ \A m \in DOMAIN topic : topic[m] \in Events
         /\ \A t \in Threads : pc[t] # "idle" => message[t] \in DOMAIN topic /\ event_id(t) \in Events
<1>1. topic \in Seq(Events) /\ Len(topic) <= MaxMessages
  BY DEF TypeOK
<1>2. DOMAIN topic = 1 .. Len(topic) /\ Len(topic) \in Nat
  BY <1>1
<1>3. \A m \in DOMAIN topic : topic[m] \in Events
  BY <1>1
<1>4. DOMAIN topic \subseteq Messages
  BY <1>1, <1>2, BoundsAssumption DEF Messages
<1>5. \A t \in Threads : pc[t] # "idle" => message[t] \in DOMAIN topic
  BY DEF TypeOK
<1> QED
  BY <1>2, <1>3, <1>4, <1>5 DEF event_id

LEMMA TypeFinish ==
  ASSUME TypeOK, NEW t \in Threads, pc[t] # "idle",
         NEW outcome \in {"waiting", "leased", "acked"}, Finish(t, outcome)
  PROVE  /\ status' \in [Messages -> {"waiting", "leased", "acked"}]
         /\ pc' \in [Threads -> {"idle", "check", "count", "mark", "ack"}]
         /\ message' \in [Threads -> 0 .. MaxMessages]
         /\ \A u \in Threads : pc'[u] = "idle" \/ message'[u] \in DOMAIN topic
<1>1. status' \in [Messages -> {"waiting", "leased", "acked"}]
  BY DEF TypeOK, Finish
<1>2. pc' \in [Threads -> {"idle", "check", "count", "mark", "ack"}]
  BY DEF TypeOK, Finish
<1>3. message' \in [Threads -> 0 .. MaxMessages]
  BY BoundsAssumption DEF TypeOK, Finish
<1>4. \A u \in Threads : pc'[u] = "idle" \/ message'[u] \in DOMAIN topic
  BY DEF TypeOK, Finish
<1> QED
  BY <1>1, <1>2, <1>3, <1>4

LEMMA TypeNext == TypeOK /\ [Next]_vars => TypeOK'
<1> SUFFICES ASSUME TypeOK, [Next]_vars PROVE TypeOK'
  OBVIOUS
<1> USE BoundsAssumption
<1>1. ASSUME NEW e \in Events, Arrive(e) PROVE TypeOK'
  <2>1. topic' \in Seq(Events) /\ Len(topic') = Len(topic) + 1 /\ Len(topic) \in Nat
    BY <1>1 DEF Arrive, TypeOK
  <2>2. Len(topic') <= MaxMessages
    BY <1>1, <2>1 DEF Arrive
  <2>3. DOMAIN topic \subseteq DOMAIN topic'
    BY <2>1, TopicType
  <2> QED
    BY <1>1, <2>1, <2>2, <2>3 DEF Arrive, TypeOK
<1>2. ASSUME NEW t \in Threads, NEW m \in Messages, Deliver(t, m) PROVE TypeOK'
  <2>1. status' \in [Messages -> {"waiting", "leased", "acked"}]
    BY <1>2 DEF Deliver, TypeOK
  <2>2. pc' \in [Threads -> {"idle", "check", "count", "mark", "ack"}]
    BY <1>2 DEF Deliver, TypeOK
  <2>3. message' \in [Threads -> 0 .. MaxMessages]
    BY <1>2 DEF Deliver, TypeOK, Messages
  <2>4. \A u \in Threads : pc'[u] = "idle" \/ message'[u] \in DOMAIN topic'
    BY <1>2 DEF Deliver, TypeOK
  <2> QED
    BY <1>2, <2>1, <2>2, <2>3, <2>4 DEF Deliver, TypeOK
<1>3. ASSUME NEW t \in Threads, Check(t) PROVE TypeOK'
  <2>1. CASE is_duplicate(event_id(t)) \/ event_id(t) \notin Malformed
    <3>1. pc' \in [Threads -> {"idle", "check", "count", "mark", "ack"}] /\ UNCHANGED <<status, message>>
      BY <1>3, <2>1 DEF Check, settle_duplicate, TypeOK
    <3>2. \A u \in Threads : pc'[u] = "idle" \/ message'[u] \in DOMAIN topic
      BY <1>3, <2>1 DEF Check, settle_duplicate, TypeOK
    <3> QED
      BY <1>3, <3>1, <3>2 DEF Check, TypeOK
  <2>2. CASE ~ is_duplicate(event_id(t)) /\ event_id(t) \in Malformed
    <3>1. Finish(t, "waiting") /\ pc[t] # "idle"
      BY <1>3, <2>2 DEF Check
    <3> QED
      BY <1>3, <3>1, TypeFinish DEF Check, TypeOK
  <2> QED
    BY <2>1, <2>2
<1>4. ASSUME NEW t \in Threads, Count(t) PROVE TypeOK'
  <2>1. pc' \in [Threads -> {"idle", "check", "count", "mark", "ack"}]
    BY <1>4 DEF Count, TypeOK
  <2>2. totals' \in [Kinds -> Nat]
    BY <1>4 DEF Count, add, TypeOK
  <2>3. handled' \subseteq Events
    BY <1>4, TopicType DEF Count, TypeOK
  <2>4. \A u \in Threads : pc'[u] = "idle" \/ message'[u] \in DOMAIN topic'
    BY <1>4 DEF Count, TypeOK
  <2> QED
    BY <1>4, <2>1, <2>2, <2>3, <2>4 DEF Count, TypeOK
<1>5. ASSUME NEW t \in Threads, Mark(t) PROVE TypeOK'
  <2>1. pc' \in [Threads -> {"idle", "check", "count", "mark", "ack"}]
    BY <1>5 DEF Mark, TypeOK
  <2>2. seen' \subseteq Events
    BY <1>5, TopicType DEF Mark, TypeOK
  <2>3. \A u \in Threads : pc'[u] = "idle" \/ message'[u] \in DOMAIN topic'
    BY <1>5 DEF Mark, TypeOK
  <2> QED
    BY <1>5, <2>1, <2>2, <2>3 DEF Mark, TypeOK
<1>6. ASSUME NEW t \in Threads, Ack(t) PROVE TypeOK'
  <2>1. PICK outcome \in {"waiting", "leased", "acked"} : Finish(t, outcome) /\ pc[t] # "idle"
    BY <1>6 DEF Ack
  <2>2. lapses' \in 0 .. MaxLapses
    BY <1>6 DEF Ack, TypeOK
  <2> QED
    BY <1>6, <2>1, <2>2, TypeFinish DEF Ack, TypeOK
<1>7. ASSUME NEW m \in Messages, Lapse(m) PROVE TypeOK'
  <2>1. status' \in [Messages -> {"waiting", "leased", "acked"}]
    BY <1>7 DEF Lapse, TypeOK
  <2>2. lapses' \in 0 .. MaxLapses
    BY <1>7 DEF Lapse, TypeOK
  <2> QED
    BY <1>7, <2>1, <2>2 DEF Lapse, TypeOK
<1>8. CASE Restart
  <2>1. restarts' \in 0 .. MaxRestarts
    BY <1>8 DEF Restart, TypeOK
  <2>2. status' \in [Messages -> {"waiting", "leased", "acked"}]
    BY <1>8 DEF Restart, TypeOK
  <2> QED
    BY <1>8, <2>1, <2>2 DEF Restart, fresh_totals, TypeOK
<1>9. CASE UNCHANGED vars
  BY <1>9 DEF vars, TypeOK
<1> QED
  BY <1>1, <1>2, <1>3, <1>4, <1>5, <1>6, <1>7, <1>8, <1>9 DEF Next, Handle, Listen

-----------------------------------------------------------------------------
\* Delivery

LEMMA DeliveredInit == Init => Delivered
  BY DEF Init, Delivered

\* The part about the threads, when the topic and the messages in their hands
\* stay as they are.
LEMMA DeliveredKept ==
  ASSUME TypeOK, Delivered, UNCHANGED <<topic, seen, handled>>,
         \A t \in Threads : pc'[t] \in {"mark", "ack"} => message'[t] = message[t] /\ event_id(t) \in handled,
         \A m \in Messages : status'[m] = "acked" => status[m] = "acked" \/ (m \in DOMAIN topic /\ topic[m] \in handled)
  PROVE  Delivered'
  BY DEF Delivered, event_id

LEMMA DeliveredNext ==
  ASSUME TypeOK, Delivered, [Next]_vars
  PROVE  Delivered'
<1>1. ASSUME NEW e \in Events, Arrive(e) PROVE Delivered'
  <2>0. topic \in Seq(Events) /\ topic' = Append(topic, e)
    BY <1>1 DEF Arrive, TypeOK
  <2>1. /\ DOMAIN topic \subseteq DOMAIN topic'
        /\ \A m \in DOMAIN topic : topic'[m] = topic[m]
    BY <2>0
  <2>2. \A t \in Threads : pc[t] # "idle" => event_id(t)' = event_id(t)
    BY <1>1, <2>1, TopicType DEF Arrive, event_id
  <2>3. \A m \in Messages : status'[m] = "acked" => m \in DOMAIN topic' /\ topic'[m] \in handled'
    BY <1>1, <2>1 DEF Arrive, Delivered
  <2>4. \A t \in Threads : pc'[t] \in {"mark", "ack"} => event_id(t)' \in handled'
    BY <1>1, <2>2 DEF Arrive, Delivered
  <2>5. \A h \in handled' : \E m \in DOMAIN topic' : topic'[m] = h
    BY <1>1, <2>1 DEF Arrive, Delivered
  <2> QED
    BY <1>1, <2>3, <2>4, <2>5 DEF Arrive, Delivered
<1>2. ASSUME NEW t \in Threads, NEW m \in Messages, Deliver(t, m) PROVE Delivered'
  <2>1. /\ UNCHANGED <<topic, seen, handled>> /\ pc'[t] = "check"
        /\ \A u \in Threads \ {t} : pc'[u] = pc[u] /\ message'[u] = message[u]
        /\ \A l \in Messages : status'[l] = "acked" => status[l] = "acked"
    BY <1>2 DEF Deliver, TypeOK
  <2>2. \A u \in Threads : pc'[u] \in {"mark", "ack"} => message'[u] = message[u] /\ event_id(u) \in handled
    BY <2>1 DEF Delivered
  <2>3. \A l \in Messages : status'[l] = "acked" => status[l] = "acked" \/ (l \in DOMAIN topic /\ topic[l] \in handled)
    BY <2>1
  <2>4. UNCHANGED <<topic, seen, handled>>
    BY <2>1
  <2> QED
    BY <2>2, <2>3, <2>4, DeliveredKept
<1>3. ASSUME NEW t \in Threads, Check(t) PROVE Delivered'
  <2>1. /\ UNCHANGED <<topic, seen, handled>>
        /\ \A u \in Threads \ {t} : pc'[u] = pc[u] /\ message'[u] = message[u]
        /\ pc'[t] \in {"mark", "ack"} => message'[t] = message[t] /\ event_id(t) \in seen
        /\ \A l \in Messages : status'[l] = "acked" => status[l] = "acked"
    BY <1>3 DEF Check, Finish, settle_duplicate, is_duplicate, TypeOK
  <2>2. \A u \in Threads : pc'[u] \in {"mark", "ack"} => message'[u] = message[u] /\ event_id(u) \in handled
    BY <2>1 DEF Delivered
  <2>3. \A l \in Messages : status'[l] = "acked" => status[l] = "acked" \/ (l \in DOMAIN topic /\ topic[l] \in handled)
    BY <2>1
  <2>4. UNCHANGED <<topic, seen, handled>>
    BY <2>1
  <2> QED
    BY <2>2, <2>3, <2>4, DeliveredKept
<1>4. ASSUME NEW t \in Threads, Count(t) PROVE Delivered'
  <2>1. /\ UNCHANGED <<topic, status, message, seen>>
        /\ handled' = handled \cup {event_id(t)}
        /\ \A u \in Threads \ {t} : pc'[u] = pc[u]
    BY <1>4 DEF Count, TypeOK
  <2>2. \A u \in Threads : event_id(u)' = event_id(u)
    BY <2>1 DEF event_id
  <2>3. \A u \in Threads : pc'[u] \in {"mark", "ack"} => event_id(u)' \in handled'
    BY <2>1, <2>2 DEF Delivered
  <2>4. message[t] \in DOMAIN topic /\ topic[message[t]] = event_id(t)
    BY <1>4, TopicType DEF Count, event_id
  <2> QED
    BY <2>1, <2>3, <2>4 DEF Delivered
<1>5. ASSUME NEW t \in Threads, Mark(t) PROVE Delivered'
  <2>1. /\ UNCHANGED <<topic, status, message, handled>> /\ pc[t] = "mark"
        /\ seen' = seen \cup {event_id(t)}
        /\ \A u \in Threads \ {t} : pc'[u] = pc[u]
    BY <1>5 DEF Mark, TypeOK
  <2>2. \A u \in Threads : event_id(u)' = event_id(u)
    BY <2>1 DEF event_id
  <2>3. \A u \in Threads : pc'[u] \in {"mark", "ack"} => event_id(u)' \in handled'
    BY <2>1, <2>2 DEF Delivered
  <2> QED
    BY <2>1, <2>3 DEF Delivered
<1>6. ASSUME NEW t \in Threads, Ack(t) PROVE Delivered'
  <2>0. PICK outcome : Finish(t, outcome) /\ pc[t] = "ack" /\ UNCHANGED <<topic, seen, handled>>
    BY <1>6 DEF Ack
  <2>1. /\ \A u \in Threads \ {t} : pc'[u] = pc[u] /\ message'[u] = message[u]
        /\ pc'[t] = "idle"
        /\ \A l \in Messages \ {message[t]} : status'[l] = status[l]
    BY <2>0 DEF Finish, TypeOK
  <2>2. \A u \in Threads : pc'[u] \in {"mark", "ack"} => message'[u] = message[u] /\ event_id(u) \in handled
    BY <2>1 DEF Delivered
  <2>3. message[t] \in DOMAIN topic /\ topic[message[t]] \in handled
    BY <2>0, TopicType DEF Delivered, event_id
  <2>4. ASSUME NEW m \in Messages, status'[m] = "acked"
        PROVE  status[m] = "acked" \/ (m \in DOMAIN topic /\ topic[m] \in handled)
    <3>1. CASE m = message[t]
      BY <2>3, <3>1
    <3>2. CASE m # message[t]
      BY <2>1, <2>4, <3>2
    <3> QED
      BY <3>1, <3>2
  <2> QED
    BY <2>0, <2>2, <2>4, DeliveredKept
<1>7. ASSUME NEW m \in Messages, Lapse(m) PROVE Delivered'
  <2>1. /\ UNCHANGED <<topic, pc, message, seen, handled>>
        /\ \A l \in Messages : status'[l] = "acked" => status[l] = "acked"
    BY <1>7 DEF Lapse, TypeOK
  <2>2. \A u \in Threads : pc'[u] \in {"mark", "ack"} => message'[u] = message[u] /\ event_id(u) \in handled
    BY <2>1 DEF Delivered
  <2>3. \A l \in Messages : status'[l] = "acked" => status[l] = "acked" \/ (l \in DOMAIN topic /\ topic[l] \in handled)
    BY <2>1
  <2>4. UNCHANGED <<topic, seen, handled>>
    BY <2>1
  <2> QED
    BY <2>2, <2>3, <2>4, DeliveredKept
<1>8. CASE Restart
  BY <1>8 DEF Restart, Delivered
<1>9. CASE UNCHANGED vars
  BY <1>9 DEF vars, Delivered, event_id
<1> QED
  BY <1>1, <1>2, <1>3, <1>4, <1>5, <1>6, <1>7, <1>8, <1>9 DEF Next, Handle, Listen

-----------------------------------------------------------------------------
\* Counts

LEMMA Products ==
  ASSUME NEW a \in Nat, NEW b \in Nat, NEW c \in Nat
  PROVE  a * b \in Nat /\ a * (b + 1) = a * b + a /\ (b <= c => a * b <= a * c)
<1>1. a * b \in Nat /\ a * c \in Nat /\ a * (b + 1) = a * b + a
  OBVIOUS
<1>2. b <= c => a * b <= a * c
  OBVIOUS
<1> QED
  BY <1>1, <1>2

\* All the sets counted are finite.
LEMMA Finite ==
  ASSUME TypeOK, IsFiniteSet(seen), NEW k \in Kinds
  PROVE  /\ IsFiniteSet(counted(k)) /\ IsFiniteSet(due(k))
         /\ IsFiniteSet(late(k)) /\ IsFiniteSet(early(k))
         /\ Cardinality(counted(k)) \in Nat /\ Cardinality(due(k)) \in Nat
         /\ Cardinality(late(k)) \in Nat /\ Cardinality(early(k)) \in Nat
         /\ Cardinality(Threads) \in Nat /\ totals[k] \in Nat
<1>1. IsFiniteSet(late(k)) /\ IsFiniteSet(early(k))
  BY FS_Subset, ThreadsAssumption DEF late, early
<1>2. IsFiniteSet(counting(k))
  <2> DEFINE markers == {u \in Threads : pc[u] = "mark"}
             f == [u \in markers |-> event_id(u)]
  <2>1. IsFiniteSet(markers)
    BY FS_Subset, ThreadsAssumption
  <2>2. f \in Surjection(markers, counting(k))
    BY DEF Surjection, counting
  <2> QED
    BY <2>1, <2>2, FS_Surjection
<1>3. IsFiniteSet(seen \cup counting(k))
  BY <1>2, FS_Union
<1>4. counted(k) \in SUBSET seen /\ due(k) \in SUBSET (seen \cup counting(k))
  BY DEF counted, due
<1>5. IsFiniteSet(counted(k)) /\ IsFiniteSet(due(k))
  BY <1>3, <1>4, FS_Subset
<1>6. totals[k] \in Nat
  BY DEF TypeOK
<1> QED
  BY <1>1, <1>5, <1>6, FS_CardinalityType, ThreadsAssumption

LEMMA CountsInit == Init => Counts
<1> SUFFICES ASSUME Init, NEW k \in Kinds
             PROVE  /\ Cardinality(due(k)) <= totals[k]
                    /\ totals[k] + Cardinality(late(k))
                         <= Cardinality(Threads) * Cardinality(counted(k)) + Cardinality(early(k))
  BY FS_EmptySet DEF Init, Counts
<1>1. due(k) = {} /\ late(k) = {} /\ early(k) = {} /\ counted(k) = {} /\ totals[k] = 0
  BY DEF Init, due, late, early, counted, counting
<1>2. Cardinality(Threads) \in Nat
  BY ThreadsAssumption, FS_CardinalityType
<1> QED
  BY <1>1, <1>2, FS_EmptySet

\* No thread starts or ends to count, and none of those that count changes its message.
LEMMA CountsKept ==
  ASSUME Counts, UNCHANGED <<seen, totals>>,
         \A u \in Threads : pc'[u] = "mark" <=> pc[u] = "mark",
         \A u \in Threads : pc'[u] = "count" => event_id(u)' \notin seen \/ pc[u] = "count",
         \A u \in Threads : pc[u] = "count" => pc'[u] = "count",
         \A u \in Threads : pc[u] \in {"count", "mark"} => event_id(u)' = event_id(u)
  PROVE  Counts'
<1>1. UNCHANGED seen /\ UNCHANGED totals
  OBVIOUS
<1>2. ASSUME NEW k \in Kinds PROVE UNCHANGED <<due(k), late(k), early(k), counted(k)>>
  <2>1. counting(k)' = counting(k)
    BY DEF counting
  <2>2. due(k)' = due(k)
    BY <1>1, <2>1 DEF due
  <2>3. late(k)' = late(k)
    BY <1>1 DEF late
  <2>4. early(k)' = early(k)
    BY <1>1 DEF early
  <2>5. counted(k)' = counted(k)
    BY <1>1 DEF counted
  <2> QED
    BY <2>2, <2>3, <2>4, <2>5
<1> QED
  BY <1>1, <1>2 DEF Counts

\* A thread counts: the event is due, and the thread no longer late, or early.
LEMMA CountCounts ==
  ASSUME TypeOK, Counts, NEW t \in Threads, Count(t)
  PROVE  Counts'
<1> DEFINE e == event_id(t)
<1>1. /\ UNCHANGED <<topic, message, seen>> /\ pc[t] = "count" /\ pc'[t] = "mark"
      /\ \A u \in Threads \ {t} : pc'[u] = pc[u]
      /\ \A k \in Kinds : totals'[k] = IF KindOf[e] = k THEN totals[k] + 1 ELSE totals[k]
  BY DEF Count, add, TypeOK
<1>2. \A u \in Threads : event_id(u)' = event_id(u)
  BY <1>1 DEF event_id
<1> SUFFICES ASSUME NEW k \in Kinds
             PROVE  /\ Cardinality(due(k)') <= totals'[k]
                    /\ totals'[k] + Cardinality(late(k)')
                         <= Cardinality(Threads) * Cardinality(counted(k)') + Cardinality(early(k)')
  BY <1>1 DEF Counts
<1> HIDE DEF e
<1>3. /\ IsFiniteSet(due(k)) /\ IsFiniteSet(late(k)) /\ IsFiniteSet(early(k))
      /\ Cardinality(counted(k)) \in Nat /\ Cardinality(due(k)) \in Nat
      /\ Cardinality(late(k)) \in Nat /\ Cardinality(early(k)) \in Nat
      /\ Cardinality(Threads) \in Nat /\ totals[k] \in Nat
      /\ Cardinality(Threads) * Cardinality(counted(k)) \in Nat
  BY Finite, Products DEF Counts
<1>4. /\ Cardinality(due(k)) <= totals[k]
      /\ totals[k] + Cardinality(late(k))
           <= Cardinality(Threads) * Cardinality(counted(k)) + Cardinality(early(k))
  BY DEF Counts
<1>5. counted(k)' = counted(k)
  BY <1>1 DEF counted
<1>6. counting(k)' = counting(k) \cup {e}
  BY <1>1, <1>2 DEF counting, e
<1>7. CASE KindOf[e] # k
  <2>1. due(k)' = due(k)
    BY <1>1, <1>6, <1>7 DEF due
  <2>2. late(k)' = late(k) /\ early(k)' = early(k)
    BY <1>1, <1>2, <1>7 DEF late, early, e
  <2> QED
    BY <1>1, <1>4, <1>5, <1>7, <2>1, <2>2
<1>8. CASE KindOf[e] = k
  <2>0. totals'[k] = totals[k] + 1
    BY <1>1, <1>8
  <2>1. due(k)' = due(k) \cup {e}
    BY <1>1, <1>6, <1>8 DEF due
  <2>2. Cardinality(due(k)') <= Cardinality(due(k)) + 1
    <3>1. Cardinality(due(k) \cup {e}) <= Cardinality(due(k)) + 1
      <4>1. Cardinality(due(k) \cup {e}) = IF e \in due(k) THEN Cardinality(due(k)) ELSE Cardinality(due(k)) + 1
        BY <1>3, FS_AddElement
      <4>2. Cardinality(due(k)) \in Nat
        BY <1>3
      <4> QED
        BY <4>1, <4>2
    <3> QED
      BY <2>1, <3>1
  <2>9. Cardinality(due(k)') <= totals'[k]
    <3>1. Cardinality(due(k)') \in Nat
      BY <1>3, <2>1, FS_AddElement, FS_CardinalityType
    <3> QED
      BY <1>3, <1>4, <2>0, <2>2, <3>1
  <2>10. Cardinality(Threads) * Cardinality(counted(k)') = Cardinality(Threads) * Cardinality(counted(k))
    BY <1>5
  <2>3. CASE e \in seen
    <3>1. late(k)' = late(k) \ {t} /\ t \in late(k) /\ early(k)' = early(k)
      BY <1>1, <1>2, <1>8, <2>3 DEF late, early, e
    <3>2. Cardinality(late(k)') = Cardinality(late(k)) - 1
      BY <1>3, <3>1, FS_RemoveElement
    <3> QED
      BY <1>3, <1>4, <2>0, <2>9, <2>10, <3>1, <3>2
  <2>4. CASE e \notin seen
    <3>1. late(k)' = late(k) /\ t \notin early(k) /\ early(k)' = early(k) \cup {t}
      BY <1>1, <1>2, <1>8, <2>4 DEF late, early, e
    <3>2. Cardinality(early(k)') = Cardinality(early(k)) + 1
      BY <1>3, <3>1, FS_AddElement
    <3> QED
      BY <1>3, <1>4, <2>0, <2>9, <2>10, <3>1, <3>2
  <2> QED
    BY <2>3, <2>4
<1> QED
  BY <1>7, <1>8

\* The first mark of an event makes those that have counted it no longer early,
\* and those that are about to count it late.
LEMMA MarkCounts ==
  ASSUME TypeOK, Counts, NEW t \in Threads, Mark(t)
  PROVE  Counts'
<1> DEFINE e == event_id(t)
<1>1. /\ UNCHANGED <<topic, message, totals>> /\ pc[t] = "mark" /\ pc'[t] = "ack"
      /\ seen' = seen \cup {e}
      /\ \A u \in Threads \ {t} : pc'[u] = pc[u]
  BY DEF Mark, TypeOK
<1>2. \A u \in Threads : event_id(u)' = event_id(u)
  BY <1>1 DEF event_id
<1>f. IsFiniteSet(seen) /\ IsFiniteSet(seen')
  BY <1>1, FS_AddElement DEF Counts
<1> SUFFICES ASSUME NEW k \in Kinds
             PROVE  /\ Cardinality(due(k)') <= totals[k]
                    /\ totals[k] + Cardinality(late(k)')
                         <= Cardinality(Threads) * Cardinality(counted(k)') + Cardinality(early(k)')
  BY <1>1, <1>f DEF Counts
<1> HIDE DEF e
<1>3. /\ IsFiniteSet(counted(k)) /\ IsFiniteSet(late(k)) /\ IsFiniteSet(early(k))
      /\ Cardinality(counted(k)) \in Nat /\ Cardinality(due(k)) \in Nat
      /\ Cardinality(late(k)) \in Nat /\ Cardinality(early(k)) \in Nat
      /\ Cardinality(Threads) \in Nat /\ totals[k] \in Nat
      /\ Cardinality(Threads) * Cardinality(counted(k)) \in Nat
      /\ Cardinality(Threads) * (Cardinality(counted(k)) + 1)
           = Cardinality(Threads) * Cardinality(counted(k)) + Cardinality(Threads)
  BY <1>f, Finite, Products
<1>4. /\ Cardinality(due(k)) <= totals[k]
      /\ totals[k] + Cardinality(late(k))
           <= Cardinality(Threads) * Cardinality(counted(k)) + Cardinality(early(k))
  BY DEF Counts
<1>5. due(k)' = due(k)
  <2>1. seen' \cup counting(k)' = seen \cup counting(k)
    BY <1>1, <1>2 DEF counting, e
  <2> QED
    BY <2>1 DEF due
<1>6. CASE KindOf[e] # k \/ e \in seen
  <2>1. counted(k)' = counted(k)
    BY <1>1, <1>6 DEF counted
  <2>2. late(k)' = late(k)
    BY <1>1, <1>2, <1>6 DEF late
  <2>3. early(k)' = early(k)
    BY <1>1, <1>2, <1>6 DEF early, e
  <2> QED
    BY <1>4, <1>5, <2>1, <2>2, <2>3
<1>7. CASE KindOf[e] = k /\ e \notin seen
  <2> DEFINE M == {u \in Threads : pc[u] = "mark" /\ event_id(u) = e}
             C == {u \in Threads : pc[u] = "count" /\ event_id(u) = e}
  <2>1. /\ counted(k)' = counted(k) \cup {e} /\ e \notin counted(k)
    BY <1>1, <1>7 DEF counted
  <2>2. early(k)' = early(k) \ M /\ early(k) \cap M = M
    BY <1>1, <1>2, <1>7 DEF early, e
  <2>3. late(k)' = late(k) \cup C /\ late(k) \cap C = {}
    BY <1>1, <1>2, <1>7 DEF late
  <2>4. M \cup C \in SUBSET Threads /\ M \cap C = {}
    OBVIOUS
  <2> HIDE DEF M, C
  <2>5. IsFiniteSet(M) /\ IsFiniteSet(C)
    BY <2>4, FS_Subset, ThreadsAssumption
  <2>6. /\ Cardinality(M) \in Nat /\ Cardinality(C) \in Nat
        /\ Cardinality(M) + Cardinality(C) <= Cardinality(Threads)
    <3>1. Cardinality(M) \in Nat /\ Cardinality(C) \in Nat
      BY <2>5, FS_CardinalityType
    <3>2. Cardinality(M \cup C) = Cardinality(M) + Cardinality(C) - Cardinality(M \cap C)
      BY <2>5, FS_Union
    <3>3. Cardinality(M \cup C) <= Cardinality(Threads)
      BY <2>4, FS_Subset, ThreadsAssumption
    <3> QED
      BY <2>4, <3>1, <3>2, <3>3, FS_EmptySet
  <2>7. Cardinality(counted(k)') = Cardinality(counted(k)) + 1
    BY <1>3, <2>1, FS_AddElement
  <2>8. Cardinality(early(k)') = Cardinality(early(k)) - Cardinality(M)
    BY <1>3, <2>2, FS_Difference
  <2>9. Cardinality(late(k)') = Cardinality(late(k)) + Cardinality(C)
    <3>1. Cardinality(late(k) \cup C) = Cardinality(late(k)) + Cardinality(C) - Cardinality(late(k) \cap C)
      BY <1>3, <2>5, FS_Union
    <3>2. Cardinality(late(k) \cap C) = 0
      BY <2>3, FS_EmptySet
    <3>3. Cardinality(late(k) \cup C) = Cardinality(late(k)) + Cardinality(C)
      BY <1>3, <2>6, <3>1, <3>2
    <3> QED
      BY <2>3, <3>3
  <2> QED
    BY <1>3, <1>4, <1>5, <2>6, <2>7, <2>8, <2>9
<1> QED
  BY <1>6, <1>7

LEMMA CountsNext ==
  ASSUME TypeOK, Counts, [Next]_vars
  PROVE  Counts'
<1>1. ASSUME NEW ev \in Events, Arrive(ev) PROVE Counts'
  <2>1. topic \in Seq(Events) /\ topic' = Append(topic, ev)
    BY <1>1 DEF Arrive, TypeOK
  <2>2. \A m \in DOMAIN topic : topic'[m] = topic[m]
    BY <2>1
  <2>3. \A u \in Threads : pc[u] # "idle" => event_id(u)' = event_id(u)
    BY <1>1, <2>2, TopicType DEF Arrive, event_id
  <2> QED
    BY <1>1, <2>3, CountsKept DEF Arrive
<1>2. ASSUME NEW t \in Threads, NEW m \in Messages, Deliver(t, m) PROVE Counts'
  <2>1. /\ UNCHANGED <<topic, seen, totals>> /\ pc[t] = "idle" /\ pc'[t] = "check"
        /\ \A u \in Threads \ {t} : pc'[u] = pc[u] /\ message'[u] = message[u]
    BY <1>2 DEF Deliver, TypeOK
  <2> QED
    BY <2>1, CountsKept DEF event_id
<1>3. ASSUME NEW t \in Threads, Check(t) PROVE Counts'
  <2>1. /\ UNCHANGED <<topic, seen, totals>> /\ pc[t] = "check"
        /\ \A u \in Threads \ {t} : pc'[u] = pc[u] /\ message'[u] = message[u]
        /\ pc'[t] # "mark"
        /\ pc'[t] = "count" => event_id(t)' \notin seen
    BY <1>3 DEF Check, Finish, settle_duplicate, is_duplicate, event_id, TypeOK
  <2> QED
    BY <2>1, CountsKept DEF event_id
<1>6. ASSUME NEW t \in Threads, Ack(t) PROVE Counts'
  <2>1. /\ UNCHANGED <<topic, seen, totals>> /\ pc[t] = "ack" /\ pc'[t] = "idle"
        /\ \A u \in Threads \ {t} : pc'[u] = pc[u] /\ message'[u] = message[u]
    BY <1>6 DEF Ack, Finish, TypeOK
  <2> QED
    BY <2>1, CountsKept DEF event_id
<1>7. ASSUME NEW m \in Messages, Lapse(m) PROVE Counts'
  BY <1>7, CountsKept DEF Lapse, event_id
<1>8. CASE Restart
  <2> SUFFICES ASSUME NEW k \in Kinds
               PROVE  /\ Cardinality(due(k)') <= totals'[k]
                      /\ totals'[k] + Cardinality(late(k)')
                           <= Cardinality(Threads) * Cardinality(counted(k)') + Cardinality(early(k)')
    BY <1>8, FS_EmptySet DEF Restart, Counts
  <2>1. /\ due(k)' = {} /\ late(k)' = {} /\ early(k)' = {} /\ counted(k)' = {}
        /\ totals'[k] = 0
    BY <1>8 DEF Restart, fresh_totals, due, late, early, counted, counting
  <2>2. Cardinality(Threads) \in Nat
    BY ThreadsAssumption, FS_CardinalityType
  <2> QED
    BY <2>1, <2>2, FS_EmptySet
<1>9. CASE UNCHANGED vars
  BY <1>9, CountsKept DEF vars, event_id
<1> QED
  BY <1>1, <1>2, <1>3, <1>6, <1>7, <1>8, <1>9, CountCounts, MarkCounts DEF Next, Handle, Listen

-----------------------------------------------------------------------------
\* Theorems

THEOREM Invariant == Spec => []IInv
<1>1. Init => IInv
  BY TypeInit, DeliveredInit, CountsInit DEF IInv
<1>2. IInv /\ [Next]_vars => IInv'
  BY TypeNext, DeliveredNext, CountsNext DEF IInv
<1> QED
  BY <1>1, <1>2, PTL DEF Spec

\* The types of the subscription, of the threads and of the process's memory.
THEOREM TypeCorrect == Spec => []TypeOK
<1>1. IInv => TypeOK
  BY DEF IInv
<1> QED
  BY <1>1, Invariant, PTL

\* A message is acknowledged only after its event has been handled, whatever
\* the duplicates, lapsed leases and restarts (consumer.py, handle).
THEOREM NothingLost == Spec => []AckedWasCounted
<1>1. IInv => AckedWasCounted
  BY TopicType DEF IInv, Delivered, AckedWasCounted
<1> QED
  BY <1>1, Invariant, PTL

\* Each event seen is counted once at least and once per thread at most
\* (consumer.py, handle).
THEOREM TotalsBounded == Spec => []TotalsWithinBounds
<1>1. ASSUME IInv PROVE TotalsWithinBounds
  <2> SUFFICES ASSUME NEW k \in Kinds
               PROVE  /\ Cardinality(counted(k)) <= totals[k]
                      /\ totals[k] <= Cardinality(Threads) * Cardinality(due(k))
    BY DEF TotalsWithinBounds, due
  <2>1. IsFiniteSet(seen) /\ TypeOK
    BY <1>1 DEF IInv, Counts
  <2>2. /\ IsFiniteSet(counted(k)) /\ IsFiniteSet(due(k)) /\ IsFiniteSet(early(k))
        /\ Cardinality(counted(k)) \in Nat /\ Cardinality(due(k)) \in Nat
        /\ Cardinality(late(k)) \in Nat /\ Cardinality(early(k)) \in Nat
        /\ Cardinality(Threads) \in Nat /\ totals[k] \in Nat
    BY <2>1, Finite
  <2>3. /\ Cardinality(due(k)) <= totals[k]
        /\ totals[k] + Cardinality(late(k))
             <= Cardinality(Threads) * Cardinality(counted(k)) + Cardinality(early(k))
    BY <1>1 DEF IInv, Counts
  <2>4. counted(k) \in SUBSET due(k) /\ early(k) \in SUBSET Threads
    BY DEF counted, due, early
  <2>5. Cardinality(counted(k)) <= Cardinality(due(k)) /\ Cardinality(early(k)) <= Cardinality(Threads)
    BY <2>2, <2>4, FS_Subset, ThreadsAssumption
  <2>6. /\ Cardinality(Threads) * Cardinality(counted(k)) \in Nat
        /\ Cardinality(Threads) * Cardinality(due(k)) \in Nat
        /\ Cardinality(Threads) * (Cardinality(counted(k)) + 1)
             = Cardinality(Threads) * Cardinality(counted(k)) + Cardinality(Threads)
    BY <2>2, Products
  <2>7. CASE early(k) = {}
    <3>1. Cardinality(early(k)) = 0
      BY <2>7, FS_EmptySet
    <3>2. Cardinality(Threads) * Cardinality(counted(k)) <= Cardinality(Threads) * Cardinality(due(k))
      BY <2>2, <2>5, Products
    <3> QED
      BY <2>2, <2>3, <2>5, <2>6, <3>1, <3>2
  <2>8. CASE early(k) # {}
    <3>1. PICK t \in early(k) : TRUE
      BY <2>8
    <3>2. event_id(t) \in due(k) /\ event_id(t) \notin counted(k)
      BY <3>1 DEF early, due, counted, counting
    <3>3. Cardinality(counted(k)) + 1 <= Cardinality(due(k))
      <4>1. Cardinality(counted(k)) # Cardinality(due(k))
        BY <2>2, <2>4, <3>2, FS_Subset
      <4> QED
        BY <2>2, <2>5, <4>1
    <3>4. Cardinality(Threads) * (Cardinality(counted(k)) + 1) <= Cardinality(Threads) * Cardinality(due(k))
      BY <2>2, <3>3, Products
    <3> QED
      BY <2>2, <2>3, <2>5, <2>6, <3>4
  <2> QED
    BY <2>7, <2>8
<1>2. IInv => TotalsWithinBounds
  BY <1>1
<1> QED
  BY <1>2, Invariant, PTL
=============================================================================
