---------------------------- MODULE DeliveryProofs ----------------------------
(***************************************************************************)
(* Theorems about the composition: seen from its own variables each part   *)
(* of Delivery behaves as it does alone, so that what RelayProofs and      *)
(* ConsumerProofs prove of them holds here, and together it gives what the *)
(* consumer makes of the ledger's commits.                                 *)
(***************************************************************************)
EXTENDS Delivery, TLAPS

RP == INSTANCE RelayProofs WITH pc <- relay_pc

CP == INSTANCE ConsumerProofs WITH Events <- Transactions, Malformed <- {},
                                   pc <- consumer_pc

-----------------------------------------------------------------------------
\* The parts as their proofs name them

LEMMA SameRelay ==
  /\ R!Init => RP!Init
  /\ R!Next => RP!Next
  /\ R!vars = RP!vars
<1>1. R!committed = RP!committed
  BY DEF R!committed, RP!committed, R!Range, RP!Range
<1>2. R!pending = RP!pending
  BY <1>1 DEF R!pending, RP!pending
<1>3. \A limit : R!pages(limit) = RP!pages(limit)
  <2>1. \A s : R!Range(s) = RP!Range(s)
    BY DEF R!Range, RP!Range
  <2>2. \A s : R!IsInjective(s) <=> RP!IsInjective(s)
    BY DEF R!IsInjective, RP!IsInjective
  <2>3. \A t, u : R!oldest_first(t, u) <=> RP!oldest_first(t, u)
    BY DEF R!oldest_first, RP!oldest_first
  <2>4. R!Cardinality(R!pending) = RP!Cardinality(RP!pending)
    BY <1>2 DEF R!Cardinality, RP!Cardinality
  <2> QED
    BY <1>2, <2>1, <2>2, <2>3, <2>4 DEF R!pages, RP!pages
<1>4. ASSUME NEW t \in Transactions, R!Begin(t) \/ R!CommitTransaction(t) \/ R!AcceptLate(t)
      PROVE  RP!Begin(t) \/ RP!CommitTransaction(t) \/ RP!AcceptLate(t)
  BY <1>1, <1>4 DEF R!Begin, R!CommitTransaction, R!AcceptLate,
                    RP!Begin, RP!CommitTransaction, RP!AcceptLate
<1>5. ASSUME NEW r \in Relays, R!Select(r)
      PROVE  RP!Select(r)
  BY <1>1, <1>3, <1>5 DEF R!Select, RP!Select
<1>6. ASSUME NEW r \in Relays, R!Publish(r) \/ R!CommitBatch(r) \/ R!Fail(r) \/ R!Crash(r)
      PROVE  RP!Publish(r) \/ RP!CommitBatch(r) \/ RP!Fail(r) \/ RP!Crash(r)
  BY <1>6 DEF R!Publish, R!CommitBatch, R!Fail, R!Crash, R!marks, R!after_failure,
              R!marked_after_failure, RP!Publish, RP!CommitBatch, RP!Fail, RP!Crash,
              RP!marks, RP!after_failure, RP!marked_after_failure
<1> QED
  BY <1>4, <1>5, <1>6 DEF R!Init, RP!Init, R!Next, R!Serve, RP!Next, RP!Serve, R!vars, RP!vars

LEMMA SameConsumer ==
  /\ C!Init => CP!Init
  /\ C!Next => CP!Next
  /\ C!vars = CP!vars
<1>1. C!Messages = CP!Messages
  BY DEF C!Messages, CP!Messages
<1>2. \A t : C!event_id(t) = CP!event_id(t)
  BY DEF C!event_id, CP!event_id
<1>3. \A t, outcome : C!Finish(t, outcome) => CP!Finish(t, outcome)
  BY DEF C!Finish, CP!Finish
<1>4. \A t : C!Handle(t) => CP!Handle(t)
  BY <1>2, <1>3 DEF C!Handle, C!Check, C!Count, C!Mark, C!Ack, C!is_duplicate,
                    C!settle_duplicate, C!add, CP!Handle, CP!Check, CP!Count, CP!Mark,
                    CP!Ack, CP!is_duplicate, CP!settle_duplicate, CP!add
<1>5. C!Restart => CP!Restart
  BY <1>1 DEF C!Restart, CP!Restart, C!fresh_totals, CP!fresh_totals
<1>6. \A e : C!Arrive(e) => CP!Arrive(e)
  BY DEF C!Arrive, CP!Arrive
<1>7. \A m : C!Lapse(m) => CP!Lapse(m)
  BY DEF C!Lapse, CP!Lapse
<1>8. \A t, m : C!Deliver(t, m) => CP!Deliver(t, m)
  BY DEF C!Deliver, CP!Deliver
<1>9. C!vars = CP!vars
  BY DEF C!vars, CP!vars
<1>10. C!Listen => CP!Listen
  BY DEF C!Listen, CP!Listen, C!vars, CP!vars
<1>11. C!Init => CP!Init
  BY <1>1 DEF C!Init, CP!Init
<1>12. C!Next => CP!Next
  BY <1>1, <1>4, <1>5, <1>6, <1>7, <1>8, <1>10 DEF C!Next, CP!Next
<1> QED
  BY <1>9, <1>11, <1>12

\* The assumptions of the parts hold in the whole.
LEMMA PartsAreInstances ==
  /\ RP!LimitsAssumption /\ RP!MaxFaultsAssumption /\ RP!RelaysAssumption
  /\ CP!KindsAssumption /\ CP!ThreadsAssumption /\ CP!BoundsAssumption
<1>1. CP!IsFiniteSet(Threads)
  BY ConsumerAssumption DEF IsFiniteSet, CP!IsFiniteSet
<1>2. RP!IsFiniteSet(Relays)
  BY RelayAssumption DEF IsFiniteSet, RP!IsFiniteSet
<1> QED
  BY <1>1, <1>2, RelayAssumption, ConsumerAssumption
     DEF RP!LimitsAssumption, RP!MaxFaultsAssumption, RP!RelaysAssumption, CP!KindsAssumption,
         CP!ThreadsAssumption, CP!BoundsAssumption

-----------------------------------------------------------------------------
\* The relay in the composition

\* Whatever the consumer does, the relays and the broker work as they do without
\* it (main.py:444-478).
THEOREM DeliveryRelays == Spec => R!Spec
<1>1. Init => R!Init
  BY DEF Init
<1>2. [Next]_vars => [R!Next]_R!vars
  <2>1. Send => R!Next
    BY DEF Send
  <2>2. Receive => UNCHANGED R!vars
    <3>1. ASSUME NEW t \in Threads, C!Handle(t) PROVE UNCHANGED topic
      BY <3>1 DEF C!Handle, C!Check, C!Count, C!Mark, C!Ack
    <3>2. ASSUME NEW t, NEW m, C!Deliver(t, m) PROVE UNCHANGED topic
      BY <3>2 DEF C!Deliver
    <3>3. ASSUME NEW m, C!Lapse(m) PROVE UNCHANGED topic
      BY <3>3 DEF C!Lapse
    <3>4. C!Restart => UNCHANGED topic
      BY DEF C!Restart
    <3>5. Receive => UNCHANGED topic
      BY <3>1, <3>2, <3>3, <3>4 DEF Receive
    <3> QED
      BY <3>5 DEF Receive, relay_vars, R!vars
  <2>3. UNCHANGED vars => UNCHANGED R!vars
    BY DEF vars, relay_vars, R!vars
  <2> QED
    BY <2>1, <2>2, <2>3 DEF Next
<1> QED
  BY <1>1, <1>2, PTL DEF Spec, R!Spec

LEMMA RelayInvariants == Spec => [](RP!TypeOK /\ RP!PastInv)
<1>1. R!Spec => RP!Spec
  <2>1. R!Init => RP!Init
    BY SameRelay
  <2>2. [R!Next]_R!vars => [RP!Next]_RP!vars
    BY SameRelay DEF R!vars, RP!vars
  <2> QED
    BY <2>1, <2>2, PTL DEF R!Spec, RP!Spec
<1>2. RP!Spec => []RP!TypeOK
  BY PartsAreInstances, RP!TypeCorrect
<1>3. RP!Spec => []RP!PastInv
  BY PartsAreInstances, RP!SentBeforeRetired
<1> QED
  BY <1>1, <1>2, <1>3, DeliveryRelays, PTL

-----------------------------------------------------------------------------
\* The consumer in the composition

\* What the relays and the broker do to the topic is what the consumer's own
\* specification lets happen to it (publisher.py:43-50, consumer.py:53-80).
THEOREM DeliveryConsumes == Spec => C!Spec
<1>1. Init => C!Init
  BY DEF Init
<1>2. RP!TypeOK /\ [Next]_vars => [C!Next]_C!vars
  <2> SUFFICES ASSUME RP!TypeOK, [Next]_vars PROVE [C!Next]_C!vars
    OBVIOUS
  <2>1. ASSUME Send PROVE [C!Next]_C!vars
    <3>0. topic \in Seq(Transactions)
      BY DEF RP!TypeOK
    <3>1. (\E e \in Transactions : topic' = Append(topic, e)) \/ UNCHANGED topic
      <4>1. ASSUME NEW t \in Transactions, R!Begin(t) \/ R!CommitTransaction(t) \/ R!AcceptLate(t)
            PROVE  topic' = Append(topic, t) \/ UNCHANGED topic
        BY <4>1 DEF R!Begin, R!CommitTransaction, R!AcceptLate
      <4>2. ASSUME NEW r \in Relays, R!Publish(r)
            PROVE  \E e \in Transactions : topic' = Append(topic, e)
        <5>1. batch[r] \in Seq(Transactions) /\ batch[r] # <<>>
          BY <4>2 DEF RP!TypeOK, R!Publish
        <5>2. Head(batch[r]) \in Transactions
          BY <5>1
        <5> QED
          BY <4>2, <5>2 DEF R!Publish
      <4>3. ASSUME NEW r \in Relays, R!Select(r) \/ R!CommitBatch(r) \/ R!Fail(r) \/ R!Crash(r)
            PROVE  UNCHANGED topic
        BY <4>3 DEF R!Select, R!CommitBatch, R!Fail, R!Crash
      <4> QED
        BY <2>1, <4>1, <4>2, <4>3 DEF Send, R!Next, R!Serve
    <3>2. CASE UNCHANGED topic
      BY <2>1, <3>2 DEF Send, consumer_vars, C!vars
    <3>3. ASSUME NEW e \in Transactions, topic' = Append(topic, e) PROVE C!Arrive(e)
      <4>1. Len(topic') = Len(topic) + 1 /\ Len(topic) \in Nat
        BY <3>0, <3>3
      <4>2. Len(topic) < MaxMessages
        BY <2>1, <4>1, ConsumerAssumption DEF Send
      <4> QED
        BY <2>1, <3>3, <4>2 DEF Send, consumer_vars, C!Arrive
    <3> QED
      BY <3>1, <3>2, <3>3 DEF C!Next
  <2>2. ASSUME Receive PROVE [C!Next]_C!vars
    BY <2>2 DEF Receive, C!Next
  <2>3. CASE UNCHANGED vars
    BY <2>3 DEF vars, consumer_vars, C!vars
  <2> QED
    BY <2>1, <2>2, <2>3 DEF Next
<1> QED
  BY <1>1, <1>2, RelayInvariants, PTL DEF Spec, C!Spec

LEMMA ConsumerInvariants == Spec => []CP!IInv
<1>1. C!Spec => CP!Spec
  <2>1. C!Init => CP!Init
    BY SameConsumer
  <2>2. [C!Next]_C!vars => [CP!Next]_CP!vars
    BY SameConsumer DEF C!vars, CP!vars
  <2> QED
    BY <2>1, <2>2, PTL DEF C!Spec, CP!Spec
<1>2. CP!Spec => []CP!IInv
  BY PartsAreInstances, CP!Invariant
<1> QED
  BY <1>1, <1>2, DeliveryConsumes, PTL

-----------------------------------------------------------------------------
\* End to end

\* The consumer handles committed transactions only, and a row marked as
\* published is handled or waits in the subscription, for any number of relays,
\* threads, failures and restarts.
THEOREM NothingInvented == Spec => []NothingInventedNothingLost
<1>1. RP!PastInv /\ CP!IInv => NothingInventedNothingLost
  <2> SUFFICES ASSUME RP!PastInv, CP!IInv PROVE NothingInventedNothingLost
    OBVIOUS
  <2>1. /\ \A e \in handled : \E m \in DOMAIN topic : topic[m] = e
        /\ \A m \in CP!Messages : status[m] = "acked" => m \in DOMAIN topic /\ topic[m] \in handled
    BY DEF CP!IInv, CP!Delivered
  <2>2. /\ published \subseteq RP!Range(topic)
        /\ RP!Range(topic) \subseteq RP!committed
    BY DEF RP!PastInv
  <2>3. R!committed = RP!committed
    BY DEF R!committed, RP!committed, R!Range, RP!Range
  <2>4. DOMAIN topic \subseteq CP!Messages
    BY PartsAreInstances, CP!TopicType DEF CP!IInv
  <2>5. handled \subseteq R!committed
    BY <2>1, <2>2, <2>3 DEF RP!Range
  <2>6. \A e \in published : \E m \in DOMAIN topic : topic[m] = e
    BY <2>2 DEF RP!Range
  <2>7. published \subseteq handled \cup {topic[m] : m \in {n \in DOMAIN topic : status[n] # "acked"}}
    BY <2>1, <2>4, <2>6
  <2> QED
    BY <2>5, <2>7 DEF NothingInventedNothingLost
<1> QED
  BY <1>1, RelayInvariants, ConsumerInvariants, PTL
=============================================================================
