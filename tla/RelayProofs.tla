---------------------------- MODULE RelayProofs ----------------------------
(***************************************************************************)
(* Theorems about Relay for any number of transactions, relays, limits and *)
(* faults: it is an at-least-once queue, it keeps the order of events whose *)
(* start and commit agree, it lets an event that commits late be overtaken *)
(* only by relays that had read before, and what it sends twice is bounded. *)
(***************************************************************************)
EXTENDS Relay, FiniteSetTheorems, TLAPS

-----------------------------------------------------------------------------
\* Sequences and their ranges

LEMMA RangeOfAppend ==
  ASSUME NEW S, NEW s \in Seq(S), NEW x \in S
  PROVE  Range(Append(s, x)) = Range(s) \cup {x}
<1>1. \A y \in Range(Append(s, x)) : y \in Range(s) \cup {x}
  BY DEF Range
<1>2. \A y \in Range(s) : y \in Range(Append(s, x))
  <2> SUFFICES ASSUME NEW i \in DOMAIN s PROVE s[i] \in Range(Append(s, x))
    BY DEF Range
  <2>1. i \in DOMAIN Append(s, x) /\ Append(s, x)[i] = s[i]
    OBVIOUS
  <2> QED
    BY <2>1 DEF Range
<1>3. x \in Range(Append(s, x))
  <2>1. Len(s) + 1 \in DOMAIN Append(s, x) /\ Append(s, x)[Len(s) + 1] = x
    OBVIOUS
  <2> QED
    BY <2>1 DEF Range
<1> QED
  BY <1>1, <1>2, <1>3

LEMMA RangeOfTail ==
  ASSUME NEW S, NEW s \in Seq(S), s # <<>>
  PROVE  /\ Head(s) \in Range(s) /\ Head(s) \in S
         /\ Tail(s) \in Seq(S)
         /\ Range(Tail(s)) \subseteq Range(s)
<1>1. Len(s) \in Nat \ {0} /\ 1 \in DOMAIN s /\ Head(s) = s[1]
  OBVIOUS
<1>2. \A i \in DOMAIN Tail(s) : i + 1 \in DOMAIN s /\ Tail(s)[i] = s[i + 1]
  OBVIOUS
<1> QED
  BY <1>1, <1>2 DEF Range

LEMMA RangeFinite ==
  ASSUME NEW S, NEW s \in Seq(S)
  PROVE  IsFiniteSet(Range(s))
<1>1. Len(s) \in Nat /\ s \in [1 .. Len(s) -> Range(s)]
  BY DEF Range
<1>2. s \in Surjection(1 .. Len(s), Range(s))
  BY <1>1 DEF Surjection, Range
<1>3. IsFiniteSet(1 .. Len(s))
  BY <1>1, FS_Interval
<1> QED
  BY <1>2, <1>3, FS_Surjection

-----------------------------------------------------------------------------
\* Types

\* What a SELECT returns: pending rows, oldest first, none left out that is
\* older than one of them.
LEMMA PageIsOldest ==
  ASSUME TypeOK, NEW limit \in Limits, NEW s \in pages(limit)
  PROVE  /\ s \in Seq(Transactions)
         /\ Range(s) \subseteq pending
         /\ IsInjective(s)
         /\ \A i, j \in DOMAIN s : i < j => created_at[s[i]] <= created_at[s[j]]
         /\ \A e \in pending \ Range(s), x \in Range(s) : created_at[x] <= created_at[e]
<1>0. log \in Seq(Transactions)
  BY DEF TypeOK
<1>1. committed \subseteq Transactions /\ IsFiniteSet(committed)
  <2>1. IsFiniteSet(Range(log))
    BY <1>0, RangeFinite
  <2>2. Range(log) \subseteq Transactions
    BY <1>0 DEF Range
  <2> QED
    BY <2>1, <2>2 DEF committed
<1>2. IsFiniteSet(pending) /\ pending \subseteq Transactions
  <2>1. pending \in SUBSET committed
    BY DEF pending
  <2> QED
    BY <1>1, <2>1, FS_Subset
<1>3. PICK size \in Nat : s \in [1 .. size -> pending]
  BY <1>2, FS_CardinalityType, LimitsAssumption DEF pages
<1>4. s \in Seq(Transactions)
  BY <1>2, <1>3
<1>5. Range(s) \subseteq pending
  BY <1>3 DEF Range
<1> QED
  BY <1>4, <1>5 DEF pages, oldest_first

LEMMA TypeNext == TypeOK /\ [Next]_vars => TypeOK'
<1> SUFFICES ASSUME TypeOK, [Next]_vars PROVE TypeOK'
  OBVIOUS
<1>1. ASSUME NEW t \in Transactions, Begin(t) PROVE TypeOK'
  BY <1>1 DEF TypeOK, Begin
<1>2. ASSUME NEW t \in Transactions, CommitTransaction(t) PROVE TypeOK'
  BY <1>2 DEF TypeOK, CommitTransaction
<1>3. ASSUME NEW t \in Transactions, AcceptLate(t) PROVE TypeOK'
  BY <1>3 DEF TypeOK, AcceptLate
<1>4. ASSUME NEW r \in Relays, Select(r) PROVE TypeOK'
  <2>1. PICK limit \in Limits : \E page \in pages(limit) :
          batch' = [batch EXCEPT ![r] = page]
    BY <1>4 DEF Select
  <2>2. PICK page \in pages(limit) : batch' = [batch EXCEPT ![r] = page]
    BY <2>1
  <2>3. page \in Seq(Transactions)
    BY PageIsOldest
  <2>4. committed \in SUBSET Transactions
    BY DEF TypeOK, committed, Range
  <2>5. readable' \in [Relays -> SUBSET Transactions]
    BY <1>4, <2>4 DEF TypeOK, Select
  <2> QED
    BY <1>4, <2>2, <2>3, <2>5 DEF TypeOK, Select
<1>5. ASSUME NEW r \in Relays, Publish(r) PROVE TypeOK'
  <2>1. batch[r] \in Seq(Transactions) /\ batch[r] # <<>>
    BY <1>5 DEF TypeOK, Publish
  <2>2. Head(batch[r]) \in Transactions /\ Tail(batch[r]) \in Seq(Transactions)
    BY <2>1
  <2> QED
    BY <1>5, <2>2 DEF TypeOK, Publish
<1>6. ASSUME NEW r \in Relays, CommitBatch(r) PROVE TypeOK'
  BY <1>6 DEF TypeOK, CommitBatch, marks
<1>7. ASSUME NEW r \in Relays, Fail(r) PROVE TypeOK'
  <2>1. batch[r] \in Seq(Transactions) /\ batch[r] # <<>>
    BY <1>7 DEF TypeOK, Fail
  <2>2. Head(batch[r]) \in Transactions
    BY <2>1
  <2>3. in_flight' \in [Transactions -> Nat]
    BY <1>7, <2>2 DEF TypeOK, Fail
  <2>4. batch' \in [Relays -> Seq(Transactions)]
    BY <1>7 DEF TypeOK, Fail, after_failure
  <2>5. marked' \in [Relays -> SUBSET Transactions]
    BY <1>7 DEF TypeOK, Fail, marked_after_failure
  <2>6. faults' \in 0 .. MaxFaults
    BY <1>7, MaxFaultsAssumption DEF TypeOK, Fail
  <2> QED
    BY <1>7, <2>3, <2>4, <2>5, <2>6 DEF TypeOK, Fail
<1>8. ASSUME NEW r \in Relays, Crash(r) PROVE TypeOK'
  BY <1>8, MaxFaultsAssumption DEF TypeOK, Crash
<1>9. CASE UNCHANGED vars
  BY <1>9 DEF TypeOK, vars
<1> QED
  BY <1>1, <1>2, <1>3, <1>4, <1>5, <1>6, <1>7, <1>8, <1>9 DEF Next, Serve

\* Every column and every relay's state keeps its type, for any number of relays.
THEOREM TypeCorrect == Spec => []TypeOK
<1>1. Init => TypeOK
  BY MaxFaultsAssumption DEF Init, TypeOK
<1> QED
  BY <1>1, TypeNext, PTL DEF Spec

-----------------------------------------------------------------------------
\* The at-least-once queue

\* Batches and lost publishes are of committed rows, and the topic has what is
\* marked.
QueueInv ==
  /\ \A r \in Relays : Range(batch[r]) \subseteq committed
  /\ \A t \in Transactions : in_flight[t] > 0 => t \in committed
  /\ \A r \in Relays : marked[r] \subseteq Range(topic)

LEMMA CommittedGrows ==
  ASSUME TypeOK, NEW t \in Transactions, CommitTransaction(t)
  PROVE  committed' = committed \cup {t}
BY RangeOfAppend DEF TypeOK, CommitTransaction, committed

LEMMA HeadIsCommitted ==
  ASSUME TypeOK, QueueInv, NEW r \in Relays, batch[r] # <<>>
  PROVE  /\ Head(batch[r]) \in committed /\ Head(batch[r]) \in Transactions
         /\ Range(Tail(batch[r])) \subseteq committed
<1>1. batch[r] \in Seq(Transactions)
  BY DEF TypeOK
<1> QED
  BY <1>1, RangeOfTail DEF QueueInv

LEMMA QueueNext == TypeOK /\ QueueInv /\ [Next]_vars => QueueInv'
<1> SUFFICES ASSUME TypeOK, QueueInv, [Next]_vars PROVE QueueInv'
  OBVIOUS
<1>1. ASSUME NEW t \in Transactions, Begin(t) PROVE QueueInv'
  BY <1>1 DEF QueueInv, Begin, committed
<1>2. ASSUME NEW t \in Transactions, CommitTransaction(t) PROVE QueueInv'
  BY <1>2, CommittedGrows DEF QueueInv, CommitTransaction
<1>3. ASSUME NEW t \in Transactions, AcceptLate(t) PROVE QueueInv'
  <2>1. Range(topic') = Range(topic) \cup {t}
    BY <1>3, RangeOfAppend DEF TypeOK, AcceptLate
  <2>2. \A u \in Transactions : in_flight'[u] > 0 => in_flight[u] > 0
    BY <1>3 DEF TypeOK, AcceptLate
  <2> QED
    BY <1>3, <2>1, <2>2 DEF QueueInv, AcceptLate, committed
<1>4. ASSUME NEW r \in Relays, Select(r) PROVE QueueInv'
  <2>1. PICK limit \in Limits : \E page \in pages(limit) :
          batch' = [batch EXCEPT ![r] = page]
    BY <1>4 DEF Select
  <2>2. PICK page \in pages(limit) : batch' = [batch EXCEPT ![r] = page]
    BY <2>1
  <2>3. Range(page) \subseteq committed
    BY PageIsOldest DEF pending
  <2> QED
    BY <1>4, <2>2, <2>3 DEF TypeOK, QueueInv, Select, committed
<1>5. ASSUME NEW r \in Relays, Publish(r) PROVE QueueInv'
  <2>1. batch[r] # <<>>
    BY <1>5 DEF Publish
  <2>2. /\ Head(batch[r]) \in Transactions
        /\ Range(Tail(batch[r])) \subseteq committed
    BY <2>1, HeadIsCommitted
  <2>3. Range(topic') = Range(topic) \cup {Head(batch[r])}
    BY <1>5, <2>2, RangeOfAppend DEF TypeOK, Publish
  <2> QED
    BY <1>5, <2>2, <2>3 DEF TypeOK, QueueInv, Publish, committed
<1>6. ASSUME NEW r \in Relays, CommitBatch(r) PROVE QueueInv'
  BY <1>6 DEF TypeOK, QueueInv, CommitBatch, committed
<1>7. ASSUME NEW r \in Relays, Fail(r) PROVE QueueInv'
  <2>1. Head(batch[r]) \in committed /\ Head(batch[r]) \in Transactions
    BY <1>7, HeadIsCommitted DEF Fail
  <2>2. \A u \in Transactions : u # Head(batch[r]) => in_flight'[u] = in_flight[u]
    BY <1>7 DEF TypeOK, Fail
  <2>3. Range(<<>>) = {}
    BY DEF Range
  <2>4. \A s \in Relays : Range(batch'[s]) \subseteq committed
    BY <1>7, <2>3 DEF TypeOK, QueueInv, Fail, after_failure
  <2>5. UNCHANGED <<committed, topic, marked>>
    BY <1>7 DEF TypeOK, Fail, committed, marked_after_failure
  <2> QED
    BY <2>1, <2>2, <2>4, <2>5 DEF QueueInv
<1>8. ASSUME NEW r \in Relays, Crash(r) PROVE QueueInv'
  <2>1. Range(<<>>) = {}
    BY DEF Range
  <2> QED
    BY <1>8, <2>1 DEF TypeOK, QueueInv, Crash, committed
<1>9. CASE UNCHANGED vars
  BY <1>9 DEF QueueInv, vars, committed
<1> QED
  BY <1>1, <1>2, <1>3, <1>4, <1>5, <1>6, <1>7, <1>8, <1>9 DEF Next, Serve

LEMMA QueueInit == Init => QueueInv
BY DEF Init, QueueInv, Range, committed

THEOREM QueueInvariant == Spec => []QueueInv
<1> QED
  BY QueueInit, QueueNext, TypeCorrect, PTL DEF Spec

LEMMA StepIsQueueStep ==
  ASSUME TypeOK, QueueInv, [Next]_vars
  PROVE  [Q!Next]_<<committed, topic, published>>
<1>1. ASSUME NEW t \in Transactions, Begin(t)
      PROVE  UNCHANGED <<committed, topic, published>>
  BY <1>1 DEF Begin, committed
<1>2. ASSUME NEW t \in Transactions, CommitTransaction(t) PROVE Q!Enqueue(t)
  BY <1>2, CommittedGrows DEF CommitTransaction, Q!Enqueue
<1>3. ASSUME NEW t \in Transactions, AcceptLate(t) PROVE Q!Deliver(t)
  BY <1>3 DEF AcceptLate, QueueInv, Q!Deliver, committed
<1>4. ASSUME NEW r \in Relays, Select(r)
      PROVE  UNCHANGED <<committed, topic, published>>
  BY <1>4 DEF Select, committed
<1>5. ASSUME NEW r \in Relays, Publish(r)
      PROVE  \E e \in Transactions : Q!Deliver(e)
  <2>1. Head(batch[r]) \in committed /\ Head(batch[r]) \in Transactions
    BY <1>5, HeadIsCommitted DEF Publish
  <2>2. Q!Deliver(Head(batch[r]))
    BY <1>5, <2>1 DEF Publish, Q!Deliver, committed
  <2> QED
    BY <2>1, <2>2
<1>6. ASSUME NEW r \in Relays, CommitBatch(r)
      PROVE  \E es \in SUBSET Transactions : Q!Retire(es)
  <2>1. marked[r] \in SUBSET Transactions /\ marked[r] \subseteq Range(topic)
    BY DEF TypeOK, QueueInv
  <2>2. Q!Retire(marked[r])
    BY <1>6, <2>1 DEF CommitBatch, marks, Q!Retire, Q!Range, Range, committed
  <2> QED
    BY <2>1, <2>2
<1>7. ASSUME NEW r \in Relays, Fail(r) \/ Crash(r)
      PROVE  UNCHANGED <<committed, topic, published>>
  BY <1>7 DEF Fail, Crash, committed
<1>8. CASE UNCHANGED vars
  BY <1>8 DEF vars, committed
<1> QED
  BY <1>1, <1>2, <1>3, <1>4, <1>5, <1>6, <1>7, <1>8 DEF Next, Serve, Q!Next

\* The relay implements the at-least-once queue for any number of relays and
\* faults: what is sent was committed, what is marked was sent.
THEOREM RelayIsQueue == Spec => ImplementsQueue
<1>1. Init => Q!Init
  BY DEF Init, Q!Init, committed, Range
<1>2. TypeOK /\ QueueInv /\ [Next]_vars => [Q!Next]_<<committed, topic, published>>
  BY StepIsQueueStep
<1> QED
  BY <1>1, <1>2, TypeCorrect, QueueInvariant, PTL DEF Spec, ImplementsQueue, Q!Spec

-----------------------------------------------------------------------------
\* The order

\* What is out of the outbox is in the topic, and every row there has begun.
PastInv ==
  /\ published \subseteq Range(topic)
  /\ Range(topic) \subseteq committed
  /\ \A t \in committed : created_at[t] # 0

\* An event may be sent once all that precede it are in the topic.
Due(t) == \A a \in Transactions : Precedes(a, t) => a \in Range(topic)

\* In a batch each row comes after those that precede it, unless the topic has
\* them already; a publish given up on was due.
DueInv ==
  /\ \A r \in Relays : \A i \in DOMAIN batch[r] : \A a \in Transactions :
       Precedes(a, batch[r][i]) =>
         a \in Range(topic) \/ \E j \in 1 .. i - 1 : batch[r][j] = a
  /\ \A t \in Transactions : in_flight[t] > 0 => Due(t)

OrderInv == PastInv /\ DueInv /\ OlderFirst

LEMMA PastNext == TypeOK /\ QueueInv /\ PastInv /\ [Next]_vars => PastInv'
<1> SUFFICES ASSUME TypeOK, QueueInv, PastInv, [Next]_vars PROVE PastInv'
  OBVIOUS
<1>0. committed \subseteq Transactions
  BY DEF TypeOK, committed, Range
<1>1. ASSUME NEW t \in Transactions, Begin(t) PROVE PastInv'
  <2>1. t \notin committed
    BY <1>1 DEF PastInv, Begin
  <2>2. \A u \in committed : created_at'[u] = created_at[u]
    BY <1>0, <1>1, <2>1 DEF TypeOK, Begin
  <2> QED
    BY <1>1, <2>2 DEF PastInv, Begin, committed
<1>2. ASSUME NEW t \in Transactions, CommitTransaction(t) PROVE PastInv'
  <2>1. committed' = committed \cup {t} /\ created_at[t] # 0
    BY <1>2, CommittedGrows DEF CommitTransaction
  <2> QED
    BY <1>2, <2>1 DEF PastInv, CommitTransaction
<1>3. ASSUME NEW t \in Transactions, AcceptLate(t) PROVE PastInv'
  <2>1. Range(topic') = Range(topic) \cup {t}
    BY <1>3, RangeOfAppend DEF TypeOK, AcceptLate
  <2>2. t \in committed
    BY <1>3 DEF QueueInv, AcceptLate
  <2> QED
    BY <1>3, <2>1, <2>2 DEF PastInv, AcceptLate, committed
<1>5. ASSUME NEW r \in Relays, Publish(r) PROVE PastInv'
  <2>1. Head(batch[r]) \in committed /\ Head(batch[r]) \in Transactions
    BY <1>5, HeadIsCommitted DEF Publish
  <2>2. Range(topic') = Range(topic) \cup {Head(batch[r])}
    BY <1>5, <2>1, RangeOfAppend DEF TypeOK, Publish
  <2> QED
    BY <1>5, <2>1, <2>2 DEF PastInv, Publish, committed
<1>6. ASSUME NEW r \in Relays, CommitBatch(r) PROVE PastInv'
  BY <1>6 DEF QueueInv, PastInv, CommitBatch, marks, committed
<1>7. ASSUME NEW r \in Relays, Select(r) \/ Fail(r) \/ Crash(r) PROVE PastInv'
  BY <1>7 DEF PastInv, Select, Fail, Crash, committed
<1>8. CASE UNCHANGED vars
  BY <1>8 DEF PastInv, vars, committed
<1> QED
  BY <1>1, <1>2, <1>3, <1>5, <1>6, <1>7, <1>8 DEF Next, Serve

\* Every event out of the outbox was sent, and every event sent was committed.
THEOREM SentBeforeRetired == Spec => []PastInv
<1>1. Init => PastInv
  BY DEF Init, PastInv, committed, Range
<1> QED
  BY <1>1, PastNext, TypeCorrect, QueueInvariant, PTL DEF Spec

\* Precedes(a, b) in the next state.
PrecedesNext(a, b) ==
  /\ created_at'[a] < created_at'[b]
  /\ \E i, j \in DOMAIN log' : i < j /\ log'[i] = a /\ log'[j] = b

\* Nothing comes to precede a row that is already committed.
LEMMA PrecedesIsFixed ==
  ASSUME TypeOK, PastInv, [Next]_vars,
         NEW a \in Transactions, NEW b \in committed, PrecedesNext(a, b)
  PROVE  Precedes(a, b)
<1>0. log \in Seq(Transactions) /\ b \in Transactions /\ Len(log) \in Nat
  BY DEF TypeOK, committed, Range
<1>1. ASSUME NEW t \in Transactions, Begin(t) PROVE Precedes(a, b)
  <2>1. log' = log
    BY <1>1 DEF Begin
  <2>2. a \in committed
    BY <2>1 DEF PrecedesNext, committed, Range
  <2>3. created_at'[a] = created_at[a] /\ created_at'[b] = created_at[b]
    BY <1>0, <1>1, <2>2 DEF TypeOK, PastInv, Begin
  <2> QED
    BY <2>1, <2>3 DEF Precedes, PrecedesNext
<1>2. ASSUME NEW t \in Transactions, CommitTransaction(t) PROVE Precedes(a, b)
  <2>1. log' = Append(log, t) /\ created_at' = created_at /\ t # b
    BY <1>2 DEF CommitTransaction
  <2>2. PICK i, j \in DOMAIN log' : i < j /\ log'[i] = a /\ log'[j] = b
    BY DEF PrecedesNext
  <2>3. DOMAIN log' = 1 .. Len(log) + 1 /\ DOMAIN log = 1 .. Len(log)
    BY <1>0, <2>1
  <2>4. log'[Len(log) + 1] = t /\ \A k \in 1 .. Len(log) : log'[k] = log[k]
    BY <1>0, <2>1
  <2>5. i \in DOMAIN log /\ j \in DOMAIN log
    BY <1>0, <2>1, <2>2, <2>3, <2>4
  <2> QED
    BY <2>1, <2>2, <2>3, <2>4, <2>5 DEF Precedes, PrecedesNext
<1>3. CASE UNCHANGED <<log, created_at>>
  BY <1>3 DEF Precedes, PrecedesNext
<1>4. \/ \E t \in Transactions : Begin(t) \/ CommitTransaction(t)
      \/ UNCHANGED <<log, created_at>>
  BY DEF Next, Serve, AcceptLate, Select, Publish, CommitBatch, Fail, Crash, vars
<1> QED
  BY <1>1, <1>2, <1>3, <1>4

\* The topic only grows, so what was due stays due.
LEMMA TopicGrows ==
  ASSUME TypeOK, QueueInv, [Next]_vars
  PROVE  Range(topic) \subseteq Range(topic')
<1>1. ASSUME NEW t \in Transactions, AcceptLate(t)
      PROVE  Range(topic) \subseteq Range(topic')
  BY <1>1, RangeOfAppend DEF TypeOK, AcceptLate
<1>2. ASSUME NEW r \in Relays, Publish(r)
      PROVE  Range(topic) \subseteq Range(topic')
  <2>1. Head(batch[r]) \in Transactions
    BY <1>2, HeadIsCommitted DEF Publish
  <2> QED
    BY <1>2, <2>1, RangeOfAppend DEF TypeOK, Publish
<1>3. \/ \E t \in Transactions : AcceptLate(t)
      \/ \E r \in Relays : Publish(r)
      \/ UNCHANGED topic
  BY DEF Next, Serve, Begin, CommitTransaction, Select, CommitBatch, Fail, Crash, vars
<1> QED
  BY <1>1, <1>2, <1>3

LEMMA StaysDue ==
  ASSUME TypeOK, QueueInv, PastInv, [Next]_vars, NEW t \in committed, Due(t)
  PROVE  Due(t)'
<1> SUFFICES ASSUME NEW a \in Transactions, PrecedesNext(a, t)
             PROVE  a \in Range(topic')
  BY DEF Due, Precedes, PrecedesNext, Range
<1>1. a \in Range(topic)
  BY PrecedesIsFixed DEF Due
<1> QED
  BY <1>1, TopicGrows

\* A page leaves no row behind that is older than one of its own.
LEMMA PageIsDue ==
  ASSUME TypeOK, PastInv, NEW limit \in Limits, NEW s \in pages(limit),
         NEW i \in DOMAIN s, NEW a \in committed, created_at[a] < created_at[s[i]]
  PROVE  a \in Range(topic) \/ \E j \in 1 .. i - 1 : s[j] = a
<1>1. /\ s \in Seq(Transactions)
      /\ \A j, k \in DOMAIN s : j < k => created_at[s[j]] <= created_at[s[k]]
      /\ \A e \in pending \ Range(s), x \in Range(s) : created_at[x] <= created_at[e]
  BY PageIsOldest
<1>2. s[i] \in Range(s) /\ s[i] \in Transactions /\ a \in Transactions
  BY <1>1 DEF Range, committed, TypeOK
<1>3. created_at[a] \in Nat /\ created_at[s[i]] \in Nat
  BY <1>2 DEF TypeOK
<1>4. CASE a \in published
  BY <1>4 DEF PastInv
<1>5. CASE a \notin published
  <2>1. a \in Range(s)
    BY <1>1, <1>2, <1>3, <1>5 DEF pending
  <2>2. PICK j \in DOMAIN s : s[j] = a
    BY <2>1 DEF Range
  <2>3. ~ (i < j) /\ i # j
    BY <1>1, <1>3, <2>2
  <2> QED
    BY <1>1, <2>2, <2>3
<1> QED
  BY <1>4, <1>5

\* What a relay hands over is in the topic, and what was ahead in its batch still is.
LEMMA PublishShifts ==
  ASSUME TypeOK, QueueInv, NEW r \in Relays, Publish(r), NEW i \in DOMAIN batch'[r]
  PROVE  /\ i + 1 \in DOMAIN batch[r] /\ batch'[r][i] = batch[r][i + 1]
         /\ \A a : a \in Range(topic) \/ (\E j \in 1 .. (i + 1) - 1 : batch[r][j] = a)
                  => a \in Range(topic') \/ \E j \in 1 .. i - 1 : batch'[r][j] = a
<1>1. batch[r] \in Seq(Transactions) /\ batch[r] # <<>> /\ batch'[r] = Tail(batch[r])
  BY DEF TypeOK, Publish
<1>2. /\ i \in Nat \ {0} /\ i + 1 \in DOMAIN batch[r]
      /\ batch'[r][i] = batch[r][i + 1]
      /\ \A j \in 2 .. i : batch'[r][j - 1] = batch[r][j]
      /\ Head(batch[r]) = batch[r][1]
  BY <1>1
<1>3. Range(topic') = Range(topic) \cup {Head(batch[r])}
  <2>1. Head(batch[r]) \in Transactions
    BY <1>1, HeadIsCommitted
  <2>2. topic \in Seq(Transactions) /\ topic' = Append(topic, Head(batch[r]))
    BY DEF TypeOK, Publish
  <2> QED
    BY <2>1, <2>2, RangeOfAppend
<1>4. ASSUME NEW j \in 1 .. i
      PROVE  batch[r][j] \in Range(topic') \/ \E k \in 1 .. i - 1 : batch'[r][k] = batch[r][j]
  <2>1. CASE j = 1
    BY <1>2, <1>3, <2>1
  <2>2. CASE j # 1
    <3>1. j - 1 \in 1 .. i - 1 /\ batch'[r][j - 1] = batch[r][j]
      BY <1>2, <1>4, <2>2
    <3> QED
      BY <3>1
  <2> QED
    BY <2>1, <2>2
<1>5. (i + 1) - 1 = i
  BY <1>2
<1> QED
  BY <1>2, <1>3, <1>4, <1>5

\* The head of a batch is due.
LEMMA HeadIsDue ==
  ASSUME TypeOK, DueInv, NEW r \in Relays, batch[r] # <<>>
  PROVE  Due(Head(batch[r]))
<1>1. batch[r] \in Seq(Transactions)
  BY DEF TypeOK
<1>2. 1 \in DOMAIN batch[r] /\ Head(batch[r]) = batch[r][1]
  BY <1>1
<1>3. \A j \in 1 .. 1 - 1 : FALSE
  OBVIOUS
<1> QED
  BY <1>2, <1>3 DEF DueInv, Due

\* What a step does to one batch.
LEMMA BatchStep ==
  ASSUME TypeOK, [Next]_vars, NEW r \in Relays
  PROVE  \/ batch'[r] = batch[r]
         \/ Select(r)
         \/ Publish(r)
         \/ batch'[r] = <<>>
<1>1. ASSUME NEW s \in Relays, Select(s) \/ Publish(s), s # r PROVE batch'[r] = batch[r]
  BY <1>1 DEF TypeOK, Select, Publish
<1>2. ASSUME NEW s \in Relays, Fail(s) \/ Crash(s)
      PROVE  batch'[r] = batch[r] \/ batch'[r] = <<>>
  BY <1>2 DEF TypeOK, Fail, Crash, after_failure
<1>3. \/ \E s \in Relays : Select(s) \/ Publish(s)
      \/ \E s \in Relays : Fail(s) \/ Crash(s)
      \/ UNCHANGED batch
  BY DEF Next, Serve, Begin, CommitTransaction, AcceptLate, CommitBatch, vars
<1> QED
  BY <1>1, <1>2, <1>3

LEMMA BatchesStayDue ==
  ASSUME TypeOK, QueueInv, PastInv, DueInv, [Next]_vars,
         NEW r \in Relays, NEW i \in DOMAIN batch'[r], NEW a \in Transactions,
         PrecedesNext(a, batch'[r][i])
  PROVE  a \in Range(topic') \/ \E j \in 1 .. i - 1 : batch'[r][j] = a
<1>0. batch[r] \in Seq(Transactions) /\ Range(batch[r]) \subseteq committed
  BY DEF TypeOK, QueueInv
<1>1. CASE batch'[r] = batch[r]
  <2>1. i \in DOMAIN batch[r] /\ batch[r][i] \in committed
    BY <1>0, <1>1 DEF Range
  <2>2. Precedes(a, batch[r][i])
    BY <1>1, <2>1, PrecedesIsFixed
  <2> QED
    BY <1>1, <2>1, <2>2, TopicGrows DEF DueInv
<1>2. CASE Select(r)
  <2>1. PICK limit \in Limits : \E page \in pages(limit) :
          batch' = [batch EXCEPT ![r] = page]
    BY <1>2 DEF Select
  <2>2. PICK page \in pages(limit) : batch' = [batch EXCEPT ![r] = page]
    BY <2>1
  <2>3. batch'[r] = page
    BY <2>2 DEF TypeOK
  <2>4. i \in DOMAIN page /\ page[i] \in committed
    BY <2>3, PageIsOldest DEF Range, pending
  <2>5. Precedes(a, page[i])
    BY <2>3, <2>4, PrecedesIsFixed
  <2>6. a \in committed /\ created_at[a] < created_at[page[i]]
    BY <2>5 DEF Precedes, committed, Range
  <2> QED
    BY <2>2, <2>3, <2>4, <2>6, PageIsDue, TopicGrows
<1>3. CASE Publish(r)
  <2>1. i + 1 \in DOMAIN batch[r] /\ batch'[r][i] = batch[r][i + 1]
    BY <1>3, PublishShifts
  <2>2. batch[r][i + 1] \in committed
    BY <1>0, <2>1 DEF Range
  <2>3. Precedes(a, batch[r][i + 1])
    BY <2>1, <2>2, PrecedesIsFixed
  <2>4. a \in Range(topic) \/ \E j \in 1 .. (i + 1) - 1 : batch[r][j] = a
    BY <2>1, <2>3 DEF DueInv
  <2> QED
    BY <1>3, <2>4, PublishShifts
<1>4. CASE batch'[r] = <<>>
  BY <1>4
<1> QED
  BY <1>1, <1>2, <1>3, <1>4, BatchStep

LEMMA FlightsStayDue ==
  ASSUME TypeOK, QueueInv, PastInv, DueInv, [Next]_vars,
         NEW t \in Transactions, in_flight'[t] > 0
  PROVE  Due(t)'
<1>1. CASE in_flight[t] > 0
  BY <1>1, StaysDue DEF QueueInv, DueInv
<1>2. CASE ~ (in_flight[t] > 0)
  <2>1. in_flight[t] \in Nat
    BY DEF TypeOK
  <2>2. ASSUME NEW u \in Transactions, AcceptLate(u) PROVE FALSE
    BY <1>2, <2>1, <2>2 DEF TypeOK, AcceptLate
  <2>3. ASSUME NEW r \in Relays, Fail(r) PROVE Due(t) /\ t \in committed
    <3>1. batch[r] # <<>> /\ Head(batch[r]) \in Transactions
          /\ Head(batch[r]) \in committed
      BY <2>3, HeadIsCommitted DEF Fail
    <3>2. t = Head(batch[r])
      BY <1>2, <2>3, <3>1 DEF TypeOK, Fail
    <3> QED
      BY <3>1, <3>2, HeadIsDue
  <2>4. \/ \E u \in Transactions : AcceptLate(u)
        \/ \E r \in Relays : Fail(r)
        \/ UNCHANGED in_flight
    BY DEF Next, Serve, Begin, CommitTransaction, Select, Publish, CommitBatch, Crash, vars
  <2> QED
    BY <1>2, <2>2, <2>3, <2>4, StaysDue
<1> QED
  BY <1>1, <1>2

LEMMA DueNext == TypeOK /\ QueueInv /\ PastInv /\ DueInv /\ [Next]_vars => DueInv'
<1> SUFFICES ASSUME TypeOK, QueueInv, PastInv, DueInv, [Next]_vars PROVE DueInv'
  OBVIOUS
<1>1. ASSUME NEW r \in Relays, NEW i \in DOMAIN batch'[r], NEW a \in Transactions,
             PrecedesNext(a, batch'[r][i])
      PROVE  a \in Range(topic') \/ \E j \in 1 .. i - 1 : batch'[r][j] = a
  BY <1>1, BatchesStayDue
<1>2. ASSUME NEW t \in Transactions, in_flight'[t] > 0 PROVE Due(t)'
  BY <1>2, FlightsStayDue
<1> QED
  BY <1>1, <1>2 DEF DueInv, Precedes, PrecedesNext, Range

\* The topic is extended only by what is due.
LEMMA TopicStep ==
  ASSUME TypeOK, QueueInv, DueInv, [Next]_vars
  PROVE  \/ topic' = topic
         \/ \E t \in committed : t \in Transactions /\ Due(t) /\ topic' = Append(topic, t)
<1>1. ASSUME NEW t \in Transactions, AcceptLate(t)
      PROVE  t \in committed /\ Due(t) /\ topic' = Append(topic, t)
  BY <1>1 DEF QueueInv, DueInv, AcceptLate
<1>2. ASSUME NEW r \in Relays, Publish(r)
      PROVE  /\ Head(batch[r]) \in committed /\ Head(batch[r]) \in Transactions
             /\ Due(Head(batch[r])) /\ topic' = Append(topic, Head(batch[r]))
  BY <1>2, HeadIsCommitted, HeadIsDue DEF Publish
<1>3. \/ \E t \in Transactions : AcceptLate(t)
      \/ \E r \in Relays : Publish(r)
      \/ UNCHANGED topic
  BY DEF Next, Serve, Begin, CommitTransaction, Select, CommitBatch, Fail, Crash, vars
<1> QED
  BY <1>1, <1>2, <1>3

LEMMA OlderFirstNext == TypeOK /\ QueueInv /\ OrderInv /\ [Next]_vars => OlderFirst'
<1> SUFFICES ASSUME TypeOK, QueueInv, PastInv, DueInv, OlderFirst, [Next]_vars,
                    NEW i \in DOMAIN topic', NEW a \in Transactions,
                    PrecedesNext(a, topic'[i])
             PROVE  \E j \in 1 .. i - 1 : topic'[j] = a
  BY DEF OrderInv, OlderFirst, Precedes, PrecedesNext
<1>0. topic \in Seq(Transactions) /\ Len(topic) \in Nat /\ DOMAIN topic = 1 .. Len(topic)
  BY DEF TypeOK
<1>1. CASE topic' = topic
  <2>1. i \in DOMAIN topic /\ topic[i] \in committed
    BY <1>1 DEF PastInv, Range
  <2>2. Precedes(a, topic[i])
    BY <1>1, <2>1, PrecedesIsFixed
  <2> QED
    BY <1>1, <2>1, <2>2 DEF OlderFirst
<1>2. ASSUME NEW t \in committed, t \in Transactions, Due(t), topic' = Append(topic, t)
      PROVE  \E j \in 1 .. i - 1 : topic'[j] = a
  <2>1. /\ i \in 1 .. Len(topic) + 1
        /\ \A j \in 1 .. Len(topic) : topic'[j] = topic[j]
        /\ topic'[Len(topic) + 1] = t
    BY <1>0, <1>2
  <2>2. CASE i \in DOMAIN topic
    <3>1. topic'[i] = topic[i] /\ topic[i] \in committed
      BY <1>0, <2>1, <2>2 DEF PastInv, Range
    <3>2. Precedes(a, topic[i])
      BY <3>1, PrecedesIsFixed
    <3>3. PICK j \in 1 .. i - 1 : topic[j] = a
      BY <2>2, <3>2 DEF OlderFirst
    <3>4. topic'[j] = a
      BY <1>0, <2>1, <2>2, <3>3
    <3> QED
      BY <3>4
  <2>3. CASE i = Len(topic) + 1
    <3>1. Precedes(a, t)
      BY <1>2, <2>1, <2>3, PrecedesIsFixed
    <3>2. PICK j \in DOMAIN topic : topic[j] = a
      BY <1>2, <3>1 DEF Due, Range
    <3>3. j \in 1 .. i - 1 /\ topic'[j] = a
      BY <1>0, <2>1, <2>3, <3>2
    <3> QED
      BY <3>3
  <2> QED
    BY <1>0, <2>1, <2>2, <2>3
<1> QED
  BY <1>1, <1>2, TopicStep

LEMMA OrderInit == Init => OrderInv
<1> SUFFICES ASSUME Init PROVE OrderInv
  OBVIOUS
<1>1. PastInv
  BY DEF Init, PastInv, committed, Range
<1>2. DueInv
  BY DEF Init, DueInv
<1>3. OlderFirst
  BY DEF Init, OlderFirst
<1> QED
  BY <1>1, <1>2, <1>3 DEF OrderInv

\* No event is sent ahead of one that both started and committed before it, for
\* any number of relays and transactions, with any mix of limits and faults.
THEOREM OlderComesFirst == Spec => []OlderFirst
<1>1. TypeOK /\ QueueInv /\ OrderInv /\ [Next]_vars => OrderInv'
  BY PastNext, DueNext, OlderFirstNext DEF OrderInv
<1>2. OrderInv => OlderFirst
  BY DEF OrderInv
<1> QED
  BY <1>1, <1>2, OrderInit, TypeCorrect, QueueInvariant, PTL DEF Spec

-----------------------------------------------------------------------------
\* Events that commit late

\* In a batch each row comes after the older ones that were there to read, unless
\* the topic has them already.
ReadableInv ==
  /\ \A r \in Relays : readable[r] \subseteq committed
  /\ \A r \in Relays : \A i \in DOMAIN batch[r] : \A t \in readable[r] :
       created_at[t] < created_at[batch[r][i]] =>
         t \in Range(topic) \/ \E j \in 1 .. i - 1 : batch[r][j] = t

\* What is committed keeps its start and stays.
LEMMA StartsAreFixed ==
  ASSUME TypeOK, PastInv, [Next]_vars, NEW t \in committed
  PROVE  t \in committed' /\ created_at'[t] = created_at[t]
<1>0. t \in Transactions
  BY DEF TypeOK, committed, Range
<1>1. ASSUME NEW u \in Transactions, Begin(u)
      PROVE  t \in committed' /\ created_at'[t] = created_at[t]
  <2>1. u # t
    BY <1>1 DEF PastInv, Begin
  <2> QED
    BY <1>0, <1>1, <2>1 DEF TypeOK, Begin, committed
<1>2. ASSUME NEW u \in Transactions, CommitTransaction(u)
      PROVE  t \in committed' /\ created_at'[t] = created_at[t]
  BY <1>2, CommittedGrows DEF CommitTransaction
<1>3. \/ \E u \in Transactions : Begin(u) \/ CommitTransaction(u)
      \/ UNCHANGED <<log, created_at>>
  BY DEF Next, Serve, AcceptLate, Select, Publish, CommitBatch, Fail, Crash, vars
<1> QED
  BY <1>1, <1>2, <1>3 DEF committed

\* What a step does to one batch and to what was there to read.
LEMMA ReadableStep ==
  ASSUME TypeOK, [Next]_vars, NEW r \in Relays
  PROVE  \/ batch'[r] = batch[r] /\ readable'[r] \in {readable[r], {}}
         \/ Select(r)
         \/ Publish(r) /\ readable'[r] = readable[r]
         \/ batch'[r] = <<>> /\ readable'[r] \in {readable[r], {}}
<1>1. ASSUME NEW s \in Relays, Select(s) \/ Publish(s), s # r
      PROVE  batch'[r] = batch[r] /\ readable'[r] = readable[r]
  BY <1>1 DEF TypeOK, Select, Publish
<1>2. ASSUME NEW s \in Relays, Fail(s) \/ Crash(s) \/ CommitBatch(s)
      PROVE  batch'[r] \in {batch[r], <<>>} /\ readable'[r] \in {readable[r], {}}
  BY <1>2 DEF TypeOK, Fail, Crash, CommitBatch, after_failure
<1>3. ASSUME Publish(r) PROVE readable'[r] = readable[r]
  BY <1>3 DEF Publish
<1>4. \/ \E s \in Relays : Select(s) \/ Publish(s)
      \/ \E s \in Relays : Fail(s) \/ Crash(s) \/ CommitBatch(s)
      \/ UNCHANGED <<batch, readable>>
  BY DEF Next, Serve, Begin, CommitTransaction, AcceptLate, vars
<1> QED
  BY <1>1, <1>2, <1>3, <1>4

LEMMA ReadableNext ==
  TypeOK /\ QueueInv /\ PastInv /\ ReadableInv /\ [Next]_vars => ReadableInv'
<1> SUFFICES ASSUME TypeOK, QueueInv, PastInv, ReadableInv, [Next]_vars, NEW r \in Relays
             PROVE  /\ readable'[r] \subseteq committed'
                    /\ \A i \in DOMAIN batch'[r] : \A t \in readable'[r] :
                         created_at'[t] < created_at'[batch'[r][i]] =>
                           t \in Range(topic') \/ \E j \in 1 .. i - 1 : batch'[r][j] = t
  BY DEF ReadableInv, Range
<1>0. /\ batch[r] \in Seq(Transactions) /\ Range(batch[r]) \subseteq committed
      /\ readable[r] \subseteq committed
  BY DEF TypeOK, QueueInv, ReadableInv
<1>1. CASE batch'[r] = batch[r] /\ readable'[r] \in {readable[r], {}}
  <2>1. readable'[r] \subseteq readable[r]
    BY <1>1
  <2>2. \A i \in DOMAIN batch[r] : batch[r][i] \in committed
    BY <1>0 DEF Range
  <2>3. ASSUME NEW i \in DOMAIN batch[r], NEW t \in readable[r],
               created_at'[t] < created_at'[batch[r][i]]
        PROVE  t \in Range(topic') \/ \E j \in 1 .. i - 1 : batch[r][j] = t
    <3>1. created_at[t] < created_at[batch[r][i]]
      BY <1>0, <2>2, <2>3, StartsAreFixed
    <3> QED
      BY <3>1, TopicGrows DEF ReadableInv
  <2> QED
    BY <1>0, <1>1, <2>1, <2>3, StartsAreFixed
<1>2. CASE Select(r)
  <2>1. PICK limit \in Limits : \E page \in pages(limit) :
          batch' = [batch EXCEPT ![r] = page]
    BY <1>2 DEF Select
  <2>2. PICK page \in pages(limit) : batch' = [batch EXCEPT ![r] = page]
    BY <2>1
  <2>3. batch'[r] = page /\ readable'[r] = committed
    BY <1>2, <2>2 DEF TypeOK, Select
  <2>4. UNCHANGED <<created_at, topic>> /\ committed' = committed
    BY <1>2 DEF Select, committed
  <2> QED
    BY <2>2, <2>3, <2>4, PageIsDue
<1>3. CASE Publish(r) /\ readable'[r] = readable[r]
  <2>1. UNCHANGED created_at /\ committed' = committed
    BY <1>3 DEF Publish, committed
  <2>2. ASSUME NEW i \in DOMAIN batch'[r], NEW t \in readable[r],
               created_at[t] < created_at[batch'[r][i]]
        PROVE  t \in Range(topic') \/ \E j \in 1 .. i - 1 : batch'[r][j] = t
    <3>1. i + 1 \in DOMAIN batch[r] /\ batch'[r][i] = batch[r][i + 1]
      BY <1>3, PublishShifts
    <3>2. t \in Range(topic) \/ \E j \in 1 .. (i + 1) - 1 : batch[r][j] = t
      BY <2>2, <3>1 DEF ReadableInv
    <3> QED
      BY <1>3, <3>2, PublishShifts
  <2> QED
    BY <1>0, <1>3, <2>1, <2>2
<1>4. CASE batch'[r] = <<>> /\ readable'[r] \in {readable[r], {}}
  <2>1. readable'[r] \subseteq readable[r]
    BY <1>4
  <2> QED
    BY <1>0, <1>4, <2>1, StartsAreFixed
<1> QED
  BY <1>1, <1>2, <1>3, <1>4, ReadableStep

\* Before a relay hands over an event, every older one that was there when it read
\* the outbox has been handed over, for any number of relays, limits and faults.
THEOREM OvertakenOnlyWhenLate == Spec => []OvertakesOnlyUnread
<1>1. Init => ReadableInv
  BY DEF Init, ReadableInv
<1>2. TypeOK /\ ReadableInv => OvertakesOnlyUnread
  <2> SUFFICES ASSUME TypeOK, ReadableInv, NEW r \in Relays, batch[r] # <<>>,
                      NEW t \in readable[r], created_at[t] < created_at[Head(batch[r])]
               PROVE  t \in Range(topic)
    BY DEF OvertakesOnlyUnread
  <2>1. batch[r] \in Seq(Transactions)
    BY DEF TypeOK
  <2>2. 1 \in DOMAIN batch[r] /\ Head(batch[r]) = batch[r][1]
    BY <2>1
  <2>3. \A j \in 1 .. 1 - 1 : FALSE
    OBVIOUS
  <2> QED
    BY <2>2, <2>3 DEF ReadableInv
<1>3. TypeOK /\ QueueInv /\ OrderInv /\ [Next]_vars => OrderInv'
  BY PastNext, DueNext, OlderFirstNext DEF OrderInv
<1>4. OrderInv => PastInv
  BY DEF OrderInv
<1> QED
  BY <1>1, <1>2, <1>3, <1>4, OrderInit, ReadableNext, TypeCorrect, QueueInvariant, PTL DEF Spec

-----------------------------------------------------------------------------
\* How often an event is sent

holders(t) == {r \in Relays : t \in marked[r]}

waiting(t) == {r \in Relays : t \in Range(batch[r])}

\* A row comes once in a batch, and leaves it when the relay marks it.
BatchInv ==
  \A r \in Relays :
    /\ IsInjective(batch[r])
    /\ Range(batch[r]) \cap marked[r] = {}
    /\ pc[r] = "idle" => marked[r] = {}

\* Every message sent or in flight is owed to a fault or to a relay: to one that
\* holds the mark while the row is pending, and afterwards to any that will not
\* send it again.
CountInv ==
  \A t \in Transactions :
    IF t \in published
    THEN copies(t) + in_flight[t] + Cardinality(waiting(t)) <= Cardinality(Relays) + faults
    ELSE copies(t) + in_flight[t] <= Cardinality(holders(t)) + faults

LEMMA TailOfInjective ==
  ASSUME NEW S, NEW s \in Seq(S), s # <<>>, IsInjective(s)
  PROVE  IsInjective(Tail(s)) /\ Range(Tail(s)) = Range(s) \ {Head(s)}
<1>1. /\ Len(s) \in Nat \ {0} /\ 1 \in DOMAIN s /\ Head(s) = s[1]
      /\ DOMAIN s = 1 .. Len(s) /\ DOMAIN Tail(s) = 1 .. Len(s) - 1
  OBVIOUS
<1>2. \A i \in DOMAIN Tail(s) : i + 1 \in DOMAIN s /\ i + 1 # 1 /\ Tail(s)[i] = s[i + 1]
  OBVIOUS
<1>3. \A i, j \in DOMAIN s : s[i] = s[j] => i = j
  BY DEF IsInjective
<1>4. IsInjective(Tail(s))
  <2> SUFFICES ASSUME NEW i \in DOMAIN Tail(s), NEW j \in DOMAIN Tail(s),
                      Tail(s)[i] = Tail(s)[j]
               PROVE  i = j
    BY DEF IsInjective
  <2>1. i + 1 = j + 1
    BY <1>2, <1>3
  <2> QED
    BY <1>1, <2>1
<1>5. ASSUME NEW x \in Range(s), x # Head(s) PROVE x \in Range(Tail(s))
  <2>1. PICK i \in DOMAIN s : s[i] = x
    BY DEF Range
  <2>2. i - 1 \in DOMAIN Tail(s) /\ (i - 1) + 1 = i
    BY <1>1, <1>5, <2>1
  <2> QED
    BY <1>2, <2>1, <2>2 DEF Range
<1>6. ASSUME NEW x \in Range(Tail(s)) PROVE x \in Range(s) /\ x # Head(s)
  <2>1. PICK i \in DOMAIN Tail(s) : Tail(s)[i] = x
    BY DEF Range
  <2> QED
    BY <1>1, <1>2, <1>3, <2>1 DEF Range
<1> QED
  BY <1>4, <1>5, <1>6

LEMMA BatchNext == TypeOK /\ BatchInv /\ [Next]_vars => BatchInv'
<1> SUFFICES ASSUME TypeOK, BatchInv, [Next]_vars, NEW s \in Relays
             PROVE  /\ IsInjective(batch'[s])
                    /\ Range(batch'[s]) \cap marked'[s] = {}
                    /\ pc'[s] = "idle" => marked'[s] = {}
  BY DEF BatchInv, IsInjective, Range
<1>0. IsInjective(<<>>) /\ Range(<<>>) = {}
  BY DEF IsInjective, Range
<1>1. CASE UNCHANGED <<batch, marked, pc>>
  BY <1>1 DEF BatchInv
<1>2. ASSUME NEW r \in Relays, Select(r)
      PROVE  /\ IsInjective(batch'[s])
             /\ Range(batch'[s]) \cap marked'[s] = {}
             /\ pc'[s] = "idle" => marked'[s] = {}
  <2>1. PICK limit \in Limits : \E page \in pages(limit) :
          batch' = [batch EXCEPT ![r] = page]
    BY <1>2 DEF Select
  <2>2. PICK page \in pages(limit) : batch' = [batch EXCEPT ![r] = page]
    BY <2>1
  <2>3. IsInjective(page) /\ marked[r] = {}
    BY <1>2, PageIsOldest DEF BatchInv, Select
  <2> QED
    BY <1>2, <2>2, <2>3 DEF TypeOK, BatchInv, Select
<1>3. ASSUME NEW r \in Relays, Publish(r)
      PROVE  /\ IsInjective(batch'[s])
             /\ Range(batch'[s]) \cap marked'[s] = {}
             /\ pc'[s] = "idle" => marked'[s] = {}
  <2>1. batch[r] \in Seq(Transactions) /\ batch[r] # <<>> /\ IsInjective(batch[r])
    BY <1>3 DEF TypeOK, BatchInv, Publish
  <2>2. /\ IsInjective(Tail(batch[r]))
        /\ Range(Tail(batch[r])) = Range(batch[r]) \ {Head(batch[r])}
    BY <2>1, TailOfInjective
  <2>3. CASE s = r
    <3>1. /\ batch'[s] = Tail(batch[r])
          /\ marked'[s] = marked[r] \cup {Head(batch[r])}
          /\ pc'[s] # "idle"
      BY <1>3, <2>3 DEF TypeOK, Publish
    <3> QED
      BY <2>2, <3>1 DEF BatchInv
  <2>4. CASE s # r
    BY <1>3, <2>4 DEF TypeOK, BatchInv, Publish
  <2> QED
    BY <2>3, <2>4
<1>4. ASSUME NEW r \in Relays, CommitBatch(r) \/ Fail(r) \/ Crash(r)
      PROVE  /\ IsInjective(batch'[s])
             /\ Range(batch'[s]) \cap marked'[s] = {}
             /\ pc'[s] = "idle" => marked'[s] = {}
  BY <1>0, <1>4 DEF TypeOK, BatchInv, CommitBatch, Fail, Crash, after_failure,
                    marked_after_failure
<1> QED
  BY <1>1, <1>2, <1>3, <1>4
     DEF Next, Serve, Begin, CommitTransaction, AcceptLate, vars

-----------------------------------------------------------------------------
\* Counting

LEMMA CountsAreNumbers ==
  ASSUME TypeOK, NEW t \in Transactions
  PROVE  /\ copies(t) \in Nat /\ in_flight[t] \in Nat /\ faults \in Nat
         /\ Cardinality(Relays) \in Nat
         /\ IsFiniteSet(holders(t)) /\ Cardinality(holders(t)) \in Nat
         /\ IsFiniteSet(waiting(t)) /\ Cardinality(waiting(t)) \in Nat
<1>1. Len(topic) \in Nat /\ DOMAIN topic = 1 .. Len(topic)
  BY DEF TypeOK
<1>2. IsFiniteSet(1 .. Len(topic))
  BY <1>1, FS_Interval
<1>3. {i \in DOMAIN topic : topic[i] = t} \in SUBSET (1 .. Len(topic))
  BY <1>1
<1>4. copies(t) \in Nat
  BY <1>2, <1>3, FS_Subset, FS_CardinalityType DEF copies
<1>5. holders(t) \in SUBSET Relays /\ waiting(t) \in SUBSET Relays
  BY DEF holders, waiting
<1> QED
  BY <1>4, <1>5, RelaysAssumption, FS_Subset, FS_CardinalityType, MaxFaultsAssumption DEF TypeOK

LEMMA CopiesAfterAppend ==
  ASSUME TypeOK, NEW t \in Transactions, NEW x \in Transactions,
         topic' = Append(topic, x)
  PROVE  copies(t)' = IF x = t THEN copies(t) + 1 ELSE copies(t)
<1> DEFINE before == {i \in DOMAIN topic : topic[i] = t}
<1> DEFINE after == {i \in DOMAIN topic' : topic'[i] = t}
<1>0. topic \in Seq(Transactions) /\ Len(topic) \in Nat
  BY DEF TypeOK
<1>1. /\ DOMAIN topic = 1 .. Len(topic) /\ DOMAIN topic' = 1 .. Len(topic) + 1
      /\ topic'[Len(topic) + 1] = x
      /\ \A i \in 1 .. Len(topic) : topic'[i] = topic[i]
  BY <1>0
<1>2. IsFiniteSet(before) /\ Len(topic) + 1 \notin before
  <2>1. IsFiniteSet(1 .. Len(topic)) /\ before \in SUBSET (1 .. Len(topic))
    BY <1>0, <1>1, FS_Interval
  <2> QED
    BY <1>0, <2>1, FS_Subset
<1>3. after = IF x = t THEN before \cup {Len(topic) + 1} ELSE before
  <2>1. \A i : i \in 1 .. Len(topic) + 1 <=> i \in 1 .. Len(topic) \/ i = Len(topic) + 1
    BY <1>0
  <2>2. \A i : i \in 1 .. Len(topic) => i # Len(topic) + 1
    BY <1>0
  <2> QED
    BY <1>1, <2>1, <2>2
<1>4. Cardinality(after) = IF x = t THEN Cardinality(before) + 1 ELSE Cardinality(before)
  <2>1. Cardinality(before \cup {Len(topic) + 1}) = Cardinality(before) + 1
    BY <1>2, FS_AddElement
  <2> QED
    BY <1>3, <2>1
<1> QED
  BY <1>4 DEF copies

LEMMA SmallerSet ==
  ASSUME NEW S, NEW T, IsFiniteSet(T), S \subseteq T
  PROVE  IsFiniteSet(S) /\ Cardinality(S) <= Cardinality(T)
BY FS_Subset

\* A relay more or less.
LEMMA OneRelayMore ==
  ASSUME NEW S, NEW T, NEW r, IsFiniteSet(S), T = S \cup {r}, r \notin S
  PROVE  Cardinality(T) = Cardinality(S) + 1
BY FS_AddElement

\* The relays that hold a mark and those with the row in their batch are not the
\* same.
LEMMA HoldersDoNotWait ==
  ASSUME TypeOK, BatchInv, NEW t \in Transactions
  PROVE  Cardinality(holders(t)) + Cardinality(waiting(t)) <= Cardinality(Relays)
<1>1. holders(t) \cap waiting(t) = {}
  BY DEF BatchInv, holders, waiting
<1>2. Cardinality(holders(t) \cup waiting(t))
        = Cardinality(holders(t)) + Cardinality(waiting(t))
  <2>1. IsFiniteSet(holders(t)) /\ IsFiniteSet(waiting(t))
    BY CountsAreNumbers
  <2>2. Cardinality(holders(t) \cup waiting(t))
          = Cardinality(holders(t)) + Cardinality(waiting(t)) - Cardinality(holders(t) \cap waiting(t))
    BY <2>1, FS_Union
  <2>3. Cardinality(holders(t) \cap waiting(t)) = 0
    BY <1>1, FS_EmptySet
  <2> QED
    BY <2>2, <2>3, CountsAreNumbers
<1>3. holders(t) \cup waiting(t) \subseteq Relays
  BY DEF holders, waiting
<1> QED
  BY <1>2, <1>3, RelaysAssumption, SmallerSet

\* The invariant for one transaction, in the next state.
CountInvFor(t) ==
  IF t \in published
  THEN copies(t) + in_flight[t] + Cardinality(waiting(t)) <= Cardinality(Relays) + faults
  ELSE copies(t) + in_flight[t] <= Cardinality(holders(t)) + faults

LEMMA CountPublish ==
  ASSUME TypeOK, TypeOK', QueueInv, BatchInv, NEW t \in Transactions, CountInvFor(t),
         NEW r \in Relays, Publish(r)
  PROVE  CountInvFor(t)'
<1>1. /\ batch[r] \in Seq(Transactions) /\ batch[r] # <<>>
      /\ Head(batch[r]) \in Transactions /\ Head(batch[r]) \in Range(batch[r])
      /\ Range(Tail(batch[r])) = Range(batch[r]) \ {Head(batch[r])}
  BY RangeOfTail, TailOfInjective DEF TypeOK, BatchInv, Publish
<1>2. /\ batch'[r] = Tail(batch[r]) /\ marked'[r] = marked[r] \cup {Head(batch[r])}
      /\ \A s \in Relays \ {r} : batch'[s] = batch[s] /\ marked'[s] = marked[s]
      /\ topic' = Append(topic, Head(batch[r]))
      /\ UNCHANGED <<in_flight, faults, published>>
  BY DEF TypeOK, Publish
<1>3. CASE t = Head(batch[r])
  <2>1. copies(t)' = copies(t) + 1
    BY <1>1, <1>2, <1>3, CopiesAfterAppend
  <2>2. r \in waiting(t) /\ waiting(t)' = waiting(t) \ {r}
    BY <1>1, <1>2, <1>3 DEF waiting
  <2>3. r \notin holders(t) /\ holders(t)' = holders(t) \cup {r}
    BY <1>1, <1>2, <1>3 DEF holders, BatchInv
  <2>4. Cardinality(waiting(t)') = Cardinality(waiting(t)) - 1
    BY <2>2, CountsAreNumbers, FS_RemoveElement
  <2>5. Cardinality(holders(t)') = Cardinality(holders(t)) + 1
    BY <2>3, CountsAreNumbers, OneRelayMore
  <2>6. CASE t \in published
    <3>1. copies(t) + in_flight[t] + Cardinality(waiting(t)) <= Cardinality(Relays) + faults
      BY <2>6 DEF CountInvFor
    <3>2. (copies(t) + 1) + in_flight[t] + (Cardinality(waiting(t)) - 1)
            <= Cardinality(Relays) + faults
      BY <3>1, CountsAreNumbers
    <3> QED
      BY <1>2, <2>1, <2>4, <2>6, <3>2 DEF CountInvFor
  <2>7. CASE t \notin published
    <3>1. copies(t) + in_flight[t] <= Cardinality(holders(t)) + faults
      BY <2>7 DEF CountInvFor
    <3>2. (copies(t) + 1) + in_flight[t] <= (Cardinality(holders(t)) + 1) + faults
      BY <3>1, CountsAreNumbers
    <3> QED
      BY <1>2, <2>1, <2>5, <2>7, <3>2 DEF CountInvFor
  <2> QED
    BY <2>6, <2>7
<1>4. CASE t # Head(batch[r])
  <2>1. copies(t)' = copies(t)
    BY <1>1, <1>2, <1>4, CopiesAfterAppend
  <2>2. waiting(t)' = waiting(t) /\ holders(t)' = holders(t)
    BY <1>1, <1>2, <1>4 DEF waiting, holders
  <2> QED
    BY <1>2, <2>1, <2>2 DEF CountInvFor
<1> QED
  BY <1>3, <1>4

LEMMA CountCommit ==
  ASSUME TypeOK, BatchInv, NEW t \in Transactions, CountInvFor(t),
         NEW r \in Relays, CommitBatch(r)
  PROVE  CountInvFor(t)'
<1>1. /\ published' = published \cup marked[r]
      /\ UNCHANGED <<topic, batch, in_flight, faults>>
      /\ \A s \in Relays \ {r} : marked'[s] = marked[s]
  BY DEF TypeOK, CommitBatch, marks
<1>2. UNCHANGED <<copies(t), waiting(t)>>
  BY <1>1 DEF copies, waiting
<1>3. CASE t \in published
  BY <1>1, <1>2, <1>3 DEF CountInvFor
<1>4. CASE t \notin published /\ t \in marked[r]
  <2>1. copies(t) + in_flight[t] <= Cardinality(holders(t)) + faults
    BY <1>4 DEF CountInvFor
  <2>2. copies(t) + in_flight[t] + Cardinality(waiting(t)) <= Cardinality(Relays) + faults
    BY <2>1, CountsAreNumbers, HoldersDoNotWait
  <2> QED
    BY <1>1, <1>2, <1>4, <2>2 DEF CountInvFor
<1>5. CASE t \notin published /\ t \notin marked[r]
  <2>1. holders(t)' = holders(t)
    BY <1>1, <1>5 DEF holders, CommitBatch, TypeOK
  <2> QED
    BY <1>1, <1>2, <1>5, <2>1 DEF CountInvFor
<1> QED
  BY <1>3, <1>4, <1>5

LEMMA CountFailure ==
  ASSUME TypeOK, TypeOK', NEW t \in Transactions, CountInvFor(t),
         NEW r \in Relays, Fail(r) \/ Crash(r)
  PROVE  CountInvFor(t)'
<1>0. Range(<<>>) = {}
  BY DEF Range
<1>1. /\ faults' = faults + 1
      /\ UNCHANGED <<topic, published>>
      /\ batch'[r] = <<>>
      /\ \A s \in Relays \ {r} : batch'[s] = batch[s] /\ marked'[s] = marked[s]
  BY DEF TypeOK, Fail, Crash, after_failure, marked_after_failure
<1>2. copies(t)' = copies(t)
  BY <1>1 DEF copies
<1>3. Cardinality(waiting(t)') <= Cardinality(waiting(t)) /\ Cardinality(waiting(t)') \in Nat
  <2>1. waiting(t)' \subseteq waiting(t)
    BY <1>0, <1>1 DEF waiting
  <2> QED
    BY <2>1, CountsAreNumbers, SmallerSet, FS_CardinalityType
<1>4. CASE Fail(r)
  <2>1. holders(t)' = holders(t)
    BY <1>4 DEF holders, Fail, marked_after_failure, TypeOK
  <2>2. in_flight'[t] <= in_flight[t] + 1
    <3>1. PICK lost \in {0, 1} : in_flight' = [in_flight EXCEPT ![Head(batch[r])] = @ + lost]
      BY <1>4 DEF Fail
    <3>2. in_flight \in [Transactions -> Nat]
      BY DEF TypeOK
    <3>3. in_flight'[t] = in_flight[t] \/ in_flight'[t] = in_flight[t] + lost
      BY <3>1, <3>2
    <3> QED
      BY <3>2, <3>3
  <2>3. in_flight'[t] \in Nat
    BY DEF TypeOK
  <2>4. CASE t \in published
    <3>1. copies(t) + in_flight[t] + Cardinality(waiting(t)) <= Cardinality(Relays) + faults
      BY <2>4 DEF CountInvFor
    <3>2. copies(t) + in_flight'[t] + Cardinality(waiting(t)') <= Cardinality(Relays) + faults + 1
      BY <1>3, <2>2, <2>3, <3>1, CountsAreNumbers
    <3>3. Cardinality(Relays) + faults' = Cardinality(Relays) + faults + 1
      BY <1>1, CountsAreNumbers
    <3>4. t \in published' /\ copies(t)' = copies(t)
      BY <1>1, <1>2, <2>4
    <3> QED
      BY <3>2, <3>3, <3>4 DEF CountInvFor
  <2>5. CASE t \notin published
    <3>1. copies(t) + in_flight[t] <= Cardinality(holders(t)) + faults
      BY <2>5 DEF CountInvFor
    <3>2. copies(t) + in_flight'[t] <= Cardinality(holders(t)) + faults + 1
      BY <2>2, <2>3, <3>1, CountsAreNumbers
    <3>3. Cardinality(holders(t)) + faults' = Cardinality(holders(t)) + faults + 1
      BY <1>1, CountsAreNumbers
    <3>4. t \notin published' /\ copies(t)' = copies(t)
      BY <1>1, <1>2, <2>5
    <3> QED
      BY <2>1, <3>2, <3>3, <3>4 DEF CountInvFor
  <2> QED
    BY <2>4, <2>5
<1>5. CASE Crash(r)
  <2>1. Cardinality(holders(t)) <= Cardinality(holders(t)') + 1
    <3>1. holders(t)' = holders(t) \ {r}
      BY <1>1, <1>5 DEF holders, Crash, TypeOK
    <3>2. Cardinality(holders(t) \ {r})
            = IF r \in holders(t) THEN Cardinality(holders(t)) - 1 ELSE Cardinality(holders(t))
      BY CountsAreNumbers, FS_RemoveElement
    <3>3. Cardinality(holders(t)) <= Cardinality(holders(t) \ {r}) + 1
      BY <3>2, CountsAreNumbers
    <3> QED
      BY <3>1, <3>3
  <2>2. Cardinality(holders(t)') \in Nat
    <3>1. holders(t)' \subseteq holders(t)
      BY <1>1, <1>5 DEF holders, Crash, TypeOK
    <3> QED
      BY <3>1, CountsAreNumbers, SmallerSet, FS_CardinalityType
  <2>3. UNCHANGED in_flight
    BY <1>5 DEF Crash
  <2>4. CASE t \in published
    <3>1. copies(t) + in_flight[t] + Cardinality(waiting(t)) <= Cardinality(Relays) + faults
      BY <2>4 DEF CountInvFor
    <3>2. copies(t) + in_flight[t] + Cardinality(waiting(t)') <= Cardinality(Relays) + faults + 1
      BY <1>3, <3>1, CountsAreNumbers
    <3>3. Cardinality(Relays) + faults' = Cardinality(Relays) + faults + 1
      BY <1>1, CountsAreNumbers
    <3>4. t \in published' /\ copies(t)' = copies(t) /\ in_flight' = in_flight
      BY <1>1, <1>2, <2>3, <2>4
    <3> QED
      BY <3>2, <3>3, <3>4 DEF CountInvFor
  <2>5. CASE t \notin published
    <3>1. copies(t) + in_flight[t] <= Cardinality(holders(t)) + faults
      BY <2>5 DEF CountInvFor
    <3>2. copies(t) + in_flight[t] <= Cardinality(holders(t)') + faults + 1
      BY <2>1, <2>2, <3>1, CountsAreNumbers
    <3>3. Cardinality(holders(t)') + faults' = Cardinality(holders(t)') + faults + 1
      BY <1>1, <2>2, CountsAreNumbers
    <3>4. t \notin published' /\ copies(t)' = copies(t) /\ in_flight' = in_flight
      BY <1>1, <1>2, <2>3, <2>5
    <3> QED
      BY <3>2, <3>3, <3>4 DEF CountInvFor
  <2> QED
    BY <2>4, <2>5
<1> QED
  BY <1>4, <1>5

LEMMA CountNext ==
  TypeOK /\ TypeOK' /\ QueueInv /\ BatchInv /\ CountInv /\ [Next]_vars => CountInv'
<1> SUFFICES ASSUME TypeOK, TypeOK', QueueInv, BatchInv, CountInv, [Next]_vars,
                    NEW t \in Transactions
             PROVE  CountInvFor(t)'
  BY DEF CountInv, CountInvFor
<1>0. CountInvFor(t)
  BY DEF CountInv, CountInvFor
<1>1. ASSUME NEW u \in Transactions, AcceptLate(u) PROVE CountInvFor(t)'
  <2>1. topic' = Append(topic, u) /\ UNCHANGED <<batch, marked, published, faults>>
    BY <1>1 DEF AcceptLate
  <2>2. /\ waiting(t)' = waiting(t) /\ holders(t)' = holders(t)
        /\ copies(t)' = IF u = t THEN copies(t) + 1 ELSE copies(t)
    BY <2>1, CopiesAfterAppend DEF waiting, holders
  <2>3. in_flight'[t] = IF u = t THEN in_flight[t] - 1 ELSE in_flight[t]
    BY <1>1 DEF TypeOK, AcceptLate
  <2>4. copies(t)' + in_flight'[t] = copies(t) + in_flight[t]
    BY <2>2, <2>3, CountsAreNumbers
  <2> QED
    BY <1>0, <2>1, <2>2, <2>4 DEF CountInvFor
<1>2. ASSUME NEW r \in Relays, Select(r) PROVE CountInvFor(t)'
  <2>1. PICK limit \in Limits : \E page \in pages(limit) :
          batch' = [batch EXCEPT ![r] = page]
    BY <1>2 DEF Select
  <2>2. PICK page \in pages(limit) : batch' = [batch EXCEPT ![r] = page]
    BY <2>1
  <2>3. Range(page) \cap published = {}
    BY PageIsOldest DEF pending
  <2>4. UNCHANGED <<topic, marked, published, in_flight, faults>>
    BY <1>2 DEF Select
  <2>5. copies(t)' = copies(t) /\ holders(t)' = holders(t)
    BY <2>4 DEF copies, holders
  <2>6. CASE t \in published
    <3>1. waiting(t)' \subseteq waiting(t)
      BY <2>2, <2>3, <2>6 DEF TypeOK, waiting
    <3>2. Cardinality(waiting(t)') <= Cardinality(waiting(t)) /\ Cardinality(waiting(t)') \in Nat
      BY <3>1, CountsAreNumbers, SmallerSet, FS_CardinalityType
    <3>3. copies(t) + in_flight[t] + Cardinality(waiting(t)) <= Cardinality(Relays) + faults
      BY <1>0, <2>6 DEF CountInvFor
    <3>4. copies(t) + in_flight[t] + Cardinality(waiting(t)') <= Cardinality(Relays) + faults
      BY <3>2, <3>3, CountsAreNumbers
    <3> QED
      BY <2>4, <2>5, <2>6, <3>4 DEF CountInvFor
  <2>7. CASE t \notin published
    BY <1>0, <2>4, <2>5, <2>7 DEF CountInvFor
  <2> QED
    BY <2>6, <2>7
<1>3. ASSUME NEW r \in Relays, Publish(r) PROVE CountInvFor(t)'
  BY <1>0, <1>3, CountPublish
<1>4. ASSUME NEW r \in Relays, CommitBatch(r) PROVE CountInvFor(t)'
  BY <1>0, <1>4, CountCommit
<1>5. ASSUME NEW r \in Relays, Fail(r) \/ Crash(r) PROVE CountInvFor(t)'
  BY <1>0, <1>5, CountFailure
<1>6. CASE UNCHANGED <<topic, batch, marked, published, in_flight, faults>>
  BY <1>0, <1>6 DEF CountInvFor, copies, waiting, holders
<1> QED
  BY <1>1, <1>2, <1>3, <1>4, <1>5, <1>6
     DEF Next, Serve, Begin, CommitTransaction, vars

\* An event is sent at most once by each relay, and once more for each refusal,
\* timeout or crash, for any number of them.
THEOREM DuplicatesBounded == Spec => []DuplicatesAreBounded
<1>1. Init => TypeOK /\ BatchInv /\ CountInv
  <2> SUFFICES ASSUME Init PROVE TypeOK /\ BatchInv /\ CountInv
    OBVIOUS
  <2>1. TypeOK
    BY MaxFaultsAssumption DEF Init, TypeOK
  <2>2. BatchInv
    BY DEF Init, BatchInv, IsInjective, Range
  <2>3. ASSUME NEW t \in Transactions
        PROVE  /\ t \notin published
               /\ copies(t) + in_flight[t] <= Cardinality(holders(t)) + faults
    <3>1. {i \in DOMAIN topic : topic[i] = t} = {}
      BY DEF Init
    <3>2. copies(t) = 0
      BY <3>1, FS_EmptySet DEF copies
    <3> QED
      BY <2>1, <3>2, CountsAreNumbers DEF Init
  <2> QED
    BY <2>1, <2>2, <2>3 DEF CountInv
<1>2. TypeOK /\ BatchInv /\ CountInv => DuplicatesAreBounded
  <2> SUFFICES ASSUME TypeOK, BatchInv, CountInv, NEW t \in Transactions
               PROVE  copies(t) <= Cardinality(Relays) + faults
    BY DEF DuplicatesAreBounded
  <2> QED
    BY CountsAreNumbers, HoldersDoNotWait DEF CountInv
<1>3. TypeOK /\ TypeOK' /\ QueueInv /\ BatchInv /\ CountInv /\ [Next]_vars
        => BatchInv' /\ CountInv'
  BY BatchNext, CountNext
<1> QED
  BY <1>1, <1>2, <1>3, TypeCorrect, QueueInvariant, PTL DEF Spec
=============================================================================
