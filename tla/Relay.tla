-------------------------------- MODULE Relay --------------------------------
(***************************************************************************)
(* The outbox relay, POST /outbox/publish of src/app/main.py, between the  *)
(* transactions that queue events and the broker that takes them.  Each    *)
(* relay is one instance serving one call after another; nothing keeps     *)
(* calls on different instances apart.                                     *)
(*                                                                         *)
(* A transaction doubles as the event it queues.  Its created_at is its    *)
(* start, since now() is the start of the transaction, while its row       *)
(* becomes visible when it commits.                                        *)
(***************************************************************************)
EXTENDS Integers, Sequences, FiniteSets, Functions

CONSTANTS
  Transactions,  \* transactions, each with its one outbox row
  Relays,        \* instances that serve POST /outbox/publish
  Limits,        \* values callers give the query parameter limit
  MaxFaults      \* bound on refusals, timeouts and crashes

ASSUME LimitsAssumption == Limits \subseteq Nat \ {0}

ASSUME MaxFaultsAssumption == MaxFaults \in Nat

ASSUME RelaysAssumption == IsFiniteSet(Relays)

VARIABLES
  \* The database.
  now,           \* PostgreSQL's clock
  created_at,    \* start of each transaction, 0 before it begins
  log,           \* outbox rows in commit order, which is the chain's order
  published,     \* rows whose published_at is not null
  \* The relays.
  pc,            \* what the relay does next
  batch,         \* rows of its batch still to be handed over
  marked,        \* rows its session has marked, not yet committed
  \* The broker.
  topic,         \* accepted messages, in order
  in_flight,     \* publishes given up on that may still be accepted
  faults,        \* refusals, timeouts and crashes so far
  \* Observer.
  readable       \* rows that were there when the relay's call read its batch

vars == <<now, created_at, log, published, pc, batch, marked, topic, in_flight,
          faults, readable>>

-----------------------------------------------------------------------------
\* Helpers

committed == Range(log)

pending == committed \ published

\* FAULT: the order of the listings.
newest_first(t, u) == created_at[t] >= created_at[u]

\* ORDER BY created_at ASC.
oldest_first(t, u) == created_at[t] <= created_at[u]

\* SELECT ... WHERE published_at IS NULL ORDER BY created_at LIMIT n: equal
\* timestamps come in any order.
pages(limit) ==
  LET size == IF Cardinality(pending) < limit THEN Cardinality(pending) ELSE limit
  IN {s \in [1 .. size -> pending] :
        /\ IsInjective(s)
        /\ \A i, j \in DOMAIN s : i < j => oldest_first(s[i], s[j])
        /\ \A e \in pending \ Range(s), x \in Range(s) : oldest_first(x, e)}

\* FAULT: the relay goes on with the next row after a failure.
keep_going(r) == Tail(batch[r])

\* break: the failed row and the rest stay pending.
after_failure(r) == <<>>

\* FAULT: published_at is set before the hand-over.
mark_failed(r) == marked[r] \cup {Head(batch[r])}

marked_after_failure(r) == marked[r]

Init ==
  /\ now = 1
  /\ created_at = [t \in Transactions |-> 0]
  /\ log = <<>>
  /\ published = {}
  /\ pc = [r \in Relays |-> "idle"]
  /\ batch = [r \in Relays |-> <<>>]
  /\ marked = [r \in Relays |-> {}]
  /\ topic = <<>>
  /\ in_flight = [t \in Transactions |-> 0]
  /\ faults = 0
  /\ readable = [r \in Relays |-> {}]

-----------------------------------------------------------------------------
\* The transactions, as module WritePath runs them

\* now() is read once; two transactions may read the same microsecond.
Begin(t) ==
  /\ created_at[t] = 0
  /\ now' \in {now, now + 1}
  /\ created_at' = [created_at EXCEPT ![t] = now']
  /\ UNCHANGED <<log, published, pc, batch, marked, topic, in_flight, faults,
                 readable>>

\* The row becomes visible.  A transaction that rolls back never gets here.
CommitTransaction(t) ==
  /\ created_at[t] # 0
  /\ t \notin committed
  /\ log' = Append(log, t)
  /\ UNCHANGED <<now, created_at, published, pc, batch, marked, topic, in_flight,
                 faults, readable>>

-----------------------------------------------------------------------------
\* outbox_publish

Select(r) ==
  /\ pc[r] = "idle"
  /\ \E limit \in Limits : \E page \in pages(limit) : batch' = [batch EXCEPT ![r] = page]
  /\ pc' = [pc EXCEPT ![r] = "publish"]
  /\ readable' = [readable EXCEPT ![r] = committed]
  /\ UNCHANGED <<now, created_at, log, published, marked, topic, in_flight, faults>>

\* transport.publish returns, and the row is marked in the session.
Publish(r) ==
  /\ pc[r] = "publish" /\ batch[r] # <<>>
  /\ topic' = Append(topic, Head(batch[r]))
  /\ marked' = [marked EXCEPT ![r] = @ \cup {Head(batch[r])}]
  /\ batch' = [batch EXCEPT ![r] = Tail(@)]
  /\ UNCHANGED <<now, created_at, log, published, pc, in_flight, faults, readable>>

\* transport.publish raises: the broker refuses the message, or future.result
\* times out on one the broker may still accept.
Fail(r) ==
  /\ pc[r] = "publish" /\ batch[r] # <<>>
  /\ faults < MaxFaults
  /\ faults' = faults + 1
  /\ \E lost \in {0, 1} : in_flight' = [in_flight EXCEPT ![Head(batch[r])] = @ + lost]
  /\ batch' = [batch EXCEPT ![r] = after_failure(r)]
  /\ marked' = [marked EXCEPT ![r] = marked_after_failure(r)]
  /\ UNCHANGED <<now, created_at, log, published, pc, topic, readable>>

\* FAULT: a batch that failed halfway is rolled back.
whole_batches(r) == IF faults = 0 THEN marked[r] ELSE {}

marks(r) == marked[r]

\* db.commit(): published_at of the whole batch becomes visible.  Relays update
\* rows by primary key in one order, so they cannot block each other for good.
CommitBatch(r) ==
  /\ pc[r] = "publish" /\ batch[r] = <<>>
  /\ published' = published \cup marks(r)
  /\ marked' = [marked EXCEPT ![r] = {}]
  /\ pc' = [pc EXCEPT ![r] = "idle"]
  /\ readable' = [readable EXCEPT ![r] = {}]
  /\ UNCHANGED <<now, created_at, log, batch, topic, in_flight, faults>>

\* The instance or its connection dies before the commit: the marks are gone,
\* the messages are not.
Crash(r) ==
  /\ pc[r] = "publish"
  /\ faults < MaxFaults
  /\ faults' = faults + 1
  /\ pc' = [pc EXCEPT ![r] = "idle"]
  /\ readable' = [readable EXCEPT ![r] = {}]
  /\ batch' = [batch EXCEPT ![r] = <<>>]
  /\ marked' = [marked EXCEPT ![r] = {}]
  /\ UNCHANGED <<now, created_at, log, published, topic, in_flight>>

\* The broker accepts a message whose publisher has given up.
AcceptLate(t) ==
  /\ in_flight[t] > 0
  /\ in_flight' = [in_flight EXCEPT ![t] = @ - 1]
  /\ topic' = Append(topic, t)
  /\ UNCHANGED <<now, created_at, log, published, pc, batch, marked, faults, readable>>

Serve(r) == Select(r) \/ Publish(r) \/ CommitBatch(r)

Next ==
  \/ \E t \in Transactions : Begin(t) \/ CommitTransaction(t) \/ AcceptLate(t)
  \/ \E r \in Relays : Serve(r) \/ Fail(r) \/ Crash(r)

Spec == Init /\ [][Next]_vars

\* A scheduler keeps calling the endpoint and a call that runs goes on.  Nothing
\* obliges a transaction to commit or a lost message to arrive.
FairSpec == Spec /\ \A r \in Relays : WF_vars(Serve(r))

-----------------------------------------------------------------------------
\* Properties

\* Every column and every relay's state has its type.
TypeOK ==
  /\ now \in Nat \ {0}
  /\ created_at \in [Transactions -> Nat]
  /\ log \in Seq(Transactions)
  /\ published \subseteq Transactions
  /\ pc \in [Relays -> {"idle", "publish"}]
  /\ batch \in [Relays -> Seq(Transactions)]
  /\ marked \in [Relays -> SUBSET Transactions]
  /\ topic \in Seq(Transactions)
  /\ in_flight \in [Transactions -> Nat]
  /\ faults \in 0 .. MaxFaults
  /\ readable \in [Relays -> SUBSET Transactions]

\* a started and committed before b.
Precedes(a, b) ==
  /\ created_at[a] < created_at[b]
  /\ \E i, j \in DOMAIN log : i < j /\ log[i] = a /\ log[j] = b

\* An event is never in the topic ahead of one that both started and committed
\* before it, whatever failed, timed out or was handed over twice (main.py:467:
\* "so ordering holds").
OlderFirst ==
  \A i \in DOMAIN topic : \A a \in Transactions :
    Precedes(a, topic[i]) => \E j \in 1 .. i - 1 : topic[j] = a

\* An event that commits late may be overtaken by younger ones (main.py:457), but
\* only by those whose relay had read the outbox before: before a relay hands over
\* an event, every older one that was there to read has been handed over, by it or
\* by another relay, whatever failed or died in between.
OvertakesOnlyUnread ==
  \A r \in Relays : batch[r] # <<>> =>
    \A t \in readable[r] :
      created_at[t] < created_at[Head(batch[r])] => t \in Range(topic)

copies(t) == Cardinality({i \in DOMAIN topic : topic[i] = t})

\* "at-least-once, not exactly-once" has a measure: an event is sent at most
\* once by each relay, and once more for each crash or timeout.
DuplicatesAreBounded ==
  \A t \in Transactions : copies(t) <= Cardinality(Relays) + faults

\* The relay implements the at-least-once queue: only committed events are sent,
\* and a row is marked only after the transport took it (publisher.py:3-6).
Q == INSTANCE AtLeastOnce WITH Events <- Transactions, queued <- committed,
                               retired <- published

ImplementsQueue == Q!Spec

\* Every committed event reaches the topic in the end: no failure strands it.
EveryEventIsSent ==
  \A t \in Transactions : t \in committed ~> t \in Range(topic)
=============================================================================
