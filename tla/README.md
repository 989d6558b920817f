# Formal model of the ledger API

TLA+ specifications of this repository's ledger service (FastAPI, SQLAlchemy,
PostgreSQL), the TLC instances that model-check them and the TLAPS proofs about
them. The reference is the code under `src/`; every definition that models code
is tied to its lines in `PROJECT.json` (`map`).

## 1. The system

| part | source | state | operations | hard behaviour |
|---|---|---|---|---|
| write path | `app/service.py`, `app/chain.py`, `app/outbox.py`, `app/models.py`, `app/database.py` | `accounts`, `transactions`, `ledger_entries`, `outbox_events`; one session per request | `create_transaction`: idempotency lookup, clearing account, row locks, balance check, insert, chain link, outbox row, commit, refresh | concurrent calls, lock order, duplicates of a key, crash around the commit |
| balance derivation | `app/service.py` | none (sum of entries) | `compute_balance` | read before, spent later |
| outbox relay | `app/main.py` 417-480, `app/publisher.py` | `published_at` | `outbox_pending`, `outbox_publish` | several relays, crash before the commit, broker timeouts, order |
| consumer | `scripts/consumer.py` | seen ids and totals, in memory | `handle` | concurrent callbacks, redelivery, restart |
| chain verification | `app/chain.py` 51-99, `migrations/versions/004_chain_sequence.py` | none | `verify_hash_chain`, re-anchoring | what an edit of a row can and cannot hide |
| audit | `app/audit.py` | none | `verify_ledger` | eleven statements, each with its own snapshot |
| accounts | `app/main.py` 208-247 | `accounts` | `post_account`, `get_account` | check then insert; the reserved name |
| listings and statement | `app/main.py` 250-414 | cursors held by clients | `list_transactions`, `list_entries`, `get_statement` | equal timestamps, inserts between pages |
| authentication | `app/auth.py`, `app/main.py` 188-197 | token claims | `create_access_token`, `get_current_user`, `require_role` | role frozen in a token |
| request execution | `app/database.py`, FastAPI | thread pool, connection pool | `get_db` | bounded pools used together |
| migrations and startup | `migrations/`, `start.sh` | schema version, reserved account names | `upgrade` 001-005 | concurrent instances, mixed versions |
| status, tracing, portal, load test, infrastructure | rest | none of the ledger's | probes, log format, static page | none that a model checker helps with |

The parts meet in the database. A `POST /transactions` commits a transaction
row, two entries and an outbox row at once; the relay reads outbox rows and
hands them to the broker, the broker to the consumer; the audit and the chain
verifier read what the write path committed while it keeps committing.

What makes each part correct:

* write path: no customer overdrawn, one key applied once, entries balanced,
  chain linear in commit order, one event per transaction, no deadlock, every
  call answered, answers that agree with the database;
* relay and consumer: nothing committed is lost, events leave in the order the
  ledger took effect, a redelivered event counts once;
* chain verification: passes on every chain the write path builds, fails when a
  linked row is edited;
* audit: passes on every ledger the write path builds, even while it runs;
* listings and statements: a full walk shows every row that was there from start
  to end, once; statements of adjacent periods add up, and to the balance;
* accounts and authentication: one creator per name, who is or lately was an admin,
  and answers that agree with the table;
* request execution: only as many calls as there are threads and connections
  together can block each other;
* startup: system accounts come from the migrations, a schema is never half
  upgraded, and an instance that starts serves.

`PROJECT.json` lists the concrete hazards at their lines.

## 2. Modules

| module | models | kind |
|---|---|---|
| `Balance` | `compute_balance` as a recursive function over entries | operators |
| `Ledger` | the abstract promise: a posting is one atomic step under a fresh key, covered by the payer | abstract specification |
| `WritePath` | `POST /transactions`, one action per SQL statement | detailed specification |
| `MCWritePath` | instances of `WritePath` for TLC | model checking |
| `BalanceProofs` | least-number principle, partial sums, effect of appending an entry | proofs |
| `WritePathProofs` | the inductive invariants of `WritePath`, its theorems and the refinement of `Ledger` | proofs |
| `AtLeastOnce` | what the outbox promises: every event at least once, nothing else, retired only after the hand-over | abstract specification |
| `Relay` | `POST /outbox/publish` on several instances, the transactions that queue rows, the broker | detailed specification |
| `Consumer` | `scripts/consumer.py` over an at-least-once subscription | detailed specification |
| `Delivery` | `Relay` and `Consumer` joined at the topic | composition |
| `Audit` | `GET /audit/verify`, one action per SQL statement, beside commits | detailed specification |
| `HashChain` | `GET /audit/chain`, links, migration 004 and edits of rows | detailed specification |
| `Reads` | listings page by page, statement and balance, over commits of `Ledger` | detailed specification |
| `Requests` | `POST /accounts` and reading endpoints behind bearer tokens, on bounded threads and connections | detailed specification |
| `Startup` | `start.sh` and `alembic upgrade head` on several instances of two releases | detailed specification |
| `MCRelay`, `MCConsumer`, `MCDelivery`, `MCAudit`, `MCHashChain`, `MCReads`, `MCRequests`, `MCStartup` | their instances for TLC | model checking |
| `RelayProofs` | refinement, publication order and duplicates of `Relay` | proofs |
| `ConsumerProofs` | what `Consumer` handles, acknowledges and counts | proofs |
| `DeliveryProofs` | that each part of `Delivery` behaves as it does alone, and what follows end to end | proofs |
| `AuditProofs` | what an audit beside commits may say of sound and damaged rows | proofs |
| `HashChainProofs` | that chains verify, that edits are detected and that nothing heals them | proofs |
| `ServiceProofs` | the inductive invariants of `Requests`, `Startup` and `Reads` and their theorems | proofs |

`Startup` and `Reads` name their specifications `StartupSpec` and `ReadsSpec`, and so
on, so that one proof module can extend them beside `Requests`.

### WritePath

Each element of `Attempts` is one HTTP call and therefore one database
transaction; a client's retry is another attempt with the same body. The
attempt's name doubles as the uuid of the row it may insert. Account ids are
numbers because uuids are ordered and rows are locked in that order.

`pc[r]` names the next SQL statement; Python code between two statements
belongs to the action of the statement before it.

| action | code |
|---|---|
| `LookupKey` | SELECT by idempotency key; replay (201), conflict (409), shape errors (422) - `service.py:82-109, 126-130, 149-156` |
| `FindClearing`, `LockClearing`, `RecheckClearing`, `InsertClearing` | `get_or_create_clearing_account` - `service.py:29-42` |
| `LockRow` | one `SELECT ... FOR UPDATE` of `_lock_accounts`, 404 when there is no row - `service.py:69-79` |
| `CheckBalance` | `compute_balance` against the amount, 422 - `service.py:132-134, 160-162` |
| `InsertTransaction` | the flush of the transactions row and its unique key - `service.py:113-121` and its two copies |
| `LockChain`, `ReadTip` | `link_transaction` - `chain.py:32-48` |
| `Commit` | flush of chain columns, entries and outbox row, COMMIT - `service.py:184-186` |
| `Refresh` | re-read and answer - `service.py:187-195` |
| `Crash` | process or connection lost; rolled back unless committed, no answer |

Isolation is READ COMMITTED (the engine sets no level): a statement sees what
is committed when it runs, plus the attempt's own writes. `held[r]` is the set
of locks the attempt keeps until its transaction ends - advisory locks, row
locks, and the uncommitted entries of the two unique indexes, which make a
second insert wait. A rollback (`HTTPException`, `IntegrityError`) releases
them: `get_db` closes the session.

Abstractions: `request_hash` is the record of the hashed fields; `chain_hash`
is a digest of the row and of `prev_hash`, so a link is modelled by the id of
the row it points to; the amount has a numeric value (stored) and a text
(hashed). `created_at` matters to the relay only and is modelled there. The insert of the two
entries happens by autoflush before the tip is read and is invisible until the
commit, so it is part of `Commit`.

Faulty variants of some helpers, marked `FAULT`, stand beside them. They are
not used by the specification; each shows that a property fails if the code had
that bug.

### Ledger and the refinement

`Ledger` knows accounts, balances and a journal. `WritePath!ImplementsLedger`
maps `balance` to the sums over `ledger_entries` and `journal[i]` to row `i` of
`transactions` with entries `2i-1` and `2i`: every commit must be exactly one
`Post`, every other step a stutter.

### Relay and the at-least-once queue

A transaction stands for its one outbox row, and `log` for the rows in commit
order. `now()` is the start of a transaction, so `Begin` fixes `created_at`
while the row appears at `CommitTransaction`: the relay's `ORDER BY created_at`
and the ledger's own order can differ.

| action | code |
|---|---|
| `Begin`, `CommitTransaction` | the write path, reduced to its start and its commit - `models.py:88`, `service.py:184-186` |
| `Select` | one call's SELECT of pending rows, ordered and limited; ties in any order - `main.py:444-461` |
| `Publish` | `transport.publish` returns and the row is marked in the session - `main.py:463-476` |
| `Fail` | it raises and the loop breaks; a timed-out publish may still be accepted - `main.py:466-474`, `publisher.py:43-50` |
| `CommitBatch` | `db.commit()` of the marks - `main.py:478` |
| `Crash` | instance or connection lost before the commit |
| `AcceptLate` | the broker accepts a message whose publisher gave up |

`published_at` is kept as null or not null, because the code never compares its
value; a second relay that overwrites it changes only the value. Rows of a batch
are updated by primary key in one order, so committing relays do not deadlock.
`ImplementsQueue` maps `queued` to the committed rows and `retired` to the
published ones. The log transport of development never fails and is the case
without faults. `readable` is an observer: the rows that were committed when the
relay's call read its batch, forgotten when the call ends. A message that the
client library of Pub/Sub sends again by itself is not modelled: to the code one
call of `publish` is one message.

### Consumer and Delivery

A message is a position in the topic; several may carry one event. `Check`,
`Count`, `Mark` and `Ack` are the four places where `handle`
(`consumer.py:53-80`) touches what threads share; between any two of them other
callbacks may run. `totals[kind] += 1` is one step: CPython 3.12, the version of
the Dockerfile, switches threads only at jumps and calls. The subscription is external:
it delivers a message that is neither leased nor acknowledged, may let a lease
lapse while a callback is busy, and may lose an acknowledgement
(`terraform/main.tf:214-224` sets the deadline and the retries and no
dead-letter policy). `Restart` loses `seen` and `totals`, as the process does.
`handled` is an observer: what was ever processed. Payloads are well-formed JSON
objects or no JSON at all. `main.tf:207-209` shares the topic with other
publishers, hence events whose type is not counted.

`Delivery` shares the variable `topic`: what `Relay` appends, `Consumer`
receives. Neither module knows the other. `Send` keeps within `MaxMessages`, which
bounds the messages of `Consumer`.

### Audit

| action | code |
|---|---|
| `SumAll`, `SumEach` | global and per-transaction sums - `audit.py:19-56` |
| `ListAccounts`, `VerifyAccount` | the loop over accounts - `audit.py:58-81` |
| `CountOrphanedEntries`, `CountOrphanedAccounts` | `audit.py:83-104` |
| `CountKeys`, `CountUniqueKeys` | `audit.py:106-123` |
| `CountEntries`, `CountTransactions` | `audit.py:125-150` |

The engine uses PostgreSQL's default isolation, READ COMMITTED, so each
statement has a snapshot of its own and `Post` and `CreateAccount` may fall
between any two. `Post` is one step because that is what `WritePathIsLedger`
proves of a transaction; whether its payer is covered does not matter to the audit
and is left out. `Damage` edits, doubles, moves or removes rows of
`ledger_entries` before the audit begins, in ways foreign keys allow. The
clearing account is any of the accounts.

### HashChain

`rows` is the transactions table with the columns the chain uses; `content`
stands for the key, type, amount and request hash, `entries` for the ledger
entries of the transaction, which agree with `content` until edited. A digest is
the tuple that is hashed. `chain`, `expected_prev`, `recomputed` and `broken_links`
are the loop of `verify_hash_chain` (`chain.py:51-99`), `linked_row` is
`link_transaction`, `anchored` the loop of migration 004. `Upgrade` is one step:
`ALTER TABLE` locks the table until the migration's transaction commits, and a
migration that dies before leaves the table as it was; what lost upgrades mean for the
instances is in `Startup`.
`InsertBefore004` is the release before it, known only from the docstring of the
migration: it links to any row. It may go on running beside the new release for a
while; what it writes after the migration has no `chain_seq` and is never
verified. `Edit` changes one row, its place, its hash together with its content,
its entries, or takes it out.

### Reads

| action or operator | code |
|---|---|
| `Begin`, `Commit` | a transaction starts, which fixes `created_at`, and commits as one `Post` of `Ledger` |
| `FirstPage`, `NextPage` | `list_transactions` and `list_entries` without and with a cursor, each page with a limit of its own - `main.py:284-360` |
| `get_balance` | `main.py:250-265` through `compute_balance` |
| `get_statement`, `closing_balance` | filter by date, order, running balance - `main.py:363-414`, `schemas.py:80-83` |

A request is one step: its statements read rows that never change once they are
committed, so reading the cursor's row and the page apart makes no difference.
`Turn` reads `limit + 1` rows and keeps the last of the page as cursor. The uuids
that order entries are random; `entry_id` is the rank of a row's uuid, chosen when
it commits. `walk[c]` also remembers what was there when the walk began (`there`)
and where its pages ended (`ends`), for the property only. A day has `DayLength`
instants, the last of which stands for 23:59:59.999999. `within` compares strictly
at the end, as `main.py:390` does. Transfers that name External Clearing and
deposits to it, which the code accepts, are left out. The assumptions on the constants
say that amounts, limits and days are numbers, that a query is for one of the two
listings, and that a parameter left out is no date.

### Requests

| action | code |
|---|---|
| `Login` | `POST /auth/token` - `auth.py:74-92`, `main.py:188-197` |
| `Tick`, `Redeploy` | time; a release with another `USERS_DB` - `auth.py:58-71` |
| `Arrive`, `Authorize` | `get_current_user`, `require_role`: 401, 403 or in - `auth.py:95-124` |
| `Dispatch`, `LookupName`, `Insert`, `Refresh` | `post_account` statement by statement - `main.py:208-230` |
| `Read` | an endpoint that reads, `get_account` for one - `main.py:233-247` |
| `PoolTimeout` | the pool gives up on a session that waits for a connection |
| `Serialize`, `Close` | validation of the response model; `get_db` closes the session - `database.py:18-23` |

What runs where is taken from the frameworks and external: FastAPI runs each
dependency, the endpoint and the validation of the response on a worker thread of
a pool of 40; SQLAlchemy's engine has 5 + 10 connections and gives up after 30
seconds; a session takes a connection at its first statement and gives it back at
a commit; closing the session does not need a thread of that pool. An instance
that stops answers its requests first. Passwords match and signatures are
unforgeable; an auditor may do what a customer may on the endpoints modelled.
`last_admin` and `lapse` are observers. This module lets names race; `Startup`
looks at the names that migrations reserve.

### Startup

| action | code |
|---|---|
| `ReadVersion` | alembic reads `alembic_version`; an unknown one is an error - `start.sh:2` |
| `FirstMigration` | the first pending migration, which waits for one that runs it already and then fails - `env.py:27-33` |
| `Migrate` | the next migration; 001 and 005 insert accounts - `001_initial.py:54`, `005_payment_accounts.py:27-36` |
| `CommitUpgrade`, `LoseUpgrade` | all migrations of an upgrade are one transaction |
| `Serve` | the server starts whatever became of the upgrade, since the script has no `set -e` - `start.sh:3`; importing `app.auth` fails without a secret in production |
| `CreateAccount` | an admin takes a name through an instance that serves - `main.py:208-230` |
| `Stop`, `Kill` | scaling, a new revision, a crash |

Names are written with underscores. `owner[n]` says who inserted the row with name
`n`; a row of an open transaction is not visible but already in the unique index,
so an account of that name waits (`uncommitted`). Tables and columns matter through
what they make wait and fail, and are not listed.

## 3. Runs

| run | instance | checks | shows |
|---|---|---|---|
| `write_path` | 3 calls, 8 bodies over 3 customers with 3 keys, database seeded (clearing uuid before or between the customers) or not, 1 crash | `TypeOK`, `NoOverdraft`, `CheckedBalanceHolds`, `KeyAppliedOnce`, `ChainLinear`, `TipIsFinal`, `LocksInOrder`, `ColdStartNeverCollides`, `AnswersAreTrue`, `OutboxMirrorsLedger`, `ImplementsLedger`, `EveryCallEnds`, deadlock | racing spends, opposite transfers, keys reused with the same and with other parameters, cold start, a crash at any statement |
| `write_path_duplicates` | 2 calls with the same bodies | `DuplicateGetsOriginal` (violated) | finding 1 |
| `relay` | 2 transactions, 2 relays, limits 1 and 2, 2 faults, no symmetry | `OlderFirst`, `OvertakesOnlyUnread`, `DuplicatesAreBounded`, `ImplementsQueue`, `EveryEventIsSent`, deadlock | two relays over one outbox, failures or crashes between the hand-over and the commit: what is sent, in which order, also when starts and commits disagree, how often, and that it is |
| `consumer` | 3 messages of 3 kinds of event, 2 threads, 2 lapses, 1 restart, no symmetry | `AckedWasCounted`, `TotalsWithinBounds`, `EveryMessageIsAcked`, deadlock | duplicates on two threads, leases that run out, restarts; a malformed message never blocks the good ones |
| `consumer_race` | 2 messages of one event, 2 threads | `RedeliveryIsNoOp` (violated) | finding 2 |
| `audit` | 2 accounts, 3 postings of 2 amounts, 2 edits, symmetry | `TypeOK`, `AlarmsOnlyByCommits`, `UnbalancedIsReported`, `QuietAuditIsRight`, deadlock | what an audit reports of sound and damaged ledgers while commits go on |
| `audit_alarm` | 2 postings, no edit | `SoundLedgerPasses` (violated) | finding 3 |
| `hash_chain` | 3 rows, 2 contents, 2 instants, 1 edit, symmetry over contents | `TypeOK`, `ChainVerifies`, `EditIsDetected`, `NothingHeals` | forks and clocks before the migration, links and an edit after it |
| `delivery` | 2 transactions, 1 relay, 1 fault, 1 thread, 1 restart, no symmetry | `NothingInventedNothingLost`, `EveryCommitIsHandled` | a committed transaction is handled downstream, through crashes on both sides |
| `reads` | 3 transactions of one amount between 2 customers and the clearing account, 4 instants in 2 days, 1 client, 5 queries, limits 1 and 2, symmetry over transactions | `ReadsTypeOK`, `WalkMissesOnlyTies`, `StatementsAddUp`, `OverdrawnOnlyWhenOvertaken`, deadlock | what a walk lists while rows commit behind and ahead of its cursor; what statements add up to |
| `requests` | 4 requests, 2 threads, 2 connections, 1 user, 1 name, 1 token, 1 release, symmetry over requests | `StallNeedsManyCalls`, `OnlyAdminsCreate`, `OneCreatorPerName`, deadlock | when requests block each other, who creates accounts, what each is told |
| `startup` | 1 instance of the release that ends with migration 003, 2 of the current one, one of which lacks its secret, 2 faults, no symmetry | `SeedsAreGenuine`, `BehindOnlyForCause`, `EveryStartServes`, deadlock | mixed releases that upgrade, fail, are killed and serve on one database |

Bounds: an overdraft needs a deposit and two spends, a lock cycle two calls, a
fork two, a wrong answer two with one key, a retry one crash and a call after it;
the third call interferes with each of these. `MCInit` orders the bodies of the calls:
calls are interchangeable, so of the assignments that differ by a permutation one
is enough. Two clearing uuids put the clearing row before and between the customers
in lock order. For the relay, two events are enough for one to
overtake the other, and `OlderComesFirst` and `OvertakenOnlyWhenLate` prove the order for
any number; limit 1
splits what limit 2 takes in one batch; two faults meet one event twice.
For the consumer, two threads on two copies of one event are the smallest race,
and the third message lets a foreign or a malformed event stand between them.
`MaxMessages` of `delivery` is 4: with one relay and one fault each of the two
events is sent at most twice (`DuplicatesBounded` proves it), so the bound never bites.
For the audit, three postings let two be damaged and a third commit while it runs,
and two edits can cancel each other in every total. For the chain, three rows give
an edited row, its successor and a row appended later; two instants and ordered ids
give ties and clocks that run backwards. For the listings, three rows give a page
of two with a tie at its end and a row that commits between two pages; two days of
two instants give a statement boundary and a last instant on each side of it. For
requests, threads and connections together are the number of requests the stall
needs, so four reach it with two of each and three do not; two of them race for a
name at the same time; a lifetime of one instant, three instants and one release let
a token outlive its role and expire. For startup, an older release and two instances
of the newer one give a race within a release and one between releases; the bound on
faults lets an upgrade be lost and the one after it be killed.

Fairness: `FairSpec` gives each attempt weak fairness on its own statements. A
started request keeps executing on its thread, and PostgreSQL grants a lock
once it is free; since a call asks for each lock once, weak fairness suffices.
Clients are never obliged to call and processes never obliged to crash.
`Relay!FairSpec` gives each relay weak fairness on `Serve`: a scheduler keeps
calling the endpoint (`docs/ENGINEERING_REPORT.md:136`) and a call goes on; no
transaction has to commit and no lost message has to arrive. `Consumer!FairSpec`
gives each callback weak fairness, and each message strong fairness of delivery,
since a subscription redelivers until it is acknowledged and a message is
undeliverable only while it is leased. Lapses and restarts are bounded, which is
what "in the end they stop" means for a liveness property. `StartupFairSpec` gives
each started script weak fairness, and strong fairness to the migration that waits
for another instance's: PostgreSQL queues waiters, so one is not passed over for ever
although others run into and out of the lock in front of it. Nobody is obliged to
start, stop or create anything.

### Findings

1. `write_path_duplicates`: two overlapping calls with one key and the same
parameters both miss the lookup; the later one fails with 500 at the unique
index, or 422 if the first spent the money, instead of being given the original
(`docs/REQUIREMENTS.md` REQ-F-006, `tests/test_resilience.py:69-71`). Money is
still moved only once, and a later retry succeeds.

2. `consumer_race`: two callbacks with copies of one event both find it new
(`consumer.py:57`) before either marks it (line 74), and both count it, against
`consumer.py:27`. `TotalsWithinBounds` says what is left: at most one count per
thread.

3. `audit_alarm`: a commit between `audit.py:125` and `128` makes the audit of a
sound ledger answer `fail`. `AlarmsOnlyByCommits` says what is left: the other
checks never fail wrongly, and these two only by what committed in between.

Some properties are weaker than a reader of the docs may expect, on purpose.
`OlderFirst` does not promise the order of the hash chain: the relay goes by
`created_at`, the start of the transaction, so an event can leave ahead of one it
depends on that started later and committed first. `OvertakesOnlyUnread` says how far
the "ordering" that `docs/DESIGN.md:119` keeps "intact" goes for an event that commits
late: it can be overtaken only by relays that read the outbox before it was there, and
every call that reads later hands it over before any younger event. `EveryMessageIsAcked` leaves
malformed messages out: the subscription of `terraform/main.tf:214-224` has no
dead-letter policy, so the message of `consumer.py:65` comes back for ever.
`QuietAuditIsRight` bounds entries per transaction only on average: `audit.py:138`
compares totals. `EditIsDetected` speaks of one edit of a linked row that has a
successor: entries, `reference` and `created_at` are not hashed and nothing follows
the last link. `WalkMissesOnlyTies` excepts rows that share `created_at` with the last
row of a page, which `main.py:312` skips, and `StatementsAddUp` the last microsecond
of a day, which `main.py:390` leaves out of the statement that ends with it. A running
balance may be negative where no balance was (`OverdrawnOnlyWhenOvertaken`), because a
statement is in the order of starts and not of commits. `OneCreatorPerName` allows 500
for a creation that the table shows, when the refresh after the commit gets no
connection. `StallNeedsManyCalls` says how many calls a stall takes and not that it
ends: the pool's timeout ends it, with 500 for some. `BehindOnlyForCause` names the
three causes for which `start.sh:2-3` lets a release serve the schema of an older one.

## 4. Proofs

`WritePathProofs` proves, for every set of attempts, customers, keys and bodies
that meets the named assumptions of `WritePath` (customers and clearing ids are
disjoint sets of numbers, bodies have the types pydantic enforces,
`NoTransaction` is no attempt):

* `TypeCorrect`: `TypeOK`;
* `KeysAppliedOnce`: `KeyAppliedOnce`;
* `ChainIsLinear`, `TipStaysFinal`: `ChainLinear`, `TipIsFinal`;
* `NeverOverdrawn`, `ChecksHold`: `NoOverdraft`, `CheckedBalanceHolds`.

The argument is layered; each layer is inductive relative to the ones before.

1. `TypeInv` = `TypeOK` with `Prepared`: past validation a body is well formed
   and past the clearing lookup its accounts are known, which is what makes the
   entries it commits well typed.
2. `LockInv`: a lock has one holder, and each statement is only reached holding
   the locks it needs. None of the properties is inductive without it.
3. What the locks protect. `KeyInv`: an attempt past its insert holds the key's
   index entry, so no commit can take the key. `ChainInv`: the holder of the
   chain lock is the only one that can commit, so its tip stays the last row.
   `MoneyInv`: only a commit changes balances, only those of rows its attempt
   holds, so a checked balance survives every step of others; and a commit takes
   from a customer only what was checked.

`BalanceProofs` supplies the arithmetic: `BalanceOfAppend` says what an appended
entry does to a recursive sum. Its induction is obtained without an induction
rule, from the well-foundedness of strict inclusion on finite sets
(`LeastNatural`), applied to sets of counterexamples.

On these invariants rest:

* `LocksAreOrdered`: `LocksInOrder`, from the level each statement has reached
  (`LevelInv`) and, between rows, from `sorted()` handing out the lowest row left;
* `ColdStartIsSafe`: `ColdStartNeverCollides`, since the clearing lock is kept from
  the second lookup to the end of the transaction (`ColdStartInv`);
* `OutboxIsLedger`: `OutboxMirrorsLedger`;
* `AnswersStayTrue`: `AnswersAreTrue`, since committed rows stay and a call that
  refreshes finds its own row (`AnswerInv`);
* `WritePathIsLedger`: `ImplementsLedger`. A commit finds its key unused
  (`KeyInv`), its payer covered (`MoneyInv`), its accounts existing (`ExistInv`:
  only rows that a SELECT found are locked) and row `i` paired with entries
  `2i-1` and `2i` (`PairInv`), so it is one `Post`; no other statement writes the
  database (`OnlyCommitWrites`).

`RelayProofs` proves, for any transactions, relays, limits and number of faults:

* `TypeCorrect`: `TypeOK`;
* `RelayIsQueue`: `ImplementsQueue`. Its invariant `QueueInv` says that batches
  and messages in flight hold committed rows and that a marked row is in the
  topic: a mark is only ever made after the hand-over.
* `OlderComesFirst`: `OlderFirst`. What precedes a committed event is fixed for
  ever, since later commits come after it in `log` (`PastInv`: all that is sent
  is committed, and all that is committed has its start), so it is enough that
  whatever a relay or the broker may still append is `Due`: every event that
  precedes it is in the topic, or ahead of it in the same batch (`DueInv`).
* `OvertakenOnlyWhenLate`: `OvertakesOnlyUnread`. A batch is taken in the order of
  starts from all that was pending, so each of its rows comes after the older ones that
  were there to read, or the topic has those already (`ReadableInv`); handing over the
  first row keeps this, and a commit in between is not among what was there.
* `SentBeforeRetired`: what is out of the outbox was sent, what was sent was
  committed (`PastInv`).
* `DuplicatesBounded`: `DuplicatesAreBounded`, for a finite set of relays. A count is
  not inductive by itself, because a second relay may still hold a row that the first
  has retired. `CountInv` owes every message, sent or in flight, to a fault or to a
  relay: while the row is pending to one that holds its mark, afterwards to any relay
  that does not have it in its batch (`BatchInv` keeps the two apart).

`ConsumerProofs` proves, for any events, threads, messages, lapses and restarts:
`TypeCorrect`; `NothingLost` (`AckedWasCounted`): a callback acknowledges only past
its `Mark` or on a duplicate, whose first copy was handled in this life of the process
or before it; and `TotalsBounded` (`TotalsWithinBounds`), for a finite set of threads.
Its invariant (`Counts`) keeps apart the threads that have counted an event nobody
has marked yet (`early`) and those that have still to count one that another thread
has marked (`late`): once an event is in `seen` no further thread starts to count it.

`DeliveryProofs` composes. `DeliveryRelays` and `DeliveryConsumes` prove that
`Delivery` implements `Relay` and `Consumer` under their instantiations: a step of
one part is a stutter of the other, but for the append to `topic`, which is `Arrive`
of the consumer. So every theorem of the parts holds of the whole, their assumptions
being those of `Delivery`, and `NothingInvented` (`NothingInventedNothingLost`) follows
from `PastInv` and from what the consumer has handled. The repeated lemmas `SameRelay`
and `SameConsumer` only say that the parts read the same through the proof modules.

`AuditProofs` proves, for any accounts, postings, amounts and number of edits:
`AuditTypes` (`TypeOK`), `AlarmsAreCommits` (`AlarmsOnlyByCommits`),
`UnbalancedFailsTheAudit` (`UnbalancedIsReported`) and `QuietAuditsAreRight`
(`QuietAuditIsRight`). Its invariant `IInv` has four parts. `ForeignKeysHold` bounds
what an edit can do. `LedgerIsSound`: without edits every transaction has two entries
that cancel out, so any snapshot sums to zero. `ReadsStayTrue`: what a statement
found is still so when the audit answers, since the edits are over before it begins
and a commit adds a balanced transaction. `CountsLag`: a later statement counts at
least as much as an earlier one, which is why only the two comparisons of counts can
disagree on a sound ledger, and always in the same direction. Sums over sets of rows
do not depend on the order in which they are added up; `AuditProofs` derives that,
by way of `BalanceProofs`, from what one more row does to a sum.

`HashChainProofs` proves, for any rows, contents, instants and edits: `ChainTypes`
(`TypeOK`), `ChainAlwaysVerifies` (`ChainVerifies`), `EditsAreDetected`
(`EditIsDetected`) and `NothingEverHeals` (`NothingHeals`). `ORDER BY` is modelled by
ranks, so the lemmas first find the row at each place from the number of rows sorted
before it (`Ranks`). `IInv` adds to `ChainVerifies` the types of
rows (`RowsOK`), that finitely many rows are linked and no two at one place, edited or
not (`Sound`), and that before migration 004 nothing is linked: re-anchoring then
starts from any rows, forks included, and an insert finds one last link. An edit
changes the hash or the place of one row, so either its own digest or what its
successor points to no longer agrees; later inserts leave every earlier link as it
was, broken or not.

`ServiceProofs` proves of `Requests`, for any requests, users, names and sizes of the
two pools: `TypeCorrect`; `StallsNeedManyCalls` (`StallNeedsManyCalls`): a thread or a
connection belongs to a request at a place that has it, so a state where none can move
fills both pools with different requests; `AdminsCreate` (`OnlyAdminsCreate`), since a
token in hand says what its user was and until when; and `CreationIsToldTruly`
(`OneCreatorPerName`).

Of `Startup` it proves, for any instances, releases and faults: `SchemaTypeCorrect`;
`SystemAccountsAreSeeded` (`SeedsAreGenuine`), since the open transaction continues
the committed version and nobody can take a name it has inserted (`OneUpgrader`); and
`OldSchemaHasACause` (`BehindOnlyForCause`).

Of `Reads` it proves, for any accounts, transactions, amounts, clients, queries,
limits and length of a day: `ReadsTypes` (`ReadsTypeOK`), `WalksAreHonest`
(`WalkMissesOnlyTies`), `StatementsAgree` (`StatementsAddUp`) and
`OverdrawnIsOvertaken` (`OverdrawnOnlyWhenOvertaken`). The inductive invariant is
`ReadsInv`, in two parts.

* `RowsInv`: ids and entries of rows are their own and `created_at` is when their
  transaction began (`Genuine`), and the balance of an account is the total of its
  rows, which was not negative after any commit (`Sound`). A statement lists the rows
  in another order than the journal, so the total is one of a *set* of rows: `AnyOrder`
  shows that two listings of the same rows end at the same sum, and `TotalOfUnion` that
  disjoint sets add up. `StatementsAddUp` is then a matter of which rows lie in which
  period. A negative running balance means that the rows listed so far are not the
  rows of any point in the journal; so one of them was committed after one that is
  listed later.
* `WalksInv`: whatever a walk found at its start has been listed, lies beyond its
  cursor or ties with the end of a page (`Honest`), and what is listed is in order and
  comes before whatever lies beyond the cursor. A commit between two pages does not
  move a row across the cursor, because rows never change.

TLC checked `ReadsInv` on the instance of `reads` before it was proved, with the
total computed along one order.

`TypeOK` of `Relay`, `Consumer` and `Requests` and `StartupTypeOK` are proved and take
no run.
With these, every safety property that a passing run checks is a theorem.

Only model-checked: `EveryCallEnds`, `EveryEventIsSent`, `EveryMessageIsAcked`,
`EveryCommitIsHandled` and `EveryStartServes`, since liveness under fairness is out of
the prover's reach; that no run deadlocks, which takes `ENABLED`; and the `violation`
runs. No induction rule with an operator parameter is used anywhere: where sums,
ranks or listings need induction it comes from `LeastNatural` or from
well-founded inclusion, applied to a set of counterexamples.

## 5. Plan

In this order; each module is checked with its own instance before it is
composed.

1. `WritePath` (done) with `Ledger` and `Balance`.
2. `Relay` (done) with `AtLeastOnce`.
3. `Consumer` (done), composed with `Relay` in `Delivery`.
4. `HashChain` (done): `verify_hash_chain` against edits, and migration 004.
5. `Audit` (done): `verify_ledger` statement by statement beside commits.
6. `Reads` (done): listings and statements beside commits of `Ledger`.
7. `Startup` (done): migrations, the reserved names, mixed releases.
8. `Requests` (done): accounts, authentication, threads and connections.

Proofs left: that ordered locks leave no circle of waiting calls, and that the rows
`Audit` and `Reads` take from `Ledger` in one step are those of `WritePath`, which
today rests on `WritePathIsLedger` and on reading `Post`.

## 6. Not modelled

Status and request tracing (read-only probes and log lines), the portal (a static
page), the load test (a client, which the attempts of `WritePath` stand for),
Terraform and Docker files. `alembic downgrade`, run by hand, is modelled for 004
only. That `request_hash` covers the amount as text (`service.py:58`) is a hazard
without a property: `WritePath` keeps the text, and a retry that writes the amount
another way is refused, which no document settles either way. PostgreSQL's own
crash recovery and its lock queues are taken as documented; `statement_timeout` and
lock timeouts are not configured by the code.
