------------------------------ MODULE WritePath ------------------------------
(***************************************************************************)
(* POST /transactions: create_transaction of src/app/service.py with the   *)
(* hash-chain link of chain.py and the outbox row of outbox.py, one action *)
(* per SQL statement, as PostgreSQL runs it at READ COMMITTED.             *)
(*                                                                         *)
(* Each attempt is one HTTP call, and so one database transaction: what it *)
(* writes is invisible to the others until Commit, and what it locked is   *)
(* released when it commits or rolls back.  A client's retry is another    *)
(* attempt with the same body.                                             *)
(***************************************************************************)
EXTENDS Integers, Sequences, Balance

CONSTANTS
  Attempts,       \* HTTP calls; each one doubles as the uuid of the row it may insert
  Customers,      \* ids of the accounts that exist from the start
  ClearingIds,    \* uuids the External Clearing account may be given
  Keys,           \* idempotency keys
  Texts,          \* str(amount) and reference, where only equality matters
  Bodies,         \* the TransactionCreate bodies clients send
  NoAccount,      \* an account id left out of a body; no clearing row yet
  NoTransaction,  \* no transaction: the answer of an error, the genesis link
  MaxCrashes      \* bound on lost connections and killed processes

Types == {"deposit", "withdrawal", "transfer"}

Ids == Nat \cup {NoAccount}

\* Account ids are numbers because uuids are ordered and the order matters:
\* rows are locked in it.  pydantic admits only amounts above zero.
Body == [idempotency_key : Keys, type : Types, amount : Nat \ {0},
         amount_str : Texts, account_id : Ids, from_account_id : Ids,
         to_account_id : Ids, reference : Texts]

ASSUME IdsAssumption ==
  /\ Customers \subseteq Nat
  /\ ClearingIds \subseteq Nat \ Customers
  /\ NoAccount \notin Nat

ASSUME BodiesAssumption == Bodies \subseteq Body

ASSUME AttemptsAssumption == NoTransaction \notin Attempts

ASSUME MaxCrashesAssumption == MaxCrashes \in Nat

VARIABLES
  \* The database, as committed.
  clearing,        \* id of the External Clearing row, or NoAccount
  transactions,    \* rows of transactions, in commit order
  ledger_entries,  \* rows of ledger_entries, in commit order
  outbox_events,   \* rows of outbox_events, in commit order
  \* The attempts.
  pc,              \* the statement the attempt executes next
  body,            \* the request it will send, fixed from the start
  clearing_id,     \* the clearing account it works with
  created_clearing,\* whether it inserted that account itself
  held,            \* locks held until its transaction ends
  tip,             \* chain tip link_transaction read
  answer,          \* what the client received
  crashes          \* crashes so far

database == <<clearing, transactions, ledger_entries, outbox_events>>
locals   == <<clearing_id, created_clearing, tip>>
vars     == <<database, pc, body, locals, held, answer, crashes>>

-----------------------------------------------------------------------------
\* Requests and rows

\* The parameters hashed into request_hash: all but the key, and the amount as
\* the client wrote it.
request_hash(b) == [type |-> b.type, amount |-> b.amount_str,
                     account_id |-> b.account_id,
                     from_account_id |-> b.from_account_id,
                     to_account_id |-> b.to_account_id,
                     reference |-> b.reference]

\* FAULT: a known key is replayed without comparing parameters.
any_request(txn, b) == TRUE

same_request(txn, b) == txn.request_hash = request_hash(b)

\* The checks that answer 422 before the first lock is taken.
well_formed(b) ==
  IF b.type = "transfer"
  THEN /\ b.from_account_id # NoAccount
       /\ b.to_account_id # NoAccount
       /\ b.from_account_id # b.to_account_id
  ELSE b.account_id # NoAccount

\* Which account pays and which receives, c being the clearing account.
debited(b, c) ==
  IF b.type = "deposit" THEN c
  ELSE IF b.type = "transfer" THEN b.from_account_id ELSE b.account_id

credited(b, c) ==
  IF b.type = "withdrawal" THEN c
  ELSE IF b.type = "transfer" THEN b.to_account_id ELSE b.account_id

\* FAULT: the transfer branch has no balance check.
withdrawals_only(b) == b.type = "withdrawal"

\* Deposits draw on External Clearing, which may go below zero.
needs_funds(b) == b.type # "deposit"

\* The row of a given key, as a set: empty or, idempotency_key being unique,
\* a singleton.
with_key(txns, k) == {i \in DOMAIN txns : txns[i].idempotency_key = k}

\* The hash chain.  chain_hash is a digest of the row and of prev_hash, so a
\* link is modelled by the row it points to.
genesis == [chain_seq |-> 0, id |-> NoTransaction]

chain_tip(txns) ==
  IF txns = <<>> THEN genesis
  ELSE LET top == CHOOSE i \in DOMAIN txns :
                    \A j \in DOMAIN txns : txns[j].chain_seq <= txns[i].chain_seq
       IN  [chain_seq |-> txns[top].chain_seq, id |-> txns[top].id]

\* FAULT: prev_hash is not carried over from the tip.
unlinked_transaction(r, b, t) ==
  [id |-> r, idempotency_key |-> b.idempotency_key, type |-> b.type,
   amount |-> b.amount, request_hash |-> request_hash(b),
   chain_seq |-> t.chain_seq + 1, prev |-> NoTransaction]

\* FAULT: the row is signed like the paying entry.
signed_transaction(r, b, t) ==
  [id |-> r, idempotency_key |-> b.idempotency_key, type |-> b.type,
   amount |-> -b.amount, request_hash |-> request_hash(b),
   chain_seq |-> t.chain_seq + 1, prev |-> t.id]

\* The rows one attempt commits, t being the tip it links to.
new_transaction(r, b, t) ==
  [id |-> r, idempotency_key |-> b.idempotency_key, type |-> b.type,
   amount |-> b.amount, request_hash |-> request_hash(b),
   chain_seq |-> t.chain_seq + 1, prev |-> t.id]

\* FAULT: both entries of a withdrawal are booked on the customer.
credit_entry_of_payer(r, b, c) ==
  [transaction_id |-> r, amount |-> b.amount,
   account_id |-> IF b.type = "withdrawal" THEN b.account_id ELSE credited(b, c)]

debit_entry(r, b, c) ==
  [transaction_id |-> r, account_id |-> debited(b, c), amount |-> -b.amount]

credit_entry(r, b, c) ==
  [transaction_id |-> r, account_id |-> credited(b, c), amount |-> b.amount]

write_transaction_event(r, b) ==
  [aggregate_id |-> r, event_type |-> b.type,
   idempotency_key |-> b.idempotency_key, amount |-> b.amount]

\* FAULT: the transfer branch returns before the event is queued.
events_but_transfers(r, b) ==
  IF b.type = "transfer" THEN outbox_events
  ELSE Append(outbox_events, write_transaction_event(r, b))

events_with(r, b) == Append(outbox_events, write_transaction_event(r, b))

-----------------------------------------------------------------------------
\* Locks.  A resource is <<level, id>>; transactions are meant to acquire them
\* in increasing order.

ClearingLock == <<0, 0>>    \* pg_advisory_xact_lock(CLEARING_LOCK_KEY)
NameEntry    == <<1, 0>>    \* uncommitted "External Clearing" in the name index
Row(a)       == <<2, a>>    \* SELECT ... FOR UPDATE on an accounts row
KeyEntry(k)  == <<3, k>>    \* uncommitted entry of the idempotency_key index
ChainLock    == <<4, 0>>    \* pg_advisory_xact_lock(CHAIN_LOCK_KEY)

Before(x, y) == x[1] < y[1] \/ (x[1] = 2 /\ y[1] = 2 /\ x[2] < y[2])

\* No other transaction holds x.
Free(r, x) == \A s \in Attempts \ {r} : x \notin held[s]

\* FAULT: only the receiving account is locked.
receiver(b, c) == {credited(b, c)}

\* The accounts a body locks, and those of them still to be locked.
involved(b, c) == {debited(b, c), credited(b, c)}

\* FAULT: the loop does not remember what it has locked.
all_rows(r) == involved(body[r], clearing_id[r])

unlocked(r) == {a \in involved(body[r], clearing_id[r]) : Row(a) \notin held[r]}

\* FAULT: rows are locked in the order of the call, unsorted.
requested_first(rows, b) ==
  CHOOSE a \in rows :
    rows \cap {b.account_id, b.from_account_id} # {}
      => a \in {b.account_id, b.from_account_id}

\* _lock_accounts takes sorted(account_ids) one by one.
next_row(rows, b) == CHOOSE a \in rows : \A x \in rows : a <= x

\* What a SELECT on accounts by id finds: committed rows and its own insert.
account_exists(r, a) ==
  \/ a \in Customers
  \/ clearing # NoAccount /\ a = clearing
  \/ created_clearing[r] /\ a = clearing_id[r]
-----------------------------------------------------------------------------
\* Control

Go(r, label) == pc' = [pc EXCEPT ![r] = label]

Acquire(r, x) == Free(r, x) /\ held' = [held EXCEPT ![r] = @ \cup {x}]

\* The transaction ends without writing anything: HTTPException or a database
\* error unwinds to get_db, whose close() rolls back.
Rollback(r, status) ==
  /\ Go(r, "done")
  /\ held' = [held EXCEPT ![r] = {}]
  /\ created_clearing' = [created_clearing EXCEPT ![r] = FALSE]
  /\ answer' = [answer EXCEPT ![r] = [status |-> status, id |-> NoTransaction]]
  /\ UNCHANGED <<database, body, clearing_id, tip, crashes>>

NoAnswer == [status |-> 0, id |-> NoTransaction]

Lost == 0 - 1   \* status of an answer the client never received

Init ==
  /\ clearing \in ClearingIds \cup {NoAccount}   \* migration 001 seeds it
  /\ transactions = <<>>
  /\ ledger_entries = <<>>
  /\ outbox_events = <<>>
  /\ pc = [r \in Attempts |-> "idle"]
  /\ body \in [Attempts -> Bodies]
  /\ clearing_id = [r \in Attempts |-> NoAccount]
  /\ created_clearing = [r \in Attempts |-> FALSE]
  /\ held = [r \in Attempts |-> {}]
  /\ tip = [r \in Attempts |-> genesis]
  /\ answer = [r \in Attempts |-> NoAnswer]
  /\ crashes = 0

-----------------------------------------------------------------------------
\* create_transaction, one action per statement

\* SELECT by idempotency key, and the checks up to the next statement.
LookupKey(r) ==
  LET b == body[r]
      existing == with_key(transactions, b.idempotency_key)
      reply(status, id) ==
        /\ Go(r, "done")
        /\ answer' = [answer EXCEPT ![r] = [status |-> status, id |-> id]]
  IN /\ pc[r] = "idle"
     /\ \/ \E i \in existing :
             IF same_request(transactions[i], b)
             THEN reply(201, transactions[i].id)
             ELSE reply(409, NoTransaction)
        \/ existing = {} /\ ~ well_formed(b) /\ reply(422, NoTransaction)
        \/ /\ existing = {} /\ well_formed(b)
           /\ Go(r, IF b.type = "transfer" THEN "lock_rows" ELSE "find_clearing")
           /\ UNCHANGED answer
     /\ UNCHANGED <<database, body, locals, held, crashes>>

\* get_or_create_clearing_account: the lock-free lookup.
FindClearing(r) ==
  /\ pc[r] = "find_clearing"
  /\ IF clearing # NoAccount
     THEN Go(r, "lock_rows") /\ clearing_id' = [clearing_id EXCEPT ![r] = clearing]
     ELSE Go(r, "lock_clearing") /\ UNCHANGED clearing_id
  /\ UNCHANGED <<database, body, created_clearing, tip, held, answer, crashes>>

\* FAULT: no advisory lock around the second lookup.
clearing_unlocked(r) ==
  /\ pc[r] = "lock_clearing"
  /\ Go(r, "recheck_clearing")
  /\ UNCHANGED <<database, body, locals, held, answer, crashes>>

\* Cold start: one creator at a time.
LockClearing(r) ==
  /\ pc[r] = "lock_clearing"
  /\ Acquire(r, ClearingLock)
  /\ Go(r, "recheck_clearing")
  /\ UNCHANGED <<database, body, locals, answer, crashes>>

\* The second lookup, under the lock.
RecheckClearing(r) ==
  /\ pc[r] = "recheck_clearing"
  /\ IF clearing # NoAccount
     THEN Go(r, "lock_rows") /\ clearing_id' = [clearing_id EXCEPT ![r] = clearing]
     ELSE Go(r, "insert_clearing") /\ UNCHANGED clearing_id
  /\ UNCHANGED <<database, body, created_clearing, tip, held, answer, crashes>>

\* db.flush() of the new account, whose name is unique like an idempotency key.
InsertClearing(r) ==
  /\ pc[r] = "insert_clearing"
  /\ \/ clearing # NoAccount /\ Rollback(r, 500)
     \/ /\ clearing = NoAccount
        /\ Acquire(r, NameEntry)
        /\ \E c \in ClearingIds : clearing_id' = [clearing_id EXCEPT ![r] = c]
        /\ created_clearing' = [created_clearing EXCEPT ![r] = TRUE]
        /\ Go(r, "lock_rows")
        /\ UNCHANGED <<database, body, tip, answer, crashes>>

\* _lock_accounts: one SELECT ... FOR UPDATE, 404 when it finds no row.
LockRow(r) ==
  /\ pc[r] = "lock_rows"
  /\ LET a == next_row(unlocked(r), body[r]) IN
     \/ ~ account_exists(r, a) /\ Rollback(r, 404)
     \/ /\ account_exists(r, a)
        /\ Acquire(r, Row(a))
        /\ Go(r, IF unlocked(r) # {a} THEN "lock_rows"
                 ELSE IF needs_funds(body[r]) THEN "check_balance" ELSE "insert")
        /\ UNCHANGED <<database, body, locals, answer, crashes>>

\* compute_balance of the paying account against the amount.
CheckBalance(r) ==
  /\ pc[r] = "check_balance"
  /\ IF compute_balance(ledger_entries, debited(body[r], clearing_id[r]))
          < body[r].amount
     THEN Rollback(r, 422)
     ELSE Go(r, "insert") /\ UNCHANGED <<database, body, locals, held, answer, crashes>>

\* FAULT: idempotency_key is not unique.
never_taken(r) == FALSE

key_taken(r) == with_key(transactions, body[r].idempotency_key) # {}

\* db.flush() of the transactions row.  The unique index makes it wait for an
\* uncommitted row of the same key and fail on a committed one: IntegrityError,
\* which nothing catches.
InsertTransaction(r) ==
  /\ pc[r] = "insert"
  /\ \/ key_taken(r) /\ Rollback(r, 500)
     \/ /\ ~ key_taken(r)
        /\ Acquire(r, KeyEntry(body[r].idempotency_key))
        /\ Go(r, "lock_chain")
        /\ UNCHANGED <<database, body, locals, answer, crashes>>

\* FAULT: no advisory lock around the tip, as before migration 004.
chain_unlocked(r) ==
  /\ pc[r] = "lock_chain"
  /\ Go(r, "read_tip")
  /\ UNCHANGED <<database, body, locals, held, answer, crashes>>

\* link_transaction, first statement.
LockChain(r) ==
  /\ pc[r] = "lock_chain"
  /\ Acquire(r, ChainLock)
  /\ Go(r, "read_tip")
  /\ UNCHANGED <<database, body, locals, answer, crashes>>

\* link_transaction, second statement; autoflush inserts the entries before it.
ReadTip(r) ==
  /\ pc[r] = "read_tip"
  /\ tip' = [tip EXCEPT ![r] = chain_tip(transactions)]
  /\ Go(r, "commit")
  /\ UNCHANGED <<database, body, clearing_id, created_clearing, held, answer, crashes>>

seq_taken(r) ==
  \E i \in DOMAIN transactions : transactions[i].chain_seq = tip[r].chain_seq + 1

\* db.commit(): the chain columns and the outbox row are flushed, chain_seq
\* being unique, and everything becomes visible at once.
Commit(r) ==
  /\ pc[r] = "commit"
  /\ \/ seq_taken(r) /\ Rollback(r, 500)
     \/ /\ ~ seq_taken(r)
        /\ transactions' = Append(transactions, new_transaction(r, body[r], tip[r]))
        /\ ledger_entries' = Append(Append(ledger_entries,
                                           debit_entry(r, body[r], clearing_id[r])),
                                    credit_entry(r, body[r], clearing_id[r]))
        /\ outbox_events' = events_with(r, body[r])
        /\ clearing' = IF created_clearing[r] THEN clearing_id[r] ELSE clearing
        /\ created_clearing' = [created_clearing EXCEPT ![r] = FALSE]
        /\ held' = [held EXCEPT ![r] = {}]
        /\ Go(r, "refresh")
        /\ UNCHANGED <<body, clearing_id, tip, answer, crashes>>

\* db.refresh(txn) and the response.
Refresh(r) ==
  /\ pc[r] = "refresh"
  /\ Go(r, "done")
  /\ answer' = [answer EXCEPT ![r] = [status |-> 201, id |-> r]]
  /\ UNCHANGED <<database, body, locals, held, crashes>>

\* The process or its connection dies: PostgreSQL rolls back what is not
\* committed, and the client gets no answer, committed or not.
Crash(r) ==
  /\ pc[r] \notin {"idle", "done"}
  /\ crashes < MaxCrashes
  /\ crashes' = crashes + 1
  /\ Go(r, "done")
  /\ held' = [held EXCEPT ![r] = {}]
  /\ created_clearing' = [created_clearing EXCEPT ![r] = FALSE]
  /\ answer' = [answer EXCEPT ![r] = [status |-> Lost, id |-> NoTransaction]]
  /\ UNCHANGED <<database, body, clearing_id, tip>>

\* Every call has been answered: the system rests.
Terminating ==
  /\ \A r \in Attempts : pc[r] = "done"
  /\ UNCHANGED vars

\* One statement of a running attempt.
Statement(r) ==
  \/ FindClearing(r) \/ LockClearing(r) \/ RecheckClearing(r)
  \/ InsertClearing(r) \/ LockRow(r)
  \/ CheckBalance(r) \/ InsertTransaction(r) \/ LockChain(r) \/ ReadTip(r)
  \/ Commit(r) \/ Refresh(r)

Next ==
  \/ \E r \in Attempts : LookupKey(r) \/ Statement(r) \/ Crash(r)
  \/ Terminating

Spec == Init /\ [][Next]_vars

\* A started call keeps executing, and PostgreSQL grants a free lock in the end;
\* nothing obliges a client to call or a process to crash.
FairSpec == Spec /\ \A r \in Attempts : WF_vars(Statement(r))

-----------------------------------------------------------------------------
\* Type invariant

Labels == {"idle", "find_clearing", "lock_clearing", "recheck_clearing",
           "insert_clearing", "lock_rows", "check_balance", "insert", "lock_chain", "read_tip",
           "commit", "refresh", "done"}

Resources == ({0, 1, 4} \X {0}) \cup ({2} \X Nat) \cup ({3} \X Keys)

Hashes == {request_hash(b) : b \in Bodies}

Links == [chain_seq : Nat, id : Attempts \cup {NoTransaction}]

TransactionRows ==
  [id : Attempts, idempotency_key : Keys, type : Types, amount : Nat \ {0},
   request_hash : Hashes, chain_seq : Nat, prev : Attempts \cup {NoTransaction}]

EntryRows == [transaction_id : Attempts, account_id : Nat, amount : Int]

EventRows == [aggregate_id : Attempts, event_type : Types,
              idempotency_key : Keys, amount : Nat \ {0}]

Answers == [status : {Lost, 0, 201, 404, 409, 422, 500},
            id : Attempts \cup {NoTransaction}]

\* Every column, local and lock has its type.
TypeOK ==
  /\ clearing \in ClearingIds \cup {NoAccount}
  /\ transactions \in Seq(TransactionRows)
  /\ ledger_entries \in Seq(EntryRows)
  /\ outbox_events \in Seq(EventRows)
  /\ pc \in [Attempts -> Labels]
  /\ body \in [Attempts -> Bodies]
  /\ clearing_id \in [Attempts -> ClearingIds \cup {NoAccount}]
  /\ created_clearing \in [Attempts -> BOOLEAN]
  /\ held \in [Attempts -> SUBSET Resources]
  /\ tip \in [Attempts -> Links]
  /\ answer \in [Attempts -> Answers]
  /\ crashes \in 0 .. MaxCrashes

-----------------------------------------------------------------------------
\* Safety

\* Two withdrawals that each fit the balance cannot both go through: no
\* customer balance is ever negative (REQ-F-009; the check of service.py:132
\* and :160 is made under the row lock).
NoOverdraft ==
  \A a \in Customers : compute_balance(ledger_entries, a) >= 0

\* A balance that passed the check still covers the amount at every later
\* statement, up to the commit: nobody else can spend it in between.
CheckedBalanceHolds ==
  \A r \in Attempts :
    /\ pc[r] \in {"insert", "lock_chain", "read_tip", "commit"}
    /\ needs_funds(body[r])
    => compute_balance(ledger_entries, debited(body[r], clearing_id[r]))
         >= body[r].amount

\* One key moves money once, however often and however concurrently it is
\* sent, retried or cut off by a crash (REQ-F-006).
KeyAppliedOnce ==
  \A i, j \in DOMAIN transactions :
    transactions[i].idempotency_key = transactions[j].idempotency_key => i = j

\* The chain has no fork and no gap, and its order is the commit order: row i
\* is link i and points to row i - 1 (chain.py:34-36).
ChainLinear ==
  \A i \in DOMAIN transactions :
    /\ transactions[i].chain_seq = i
    /\ transactions[i].prev = IF i = 1 THEN NoTransaction ELSE transactions[i - 1].id

\* "the tip we read is guaranteed to be the final one" (chain.py:36): it is
\* still the tip when the link commits, so chain_seq is never taken.
TipIsFinal ==
  \A r \in Attempts : pc[r] = "commit" => tip[r] = chain_tip(transactions)

\* Each attempt asks only for locks above all those it holds, across all four
\* kinds and between rows, so waiting can never close a cycle (DESIGN.md:149).
LocksInOrder ==
  \A r \in Attempts :
    LET above_held(x) == \A y \in held[r] : Before(y, x)
    IN  /\ pc[r] = "lock_clearing" => above_held(ClearingLock)
        /\ pc[r] = "insert_clearing" => above_held(NameEntry)
        /\ pc[r] = "lock_rows" => above_held(Row(next_row(unlocked(r), body[r])))
        /\ pc[r] = "insert" => above_held(KeyEntry(body[r].idempotency_key))
        /\ pc[r] = "lock_chain" => above_held(ChainLock)

\* A burst of first transactions does not "race to insert the same unique
\* account name" (service.py:34-35): whoever inserts the clearing account finds
\* neither a committed one nor another insert under way.
ColdStartNeverCollides ==
  \A r \in Attempts :
    pc[r] = "insert_clearing" => clearing = NoAccount /\ Free(r, NameEntry)

\* What a client was told is so: a 201 names a committed row of its own key and
\* parameters, a 409 means the key is committed with other parameters.
AnswersAreTrue ==
  \A r \in Attempts :
    /\ answer[r].status = 201 =>
         \E i \in DOMAIN transactions :
           /\ transactions[i].id = answer[r].id
           /\ transactions[i].idempotency_key = body[r].idempotency_key
           /\ transactions[i].request_hash = request_hash(body[r])
    /\ answer[r].status = 409 =>
         \E i \in DOMAIN transactions :
           /\ transactions[i].idempotency_key = body[r].idempotency_key
           /\ transactions[i].request_hash # request_hash(body[r])

\* The outbox tells the consumers the ledger's history: one event per
\* transaction in commit order, none for what was rolled back (outbox.py:11-34).
OutboxMirrorsLedger ==
  /\ Len(outbox_events) = Len(transactions)
  /\ \A i \in DOMAIN outbox_events :
       /\ outbox_events[i].aggregate_id = transactions[i].id
       /\ outbox_events[i].idempotency_key = transactions[i].idempotency_key
       /\ outbox_events[i].amount = transactions[i].amount

-----------------------------------------------------------------------------
\* Progress

\* Whatever the interleaving, a call that has started is answered or cut off:
\* no deadlock among the locks, no wait that never ends.
EveryCallEnds ==
  \A r \in Attempts : pc[r] # "idle" ~> pc[r] = "done"

-----------------------------------------------------------------------------
\* Duplicates

\* A call never fails for want of funds or with a server error once its own
\* key and parameters are committed: a duplicate gets the original (REQ-F-006,
\* tests/test_resilience.py:69-71).
DuplicateGetsOriginal ==
  [][\A r \in Attempts :
       /\ pc[r] # "done"
       /\ answer'[r].status \in {422, 500}
       => \A i \in with_key(transactions, body[r].idempotency_key) :
            transactions[i].request_hash # request_hash(body[r])]_vars

-----------------------------------------------------------------------------
\* The ledger this path implements: row i of transactions with its two entries
\* is posting i.

posting(i) ==
  [id |-> transactions[i].id, key |-> transactions[i].idempotency_key,
   from |-> ledger_entries[2 * i - 1].account_id,
   to |-> ledger_entries[2 * i].account_id, amount |-> transactions[i].amount]

postings == [i \in DOMAIN transactions |-> posting(i)]

balances == [a \in Customers \cup ClearingIds |-> compute_balance(ledger_entries, a)]

L == INSTANCE Ledger WITH
       Accounts <- Customers \cup ClearingIds, Overdrawable <- ClearingIds,
       balance <- balances, journal <- postings

\* The write path implements the abstract ledger: every commit is one posting.
ImplementsLedger == L!Spec
=============================================================================
