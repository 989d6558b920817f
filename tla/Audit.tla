-------------------------------- MODULE Audit --------------------------------
(***************************************************************************)
(* GET /audit/verify: verify_ledger of src/app/audit.py, a run of SELECT   *)
(* statements at READ COMMITTED, each with a snapshot of its own, beside   *)
(* the postings that keep committing.                                      *)
(*                                                                         *)
(* The postings are those of module Ledger, which WritePath implements:    *)
(* one atomic step, a key of its own.  Damage is what the audit is for: a  *)
(* row edited or restored wrongly behind the service's back.               *)
(***************************************************************************)
EXTENDS Integers, Sequences, FiniteSets, Functions, Balance

CONSTANTS
  Accounts,      \* ids accounts may have
  Transactions,  \* ids postings may have; each stands for its key as well
  Amounts,       \* amounts posted
  MaxDamages     \* bound on edits behind the service's back

ASSUME AmountsAssumption == Amounts \subseteq Nat \ {0}

ASSUME MaxDamagesAssumption == MaxDamages \in Nat

VARIABLES
  accounts,      \* ids of the accounts rows
  transactions,  \* ids of the transactions rows, in commit order
  entries,       \* rows of ledger_entries
  damages,       \* edits so far
  pc,            \* the statement the audit executes next
  unverified,    \* accounts its loop has still to visit
  results        \* what it has read

ledger == <<accounts, transactions, entries, damages>>
vars   == <<ledger, pc, unverified, results>>

-----------------------------------------------------------------------------
\* What the statements compute

\* SELECT sum(amount) of some rows: the balance they would give an account of
\* which they were the entries.
sum_of(rows) ==
  compute_balance([i \in DOMAIN entries |->
                     [account_id |-> i \in rows, amount |-> entries[i].amount]], TRUE)

of_transaction(t) == {i \in DOMAIN entries : entries[i].transaction_id = t}

\* FAULT: GROUP BY account_id.
unbalanced_accounts ==
  {a \in accounts : sum_of({i \in DOMAIN entries : entries[i].account_id = a}) # 0}

\* GROUP BY transaction_id HAVING sum(amount) != 0.
unbalanced ==
  {t \in {e.transaction_id : e \in Range(entries)} : sum_of(of_transaction(t)) # 0}

orphans(column, ids) == Cardinality({i \in DOMAIN entries : entries[i][column] \notin ids})

\* FAULTS: an unbalanced transaction is listed but does not fail the audit; the
\* number of entries is reported but not compared.
failed_but_unbalanced ==
  \/ results.global_sum # 0
  \/ results.orphaned_entries > 0 \/ results.orphaned_accounts > 0
  \/ results.total_keys # results.unique_keys
  \/ results.entry_count # results.txn_count * 2

failed_but_count ==
  \/ results.global_sum # 0
  \/ results.unbalanced # {}
  \/ results.orphaned_entries > 0 \/ results.orphaned_accounts > 0
  \/ results.total_keys # results.unique_keys

\* results["status"] = "fail".
failed ==
  \/ results.global_sum # 0
  \/ results.unbalanced # {}
  \/ results.orphaned_entries > 0 \/ results.orphaned_accounts > 0
  \/ results.total_keys # results.unique_keys
  \/ results.entry_count # results.txn_count * 2

nothing_read ==
  [global_sum |-> 0, unbalanced |-> {}, orphaned_entries |-> 0,
   orphaned_accounts |-> 0, total_keys |-> 0, unique_keys |-> 0,
   entry_count |-> 0, txn_count |-> 0]

Init ==
  /\ accounts = {}
  /\ transactions = <<>>
  /\ entries = <<>>
  /\ damages = 0
  /\ pc = "global_sum"
  /\ unverified = {}
  /\ results = nothing_read

-----------------------------------------------------------------------------
\* The service beside the audit

CreateAccount(a) ==
  /\ a \notin accounts
  /\ accounts' = accounts \cup {a}
  /\ UNCHANGED <<transactions, entries, damages, pc, unverified, results>>

Post(t, from, to, n) ==
  /\ t \notin Range(transactions)
  /\ transactions' = Append(transactions, t)
  /\ entries' = entries \o <<[transaction_id |-> t, account_id |-> from, amount |-> -n],
                             [transaction_id |-> t, account_id |-> to, amount |-> n]>>
  /\ UNCHANGED <<accounts, damages, pc, unverified, results>>

\* A row is changed, lost or doubled before the audit begins.  Foreign keys
\* still hold.
Damage ==
  /\ pc = "global_sum"
  /\ damages < MaxDamages
  /\ damages' = damages + 1
  /\ \E i \in DOMAIN entries :
       \/ \E n \in Amounts : entries' = [entries EXCEPT ![i].amount = n]
       \/ \E t \in Range(transactions) : entries' = [entries EXCEPT ![i].transaction_id = t]
       \/ entries' = SubSeq(entries, 1, i - 1) \o SubSeq(entries, i + 1, Len(entries))
       \/ entries' = Append(entries, entries[i])
  /\ UNCHANGED <<accounts, transactions, pc, unverified, results>>

-----------------------------------------------------------------------------
\* verify_ledger, one action per statement

Read(statement, value, next) ==
  /\ pc = statement
  /\ pc' = next
  /\ results' = [results EXCEPT ![statement] = value]
  /\ UNCHANGED <<ledger, unverified>>

SumAll  == Read("global_sum", sum_of(DOMAIN entries), "unbalanced")
SumEach == Read("unbalanced", unbalanced, "list_accounts")

ListAccounts ==
  /\ pc = "list_accounts"
  /\ unverified' = accounts
  /\ pc' = "verify_accounts"
  /\ UNCHANGED <<ledger, results>>

\* Two more statements per account, whose results are reported and compared
\* with nothing.
VerifyAccount(a) ==
  /\ pc = "verify_accounts" /\ a \in unverified
  /\ unverified' = unverified \ {a}
  /\ UNCHANGED <<ledger, pc, results>>

CountOrphanedEntries ==
  /\ unverified = {} /\ pc = "verify_accounts"
  /\ pc' = "orphaned_accounts"
  /\ results' = [results EXCEPT !.orphaned_entries =
                                  orphans("transaction_id", Range(transactions))]
  /\ UNCHANGED <<ledger, unverified>>

CountOrphanedAccounts ==
  Read("orphaned_accounts", orphans("account_id", accounts), "total_keys")

CountKeys         == Read("total_keys", Len(transactions), "unique_keys")
CountUniqueKeys   == Read("unique_keys", Cardinality(Range(transactions)), "entry_count")
CountEntries      == Read("entry_count", Len(entries), "txn_count")
CountTransactions == Read("txn_count", Len(transactions), "done")

Service ==
  \/ \E a \in Accounts : CreateAccount(a)
  \/ \E t \in Transactions, from, to \in accounts, n \in Amounts : Post(t, from, to, n)
  \/ Damage

Verify ==
  \/ SumAll \/ SumEach \/ ListAccounts \/ \E a \in Accounts : VerifyAccount(a)
  \/ CountOrphanedEntries \/ CountOrphanedAccounts \/ CountKeys
  \/ CountUniqueKeys \/ CountEntries \/ CountTransactions

\* The answer is given.
Answered == pc = "done" /\ UNCHANGED vars

Next == Service \/ Verify \/ Answered

Spec == Init /\ [][Next]_vars

-----------------------------------------------------------------------------
\* Properties

Counts == {"global_sum", "orphaned_entries", "orphaned_accounts", "total_keys",
           "unique_keys", "entry_count", "txn_count"}

\* The types of the rows and of what the audit has read.
TypeOK ==
  /\ accounts \subseteq Accounts
  /\ transactions \in Seq(Transactions)
  /\ entries \in Seq([transaction_id : Transactions, account_id : Accounts, amount : Int])
  /\ damages \in 0 .. MaxDamages
  /\ pc \in Counts \cup {"unbalanced", "list_accounts", "verify_accounts", "done"}
  /\ unverified \subseteq Accounts
  /\ \A c \in Counts : results[c] \in Int
  /\ results.unbalanced \subseteq Transactions

\* On a sound ledger no check that reads one snapshot ever fails, whatever commits
\* meanwhile, and the two that compare counts of two snapshots (audit.py:106-111,
\* 125-130) can only be off by what committed in between, never the other way.
AlarmsOnlyByCommits ==
  damages = 0 =>
    /\ results.global_sum = 0
    /\ results.unbalanced = {}
    /\ results.orphaned_entries = 0 /\ results.orphaned_accounts = 0
    /\ pc \in {"entry_count", "txn_count", "done"} => results.total_keys <= results.unique_keys
    /\ pc = "done" => results.entry_count <= results.txn_count * 2

\* A transaction that does not sum to zero fails the audit, even when another one
\* makes up for it and postings go on all the while (audit.py:34-56).
UnbalancedIsReported ==
  pc = "done" /\ (\E t \in Transactions : sum_of(of_transaction(t)) # 0) => failed

\* With no commit since the keys were counted the audit is right both ways: a sound
\* ledger passes, and a pass means balanced transactions and two entries each on
\* average.
QuietAuditIsRight ==
  pc = "done" /\ results.total_keys = Len(transactions) =>
    /\ damages = 0 => ~ failed
    /\ ~ failed => Len(entries) = 2 * Len(transactions)

\* "Every idempotency key is unique", "Every transaction has exactly 2 ledger entries"
\* (audit.py:113, 132): a ledger of which all of this is true passes.
SoundLedgerPasses == pc = "done" /\ damages = 0 => ~ failed
=============================================================================
