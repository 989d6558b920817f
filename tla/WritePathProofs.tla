--------------------------- MODULE WritePathProofs ---------------------------
(***************************************************************************)
(* Theorems about WritePath for every set of attempts, accounts and        *)
(* bodies.  Each invariant is proved from the ones before it: types, then  *)
(* who holds which lock, then what the locks protect - keys, the chain and *)
(* the money - and last what the outside sees: locks taken in order, the   *)
(* cold start, the outbox, true answers, and the abstract Ledger.          *)
(***************************************************************************)
EXTENDS WritePath, BalanceProofs, TLAPS

-----------------------------------------------------------------------------
\* Types

\* A body comes with the types of its fields.
LEMMA BodyFields ==
  ASSUME NEW b \in Bodies
  PROVE  /\ b.idempotency_key \in Keys
         /\ b.type \in Types
         /\ b.amount \in Nat \ {0}
         /\ b.account_id \in Ids
         /\ b.from_account_id \in Ids
         /\ b.to_account_id \in Ids
BY BodiesAssumption DEF Body

\* In a well-formed body both accounts are there once the clearing account is.
LEMMA InvolvedAreIds ==
  ASSUME NEW b \in Bodies, well_formed(b), NEW c,
         b.type # "transfer" => c \in ClearingIds
  PROVE  debited(b, c) \in Nat /\ credited(b, c) \in Nat
BY BodyFields, IdsAssumption DEF well_formed, debited, credited, Ids, Types

\* Where the request has been validated, and where its accounts are known.
Validated == {"find_clearing", "lock_clearing", "recheck_clearing", "insert_clearing"}
Resolved  == {"lock_rows", "check_balance", "insert", "lock_chain", "read_tip",
              "commit"}

\* Past validation the body is well formed; past the clearing lookup the
\* accounts involved are known.
Prepared ==
  \A r \in Attempts :
    /\ pc[r] \in Validated \cup Resolved => well_formed(body[r])
    /\ pc[r] \in Validated => body[r].type # "transfer"
    /\ pc[r] \in Resolved /\ body[r].type # "transfer" => clearing_id[r] \in ClearingIds
    /\ created_clearing[r] => clearing_id[r] \in ClearingIds

TypeInv == TypeOK /\ Prepared

\* chain_tip is well defined: some row has the highest chain_seq.
LEMMA HighestLink ==
  ASSUME NEW txns \in Seq(TransactionRows), txns # <<>>
  PROVE  \E i \in DOMAIN txns : \A j \in DOMAIN txns : txns[j].chain_seq <= txns[i].chain_seq
<1> DEFINE q == [i \in 1 .. Len(txns) |-> txns[i].chain_seq]
<1>1. Len(txns) \in Nat \ {0} /\ DOMAIN txns = 1 .. Len(txns)
  OBVIOUS
<1>2. \A i \in 1 .. Len(txns) : q[i] \in Nat
  <2> SUFFICES ASSUME NEW i \in 1 .. Len(txns) PROVE q[i] \in Nat
    OBVIOUS
  <2> txns[i] \in TransactionRows
    OBVIOUS
  <2> QED
    BY DEF TransactionRows
<1>3. \E i \in 1 .. Len(txns) : \A j \in 1 .. Len(txns) : q[j] <= q[i]
  <2> HIDE DEF q
  <2> QED
    BY <1>1, <1>2, Greatest
<1> QED
  BY <1>1, <1>3

LEMMA ChainTipType ==
  ASSUME NEW txns \in Seq(TransactionRows)
  PROVE  chain_tip(txns) \in Links
<1>1. CASE txns = <<>>
  BY <1>1 DEF chain_tip, genesis, Links
<1>2. CASE txns # <<>>
  <2> DEFINE top == CHOOSE i \in DOMAIN txns :
                      \A j \in DOMAIN txns : txns[j].chain_seq <= txns[i].chain_seq
  <2>1. top \in DOMAIN txns
    BY <1>2, HighestLink
  <2>2. txns[top] \in TransactionRows
    BY <2>1
  <2>3. chain_tip(txns) = [chain_seq |-> txns[top].chain_seq, id |-> txns[top].id]
    BY <1>2 DEF chain_tip
  <2> QED
    BY <2>2, <2>3 DEF Links, TransactionRows
<1> QED
  BY <1>1, <1>2

-----------------------------------------------------------------------------
\* A rolled-back attempt keeps its types.
LEMMA RollbackType ==
  ASSUME TypeInv, NEW r \in Attempts, NEW status \in {404, 422, 500},
         Rollback(r, status)
  PROVE  TypeInv'
<1> USE DEF TypeInv, TypeOK, Rollback, Go, database
<1>1. TypeOK'
  BY DEF Labels, Answers
<1>2. Prepared'
  BY DEF Prepared, Validated, Resolved, Labels
<1> QED
  BY <1>1, <1>2

\* The rows an attempt commits have the types of their columns.
LEMMA NewRowsType ==
  ASSUME TypeInv, NEW r \in Attempts, pc[r] = "commit"
  PROVE  /\ new_transaction(r, body[r], tip[r]) \in TransactionRows
         /\ debit_entry(r, body[r], clearing_id[r]) \in EntryRows
         /\ credit_entry(r, body[r], clearing_id[r]) \in EntryRows
         /\ write_transaction_event(r, body[r]) \in EventRows
<1> DEFINE b == body[r]
<1>1. b \in Bodies /\ tip[r] \in Links
  BY DEF TypeInv, TypeOK
<1>2. b.idempotency_key \in Keys /\ b.type \in Types /\ b.amount \in Nat \ {0}
  BY <1>1, BodyFields
<1>3. debited(b, clearing_id[r]) \in Nat /\ credited(b, clearing_id[r]) \in Nat
  BY <1>1, InvolvedAreIds DEF TypeInv, Prepared, Resolved
<1>4. request_hash(b) \in Hashes
  BY <1>1 DEF Hashes
<1>5. tip[r].chain_seq + 1 \in Nat /\ tip[r].id \in Attempts \cup {NoTransaction}
  BY <1>1 DEF Links
<1> HIDE DEF b
<1>6. /\ new_transaction(r, b, tip[r]) \in TransactionRows
      /\ write_transaction_event(r, b) \in EventRows
  BY <1>2, <1>4, <1>5 DEF new_transaction, TransactionRows, write_transaction_event, EventRows
<1>7. /\ debit_entry(r, b, clearing_id[r]) \in EntryRows
      /\ credit_entry(r, b, clearing_id[r]) \in EntryRows
  BY <1>2, <1>3 DEF debit_entry, credit_entry, EntryRows
<1> QED
  BY <1>6, <1>7 DEF b

\* Committed rows have the types of their columns.
LEMMA CommittedRow ==
  ASSUME TypeOK, NEW i \in DOMAIN transactions
  PROVE  transactions[i] \in TransactionRows
<1>1. transactions \in Seq(TransactionRows)
  BY DEF TypeOK
<1> QED
  BY <1>1

LEMMA TypeInit == Init => TypeInv
<1> SUFFICES ASSUME Init PROVE TypeInv
  OBVIOUS
<1> USE DEF Init, TypeInv
<1>1. TypeOK
  BY MaxCrashesAssumption DEF TypeOK, Labels, Answers, NoAnswer, Links, genesis
<1>2. Prepared
  BY DEF Prepared, Validated, Resolved
<1> QED
  BY <1>1, <1>2

LEMMA TypeNext == TypeInv /\ [Next]_vars => TypeInv'
<1> SUFFICES ASSUME TypeInv, [Next]_vars PROVE TypeInv'
  OBVIOUS
<1> USE DEF TypeInv, TypeOK, Go, Acquire, database, locals
<1>1. ASSUME NEW r \in Attempts, LookupKey(r)
      PROVE  TypeInv'
  <2>1. \A i \in with_key(transactions, body[r].idempotency_key) :
          transactions[i].id \in Attempts
    BY CommittedRow DEF with_key, TransactionRows
  <2>2. answer' \in [Attempts -> Answers] /\ pc' \in [Attempts -> Labels]
    <3>1. /\ \E l \in Labels : Go(r, l)
          /\ \/ answer' = answer
             \/ \E s \in {201, 409, 422}, id \in Attempts \cup {NoTransaction} :
                  answer' = [answer EXCEPT ![r] = [status |-> s, id |-> id]]
      BY <1>1, <2>1 DEF LookupKey, Labels
    <3>2. ASSUME NEW s \in {201, 409, 422}, NEW id \in Attempts \cup {NoTransaction}
          PROVE  [status |-> s, id |-> id] \in Answers
      BY DEF Answers
    <3>3. answer' \in [Attempts -> Answers]
      BY <3>1, <3>2
    <3>4. pc' \in [Attempts -> Labels]
      BY <3>1
    <3> QED
      BY <3>3, <3>4
  <2>4. TypeOK'
    BY <1>1, <2>2 DEF LookupKey
  <2>3. Prepared'
    BY <1>1, BodyFields DEF LookupKey, Prepared, Validated, Resolved, Types
  <2> QED
    BY <2>3, <2>4
<1>2. ASSUME NEW r \in Attempts, FindClearing(r)
      PROVE  TypeInv'
  <2>1. TypeOK'
    BY <1>2 DEF FindClearing, Labels
  <2>2. Prepared'
    BY <1>2 DEF FindClearing, Prepared, Validated, Resolved
  <2> QED
    BY <2>1, <2>2
<1>3. ASSUME NEW r \in Attempts, LockClearing(r)
      PROVE  TypeInv'
  <2>1. TypeOK'
    BY <1>3 DEF LockClearing, Labels, Resources, ClearingLock
  <2>2. Prepared'
    BY <1>3 DEF LockClearing, Prepared, Validated, Resolved
  <2> QED
    BY <2>1, <2>2
<1>4. ASSUME NEW r \in Attempts, RecheckClearing(r)
      PROVE  TypeInv'
  <2>1. TypeOK'
    BY <1>4 DEF RecheckClearing, Labels
  <2>2. Prepared'
    BY <1>4 DEF RecheckClearing, Prepared, Validated, Resolved
  <2> QED
    BY <2>1, <2>2
<1>14. ASSUME NEW r \in Attempts, InsertClearing(r)
       PROVE  TypeInv'
  <2>1. CASE Rollback(r, 500)
    BY <2>1, RollbackType
  <2>2. CASE ~ Rollback(r, 500)
    <3>3. /\ Acquire(r, NameEntry) /\ Go(r, "lock_rows")
          /\ \E c \in ClearingIds : clearing_id' = [clearing_id EXCEPT ![r] = c]
          /\ created_clearing' = [created_clearing EXCEPT ![r] = TRUE]
          /\ UNCHANGED <<database, body, tip, answer, crashes>>
      BY <1>14, <2>2 DEF InsertClearing
    <3>4. NameEntry \in Resources
      BY DEF Resources, NameEntry
    <3>1. TypeOK'
      BY <3>3, <3>4 DEF Labels
    <3>2. Prepared'
      BY <1>14, <2>2 DEF InsertClearing, Prepared, Validated, Resolved
    <3> QED
      BY <3>1, <3>2
  <2> QED
    BY <2>1, <2>2
<1>5. ASSUME NEW r \in Attempts, LockRow(r)
      PROVE  TypeInv'
  <2> DEFINE a == next_row(unlocked(r), body[r])
  <2>1. CASE account_exists(r, a)
    <3>1. a \in Nat
      BY <2>1, IdsAssumption DEF account_exists, Prepared
    <3>2. Row(a) \in Resources
      BY <3>1 DEF Row, Resources
    <3> HIDE DEF a
    <3>3. /\ account_exists(r, a) /\ Acquire(r, Row(a))
          /\ Go(r, IF unlocked(r) # {a} THEN "lock_rows"
                   ELSE IF needs_funds(body[r]) THEN "check_balance" ELSE "insert")
          /\ UNCHANGED <<database, body, locals, answer, crashes>>
      BY <1>5, <2>1 DEF LockRow, a
    <3>5. pc' \in [Attempts -> Labels] /\ held' \in [Attempts -> SUBSET Resources]
      BY <3>2, <3>3 DEF Labels
    <3>6. TypeOK'
      BY <3>3, <3>5
    <3>4. Prepared'
      BY <1>5, <2>1 DEF LockRow, Prepared, Validated, Resolved, a
    <3> QED
      BY <3>4, <3>6
  <2>2. CASE ~ account_exists(r, a)
    BY <1>5, <2>2, RollbackType DEF LockRow
  <2> QED
    BY <2>1, <2>2
<1>6. ASSUME NEW r \in Attempts, CheckBalance(r)
      PROVE  TypeInv'
  <2>1. CASE Rollback(r, 422)
    BY <2>1, RollbackType
  <2>2. CASE Go(r, "insert") /\ UNCHANGED <<database, body, locals, held, answer, crashes>>
    <3>1. TypeOK'
      BY <2>2 DEF Labels
    <3>2. Prepared'
      BY <1>6, <2>2 DEF CheckBalance, Prepared, Validated, Resolved
    <3> QED
      BY <3>1, <3>2
  <2> QED
    BY <1>6, <2>1, <2>2 DEF CheckBalance
<1>7. ASSUME NEW r \in Attempts, InsertTransaction(r)
      PROVE  TypeInv'
  <2>1. CASE Rollback(r, 500)
    BY <2>1, RollbackType
  <2>2. CASE ~ Rollback(r, 500)
    <3>1. KeyEntry(body[r].idempotency_key) \in Resources
      BY BodyFields DEF KeyEntry, Resources
    <3>2. /\ Acquire(r, KeyEntry(body[r].idempotency_key))
          /\ Go(r, "lock_chain")
          /\ UNCHANGED <<database, body, locals, answer, crashes>>
      BY <1>7, <2>2 DEF InsertTransaction
    <3>4. TypeOK'
      BY <3>1, <3>2 DEF Labels
    <3>3. Prepared'
      BY <1>7, <3>2 DEF InsertTransaction, Prepared, Validated, Resolved
    <3> QED
      BY <3>3, <3>4
  <2> QED
    BY <2>1, <2>2
<1>8. ASSUME NEW r \in Attempts, LockChain(r)
      PROVE  TypeInv'
  <2>1. TypeOK'
    BY <1>8 DEF LockChain, Labels, Resources, ChainLock
  <2>2. Prepared'
    BY <1>8 DEF LockChain, Prepared, Validated, Resolved
  <2> QED
    BY <2>1, <2>2
<1>9. ASSUME NEW r \in Attempts, ReadTip(r)
      PROVE  TypeInv'
  <2>1. TypeOK'
    BY <1>9, ChainTipType DEF ReadTip, Labels
  <2>2. Prepared'
    BY <1>9 DEF ReadTip, Prepared, Validated, Resolved
  <2> QED
    BY <2>1, <2>2
<1>10. ASSUME NEW r \in Attempts, Commit(r)
       PROVE  TypeInv'
  <2>1. CASE seq_taken(r)
    BY <1>10, <2>1, RollbackType DEF Commit
  <2>2. CASE ~ seq_taken(r)
    <3>1. pc[r] = "commit"
      BY <1>10 DEF Commit
    <3>2. /\ new_transaction(r, body[r], tip[r]) \in TransactionRows
          /\ debit_entry(r, body[r], clearing_id[r]) \in EntryRows
          /\ credit_entry(r, body[r], clearing_id[r]) \in EntryRows
          /\ write_transaction_event(r, body[r]) \in EventRows
      BY <3>1, NewRowsType
    <3> DEFINE t == new_transaction(r, body[r], tip[r])
               d == debit_entry(r, body[r], clearing_id[r])
               e == credit_entry(r, body[r], clearing_id[r])
               o == write_transaction_event(r, body[r])
    <3>9. /\ transactions' = Append(transactions, t)
          /\ ledger_entries' = Append(Append(ledger_entries, d), e)
          /\ outbox_events' = Append(outbox_events, o)
      BY <1>10, <2>2 DEF Commit, events_with
    <3> HIDE DEF t, d, e, o
    <3>3. transactions' \in Seq(TransactionRows)
      BY <3>2, <3>9 DEF t
    <3>4. ledger_entries' \in Seq(EntryRows)
      <4> d \in EntryRows /\ e \in EntryRows /\ ledger_entries \in Seq(EntryRows)
        BY <3>2 DEF d, e
      <4> QED
        BY <3>9
    <3>5. outbox_events' \in Seq(EventRows)
      BY <3>2, <3>9 DEF o
    <3>6. clearing' \in ClearingIds \cup {NoAccount}
      BY <1>10, <2>2 DEF Commit
    <3>7. TypeOK'
      BY <1>10, <2>2, <3>3, <3>4, <3>5, <3>6 DEF Commit, Labels
    <3>8. Prepared'
      BY <1>10, <2>2 DEF Commit, Prepared, Validated, Resolved
    <3> QED
      BY <3>7, <3>8
  <2> QED
    BY <2>1, <2>2
<1>11. ASSUME NEW r \in Attempts, Refresh(r)
       PROVE  TypeInv'
  <2>1. TypeOK'
    BY <1>11 DEF Refresh, Labels, Answers
  <2>2. Prepared'
    BY <1>11 DEF Refresh, Prepared, Validated, Resolved
  <2> QED
    BY <2>1, <2>2
<1>12. ASSUME NEW r \in Attempts, Crash(r)
       PROVE  TypeInv'
  <2>1. TypeOK'
    BY <1>12, MaxCrashesAssumption DEF Crash, Labels, Answers
  <2>2. Prepared'
    BY <1>12 DEF Crash, Prepared, Validated, Resolved
  <2> QED
    BY <2>1, <2>2
<1>13. ASSUME UNCHANGED vars
       PROVE  TypeInv'
  BY <1>13 DEF vars, Prepared
<1> QED
  BY <1>1, <1>2, <1>3, <1>4, <1>5, <1>6, <1>7, <1>8, <1>9, <1>10, <1>11, <1>12,
     <1>13, <1>14 DEF Next, Statement, Terminating

\* Every column, local and lock keeps its type, with any number of attempts,
\* accounts and bodies.
THEOREM TypeCorrect == Spec => []TypeOK
<1>1. TypeInv => TypeOK
  BY DEF TypeInv
<1> QED
  BY <1>1, TypeInit, TypeNext, PTL DEF Spec

-----------------------------------------------------------------------------
\* Locks

\* What attempt r is known to hold at each statement.
HoldsFor(r) ==
  /\ pc[r] \in {"check_balance", "insert", "lock_chain", "read_tip", "commit"}
       => \A a \in involved(body[r], clearing_id[r]) : Row(a) \in held[r]
  /\ pc[r] \in {"lock_chain", "read_tip", "commit"}
       => KeyEntry(body[r].idempotency_key) \in held[r]
  /\ pc[r] \in {"read_tip", "commit"} => ChainLock \in held[r]
  /\ pc[r] \in {"recheck_clearing", "insert_clearing"} \/ created_clearing[r]
       => ClearingLock \in held[r]
  /\ created_clearing[r] => pc[r] \in Resolved

\* A lock has one holder, and each attempt holds what its statement needs.
LockInv ==
  /\ \A r, s \in Attempts : r # s => held[r] \cap held[s] = {}
  /\ \A r \in Attempts : HoldsFor(r)

\* Statements of r leave every other attempt alone.
Others(r) ==
  \A s \in Attempts \ {r} :
    /\ pc'[s] = pc[s] /\ body'[s] = body[s] /\ held'[s] = held[s]
    /\ clearing_id'[s] = clearing_id[s]
    /\ created_clearing'[s] = created_clearing[s]
    /\ tip'[s] = tip[s]

LEMMA OthersUnchanged ==
  ASSUME TypeInv, NEW r \in Attempts, LookupKey(r) \/ Statement(r) \/ Crash(r)
  PROVE  Others(r) /\ body' = body
<1> USE DEF TypeInv, TypeOK, Others, Go, Acquire, Rollback, database, locals
<1>1. CASE LookupKey(r)
  BY <1>1 DEF LookupKey
<1>2. CASE FindClearing(r) \/ LockClearing(r) \/ RecheckClearing(r) \/ InsertClearing(r)
  BY <1>2 DEF FindClearing, LockClearing, RecheckClearing, InsertClearing
<1>3. CASE LockRow(r)
  BY <1>3 DEF LockRow
<1>4. CASE CheckBalance(r)
  BY <1>4 DEF CheckBalance
<1>5. CASE InsertTransaction(r)
  BY <1>5 DEF InsertTransaction
<1>6. CASE LockChain(r) \/ ReadTip(r)
  BY <1>6 DEF LockChain, ReadTip
<1>7. CASE Commit(r)
  BY <1>7 DEF Commit
<1>8. CASE Refresh(r) \/ Crash(r)
  BY <1>8 DEF Refresh, Crash
<1> QED
  BY <1>1, <1>2, <1>3, <1>4, <1>5, <1>6, <1>7, <1>8 DEF Statement

\* A step of r that only keeps, drops or properly acquires locks, and after
\* which r holds what it needs, preserves LockInv.
LEMMA LockStep ==
  ASSUME TypeInv, LockInv, NEW r \in Attempts, Others(r), HoldsFor(r)',
         held'[r] \subseteq held[r]
           \/ \E x : Free(r, x) /\ held'[r] = held[r] \cup {x}
  PROVE  LockInv'
<1>1. ASSUME NEW s \in Attempts \ {r}
      PROVE  held'[r] \cap held'[s] = {}
  <2>1. held'[s] = held[s] /\ held[r] \cap held[s] = {}
    BY DEF Others, LockInv
  <2>2. CASE held'[r] \subseteq held[r]
    BY <2>1, <2>2
  <2>3. CASE \E x : Free(r, x) /\ held'[r] = held[r] \cup {x}
    BY <2>1, <2>3 DEF Free
  <2> QED
    BY <2>2, <2>3
<1>2. ASSUME NEW s \in Attempts, NEW u \in Attempts, s # u
      PROVE  held'[s] \cap held'[u] = {}
  <2>1. CASE s # r /\ u # r
    BY <1>2, <2>1 DEF Others, LockInv
  <2>2. CASE s = r \/ u = r
    BY <1>1, <1>2, <2>2
  <2> QED
    BY <2>1, <2>2
<1>3. ASSUME NEW s \in Attempts
      PROVE  HoldsFor(s)'
  <2>1. CASE s = r
    BY <2>1
  <2>2. CASE s # r
    <3>1. HoldsFor(s)
      BY DEF LockInv
    <3>2. /\ pc'[s] = pc[s] /\ body'[s] = body[s] /\ held'[s] = held[s]
          /\ clearing_id'[s] = clearing_id[s]
          /\ created_clearing'[s] = created_clearing[s]
      BY <2>2 DEF Others
    <3> QED
      BY <3>1, <3>2 DEF HoldsFor
  <2> QED
    BY <2>1, <2>2
<1> QED
  BY <1>2, <1>3 DEF LockInv

LEMMA LockInit == Init => LockInv
BY DEF Init, LockInv, HoldsFor

LEMMA LockNext == TypeInv /\ LockInv /\ [Next]_vars => LockInv'
<1> SUFFICES ASSUME TypeInv, LockInv, [Next]_vars PROVE LockInv'
  OBVIOUS
<1> DEFINE Step(r) == LookupKey(r) \/ Statement(r) \/ Crash(r)
           Locking(r) == held'[r] \subseteq held[r]
                           \/ \E x : Free(r, x) /\ held'[r] = held[r] \cup {x}
<1>1. ASSUME NEW r \in Attempts, Step(r)
      PROVE  LockInv'
  <2> USE DEF TypeInv, TypeOK, Go, Acquire, database, locals, Resolved
  <2>1. HoldsFor(r)
    BY DEF LockInv
  <2> SUFFICES Locking(r) /\ HoldsFor(r)'
    BY <1>1, OthersUnchanged, LockStep
  <2>2. CASE LookupKey(r)
    BY <2>1, <2>2 DEF LookupKey, HoldsFor
  <2>3. CASE FindClearing(r)
    BY <2>1, <2>3 DEF FindClearing, HoldsFor
  <2>4. CASE LockClearing(r)
    BY <2>1, <2>4 DEF LockClearing, HoldsFor
  <2>5. CASE RecheckClearing(r)
    BY <2>1, <2>5 DEF RecheckClearing, HoldsFor
  <2>6. ASSUME NEW status, Rollback(r, status)
        PROVE  Locking(r) /\ HoldsFor(r)'
    BY <2>6 DEF Rollback, HoldsFor
  <2>7. CASE LockRow(r)
    <3> DEFINE a == next_row(unlocked(r), body[r])
    <3>1. CASE Rollback(r, 404)
      BY <2>6, <3>1
    <3>2. CASE ~ Rollback(r, 404)
      <4>1. /\ pc[r] = "lock_rows" /\ Free(r, Row(a))
            /\ held' = [held EXCEPT ![r] = @ \cup {Row(a)}]
            /\ pc' = [pc EXCEPT ![r] =
                        IF unlocked(r) # {a} THEN "lock_rows"
                        ELSE IF needs_funds(body[r]) THEN "check_balance" ELSE "insert"]
            /\ UNCHANGED <<body, clearing_id, created_clearing>>
        BY <2>7, <3>2 DEF LockRow
      <4>2. pc'[r] # "lock_rows" =>
              \A x \in involved(body[r], clearing_id[r]) : Row(x) \in held'[r]
        BY <4>1 DEF unlocked
      <4> HIDE DEF a
      <4>3. HoldsFor(r)'
        BY <2>1, <4>1, <4>2 DEF HoldsFor
      <4> QED
        BY <4>1, <4>3
    <3> QED
      BY <3>1, <3>2
  <2>8. CASE CheckBalance(r)
    <3>1. CASE pc'[r] = "insert" /\ UNCHANGED <<body, locals, held>>
      BY <2>1, <2>8, <3>1 DEF CheckBalance, HoldsFor
    <3> QED
      BY <2>6, <2>8, <3>1 DEF CheckBalance
  <2>9. CASE InsertTransaction(r)
    <3>1. CASE ~ Rollback(r, 500)
      BY <2>1, <2>9, <3>1 DEF InsertTransaction, HoldsFor
    <3> QED
      BY <2>6, <3>1
  <2>15. CASE InsertClearing(r)
    <3>1. CASE ~ Rollback(r, 500)
      <4>1. /\ pc[r] = "insert_clearing" /\ pc'[r] = "lock_rows"
            /\ Free(r, NameEntry) /\ held'[r] = held[r] \cup {NameEntry}
        BY <2>15, <3>1 DEF InsertClearing
      <4>2. HoldsFor(r)'
        BY <2>1, <4>1 DEF HoldsFor
      <4> QED
        BY <4>1, <4>2
    <3> QED
      BY <2>6, <3>1
  <2>10. CASE LockChain(r)
    BY <2>1, <2>10 DEF LockChain, HoldsFor
  <2>11. CASE ReadTip(r)
    BY <2>1, <2>11 DEF ReadTip, HoldsFor
  <2>12. CASE Commit(r)
    <3>1. CASE ~ Rollback(r, 500)
      BY <2>1, <2>12, <3>1 DEF Commit, HoldsFor
    <3> QED
      BY <2>6, <3>1
  <2>13. CASE Refresh(r)
    BY <2>1, <2>13 DEF Refresh, HoldsFor
  <2>14. CASE Crash(r)
    BY <2>1, <2>14 DEF Crash, HoldsFor
  <2> QED
    BY <1>1, <2>2, <2>3, <2>4, <2>5, <2>7, <2>8, <2>9, <2>10, <2>11, <2>12,
       <2>13, <2>14, <2>15 DEF Statement
<1>2. CASE UNCHANGED vars
  BY <1>2 DEF LockInv, HoldsFor, vars, locals
<1> QED
  BY <1>1, <1>2 DEF Next, Terminating

-----------------------------------------------------------------------------
\* What the locks protect

\* The one kind of step that writes the database.
Writes(r) ==
  /\ pc[r] = "commit"
  /\ pc'[r] = "refresh"
  /\ transactions' = Append(transactions, new_transaction(r, body[r], tip[r]))
  /\ ledger_entries' = Append(Append(ledger_entries,
                                     debit_entry(r, body[r], clearing_id[r])),
                              credit_entry(r, body[r], clearing_id[r]))
  /\ outbox_events' = Append(outbox_events, write_transaction_event(r, body[r]))
  /\ clearing' = IF created_clearing[r] THEN clearing_id[r] ELSE clearing
  /\ created_clearing'[r] = FALSE

LEMMA OnlyCommitWrites ==
  ASSUME TypeInv, NEW r \in Attempts, LookupKey(r) \/ Statement(r) \/ Crash(r)
  PROVE  UNCHANGED database \/ Writes(r)
<1> USE DEF TypeInv, TypeOK, Go, Acquire, Rollback
<1>1. CASE LookupKey(r) \/ Crash(r) \/ Refresh(r)
  BY <1>1 DEF LookupKey, Crash, Refresh
<1>2. CASE FindClearing(r) \/ LockClearing(r) \/ RecheckClearing(r) \/ InsertClearing(r)
  BY <1>2 DEF FindClearing, LockClearing, RecheckClearing, InsertClearing
<1>3. CASE LockRow(r)
  BY <1>3 DEF LockRow
<1>4. CASE CheckBalance(r)
  BY <1>4 DEF CheckBalance
<1>5. CASE InsertTransaction(r)
  BY <1>5 DEF InsertTransaction
<1>6. CASE LockChain(r) \/ ReadTip(r)
  BY <1>6 DEF LockChain, ReadTip
<1>7. CASE Commit(r)
  BY <1>7 DEF Commit, Writes, events_with
<1> QED
  BY <1>1, <1>2, <1>3, <1>4, <1>5, <1>6, <1>7 DEF Statement

LEMMA BalancesAreNumbers ==
  ASSUME TypeOK, NEW a
  PROVE  compute_balance(ledger_entries, a) \in Int
<1>1. IntegerAmounts(EntryRows) /\ ledger_entries \in Seq(EntryRows)
  BY DEF IntegerAmounts, EntryRows, TypeOK
<1> QED
  BY <1>1, BalanceType

\* How r gets to the statements between the balance check and the commit.
LEMMA ReachesInsert ==
  ASSUME TypeInv, NEW r \in Attempts, LookupKey(r) \/ Statement(r) \/ Crash(r)
  PROVE  /\ pc'[r] \in {"insert", "lock_chain", "read_tip", "commit"}
              => /\ UNCHANGED <<database, body>>
                 /\ clearing_id'[r] = clearing_id[r]
                 /\ \/ pc[r] \in {"insert", "lock_chain", "read_tip", "commit"}
                    \/ ~ needs_funds(body[r])
                    \/ compute_balance(ledger_entries, debited(body[r], clearing_id[r]))
                         >= body[r].amount
         /\ pc'[r] \in {"lock_chain", "read_tip", "commit"}
              => pc[r] \in {"lock_chain", "read_tip", "commit"} \/ ~ key_taken(r)
         /\ pc'[r] = "commit" => tip'[r] = chain_tip(transactions)
         /\ created_clearing'[r] => created_clearing[r] \/ clearing = NoAccount
<1> USE DEF TypeInv, TypeOK, Go, Acquire, Rollback, database, locals
<1>1. CASE LookupKey(r) \/ Crash(r) \/ Refresh(r)
  BY <1>1 DEF LookupKey, Crash, Refresh, Labels
<1>2. CASE FindClearing(r) \/ LockClearing(r) \/ RecheckClearing(r) \/ InsertClearing(r)
  BY <1>2 DEF FindClearing, LockClearing, RecheckClearing, InsertClearing
<1>3. CASE LockRow(r)
  BY <1>3 DEF LockRow
<1>4. CASE CheckBalance(r)
  <2> DEFINE x == compute_balance(ledger_entries, debited(body[r], clearing_id[r]))
  <2>1. x \in Int /\ body[r].amount \in Nat
    BY BalancesAreNumbers, BodyFields
  <2>2. x < body[r].amount \/ x >= body[r].amount
    BY <2>1
  <2> QED
    BY <1>4, <2>1, <2>2 DEF CheckBalance
<1>5. CASE InsertTransaction(r)
  BY <1>5 DEF InsertTransaction
<1>6. CASE LockChain(r) \/ ReadTip(r)
  BY <1>6 DEF LockChain, ReadTip
<1>7. CASE Commit(r)
  BY <1>7 DEF Commit
<1> QED
  BY <1>1, <1>2, <1>3, <1>4, <1>5, <1>6, <1>7 DEF Statement

-----------------------------------------------------------------------------
\* Keys

\* An attempt past its insert is the only one with its key, committed or not.
KeyInv ==
  /\ KeyAppliedOnce
  /\ \A r \in Attempts :
       pc[r] \in {"lock_chain", "read_tip", "commit"} => ~ key_taken(r)

LEMMA KeyNext == TypeInv /\ LockInv /\ KeyInv /\ [Next]_vars => KeyInv'
<1> SUFFICES ASSUME TypeInv, LockInv, KeyInv, [Next]_vars PROVE KeyInv'
  OBVIOUS
<1>1. ASSUME NEW r \in Attempts, LookupKey(r) \/ Statement(r) \/ Crash(r)
      PROVE  KeyInv'
  <2>1. Others(r) /\ body' = body
    BY <1>1, OthersUnchanged
  <2>2. pc'[r] \in {"lock_chain", "read_tip", "commit"}
          => pc[r] \in {"lock_chain", "read_tip", "commit"} \/ ~ key_taken(r)
    BY <1>1, ReachesInsert
  <2>3. CASE UNCHANGED database
    BY <2>1, <2>2, <2>3 DEF KeyInv, KeyAppliedOnce, key_taken, with_key, database, Others
  <2>4. CASE Writes(r)
    <3> DEFINE row == new_transaction(r, body[r], tip[r])
               N == Len(transactions)
    <3>1. row.idempotency_key = body[r].idempotency_key
      BY DEF new_transaction
    <3>2. transactions' = Append(transactions, row) /\ pc[r] = "commit" /\ pc'[r] = "refresh"
      BY <2>4 DEF Writes
    <3>3. /\ N \in Nat /\ DOMAIN transactions = 1 .. N
          /\ DOMAIN transactions' = 1 .. N + 1
          /\ \A i \in 1 .. N : transactions'[i] = transactions[i]
          /\ transactions'[N + 1] = row
      BY <3>2 DEF TypeInv, TypeOK
    <3>4. \A i \in DOMAIN transactions :
            transactions[i].idempotency_key # body[r].idempotency_key
      BY <3>2 DEF KeyInv, key_taken, with_key
    <3> HIDE DEF row, N
    <3>5. KeyAppliedOnce'
      <4> SUFFICES ASSUME NEW i \in DOMAIN transactions', NEW j \in DOMAIN transactions',
                          transactions'[i].idempotency_key = transactions'[j].idempotency_key
                   PROVE  i = j
        BY DEF KeyAppliedOnce
      <4>1. (i \in 1 .. N \/ i = N + 1) /\ (j \in 1 .. N \/ j = N + 1)
        BY <3>3
      <4> QED
        BY <3>1, <3>3, <3>4, <4>1 DEF KeyInv, KeyAppliedOnce
    <3>6. ASSUME NEW s \in Attempts, pc'[s] \in {"lock_chain", "read_tip", "commit"}
          PROVE  ~ key_taken(s)'
      <4>1. s # r /\ pc[s] = pc'[s] /\ body'[s] = body[s]
        BY <2>1, <3>2, <3>6 DEF Others
      <4>2. /\ KeyEntry(body[s].idempotency_key) \in held[s]
            /\ KeyEntry(body[r].idempotency_key) \in held[r]
            /\ held[s] \cap held[r] = {}
        BY <3>2, <3>6, <4>1 DEF LockInv, HoldsFor
      <4>3. body[s].idempotency_key # body[r].idempotency_key
        BY <4>2
      <4>4. \A i \in DOMAIN transactions :
              transactions[i].idempotency_key # body[s].idempotency_key
        BY <3>6, <4>1 DEF KeyInv, key_taken, with_key
      <4>5. ASSUME NEW i \in DOMAIN transactions'
            PROVE  transactions'[i].idempotency_key # body[s].idempotency_key
        <5>1. i \in 1 .. N \/ i = N + 1
          BY <3>3
        <5> QED
          BY <3>1, <3>3, <4>3, <4>4, <5>1
      <4> QED
        BY <4>1, <4>5 DEF key_taken, with_key
    <3> QED
      BY <3>5, <3>6 DEF KeyInv
  <2> QED
    BY <1>1, <2>3, <2>4, OnlyCommitWrites
<1>2. CASE UNCHANGED vars
  BY <1>2 DEF KeyInv, KeyAppliedOnce, key_taken, with_key, vars, database
<1> QED
  BY <1>1, <1>2 DEF Next, Terminating

\* One idempotency key never moves money twice, whatever the number of
\* duplicates, retries and crashes (service.py:85-105, models.py:46).
THEOREM KeysAppliedOnce == Spec => []KeyAppliedOnce
<1>1. Init => KeyInv
  BY DEF Init, KeyInv, KeyAppliedOnce
<1>2. KeyInv => KeyAppliedOnce
  BY DEF KeyInv
<1> QED
  BY <1>1, <1>2, TypeInit, TypeNext, LockInit, LockNext, KeyNext, PTL DEF Spec

-----------------------------------------------------------------------------
\* The chain

ChainInv == ChainLinear /\ TipIsFinal

\* In a linear chain the tip is the last row.
LEMMA TipIsLast ==
  ASSUME TypeOK, ChainLinear
  PROVE  chain_tip(transactions) =
           IF transactions = <<>> THEN genesis
           ELSE [chain_seq |-> Len(transactions),
                 id |-> transactions[Len(transactions)].id]
<1> DEFINE N == Len(transactions)
           Highest(i) == \A j \in DOMAIN transactions :
                           transactions[j].chain_seq <= transactions[i].chain_seq
           top == CHOOSE i \in DOMAIN transactions : Highest(i)
<1>1. CASE transactions = <<>>
  BY <1>1 DEF chain_tip
<1>2. CASE transactions # <<>>
  <2>1. /\ DOMAIN transactions = 1 .. N /\ N \in Nat \ {0}
        /\ \A i \in 1 .. N : transactions[i].chain_seq = i
    BY <1>2 DEF TypeOK, ChainLinear
  <2>2. \A i \in 1 .. N : Highest(i) <=> i = N
    <3> N \in 1 .. N
      BY <2>1
    <3> HIDE DEF N
    <3> QED
      BY <2>1
  <2>3. top \in DOMAIN transactions /\ Highest(top)
    <3> N \in 1 .. N
      BY <2>1
    <3> HIDE DEF N, Highest
    <3> QED
      BY <2>1, <2>2
  <2>4. top = N
    <3> HIDE DEF N, Highest, top
    <3> QED
      BY <2>1, <2>2, <2>3
  <2>5. chain_tip(transactions)
          = [chain_seq |-> transactions[top].chain_seq, id |-> transactions[top].id]
    BY <1>2 DEF chain_tip
  <2>6. transactions[N].chain_seq = N
    <3> N \in 1 .. N
      BY <2>1
    <3> QED
      BY <2>1
  <2> QED
    BY <1>2, <2>4, <2>5, <2>6
<1> QED
  BY <1>1, <1>2

\* The chain lock keeps the tip that was read, so every commit extends it.
LEMMA ChainNext == TypeInv /\ LockInv /\ ChainInv /\ [Next]_vars => ChainInv'
<1> SUFFICES ASSUME TypeInv, LockInv, ChainInv, [Next]_vars PROVE ChainInv'
  OBVIOUS
<1>1. ASSUME NEW r \in Attempts, LookupKey(r) \/ Statement(r) \/ Crash(r)
      PROVE  ChainInv'
  <2>1. Others(r)
    BY <1>1, OthersUnchanged
  <2>2. CASE UNCHANGED database
    <3>1. ChainLinear'
      BY <2>2 DEF ChainInv, ChainLinear, database
    <3>2. ASSUME NEW s \in Attempts, pc'[s] = "commit"
          PROVE  tip'[s] = chain_tip(transactions)
      <4>1. CASE s = r
        BY <1>1, <3>2, <4>1, ReachesInsert
      <4>2. CASE s # r
        BY <2>1, <3>2, <4>2 DEF Others, ChainInv, TipIsFinal
      <4> QED
        BY <4>1, <4>2
    <3> QED
      BY <2>2, <3>1, <3>2 DEF ChainInv, TipIsFinal, database
  <2>3. CASE Writes(r)
    <3> DEFINE row == new_transaction(r, body[r], tip[r])
               N == Len(transactions)
    <3>1. row.chain_seq = tip[r].chain_seq + 1 /\ row.prev = tip[r].id
      BY DEF new_transaction
    <3>2. transactions' = Append(transactions, row) /\ pc[r] = "commit" /\ pc'[r] = "refresh"
      BY <2>3 DEF Writes
    <3>3. /\ N \in Nat /\ DOMAIN transactions = 1 .. N
          /\ DOMAIN transactions' = 1 .. N + 1
          /\ \A i \in 1 .. N : transactions'[i] = transactions[i]
          /\ transactions'[N + 1] = row
          /\ transactions = <<>> <=> N = 0
      BY <3>2 DEF TypeInv, TypeOK
    <3>4. tip[r] = IF transactions = <<>> THEN genesis
                   ELSE [chain_seq |-> N, id |-> transactions[N].id]
      BY <3>2, TipIsLast DEF ChainInv, TipIsFinal, TypeInv
    <3>5. /\ tip[r].chain_seq = N
          /\ tip[r].id = IF N = 0 THEN NoTransaction ELSE transactions[N].id
      BY <3>3, <3>4 DEF genesis
    <3> HIDE DEF row, N
    <3>6. ChainLinear'
      <4> SUFFICES ASSUME NEW i \in DOMAIN transactions'
                   PROVE  /\ transactions'[i].chain_seq = i
                          /\ transactions'[i].prev =
                               IF i = 1 THEN NoTransaction ELSE transactions'[i - 1].id
        BY DEF ChainLinear
      <4>1. CASE i \in 1 .. N
        <5>1. i # 1 => i - 1 \in 1 .. N
          BY <3>3, <4>1
        <5> QED
          BY <3>3, <4>1, <5>1 DEF ChainInv, ChainLinear
      <4>2. CASE i = N + 1
        <5>1. i = 1 <=> N = 0
          BY <3>3, <4>2
        <5>2. N # 0 => transactions'[i - 1] = transactions[N]
          BY <3>3, <4>2
        <5> QED
          BY <3>1, <3>3, <3>5, <4>2, <5>1, <5>2
      <4> QED
        BY <3>3, <4>1, <4>2
    <3>7. ASSUME NEW s \in Attempts
          PROVE  pc'[s] # "commit"
      <4>1. CASE s = r
        BY <3>2, <4>1
      <4>2. CASE s # r
        <5>1. pc[s] # "commit"
          BY <3>2, <4>2 DEF LockInv, HoldsFor
        <5> QED
          BY <2>1, <4>2, <5>1 DEF Others
      <4> QED
        BY <4>1, <4>2
    <3> QED
      BY <3>6, <3>7 DEF ChainInv, TipIsFinal
  <2> QED
    BY <1>1, <2>2, <2>3, OnlyCommitWrites
<1>2. CASE UNCHANGED vars
  BY <1>2 DEF ChainInv, ChainLinear, TipIsFinal, vars, database, locals
<1> QED
  BY <1>1, <1>2 DEF Next, Terminating

LEMMA ChainInit == Init => ChainInv
BY DEF Init, ChainInv, ChainLinear, TipIsFinal

\* The hash chain is one line without fork or gap, in commit order, however
\* many writers append to it (chain.py:32-48).
THEOREM ChainIsLinear == Spec => []ChainLinear
<1>1. ChainInv => ChainLinear
  BY DEF ChainInv
<1> QED
  BY <1>1, ChainInit, ChainNext, TypeInit, TypeNext, LockInit, LockNext, PTL DEF Spec

\* The tip read under the chain lock is final, as the comment at chain.py:33-35
\* says.
THEOREM TipStaysFinal == Spec => []TipIsFinal
<1>1. ChainInv => TipIsFinal
  BY DEF ChainInv
<1> QED
  BY <1>1, ChainInit, ChainNext, TypeInit, TypeNext, LockInit, LockNext, PTL DEF Spec

-----------------------------------------------------------------------------
\* Money

MoneyInv == NoOverdraft /\ CheckedBalanceHolds

\* What one commit does to the balance of any account.
LEMMA BalanceAfterCommit ==
  ASSUME TypeInv, NEW r \in Attempts, Writes(r), NEW a
  PROVE  compute_balance(ledger_entries', a) =
           compute_balance(ledger_entries, a)
             - (IF a = debited(body[r], clearing_id[r]) THEN body[r].amount ELSE 0)
             + (IF a = credited(body[r], clearing_id[r]) THEN body[r].amount ELSE 0)
<1> DEFINE d == debit_entry(r, body[r], clearing_id[r])
           e == credit_entry(r, body[r], clearing_id[r])
           once == Append(ledger_entries, d)
<1>1. d \in EntryRows /\ e \in EntryRows
  BY NewRowsType DEF Writes
<1>2. ledger_entries \in Seq(EntryRows) /\ IntegerAmounts(EntryRows)
  BY DEF TypeInv, TypeOK, IntegerAmounts, EntryRows
<1>3. body[r].amount \in Nat
  BY BodyFields DEF TypeInv, TypeOK
<1>4. /\ share(d, a) = IF a = debited(body[r], clearing_id[r])
                       THEN -body[r].amount ELSE 0
      /\ share(e, a) = IF a = credited(body[r], clearing_id[r])
                       THEN body[r].amount ELSE 0
  BY DEF share, debit_entry, credit_entry
<1>5. ledger_entries' = Append(once, e)
  BY DEF Writes
<1> HIDE DEF d, e
<1>6. once \in Seq(EntryRows)
  BY <1>1, <1>2
<1>7. compute_balance(once, a) = compute_balance(ledger_entries, a) + share(d, a)
  BY <1>1, <1>2, BalanceOfAppend
<1>8. compute_balance(Append(once, e), a) = compute_balance(once, a) + share(e, a)
  <2> HIDE DEF once
  <2> QED
    BY <1>1, <1>2, <1>6, BalanceOfAppend
<1>9. compute_balance(ledger_entries, a) \in Int
  BY BalancesAreNumbers DEF TypeInv
<1> QED
  BY <1>3, <1>4, <1>5, <1>7, <1>8, <1>9

LEMMA MoneyNext == TypeInv /\ LockInv /\ MoneyInv /\ [Next]_vars => MoneyInv'
<1> SUFFICES ASSUME TypeInv, LockInv, MoneyInv, [Next]_vars PROVE MoneyInv'
  OBVIOUS
<1> DEFINE Past == {"insert", "lock_chain", "read_tip", "commit"}
           Payer(r) == debited(body[r], clearing_id[r])
           Covered(r) == compute_balance(ledger_entries, Payer(r)) >= body[r].amount
<1>1. ASSUME NEW r \in Attempts, LookupKey(r) \/ Statement(r) \/ Crash(r)
      PROVE  MoneyInv'
  <2>1. Others(r) /\ body' = body
    BY <1>1, OthersUnchanged
  <2>2. CASE UNCHANGED database
    <3>1. NoOverdraft'
      BY <2>2 DEF MoneyInv, NoOverdraft, database
    <3>2. ASSUME NEW s \in Attempts, pc'[s] \in Past, needs_funds(body[s])
          PROVE  Covered(s) /\ clearing_id'[s] = clearing_id[s]
      <4>1. CASE s = r
        BY <1>1, <3>2, <4>1, ReachesInsert DEF MoneyInv, CheckedBalanceHolds
      <4>2. CASE s # r
        BY <2>1, <3>2, <4>2 DEF Others, MoneyInv, CheckedBalanceHolds
      <4> QED
        BY <4>1, <4>2
    <3>3. CheckedBalanceHolds'
      BY <2>1, <2>2, <3>2 DEF CheckedBalanceHolds, database
    <3> QED
      BY <3>1, <3>3 DEF MoneyInv
  <2>3. CASE Writes(r)
    <3>1. pc[r] = "commit" /\ pc'[r] = "refresh"
      BY <2>3 DEF Writes
    <3>2. \A s \in Attempts : body[s].amount \in Nat
      BY BodyFields DEF TypeInv, TypeOK
    <3>3. NoOverdraft'
      <4> SUFFICES ASSUME NEW a \in Customers
                   PROVE  compute_balance(ledger_entries', a) >= 0
        BY DEF NoOverdraft
      <4>1. compute_balance(ledger_entries, a) \in Int /\ compute_balance(ledger_entries, a) >= 0
        BY BalancesAreNumbers DEF TypeInv, MoneyInv, NoOverdraft
      <4>2. a = Payer(r) => Covered(r)
        <5>1. CASE needs_funds(body[r])
          BY <3>1, <5>1 DEF MoneyInv, CheckedBalanceHolds
        <5>2. CASE ~ needs_funds(body[r])
          <6>1. Payer(r) = clearing_id[r] /\ clearing_id[r] \in ClearingIds
            BY <3>1, <5>2 DEF needs_funds, debited, TypeInv, Prepared, Resolved
          <6> QED
            BY <6>1, IdsAssumption
        <5> QED
          BY <5>1, <5>2
      <4> QED
        BY <2>3, <3>2, <4>1, <4>2, BalanceAfterCommit
    <3>4. ASSUME NEW s \in Attempts, pc'[s] \in Past, needs_funds(body[s])
          PROVE  /\ clearing_id'[s] = clearing_id[s]
                 /\ compute_balance(ledger_entries', Payer(s)) >= body[s].amount
      <4>1. s # r /\ pc[s] \in Past /\ clearing_id'[s] = clearing_id[s]
        BY <2>1, <3>1, <3>4 DEF Others
      <4>2. Covered(s)
        BY <3>4, <4>1 DEF MoneyInv, CheckedBalanceHolds
      <4>3. Payer(s) \in involved(body[s], clearing_id[s])
        BY DEF involved
      <4>4. Row(Payer(s)) \in held[s] /\ held[s] \cap held[r] = {}
        BY <4>1, <4>3 DEF LockInv, HoldsFor
      <4>5. \A a \in involved(body[r], clearing_id[r]) : Row(a) \in held[r]
        BY <3>1 DEF LockInv, HoldsFor
      <4>6. Payer(s) # debited(body[r], clearing_id[r]) /\ Payer(s) # credited(body[r], clearing_id[r])
        BY <4>4, <4>5 DEF involved
      <4>7. compute_balance(ledger_entries', Payer(s)) = compute_balance(ledger_entries, Payer(s))
        BY <2>3, <4>6, BalanceAfterCommit, BalancesAreNumbers DEF TypeInv
      <4> QED
        BY <4>1, <4>2, <4>7
    <3>5. CheckedBalanceHolds'
      BY <2>1, <3>4 DEF CheckedBalanceHolds
    <3> QED
      BY <3>3, <3>5 DEF MoneyInv
  <2> QED
    BY <1>1, <2>2, <2>3, OnlyCommitWrites
<1>2. CASE UNCHANGED vars
  BY <1>2 DEF MoneyInv, NoOverdraft, CheckedBalanceHolds, vars, database, locals
<1> QED
  BY <1>1, <1>2 DEF Next, Terminating

LEMMA MoneyInit == Init => MoneyInv
BY BalanceOfNone DEF Init, MoneyInv, NoOverdraft, CheckedBalanceHolds

\* No customer balance is ever negative, however many spends race
\* (service.py:130-134, 158-162).
THEOREM NeverOverdrawn == Spec => []NoOverdraft
<1>1. MoneyInv => NoOverdraft
  BY DEF MoneyInv
<1> QED
  BY <1>1, MoneyInit, MoneyNext, TypeInit, TypeNext, LockInit, LockNext, PTL DEF Spec

\* A balance that passed its check covers the amount until the commit.
THEOREM ChecksHold == Spec => []CheckedBalanceHolds
<1>1. MoneyInv => CheckedBalanceHolds
  BY DEF MoneyInv
<1> QED
  BY <1>1, MoneyInit, MoneyNext, TypeInit, TypeNext, LockInit, LockNext, PTL DEF Spec

-----------------------------------------------------------------------------
\* Steps and locks

Step(r) == LookupKey(r) \/ Statement(r) \/ Crash(r)

\* How the locks of r can change in a step, and where that leads.
LEMMA LockChange ==
  ASSUME TypeInv, NEW r \in Attempts, Step(r)
  PROVE  \/ held'[r] = {} /\ pc'[r] \in {"done", "refresh"}
         \/ /\ held'[r] = held[r]
            /\ \/ /\ pc[r] \in {"idle", "find_clearing"}
                  /\ pc'[r] \in {"done", "find_clearing", "lock_clearing", "lock_rows"}
               \/ pc[r] = "recheck_clearing" /\ pc'[r] \in {"lock_rows", "insert_clearing"}
               \/ pc[r] = "check_balance" /\ pc'[r] = "insert"
               \/ pc[r] = "read_tip" /\ pc'[r] = "commit"
               \/ pc[r] = "refresh" /\ pc'[r] = "done"
         \/ /\ pc[r] = "lock_clearing" /\ pc'[r] = "recheck_clearing"
            /\ held'[r] = held[r] \cup {ClearingLock}
         \/ /\ pc[r] = "insert_clearing" /\ pc'[r] = "lock_rows"
            /\ held'[r] = held[r] \cup {NameEntry}
         \/ /\ pc[r] = "lock_rows" /\ pc'[r] \in {"lock_rows", "check_balance", "insert"}
            /\ account_exists(r, next_row(unlocked(r), body[r]))
            /\ held'[r] = held[r] \cup {Row(next_row(unlocked(r), body[r]))}
            /\ pc'[r] = "lock_rows" => unlocked(r) # {next_row(unlocked(r), body[r])}
            /\ clearing_id'[r] = clearing_id[r]
         \/ /\ pc[r] = "insert" /\ pc'[r] = "lock_chain"
            /\ held'[r] = held[r] \cup {KeyEntry(body[r].idempotency_key)}
         \/ /\ pc[r] = "lock_chain" /\ pc'[r] = "read_tip"
            /\ held'[r] = held[r] \cup {ChainLock}
<1> USE DEF TypeInv, TypeOK, Go, Acquire, Rollback, locals
<1>1. CASE LookupKey(r)
  BY <1>1 DEF LookupKey
<1>2. CASE Crash(r)
  BY <1>2 DEF Crash
<1>3. CASE Refresh(r)
  BY <1>3 DEF Refresh
<1>4. CASE FindClearing(r)
  BY <1>4 DEF FindClearing
<1>5. CASE LockClearing(r)
  BY <1>5 DEF LockClearing
<1>6. CASE RecheckClearing(r)
  BY <1>6 DEF RecheckClearing
<1>7. CASE InsertClearing(r)
  BY <1>7 DEF InsertClearing
<1>8. CASE LockRow(r)
  BY <1>8 DEF LockRow
<1>9. CASE CheckBalance(r)
  BY <1>9 DEF CheckBalance
<1>10. CASE InsertTransaction(r)
  BY <1>10 DEF InsertTransaction
<1>11. CASE LockChain(r)
  BY <1>11 DEF LockChain
<1>12. CASE ReadTip(r)
  BY <1>12 DEF ReadTip
<1>13. CASE Commit(r)
  BY <1>13 DEF Commit
<1> QED
  BY <1>1, <1>2, <1>3, <1>4, <1>5, <1>6, <1>7, <1>8, <1>9, <1>10, <1>11, <1>12,
     <1>13 DEF Step, Statement

-----------------------------------------------------------------------------
\* Accounts exist

\* Only rows of existing accounts are ever locked.
ExistInv ==
  \A r \in Attempts : \A a \in Nat :
    Row(a) \in held[r] => a \in Customers \cup ClearingIds

LEMMA ExistNext == TypeInv /\ ExistInv /\ [Next]_vars => ExistInv'
<1> SUFFICES ASSUME TypeInv, ExistInv, [Next]_vars PROVE ExistInv'
  OBVIOUS
<1>1. ASSUME NEW r \in Attempts, Step(r)
      PROVE  ExistInv'
  <2> DEFINE n == next_row(unlocked(r), body[r])
  <2>1. account_exists(r, n) => n \in Customers \cup ClearingIds
    BY DEF account_exists, TypeInv, TypeOK, Prepared
  <2>2. ASSUME NEW a \in Nat, Row(a) \in held'[r]
        PROVE  a \in Customers \cup ClearingIds
    <3>1. Row(a) \in held[r] \/ (account_exists(r, n) /\ Row(a) = Row(n))
      BY <1>1, <2>2, LockChange DEF Row, ClearingLock, NameEntry, KeyEntry, ChainLock
    <3>2. Row(a) = Row(n) => a = n
      BY DEF Row
    <3> QED
      BY <2>1, <3>1, <3>2 DEF ExistInv
  <2>3. ASSUME NEW s \in Attempts \ {r}
        PROVE  held'[s] = held[s]
    BY <1>1, OthersUnchanged DEF Step, Others
  <2> QED
    BY <2>2, <2>3 DEF ExistInv
<1>2. CASE UNCHANGED vars
  BY <1>2 DEF ExistInv, vars
<1> QED
  BY <1>1, <1>2 DEF Next, Terminating, Step

LEMMA ExistInit == Init => ExistInv
BY DEF Init, ExistInv

\* The two accounts of a commit exist.
LEMMA CommitsBetweenAccounts ==
  ASSUME TypeInv, LockInv, ExistInv, NEW r \in Attempts, pc[r] = "commit"
  PROVE  /\ debited(body[r], clearing_id[r]) \in Customers \cup ClearingIds
         /\ credited(body[r], clearing_id[r]) \in Customers \cup ClearingIds
<1> DEFINE d == debited(body[r], clearing_id[r])
           c == credited(body[r], clearing_id[r])
<1>1. d \in Nat /\ c \in Nat
  BY InvolvedAreIds DEF TypeInv, TypeOK, Prepared, Resolved
<1>2. Row(d) \in held[r] /\ Row(c) \in held[r]
  BY DEF LockInv, HoldsFor, involved
<1> QED
  BY <1>1, <1>2 DEF ExistInv

-----------------------------------------------------------------------------
\* Lock order

\* How far up r has locked at each statement.
LevelOf(r) ==
  /\ pc[r] \in {"idle", "find_clearing", "lock_clearing"} => held[r] = {}
  /\ pc[r] \in {"recheck_clearing", "insert_clearing"} => \A x \in held[r] : x[1] = 0
  /\ pc[r] \in {"lock_rows", "check_balance", "insert"} => \A x \in held[r] : x[1] <= 2
  /\ pc[r] = "lock_chain" => \A x \in held[r] : x[1] <= 3
  /\ pc[r] = "lock_rows" =>
       /\ unlocked(r) # {}
       /\ \A a \in Nat, b \in unlocked(r) : Row(a) \in held[r] => a < b

LevelInv == \A r \in Attempts : LevelOf(r)

\* sorted() hands out the lowest row that is left.
LEMMA LowestRow ==
  ASSUME TypeInv, NEW r \in Attempts, pc[r] = "lock_rows", unlocked(r) # {}
  PROVE  LET n == next_row(unlocked(r), body[r])
         IN  n \in Nat /\ n \in unlocked(r) /\ \A x \in unlocked(r) : n <= x
<1> DEFINE d == debited(body[r], clearing_id[r])
           c == credited(body[r], clearing_id[r])
<1>1. d \in Nat /\ c \in Nat
  BY InvolvedAreIds DEF TypeInv, TypeOK, Prepared, Resolved
<1>2. unlocked(r) \subseteq {d, c}
  BY DEF unlocked, involved
<1> HIDE DEF d, c
<1>3. \E a \in unlocked(r) : \A x \in unlocked(r) : a <= x
  BY <1>1, <1>2
<1>4. unlocked(r) \subseteq Nat
  BY <1>1, <1>2
<1> QED
  BY <1>3, <1>4 DEF next_row

LEMMA LevelNext == TypeInv /\ LevelInv /\ [Next]_vars => LevelInv'
<1> SUFFICES ASSUME TypeInv, LevelInv, [Next]_vars PROVE LevelInv'
  OBVIOUS
<1>1. ASSUME NEW r \in Attempts, Step(r)
      PROVE  LevelInv'
  <2> DEFINE n == next_row(unlocked(r), body[r])
  <2>1. Others(r) /\ body' = body
    BY <1>1, OthersUnchanged DEF Step
  <2>2. ASSUME NEW s \in Attempts \ {r}
        PROVE  LevelOf(s)'
    BY <2>1 DEF Others, LevelInv, LevelOf, unlocked
  <2>3. LevelOf(r)
    BY DEF LevelInv
  <2>4. ASSUME pc'[r] = "lock_rows", \A x \in held'[r] : x[1] <= 1
        PROVE  unlocked(r)' # {} /\ \A a \in Nat : Row(a) \notin held'[r]
    BY <2>4 DEF unlocked, involved, Row
  <2>5. LevelOf(r)'
    <3> USE <2>3 DEF LevelOf
    <3>1. CASE held'[r] = {} /\ pc'[r] \in {"done", "refresh"}
      BY <3>1
    <3>2. CASE /\ held'[r] = held[r]
               /\ \/ /\ pc[r] \in {"idle", "find_clearing"}
                     /\ pc'[r] \in {"done", "find_clearing", "lock_clearing", "lock_rows"}
                  \/ pc[r] = "recheck_clearing" /\ pc'[r] \in {"lock_rows", "insert_clearing"}
      BY <2>4, <3>2
    <3>3. CASE /\ held'[r] = held[r]
               /\ \/ pc[r] = "check_balance" /\ pc'[r] = "insert"
                  \/ pc[r] = "read_tip" /\ pc'[r] = "commit"
                  \/ pc[r] = "refresh" /\ pc'[r] = "done"
      BY <3>3
    <3>4. CASE /\ pc[r] = "lock_clearing" /\ pc'[r] = "recheck_clearing"
               /\ held'[r] = held[r] \cup {ClearingLock}
      BY <3>4 DEF ClearingLock
    <3>5. CASE /\ pc[r] = "insert_clearing" /\ pc'[r] = "lock_rows"
               /\ held'[r] = held[r] \cup {NameEntry}
      BY <2>4, <3>5 DEF NameEntry
    <3>6. CASE /\ pc[r] = "lock_rows" /\ pc'[r] \in {"lock_rows", "check_balance", "insert"}
               /\ held'[r] = held[r] \cup {Row(n)}
               /\ pc'[r] = "lock_rows" => unlocked(r) # {n}
               /\ clearing_id'[r] = clearing_id[r]
      <4>1. n \in Nat /\ n \in unlocked(r) /\ \A x \in unlocked(r) : n <= x
        BY <3>6, LowestRow
      <4>2. unlocked(r) \subseteq Nat
        BY <3>6, InvolvedAreIds DEF unlocked, involved, TypeInv, TypeOK, Prepared, Resolved
      <4> HIDE DEF n
      <4>3. unlocked(r)' = unlocked(r) \ {n}
        BY <2>1, <3>6 DEF unlocked, Row
      <4>4. \A a \in Nat : Row(a) \in held'[r] => Row(a) \in held[r] \/ a = n
        BY <3>6 DEF Row
      <4>5. pc'[r] = "lock_rows" =>
              /\ unlocked(r)' # {}
              /\ \A a \in Nat, b \in unlocked(r)' : Row(a) \in held'[r] => a < b
        BY <3>6, <4>1, <4>2, <4>3, <4>4
      <4>6. \A x \in held'[r] : x[1] <= 2
        BY <3>6 DEF Row
      <4> QED
        BY <3>6, <4>5, <4>6
    <3>7. CASE /\ pc[r] = "insert" /\ pc'[r] = "lock_chain"
               /\ held'[r] = held[r] \cup {KeyEntry(body[r].idempotency_key)}
      <4>1. \A x \in held[r] : x[1] <= 3
        <5>1. \A x \in held[r] : x[1] \in Int
          BY DEF TypeInv, TypeOK, Resources
        <5> QED
          BY <3>7, <5>1
      <4> QED
        BY <3>7, <4>1 DEF KeyEntry
    <3>8. CASE /\ pc[r] = "lock_chain" /\ pc'[r] = "read_tip"
      BY <3>8
    <3> QED
      BY <1>1, <3>1, <3>2, <3>3, <3>4, <3>5, <3>6, <3>7, <3>8, LockChange
  <2> QED
    BY <2>2, <2>5 DEF LevelInv
<1>2. CASE UNCHANGED vars
  BY <1>2 DEF LevelInv, LevelOf, unlocked, vars, locals
<1> QED
  BY <1>1, <1>2 DEF Next, Terminating, Step

LEMMA LevelInit == Init => LevelInv
BY DEF Init, LevelInv, LevelOf

LEMMA LevelsGiveOrder == TypeInv /\ LevelInv => LocksInOrder
<1> SUFFICES ASSUME TypeInv, LevelInv, NEW r \in Attempts
             PROVE  LET above_held(x) == \A y \in held[r] : Before(y, x)
                    IN  /\ pc[r] = "lock_clearing" => above_held(ClearingLock)
                        /\ pc[r] = "insert_clearing" => above_held(NameEntry)
                        /\ pc[r] = "lock_rows" => above_held(Row(next_row(unlocked(r), body[r])))
                        /\ pc[r] = "insert" => above_held(KeyEntry(body[r].idempotency_key))
                        /\ pc[r] = "lock_chain" => above_held(ChainLock)
  BY DEF LocksInOrder
<1>1. LevelOf(r)
  BY DEF LevelInv
<1>2. ASSUME NEW y \in held[r]
      PROVE  y[1] \in 0 .. 4 /\ (y[1] = 2 => y[2] \in Nat /\ y = Row(y[2]))
  BY DEF TypeInv, TypeOK, Resources, Row
<1>3. ASSUME pc[r] = "lock_rows", NEW y \in held[r]
      PROVE  Before(y, Row(next_row(unlocked(r), body[r])))
  <2> DEFINE n == next_row(unlocked(r), body[r])
  <2>1. n \in Nat /\ n \in unlocked(r)
    BY <1>1, <1>3, LowestRow DEF LevelOf
  <2> HIDE DEF n
  <2>2. y[1] <= 2 /\ (y[1] = 2 => y[2] < n)
    BY <1>1, <1>2, <1>3, <2>1 DEF LevelOf
  <2>3. Before(y, Row(n))
    BY <1>2, <2>2 DEF Before, Row
  <2> QED
    BY <2>3 DEF n
<1>4. ASSUME NEW y \in held[r]
      PROVE  /\ pc[r] = "lock_clearing" => Before(y, ClearingLock)
             /\ pc[r] = "insert_clearing" => Before(y, NameEntry)
             /\ pc[r] = "insert" => Before(y, KeyEntry(body[r].idempotency_key))
             /\ pc[r] = "lock_chain" => Before(y, ChainLock)
  BY <1>1, <1>2 DEF LevelOf, Before, ClearingLock, NameEntry, KeyEntry, ChainLock
<1> QED
  BY <1>3, <1>4

\* Every call asks for its locks in one order, advisory, row and index locks
\* alike, so that no circle of waiting calls can close (service.py:69-72,
\* chain.py:32-36).
THEOREM LocksAreOrdered == Spec => []LocksInOrder
BY LevelInit, LevelNext, LevelsGiveOrder, TypeInit, TypeNext, PTL DEF Spec

-----------------------------------------------------------------------------
\* The cold start

\* The clearing lock covers the time between the second lookup and the commit.
ColdStartInv ==
  /\ \A r \in Attempts : pc[r] = "insert_clearing" => clearing = NoAccount
  /\ \A r \in Attempts : NameEntry \in held[r] => ClearingLock \in held[r]

LEMMA ColdStartNext == TypeInv /\ LockInv /\ ColdStartInv /\ [Next]_vars => ColdStartInv'
<1> SUFFICES ASSUME TypeInv, LockInv, ColdStartInv, [Next]_vars PROVE ColdStartInv'
  OBVIOUS
<1>1. ASSUME NEW r \in Attempts, Step(r)
      PROVE  ColdStartInv'
  <2>1. Others(r)
    BY <1>1, OthersUnchanged DEF Step
  <2>2. pc'[r] = "insert_clearing" => clearing' = NoAccount
    BY <1>1 DEF Step, Statement, LookupKey, Crash, FindClearing, LockClearing,
       RecheckClearing, InsertClearing, LockRow, CheckBalance, InsertTransaction,
       LockChain, ReadTip, Commit, Refresh, Rollback, Go, TypeInv, TypeOK, database
  <2>3. NameEntry \in held'[r] => ClearingLock \in held'[r]
    <3> SUFFICES ASSUME NameEntry \in held'[r]
                 PROVE  ClearingLock \in held'[r]
      OBVIOUS
    <3>1. ~ \E a : NameEntry \in {ClearingLock, ChainLock, Row(a), KeyEntry(a)}
      BY DEF Row, ClearingLock, NameEntry, KeyEntry, ChainLock
    <3>2. held[r] \subseteq held'[r] /\ (NameEntry \in held[r] \/ pc[r] = "insert_clearing")
      BY <1>1, <3>1, LockChange
    <3>3. ClearingLock \in held[r]
      BY <3>2 DEF ColdStartInv, LockInv, HoldsFor
    <3> QED
      BY <3>2, <3>3
  <2>4. ASSUME NEW s \in Attempts \ {r}, pc[s] = "insert_clearing"
        PROVE  clearing' = NoAccount
    <3>1. CASE UNCHANGED database
      BY <2>4, <3>1 DEF ColdStartInv, database
    <3>2. CASE Writes(r)
      <4>1. ClearingLock \in held[s] /\ ClearingLock \notin held[r]
        BY <2>4 DEF LockInv, HoldsFor
      <4>2. ~ created_clearing[r]
        BY <4>1 DEF LockInv, HoldsFor
      <4> QED
        BY <2>4, <3>2, <4>2 DEF Writes, ColdStartInv
    <3> QED
      BY <1>1, <3>1, <3>2, OnlyCommitWrites DEF Step
  <2> QED
    BY <2>1, <2>2, <2>3, <2>4 DEF Others, ColdStartInv
<1>2. CASE UNCHANGED vars
  BY <1>2 DEF ColdStartInv, vars, database
<1> QED
  BY <1>1, <1>2 DEF Next, Terminating, Step

LEMMA ColdStartInit == Init => ColdStartInv
BY DEF Init, ColdStartInv

LEMMA LockKeepsColdStart == LockInv /\ ColdStartInv => ColdStartNeverCollides
BY DEF LockInv, HoldsFor, ColdStartInv, ColdStartNeverCollides, Free

\* Only one call at a time creates the External Clearing account, and only when
\* there is none, however many first transactions race (service.py:34-38).
THEOREM ColdStartIsSafe == Spec => []ColdStartNeverCollides
BY ColdStartInit, ColdStartNext, LockKeepsColdStart, TypeInit, TypeNext, LockInit,
   LockNext, PTL DEF Spec

-----------------------------------------------------------------------------
\* The outbox

LEMMA OutboxNext == TypeInv /\ OutboxMirrorsLedger /\ [Next]_vars => OutboxMirrorsLedger'
<1> SUFFICES ASSUME TypeInv, OutboxMirrorsLedger, [Next]_vars PROVE OutboxMirrorsLedger'
  OBVIOUS
<1>1. ASSUME NEW r \in Attempts, Step(r)
      PROVE  OutboxMirrorsLedger'
  <2>1. CASE UNCHANGED database
    BY <2>1 DEF OutboxMirrorsLedger, database
  <2>2. CASE Writes(r)
    <3> DEFINE row == new_transaction(r, body[r], tip[r])
               event == write_transaction_event(r, body[r])
               N == Len(transactions)
    <3>1. /\ event.aggregate_id = row.id /\ event.amount = row.amount
          /\ event.idempotency_key = row.idempotency_key
      BY DEF new_transaction, write_transaction_event
    <3>2. /\ transactions' = Append(transactions, row)
          /\ outbox_events' = Append(outbox_events, event)
      BY <2>2 DEF Writes
    <3>3. /\ transactions \in Seq(TransactionRows) /\ outbox_events \in Seq(EventRows)
          /\ Len(outbox_events) = N
      BY DEF TypeInv, TypeOK, OutboxMirrorsLedger
    <3>4. /\ N \in Nat /\ Len(transactions') = N + 1 /\ Len(outbox_events') = N + 1
          /\ DOMAIN outbox_events = 1 .. N
          /\ DOMAIN outbox_events' = 1 .. N + 1
          /\ \A i \in 1 .. N : /\ transactions'[i] = transactions[i]
                              /\ outbox_events'[i] = outbox_events[i]
          /\ transactions'[N + 1] = row /\ outbox_events'[N + 1] = event
      <4> HIDE DEF row, event
      <4> QED
        BY <3>2, <3>3
    <3> HIDE DEF row, event, N
    <3>5. ASSUME NEW i \in 1 .. N + 1
          PROVE  /\ outbox_events'[i].aggregate_id = transactions'[i].id
                 /\ outbox_events'[i].idempotency_key = transactions'[i].idempotency_key
                 /\ outbox_events'[i].amount = transactions'[i].amount
      <4>1. CASE i \in 1 .. N
        BY <3>4, <4>1 DEF OutboxMirrorsLedger
      <4>2. CASE i = N + 1
        BY <3>1, <3>4, <4>2
      <4> QED
        BY <3>4, <4>1, <4>2
    <3> QED
      BY <3>4, <3>5 DEF OutboxMirrorsLedger
  <2> QED
    BY <1>1, <2>1, <2>2, OnlyCommitWrites DEF Step
<1>2. CASE UNCHANGED vars
  BY <1>2 DEF OutboxMirrorsLedger, vars, database
<1> QED
  BY <1>1, <1>2 DEF Next, Terminating, Step

\* The outbox holds one event per committed transaction, in commit order, and
\* nothing for a call that was refused or cut off (service.py:184-186).
THEOREM OutboxIsLedger == Spec => []OutboxMirrorsLedger
<1>1. Init => OutboxMirrorsLedger
  BY DEF Init, OutboxMirrorsLedger
<1> QED
  BY <1>1, OutboxNext, TypeInit, TypeNext, PTL DEF Spec

-----------------------------------------------------------------------------
\* Answers

\* Row i answers body b with a replay.
Answered(i, b) ==
  /\ transactions[i].idempotency_key = b.idempotency_key
  /\ transactions[i].request_hash = request_hash(b)

\* Past its commit, a call finds its own row.
AnswerInv ==
  /\ AnswersAreTrue
  /\ \A r \in Attempts :
       pc[r] = "refresh" =>
         \E i \in DOMAIN transactions : transactions[i].id = r /\ Answered(i, body[r])

\* Committed rows stay.
LEMMA RowsStay ==
  ASSUME TypeInv, NEW r \in Attempts, Step(r), NEW i \in DOMAIN transactions
  PROVE  i \in DOMAIN transactions' /\ transactions'[i] = transactions[i]
<1>1. transactions \in Seq(TransactionRows)
  BY DEF TypeInv, TypeOK
<1>2. CASE UNCHANGED database
  BY <1>2 DEF database
<1>3. CASE Writes(r)
  <2> DEFINE row == new_transaction(r, body[r], tip[r])
  <2>1. transactions' = Append(transactions, row)
    BY <1>3 DEF Writes
  <2> HIDE DEF row
  <2> QED
    BY <1>1, <2>1
<1> QED
  BY <1>2, <1>3, OnlyCommitWrites DEF Step

\* What a step of r can answer.
LEMMA AnswerStep ==
  ASSUME TypeInv, NEW r \in Attempts, Step(r)
  PROVE  /\ \A s \in Attempts \ {r} : answer'[s] = answer[s]
         /\ \/ answer'[r] = answer[r]
            \/ answer'[r].status \notin {201, 409}
            \/ \E i \in DOMAIN transactions :
                  /\ transactions[i].idempotency_key = body[r].idempotency_key
                  /\ \/ /\ answer'[r].status = 201 /\ answer'[r].id = transactions[i].id
                        /\ transactions[i].request_hash = request_hash(body[r])
                     \/ /\ answer'[r].status = 409
                        /\ transactions[i].request_hash # request_hash(body[r])
            \/ pc[r] = "refresh" /\ answer'[r] = [status |-> 201, id |-> r]
         /\ pc'[r] = "refresh" => Writes(r)
<1> USE DEF TypeInv, TypeOK, Go, Acquire, Rollback, database, locals
<1>1. CASE LookupKey(r)
  BY <1>1 DEF LookupKey, same_request, with_key
<1>2. CASE Crash(r)
  BY <1>2 DEF Crash, Lost
<1>3. CASE Refresh(r)
  BY <1>3 DEF Refresh
<1>4. CASE FindClearing(r) \/ LockClearing(r) \/ RecheckClearing(r) \/ InsertClearing(r)
  BY <1>4 DEF FindClearing, LockClearing, RecheckClearing, InsertClearing
<1>5. CASE LockRow(r)
  BY <1>5 DEF LockRow
<1>6. CASE CheckBalance(r)
  BY <1>6 DEF CheckBalance
<1>7. CASE InsertTransaction(r)
  BY <1>7 DEF InsertTransaction
<1>8. CASE LockChain(r) \/ ReadTip(r)
  BY <1>8 DEF LockChain, ReadTip
<1>9. CASE Commit(r)
  BY <1>9 DEF Commit, Writes, events_with
<1> QED
  BY <1>1, <1>2, <1>3, <1>4, <1>5, <1>6, <1>7, <1>8, <1>9 DEF Step, Statement

LEMMA AnswerNext == TypeInv /\ AnswerInv /\ [Next]_vars => AnswerInv'
<1> SUFFICES ASSUME TypeInv, AnswerInv, [Next]_vars PROVE AnswerInv'
  OBVIOUS
<1> DEFINE True201(s) ==
             answer'[s].status = 201 =>
               \E i \in DOMAIN transactions' :
                 /\ transactions'[i].id = answer'[s].id
                 /\ transactions'[i].idempotency_key = body[s].idempotency_key
                 /\ transactions'[i].request_hash = request_hash(body[s])
           True409(s) ==
             answer'[s].status = 409 =>
               \E i \in DOMAIN transactions' :
                 /\ transactions'[i].idempotency_key = body[s].idempotency_key
                 /\ transactions'[i].request_hash # request_hash(body[s])
           Own(s) ==
             \E i \in DOMAIN transactions' :
               /\ transactions'[i].id = s
               /\ transactions'[i].idempotency_key = body[s].idempotency_key
               /\ transactions'[i].request_hash = request_hash(body[s])
<1>1. ASSUME NEW r \in Attempts, Step(r)
      PROVE  AnswerInv'
  <2>1. Others(r) /\ body' = body
    BY <1>1, OthersUnchanged DEF Step
  <2>2. \A i \in DOMAIN transactions :
          i \in DOMAIN transactions' /\ transactions'[i] = transactions[i]
    BY <1>1, RowsStay
  <2>3. ASSUME NEW s \in Attempts, answer'[s] = answer[s]
        PROVE  True201(s) /\ True409(s)
    BY <2>2, <2>3 DEF AnswerInv, AnswersAreTrue
  <2>4. True201(r) /\ True409(r)
    <3>1. CASE answer'[r] = answer[r]
      BY <2>3, <3>1
    <3>2. CASE answer'[r].status \notin {201, 409}
      BY <3>2
    <3>3. CASE \E i \in DOMAIN transactions :
                 /\ transactions[i].idempotency_key = body[r].idempotency_key
                 /\ \/ /\ answer'[r].status = 201 /\ answer'[r].id = transactions[i].id
                       /\ transactions[i].request_hash = request_hash(body[r])
                    \/ /\ answer'[r].status = 409
                       /\ transactions[i].request_hash # request_hash(body[r])
      BY <2>2, <3>3
    <3>4. CASE pc[r] = "refresh" /\ answer'[r] = [status |-> 201, id |-> r]
      BY <2>2, <3>4 DEF AnswerInv, Answered
    <3> QED
      BY <1>1, <3>1, <3>2, <3>3, <3>4, AnswerStep
  <2>5. ASSUME NEW s \in Attempts
        PROVE  True201(s) /\ True409(s)
    <3>1. \A u \in Attempts \ {r} : answer'[u] = answer[u]
      BY <1>1, AnswerStep
    <3> QED
      BY <2>3, <2>4, <2>5, <3>1
  <2>6. ASSUME NEW s \in Attempts, pc'[s] = "refresh"
        PROVE  Own(s)
    <3>1. CASE s # r
      BY <2>1, <2>2, <2>6, <3>1 DEF Others, AnswerInv, Answered
    <3>2. CASE s = r
      <4> DEFINE row == new_transaction(r, body[r], tip[r])
                 N == Len(transactions)
      <4>1. transactions' = Append(transactions, row)
        BY <1>1, <2>6, <3>2, AnswerStep DEF Writes
      <4>2. /\ row.id = r /\ row.idempotency_key = body[r].idempotency_key
            /\ row.request_hash = request_hash(body[r])
        BY DEF new_transaction
      <4>3. transactions \in Seq(TransactionRows)
        BY DEF TypeInv, TypeOK
      <4> HIDE DEF row
      <4>4. N + 1 \in DOMAIN transactions' /\ transactions'[N + 1] = row
        BY <4>1, <4>3
      <4> QED
        BY <3>2, <4>2, <4>4
    <3> QED
      BY <3>1, <3>2
  <2> QED
    BY <2>1, <2>5, <2>6 DEF AnswerInv, AnswersAreTrue, Answered
<1>2. CASE UNCHANGED vars
  BY <1>2 DEF AnswerInv, AnswersAreTrue, Answered, vars, database
<1> QED
  BY <1>1, <1>2 DEF Next, Terminating, Step

\* A client is never told of a posting that did not happen, nor of a conflict
\* that does not exist, whatever crashes and retries went before (service.py:90-105,
\* 187-195).
THEOREM AnswersStayTrue == Spec => []AnswersAreTrue
<1>1. Init => AnswerInv
  BY DEF Init, AnswerInv, AnswersAreTrue, NoAnswer
<1>2. AnswerInv => AnswersAreTrue
  BY DEF AnswerInv
<1> QED
  BY <1>1, <1>2, AnswerNext, TypeInit, TypeNext, PTL DEF Spec

-----------------------------------------------------------------------------
\* The refinement

\* Every transaction has its two entries.
PairInv == Len(ledger_entries) = 2 * Len(transactions)

\* The posting r commits.
posting_of(r) ==
  [id |-> r, key |-> body[r].idempotency_key,
   from |-> debited(body[r], clearing_id[r]),
   to |-> credited(body[r], clearing_id[r]), amount |-> body[r].amount]

LEMMA PairNext == TypeInv /\ PairInv /\ [Next]_vars => PairInv'
<1> SUFFICES ASSUME TypeInv, PairInv, [Next]_vars PROVE PairInv'
  OBVIOUS
<1>1. ASSUME NEW r \in Attempts, Step(r)
      PROVE  PairInv'
  <2>1. CASE UNCHANGED database
    BY <2>1 DEF PairInv, database
  <2>2. CASE Writes(r)
    <3> DEFINE row == new_transaction(r, body[r], tip[r])
               d == debit_entry(r, body[r], clearing_id[r])
               c == credit_entry(r, body[r], clearing_id[r])
    <3>1. /\ transactions' = Append(transactions, row)
          /\ ledger_entries' = Append(Append(ledger_entries, d), c)
      BY <2>2 DEF Writes
    <3>2. transactions \in Seq(TransactionRows) /\ ledger_entries \in Seq(EntryRows)
      BY DEF TypeInv, TypeOK
    <3>3. d \in EntryRows
      BY <2>2, NewRowsType DEF Writes
    <3> HIDE DEF row, d, c
    <3>4. Len(transactions') = Len(transactions) + 1 /\ Len(transactions) \in Nat
      BY <3>1, <3>2
    <3>5. Append(ledger_entries, d) \in Seq(EntryRows)
      BY <3>2, <3>3
    <3>6. Len(Append(ledger_entries, d)) = Len(ledger_entries) + 1
      BY <3>2
    <3>7. Len(ledger_entries') = Len(Append(ledger_entries, d)) + 1
      BY <3>1, <3>5
    <3> QED
      BY <3>2, <3>4, <3>6, <3>7 DEF PairInv
  <2> QED
    BY <1>1, <2>1, <2>2, OnlyCommitWrites DEF Step
<1>2. CASE UNCHANGED vars
  BY <1>2 DEF PairInv, vars, database
<1> QED
  BY <1>1, <1>2 DEF Next, Terminating, Step

\* A commit appends one posting to the journal.
LEMMA JournalGrows ==
  ASSUME TypeInv, PairInv, NEW r \in Attempts, Writes(r)
  PROVE  /\ Len(postings) = Len(transactions)
         /\ Len(postings') = Len(transactions) + 1
         /\ postings' = Append(postings, posting_of(r))
         /\ postings'[Len(transactions) + 1] = posting_of(r)
<1> DEFINE row == new_transaction(r, body[r], tip[r])
           d == debit_entry(r, body[r], clearing_id[r])
           c == credit_entry(r, body[r], clearing_id[r])
           N == Len(transactions)
           P == {posting(i) : i \in DOMAIN transactions} \cup {posting_of(r)}
<1>1. /\ transactions' = Append(transactions, row)
      /\ ledger_entries' = Append(Append(ledger_entries, d), c)
  BY DEF Writes
<1>2. /\ transactions \in Seq(TransactionRows) /\ ledger_entries \in Seq(EntryRows)
      /\ N \in Nat /\ Len(ledger_entries) = 2 * N
  BY DEF TypeInv, TypeOK, PairInv
<1>3. d \in EntryRows
  BY NewRowsType DEF Writes
<1>4. /\ row.id = r /\ row.idempotency_key = body[r].idempotency_key
      /\ row.amount = body[r].amount
      /\ d.account_id = debited(body[r], clearing_id[r])
      /\ c.account_id = credited(body[r], clearing_id[r])
  BY DEF new_transaction, debit_entry, credit_entry
<1> HIDE DEF row, d, c
<1>5. /\ DOMAIN transactions = 1 .. N /\ DOMAIN transactions' = 1 .. N + 1
      /\ transactions'[N + 1] = row
      /\ \A i \in 1 .. N : transactions'[i] = transactions[i]
  BY <1>1, <1>2
<1>6. /\ ledger_entries'[2 * N + 1] = d /\ ledger_entries'[2 * N + 2] = c
      /\ \A j \in 1 .. 2 * N : ledger_entries'[j] = ledger_entries[j]
  BY <1>1, <1>2, <1>3
<1> HIDE DEF N
<1>7. ASSUME NEW i \in 1 .. N
      PROVE  posting(i)' = posting(i)
  <2>1. 2 * i - 1 \in 1 .. 2 * N /\ 2 * i \in 1 .. 2 * N
    BY <1>2
  <2> QED
    BY <1>5, <1>6, <2>1 DEF posting
<1>8. ASSUME NEW i, i = N + 1
      PROVE  posting(i)' = posting_of(r)
  <2>1. 2 * i - 1 = 2 * N + 1 /\ 2 * i = 2 * N + 2
    BY <1>2, <1>8
  <2> QED
    BY <1>4, <1>5, <1>6, <1>8, <2>1 DEF posting, posting_of
<1>9. postings \in Seq(P) /\ Len(postings) = N /\ \A i \in 1 .. N : postings[i] = posting(i)
  <2>1. postings = [i \in 1 .. N |-> posting(i)]
    BY <1>5 DEF postings
  <2>2. \A i \in 1 .. N : posting(i) \in P
    BY <1>5
  <2> HIDE DEF P
  <2> QED
    BY <1>2, <2>1, <2>2
<1>13. posting_of(r) \in P
  OBVIOUS
<1> HIDE DEF P
<1>10. postings' = [i \in 1 .. N + 1 |-> IF i = N + 1 THEN posting_of(r) ELSE postings[i]]
  BY <1>2, <1>5, <1>7, <1>8, <1>9 DEF postings
<1>11. Append(postings, posting_of(r))
         = [i \in 1 .. N + 1 |-> IF i = N + 1 THEN posting_of(r) ELSE postings[i]]
  <2> DEFINE app == Append(postings, posting_of(r))
  <2>1. /\ app \in Seq(P) /\ Len(app) = N + 1 /\ app[N + 1] = posting_of(r)
        /\ \A i \in 1 .. N : app[i] = postings[i]
    BY <1>2, <1>9, <1>13
  <2> HIDE DEF app
  <2>2. app = [i \in 1 .. N + 1 |-> app[i]]
    BY <2>1
  <2>3. \A i \in 1 .. N + 1 :
          app[i] = IF i = N + 1 THEN posting_of(r) ELSE postings[i]
    BY <1>2, <2>1
  <2>4. app = [i \in 1 .. N + 1 |-> IF i = N + 1 THEN posting_of(r) ELSE postings[i]]
    BY <2>2, <2>3
  <2> QED
    BY <2>4 DEF app
<1>12. Len(postings') = N + 1 /\ postings'[N + 1] = posting_of(r)
  BY <1>2, <1>10
<1> QED
  BY <1>9, <1>10, <1>11, <1>12 DEF N

\* A commit is one posting of the abstract ledger.
LEMMA CommitIsPosting ==
  ASSUME TypeInv, LockInv, ExistInv, KeyInv, MoneyInv, PairInv,
         NEW r \in Attempts, Writes(r)
  PROVE  L!Next
<1> DEFINE p == posting_of(r)
           d == debited(body[r], clearing_id[r])
           c == credited(body[r], clearing_id[r])
           N == Len(transactions)
<1>1. pc[r] = "commit"
  BY DEF Writes
<1>2. p.key = body[r].idempotency_key /\ p.from = d /\ p.to = c /\ p.amount = body[r].amount
  BY DEF posting_of
<1>3. /\ body[r] \in Bodies /\ body[r].amount \in Nat \ {0} /\ body[r].type \in Types
      /\ well_formed(body[r])
      /\ body[r].type # "transfer" => clearing_id[r] \in ClearingIds
  BY <1>1, BodyFields DEF TypeInv, TypeOK, Prepared, Resolved
<1>4. d \in Customers \cup ClearingIds /\ c \in Customers \cup ClearingIds
  BY <1>1, CommitsBetweenAccounts
<1>5. p.key \notin L!UsedKeys
  <2>1. \A i \in DOMAIN transactions :
          transactions[i].idempotency_key # body[r].idempotency_key
    BY <1>1 DEF KeyInv, key_taken, with_key
  <2>2. \A i \in DOMAIN postings : postings[i].key = transactions[i].idempotency_key
    BY DEF postings, posting
  <2>3. DOMAIN postings = DOMAIN transactions
    BY DEF postings
  <2> QED
    BY <1>2, <2>1, <2>2, <2>3 DEF L!UsedKeys
<1>6. d = c => d \in ClearingIds
  BY <1>3 DEF debited, credited, well_formed, Types
<1>7. d \in ClearingIds \/ balances[d] >= body[r].amount
  <2>1. CASE needs_funds(body[r])
    BY <1>1, <1>4, <2>1 DEF MoneyInv, CheckedBalanceHolds, balances
  <2>2. CASE ~ needs_funds(body[r])
    BY <1>3, <2>2 DEF needs_funds, debited
  <2> QED
    BY <2>1, <2>2
<1>8. balances' = [a \in Customers \cup ClearingIds |->
                     balances[a] - (IF a = d THEN body[r].amount ELSE 0)
                                 + (IF a = c THEN body[r].amount ELSE 0)]
  BY BalanceAfterCommit DEF balances
<1>9. /\ postings' = Append(postings, p) /\ Len(postings') = Len(postings) + 1
      /\ postings'[Len(postings')] = p
  BY JournalGrows
<1> HIDE DEF p, d, c
<1>10. L!Post(p)
  BY <1>2, <1>3, <1>5, <1>6, <1>7, <1>8, <1>9 DEF L!Post
<1> QED
  BY <1>9, <1>10 DEF L!Next

LEMMA StepIsLedgerStep ==
  ASSUME TypeInv, LockInv, ExistInv, KeyInv, MoneyInv, PairInv, [Next]_vars
  PROVE  [L!Next]_<<balances, postings>>
<1>1. CASE UNCHANGED database
  BY <1>1 DEF database, balances, postings, posting
<1>2. ASSUME NEW r \in Attempts, Step(r)
      PROVE  [L!Next]_<<balances, postings>>
  BY <1>1, <1>2, OnlyCommitWrites, CommitIsPosting DEF Step
<1>3. CASE UNCHANGED vars
  BY <1>1, <1>3 DEF vars
<1> QED
  BY <1>2, <1>3 DEF Next, Terminating, Step

LEMMA InitIsLedgerInit == Init => L!Init
<1> SUFFICES ASSUME Init PROVE L!Init
  OBVIOUS
<1>1. balances = [a \in Customers \cup ClearingIds |-> 0]
  BY BalanceOfNone DEF Init, balances
<1>2. postings = <<>>
  BY DEF Init, postings
<1> QED
  BY <1>1, <1>2 DEF L!Init

\* POST /transactions implements the ledger: seen from outside, each commit
\* moves money between two accounts in one step, under a fresh key and covered by
\* the payer, and nothing else moves money.
THEOREM WritePathIsLedger == Spec => ImplementsLedger
<1>1. Init => KeyInv /\ PairInv
  BY DEF Init, KeyInv, KeyAppliedOnce, PairInv
<1>2. TypeInv /\ LockInv /\ ExistInv /\ KeyInv /\ MoneyInv /\ PairInv /\ [Next]_vars
        => [L!Next]_<<balances, postings>>
  BY StepIsLedgerStep
<1> QED
  BY <1>1, <1>2, TypeInit, TypeNext, LockInit, LockNext, ExistInit, ExistNext, KeyNext,
     MoneyInit, MoneyNext, PairNext, InitIsLedgerInit, PTL
     DEF Spec, ImplementsLedger, L!Spec
=============================================================================
