----------------------------- MODULE AuditProofs -----------------------------
(***************************************************************************)
(* Theorems about Audit for any number of accounts, postings and damages:  *)
(* on a sound ledger only commits between two statements can raise an      *)
(* alarm, a transaction out of balance always does, and an audit with no   *)
(* commit since it counted the keys is right both ways.                    *)
(***************************************************************************)
EXTENDS Audit, BalanceProofs, SequenceTheorems

Row == [transaction_id : Transactions, account_id : Accounts, amount : Int]

-----------------------------------------------------------------------------
\* Sums of rows

Marks == [account_id : BOOLEAN, amount : Int]

\* One entry as sum_of shows it to compute_balance: is it one of the rows?
mark(e, i, rows) == [account_id |-> i \in rows, amount |-> e.amount]

marked(s, rows) == [i \in 1 .. Len(s) |-> mark(s[i], i, rows)]

total(s, rows) == compute_balance(marked(s, rows), TRUE)

\* An entry counts if and only if it is one of the rows.
LEMMA MarkType ==
  ASSUME NEW e \in Row, NEW i, NEW rows
  PROVE  /\ mark(e, i, rows) \in Marks
         /\ share(mark(e, i, rows), TRUE) = IF i \in rows THEN e.amount ELSE 0
<1>1. e.amount \in Int
  BY DEF Row
<1>2. mark(e, i, rows) \in Marks
  BY <1>1 DEF mark, Marks
<1>3. mark(e, i, rows).amount = e.amount /\ mark(e, i, rows).account_id = (i \in rows)
  BY DEF mark
<1>4. (mark(e, i, rows).account_id = TRUE) <=> i \in rows
  BY <1>3
<1>5. share(mark(e, i, rows), TRUE) = IF i \in rows THEN e.amount ELSE 0
  BY <1>3, <1>4, Zenon DEF share
<1> QED
  BY <1>2, <1>5

\* As many entries are shown as there are.
LEMMA MarkedType ==
  ASSUME NEW s \in Seq(Row), NEW rows
  PROVE  /\ Len(s) \in Nat
         /\ marked(s, rows) \in Seq(Marks)
         /\ Len(marked(s, rows)) = Len(s)
<1>1. Len(s) \in Nat
  OBVIOUS
<1>2. \A i \in 1 .. Len(s) : mark(s[i], i, rows) \in Marks
  <2> SUFFICES ASSUME NEW i \in 1 .. Len(s) PROVE mark(s[i], i, rows) \in Marks
    OBVIOUS
  <2>1. s[i] \in Row
    BY ElementOfSeq
  <2> QED
    BY <2>1, MarkType
<1> QED
  BY <1>1, <1>2 DEF marked

\* Balance can sum them.
LEMMA MarksAreAmounts == IntegerAmounts(Marks)
BY DEF IntegerAmounts, Marks

\* A sum is a number.
LEMMA TotalType ==
  ASSUME NEW s \in Seq(Row), NEW rows
  PROVE  total(s, rows) \in Int
<1>1. marked(s, rows) \in Seq(Marks)
  BY MarkedType
<1> QED
  BY <1>1, MarksAreAmounts, BalanceType DEF total

\* No rows, no sum.
LEMMA TotalOfNone ==
  ASSUME NEW s \in Seq(Row), NEW rows, \A i \in 1 .. Len(s) : i \notin rows
  PROVE  total(s, rows) = 0
<1>1. Len(marked(s, rows)) = Len(s) /\ Len(s) \in Nat
  BY MarkedType
<1>2. \A i \in 1 .. Len(s) : mark(s[i], i, rows).account_id # TRUE
  BY DEF mark
<1>3. \A i \in 1 .. Len(s) : marked(s, rows)[i].account_id # TRUE
  BY <1>2 DEF marked
<1> HIDE DEF marked
<1> QED
  BY <1>1, <1>3, BalanceOfAbsent DEF total

\* Only rows that are there matter.
LEMMA TotalOfSame ==
  ASSUME NEW s \in Seq(Row), NEW p, NEW q, \A i \in 1 .. Len(s) : i \in p <=> i \in q
  PROVE  total(s, p) = total(s, q)
<1>1. \A i \in 1 .. Len(s) : mark(s[i], i, p) = mark(s[i], i, q)
  <2> SUFFICES ASSUME NEW i \in 1 .. Len(s) PROVE mark(s[i], i, p) = mark(s[i], i, q)
    OBVIOUS
  <2>1. (i \in p) = (i \in q)
    OBVIOUS
  <2> QED
    BY <2>1, Zenon DEF mark
<1>2. marked(s, p) = marked(s, q)
  BY <1>1, Zenon DEF marked
<1> QED
  BY <1>2 DEF total

\* A new entry is added if it is one of the rows.
LEMMA TotalOfAppend ==
  ASSUME NEW s \in Seq(Row), NEW e \in Row, NEW rows
  PROVE  total(Append(s, e), rows)
           = total(s, rows) + (IF Len(s) + 1 \in rows THEN e.amount ELSE 0)
<1> DEFINE longer == Append(s, e)
           last == mark(e, Len(s) + 1, rows)
<1>1. longer \in Seq(Row) /\ Len(longer) = Len(s) + 1 /\ longer[Len(s) + 1] = e
      /\ \A i \in 1 .. Len(s) : longer[i] = s[i]
  OBVIOUS
<1>2. last \in Marks /\ share(last, TRUE) = IF Len(s) + 1 \in rows THEN e.amount ELSE 0
  <2>1. \A n : mark(e, n, rows) \in Marks
               /\ share(mark(e, n, rows), TRUE) = IF n \in rows THEN e.amount ELSE 0
    BY MarkType
  <2> QED
    BY <2>1
<1>3. marked(s, rows) \in Seq(Marks) /\ Len(marked(s, rows)) = Len(s) /\ Len(s) \in Nat
  BY MarkedType
<1>4. marked(longer, rows) = Append(marked(s, rows), last)
  <2>1. \A i \in 1 .. Len(s) + 1 : marked(longer, rows)[i] = mark(longer[i], i, rows)
    BY <1>1 DEF marked
  <2>2. \A i \in 1 .. Len(s) : marked(s, rows)[i] = mark(s[i], i, rows)
    BY DEF marked
  <2>3. marked(longer, rows) \in Seq(Marks) /\ Len(marked(longer, rows)) = Len(s) + 1
    <3> HIDE DEF longer
    <3> QED
      BY <1>1, MarkedType
  <2>4. marked(longer, rows)[Len(s) + 1] = last
    BY <1>1, <1>3, <2>1
  <2>5. \A i \in 1 .. Len(s) : marked(longer, rows)[i] = marked(s, rows)[i]
    BY <1>1, <1>3, <2>1, <2>2
  <2> HIDE DEF longer, last, marked
  <2>6. Append(marked(s, rows), last) \in Seq(Marks)
        /\ Len(Append(marked(s, rows), last)) = Len(s) + 1
        /\ Append(marked(s, rows), last)[Len(s) + 1] = last
        /\ \A i \in 1 .. Len(s) : Append(marked(s, rows), last)[i] = marked(s, rows)[i]
    BY <1>2, <1>3
  <2>7. \A i \in 1 .. Len(s) + 1 : marked(longer, rows)[i] = Append(marked(s, rows), last)[i]
    BY <1>3, <2>4, <2>5, <2>6
  <2> QED
    BY <2>3, <2>6, <2>7, SeqEqual
<1>5. compute_balance(Append(marked(s, rows), last), TRUE)
        = compute_balance(marked(s, rows), TRUE) + share(last, TRUE)
  <2> HIDE DEF last, marked
  <2> QED
    BY <1>2, <1>3, MarksAreAmounts, BalanceOfAppend
<1> QED
  BY <1>2, <1>4, <1>5 DEF total

\* Two entries appended at once are two entries appended.
LEMMA TwoMore ==
  ASSUME NEW s \in Seq(Row), NEW d \in Row, NEW c \in Row
  PROVE  /\ Append(s, d) \in Seq(Row) /\ Len(Append(s, d)) = Len(s) + 1
         /\ s \o <<d, c>> = Append(Append(s, d), c)
         /\ s \o <<d, c>> \in Seq(Row)
         /\ Len(s \o <<d, c>>) = Len(s) + 2
         /\ \A i \in 1 .. Len(s) : (s \o <<d, c>>)[i] = s[i]
         /\ (s \o <<d, c>>)[Len(s) + 1] = d /\ (s \o <<d, c>>)[Len(s) + 2] = c
<1> DEFINE one == Append(s, d)
           two == Append(one, c)
           sum == s \o <<d, c>>
<1>1. one \in Seq(Row) /\ Len(one) = Len(s) + 1 /\ one[Len(s) + 1] = d /\ Len(s) \in Nat
      /\ \A i \in 1 .. Len(s) : one[i] = s[i]
  OBVIOUS
<1>2. two \in Seq(Row) /\ Len(two) = Len(s) + 2 /\ two[Len(s) + 2] = c
      /\ \A i \in 1 .. Len(s) + 1 : two[i] = one[i]
  <2> HIDE DEF one
  <2> QED
    BY <1>1
<1>3. sum \in Seq(Row) /\ Len(sum) = Len(s) + 2
      /\ \A i \in 1 .. Len(s) + 2 : sum[i] = IF i <= Len(s) THEN s[i] ELSE <<d, c>>[i - Len(s)]
  <2>1. <<d, c>> \in Seq(Row) /\ Len(<<d, c>>) = 2
    OBVIOUS
  <2> QED
    BY <2>1, ConcatProperties
<1>4. \A i \in 1 .. Len(s) : sum[i] = s[i]
  BY <1>1, <1>3
<1>5. sum[Len(s) + 1] = d /\ sum[Len(s) + 2] = c
  <2>1. Len(s) + 1 \in 1 .. Len(s) + 2 /\ Len(s) + 2 \in 1 .. Len(s) + 2
        /\ ~ (Len(s) + 1 <= Len(s)) /\ ~ (Len(s) + 2 <= Len(s))
        /\ (Len(s) + 1) - Len(s) = 1 /\ (Len(s) + 2) - Len(s) = 2
    BY <1>1
  <2> HIDE DEF sum
  <2> QED
    BY <1>3, <2>1
<1> HIDE DEF one, two, sum
<1>6. \A i \in 1 .. Len(s) + 2 : sum[i] = two[i]
  BY <1>1, <1>2, <1>4, <1>5
<1>7. sum = two
  BY <1>2, <1>3, <1>6, SeqEqual
<1> QED
  BY <1>1, <1>3, <1>4, <1>5, <1>7 DEF one, two, sum

\* The two entries of one posting are both among the rows or both not, so they add
\* nothing (service.py:166-182).
LEMMA TotalOfPosting ==
  ASSUME NEW s \in Seq(Row), NEW d \in Row, NEW c \in Row, NEW rows,
         d.amount = - c.amount, Len(s) + 1 \in rows <=> Len(s) + 2 \in rows
  PROVE  total(s \o <<d, c>>, rows) = total(s, rows)
<1> DEFINE one == Append(s, d)
           extra(n, x) == IF n \in rows THEN x ELSE 0
<1>1. s \o <<d, c>> = Append(one, c) /\ one \in Seq(Row) /\ Len(one) = Len(s) + 1
  BY TwoMore
<1>2. total(one, rows) = total(s, rows) + extra(Len(s) + 1, d.amount)
  BY TotalOfAppend
<1>3. total(Append(one, c), rows) = total(one, rows) + extra(Len(one) + 1, c.amount)
  <2> HIDE DEF one
  <2> QED
    BY <1>1, TotalOfAppend
<1>4. Len(one) + 1 = Len(s) + 2
  BY <1>1
<1>5. total(Append(one, c), rows) = total(one, rows) + extra(Len(s) + 2, c.amount)
  BY <1>3, <1>4
<1>6. total(s, rows) \in Int /\ c.amount \in Int /\ d.amount \in Int
  BY TotalType DEF Row
<1>7. extra(Len(s) + 1, d.amount) + extra(Len(s) + 2, c.amount) = 0
      /\ extra(Len(s) + 1, d.amount) \in Int /\ extra(Len(s) + 2, c.amount) \in Int
  BY <1>6
<1>8. total(Append(one, c), rows) = total(s, rows)
  <2> HIDE DEF one, extra
  <2> QED
    BY <1>2, <1>5, <1>6, <1>7
<1> QED
  BY <1>1, <1>8

\* The rows of transaction t among any rows.
Of(s, t) == {i \in 1 .. Len(s) : s[i].transaction_id = t}

\* The sums of the model in these terms, before a step and after it.
LEMMA SumsNow ==
  ASSUME entries \in Seq(Row)
  PROVE  /\ sum_of(DOMAIN entries) = total(entries, 1 .. Len(entries))
         /\ \A t : sum_of(of_transaction(t)) = total(entries, Of(entries, t))
<1>1. DOMAIN entries = 1 .. Len(entries)
  OBVIOUS
<1>2. \A rows : sum_of(rows) = total(entries, rows)
  BY <1>1 DEF sum_of, total, marked, mark
<1>3. \A t : of_transaction(t) = Of(entries, t)
  BY <1>1 DEF of_transaction, Of
<1> QED
  BY <1>1, <1>2, <1>3

\* The same after a step.
LEMMA SumsNext ==
  ASSUME entries' \in Seq(Row)
  PROVE  /\ sum_of(DOMAIN entries)' = total(entries', 1 .. Len(entries'))
         /\ \A t : sum_of(of_transaction(t))' = total(entries', Of(entries', t))
<1>1. DOMAIN entries' = 1 .. Len(entries')
  OBVIOUS
<1>2. sum_of(DOMAIN entries)' = total(entries', DOMAIN entries')
  BY <1>1 DEF sum_of, total, marked, mark
<1>3. ASSUME NEW t
      PROVE  sum_of(of_transaction(t))' = total(entries', Of(entries', t))
  <2>1. of_transaction(t)' = Of(entries', t)
    BY <1>1 DEF of_transaction, Of
  <2>2. sum_of(of_transaction(t))' = total(entries', of_transaction(t)')
    BY <1>1 DEF sum_of, total, marked, mark
  <2> QED
    BY <2>1, <2>2
<1> QED
  BY <1>1, <1>2, <1>3

-----------------------------------------------------------------------------
\* The invariant

\* The rows respect the foreign keys and the unique index on keys, edited or not.
ForeignKeysHold ==
  /\ accounts \subseteq Accounts
  /\ transactions \in Seq(Transactions) /\ IsInjective(transactions)
  /\ entries \in Seq(Row)
  /\ \A i \in 1 .. Len(entries) : /\ entries[i].transaction_id \in Range(transactions)
                                  /\ entries[i].account_id \in accounts
  /\ damages \in 0 .. MaxDamages

\* Without edits every posting has its two entries and moves nothing in or out.
LedgerIsSound ==
  damages = 0 =>
    /\ Len(entries) = 2 * Len(transactions)
    /\ sum_of(DOMAIN entries) = 0
    /\ \A t \in Transactions : sum_of(of_transaction(t)) = 0

\* What a statement read stays true of the rows it read.
ReadsStayTrue ==
  /\ results.orphaned_entries = 0 /\ results.orphaned_accounts = 0
  /\ damages = 0 => results.global_sum = 0 /\ results.unbalanced = {}
  /\ pc \notin {"global_sum", "unbalanced"} =>
       \A t \in Transactions : sum_of(of_transaction(t)) # 0 => t \in results.unbalanced

\* Counts only lag behind what is counted, in the order of the statements.
CountsLag ==
  /\ pc \in {"unique_keys", "entry_count", "txn_count", "done"} =>
       results.total_keys <= Len(transactions)
  /\ pc \in {"entry_count", "txn_count", "done"} =>
       results.total_keys <= results.unique_keys /\ results.unique_keys <= Len(transactions)
  /\ pc \in {"txn_count", "done"} =>
       /\ results.total_keys = Len(transactions) => results.entry_count = Len(entries)
       /\ damages = 0 => results.entry_count <= 2 * Len(transactions)
  /\ pc = "done" =>
       /\ results.total_keys <= results.txn_count /\ results.txn_count <= Len(transactions)
       /\ damages = 0 => results.entry_count <= results.txn_count * 2

Results == [global_sum : Int, unbalanced : SUBSET Transactions, orphaned_entries : Int,
            orphaned_accounts : Int, total_keys : Nat, unique_keys : Nat,
            entry_count : Nat, txn_count : Nat]

IInv ==
  /\ ForeignKeysHold
  /\ pc \in Counts \cup {"unbalanced", "list_accounts", "verify_accounts", "done"}
  /\ unverified \subseteq Accounts
  /\ results \in Results
  /\ LedgerIsSound
  /\ ReadsStayTrue
  /\ CountsLag

\* The invariant holds of an empty ledger nobody has read.
LEMMA AuditInit == Init => IInv
<1> SUFFICES ASSUME Init PROVE IInv
  OBVIOUS
<1>1. entries = << >> /\ entries \in Seq(Row) /\ Len(entries) = 0
  BY DEF Init
<1>2. sum_of(DOMAIN entries) = 0 /\ \A t : sum_of(of_transaction(t)) = 0
  <2>1. \A rows : total(entries, rows) = 0
    <3> TAKE rows
    <3>1. \A i \in 1 .. Len(entries) : i \notin rows
      BY <1>1
    <3> QED
      BY <1>1, <3>1, TotalOfNone
  <2> QED
    BY <1>1, <2>1, SumsNow
<1>3. transactions = << >> /\ transactions \in Seq(Transactions) /\ Len(transactions) = 0
      /\ IsInjective(transactions)
  BY DEF Init, IsInjective
<1>4. ForeignKeysHold
  BY <1>1, <1>3, MaxDamagesAssumption DEF Init, ForeignKeysHold
<1>5. LedgerIsSound
  BY <1>1, <1>2, <1>3 DEF LedgerIsSound
<1>6. results \in Results /\ ReadsStayTrue /\ CountsLag
  BY DEF Init, nothing_read, Results, ReadsStayTrue, CountsLag
<1>7. pc \in Counts /\ unverified \subseteq Accounts
  BY DEF Init, Counts
<1> QED
  BY <1>4, <1>5, <1>6, <1>7 DEF IInv

-----------------------------------------------------------------------------
\* Postings

\* A new key stays unique.
LEMMA KeyAdded ==
  ASSUME NEW s \in Seq(Transactions), IsInjective(s), NEW t \in Transactions, t \notin Range(s)
  PROVE  /\ Append(s, t) \in Seq(Transactions)
         /\ Len(Append(s, t)) = Len(s) + 1 /\ Len(s) \in Nat
         /\ IsInjective(Append(s, t))
         /\ Range(s) \cup {t} = Range(Append(s, t))
<1> DEFINE longer == Append(s, t)
<1>1. /\ longer \in Seq(Transactions) /\ Len(longer) = Len(s) + 1 /\ Len(s) \in Nat
      /\ DOMAIN s = 1 .. Len(s) /\ DOMAIN longer = 1 .. Len(s) + 1
      /\ longer[Len(s) + 1] = t /\ \A i \in 1 .. Len(s) : longer[i] = s[i]
  OBVIOUS
<1> HIDE DEF longer
<1>2. \A i \in 1 .. Len(s) + 1 : i \in 1 .. Len(s) \/ i = Len(s) + 1
  BY <1>1
<1>3. \A i \in 1 .. Len(s) : s[i] \in Range(s)
  BY <1>1 DEF Range
<1>4. IsInjective(longer)
  BY <1>1, <1>2, <1>3 DEF IsInjective
<1>5. Range(longer) \subseteq Range(s) \cup {t}
  BY <1>1, <1>2 DEF Range
<1>6. Range(s) \cup {t} \subseteq Range(longer)
  <2>1. \A i \in 1 .. Len(s) : i \in DOMAIN longer
    BY <1>1
  <2>2. Len(s) + 1 \in DOMAIN longer
    BY <1>1
  <2> QED
    BY <1>1, <2>1, <2>2 DEF Range
<1> QED
  BY <1>1, <1>4, <1>5, <1>6 DEF longer

\* A posting adds a key and two entries and changes no sum.
LEMMA PostingAddsNothing ==
  ASSUME ForeignKeysHold, NEW t \in Transactions, NEW from \in accounts, NEW to \in accounts,
         NEW n \in Amounts, Post(t, from, to, n)
  PROVE  /\ ForeignKeysHold'
         /\ Len(transactions') = Len(transactions) + 1 /\ Len(transactions) \in Nat
         /\ Len(entries') = Len(entries) + 2 /\ Len(entries) \in Nat
         /\ sum_of(DOMAIN entries)' = sum_of(DOMAIN entries)
         /\ \A u : sum_of(of_transaction(u))' = sum_of(of_transaction(u))
<1> DEFINE d == [transaction_id |-> t, account_id |-> from, amount |-> -n]
           c == [transaction_id |-> t, account_id |-> to, amount |-> n]
           longer == entries \o <<d, c>>
<1>1. n \in Int /\ - n \in Int
  BY AmountsAssumption
<1>2. entries \in Seq(Row) /\ accounts \subseteq Accounts /\ Len(entries) \in Nat
  BY DEF ForeignKeysHold
<1>3. d \in Row /\ c \in Row /\ d.amount = - c.amount
      /\ d.transaction_id = t /\ c.transaction_id = t
      /\ d.account_id \in accounts /\ c.account_id \in accounts
  BY <1>1, <1>2 DEF Row
<1>4. entries' = longer /\ transactions' = Append(transactions, t) /\ accounts' = accounts
      /\ damages' = damages /\ t \notin Range(transactions)
  BY DEF Post
<1> HIDE DEF d, c
<1>5. /\ longer \in Seq(Row)
      /\ Len(longer) = Len(entries) + 2
      /\ \A i \in 1 .. Len(entries) : longer[i] = entries[i]
      /\ longer[Len(entries) + 1] = d /\ longer[Len(entries) + 2] = c
  BY <1>2, <1>3, TwoMore
<1>6. ASSUME NEW i \in 1 .. Len(longer)
      PROVE  i \in 1 .. Len(entries) \/ i = Len(entries) + 1 \/ i = Len(entries) + 2
  <2> HIDE DEF longer
  <2> QED
    BY <1>2, <1>5, <1>6
<1>7. ASSUME NEW p, NEW q, \A i \in 1 .. Len(entries) : i \in p <=> i \in q,
             Len(entries) + 1 \in q <=> Len(entries) + 2 \in q
      PROVE  total(longer, q) = total(entries, p)
  <2>1. total(longer, q) = total(entries, q)
    BY <1>2, <1>3, <1>7, TotalOfPosting
  <2>2. total(entries, p) = total(entries, q)
    BY <1>2, <1>7, TotalOfSame
  <2> QED
    BY <2>1, <2>2
<1>8. \A u : sum_of(of_transaction(u))' = sum_of(of_transaction(u))
  <2> TAKE u
  <2>1. \A i \in 1 .. Len(entries) : i \in Of(entries, u) <=> i \in Of(longer, u)
    <3> HIDE DEF longer
    <3> QED
      BY <1>2, <1>5 DEF Of
  <2>2. Len(entries) + 1 \in Of(longer, u) <=> Len(entries) + 2 \in Of(longer, u)
    <3> HIDE DEF longer
    <3> QED
      BY <1>2, <1>3, <1>5 DEF Of
  <2>3. total(longer, Of(longer, u)) = total(entries, Of(entries, u))
    <3> HIDE DEF longer
    <3> QED
      BY <1>7, <2>1, <2>2
  <2>4. sum_of(of_transaction(u)) = total(entries, Of(entries, u))
    BY <1>2, SumsNow
  <2>5. sum_of(of_transaction(u))' = total(longer, Of(longer, u))
    BY <1>4, <1>5, SumsNext
  <2> QED
    BY <2>3, <2>4, <2>5
<1>9. sum_of(DOMAIN entries)' = sum_of(DOMAIN entries)
  <2>1. total(longer, 1 .. Len(longer)) = total(entries, 1 .. Len(entries))
    <3> HIDE DEF longer
    <3>1. \A i \in 1 .. Len(entries) : i \in 1 .. Len(entries) <=> i \in 1 .. Len(longer)
      BY <1>2, <1>5
    <3>2. Len(entries) + 1 \in 1 .. Len(longer) <=> Len(entries) + 2 \in 1 .. Len(longer)
      BY <1>2, <1>5
    <3> QED
      BY <1>7, <3>1, <3>2
  <2>2. sum_of(DOMAIN entries) = total(entries, 1 .. Len(entries))
    BY <1>2, SumsNow
  <2>3. sum_of(DOMAIN entries)' = total(longer, 1 .. Len(longer))
    BY <1>4, <1>5, SumsNext
  <2> QED
    BY <2>1, <2>2, <2>3
<1>10. /\ Append(transactions, t) \in Seq(Transactions)
       /\ Len(Append(transactions, t)) = Len(transactions) + 1 /\ Len(transactions) \in Nat
       /\ IsInjective(Append(transactions, t))
       /\ Range(transactions) \cup {t} = Range(Append(transactions, t))
  BY <1>4, KeyAdded DEF ForeignKeysHold
<1>11. ForeignKeysHold'
  <2>1. \A i \in 1 .. Len(longer) : /\ longer[i].transaction_id \in Range(transactions) \cup {t}
                                    /\ longer[i].account_id \in accounts
    <3> SUFFICES ASSUME NEW i \in 1 .. Len(longer)
                 PROVE  /\ longer[i].transaction_id \in Range(transactions) \cup {t}
                        /\ longer[i].account_id \in accounts
      OBVIOUS
    <3>1. CASE i \in 1 .. Len(entries)
      <4>1. longer[i] = entries[i]
        BY <1>5, <3>1
      <4> QED
        BY <3>1, <4>1 DEF ForeignKeysHold
    <3>2. CASE i = Len(entries) + 1 \/ i = Len(entries) + 2
      BY <1>3, <1>5, <3>2
    <3> QED
      BY <1>6, <3>1, <3>2
  <2> HIDE DEF longer
  <2> QED
    BY <1>4, <1>5, <1>10, <2>1 DEF ForeignKeysHold
<1> QED
  <2>1. Len(entries') = Len(entries) + 2
    BY <1>4, <1>5
  <2> QED
    BY <1>2, <1>4, <1>8, <1>9, <1>10, <1>11, <2>1

\* A posting beside the audit (service.py:164-186).
LEMMA PostKeepsInv ==
  ASSUME IInv, NEW t \in Transactions, NEW from \in accounts, NEW to \in accounts,
         NEW n \in Amounts, Post(t, from, to, n)
  PROVE  IInv'
<1>1. /\ ForeignKeysHold'
      /\ Len(transactions') = Len(transactions) + 1 /\ Len(transactions) \in Nat
      /\ Len(entries') = Len(entries) + 2 /\ Len(entries) \in Nat
      /\ sum_of(DOMAIN entries)' = sum_of(DOMAIN entries)
      /\ \A u : sum_of(of_transaction(u))' = sum_of(of_transaction(u))
  BY PostingAddsNothing DEF IInv
<1>2. pc' = pc /\ results' = results /\ damages' = damages /\ unverified' = unverified
  BY DEF Post
<1>3. LedgerIsSound'
  BY <1>1, <1>2 DEF IInv, LedgerIsSound
<1>4. ReadsStayTrue'
  BY <1>1, <1>2 DEF IInv, ReadsStayTrue
<1>5. CountsLag'
  <2>1. /\ results.total_keys \in Nat /\ results.unique_keys \in Nat
        /\ results.entry_count \in Nat /\ results.txn_count \in Nat
    BY DEF IInv, Results
  <2> QED
    BY <1>1, <1>2, <2>1 DEF IInv, CountsLag
<1> QED
  BY <1>1, <1>2, <1>3, <1>4, <1>5 DEF IInv

-----------------------------------------------------------------------------
\* The other steps of the service

\* Sums depend on the entries alone.
LEMMA SumsStay ==
  ASSUME entries \in Seq(Row), UNCHANGED entries
  PROVE  /\ sum_of(DOMAIN entries)' = sum_of(DOMAIN entries)
         /\ \A t : sum_of(of_transaction(t))' = sum_of(of_transaction(t))
<1>1. entries' \in Seq(Row) /\ entries' = entries
  OBVIOUS
<1> QED
  BY <1>1, SumsNow, SumsNext

\* A new account beside the audit.
LEMMA CreateKeepsInv ==
  ASSUME IInv, NEW a \in Accounts, CreateAccount(a)
  PROVE  IInv'
<1>1. /\ accounts' = accounts \cup {a}
      /\ UNCHANGED <<transactions, entries, damages, pc, unverified, results>>
  BY DEF CreateAccount
<1>2. ForeignKeysHold'
  BY <1>1 DEF IInv, ForeignKeysHold
<1>3. LedgerIsSound' /\ ReadsStayTrue' /\ CountsLag'
  BY <1>1, SumsStay DEF IInv, ForeignKeysHold, LedgerIsSound, ReadsStayTrue, CountsLag
<1> QED
  BY <1>1, <1>2, <1>3 DEF IInv

\* Rows of the right type that respect the foreign keys.
Legal(s) ==
  s \in Seq({e \in Row : e.transaction_id \in Range(transactions) /\ e.account_id \in accounts})

\* An edit, a loss or a copy leaves rows of that kind.
LEMMA DamageIsLegal ==
  ASSUME ForeignKeysHold, Damage
  PROVE  Legal(entries')
<1> DEFINE Legals == {e \in Row : /\ e.transaction_id \in Range(transactions)
                                  /\ e.account_id \in accounts}
<1>1. entries \in Seq(Legals)
  <2>1. entries \in Seq(Row)
    BY DEF ForeignKeysHold
  <2>2. \A i \in 1 .. Len(entries) : entries[i] \in Legals
    <3> SUFFICES ASSUME NEW i \in 1 .. Len(entries) PROVE entries[i] \in Legals
      OBVIOUS
    <3>1. entries[i] \in Row
      BY <2>1, ElementOfSeq
    <3> QED
      BY <3>1 DEF ForeignKeysHold
  <2> HIDE DEF Legals
  <2> QED
    BY <2>1, <2>2
<1>2. PICK i \in DOMAIN entries :
        \/ \E n \in Amounts : entries' = [entries EXCEPT ![i].amount = n]
        \/ \E t \in Range(transactions) : entries' = [entries EXCEPT ![i].transaction_id = t]
        \/ entries' = SubSeq(entries, 1, i - 1) \o SubSeq(entries, i + 1, Len(entries))
        \/ entries' = Append(entries, entries[i])
  BY DEF Damage
<1>3. i \in 1 .. Len(entries) /\ Len(entries) \in Nat /\ entries[i] \in Legals
      /\ \A j \in 1 .. Len(entries) : entries[j] \in Legals
  <2> HIDE DEF Legals
  <2> QED
    BY <1>1
<1>4. Range(transactions) \subseteq Transactions
  BY DEF ForeignKeysHold, Range
<1>5. ASSUME NEW n \in Amounts, entries' = [entries EXCEPT ![i].amount = n]
      PROVE  entries' \in Seq(Legals)
  <2>1. [entries[i] EXCEPT !.amount = n] \in Legals
    BY <1>3, AmountsAssumption DEF Row
  <2>2. entries' = [entries EXCEPT ![i] = [entries[i] EXCEPT !.amount = n]]
    BY <1>5
  <2> HIDE DEF Legals
  <2> QED
    BY <1>1, <1>3, <2>1, <2>2, ExceptSeq
<1>6. ASSUME NEW t \in Range(transactions), entries' = [entries EXCEPT ![i].transaction_id = t]
      PROVE  entries' \in Seq(Legals)
  <2>1. [entries[i] EXCEPT !.transaction_id = t] \in Legals
    BY <1>3, <1>4 DEF Row
  <2>2. entries' = [entries EXCEPT ![i] = [entries[i] EXCEPT !.transaction_id = t]]
    BY <1>6
  <2> HIDE DEF Legals
  <2> QED
    BY <1>1, <1>3, <2>1, <2>2, ExceptSeq
<1>7. SubSeq(entries, 1, i - 1) \in Seq(Legals) /\ SubSeq(entries, i + 1, Len(entries)) \in Seq(Legals)
  <2>1. \A j \in 1 .. i - 1 : j \in 1 .. Len(entries)
    BY <1>3
  <2>2. \A j \in i + 1 .. Len(entries) : j \in 1 .. Len(entries)
    BY <1>3
  <2>3. 1 \in Int /\ i - 1 \in Int /\ i + 1 \in Int /\ Len(entries) \in Int
    BY <1>3
  <2> HIDE DEF Legals
  <2> QED
    BY <1>3, <2>1, <2>2, <2>3, SubSeqProperties
<1>8. SubSeq(entries, 1, i - 1) \o SubSeq(entries, i + 1, Len(entries)) \in Seq(Legals)
  <2> HIDE DEF Legals
  <2> QED
    BY <1>7, ConcatProperties
<1>9. Append(entries, entries[i]) \in Seq(Legals)
  <2> HIDE DEF Legals
  <2> QED
    BY <1>1, <1>3
<1>10. entries' \in Seq(Legals)
  BY <1>2, <1>5, <1>6, <1>8, <1>9, Zenon
<1> QED
  BY <1>10 DEF Legal

\* Nothing has been read yet when rows are damaged, and nothing is claimed of a
\* damaged ledger but its foreign keys.
LEMMA DamageKeepsInv ==
  ASSUME IInv, Damage
  PROVE  IInv'
<1>1. /\ pc = "global_sum" /\ damages' = damages + 1 /\ damages < MaxDamages
      /\ UNCHANGED <<accounts, transactions, pc, unverified, results>>
  BY DEF Damage
<1>2. damages \in Nat /\ MaxDamages \in Nat
  BY MaxDamagesAssumption DEF IInv, ForeignKeysHold
<1>3. ForeignKeysHold'
  <2> DEFINE Legals == {e \in Row : /\ e.transaction_id \in Range(transactions)
                                    /\ e.account_id \in accounts}
  <2>1. entries' \in Seq(Legals)
    BY DamageIsLegal DEF IInv, Legal
  <2>2. entries' \in Seq(Row)
    <3>1. Legals \subseteq Row
      OBVIOUS
    <3> HIDE DEF Legals
    <3> QED
      BY <2>1, <3>1, SeqMonotonic
  <2>3. \A i \in 1 .. Len(entries') : entries'[i] \in Legals
    <3> HIDE DEF Legals
    <3> QED
      BY <2>1
  <2>4. damages' \in 0 .. MaxDamages
    BY <1>1, <1>2
  <2> QED
    BY <1>1, <2>2, <2>3, <2>4 DEF IInv, ForeignKeysHold
<1>4. LedgerIsSound' /\ ReadsStayTrue' /\ CountsLag'
  <2>1. damages' # 0
    BY <1>1, <1>2
  <2> QED
    BY <1>1, <2>1 DEF IInv, LedgerIsSound, ReadsStayTrue, CountsLag
<1> QED
  BY <1>1, <1>3, <1>4 DEF IInv

-----------------------------------------------------------------------------
\* The statements of the audit

\* A statement reads and changes nothing.
LEMMA LedgerStays ==
  ASSUME IInv, UNCHANGED ledger
  PROVE  /\ ForeignKeysHold' /\ LedgerIsSound'
         /\ transactions' = transactions /\ entries' = entries /\ damages' = damages
         /\ Len(transactions) \in Nat /\ Len(entries) \in Nat
         /\ \A t : sum_of(of_transaction(t))' = sum_of(of_transaction(t))
<1>1. UNCHANGED <<accounts, transactions, entries, damages>>
  BY DEF ledger
<1>2. ForeignKeysHold'
  BY <1>1 DEF IInv, ForeignKeysHold
<1>3. LedgerIsSound'
  BY <1>1, SumsStay DEF IInv, ForeignKeysHold, LedgerIsSound
<1>4. Len(transactions) \in Nat /\ Len(entries) \in Nat
  BY DEF IInv, ForeignKeysHold
<1>5. \A t : sum_of(of_transaction(t))' = sum_of(of_transaction(t))
  BY <1>1, SumsStay DEF IInv, ForeignKeysHold
<1> QED
  BY <1>1, <1>2, <1>3, <1>4, <1>5

\* The sums the statements read are right: 0 on a sound ledger, and GROUP BY misses
\* no transaction whose rows do not sum to zero.
LEMMA UnbalancedIsRight ==
  ASSUME IInv
  PROVE  /\ sum_of(DOMAIN entries) \in Int
         /\ unbalanced \subseteq Transactions
         /\ \A t \in Transactions : sum_of(of_transaction(t)) # 0 <=> t \in unbalanced
<1>1. entries \in Seq(Row) /\ Len(entries) \in Nat /\ DOMAIN entries = 1 .. Len(entries)
      /\ \A i \in 1 .. Len(entries) : entries[i] \in Row
  BY DEF IInv, ForeignKeysHold
<1>2. sum_of(DOMAIN entries) \in Int
  BY <1>1, SumsNow, TotalType
<1>3. unbalanced \subseteq Transactions
  BY <1>1 DEF unbalanced, Range, Row
<1>4. ASSUME NEW t \in Transactions, sum_of(of_transaction(t)) # 0
      PROVE  t \in unbalanced
  <2>1. total(entries, Of(entries, t)) # 0
    BY <1>1, <1>4, SumsNow
  <2>2. PICK i \in 1 .. Len(entries) : i \in Of(entries, t)
    BY <1>1, <2>1, TotalOfNone
  <2>3. entries[i] \in Range(entries) /\ entries[i].transaction_id = t
    BY <1>1, <2>2 DEF Range, Of
  <2> QED
    BY <1>4, <2>3 DEF unbalanced
<1> QED
  BY <1>2, <1>3, <1>4 DEF unbalanced

\* The subqueries find no row without its parent (audit.py:83-92).
LEMMA NoOrphans ==
  ASSUME IInv
  PROVE  /\ orphans("transaction_id", Range(transactions)) = 0
         /\ orphans("account_id", accounts) = 0
<1>1. \A i \in DOMAIN entries : /\ entries[i]["transaction_id"] \in Range(transactions)
                                /\ entries[i]["account_id"] \in accounts
  BY DEF IInv, ForeignKeysHold
<1>2. Cardinality({}) = 0
  BY FS_EmptySet
<1> QED
  BY <1>1, <1>2 DEF orphans

\* count(distinct idempotency_key) is the number of rows: the index is unique.
LEMMA KeysAreUnique ==
  ASSUME IInv
  PROVE  Cardinality(Range(transactions)) = Len(transactions) /\ Len(transactions) \in Nat
<1>1. /\ transactions \in Seq(Transactions) /\ Len(transactions) \in Nat
      /\ DOMAIN transactions = 1 .. Len(transactions)
      /\ transactions \in [1 .. Len(transactions) -> Range(transactions)]
      /\ IsInjective(transactions)
  BY DEF IInv, ForeignKeysHold, Range
<1>2. transactions \in Injection(1 .. Len(transactions), Range(transactions))
  BY <1>1 DEF Injection
<1>3. transactions \in Surjection(1 .. Len(transactions), Range(transactions))
  BY <1>1 DEF Surjection, Range
<1>4. ExistsBijection(1 .. Len(transactions), Range(transactions))
  BY <1>2, <1>3 DEF ExistsBijection, Bijection
<1>5. IsFiniteSet(1 .. Len(transactions)) /\ Cardinality(1 .. Len(transactions)) = Len(transactions)
  BY <1>1, FS_Interval
<1> QED
  BY <1>1, <1>4, <1>5, FS_Bijection

\* The global sum (audit.py:23-32).
LEMMA SumAllKeepsInv == IInv /\ SumAll => IInv'
<1> SUFFICES ASSUME IInv, SumAll PROVE IInv'
  OBVIOUS
<1>1. /\ pc = "global_sum" /\ pc' = "unbalanced"
      /\ results' = [results EXCEPT !.global_sum = sum_of(DOMAIN entries)]
      /\ UNCHANGED ledger /\ unverified' = unverified
  BY DEF SumAll, Read
<1>2. sum_of(DOMAIN entries) \in Int /\ (damages = 0 => sum_of(DOMAIN entries) = 0)
  BY UnbalancedIsRight DEF IInv, LedgerIsSound
<1>3. ReadsStayTrue'
  BY <1>1, <1>2, LedgerStays DEF IInv, Results, ReadsStayTrue
<1>4. CountsLag'
  BY <1>1 DEF CountsLag
<1>5. results' \in Results
  BY <1>1, <1>2 DEF IInv, Results
<1> QED
  BY <1>1, <1>3, <1>4, <1>5, LedgerStays DEF IInv

\* The sums by transaction (audit.py:34-56).
LEMMA SumEachKeepsInv == IInv /\ SumEach => IInv'
<1> SUFFICES ASSUME IInv, SumEach PROVE IInv'
  OBVIOUS
<1>1. /\ pc = "unbalanced" /\ pc' = "list_accounts"
      /\ results' = [results EXCEPT !.unbalanced = unbalanced]
      /\ UNCHANGED ledger /\ unverified' = unverified
  BY DEF SumEach, Read
<1>2. /\ unbalanced \in SUBSET Transactions
      /\ \A t \in Transactions : sum_of(of_transaction(t)) # 0 <=> t \in unbalanced
  BY UnbalancedIsRight
<1>3. damages = 0 => unbalanced = {}
  BY <1>2 DEF IInv, LedgerIsSound
<1>4. ReadsStayTrue'
  BY <1>1, <1>2, <1>3, LedgerStays DEF IInv, Results, ReadsStayTrue
<1>5. CountsLag'
  BY <1>1 DEF CountsLag
<1>6. results' \in Results
  BY <1>1, <1>2 DEF IInv, Results
<1> QED
  BY <1>1, <1>4, <1>5, <1>6, LedgerStays DEF IInv

\* The loop over the accounts reads nothing the verdict depends on.
LEMMA LoopKeepsInv ==
  ASSUME IInv, ListAccounts \/ \E a \in Accounts : VerifyAccount(a)
  PROVE  IInv'
<1>1. /\ pc \in {"list_accounts", "verify_accounts"} /\ pc' = "verify_accounts"
      /\ results' = results /\ UNCHANGED ledger
  BY DEF ListAccounts, VerifyAccount
<1>2. unverified' \subseteq Accounts
  BY DEF IInv, ForeignKeysHold, ListAccounts, VerifyAccount
<1>3. ReadsStayTrue'
  BY <1>1, LedgerStays DEF IInv, ReadsStayTrue
<1>4. CountsLag'
  BY <1>1 DEF CountsLag
<1> QED
  BY <1>1, <1>2, <1>3, <1>4, LedgerStays DEF IInv

\* The two searches for orphans find none.
LEMMA OrphansKeepInv ==
  ASSUME IInv, CountOrphanedEntries \/ CountOrphanedAccounts
  PROVE  IInv'
<1>1. /\ pc \in {"verify_accounts", "orphaned_accounts"}
      /\ pc' \in {"orphaned_accounts", "total_keys"}
      /\ UNCHANGED ledger /\ unverified' = unverified
  BY DEF CountOrphanedEntries, CountOrphanedAccounts, Read
<1>2. results' = results
  <2>1. \/ results' = [results EXCEPT !.orphaned_entries = 0]
        \/ results' = [results EXCEPT !.orphaned_accounts = 0]
    BY NoOrphans DEF CountOrphanedEntries, CountOrphanedAccounts, Read
  <2> QED
    BY <2>1 DEF IInv, Results, ReadsStayTrue
<1>3. ReadsStayTrue'
  BY <1>1, <1>2, LedgerStays DEF IInv, ReadsStayTrue
<1>4. CountsLag'
  BY <1>1 DEF CountsLag
<1> QED
  BY <1>1, <1>2, <1>3, <1>4, LedgerStays DEF IInv, Counts

\* Nothing else than the counts is touched from here on.
LEMMA CountKeepsReads ==
  ASSUME IInv, NEW c \in {"total_keys", "unique_keys", "entry_count", "txn_count"},
         pc \notin {"global_sum", "unbalanced"}, NEW n \in Nat,
         results' = [results EXCEPT ![c] = n], UNCHANGED ledger
  PROVE  results' \in Results /\ ReadsStayTrue'
<1>1. results' \in Results
  BY DEF IInv, Results
<1>2. /\ results'.global_sum = results.global_sum /\ results'.unbalanced = results.unbalanced
      /\ results'.orphaned_entries = results.orphaned_entries
      /\ results'.orphaned_accounts = results.orphaned_accounts
  BY DEF IInv, Results
<1> QED
  BY <1>1, <1>2, LedgerStays DEF IInv, ReadsStayTrue

\* The four counts (audit.py:96-134).
LEMMA CountsKeepInv ==
  ASSUME IInv, CountKeys \/ CountUniqueKeys \/ CountEntries \/ CountTransactions
  PROVE  IInv'
<1>1. UNCHANGED ledger /\ unverified' = unverified
      /\ pc' \in {"unique_keys", "entry_count", "txn_count", "done"}
  BY DEF CountKeys, CountUniqueKeys, CountEntries, CountTransactions, Read
<1>2. /\ Len(transactions') = Len(transactions) /\ Len(transactions) \in Nat
      /\ Len(entries') = Len(entries) /\ Len(entries) \in Nat
      /\ damages' = damages
      /\ Cardinality(Range(transactions)) = Len(transactions)
  BY <1>1, LedgerStays, KeysAreUnique
<1>3. damages = 0 => Len(entries) = 2 * Len(transactions)
  BY DEF IInv, LedgerIsSound
<1>4. CASE CountKeys
  <2>1. /\ pc = "total_keys" /\ pc' = "unique_keys"
        /\ results' = [results EXCEPT !.total_keys = Len(transactions)]
    BY <1>4 DEF CountKeys, Read
  <2>2. results' \in Results /\ ReadsStayTrue'
    BY <1>1, <1>2, <2>1, CountKeepsReads
  <2>3. CountsLag'
    BY <1>2, <2>1 DEF IInv, Results, CountsLag
  <2> QED
    BY <1>1, <2>2, <2>3, LedgerStays DEF IInv, Counts
<1>5. CASE CountUniqueKeys
  <2>1. /\ pc = "unique_keys" /\ pc' = "entry_count"
        /\ results' = [results EXCEPT !.unique_keys = Len(transactions)]
    BY <1>2, <1>5 DEF CountUniqueKeys, Read
  <2>2. results' \in Results /\ ReadsStayTrue'
    BY <1>1, <1>2, <2>1, CountKeepsReads
  <2>3. CountsLag'
    BY <1>2, <2>1 DEF IInv, Results, CountsLag
  <2> QED
    BY <1>1, <2>2, <2>3, LedgerStays DEF IInv, Counts
<1>6. CASE CountEntries
  <2>1. /\ pc = "entry_count" /\ pc' = "txn_count"
        /\ results' = [results EXCEPT !.entry_count = Len(entries)]
    BY <1>6 DEF CountEntries, Read
  <2>2. results' \in Results /\ ReadsStayTrue'
    BY <1>1, <1>2, <2>1, CountKeepsReads
  <2>3. CountsLag'
    BY <1>2, <1>3, <2>1 DEF IInv, Results, CountsLag
  <2> QED
    BY <1>1, <2>2, <2>3, LedgerStays DEF IInv, Counts
<1>7. CASE CountTransactions
  <2>1. /\ pc = "txn_count" /\ pc' = "done"
        /\ results' = [results EXCEPT !.txn_count = Len(transactions)]
    BY <1>7 DEF CountTransactions, Read
  <2>2. results' \in Results /\ ReadsStayTrue'
    BY <1>1, <1>2, <2>1, CountKeepsReads
  <2>3. CountsLag'
    BY <1>2, <2>1 DEF IInv, Results, CountsLag
  <2> QED
    BY <1>1, <2>2, <2>3, LedgerStays DEF IInv, Counts
<1> QED
  BY <1>4, <1>5, <1>6, <1>7

\* Every step keeps the invariant.
LEMMA AuditNext == IInv /\ [Next]_vars => IInv'
<1> SUFFICES ASSUME IInv, [Next]_vars PROVE IInv'
  OBVIOUS
<1>1. ASSUME NEW a \in Accounts, CreateAccount(a) PROVE IInv'
  BY <1>1, CreateKeepsInv
<1>2. ASSUME NEW t \in Transactions, NEW from \in accounts, NEW to \in accounts,
             NEW n \in Amounts, Post(t, from, to, n)
      PROVE  IInv'
  BY <1>2, PostKeepsInv
<1>3. CASE Damage
  BY <1>3, DamageKeepsInv
<1>4. CASE Verify
  <2>1. CASE SumAll \/ SumEach
    BY <2>1, SumAllKeepsInv, SumEachKeepsInv
  <2>2. CASE ListAccounts \/ \E a \in Accounts : VerifyAccount(a)
    BY <2>2, LoopKeepsInv
  <2>3. CASE CountOrphanedEntries \/ CountOrphanedAccounts
    BY <2>3, OrphansKeepInv
  <2>4. CASE CountKeys \/ CountUniqueKeys \/ CountEntries \/ CountTransactions
    BY <2>4, CountsKeepInv
  <2> QED
    BY <1>4, <2>1, <2>2, <2>3, <2>4 DEF Verify
<1>5. CASE UNCHANGED vars
  <2>1. UNCHANGED ledger /\ UNCHANGED <<pc, unverified, results>>
    BY <1>5 DEF vars
  <2>2. ReadsStayTrue' /\ CountsLag'
    BY <2>1, LedgerStays DEF IInv, ReadsStayTrue, CountsLag
  <2> QED
    BY <2>1, <2>2, LedgerStays DEF IInv
<1> QED
  BY <1>1, <1>2, <1>3, <1>4, <1>5 DEF Next, Service, Answered

\* So it always holds.
LEMMA IInvAlways == Spec => []IInv
BY AuditInit, AuditNext, PTL DEF Spec

-----------------------------------------------------------------------------
\* The theorems

\* What verify_ledger reads has its types, whatever was damaged.
THEOREM AuditTypes == Spec => []TypeOK
<1>1. IInv => TypeOK
  <2> SUFFICES ASSUME IInv PROVE TypeOK
    OBVIOUS
  <2>1. \A c \in Counts : results[c] \in Int
    BY DEF IInv, Results, Counts
  <2>2. results.unbalanced \subseteq Transactions
    BY DEF IInv, Results
  <2> QED
    BY <2>1, <2>2 DEF IInv, ForeignKeysHold, Row, TypeOK
<1> QED
  BY <1>1, IInvAlways, PTL

\* On a sound ledger only the comparisons of two snapshots can be off, and only by
\* what committed between them (audit.py:106-111, 125-130).
THEOREM AlarmsAreCommits == Spec => []AlarmsOnlyByCommits
<1>1. IInv => AlarmsOnlyByCommits
  BY DEF IInv, ReadsStayTrue, CountsLag, AlarmsOnlyByCommits
<1> QED
  BY <1>1, IInvAlways, PTL

\* No transaction out of balance escapes the audit, however many others make up for
\* it and whatever commits meanwhile (audit.py:34-56).
THEOREM UnbalancedFailsTheAudit == Spec => []UnbalancedIsReported
<1>1. IInv => UnbalancedIsReported
  BY DEF IInv, ReadsStayTrue, UnbalancedIsReported, failed
<1> QED
  BY <1>1, IInvAlways, PTL

\* Without a commit since the keys were counted the answer is right (audit.py:96-134).
THEOREM QuietAuditsAreRight == Spec => []QuietAuditIsRight
<1>1. IInv => QuietAuditIsRight
  <2> SUFFICES ASSUME IInv, pc = "done", results.total_keys = Len(transactions)
               PROVE  /\ damages = 0 => ~ failed
                      /\ ~ failed => Len(entries) = 2 * Len(transactions)
    BY DEF QuietAuditIsRight
  <2>1. /\ results.unique_keys \in Nat /\ results.entry_count \in Nat
        /\ results.txn_count \in Nat /\ Len(transactions) \in Nat
    BY DEF IInv, Results, ForeignKeysHold
  <2>2. /\ results.unique_keys = Len(transactions)
        /\ results.txn_count = Len(transactions)
        /\ results.entry_count = Len(entries)
    BY <2>1 DEF IInv, CountsLag
  <2>3. damages = 0 => ~ failed
    BY <2>1, <2>2 DEF IInv, LedgerIsSound, ReadsStayTrue, failed
  <2> QED
    BY <2>1, <2>2, <2>3 DEF failed
<1> QED
  BY <1>1, IInvAlways, PTL
=============================================================================
