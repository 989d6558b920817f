------------------------------- MODULE Reads -------------------------------
(***************************************************************************)
(* The read endpoints of src/app/main.py: clients that walk the pages of   *)
(* list_transactions and list_entries while transactions commit, and the   *)
(* statement of an account.                                                *)
(*                                                                         *)
(* Commits are postings of the abstract Ledger, which WritePath implements.*)
(* A row carries created_at, the start of its transaction, so rows become  *)
(* visible in another order than the one the endpoints sort them in.       *)
(***************************************************************************)
EXTENDS Integers, Sequences, FiniteSets, Functions, Balance

CONSTANTS
  Accounts,      \* accounts, External Clearing among them
  Overdrawable,  \* External Clearing
  Transactions,  \* ids of the transactions that may begin
  Amounts,       \* amounts moved
  Clients,       \* clients that walk through pages
  Queries,       \* what they ask for: [of, account, type]
  Limits,        \* values they give the query parameter limit
  Unset,         \* a query parameter left out
  DayLength,     \* instants per day, the last of which is 23:59:59.999999
  LastInstant    \* bound on the clock

ASSUME TimeAssumption == DayLength \in Nat \ {0} /\ LastInstant \in Nat \ {0}

ASSUME AmountsAssumption == Amounts \subseteq Nat

ASSUME LimitsAssumption == Limits \subseteq Nat \ {0}

\* A parameter left out is no date.
ASSUME QueriesAssumption ==
  Unset \notin Nat /\ \A q \in Queries : q.of \in {"transactions", "entries"}

VARIABLES
  clock,       \* PostgreSQL's clock
  created_at,  \* start of each transaction, 0 before it begins
  balance,     \* balances and rows of the ledger; see Ledger
  journal,
  walk         \* each client's walk

reads_vars == <<clock, created_at, balance, journal, walk>>

Types == {"deposit", "withdrawal", "transfer"}

\* A row of transactions with its two ledger entries.  Entries are sorted by
\* random uuids, but only within one account, where a transaction has one
\* entry: entry_id is the rank of that uuid.
Rows == [id : Transactions, key : Transactions, type : Types, from : Accounts,
         to : Accounts, amount : Amounts, created_at : 1 .. LastInstant,
         entry_id : 1 .. Cardinality(Transactions)]

L == INSTANCE Ledger

committed == Range(journal)

row(t) == CHOOSE p \in committed : p.id = t

-----------------------------------------------------------------------------
\* The transactions, as WritePath runs them

Begin(t) ==
  /\ created_at[t] = 0
  /\ clock' \in clock .. LastInstant
  /\ created_at' = [created_at EXCEPT ![t] = clock']
  /\ UNCHANGED <<balance, journal, walk>>

\* FAULT: the column has no default.
undated(t) == 0

\* server_default=func.now(): the start of the transaction that inserts.
stamp(t) == created_at[t]

\* Transfers that name External Clearing, and deposits to it, are left out.
postable(t) ==
  {p \in [id : {t}, key : {t}, type : Types, from : Accounts, to : Accounts,
          amount : Amounts, created_at : {stamp(t)},
          entry_id : 1 .. Cardinality(Transactions) \ {q.entry_id : q \in committed}] :
     /\ p.from # p.to
     /\ p.type = "deposit" <=> p.from \in Overdrawable
     /\ p.type = "withdrawal" <=> p.to \in Overdrawable}

Commit(t) ==
  /\ created_at[t] # 0
  /\ \A p \in committed : p.id # t
  /\ \E p \in postable(t) : L!Post(p)
  /\ UNCHANGED <<clock, created_at, walk>>

-----------------------------------------------------------------------------
\* list_transactions and list_entries

concerns(p, a) == a \in {p.from, p.to}

\* The WHERE clauses but for the cursor's.
matches(p, q) ==
  /\ q.account # Unset => concerns(p, q.account)
  /\ q.type # Unset => p.type = q.type

\* ORDER BY created_at DESC for transactions, ORDER BY id for entries.
sorted_before(q, p, r) ==
  IF q.of = "entries" THEN p.entry_id < r.entry_id ELSE p.created_at > r.created_at

\* FAULT: the cursor's own row is listed again.
from_cursor(q, p, r) ==
  IF q.of = "entries" THEN p.entry_id >= r.entry_id ELSE p.created_at <= r.created_at

\* created_at < cursor's for transactions, id > cursor's for entries.
beyond_cursor(q, p, r) ==
  IF q.of = "entries" THEN p.entry_id > r.entry_id ELSE p.created_at < r.created_at

\* ORDER BY ... LIMIT n over rows: equal timestamps come in any order.
results(q, rows, n) ==
  LET size == IF Cardinality(rows) < n THEN Cardinality(rows) ELSE n
  IN {s \in [1 .. size -> rows] :
        /\ IsInjective(s)
        /\ \A i, j \in DOMAIN s : i < j => ~ sorted_before(q, s[j], s[i])
        /\ \A p \in rows \ Range(s), i \in DOMAIN s : ~ sorted_before(q, p, s[i])}

\* One request: limit + 1 rows are read, and one too many means there is a next
\* page.  Rows never change once committed, so looking the cursor up first, in
\* a statement of its own, is the same as doing it in this one.
Turn(c, q, rows, listed, ends, there) ==
  \E limit \in Limits :
    \E items \in results(q, rows, limit + 1) :
      LET page == [i \in 1 .. (IF Len(items) > limit THEN limit ELSE Len(items)) |-> items[i].id]
          more == Len(items) > limit
      IN walk' = [walk EXCEPT ![c] =
                    [status |-> IF more THEN "walking" ELSE "done", query |-> q,
                     listed |-> listed \o page,
                     ends |-> IF more THEN ends \cup {page[limit]} ELSE ends,
                     next_cursor |-> IF more THEN page[limit] ELSE Unset,
                     there |-> there]]

\* A walk without a page.
NoPage(status, q) ==
  [status |-> status, query |-> q, listed |-> <<>>, ends |-> {},
   next_cursor |-> Unset, there |-> {}]

\* No cursor, or an unknown one, which is ignored; 404 for the entries of an
\* account that is not there.
FirstPage(c) ==
  /\ walk[c].status = "idle"
  /\ \E q \in Queries :
       IF q.of = "entries" /\ q.account \notin Accounts
       THEN walk' = [walk EXCEPT ![c] = NoPage("404", q)]
       ELSE LET rows == {p \in committed : matches(p, q)} IN
            Turn(c, q, rows, <<>>, {}, {p.id : p \in rows})
  /\ UNCHANGED <<clock, created_at, balance, journal>>

NextPage(c) ==
  /\ walk[c].status = "walking"
  /\ LET q == walk[c].query
         cursor == row(walk[c].next_cursor)
         rows == {p \in committed : matches(p, q) /\ beyond_cursor(q, p, cursor)}
     IN  Turn(c, q, rows, walk[c].listed, walk[c].ends, walk[c].there)
  /\ UNCHANGED <<clock, created_at, balance, journal>>

-----------------------------------------------------------------------------
\* get_balance and get_statement

\* The entry of p in account a, or its debit when a has none.
entry(p, a) ==
  IF p.to = a THEN [account_id |-> p.to, amount |-> p.amount]
              ELSE [account_id |-> p.from, amount |-> -p.amount]

entries(rows, a) == [i \in DOMAIN rows |-> entry(rows[i], a)]

get_balance(a) == compute_balance(entries(journal, a), a)

Days == 1 .. (LastInstant + DayLength - 1) \div DayLength

midnight(d) == (d - 1) * DayLength + 1

last_microsecond(d) == d * DayLength

\* FAULT: the day begins after midnight.
within_open(p, from_date, to_date) ==
  /\ from_date # Unset => p.created_at > midnight(from_date)
  /\ to_date # Unset => p.created_at < last_microsecond(to_date)

within(p, from_date, to_date) ==
  /\ from_date # Unset => p.created_at >= midnight(from_date)
  /\ to_date # Unset => p.created_at < last_microsecond(to_date)

\* FAULT: the statement is sorted like the listing.
newest_first(p, r) == p.created_at > r.created_at

\* ORDER BY created_at ASC.
older(p, r) == p.created_at < r.created_at

in_order(rows) ==
  {s \in [1 .. Cardinality(rows) -> rows] :
     IsInjective(s) /\ \A i, j \in DOMAIN s : i < j => ~ older(s[j], s[i])}

\* The statements of rows: the order of equal timestamps is the database's
\* choice.  running starts at zero whatever came before.
statements(rows, a) ==
  {[i \in DOMAIN s |->
      [transaction_id |-> s[i].id, created_at |-> s[i].created_at,
       running_balance |-> running_total(entries(s, a), a)[i]]] : s \in in_order(rows)}

get_statement(a, from_date, to_date) ==
  statements({p \in committed : concerns(p, a) /\ within(p, from_date, to_date)}, a)

closing_balance(st) == IF st = <<>> THEN 0 ELSE st[Len(st)].running_balance

-----------------------------------------------------------------------------

ReadsInit ==
  /\ clock = 1
  /\ created_at = [t \in Transactions |-> 0]
  /\ L!Init
  /\ walk = [c \in Clients |-> NoPage("idle", Unset)]

\* Every transaction is over and every client has its pages.
AllRead ==
  /\ Cardinality(committed) = Cardinality(Transactions)
  /\ \A c \in Clients : walk[c].status \in {"done", "404"}
  /\ UNCHANGED reads_vars

ReadsNext ==
  \/ \E t \in Transactions : Begin(t) \/ Commit(t)
  \/ \E c \in Clients : FirstPage(c) \/ NextPage(c)
  \/ AllRead

ReadsSpec == ReadsInit /\ [][ReadsNext]_reads_vars

-----------------------------------------------------------------------------
\* Type invariant

Walks == [status : {"idle", "walking", "done", "404"}, query : Queries \cup {Unset},
          listed : Seq(Transactions), ends : SUBSET Transactions,
          next_cursor : Transactions \cup {Unset}, there : SUBSET Transactions]

\* Rows, clock and walks have their types.
ReadsTypeOK ==
  /\ clock \in 1 .. LastInstant
  /\ created_at \in [Transactions -> 0 .. LastInstant]
  /\ balance \in [Accounts -> Int]
  /\ journal \in Seq(Rows)
  /\ walk \in [Clients -> Walks]

-----------------------------------------------------------------------------
\* Safety

\* Whatever commits between two pages, a walk lists nothing twice and nothing out
\* of order, and a finished one has listed every row that was there when it
\* began, except transactions that share created_at with the last one of a page
\* (main.py:312 compares timestamps alone, so those are never listed).
WalkMissesOnlyTies ==
  \A c \in Clients :
    LET w == walk[c] IN
    /\ IsInjective(w.listed)
    /\ \A i, j \in DOMAIN w.listed :
         i < j => ~ sorted_before(w.query, row(w.listed[j]), row(w.listed[i]))
    /\ w.status = "done" =>
         \A t \in w.there \ Range(w.listed) :
           /\ w.query.of = "transactions"
           /\ \E e \in w.ends : created_at[e] = created_at[t]

\* A statement without dates closes at the balance get_balance answers with
\* (main.py:264, 396-413), and the statements of adjacent periods add up to the
\* one of the whole period but for what happened in the last microsecond of the
\* first (main.py:390).
StatementsAddUp ==
  \A a \in Accounts :
    /\ \A st \in get_statement(a, Unset, Unset) : closing_balance(st) = get_balance(a)
    /\ \A first, middle, last \in Days :
         first <= middle /\ middle < last =>
           \A st1 \in get_statement(a, first, middle),
              st2 \in get_statement(a, middle + 1, last),
              st \in get_statement(a, first, last),
              missed \in statements({p \in committed :
                              /\ concerns(p, a)
                              /\ p.created_at = last_microsecond(middle)}, a) :
             closing_balance(st) = closing_balance(st1) + closing_balance(st2)
                                                        + closing_balance(missed)

commit_order(t) == CHOOSE i \in DOMAIN journal : journal[i].id = t

\* No balance is ever negative, yet a running balance may be: a spend that began
\* before, or with, the deposit that covers it is listed ahead of it.  Nothing
\* else makes one negative (service.py:132 against main.py:393).
OverdrawnOnlyWhenOvertaken ==
  \A a \in Accounts \ Overdrawable :
    \A st \in get_statement(a, Unset, Unset) : \A i \in DOMAIN st :
      st[i].running_balance < 0 =>
        \E k \in 1 .. i, j \in i + 1 .. Len(st) :
          /\ commit_order(st[j].transaction_id) < commit_order(st[k].transaction_id)
          /\ st[k].created_at <= st[j].created_at
=============================================================================
