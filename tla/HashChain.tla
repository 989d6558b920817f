------------------------------ MODULE HashChain ------------------------------
(***************************************************************************)
(* The hash chain over the transactions table: verify_hash_chain of        *)
(* src/app/chain.py, the links link_transaction appends, the re-anchoring  *)
(* of migration 004, and edits of rows behind the service's back.          *)
(*                                                                         *)
(* SHA-256 is taken to be injective: a digest is the tuple that is hashed. *)
(* That link_transaction may be one step here is what WritePath shows      *)
(* (TipIsFinal).                                                           *)
(***************************************************************************)
EXTENDS Integers, Sequences, FiniteSets

CONSTANTS
  Ids,        \* ids of transactions, ordered as uuids are
  Contents,   \* what a row hashes besides its id: key, type, amount, request_hash
  NotADigest, \* a chain_hash no row hashes to
  MaxTime,    \* bound on created_at
  MaxEdits    \* bound on edits behind the service's back

ASSUME IdsAssumption == Ids \subseteq Nat \ {0}

ASSUME BoundsAssumption == MaxTime \in Nat /\ MaxEdits \in Nat

VARIABLES
  rows,       \* the transactions table, by id
  revision,   \* schema revision: 3, or 4 once re-anchored
  edits       \* edits so far

vars == <<rows, revision, edits>>

Null == 0   \* chain_seq IS NULL

-----------------------------------------------------------------------------
\* chain.py

GENESIS_HASH == <<>>

\* FAULT: fields joined in another order than migration 004 joined them.
reordered_hash(id, content, prev_hash) == <<content, id, prev_hash>>

compute_chain_hash(id, content, prev_hash) == <<id, content, prev_hash>>

\* ORDER BY: position n is taken by the member of S that n - 1 others come before.
in_order(S, before) ==
  [n \in 1 .. Cardinality(S) |->
     CHOOSE i \in S : Cardinality({j \in S : <<j, i>> \in before}) = n - 1]

\* WHERE chain_seq IS NOT NULL.
linked(table) == {i \in DOMAIN table : table[i].chain_seq # Null}

by_seq(table) ==
  {p \in linked(table) \X linked(table) : table[p[1]].chain_seq < table[p[2]].chain_seq}

\* ORDER BY chain_seq.
chain(table) == in_order(linked(table), by_seq(table))

\* ORDER BY chain_seq DESC LIMIT 1.
tip(table) == chain(table)[Len(chain(table))]

\* The row link_transaction makes of a new transaction.
linked_row(table, id, content, time) ==
  LET first == linked(table) = {}
      prev_hash == IF first THEN GENESIS_HASH ELSE table[tip(table)].chain_hash
  IN  [content |-> content, entries |-> content, created_at |-> time,
       chain_seq |-> IF first THEN 1 ELSE table[tip(table)].chain_seq + 1,
       prev_hash |-> prev_hash,
       chain_hash |-> compute_chain_hash(id, content, prev_hash)]

expected_prev(table, n) ==
  IF n = 1 THEN GENESIS_HASH ELSE table[chain(table)[n - 1]].chain_hash

recomputed(table, n) ==
  LET i == chain(table)[n]
  IN  compute_chain_hash(i, table[i].content, table[i].prev_hash)

\* FAULTS: rows are hashed but not compared with their neighbours; the outcome of
\* the last row decides.
broken_hashes(table) ==
  {n \in DOMAIN chain(table) : recomputed(table, n) # table[chain(table)[n]].chain_hash}

broken_at_the_end(table) ==
  {n \in DOMAIN chain(table) :
     /\ n = Len(chain(table))
     /\ \/ table[chain(table)[n]].prev_hash # expected_prev(table, n)
        \/ recomputed(table, n) # table[chain(table)[n]].chain_hash}

\* Positions verify_hash_chain reports; its status is "pass" when there are none.
broken_links(table) ==
  {n \in DOMAIN chain(table) :
     \/ table[chain(table)[n]].prev_hash # expected_prev(table, n)
     \/ recomputed(table, n) # table[chain(table)[n]].chain_hash}

-----------------------------------------------------------------------------
\* Migration 004

\* SELECT ... ORDER BY created_at ASC, id ASC.
older(table) ==
  {p \in (DOMAIN table) \X (DOMAIN table) :
     \/ table[p[1]].created_at < table[p[2]].created_at
     \/ table[p[1]].created_at = table[p[2]].created_at /\ p[1] < p[2]}

by_age(table) == in_order(DOMAIN table, older(table))

\* hashes[seq], the chain_hash of the seq-th row, with the genesis hash at 0.
hashes(table) ==
  LET ids == by_age(table)
      h[seq \in 0 .. Len(ids)] ==
        IF seq = 0 THEN GENESIS_HASH
        ELSE <<ids[seq], table[ids[seq]].content, h[seq - 1]>>
  IN  h

\* FAULT: rows are numbered, but hashes that are there already are kept.
numbered(table) ==
  [i \in DOMAIN table |->
     LET seq == CHOOSE n \in DOMAIN by_age(table) : by_age(table)[n] = i
     IN  [table[i] EXCEPT !.chain_seq = seq]]

anchored(table) ==
  [i \in DOMAIN table |->
     LET seq == CHOOSE n \in DOMAIN by_age(table) : by_age(table)[n] = i
     IN  [table[i] EXCEPT !.chain_seq = seq,
                          !.prev_hash = hashes(table)[seq - 1],
                          !.chain_hash = hashes(table)[seq]]]

-----------------------------------------------------------------------------
\* The table

Init ==
  /\ rows = [i \in {} |-> Null]
  /\ revision = 3
  /\ edits = 0

insert(id, row) ==
  /\ id \notin DOMAIN rows
  /\ rows' = [i \in DOMAIN rows \cup {id} |-> IF i = id THEN row ELSE rows[i]]
  /\ UNCHANGED <<revision, edits>>

\* The release before 004 linked rows without a lock to whatever it took for the
\* tip, and knew no chain_seq.  Its instances may outlive the migration.
InsertBefore004(id, content, time) ==
  \E prev_hash \in {GENESIS_HASH} \cup {rows[i].chain_hash : i \in DOMAIN rows} :
    insert(id, [content |-> content, entries |-> content, created_at |-> time,
                chain_seq |-> Null, prev_hash |-> prev_hash,
                chain_hash |-> <<id, content, prev_hash>>])

\* created_at is the start of the transaction, so it need not grow along the chain.
Link(id, content, time) ==
  revision = 4 /\ insert(id, linked_row(rows, id, content, time))

\* One transaction, whose ALTER TABLE keeps writers out until it commits.
Upgrade ==
  /\ revision = 3
  /\ revision' = 4
  /\ rows' = anchored(rows)
  /\ UNCHANGED edits

Downgrade ==
  /\ revision = 4
  /\ revision' = 3
  /\ rows' = [i \in DOMAIN rows |-> [rows[i] EXCEPT !.chain_seq = Null]]
  /\ UNCHANGED edits

\* One row of the chain is rewritten, rehashed or not, moved, or taken out; or the
\* ledger entries that belong to it are.
Edit(i) ==
  /\ revision = 4 /\ rows[i].chain_seq # Null
  /\ edits < MaxEdits
  /\ edits' = edits + 1
  /\ UNCHANGED revision
  /\ \/ \E content \in Contents \ {rows[i].content} :
          \/ rows' = [rows EXCEPT ![i].entries = content]
          \/ rows' = [rows EXCEPT ![i].content = content]
          \/ rows' = [rows EXCEPT ![i].content = content,
                        ![i].chain_hash = compute_chain_hash(i, content, rows[i].prev_hash)]
     \/ \E prev_hash \in {GENESIS_HASH, NotADigest} \ {rows[i].prev_hash} :
          rows' = [rows EXCEPT ![i].prev_hash = prev_hash]
     \/ rows' = [rows EXCEPT ![i].chain_hash = NotADigest]
     \/ rows' = [rows EXCEPT ![i].chain_seq = Null]
     \/ rows' = [rows EXCEPT ![i].chain_seq = rows[tip(rows)].chain_seq + 1]
     \/ rows' = [j \in DOMAIN rows \ {i} |-> rows[j]]

Next ==
  \/ \E id \in Ids, content \in Contents, time \in 1 .. MaxTime :
       InsertBefore004(id, content, time) \/ Link(id, content, time)
  \/ Upgrade \/ Downgrade
  \/ \E i \in DOMAIN rows : Edit(i)

Spec == Init /\ [][Next]_vars

-----------------------------------------------------------------------------
\* Properties

IsDigest(h) ==
  \/ h \in {GENESIS_HASH, NotADigest}
  \/ DOMAIN h = 1 .. 3 /\ h[1] \in Ids /\ h[2] \in Contents

\* The types of the columns: digests, and a chain_seq that may be NULL.
TypeOK ==
  /\ DOMAIN rows \subseteq Ids
  /\ \A i \in DOMAIN rows :
       /\ {rows[i].content, rows[i].entries} \subseteq Contents
       /\ rows[i].created_at \in 1 .. MaxTime
       /\ rows[i].chain_seq \in Nat
       /\ IsDigest(rows[i].prev_hash) /\ IsDigest(rows[i].chain_hash)
  /\ revision \in {3, 4}
  /\ edits \in 0 .. MaxEdits

\* Whatever forks the old release left, and however created_at runs, the chain
\* verifies from migration 004 on, and its rows are numbered without a gap
\* (004_chain_sequence.py:46-63, chain.py:38-48).
ChainVerifies ==
  revision = 4 /\ edits = 0 =>
    /\ broken_links(rows) = {}
    /\ \A n \in DOMAIN chain(rows) : rows[chain(rows)[n]].chain_seq = n

\* A row is rewritten, moved or taken out in this step; its entries are not hashed.
changed(i) ==
  \/ i \notin DOMAIN rows'
  \/ \E column \in {"content", "chain_seq", "prev_hash", "chain_hash"} :
       rows'[i][column] # rows[i][column]

\* One edit of a row that has a successor in an intact chain is reported, even when
\* the row is rehashed to match (chain.py:70-87).
EditIsDetected ==
  [][edits' > edits /\ broken_links(rows) = {} =>
       \A n \in DOMAIN chain(rows) :
         n < Len(chain(rows)) /\ changed(chain(rows)[n]) => broken_links(rows') # {}]_vars

\* No transaction that is written later makes a broken chain verify again
\* (chain.py:45-48 against 70-87).
NothingHeals ==
  [][broken_links(rows) # {} /\ DOMAIN rows \subseteq DOMAIN rows'
       /\ rows' # rows /\ edits' = edits /\ revision' = revision
     => broken_links(rows') # {}]_vars
=============================================================================
