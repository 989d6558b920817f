------------------------------- MODULE Ledger -------------------------------
(***************************************************************************)
(* What the ledger promises its clients, with no statements, locks or      *)
(* rows: money moves between accounts in one indivisible step, at most     *)
(* once per idempotency key, and never out of an account that cannot       *)
(* cover it.  Module WritePath shows that POST /transactions, as the code  *)
(* runs it, implements this.                                               *)
(***************************************************************************)
EXTENDS Integers, Sequences

CONSTANTS
  Accounts,      \* every account id that may ever hold a balance
  Overdrawable   \* the accounts allowed below zero: External Clearing

VARIABLES
  balance,       \* balance[a]: the derived balance of account a
  journal        \* the postings [id, key, from, to, amount], oldest first

Init ==
  /\ balance = [a \in Accounts |-> 0]
  /\ journal = <<>>

UsedKeys == {journal[i].key : i \in DOMAIN journal}

\* p.amount leaves p.from and arrives at p.to, under a key not used before.
\* Only an overdrawable account may be both ends (a deposit to External
\* Clearing itself, which the code accepts and which moves nothing).
Post(p) ==
  /\ p.key \notin UsedKeys
  /\ p.amount > 0
  /\ p.from = p.to => p.from \in Overdrawable
  /\ p.from \in Overdrawable \/ balance[p.from] >= p.amount
  /\ balance' = [a \in Accounts |->
                   balance[a] - (IF a = p.from THEN p.amount ELSE 0)
                              + (IF a = p.to THEN p.amount ELSE 0)]
  /\ journal' = Append(journal, p)

\* The posting is read off the longer journal, so that a step of an
\* implementation is tested without enumerating every possible posting.
Next ==
  /\ Len(journal') = Len(journal) + 1
  /\ Post(journal'[Len(journal')])

Spec == Init /\ [][Next]_<<balance, journal>>
=============================================================================
