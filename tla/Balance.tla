------------------------------ MODULE Balance ------------------------------
(***************************************************************************)
(* Balances are derived, never stored: compute_balance of                  *)
(* src/app/service.py sums an account's rows of ledger_entries, here a     *)
(* sequence of records [account_id, amount, ...].  The sum is a recursive  *)
(* function so that BalanceProofs can reason about it.                     *)
(***************************************************************************)
EXTENDS Integers, Sequences

\* What one entry adds to the balance of account a.
share(e, a) == IF e.account_id = a THEN e.amount ELSE 0

\* running_total(entries, a)[n]: the balance of a after the first n entries.
running_total(entries, a) ==
  LET total[n \in 0 .. Len(entries)] ==
        IF n = 0 THEN 0 ELSE total[n - 1] + share(entries[n], a)
  IN  total

compute_balance(entries, a) == running_total(entries, a)[Len(entries)]
=============================================================================
