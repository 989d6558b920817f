------------------------------ MODULE MCReads ------------------------------
(***************************************************************************)
(* A small instance of Reads: one customer pays another, External Clearing *)
(* funds both, and one client asks for each kind of listing.               *)
(***************************************************************************)
EXTENDS Reads, TLC

CONSTANTS alice, bob, clearing, nobody

\* Everything, one account's transactions, one type, one account's entries, and
\* the entries of an account that does not exist.
MCQueries ==
  {[of |-> "transactions", account |-> Unset, type |-> Unset],
   [of |-> "transactions", account |-> alice, type |-> Unset],
   [of |-> "transactions", account |-> Unset, type |-> "deposit"],
   [of |-> "entries", account |-> alice, type |-> Unset],
   [of |-> "entries", account |-> nobody, type |-> Unset]}

Symmetry == Permutations(Transactions)
=============================================================================
