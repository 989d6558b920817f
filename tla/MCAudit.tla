------------------------------ MODULE MCAudit ------------------------------
(***************************************************************************)
(* Small instances of Audit: accounts and postings are interchangeable.    *)
(***************************************************************************)
EXTENDS Audit, TLC

Symmetry == Permutations(Accounts) \cup Permutations(Transactions)
=============================================================================
