---------------------------- MODULE MCWritePath ----------------------------
(***************************************************************************)
(* A small instance of WritePath: three customers, a clearing account      *)
(* whose uuid sorts before or between them, and bodies that contend for    *)
(* the same money, the same keys and the same rows.                        *)
(***************************************************************************)
EXTENDS WritePath, Functions, TLC

CONSTANTS k1, k2, k3, ten, five

alice == 2
bob   == 4
carol == 5

deposit(k, a, n, s) ==
  [idempotency_key |-> k, type |-> "deposit", amount |-> n, amount_str |-> s,
   account_id |-> a, from_account_id |-> NoAccount,
   to_account_id |-> NoAccount, reference |-> s]

withdrawal(k, a, n, s) == [deposit(k, a, n, s) EXCEPT !.type = "withdrawal"]

transfer(k, a, b, n, s) ==
  [deposit(k, NoAccount, n, s) EXCEPT !.type = "transfer",
     !.from_account_id = a, !.to_account_id = b]

MCCustomers   == {alice, bob, carol}
MCClearingIds == {1, 3}

\* Two spends race for what one deposit brought, a third account is credited
\* meanwhile, and keys come back with the same and with other parameters, for a
\* missing account and in a malformed transfer.
MCBodies ==
  <<deposit(k1, alice, 2, ten), deposit(k1, alice, 1, five),
    withdrawal(k2, alice, 2, ten), deposit(k2, carol, 1, five),
    transfer(k2, bob, alice, 2, ten), transfer(k3, alice, bob, 2, ten),
    deposit(k3, 9, 1, five), transfer(k3, alice, alice, 1, five)>>

index(b) == CHOOSE i \in DOMAIN MCBodies : MCBodies[i] = b

\* Calls are interchangeable: of the assignments of bodies to calls that differ
\* by a permutation one is enough.
MCInit == Init /\ \A r, s \in Attempts : r < s => index(body[r]) <= index(body[s])

MCSpec == MCInit /\ [][Next]_vars

\* The fairness of FairSpec.
MCFairSpec == MCSpec /\ \A r \in Attempts : WF_vars(Statement(r))

MCBodySet == Range(MCBodies)
=============================================================================
