----------------------------- MODULE MCDelivery -----------------------------
(***************************************************************************)
(* A small instance of Delivery; every transaction is a deposit.           *)
(***************************************************************************)
EXTENDS Delivery, TLC

CONSTANT deposit

MCKindOf == [t \in Transactions |-> deposit]
=============================================================================
