----------------------------- MODULE MCConsumer -----------------------------
(***************************************************************************)
(* Small instances of Consumer: an event of the ledger, one of another     *)
(* publisher on the same topic, and a malformed one.                       *)
(***************************************************************************)
EXTENDS Consumer, TLC

CONSTANTS e1, foreign, bad, deposit, unknown

MCKindOf == [e \in Events |-> IF e = foreign THEN unknown ELSE deposit]
=============================================================================
