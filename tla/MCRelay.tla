------------------------------ MODULE MCRelay ------------------------------
(***************************************************************************)
(* Small instances of Relay.  Transactions and relays are interchangeable, *)
(* but no symmetry is declared: the run checks liveness.                   *)
(***************************************************************************)
EXTENDS Relay, TLC
=============================================================================
