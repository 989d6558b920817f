----------------------------- MODULE MCRequests -----------------------------
(***************************************************************************)
(* A small instance of Requests: four requests, as many as can stall two   *)
(* threads and two connections, and one user whose role changes while a    *)
(* token lives.                                                            *)
(***************************************************************************)
EXTENDS Requests, TLC

Symmetry == Permutations(Requests)
=============================================================================
