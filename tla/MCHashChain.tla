----------------------------- MODULE MCHashChain -----------------------------
(***************************************************************************)
(* A small instance of HashChain.  Ids are ordered, so that only contents  *)
(* are interchangeable.                                                    *)
(***************************************************************************)
EXTENDS HashChain, TLC

Symmetry == Permutations(Contents)
=============================================================================
