----------------------------- MODULE MCStartup -----------------------------
(***************************************************************************)
(* A small instance of Startup: one instance of the release that ends with *)
(* migration 003 and two of the current one, one of which lacks its secret *)
(* and can upgrade the database but not serve it.                          *)
(***************************************************************************)
EXTENDS Startup

CONSTANTS old, new, broken

MChead == [i \in Instances |-> IF i = old THEN 3 ELSE 5]
=============================================================================
