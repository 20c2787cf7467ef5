------------------------------ MODULE MCStmts -------------------------------
(***************************************************************************)
(* TLC instance of Stmts: a pool of two connections, three jobs of any     *)
(* kind and two failing exchanges.                                         *)
(***************************************************************************)
EXTENDS Stmts
=============================================================================
