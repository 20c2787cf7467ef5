----------------------------- MODULE MCSession ------------------------------
(***************************************************************************)
(* TLC instances of Session: one pooled connection, a few transactions.    *)
(***************************************************************************)
EXTENDS Session
=============================================================================
