---------------------------- MODULE MCUpdatable ----------------------------
(***************************************************************************)
(* Updatable on small instances: SELECT a AS x, b AS a FROM t.  The key     *)
(* "x" is the label of the first column only and "b" the name of the       *)
(* second only; "a" is the name of the first and the label of the second.  *)
(***************************************************************************)
EXTENDS Updatable

Aliased == << [label |-> "x", name |-> "a"], [label |-> "a", name |-> "b"] >>
=============================================================================
