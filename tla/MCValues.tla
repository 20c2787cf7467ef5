------------------------------ MODULE MCValues ------------------------------
(***************************************************************************)
(* The components that values pass through on their way to the server and  *)
(* back: the parameters of a CALL, LOB parameters, LOB contents, and the   *)
(* rows of results.  They share no state.  A behaviour is one of a single  *)
(* component, which turn names; the other three stay as they are in one of *)
(* their initial states.                                                   *)
(*                                                                         *)
(* Calls are those of MCParams.  Contents have up to MaxRunes runes and    *)
(* chunks two or three units, so that pairs meet the end of a chunk.       *)
(***************************************************************************)
EXTENDS MCParams, LobParams, Lob, Rows, TLC

VARIABLE turn

(* Connections start alike and no action names one. *)
ConnSymmetry == Permutations(Conns)

CallAtRest ==
  /\ column = [i \in Positions |-> "int"] /\ varKind = [x \in Vars |-> "int8"]
  /\ mem = [x \in Vars |-> Go("int8", 0)]
  /\ CallInit

BindAtRest == args = [i \in 1 .. NumParams |-> Null] /\ BindInit

LobAtRest ==
  /\ form = [clob |-> FALSE, reader |-> FALSE, length |-> -1] /\ source = <<>>
  /\ LobInit

RowsAtRest ==
  /\ kind = [k \in FrameIDs |-> "other"] /\ total = [k \in FrameIDs |-> 0]
  /\ first = [k \in FrameIDs |-> <<>>] /\ id = [k \in FrameIDs |-> 0]
  /\ Init

MCInit ==
  \/ turn = "call" /\ CallInit   /\ BindAtRest /\ LobAtRest /\ RowsAtRest
  \/ turn = "bind" /\ CallAtRest /\ BindInit   /\ LobAtRest /\ RowsAtRest
  \/ turn = "lob"  /\ CallAtRest /\ BindAtRest /\ LobInit   /\ RowsAtRest
  \/ turn = "rows" /\ CallAtRest /\ BindAtRest /\ LobAtRest /\ Init

MCNext ==
  \/ turn = "call" /\ CallNext /\ UNCHANGED <<turn, bindVars, lobVars, vars>>
  \/ turn = "bind" /\ BindNext /\ UNCHANGED <<turn, callVars, lobVars, vars>>
  \/ turn = "lob"  /\ LobNext  /\ UNCHANGED <<turn, callVars, bindVars, vars>>
  \/ turn = "rows" /\ Next     /\ UNCHANGED <<turn, callVars, bindVars, lobVars>>

MCSpec == MCInit /\ [][MCNext]_<<turn, callVars, bindVars, lobVars, vars>>
=============================================================================
