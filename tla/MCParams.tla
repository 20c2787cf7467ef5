------------------------------ MODULE MCParams ------------------------------
(***************************************************************************)
(* TLC instance of Params: two positions and two variables; every type     *)
(* class, kind and argument at position 1, an INTEGER parameter with an    *)
(* int64, or as OUT with either variable, at position 2.  Doubles have     *)
(* three bits, so that 5 is none, int64 ends at 7 and 8 is beyond it;      *)
(* numbers print in base 4, with an exponent from 4 on: 6 is 1.2e+01 and 8 *)
(* is 2e+01.                                                               *)
(***************************************************************************)
EXTENDS Params

MCNumbers == {-6, -3, 0, 2, 10, 12, 16}
MCNearest == [n \in Int64s |->
                IF n \in -8 .. 8 \/ n % 4 = 0 THEN n ELSE 4 * ((n \div 4) + ((n \div 4) % 2))]
MCPrinted == [n \in MCNumbers |-> CASE n = 12 -> 2 [] n = 16 -> NotNumber [] OTHER -> Whole(n)]
MCSignatures   == {<<c, "int">> : c \in Columns}
MCDeclarations == {[x \in Vars |-> IF x = "x" THEN k ELSE "int8"] : k \in GoKinds}
MCCalls == {<<a, b>> : a \in {c \in Args : c.var = "x"},
                       b \in {c \in Args : (c.out /\ ~c.in) \/ c.v = Go("int64", 2)}}
=============================================================================
