---------------------------- MODULE ResultStream ----------------------------
(***************************************************************************)
(* What driver.Rows promises its caller, whatever the paging behind it:    *)
(* the result sets of a response one after the other, and of each the rows *)
(* 1, 2, 3, ... in order, without a gap or a repetition.  The end of a     *)
(* result set is reported only after its last row, or after the server     *)
(* itself said that there are no more.                                     *)
(***************************************************************************)
EXTENDS Integers, Sequences

VARIABLES total,    \* the number of rows of each result set
          row,      \* number of the row the caller got last, 0 before the first
          cur,      \* the current result set
          rest,     \* the result sets still to come
          status,   \* what the caller was told last
          short     \* the server said that cur has no more rows

vars == <<total, row, cur, rest, status, short>>

Reading == {"ready", "row"}

Init ==
  /\ row = 0 /\ short = FALSE
  /\ \/ cur = 0 /\ rest = <<>> /\ status = "eof"
     \/ cur \in DOMAIN total /\ rest \in Seq(DOMAIN total) /\ status = "ready"

Deliver ==
  /\ status \in Reading
  /\ row < total[cur]
  /\ row' = row + 1 /\ status' = "row"
  /\ UNCHANGED <<total, cur, rest, short>>

Truncate ==
  /\ status \in Reading /\ ~short
  /\ short' = TRUE /\ status' = "eof"
  /\ UNCHANGED <<total, row, cur, rest>>

EndOfSet ==
  /\ status \in Reading
  /\ row = total[cur]
  /\ status' = "eof"
  /\ UNCHANGED <<total, row, cur, rest, short>>

Fail ==
  /\ status \in Reading
  /\ status' = "rowErr"
  /\ UNCHANGED <<total, row, cur, rest, short>>

Advance ==
  /\ status \in Reading \cup {"eof"} /\ rest # <<>>
  /\ cur' = Head(rest) /\ rest' = Tail(rest)
  /\ row' = 0 /\ short' = FALSE /\ status' = "ready"
  /\ UNCHANGED total

AdvanceFails ==
  /\ status \in Reading \cup {"eof"} /\ rest # <<>>
  /\ status' = "advanceErr"
  /\ UNCHANGED <<total, row, cur, rest, short>>

Close ==
  /\ status # "closed"
  /\ status' = "closed" /\ rest' = <<>>
  /\ UNCHANGED <<total, row, cur, short>>

Next == Deliver \/ Truncate \/ EndOfSet \/ Fail \/ Advance \/ AdvanceFails \/ Close

Spec == Init /\ [][Next]_vars
=============================================================================
