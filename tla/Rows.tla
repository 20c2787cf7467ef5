-------------------------------- MODULE Rows --------------------------------
(***************************************************************************)
(* A result set on the client and its cursor on the server (rows.go and    *)
(* rowsFromResponse in conn_query.go): rows arrive in blocks, the first    *)
(* with the response, the others through REQUESTDATA; a response may chain *)
(* further result sets; CLOSE_RESULT releases a cursor.                    *)
(*                                                                         *)
(* The rows of a result set are their numbers 1 .. total.  A frame of the  *)
(* response is its index, 1 being the main Result.  The caller is          *)
(* database/sql: it calls Close once, and nothing else after an error.     *)
(***************************************************************************)
EXTENDS Integers, Sequences

CONSTANTS Sizes,      \* possible numbers of rows of a result set
          MaxFrames,  \* bound on the frames of the response
          FetchSize   \* cfg.FetchSize: rows per block, 0 = all at once

ASSUME RowsBounds ==
  Sizes \subseteq Nat /\ MaxFrames \in Nat \ {0} /\ FetchSize \in Nat

FrameIDs == 1 .. MaxFrames
Kinds    == {"rows", "call", "other"}

VARIABLES
  kind, total, first, id,     \* the response: for each frame the kind of Result,
                              \* RowSet.Size, its first block and RowSet.ID
  broken,                     \* conn.broken
  cur, block, blockPos, absPos, done, next,    \* fields of rows
  held,                       \* result sets whose cursor the server retains
  row, status, short,         \* what the caller got: see ResultStream
  closeErr                    \* a CLOSE_RESULT failed

response == <<kind, total, first, id>>
rows     == <<cur, block, blockPos, absPos, done, next>>
caller   == <<row, status, short>>
vars     == <<kind, total, first, id, broken, cur, block, blockPos, absPos, done,
              next, held, row, status, short, closeErr>>

-----------------------------------------------------------------------------
(***************************************************************************)
(* The server (external).                                                  *)
(***************************************************************************)

(* The blocks it may send from row off + 1 on: some rows, up to FetchSize. *)
Blocks(size, off) ==
  LET rest  == size - off
      limit == IF FetchSize = 0 \/ rest < FetchSize THEN rest ELSE FetchSize
  IN  {[j \in 1 .. n |-> off + j] : n \in 1 .. limit}

(* The first block of a result set of that size. *)
FirstBlocks(size) == IF size = 0 THEN {<<>>}
                     ELSE IF FetchSize = 0 THEN {[j \in 1 .. size |-> j]}
                     ELSE Blocks(size, 0)

-----------------------------------------------------------------------------
isRowsResult(k) == kind[k] = "rows"

(* The loop over the frames that collects those that are result sets.      *)
rowsUpTo[k \in 0 .. MaxFrames] ==
  IF k = 0 THEN <<>>
  ELSE IF isRowsResult(k) THEN Append(rowsUpTo[k - 1], k) ELSE rowsUpTo[k - 1]

(* newRows and rowsFromResponse: the result sets of the response, in order. *)
(* A CALL_RESPONSE's own row is not one; a response whose main Result is    *)
(* neither yields an empty Rows.                                            *)
resultSets == IF kind[1] = "other" THEN <<>> ELSE rowsUpTo[MaxFrames]

\* Variant: the absolute position of the previous result set is kept.
loadResultKeepsPos(k) ==
  [cur |-> k, block |-> first[k], blockPos |-> 0, absPos |-> absPos, done |-> FALSE]

(* loadResult: the fields of rows for result set k. *)
loadResult(k) ==
  [cur |-> k, block |-> first[k], blockPos |-> 0, absPos |-> 0, done |-> FALSE]

Init ==
  /\ kind \in [FrameIDs -> Kinds]
  /\ \A k \in FrameIDs : kind[k] = "call" => k = 1
  /\ total \in [FrameIDs -> Sizes]
  /\ first \in [FrameIDs -> UNION {FirstBlocks(n) : n \in Sizes}]
  /\ \A k \in FrameIDs : first[k] \in FirstBlocks(total[k])
  /\ held = {k \in FrameIDs : isRowsResult(k) /\ Len(first[k]) < total[k]}
  /\ id \in [FrameIDs -> 0 .. MaxFrames]
  /\ \A k \in FrameIDs : id[k] \in {0, k} /\ (k \in held => id[k] = k)
  /\ broken = FALSE
  /\ absPos = 0
  /\ IF resultSets = <<>>
       THEN /\ cur = 0 /\ block = <<>> /\ blockPos = 0
            /\ done = TRUE /\ next = <<>> /\ status = "eof"
       ELSE /\ LET r == loadResult(Head(resultSets)) IN
                 /\ cur = r.cur /\ block = r.block /\ blockPos = r.blockPos
                 /\ done = r.done
            /\ next = Tail(resultSets) /\ status = "ready"
  /\ row = 0 /\ short = FALSE /\ closeErr = FALSE

-----------------------------------------------------------------------------
(***************************************************************************)
(* Next.                                                                   *)
(***************************************************************************)
CanRead   == status \in {"ready", "row"}
Exhausted == blockPos >= Len(block)

(* The caller's row: the row at blockPos of block b. *)
handOut(b, pos) ==
  /\ block' = b /\ blockPos' = pos + 1 /\ absPos' = absPos + 1
  /\ row' = b[pos + 1] /\ status' = "row"

(* A row of the block in memory. *)
NextInBlock ==
  /\ CanRead /\ ~done /\ ~Exhausted
  /\ handOut(block, blockPos)
  /\ UNCHANGED <<response, broken, cur, done, next, held, short, closeErr>>

(* The block is used up and so is the result: io.EOF. *)
NextAtEnd ==
  /\ CanRead /\ ~done /\ Exhausted
  /\ absPos >= total[cur]
  /\ done' = TRUE /\ status' = "eof"
  /\ UNCHANGED <<response, broken, cur, block, blockPos, absPos, next, held,
                 row,
                 short, closeErr>>

\* Variant: the resume offset counts the row after the next unread one.
requestOffsetSkips == absPos + 1

(* fetchMore resumes at the next unread row. *)
requestOffset == absPos

(* fetchMore gets a block, and Next returns its first row.  The server     *)
(* drops the cursor with the last row it delivers.                         *)
NextFetches ==
  /\ CanRead /\ ~done /\ Exhausted
  /\ absPos < total[cur] /\ ~broken /\ cur \in held
  /\ \E b \in Blocks(total[cur], requestOffset) :
       /\ handOut(b, 0)
       /\ held' = IF requestOffset + Len(b) >= total[cur] THEN held \ {cur} ELSE held
  /\ UNCHANGED <<response, broken, cur, done, next, short, closeErr>>

(* fetchMore gets no rows: Next takes it for the end. *)
NextEmpty ==
  /\ CanRead /\ ~done /\ Exhausted
  /\ absPos < total[cur] /\ ~broken
  /\ done' = TRUE /\ short' = TRUE /\ status' = "eof"
  /\ UNCHANGED <<response, broken, cur, block, blockPos, absPos, next, held,
                 row,
                 closeErr>>

(* fetchMore fails: ErrBadConn, an I/O error (the connection breaks), or   *)
(* an ERROR from the server.                                               *)
NextFetchFails ==
  /\ CanRead /\ ~done /\ Exhausted
  /\ absPos < total[cur]
  /\ broken' \in {broken, TRUE}
  /\ status' = "rowErr"
  /\ UNCHANGED <<response, rows, held, row, short, closeErr>>

(* resolveValue fails to fetch a LOB of the row: the row is used up, the   *)
(* connection is broken (lobExchange), and the caller gets an error.       *)
NextLobFails ==
  /\ CanRead /\ ~done /\ ~Exhausted
  /\ blockPos' = blockPos + 1 /\ absPos' = absPos + 1
  /\ broken' = TRUE /\ status' = "rowErr"
  /\ UNCHANGED <<response, cur, block, done, next, held, row, short, closeErr>>

(* The same for the first row of a block that Next has just fetched.       *)
NextFetchedLobFails ==
  /\ CanRead /\ ~done /\ Exhausted
  /\ absPos < total[cur] /\ ~broken /\ cur \in held
  /\ \E b \in Blocks(total[cur], requestOffset) :
       /\ block' = b
       /\ held' = IF requestOffset + Len(b) >= total[cur] THEN held \ {cur} ELSE held
  /\ blockPos' = 1 /\ absPos' = absPos + 1
  /\ broken' = TRUE /\ status' = "rowErr"
  /\ UNCHANGED <<response, cur, done, next, row, short, closeErr>>

-----------------------------------------------------------------------------
(***************************************************************************)
(* Close and NextResultSet.                                                *)
(***************************************************************************)
\* Variant: the cursor is taken for consumed one row early.
outstandingEarly == cur # 0 /\ id[cur] # 0 /\ absPos + 1 < total[cur]

(* closeCurrent sends CLOSE_RESULT: an ID, and rows not consumed.          *)
outstanding == cur # 0 /\ id[cur] # 0 /\ absPos < total[cur]

(* The round trip of CLOSE_RESULT: none needed, done, failed (with or      *)
(* without the connection), refused with ErrBadConn.                       *)
closeCurrent(ok) ==
  \/ /\ ~outstanding /\ ok
     /\ UNCHANGED <<broken, held, closeErr>>
  \/ /\ outstanding /\ ok /\ ~broken
     /\ held' = held \ {cur}
     /\ UNCHANGED <<broken, closeErr>>
  \/ /\ outstanding /\ ~ok /\ ~broken
     /\ broken' \in BOOLEAN /\ held' \in {held, held \ {cur}}
     /\ closeErr' = TRUE
  \/ /\ outstanding /\ ~ok /\ broken
     /\ closeErr' = TRUE
     /\ UNCHANGED <<broken, held>>

(* Close: the chained result sets are forgotten, the current one closed.   *)
Close ==
  /\ status # "closed"
  /\ \E ok \in BOOLEAN : closeCurrent(ok)
  /\ done' = TRUE /\ next' = <<>> /\ status' = "closed"
  /\ UNCHANGED <<response, cur, block, blockPos, absPos, row, short>>

(* NextResultSet: HasNextResultSet, then close the current one, load.      *)
NextResultSet ==
  /\ CanRead \/ status = "eof"
  /\ next # <<>>
  /\ closeCurrent(TRUE)
  /\ LET r == loadResult(Head(next)) IN
       /\ cur' = r.cur /\ block' = r.block /\ blockPos' = r.blockPos
       /\ absPos' = r.absPos /\ done' = r.done
  /\ next' = Tail(next)
  /\ row' = 0 /\ short' = FALSE /\ status' = "ready"
  /\ UNCHANGED response

(* closeCurrent's error is returned before anything moves. *)
NextResultSetFails ==
  /\ CanRead \/ status = "eof"
  /\ next # <<>>
  /\ closeCurrent(FALSE)
  /\ status' = "advanceErr"
  /\ UNCHANGED <<response, rows, row, short>>

Next ==
  \/ NextInBlock \/ NextAtEnd \/ NextFetches \/ NextEmpty \/ NextFetchFails
  \/ NextLobFails \/ NextFetchedLobFails \/ Close \/ NextResultSet \/ NextResultSetFails

Spec == Init /\ [][Next]_vars

-----------------------------------------------------------------------------
(***************************************************************************)
(* Properties.                                                             *)
(***************************************************************************)

(* Every variable stays in its type; the client's position never runs past *)
(* the block in memory or past the size the server announced.              *)
TypeOK ==
  /\ kind \in [FrameIDs -> Kinds] /\ total \in [FrameIDs -> Nat]
  /\ first \in [FrameIDs -> Seq(Nat)] /\ id \in [FrameIDs -> 0 .. MaxFrames]
  /\ broken \in BOOLEAN /\ done \in BOOLEAN
  /\ cur \in FrameIDs \cup {0} /\ next \in Seq(FrameIDs)
  /\ block \in Seq(Nat) /\ blockPos \in 0 .. Len(block) /\ absPos \in Nat
  /\ (cur # 0 => absPos <= total[cur])
  /\ held \subseteq FrameIDs
  /\ row \in Nat
  /\ status \in {"ready", "row", "eof", "rowErr", "advanceErr", "closed"}
  /\ short \in BOOLEAN /\ closeErr \in BOOLEAN

(* A cursor is retained exactly as long as it is needed.  A REQUESTDATA    *)
(* always finds its cursor: while rows are still to be fetched the server  *)
(* retains it, and the client knows its ID.  And no cursor outlives its    *)
(* result set: after Close or NextResultSet the server retains none of     *)
(* those that were opened, unless CLOSE_RESULT itself failed or the        *)
(* connection is broken.                                                   *)
CursorsHeldAsNeeded ==
  /\ CanRead /\ Exhausted /\ absPos < total[cur] => cur \in held /\ id[cur] = cur
  /\ ~closeErr /\ ~broken =>
       \A k \in held : k > cur \/ (k = cur /\ status # "closed")

(* The rows the caller sees are what ResultStream promises: in order, none *)
(* twice, none missing, the end only after the last one.                   *)
Stream == INSTANCE ResultStream WITH rest <- next
ImplementsResultStream == Stream!Spec
=============================================================================
