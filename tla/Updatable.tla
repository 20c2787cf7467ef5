------------------------------ MODULE Updatable ------------------------------
(***************************************************************************)
(* An updatable cursor (updatable.go): QueryUpdatable prepares and executes *)
(* a query, materialises all its rows in the client, and UpdateRow,        *)
(* DeleteRow and InsertRow send UPDATE_RESULT requests that name a row by  *)
(* its row id and by the number the server gave it at execution time.      *)
(*                                                                         *)
(* The client compacts its copy on a delete while the server's numbers     *)
(* stay, an update gives the row a new image (and perhaps a new id), and   *)
(* each of the handlers' round trips may fail.  The object is driver API   *)
(* behind Conn.Raw: database/sql does not know it and may close the        *)
(* connection under it.                                                    *)
(***************************************************************************)
EXTENDS Integers, Sequences, FiniteSetsExt, SequencesExt

CONSTANTS Columns,    \* the visible columns: records of label and name
          Keys,       \* the keys callers use in updates and values
          Values,     \* the values they write, "null" among them
          MaxRows,    \* bound on the rows of the result
          MaxWrites   \* bound on the updates and inserts

NotUpdated == "SQL_ALL_TYPES"           \* marks a column an update leaves alone

ASSUME UpdatableBounds ==
  /\ MaxRows \in Nat /\ MaxWrites \in Nat
  /\ "null" \in Values /\ NotUpdated \notin Values
  /\ Columns \in Seq([label : STRING, name : STRING])

Cols       == DOMAIN Columns
Contents   == Values \cup {"old"}       \* what a column may hold
Deleted    == [id |-> -1, val |-> [c \in Cols |-> "null"]]
RowIDs     == 0 .. MaxRows + MaxWrites
Images     == [id : RowIDs, val : [Cols -> Contents]]

VARIABLES
  connClosed, broken,                 \* fields of conn
  pc,                                 \* "new", a label inside a handler,
                                      \* "open", "failed" or "done"
  rows, serverNums, pos, resultID, closed,   \* fields of UpdatableRows
  stmtClosed, firstErr,               \* stmt.closed; Close's first error
  srv,                                \* the server: prepared statement, cursor,
                                      \* its rows by number, rows inserted
  seen,                               \* number of the row Next selected last
  want, may,                          \* what the columns of a row hold by the doc
                                      \* of UpdateRow; and may hold by its code
  refused, writes                     \* releases the server refused; ids handed out

conn     == <<connClosed, broken>>
cursor   == <<rows, serverNums, pos, resultID, closed, stmtClosed>>
releases == <<firstErr, refused>>
caller   == <<seen, want, may>>
vars     == <<connClosed, broken, pc, rows, serverNums, pos, resultID, closed,
              stmtClosed, firstErr, srv, seen, want, may, refused, writes>>

Init ==
  /\ connClosed = FALSE /\ broken = FALSE
  /\ pc = "new"
  /\ rows = <<>> /\ serverNums = <<>> /\ pos = -1 /\ resultID = 0
  /\ closed = FALSE /\ stmtClosed = FALSE /\ firstErr = FALSE
  /\ srv = [stmt |-> FALSE, cursor |-> FALSE, tab |-> <<>>, inserted |-> {}]
  /\ seen = -1 /\ want = <<>> /\ may = <<>>
  /\ refused = {} /\ writes = 0

-----------------------------------------------------------------------------
(***************************************************************************)
(* The server (external): the sessions a successful request may lead to.   *)
(***************************************************************************)
Prepared(s) == {[s EXCEPT !.stmt = TRUE]}

(* An updatable result of n rows, which the server numbers from 0. *)
Executed(s, n) ==
  {[s EXCEPT !.cursor = TRUE,
             !.tab = [k \in 0 .. n - 1 |->
                        [id |-> k, val |-> [c \in Cols |-> "old"]]]]}

(* Row num gets a new image if the request names its current id; an update *)
(* may move the row to a new id.                                           *)
Live(s)   == {k \in DOMAIN s.tab : s.tab[k] # Deleted}
Finds(s, num, id) == s.cursor /\ num \in Live(s) /\ s.tab[num].id = id

Updated(s, num, id, change) ==
  IF ~Finds(s, num, id) THEN {}
  ELSE {[s EXCEPT !.tab[num] =
           [id  |-> new,
            val |-> [c \in Cols |-> IF change[c] = NotUpdated THEN @.val[c]
                                    ELSE change[c]]]] :
          new \in {id, MaxRows + writes}}

DeletedRow(s, num, id) ==
  IF Finds(s, num, id) THEN {[s EXCEPT !.tab[num] = Deleted]} ELSE {}

InsertedRow(s, val) == IF s.cursor THEN {[s EXCEPT !.inserted = @ \cup {val}]} ELSE {}

ClosedResult(s) == {[s EXCEPT !.cursor = FALSE]}
FreedStmt(s)    == {[s EXCEPT !.stmt = FALSE]}

-----------------------------------------------------------------------------
(***************************************************************************)
(* execCtx as the handlers see it: ErrBadConn; success; an error that had  *)
(* no effect (the server's ERROR, a context already done); a failed        *)
(* exchange, which breaks the connection and may have taken effect.        *)
(***************************************************************************)
execCtx(out, after) ==
  \/ /\ out = "badConn" /\ (connClosed \/ broken)
     /\ UNCHANGED <<broken, srv>>
  \/ /\ out = "ok" /\ ~connClosed /\ ~broken
     /\ srv' \in after
     /\ UNCHANGED broken
  \/ /\ out = "refused" /\ ~connClosed /\ ~broken
     /\ UNCHANGED <<broken, srv>>
  \/ /\ out = "ioErr" /\ ~connClosed /\ ~broken
     /\ broken' = TRUE
     /\ srv' \in after \cup {srv}

Outs == {"badConn", "ok", "refused", "ioErr"}

-----------------------------------------------------------------------------
(***************************************************************************)
(* QueryUpdatable.                                                         *)
(***************************************************************************)
(* PREPARE; a cursor the server downgrades to read-only is given up. *)
QueryPrepare ==
  /\ pc = "new"
  /\ \E out \in Outs, updatable \in BOOLEAN :
       /\ execCtx(out, Prepared(srv))
       /\ pc' = IF out # "ok" THEN "failed"
                ELSE IF updatable THEN "prepared" ELSE "free"
  /\ UNCHANGED <<connClosed, cursor, releases, caller, writes>>

(* EXECUTE fails, or answers without rows or without cursor metadata: the  *)
(* statement is freed.  updatable.go:79-82 sends no CLOSE_RESULT; the      *)
(* server (external) retains a cursor only for a result it describes with  *)
(* that metadata.                                                          *)
QueryExecuteFails ==
  /\ pc = "prepared"
  /\ \E out \in Outs, n \in 0 .. MaxRows :
       execCtx(out, IF out = "ioErr" THEN Executed(srv, n) ELSE {srv})
  /\ pc' = "free"
  /\ UNCHANGED <<connClosed, cursor, releases, caller, writes>>

(* EXECUTE delivers every row of an updatable cursor. *)
QueryExecute ==
  /\ pc = "prepared"
  /\ \E n \in 0 .. MaxRows :
       /\ execCtx("ok", Executed(srv, n))
       /\ rows' = [i \in 1 .. n |-> srv'.tab[i - 1]]
       /\ serverNums' = [i \in 1 .. n |-> i - 1]
       /\ want' = [k \in 0 .. n - 1 |-> [c \in Cols |-> {"old"}]]
       /\ may' = want'
  /\ pos' = -1 /\ resultID' = 1 /\ pc' = "open"
  /\ UNCHANGED <<connClosed, closed, stmtClosed, releases, seen, writes>>

(* stmt.Close: FREESTMT, unless the connection is closed. *)
freeStmt(out) ==
  \/ /\ connClosed /\ out = "ok"
     /\ UNCHANGED <<broken, srv, stmtClosed, refused>>
  \/ /\ ~connClosed
     /\ stmtClosed' = TRUE
     /\ execCtx(out, FreedStmt(srv))
     /\ refused' = IF out = "refused" THEN refused \cup {"stmt"} ELSE refused

QueryFrees ==
  /\ pc = "free"
  /\ \E out \in Outs : freeStmt(out)
  /\ pc' = "failed"
  /\ UNCHANGED <<connClosed, rows, serverNums, pos, resultID, closed, firstErr,
                 caller, writes>>

-----------------------------------------------------------------------------
(***************************************************************************)
(* Iteration.  pos is -1 before the first row; the current row is rows[pos] *)
(* there and rows[pos + 1] here.                                           *)
(***************************************************************************)
Open       == pc = "open" /\ ~closed
HasCurrent == Open /\ pos + 1 \in DOMAIN rows         \* current()

NextRow ==
  /\ Open /\ pos + 1 < Len(rows)
  /\ pos' = pos + 1
  /\ seen' = serverNums[pos + 2]
  /\ UNCHANGED <<conn, pc, rows, serverNums, resultID, closed, stmtClosed,
                 releases, srv, want, may, writes>>

(* Scan resolves LOBs; a failed LOB exchange breaks the connection. *)
ScanLobFails ==
  /\ HasCurrent /\ ~connClosed /\ ~broken
  /\ broken' = TRUE
  /\ UNCHANGED <<connClosed, pc, cursor, releases, srv, caller, writes>>

-----------------------------------------------------------------------------
(***************************************************************************)
(* UpdateRow, DeleteRow and InsertRow.                                     *)
(***************************************************************************)
(* columnIndex: the first column whose label or name is the key, 0 if none. *)
columnIndex(key) ==
  LET hits == {c \in Cols : key \in {Columns[c].label, Columns[c].name}}
  IN  IF hits = {} THEN 0 ELSE Min(hits)

Known(updates) == \A key \in DOMAIN updates : columnIndex(key) # 0

(* The keys of updates that set column c. *)
setting(updates, c) == {key \in DOMAIN updates : columnIndex(key) = c}

\* Variant: columns that are not named are sent like the others, as NULL.
updateRequestsAllSet(updates) ==
  {r \in [Cols -> Values] :
     \A c \in Cols : IF setting(updates, c) = {} THEN r[c] = "null"
                     ELSE r[c] \in {updates[key] : key \in setting(updates, c)}}

(* The rows UpdateRow may send: updates is a Go map, so of two keys of one *)
(* column either may come last.                                            *)
updateRequests(updates) ==
  {r \in [Cols -> Values \cup {NotUpdated}] :
     \A c \in Cols : IF setting(updates, c) = {} THEN r[c] = NotUpdated
                     ELSE r[c] \in {updates[key] : key \in setting(updates, c)}}

insertRequests(values) ==
  {r \in [Cols -> Values] :
     \A c \in Cols : IF setting(values, c) = {} THEN r[c] = "null"
                     ELSE r[c] \in {values[key] : key \in setting(values, c)}}

\* Variant: the echoed number is taken for a position in the client's copy.
mergeUpdatedRowsByPosition(num, image) ==
  [i \in DOMAIN rows |-> IF i = num + 1 THEN image ELSE rows[i]]

(* mergeUpdatedRows: the echoed image replaces the row of that number. *)
mergeUpdatedRows(num, image) ==
  [i \in DOMAIN rows |-> IF serverNums[i] = num THEN image ELSE rows[i]]

(* The columns a caller means by a key: the one of that label, or else of  *)
(* that name.                                                              *)
meant(updates, c) ==
  {key \in DOMAIN updates :
     \/ Columns[c].label = key
     \/ Columns[c].name = key /\ \A d \in Cols : Columns[d].label # key}

(* The keys that fit column c, and whether a key fits no other column.      *)
fitting(updates, c) ==
  {key \in DOMAIN updates : key \in {Columns[c].label, Columns[c].name}}
Unshared(key, c) == \A d \in Cols \ {c} : key \notin {Columns[d].label, Columns[d].name}

given(updates, keys) == {updates[key] : key \in keys}

(* The contents of a row for its callers after an update. *)
wanted(old, updates) ==
  [c \in Cols |-> IF meant(updates, c) = {} THEN old[c]
                  ELSE given(updates, meant(updates, c))]

possible(old, updates) ==
  [c \in Cols |->
     IF \E key \in fitting(updates, c) : Unshared(key, c)
       THEN given(updates, fitting(updates, c))
       ELSE old[c] \cup given(updates, fitting(updates, c))]

UpdateMaps == UNION {[D -> Values] : D \in SUBSET Keys}

UpdateRow(updates) ==
  /\ HasCurrent /\ writes < MaxWrites
  /\ DOMAIN updates # {} /\ Known(updates)
  /\ writes' = writes + 1
  /\ LET num == serverNums[pos + 1]                     \* fillRowIdentity
         id  == rows[pos + 1].id
     IN  \E out \in Outs, r \in updateRequests(updates) :
           /\ execCtx(out, Updated(srv, num, id, r))
           /\ IF out = "ok"
                THEN /\ rows' = mergeUpdatedRows(num, srv'.tab[num])
                     /\ want' = [want EXCEPT ![num] = wanted(@, updates)]
                     /\ may' = [may EXCEPT ![num] = possible(@, updates)]
                ELSE UNCHANGED <<rows, want, may>>
  /\ UNCHANGED <<connClosed, pc, serverNums, pos, resultID, closed, stmtClosed,
                 releases, seen>>

\* Variant: the position stays, on the row that moved into the gap.
DeleteRowKeepsPos ==
  /\ HasCurrent
  /\ \E out \in Outs :
       /\ execCtx(out, DeletedRow(srv, serverNums[pos + 1], rows[pos + 1].id))
       /\ IF out = "ok" THEN /\ rows' = RemoveAt(rows, pos + 1)
                             /\ serverNums' = RemoveAt(serverNums, pos + 1)
                        ELSE UNCHANGED <<rows, serverNums>>
  /\ UNCHANGED <<connClosed, pc, pos, resultID, closed, stmtClosed, releases,
                 caller, writes>>

\* Variant: the numbers are not compacted with the rows.
DeleteRowKeepsNums ==
  /\ HasCurrent
  /\ \E out \in Outs :
       /\ execCtx(out, DeletedRow(srv, serverNums[pos + 1], rows[pos + 1].id))
       /\ IF out = "ok" THEN rows' = RemoveAt(rows, pos + 1) /\ pos' = pos - 1
                        ELSE UNCHANGED <<rows, pos>>
  /\ UNCHANGED <<connClosed, pc, serverNums, resultID, closed, stmtClosed,
                 releases, caller, writes>>

DeleteRow ==
  /\ HasCurrent
  /\ \E out \in Outs :
       /\ execCtx(out, DeletedRow(srv, serverNums[pos + 1], rows[pos + 1].id))
       /\ IF out = "ok" THEN /\ rows' = RemoveAt(rows, pos + 1)
                             /\ serverNums' = RemoveAt(serverNums, pos + 1)
                             /\ pos' = pos - 1
                        ELSE UNCHANGED <<rows, serverNums, pos>>
  /\ UNCHANGED <<connClosed, pc, resultID, closed, stmtClosed, releases, caller,
                 writes>>

(* The client's copy does not get the new row. *)
InsertRow(values) ==
  /\ Open /\ writes < MaxWrites
  /\ Known(values)
  /\ writes' = writes + 1
  /\ \E out \in Outs, r \in insertRequests(values) :
       execCtx(out, InsertedRow(srv, r))
  /\ UNCHANGED <<connClosed, pc, cursor, releases, caller>>

-----------------------------------------------------------------------------
(***************************************************************************)
(* Close: CLOSE_RESULT, then FREESTMT whatever became of it.               *)
(***************************************************************************)
Close ==
  /\ Open
  /\ closed' = TRUE
  /\ pc' = IF ~connClosed /\ resultID # 0 THEN "close.cursor" ELSE "close.stmt"
  /\ UNCHANGED <<conn, rows, serverNums, pos, resultID, stmtClosed, releases, srv,
                 caller, writes>>

CloseCursor ==
  /\ pc = "close.cursor"
  /\ \E out \in Outs :
       /\ execCtx(out, ClosedResult(srv))
       /\ firstErr' = (out # "ok")
       /\ refused' = IF out = "refused" THEN refused \cup {"cursor"} ELSE refused
  /\ pc' = "close.stmt"
  /\ UNCHANGED <<connClosed, cursor, caller, writes>>

\* Variant: an error of CLOSE_RESULT returns at once.
CloseStmtUnlessError ==
  /\ pc = "close.stmt"
  /\ IF firstErr THEN UNCHANGED <<broken, srv, stmtClosed, refused, firstErr>>
     ELSE \E out \in Outs : freeStmt(out) /\ firstErr' = (out # "ok")
  /\ pc' = "done"
  /\ UNCHANGED <<connClosed, rows, serverNums, pos, resultID, closed, caller,
                 writes>>

CloseStmt ==
  /\ pc = "close.stmt"
  /\ \E out \in Outs : freeStmt(out) /\ firstErr' = (firstErr \/ out # "ok")
  /\ pc' = "done"
  /\ UNCHANGED <<connClosed, rows, serverNums, pos, resultID, closed, caller,
                 writes>>

(* database/sql closes the connection under an open cursor: the server     *)
(* ends the session and drops what it held.                                *)
ConnClose ==
  /\ pc = "open" /\ ~connClosed
  /\ connClosed' = TRUE
  /\ srv' = [srv EXCEPT !.stmt = FALSE, !.cursor = FALSE]
  /\ UNCHANGED <<broken, pc, cursor, releases, caller, writes>>

Next ==
  \/ QueryPrepare \/ QueryExecuteFails \/ QueryExecute \/ QueryFrees
  \/ NextRow \/ ScanLobFails
  \/ \E updates \in UpdateMaps : UpdateRow(updates) \/ InsertRow(updates)
  \/ DeleteRow
  \/ Close \/ CloseCursor \/ CloseStmt \/ ConnClose

Spec == Init /\ [][Next]_vars

-----------------------------------------------------------------------------
(***************************************************************************)
(* Properties.                                                             *)
(***************************************************************************)
(* Every variable stays in its type; rows and serverNums go together, and  *)
(* pos points into them.                                                   *)
TypeOK ==
  /\ connClosed \in BOOLEAN /\ broken \in BOOLEAN
  /\ pc \in {"new", "prepared", "free", "failed", "open", "close.cursor",
             "close.stmt", "done"}
  /\ rows \in Seq(Images) /\ serverNums \in Seq(0 .. MaxRows - 1)
  /\ Len(rows) = Len(serverNums)
  /\ pos \in -1 .. Len(rows) - 1 /\ resultID \in {0, 1}
  /\ closed \in BOOLEAN /\ stmtClosed \in BOOLEAN
  /\ firstErr \in BOOLEAN /\ refused \subseteq {"cursor", "stmt"}
  /\ srv.stmt \in BOOLEAN /\ srv.cursor \in BOOLEAN
  /\ \A k \in DOMAIN srv.tab : srv.tab[k] \in Images \cup {Deleted}
  /\ srv.inserted \subseteq [Cols -> Contents]
  /\ seen \in -1 .. MaxRows - 1 /\ writes \in 0 .. MaxWrites

Usable == pc = "open" /\ ~broken

(* The client's copy is the server's cursor, row for row and in order,     *)
(* whatever deletes have compacted it: the images and the row ids later    *)
(* requests will name are the current ones.                                *)
CopyMatchesCursor ==
  Usable => /\ \A i \in DOMAIN rows : rows[i] = srv.tab[serverNums[i]]
            /\ Range(serverNums) = Live(srv)
            /\ \A i, j \in DOMAIN serverNums : i < j => serverNums[i] < serverNums[j]

(* Deleting never makes Next skip or repeat a row: the rows ahead of the   *)
(* position are exactly the live ones after the row Next selected last.    *)
AheadIsUnseen ==
  Usable => {serverNums[i] : i \in pos + 2 .. Len(rows)}
              = {k \in Live(srv) : k > seen}

(* An update never touches a column that none of its keys fits (a column   *)
(* not named keeps its value), nor any other row; a column that a key fits *)
(* and no other column does holds a value given for it; and a column that  *)
(* shares its keys with another one holds such a value or what it held.    *)
NamedColumnsOnly ==
  Usable => \A k \in Live(srv), c \in Cols : srv.tab[k].val[c] \in may[k][c]

(* updatable.go:162-163: "Keys of updates are column labels                *)
(* (case-insensitive); values are the new column values."  A key that is   *)
(* the label of a column writes that column.                               *)
WritesAreExact ==
  Usable => \A k \in Live(srv), c \in Cols : srv.tab[k].val[c] \in want[k][c]

(* Neither a failed QueryUpdatable nor a Close leaves a statement or a     *)
(* cursor behind on a connection that stays in use, unless the server      *)
(* refused the very request that releases it.                              *)
NothingLeaks ==
  pc \in {"failed", "done"} /\ ~broken
    => /\ srv.stmt => "stmt" \in refused
       /\ srv.cursor => "cursor" \in refused
       /\ pc = "done" /\ (srv.stmt \/ srv.cursor) => firstErr
=============================================================================
