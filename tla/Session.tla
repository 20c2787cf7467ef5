------------------------------ MODULE Session -------------------------------
(***************************************************************************)
(* Transactions on one pooled connection: BeginTx, Commit and Rollback     *)
(* (tx.go), savepoints and PrepareCommit (savepoint.go, twophase.go), and  *)
(* the ResetSession database/sql runs when it takes the connection out of  *)
(* the pool again (conn.go).                                               *)
(*                                                                         *)
(* A handler is a sequence of round trips; each one is a step, because     *)
(* each may end in its own way.  Module Conn shows what a round trip is:   *)
(* here execCtx has the five outcomes a handler can tell apart.            *)
(*                                                                         *)
(* The server's session is external.  What it does with a setting is taken *)
(* from the comment on resetSessionCharacteristics; where the code leaves  *)
(* it open (does a SET TRANSACTION setting outlive the transaction, does   *)
(* switching autocommit on commit or discard open work) the model allows   *)
(* both.                                                                   *)
(***************************************************************************)
EXTENDS Integers

CONSTANTS Levels,      \* isolation levels callers ask BeginTx for
          MaxTx,       \* bound on the transactions begun
          MaxWrites,   \* bound on the statements that write
          MaxFaults    \* bound on the round trips that do not succeed

ASSUME SessionBounds ==
  /\ MaxTx \in Nat /\ MaxWrites \in Nat /\ MaxFaults \in Nat
  /\ Levels \subseteq {"default", "RU", "RC", "RR", "SER", "unsupported"}

Txs    == 1 .. MaxTx
Writes == 1 .. MaxWrites
NoSavepoint == {0}

VARIABLES
  broken, autocommit, txAltered,      \* fields of conn
  where,                              \* "user" holds the conn, or the "pool"
  pc, opts, kind, err,                \* the handler that runs, its arguments
                                      \* and whether endTran failed
  resetErr,                           \* a request of the reset failed
  last,                               \* how the last handler returned
  tx, txs, result,                    \* the open driver.Tx, the number of
                                      \* BeginTx calls, what each was told
  owner, writes, acked, undone,       \* write statements: transaction, count,
                                      \* acknowledged, undone to a savepoint
  srv,                                \* the server's session
  faults                              \* failures still allowed

conn    == <<broken, autocommit, txAltered>>
handler == <<pc, opts, kind, err, last>>
txVars  == <<tx, txs, result>>
history == <<owner, writes, acked, undone>>
vars    == <<broken, autocommit, txAltered, where, pc, opts, kind, err, last,
             resetErr, tx, txs, result, owner, writes, acked, undone, srv, faults>>

Init ==
  /\ broken = FALSE /\ autocommit = TRUE /\ txAltered = FALSE
  /\ where = "user"
  /\ pc = "idle" /\ opts = [iso |-> "default", ro |-> FALSE]
  /\ kind = "commit" /\ err = FALSE /\ last = "reset" /\ resetErr = FALSE
  /\ tx = 0 /\ txs = 0 /\ result = [t \in Txs |-> "none"]
  /\ owner = [w \in Writes |-> 0] /\ writes = 0 /\ acked = {} /\ undone = {}
  /\ srv = [auto |-> TRUE, iso |-> "RC", def |-> "RC", sticky |-> FALSE,
            ro |-> FALSE, pending |-> {}, save |-> NoSavepoint, committed |-> {}]
  /\ faults = MaxFaults

-----------------------------------------------------------------------------
(***************************************************************************)
(* The server (external).  An operator gives the set of sessions a         *)
(* successful request may lead to; the empty set is a request it refuses.  *)
(***************************************************************************)

(* A transaction ends: its SET TRANSACTION settings may or may not outlive *)
(* it; the sticky flag of READ UNCOMMITTED does.                           *)
TxEnds(s, committed) ==
  {[s EXCEPT !.pending = {}, !.save = NoSavepoint,
             !.committed = s.committed \cup committed, !.iso = i, !.ro = r] :
     i \in {s.iso, s.def}, r \in {s.ro, FALSE}}

Commit(s)   == TxEnds(s, s.pending)
Rollback(s) == TxEnds(s, {})

(* Switching autocommit on ends an open transaction one way or the other. *)
SetAutocommit(s, on) ==
  IF on = s.auto THEN {s}
  ELSE IF on THEN {[x EXCEPT !.auto = TRUE] : x \in Commit(s) \cup Rollback(s)}
  ELSE {[s EXCEPT !.auto = FALSE]}

(* SET TRANSACTION ISOLATION LEVEL, perhaps applied to the whole session. *)
SetTxIsolation(s, level) ==
  {[s EXCEPT !.iso = level, !.def = d, !.sticky = s.sticky \/ level = "RU"] :
     d \in {s.def, level}}

SetTxReadOnly(s) == {[s EXCEPT !.ro = TRUE]}

(* SETSESSIONATTR isolation: Session.setIsolationDefault returns early     *)
(* when the level is unchanged, and clears the sticky flag otherwise.      *)
SetIsolation(s, level) ==
  IF s.def = level THEN {s}
  ELSE {[s EXCEPT !.iso = level, !.def = level, !.sticky = (level = "RU")]}

SetReadWrite(s) == {[s EXCEPT !.ro = FALSE]}

Write(s, w) ==
  IF s.ro \/ s.sticky THEN {}
  ELSE IF s.auto THEN {[s EXCEPT !.committed = @ \cup {w}]}
  ELSE {[s EXCEPT !.pending = @ \cup {w}]}

SetSavepoint(s)     == IF s.auto THEN {} ELSE {[s EXCEPT !.save = s.pending]}
RollbackToSave(s)   == IF s.save = NoSavepoint THEN {}
                       ELSE {[s EXCEPT !.pending = s.pending \cap s.save]}
ReleaseSave(s)      == IF s.save = NoSavepoint THEN {}
                       ELSE {[s EXCEPT !.save = NoSavepoint]}

Clean(s) == ~s.ro /\ ~s.sticky /\ s.iso = "RC" /\ s.def = "RC"

-----------------------------------------------------------------------------
(***************************************************************************)
(* execCtx as its callers see it.  badConn: the connection was broken      *)
(* before; ctxErr: the context was done before anything was sent; refused: *)
(* the server answered ERROR (or was told to abort the statement); ioErr:  *)
(* the exchange failed, the connection is broken and the server may or may *)
(* not have executed the request.                                          *)
(***************************************************************************)
execCtx(out, after, cancellable) ==
  \/ /\ out = "badConn" /\ broken
     /\ UNCHANGED <<broken, srv, faults>>
  \/ /\ out = "ok" /\ ~broken
     /\ srv' \in after
     /\ UNCHANGED <<broken, faults>>
  \/ /\ out = "refused" /\ ~broken
     /\ \/ after = {} /\ UNCHANGED faults
        \/ faults > 0 /\ faults' = faults - 1
     /\ UNCHANGED <<broken, srv>>
  \/ /\ out = "ctxErr" /\ ~broken /\ cancellable
     /\ faults > 0 /\ faults' = faults - 1
     /\ UNCHANGED <<broken, srv>>
  \/ /\ out = "ioErr" /\ ~broken
     /\ faults > 0 /\ faults' = faults - 1
     /\ broken' = TRUE
     /\ srv' \in after \cup {srv}

Outs == {"badConn", "ok", "refused", "ctxErr", "ioErr"}

(* A handler returns to its caller. *)
return(how) ==
  /\ pc' = "idle" /\ last' = how /\ err' = FALSE
  /\ UNCHANGED <<opts, kind>>

goto(label) == pc' = label /\ UNCHANGED <<opts, kind, err, last>>

Idle == pc = "idle" /\ where = "user"

-----------------------------------------------------------------------------
(***************************************************************************)
(* BeginTx.                                                                *)
(***************************************************************************)

(* The label of BeginTx's next round trip: isolation, read-only, autocommit. *)
afterIso(o) == IF o.ro THEN "begin.ro" ELSE "begin.auto"

\* Variant: any isolation level is passed on to the server.
BeginTxAnyLevel(o) ==
  /\ Idle /\ txs < MaxTx /\ ~broken /\ autocommit
  /\ txs' = txs + 1
  /\ opts' = o
  /\ pc' = IF o.iso # "default" THEN "begin.iso" ELSE afterIso(o)
  /\ UNCHANGED <<conn, where, resetErr, kind, err, last, tx, result, history,
                 srv, faults>>

BeginTx(o) ==
  /\ Idle /\ txs < MaxTx /\ ~broken /\ autocommit
  /\ o.iso # "unsupported"
  /\ txs' = txs + 1
  /\ opts' = o
  /\ pc' = IF o.iso # "default" THEN "begin.iso" ELSE afterIso(o)
  /\ UNCHANGED <<conn, where, resetErr, kind, err, last, tx, result, history,
                 srv, faults>>

(* ErrBadConn, nested transactions, and an isolation level isolationSQL    *)
(* does not know: nothing is sent.                                         *)
BeginTxRefused(o) ==
  /\ Idle /\ txs < MaxTx
  /\ broken \/ ~autocommit \/ o.iso = "unsupported"
  /\ txs' = txs + 1
  /\ return("beginErr")
  /\ UNCHANGED <<conn, where, resetErr, tx, result, history, srv, faults>>

BeginTxIsolation ==
  /\ pc = "begin.iso"
  /\ \E out \in Outs :
       /\ execCtx(out, SetTxIsolation(srv, opts.iso), TRUE)
       /\ IF out = "ok" THEN txAltered' = TRUE /\ goto(afterIso(opts))
                        ELSE UNCHANGED txAltered /\ return("beginErr")
  /\ UNCHANGED <<autocommit, where, resetErr, txVars, history>>

BeginTxReadOnly ==
  /\ pc = "begin.ro"
  /\ \E out \in Outs :
       /\ execCtx(out, SetTxReadOnly(srv), TRUE)
       /\ IF out = "ok" THEN txAltered' = TRUE /\ goto("begin.auto")
                        ELSE UNCHANGED txAltered /\ return("beginErr")
  /\ UNCHANGED <<autocommit, where, resetErr, txVars, history>>

\* Variant: BeginTx ignores a refusal to switch autocommit off.
BeginTxAutocommitIgnored ==
  /\ pc = "begin.auto"
  /\ \E out \in Outs : execCtx(out, SetAutocommit(srv, FALSE), TRUE)
  /\ autocommit' = FALSE /\ tx' = txs
  /\ result' = [result EXCEPT ![txs] = "open"]
  /\ return("begun")
  /\ UNCHANGED <<txAltered, where, resetErr, txs, history>>

(* The autocommit round trip, and the driver.Tx that BeginTx returns. *)
BeginTxAutocommit ==
  /\ pc = "begin.auto"
  /\ \E out \in Outs :
       /\ execCtx(out, SetAutocommit(srv, FALSE), TRUE)
       /\ IF out = "ok"
            THEN /\ autocommit' = FALSE /\ tx' = txs
                 /\ result' = [result EXCEPT ![txs] = "open"]
                 /\ return("begun")
            ELSE /\ return("beginErr") /\ UNCHANGED <<autocommit, tx, result>>
  /\ UNCHANGED <<txAltered, where, resetErr, txs, history>>

-----------------------------------------------------------------------------
(***************************************************************************)
(* Commit and Rollback: finish, which runs under context.Background().     *)
(* The transaction object is used up whatever it returns (database/sql).   *)
(***************************************************************************)
told(value) == result' = [result EXCEPT ![tx] = value] /\ tx' = 0 /\ UNCHANGED txs

Succeeded == IF kind = "commit" THEN "committed" ELSE "rolledBack"

Finish(k) ==
  /\ Idle /\ tx # 0 /\ ~broken
  /\ kind' = k /\ pc' = "finish.end"
  /\ UNCHANGED <<conn, where, resetErr, opts, err, last, txVars, history, srv,
                 faults>>

FinishRefused ==
  /\ Idle /\ tx # 0 /\ broken
  /\ told("error") /\ return("finishErr")
  /\ UNCHANGED <<conn, where, resetErr, history, srv, faults>>

endTran(s) == IF kind = "commit" THEN Commit(s) ELSE Rollback(s)

\* Variant: finish drops the error of endTran.
FinishEndSwallowed ==
  /\ pc = "finish.end"
  /\ \E out \in Outs : execCtx(out, endTran(srv), FALSE)
  /\ pc' = "finish.restore"
  /\ UNCHANGED <<autocommit, txAltered, where, resetErr, opts, kind, err, last,
                 txVars, history>>

FinishEnd ==
  /\ pc = "finish.end"
  /\ \E out \in Outs :
       /\ execCtx(out, endTran(srv), FALSE)
       /\ pc' = "finish.restore" /\ err' = (out # "ok")
  /\ UNCHANGED <<autocommit, txAltered, where, resetErr, opts, kind, last,
                 txVars, history>>

(* Autocommit is restored.  After a failed endTran the outcome is ignored; *)
(* otherwise an error returns at once, with the autocommit field unchanged. *)
FinishRestore ==
  /\ pc = "finish.restore"
  /\ \E out \in Outs :
       /\ execCtx(out, SetAutocommit(srv, TRUE), FALSE)
       /\ IF out = "ok" \/ err
            THEN autocommit' = TRUE /\ goto("reset") /\ UNCHANGED txVars
            ELSE UNCHANGED autocommit /\ told("error") /\ return("finishErr")
  /\ UNCHANGED <<txAltered, where, resetErr, history>>

finishReturns ==
  IF err THEN told("error") /\ return("finishErr")
         ELSE told(Succeeded) /\ return("finished")

(* resetSessionCharacteristics: nothing to do when the transaction changed *)
(* no setting, or the connection is gone.                                  *)
ResetSkipped ==
  /\ pc = "reset" /\ (~txAltered \/ broken)
  /\ finishReturns
  /\ UNCHANGED <<conn, where, resetErr, history, srv, faults>>

ResetStart ==
  /\ pc = "reset" /\ txAltered /\ ~broken
  /\ txAltered' = FALSE
  /\ goto("reset.ser")
  /\ UNCHANGED <<broken, autocommit, where, resetErr, txVars, history, srv,
                 faults>>

\* Variant: only the default level is set again, without the toggle.
resetRequestNoToggle(s) ==
  IF pc = "reset.ro" THEN SetReadWrite(s) ELSE SetIsolation(s, "RC")

(* The three requests: the default level goes to SERIALIZABLE and back to  *)
(* READ COMMITTED, then the explicit read-only flag is cleared.            *)
resetRequest(s) ==
  CASE pc = "reset.ser" -> SetIsolation(s, "SER")
    [] pc = "reset.rc"  -> SetIsolation(s, "RC")
    [] pc = "reset.ro"  -> SetReadWrite(s)

(* Each is made whatever happened to the one before.                       *)
ResetRequest ==
  /\ pc \in {"reset.ser", "reset.rc", "reset.ro"}
  /\ \E out \in Outs :
       /\ execCtx(out, resetRequest(srv), FALSE)
       /\ resetErr' = (resetErr \/ out # "ok")
  /\ pc' = CASE pc = "reset.ser" -> "reset.rc"
             [] pc = "reset.rc"  -> "reset.ro"
             [] pc = "reset.ro"  -> "reset.end"
  /\ UNCHANGED <<autocommit, txAltered, where, opts, kind, err, last, txVars,
                 history>>

\* Variant: a failed reset leaves the connection in the pool.
ResetEndUnchecked ==
  /\ pc = "reset.end"
  /\ resetErr' = FALSE
  /\ finishReturns
  /\ UNCHANGED <<conn, where, history, srv, faults>>

(* An error of any of them breaks the connection; finish returns what      *)
(* endTran returned.                                                       *)
ResetEnd ==
  /\ pc = "reset.end"
  /\ broken' = (broken \/ resetErr) /\ resetErr' = FALSE
  /\ finishReturns
  /\ UNCHANGED <<autocommit, txAltered, where, history, srv, faults>>

-----------------------------------------------------------------------------
(***************************************************************************)
(* Statements, savepoints and PrepareCommit between BeginTx and finish, or *)
(* outside a transaction.  Each is one round trip under the caller's       *)
(* context; the handler returns its error and keeps no state of its own.   *)
(***************************************************************************)
Exec ==
  /\ Idle /\ writes < MaxWrites
  /\ writes' = writes + 1
  /\ owner' = [owner EXCEPT ![writes + 1] = tx]
  /\ \E out \in Outs :
       /\ execCtx(out, Write(srv, writes + 1), TRUE)
       /\ acked' = IF out = "ok" THEN acked \cup {writes + 1} ELSE acked
  /\ UNCHANGED <<autocommit, txAltered, where, handler, resetErr, txVars,
                 undone>>

Savepoint ==
  /\ Idle
  /\ \E out \in Outs : execCtx(out, SetSavepoint(srv), TRUE)
  /\ UNCHANGED <<autocommit, txAltered, where, handler, resetErr, txVars,
                 history>>

RollbackToSavepoint ==
  /\ Idle
  /\ \E out \in Outs :
       /\ execCtx(out, RollbackToSave(srv), TRUE)
       /\ undone' = IF out = "ok" THEN undone \cup (srv.pending \ srv.save) ELSE undone
  /\ UNCHANGED <<autocommit, txAltered, where, handler, resetErr, txVars, owner,
                 writes, acked>>

ReleaseSavepoint ==
  /\ Idle
  /\ \E out \in Outs : execCtx(out, ReleaseSave(srv), TRUE)
  /\ UNCHANGED <<autocommit, txAltered, where, handler, resetErr, txVars,
                 history>>

(* Phase one of a two-phase commit: the open work stays open. *)
PrepareCommit ==
  /\ Idle
  /\ \E out \in Outs : execCtx(out, {srv}, TRUE)
  /\ UNCHANGED <<autocommit, txAltered, where, handler, resetErr, txVars,
                 history>>

-----------------------------------------------------------------------------
(***************************************************************************)
(* The pool (database/sql, external).  A connection that IsValid goes back *)
(* once no driver.Tx is open, and ResetSession runs before it is handed    *)
(* out again.  Only ErrBadConn from ResetSession discards the connection:  *)
(* after any other error it is handed out as it is.                        *)
(***************************************************************************)
PutConn ==
  /\ Idle /\ tx = 0 /\ ~broken
  /\ where' = "pool"
  /\ UNCHANGED <<conn, handler, resetErr, txVars, history, srv, faults>>

ResetSession ==
  /\ pc = "idle" /\ where = "pool"
  /\ goto("pool.rollback")
  /\ UNCHANGED <<conn, where, resetErr, txVars, history, srv, faults>>

\* Variant: an error of the ROLLBACK is ignored.
ResetRollbackIgnored ==
  /\ pc = "pool.rollback"
  /\ \E out \in Outs : execCtx(out, Rollback(srv), TRUE)
  /\ goto("pool.autocommit")
  /\ UNCHANGED <<autocommit, txAltered, where, resetErr, txVars, history>>

ResetRollback ==
  /\ pc = "pool.rollback"
  /\ \E out \in Outs :
       /\ execCtx(out, Rollback(srv), TRUE)
       /\ IF out = "ok" THEN goto("pool.autocommit") /\ UNCHANGED where
                        ELSE return("resetErr") /\ where' = "user"
  /\ UNCHANGED <<autocommit, txAltered, resetErr, txVars, history>>

\* Variant: only the field is set again.
ResetAutocommitLocal ==
  /\ pc = "pool.autocommit"
  /\ autocommit' = TRUE /\ where' = "user"
  /\ return("reset")
  /\ UNCHANGED <<broken, txAltered, resetErr, txVars, history, srv, faults>>

ResetAutocommit ==
  /\ pc = "pool.autocommit"
  /\ \E out \in Outs :
       /\ execCtx(out, SetAutocommit(srv, TRUE), TRUE)
       /\ IF out = "ok" THEN autocommit' = TRUE /\ return("reset")
                        ELSE UNCHANGED autocommit /\ return("resetErr")
  /\ where' = "user"
  /\ UNCHANGED <<txAltered, resetErr, txVars, history>>

-----------------------------------------------------------------------------
TxOptions == [iso : Levels, ro : BOOLEAN]

Next ==
  \/ \E o \in TxOptions : BeginTx(o) \/ BeginTxRefused(o)
  \/ BeginTxIsolation \/ BeginTxReadOnly \/ BeginTxAutocommit
  \/ \E k \in {"commit", "rollback"} : Finish(k)
  \/ FinishRefused \/ FinishEnd \/ FinishRestore
  \/ ResetSkipped \/ ResetStart \/ ResetRequest \/ ResetEnd
  \/ Exec \/ Savepoint \/ RollbackToSavepoint \/ ReleaseSavepoint \/ PrepareCommit
  \/ PutConn \/ ResetSession \/ ResetRollback \/ ResetAutocommit

Spec == Init /\ [][Next]_vars

-----------------------------------------------------------------------------
(***************************************************************************)
(* Properties.                                                             *)
(***************************************************************************)
IsoLevels == {"RU", "RC", "RR", "SER"}

ServerSessions ==
  [auto : BOOLEAN, iso : IsoLevels, def : IsoLevels, sticky : BOOLEAN,
   ro : BOOLEAN, pending : SUBSET Writes, save : (SUBSET Writes) \cup {NoSavepoint},
   committed : SUBSET Writes]

(* Every variable stays in its type; in particular only isolation levels   *)
(* isolationSQL knows reach the server's session.                          *)
TypeOK ==
  /\ broken \in BOOLEAN /\ autocommit \in BOOLEAN /\ txAltered \in BOOLEAN
  /\ where \in {"user", "pool"}
  /\ pc \in {"idle", "begin.iso", "begin.ro", "begin.auto", "finish.end",
             "finish.restore", "reset", "reset.ser", "reset.rc", "reset.ro",
             "reset.end", "pool.rollback", "pool.autocommit"}
  /\ opts \in [iso : IsoLevels \cup {"default"}, ro : BOOLEAN]
  /\ kind \in {"commit", "rollback"} /\ err \in BOOLEAN /\ resetErr \in BOOLEAN
  /\ last \in {"begun", "beginErr", "finished", "finishErr", "reset", "resetErr"}
  /\ tx \in 0 .. txs /\ txs \in 0 .. MaxTx
  /\ result \in [Txs -> {"none", "open", "committed", "rolledBack", "error"}]
  /\ owner \in [Writes -> 0 .. MaxTx] /\ writes \in 0 .. MaxWrites
  /\ acked \subseteq Writes /\ undone \subseteq Writes
  /\ srv \in ServerSessions
  /\ faults \in 0 .. MaxFaults

AtRest == pc = "idle" /\ ~broken

(* Commit that returns nil is exact: of the transaction's writes, those    *)
(* acknowledged and not undone to a savepoint are durable, and no others.  *)
CommitHonoured ==
  \A w \in 1 .. writes :
     owner[w] # 0 /\ result[owner[w]] = "committed"
       => (w \in srv.committed <=> w \in acked \ undone)

(* Rollback that returns nil leaves nothing of the transaction behind,     *)
(* now or later: restoring autocommit never commits what was rolled back.  *)
RollbackHonoured ==
  \A w \in 1 .. writes :
     owner[w] # 0 /\ result[owner[w]] = "rolledBack" => w \notin srv.committed

(* A usable connection whose session has not its default isolation and     *)
(* read-write mode carries the txAlteredSession flag, so the next finish   *)
(* repairs it; a repair that fails takes the connection out of use.        *)
AlteredIsFlagged == AtRest => Clean(srv) \/ txAltered

(* After a Commit or Rollback that returns nil, a connection that is still *)
(* valid is as good as new: autocommit on at both ends, no open work, and  *)
(* default isolation and read-write mode.                                  *)
FinishRestores ==
  AtRest /\ last = "finished"
    => Clean(srv) /\ srv.auto /\ autocommit /\ srv.pending = {}

(* After a ResetSession that returns nil both ends agree on autocommit     *)
(* and no earlier user's work is open.                                     *)
ResetRestores ==
  AtRest /\ last = "reset" => srv.auto /\ autocommit /\ srv.pending = {}

(* ResetSession discards what an earlier user left open; it never commits  *)
(* it: SET AUTOCOMMIT TRUE is sent only once the ROLLBACK has succeeded.   *)
ResetNeverCommits ==
  [][(pc \in {"pool.rollback", "pool.autocommit"})
       => srv'.committed = srv.committed]_vars

(* What the comment on resetSessionCharacteristics promises: the pool      *)
(* never hands out a read-only connection or one at the wrong isolation.   *)
CleanHandout == AtRest /\ last = "reset" => Clean(srv)
=============================================================================
