--------------------------- MODULE SessionProofs ----------------------------
(***************************************************************************)
(* Proofs about Session, for every number of transactions, writes and      *)
(* failing round trips: the types, what ResetSession and finish restore,   *)
(* and that Commit and Rollback report what the server did.                *)
(***************************************************************************)
EXTENDS Session, TLAPS

-----------------------------------------------------------------------------
(***************************************************************************)
(* The server's requests, field by field.                                  *)
(***************************************************************************)
(* The end of a transaction closes the open work and touches no setting    *)
(* but the current isolation, which may fall back to the default one, and  *)
(* the read-only mode, which may end.                                      *)
LEMMA TxEndsFacts ==
  ASSUME NEW s \in ServerSessions, NEW c \in SUBSET Writes, NEW x \in TxEnds(s, c)
  PROVE  /\ x \in ServerSessions
         /\ x.auto = s.auto /\ x.def = s.def /\ x.sticky = s.sticky
         /\ x.iso \in {s.iso, s.def} /\ (x.ro => s.ro)
         /\ x.pending = {} /\ x.committed = s.committed \cup c
<1>1. PICK i \in {s.iso, s.def}, r \in {s.ro, FALSE} :
        x = [s EXCEPT !.pending = {}, !.save = NoSavepoint,
                      !.committed = s.committed \cup c, !.iso = i, !.ro = r]
  BY DEF TxEnds
<1> QED BY <1>1 DEF ServerSessions

(* COMMIT makes the open work durable, ROLLBACK drops it. *)
LEMMA EndFacts ==
  ASSUME NEW s \in ServerSessions, NEW x
  PROVE  /\ x \in Commit(s) =>
              x.auto = s.auto /\ x.pending = {} /\ x.committed = s.committed \cup s.pending
         /\ x \in Rollback(s) =>
              x.auto = s.auto /\ x.pending = {} /\ x.committed = s.committed
<1>1. x \in Commit(s) =>
        x.auto = s.auto /\ x.pending = {} /\ x.committed = s.committed \cup s.pending
  <2>1. s.pending \in SUBSET Writes
    BY DEF ServerSessions
  <2> QED BY <2>1, TxEndsFacts DEF Commit
<1>2. \A c \in SUBSET Writes : x \in TxEnds(s, c) =>
        x.auto = s.auto /\ x.pending = {} /\ x.committed = s.committed \cup c
  BY TxEndsFacts
<1>3. x \in TxEnds(s, {}) =>
        x.auto = s.auto /\ x.pending = {} /\ x.committed = s.committed \cup {}
  BY <1>2, {} \in SUBSET Writes, Zenon
<1> QED BY <1>1, <1>3 DEF Rollback

(* Switching autocommit off opens nothing and ends nothing. *)
LEMMA AutocommitOff ==
  ASSUME NEW s \in ServerSessions, NEW x \in SetAutocommit(s, FALSE)
  PROVE  /\ x \in ServerSessions /\ ~x.auto
         /\ x.def = s.def /\ x.sticky = s.sticky /\ x.iso = s.iso /\ x.ro = s.ro
         /\ x.pending = s.pending /\ x.committed = s.committed
<1>1. CASE s.auto = FALSE
  BY <1>1 DEF SetAutocommit, ServerSessions
<1>2. CASE s.auto = TRUE
  <2>1. x = [s EXCEPT !.auto = FALSE]
    BY <1>2 DEF SetAutocommit
  <2> QED BY <2>1 DEF ServerSessions
<1> QED BY <1>1, <1>2 DEF ServerSessions

(* Switching autocommit on ends the open transaction one way or the other. *)
LEMMA AutocommitOn ==
  ASSUME NEW s \in ServerSessions, NEW x \in SetAutocommit(s, TRUE)
  PROVE  /\ x \in ServerSessions /\ x.auto
         /\ x.def = s.def /\ x.sticky = s.sticky
         /\ x.iso \in {s.iso, s.def} /\ (x.ro => s.ro)
         /\ x.pending = {} \/ x = s
         /\ \/ x.committed = s.committed
            \/ x.committed = s.committed \cup s.pending
         /\ s.pending = {} => x.committed = s.committed
<1>1. CASE s.auto = TRUE
  BY <1>1 DEF SetAutocommit
<1>2. CASE s.auto = FALSE
  <2>0. s.pending \in SUBSET Writes /\ {} \in SUBSET Writes
    BY DEF ServerSessions
  <2>1. PICK y \in Commit(s) \cup Rollback(s) : x = [y EXCEPT !.auto = TRUE]
    BY <1>2 DEF SetAutocommit
  <2>2. PICK c \in {s.pending, {}} : y \in TxEnds(s, c)
    BY <2>1 DEF Commit, Rollback
  <2>3. /\ y \in ServerSessions
        /\ y.def = s.def /\ y.sticky = s.sticky
        /\ y.iso \in {s.iso, s.def} /\ (y.ro => s.ro)
        /\ y.pending = {} /\ y.committed = s.committed \cup c
    BY <2>0, <2>2, TxEndsFacts
  <2>4. /\ x \in ServerSessions /\ x.auto = TRUE
        /\ x.def = y.def /\ x.sticky = y.sticky /\ x.iso = y.iso /\ x.ro = y.ro
        /\ x.pending = y.pending /\ x.committed = y.committed
    BY <2>1, <2>3 DEF ServerSessions
  <2> QED BY <2>2, <2>3, <2>4
<1> QED BY <1>1, <1>2 DEF ServerSessions

(* The parts of a session that a change of settings leaves alone, and that *)
(* a request on open work leaves alone.                                    *)
SameWork(x, s)     == x.auto = s.auto /\ x.pending = s.pending /\ x.committed = s.committed
SameSettings(x, s) == x.iso = s.iso /\ x.def = s.def /\ x.sticky = s.sticky /\ x.ro = s.ro

LEMMA SettingFacts ==
  ASSUME NEW s \in ServerSessions, NEW level \in IsoLevels, NEW x
  PROVE  /\ x \in SetTxIsolation(s, level) => x \in ServerSessions /\ SameWork(x, s)
         /\ x \in SetTxReadOnly(s) => x \in ServerSessions /\ SameWork(x, s)
         /\ x \in SetIsolation(s, level) =>
              /\ x \in ServerSessions /\ SameWork(x, s) /\ x.def = level
              /\ s.def # level => x.iso = level /\ (x.sticky => level = "RU")
         /\ x \in SetReadWrite(s) =>
              /\ x \in ServerSessions /\ SameWork(x, s)
              /\ x.iso = s.iso /\ x.def = s.def /\ x.sticky = s.sticky /\ ~x.ro
<1> USE DEF ServerSessions, SameWork
<1>1. x \in SetTxIsolation(s, level) => x \in ServerSessions /\ SameWork(x, s)
  <2> SUFFICES ASSUME x \in SetTxIsolation(s, level)
               PROVE  x \in ServerSessions /\ SameWork(x, s)
    OBVIOUS
  <2>1. PICK d \in {s.def, level} :
          x = [s EXCEPT !.iso = level, !.def = d, !.sticky = s.sticky \/ level = "RU"]
    BY DEF SetTxIsolation
  <2> QED BY <2>1
<1>2. x \in SetTxReadOnly(s) => x \in ServerSessions /\ SameWork(x, s)
  BY DEF SetTxReadOnly
<1>3. x \in SetIsolation(s, level) =>
        /\ x \in ServerSessions /\ SameWork(x, s) /\ x.def = level
        /\ s.def # level => x.iso = level /\ (x.sticky => level = "RU")
  BY DEF SetIsolation
<1>4. x \in SetReadWrite(s) =>
        /\ x \in ServerSessions /\ SameWork(x, s)
        /\ x.iso = s.iso /\ x.def = s.def /\ x.sticky = s.sticky /\ ~x.ro
  BY DEF SetReadWrite
<1> QED BY <1>1, <1>2, <1>3, <1>4

(* A write becomes durable at once under autocommit and is open otherwise. *)
LEMMA WriteFacts ==
  ASSUME NEW s \in ServerSessions, NEW w \in Writes, NEW x \in Write(s, w)
  PROVE  /\ x \in ServerSessions /\ SameSettings(x, s) /\ x.auto = s.auto
         /\ s.auto => x.pending = s.pending /\ x.committed = s.committed \cup {w}
         /\ ~s.auto => x.pending = s.pending \cup {w} /\ x.committed = s.committed
  BY DEF Write, ServerSessions, SameSettings

LEMMA SavepointFacts ==
  ASSUME NEW s \in ServerSessions, NEW x
  PROVE  /\ x \in SetSavepoint(s) \cup ReleaseSave(s) =>
              x \in ServerSessions /\ SameSettings(x, s) /\ SameWork(x, s)
         /\ x \in RollbackToSave(s) =>
              /\ x \in ServerSessions /\ SameSettings(x, s) /\ x.auto = s.auto
              /\ x.pending = s.pending \cap s.save /\ x.committed = s.committed
  BY DEF SetSavepoint, ReleaseSave, RollbackToSave, ServerSessions, SameSettings, SameWork

-----------------------------------------------------------------------------
(* What a round trip may do: only a successful one changes the session of  *)
(* a connection that stays usable, and a broken connection stays as it is. *)
LEMMA RoundTrip ==
  ASSUME NEW out \in Outs, NEW after, NEW c \in BOOLEAN, execCtx(out, after, c),
         broken \in BOOLEAN, faults \in 0 .. MaxFaults
  PROVE  /\ broken' \in BOOLEAN /\ faults' \in 0 .. MaxFaults
         /\ srv' \in after \cup {srv}
         /\ broken => broken' /\ srv' = srv /\ out # "ok"
         /\ out = "ok" => ~broken' /\ srv' \in after
         /\ out # "ok" /\ ~broken' => srv' = srv
<1>1. /\ broken' \in BOOLEAN /\ srv' \in after \cup {srv}
      /\ broken => broken' /\ srv' = srv /\ out # "ok"
      /\ out = "ok" => ~broken' /\ srv' \in after
      /\ out # "ok" /\ ~broken' => srv' = srv
  <2>1. CASE out = "badConn"
    BY <2>1 DEF execCtx
  <2>2. CASE out = "ok"
    BY <2>2 DEF execCtx
  <2>3. CASE out = "refused"
    BY <2>3 DEF execCtx
  <2>4. CASE out = "ctxErr"
    BY <2>4 DEF execCtx
  <2>5. CASE out = "ioErr"
    BY <2>5 DEF execCtx
  <2> QED BY <2>1, <2>2, <2>3, <2>4, <2>5 DEF Outs
<1>2. faults' \in 0 .. MaxFaults
  <2>1. CASE faults' = faults
    BY <2>1
  <2>2. CASE faults > 0 /\ faults' = faults - 1
    BY <2>2, SessionBounds
  <2> QED BY <2>1, <2>2, Zenon DEF execCtx
<1> QED BY <1>1, <1>2

-----------------------------------------------------------------------------
(* The type invariant; BeginTx asks only for levels the server knows. *)
TypeInv == TypeOK /\ (pc = "begin.iso" => opts.iso \in IsoLevels)

(* The state of the handlers and of the history, in two halves: the provers *)
(* take each half on its own.                                              *)
HandlerTypes ==
  /\ autocommit \in BOOLEAN /\ txAltered \in BOOLEAN
  /\ where \in {"user", "pool"}
  /\ pc \in {"idle", "begin.iso", "begin.ro", "begin.auto", "finish.end",
             "finish.restore", "reset", "reset.ser", "reset.rc", "reset.ro",
             "reset.end", "pool.rollback", "pool.autocommit"}
  /\ opts \in [iso : IsoLevels \cup {"default"}, ro : BOOLEAN]
  /\ kind \in {"commit", "rollback"} /\ err \in BOOLEAN /\ resetErr \in BOOLEAN
  /\ last \in {"begun", "beginErr", "finished", "finishErr", "reset", "resetErr"}
  /\ (pc = "begin.iso" => opts.iso \in IsoLevels)

HistoryTypes ==
  /\ tx \in 0 .. txs /\ txs \in 0 .. MaxTx
  /\ result \in [Txs -> {"none", "open", "committed", "rolledBack", "error"}]
  /\ owner \in [Writes -> 0 .. MaxTx] /\ writes \in 0 .. MaxWrites
  /\ acked \subseteq Writes /\ undone \subseteq Writes

SessionTypes == broken \in BOOLEAN /\ srv \in ServerSessions /\ faults \in 0 .. MaxFaults

LEMMA TypeParts == TypeInv <=> HandlerTypes /\ HistoryTypes /\ SessionTypes
  BY DEF TypeInv, TypeOK, HandlerTypes, HistoryTypes, SessionTypes

LEMMA InitTypes == Init => TypeInv
<1> SUFFICES ASSUME Init PROVE TypeInv
  OBVIOUS
<1>1. HandlerTypes
  BY DEF Init, HandlerTypes
<1>2. HistoryTypes
  BY SessionBounds DEF Init, HistoryTypes
<1>3. srv \in ServerSessions
  BY DEF Init, ServerSessions, IsoLevels
<1>4. SessionTypes
  <2>1. faults \in 0 .. MaxFaults
    BY SessionBounds DEF Init
  <2>2. broken \in BOOLEAN
    BY DEF Init
  <2> QED BY <1>3, <2>1, <2>2 DEF SessionTypes
<1> QED BY <1>1, <1>2, <1>4, TypeParts

(* What every round trip may lead to is a session. *)
LEMMA SessionTyped == TypeInv /\ [Next]_vars => SessionTypes'
<1> SUFFICES ASSUME TypeInv, [Next]_vars PROVE SessionTypes'
  OBVIOUS
<1>0. /\ broken \in BOOLEAN /\ srv \in ServerSessions /\ faults \in 0 .. MaxFaults
      /\ resetErr \in BOOLEAN
  BY DEF TypeInv, TypeOK
<1>1. ASSUME UNCHANGED <<broken, srv, faults>> PROVE SessionTypes'
  BY <1>0, <1>1 DEF SessionTypes
<1>2. ASSUME NEW out \in Outs, NEW after \in SUBSET ServerSessions, NEW c \in BOOLEAN,
             execCtx(out, after, c)
      PROVE  SessionTypes'
  BY <1>0, <1>2, RoundTrip DEF SessionTypes
<1>3. srv.pending \in SUBSET Writes /\ {} \in SUBSET Writes
  BY <1>0 DEF ServerSessions
<1>4. Commit(srv) \in SUBSET ServerSessions /\ Rollback(srv) \in SUBSET ServerSessions
  BY <1>0, <1>3, TxEndsFacts DEF Commit, Rollback
<1>5. CASE BeginTxIsolation
  <2>1. opts.iso \in IsoLevels
    BY <1>5 DEF BeginTxIsolation, TypeInv
  <2>2. SetTxIsolation(srv, opts.iso) \in SUBSET ServerSessions
    BY <1>0, <2>1, SettingFacts
  <2> QED BY <1>2, <1>5, <2>2 DEF BeginTxIsolation
<1>6. CASE BeginTxReadOnly
  <2>1. "RC" \in IsoLevels
    BY DEF IsoLevels
  <2>2. SetTxReadOnly(srv) \in SUBSET ServerSessions
    BY <1>0, <2>1, SettingFacts
  <2> QED BY <1>2, <1>6, <2>2 DEF BeginTxReadOnly
<1>7. CASE BeginTxAutocommit
  <2>1. SetAutocommit(srv, FALSE) \in SUBSET ServerSessions
    BY <1>0, AutocommitOff
  <2> QED BY <1>2, <1>7, <2>1 DEF BeginTxAutocommit
<1>8. CASE FinishEnd
  BY <1>2, <1>4, <1>8 DEF FinishEnd, endTran
<1>9. CASE FinishRestore \/ ResetAutocommit
  <2>1. SetAutocommit(srv, TRUE) \in SUBSET ServerSessions
    BY <1>0, AutocommitOn
  <2> QED BY <1>2, <1>9, <2>1 DEF FinishRestore, ResetAutocommit
<1>10. CASE ResetRequest
  <2>1. "RC" \in IsoLevels /\ "SER" \in IsoLevels
    BY DEF IsoLevels
  <2>2. /\ SetIsolation(srv, "SER") \in SUBSET ServerSessions
        /\ SetIsolation(srv, "RC") \in SUBSET ServerSessions
        /\ SetReadWrite(srv) \in SUBSET ServerSessions
    BY <1>0, <2>1, SettingFacts
  <2>3. resetRequest(srv) \in SUBSET ServerSessions
    BY <1>10, <2>2 DEF ResetRequest, resetRequest
  <2> QED BY <1>2, <1>10, <2>3 DEF ResetRequest
<1>11. CASE ResetEnd
  BY <1>0, <1>11 DEF ResetEnd, SessionTypes
<1>12. CASE Exec
  <2>1. writes + 1 \in Writes
    <3>1. writes \in 0 .. MaxWrites /\ writes < MaxWrites
      BY <1>12 DEF Exec, TypeInv, TypeOK
    <3> QED BY <3>1, SessionBounds DEF Writes
  <2>2. Write(srv, writes + 1) \in SUBSET ServerSessions
    BY <1>0, <2>1, WriteFacts
  <2> QED BY <1>2, <1>12, <2>2 DEF Exec
<1>13. CASE Savepoint \/ RollbackToSavepoint \/ ReleaseSavepoint \/ PrepareCommit
  <2>1. /\ SetSavepoint(srv) \in SUBSET ServerSessions
        /\ RollbackToSave(srv) \in SUBSET ServerSessions
        /\ ReleaseSave(srv) \in SUBSET ServerSessions
        /\ {srv} \in SUBSET ServerSessions
    BY <1>0, SavepointFacts
  <2> QED BY <1>2, <1>13, <2>1
          DEF Savepoint, RollbackToSavepoint, ReleaseSavepoint, PrepareCommit
<1>14. CASE ResetRollback
  BY <1>2, <1>4, <1>14 DEF ResetRollback
<1>15. CASE \/ \E o \in TxOptions : BeginTx(o) \/ BeginTxRefused(o)
            \/ \E k \in {"commit", "rollback"} : Finish(k)
            \/ FinishRefused \/ ResetSkipped \/ ResetStart \/ PutConn \/ ResetSession
  BY <1>1, <1>15 DEF BeginTx, BeginTxRefused, Finish, FinishRefused, ResetSkipped,
     ResetStart, PutConn, ResetSession, conn
<1>16. CASE UNCHANGED vars
  BY <1>1, <1>16 DEF vars
<1> QED BY <1>5, <1>6, <1>7, <1>8, <1>9, <1>10, <1>11, <1>12, <1>13, <1>14, <1>15, <1>16
           DEF Next

LEMMA HandlerTyped == TypeInv /\ [Next]_vars => HandlerTypes'
<1> SUFFICES ASSUME TypeInv, [Next]_vars PROVE HandlerTypes'
  OBVIOUS
<1>0. HandlerTypes
  BY TypeParts
<1> USE DEF HandlerTypes, return, goto, conn, handler
<1>1. ASSUME NEW o \in TxOptions, BeginTx(o) PROVE HandlerTypes'
  <2>1. o \in [iso : IsoLevels \cup {"default"}, ro : BOOLEAN]
    BY <1>1, SessionBounds DEF BeginTx, TxOptions, IsoLevels
  <2>2. o.iso # "default" => o.iso \in IsoLevels
    BY <2>1
  <2> QED BY <1>0, <1>1, <2>1, <2>2 DEF BeginTx, afterIso
<1>2. ASSUME NEW o \in TxOptions, BeginTxRefused(o) PROVE HandlerTypes'
  BY <1>0, <1>2 DEF BeginTxRefused
<1>3. CASE BeginTxIsolation \/ BeginTxReadOnly
  <2>1. CASE BeginTxIsolation
    BY <1>0, <2>1 DEF BeginTxIsolation, afterIso
  <2>2. CASE BeginTxReadOnly
    BY <1>0, <2>2 DEF BeginTxReadOnly
  <2> QED BY <1>3, <2>1, <2>2
<1>4. CASE BeginTxAutocommit
  BY <1>0, <1>4 DEF BeginTxAutocommit
<1>5. ASSUME NEW k \in {"commit", "rollback"}, Finish(k) PROVE HandlerTypes'
  BY <1>0, <1>5 DEF Finish
<1>6. CASE FinishRefused
  BY <1>0, <1>6 DEF FinishRefused
<1>7. CASE FinishEnd
  BY <1>0, <1>7 DEF FinishEnd
<1>8. CASE FinishRestore
  BY <1>0, <1>8 DEF FinishRestore
<1>9. CASE ResetSkipped
  BY <1>0, <1>9 DEF ResetSkipped, finishReturns
<1>10. CASE ResetStart
  BY <1>0, <1>10 DEF ResetStart
<1>11. CASE ResetRequest
  BY <1>0, <1>11 DEF ResetRequest
<1>12. CASE ResetEnd
  BY <1>0, <1>12 DEF ResetEnd, finishReturns
<1>13. CASE Exec \/ Savepoint \/ RollbackToSavepoint \/ ReleaseSavepoint \/ PrepareCommit
  <2>1. UNCHANGED <<autocommit, txAltered, where, handler, resetErr>>
    BY <1>13 DEF Exec, Savepoint, RollbackToSavepoint, ReleaseSavepoint, PrepareCommit
  <2> QED BY <1>0, <2>1
<1>14. CASE PutConn \/ ResetSession
  BY <1>0, <1>14 DEF PutConn, ResetSession
<1>15. CASE ResetRollback
  BY <1>0, <1>15 DEF ResetRollback
<1>16. CASE ResetAutocommit
  BY <1>0, <1>16 DEF ResetAutocommit
<1>17. CASE UNCHANGED vars
  BY <1>0, <1>17 DEF vars
<1> QED BY <1>1, <1>2, <1>3, <1>4, <1>5, <1>6, <1>7, <1>8, <1>9, <1>10, <1>11, <1>12,
           <1>13, <1>14, <1>15, <1>16, <1>17 DEF Next

LEMMA HistoryTyped == TypeInv /\ [Next]_vars => HistoryTypes'
<1> SUFFICES ASSUME TypeInv, [Next]_vars PROVE HistoryTypes'
  OBVIOUS
<1>0. HistoryTypes /\ srv \in ServerSessions /\ kind \in {"commit", "rollback"}
  BY TypeParts DEF HandlerTypes, SessionTypes
<1> USE DEF HistoryTypes, txVars, history
<1>1. ASSUME NEW o \in TxOptions, BeginTx(o) \/ BeginTxRefused(o) PROVE HistoryTypes'
  BY <1>0, <1>1, SessionBounds DEF BeginTx, BeginTxRefused
<1>2. CASE BeginTxAutocommit
  BY <1>0, <1>2 DEF BeginTxAutocommit
<1>3. ASSUME NEW v \in {"committed", "rolledBack", "error"}, told(v),
             UNCHANGED history
      PROVE  HistoryTypes'
  <2>1. tx' = 0 /\ txs' = txs /\ result' = [result EXCEPT ![tx] = v]
    BY <1>3 DEF told
  <2>2. tx' \in 0 .. txs' /\ txs' \in 0 .. MaxTx
    BY <1>0, <2>1, SessionBounds
  <2>3. result' \in [Txs -> {"none", "open", "committed", "rolledBack", "error"}]
    BY <1>0, <2>1
  <2> QED BY <1>0, <1>3, <2>2, <2>3
<1>4. CASE FinishRefused
  BY <1>3, <1>4 DEF FinishRefused
<1>5. CASE FinishRestore
  BY <1>0, <1>3, <1>5 DEF FinishRestore
<1>6. CASE ResetSkipped \/ ResetEnd
  BY <1>0, <1>3, <1>6 DEF ResetSkipped, ResetEnd, finishReturns, Succeeded
<1>7. CASE Exec
  <2>1. writes + 1 \in Writes /\ writes + 1 \in 0 .. MaxWrites
    BY <1>0, <1>7, SessionBounds DEF Exec, Writes
  <2>2. tx \in 0 .. MaxTx
    BY <1>0, SessionBounds
  <2>3. owner' \in [Writes -> 0 .. MaxTx]
    BY <1>0, <1>7, <2>2 DEF Exec
  <2>4. acked' \subseteq Writes
    BY <1>0, <1>7, <2>1 DEF Exec
  <2> QED BY <1>0, <1>7, <2>1, <2>3, <2>4 DEF Exec
<1>8. CASE RollbackToSavepoint
  <2>1. srv.pending \subseteq Writes
    BY <1>0 DEF ServerSessions
  <2> QED BY <1>0, <1>8, <2>1 DEF RollbackToSavepoint
<1>9. CASE UNCHANGED <<txVars, history>>
  BY <1>0, <1>9
<1>10. CASE \/ BeginTxIsolation \/ BeginTxReadOnly
            \/ \E k \in {"commit", "rollback"} : Finish(k)
            \/ FinishEnd \/ ResetStart \/ ResetRequest
            \/ Savepoint \/ ReleaseSavepoint \/ PrepareCommit
            \/ PutConn \/ ResetSession \/ ResetRollback \/ ResetAutocommit
            \/ UNCHANGED vars
  BY <1>9, <1>10 DEF BeginTxIsolation, BeginTxReadOnly, Finish, FinishEnd, ResetStart,
     ResetRequest, Savepoint, ReleaseSavepoint, PrepareCommit, PutConn, ResetSession,
     ResetRollback, ResetAutocommit, vars
<1> QED BY <1>1, <1>2, <1>4, <1>5, <1>6, <1>7, <1>8, <1>10 DEF Next

(* The state of the driver, of the server's session and of the history     *)
(* keeps its type; in particular BeginTx sends no isolation level that     *)
(* isolationSQL does not know.                                             *)
THEOREM SessionTypeInvariant == Spec => []TypeInv
<1>1. TypeInv /\ [Next]_vars => TypeInv'
  BY SessionTyped, HandlerTyped, HistoryTyped, TypeParts DEF TypeInv, TypeOK,
     HandlerTypes, HistoryTypes, SessionTypes
<1> QED BY <1>1, InitTypes, PTL DEF Spec

THEOREM SessionTypeCorrect == Spec => []TypeOK
<1>1. TypeInv => TypeOK
  BY DEF TypeInv
<1> QED BY <1>1, SessionTypeInvariant, PTL

-----------------------------------------------------------------------------
(***************************************************************************)
(* The inductive invariants.                                               *)
(***************************************************************************)
Begins    == {"begin.iso", "begin.ro", "begin.auto"}
Repairs   == {"reset.ser", "reset.rc", "reset.ro", "reset.end"}
AfterEnd  == {"finish.restore", "reset"} \cup Repairs
PoolReset == {"pool.rollback", "pool.autocommit"}

(* Between handlers and outside the three requests of                      *)
(* resetSessionCharacteristics a change of settings is flagged; inside     *)
(* them, each request that succeeded has done its part.                    *)
SettingsInv ==
  /\ pc \notin Repairs /\ ~broken => Clean(srv) \/ txAltered
  /\ pc \notin {"reset.rc", "reset.ro", "reset.end"} => ~resetErr
  /\ pc = "reset.rc" /\ ~broken /\ ~resetErr => srv.def = "SER"
  /\ pc = "reset.ro" /\ ~broken /\ ~resetErr
       => srv.iso = "RC" /\ srv.def = "RC" /\ ~srv.sticky
  /\ pc = "reset.end" /\ ~broken /\ ~resetErr => Clean(srv)

(* Autocommit at both ends, and no open work. *)
Restored == srv.auto /\ autocommit /\ srv.pending = {}

(* Where finish and ResetSession have brought that about. *)
RestoreInv ==
  /\ srv.auto => srv.pending = {}
  /\ pc \in {"reset"} \cup Repairs /\ ~err /\ ~broken => Restored
  /\ pc = "idle" /\ ~broken /\ last \in {"finished", "reset"} => Restored
  /\ pc = "idle" /\ ~broken /\ last = "finished" => Clean(srv)
  /\ pc = "pool.autocommit" => srv.pending = {}

(* Which transaction is open: none while BeginTx or ResetSession runs, one *)
(* throughout finish; a transaction is told its result once.               *)
TxInv ==
  /\ \A t \in Txs : t > txs => result[t] = "none"
  /\ pc \in Begins => tx = 0 /\ txs > 0 /\ result[txs] = "none" /\ where = "user"
  /\ pc \in {"finish.end"} \cup AfterEnd => tx # 0
  /\ pc \in PoolReset \/ (pc = "idle" /\ where = "pool") => tx = 0
  /\ tx # 0 => result[tx] = "open"
  /\ pc = "idle" /\ tx # 0 => ~autocommit

(* A write that was acknowledged and not undone to a savepoint. *)
Kept(w) == w \in acked /\ w \notin undone

(* The history speaks of statements and transactions that were begun. *)
Recorded ==
  /\ srv.pending \subseteq 1 .. writes /\ srv.committed \subseteq 1 .. writes
  /\ acked \subseteq 1 .. writes /\ undone \subseteq 1 .. writes
  /\ \A w \in 1 .. writes : owner[w] # 0 => result[owner[w]] # "none"

(* The writes the open transaction is to keep are open on the server.      *)
OpenWrites ==
  tx # 0 /\ ~broken /\ pc \in {"idle", "finish.end"} =>
    /\ ~srv.auto
    /\ \A w \in 1 .. writes : owner[w] = tx =>
         (w \in srv.pending <=> Kept(w)) /\ w \notin srv.committed

(* Once endTran has succeeded they are durable, or gone. *)
EndedWrites ==
  pc \in AfterEnd /\ ~err =>
    /\ srv.pending = {}
    /\ \A w \in 1 .. writes : owner[w] = tx =>
         IF kind = "commit" THEN w \in srv.committed <=> Kept(w)
                            ELSE w \notin srv.committed

(* Nothing a finished transaction wrote is open again, so no later commit  *)
(* changes what it was told.                                               *)
Settled ==
  /\ \A w \in 1 .. writes :
       owner[w] # 0 /\ result[owner[w]] \in {"committed", "rolledBack"}
         => w \notin srv.pending
  /\ CommitHonoured /\ RollbackHonoured

WriteInv == Recorded /\ OpenWrites /\ EndedWrites /\ Settled

-----------------------------------------------------------------------------
(***************************************************************************)
(* Settings.                                                               *)
(***************************************************************************)
(* Only the requests of BeginTx can take a session away from its defaults. *)
LEMMA CleanKept ==
  ASSUME NEW s \in ServerSessions
  PROVE  /\ \A x \in Commit(s) \cup Rollback(s) : Clean(s) => Clean(x)
         /\ \A x \in SetAutocommit(s, TRUE) \cup SetAutocommit(s, FALSE) :
              Clean(s) => Clean(x)
         /\ \A w \in Writes : \A x \in Write(s, w) : Clean(s) => Clean(x)
         /\ \A x \in SetSavepoint(s) \cup RollbackToSave(s) \cup ReleaseSave(s) :
              Clean(s) => Clean(x)
<1>0. s.pending \in SUBSET Writes /\ {} \in SUBSET Writes
  BY DEF ServerSessions
<1>1. \A x \in Commit(s) \cup Rollback(s) : Clean(s) => Clean(x)
  BY <1>0, TxEndsFacts DEF Commit, Rollback, Clean
<1>2. \A x \in SetAutocommit(s, TRUE) \cup SetAutocommit(s, FALSE) :
        Clean(s) => Clean(x)
  <2>1. \A x \in SetAutocommit(s, TRUE) : Clean(s) => Clean(x)
    BY AutocommitOn DEF Clean
  <2>2. \A x \in SetAutocommit(s, FALSE) : Clean(s) => Clean(x)
    BY AutocommitOff DEF Clean
  <2> QED BY <2>1, <2>2
<1>3. \A w \in Writes : \A x \in Write(s, w) : Clean(s) => Clean(x)
  BY WriteFacts DEF Clean, SameSettings
<1>4. \A x \in SetSavepoint(s) \cup RollbackToSave(s) \cup ReleaseSave(s) :
        Clean(s) => Clean(x)
  BY SavepointFacts DEF Clean, SameSettings
<1> QED BY <1>1, <1>2, <1>3, <1>4

LEMMA SettingsStep == TypeInv /\ SettingsInv /\ [Next]_vars => SettingsInv'
<1> SUFFICES ASSUME TypeInv, SettingsInv, [Next]_vars PROVE SettingsInv'
  OBVIOUS
<1>0. /\ broken \in BOOLEAN /\ srv \in ServerSessions /\ faults \in 0 .. MaxFaults
      /\ resetErr \in BOOLEAN /\ "RC" \in IsoLevels /\ "SER" \in IsoLevels
  BY DEF TypeInv, TypeOK, IsoLevels
<1> USE DEF Repairs
\* Outside the repair, a step that keeps a clean session clean and the flag set.
<1>1. ASSUME pc \notin Repairs, pc' \notin Repairs, resetErr' = resetErr,
             broken => broken', txAltered => txAltered',
             ~broken' /\ ~txAltered' => (Clean(srv) => Clean(srv'))
      PROVE  SettingsInv'
  BY <1>1 DEF SettingsInv
\* A request that keeps the settings, or ends a transaction.
<1>2. ASSUME NEW out \in Outs, NEW after, NEW c \in BOOLEAN, execCtx(out, after, c),
             \A x \in after : Clean(srv) => Clean(x),
             pc \notin Repairs, pc' \notin Repairs, resetErr' = resetErr,
             txAltered' = txAltered
      PROVE  SettingsInv'
  <2>1. (broken => broken') /\ srv' \in after \cup {srv}
    BY <1>0, <1>2, RoundTrip
  <2> QED BY <1>1, <1>2, <2>1
<1>3. /\ \A x \in Commit(srv) \cup Rollback(srv) : Clean(srv) => Clean(x)
      /\ \A x \in SetAutocommit(srv, TRUE) \cup SetAutocommit(srv, FALSE) :
           Clean(srv) => Clean(x)
      /\ \A w \in Writes : \A x \in Write(srv, w) : Clean(srv) => Clean(x)
      /\ \A x \in SetSavepoint(srv) \cup RollbackToSave(srv) \cup ReleaseSave(srv) :
           Clean(srv) => Clean(x)
  BY <1>0, CleanKept
<1>4. ASSUME NEW o \in TxOptions, BeginTx(o) \/ BeginTxRefused(o) PROVE SettingsInv'
  <2>1. /\ pc \notin Repairs /\ pc' \notin Repairs /\ resetErr' = resetErr
        /\ UNCHANGED <<broken, txAltered, srv>>
    BY <1>4 DEF BeginTx, BeginTxRefused, Idle, afterIso, return, conn
  <2> QED BY <1>1, <2>1
<1>5. ASSUME NEW out \in Outs, NEW after, execCtx(out, after, TRUE),
             pc \notin Repairs, pc' \notin Repairs, resetErr' = resetErr,
             IF out = "ok" THEN txAltered' = TRUE ELSE txAltered' = txAltered
      PROVE  SettingsInv'
  <2>1. (broken => broken') /\ (out # "ok" /\ ~broken' => srv' = srv)
    BY <1>0, <1>5, RoundTrip
  <2> QED BY <1>1, <1>5, <2>1
<1>6. CASE BeginTxIsolation
  <2>1. PICK out \in Outs :
          /\ execCtx(out, SetTxIsolation(srv, opts.iso), TRUE)
          /\ IF out = "ok" THEN txAltered' = TRUE /\ goto(afterIso(opts))
                           ELSE UNCHANGED txAltered /\ return("beginErr")
    BY <1>6 DEF BeginTxIsolation
  <2>2. pc \notin Repairs /\ pc' \notin Repairs /\ resetErr' = resetErr
    BY <1>6, <2>1 DEF BeginTxIsolation, afterIso, goto, return
  <2> QED BY <1>5, <2>1, <2>2
<1>7. CASE BeginTxReadOnly
  <2>1. PICK out \in Outs :
          /\ execCtx(out, SetTxReadOnly(srv), TRUE)
          /\ IF out = "ok" THEN txAltered' = TRUE /\ goto("begin.auto")
                           ELSE UNCHANGED txAltered /\ return("beginErr")
    BY <1>7 DEF BeginTxReadOnly
  <2>2. pc \notin Repairs /\ pc' \notin Repairs /\ resetErr' = resetErr
    BY <1>7, <2>1 DEF BeginTxReadOnly, goto, return
  <2> QED BY <1>5, <2>1, <2>2
<1>8. CASE BeginTxAutocommit \/ FinishEnd \/ FinishRestore \/ ResetRollback
             \/ ResetAutocommit
  <2>1. pc \notin Repairs /\ pc' \notin Repairs /\ resetErr' = resetErr
        /\ txAltered' = txAltered
    BY <1>8 DEF BeginTxAutocommit, FinishEnd, FinishRestore, ResetRollback,
       ResetAutocommit, goto, return
  <2>2. \E out \in Outs, c \in BOOLEAN :
          \E after \in {SetAutocommit(srv, FALSE), SetAutocommit(srv, TRUE), Commit(srv),
                        Rollback(srv)} :
             execCtx(out, after, c)
    BY <1>8 DEF BeginTxAutocommit, FinishEnd, FinishRestore, ResetRollback,
       ResetAutocommit, endTran
  <2> QED BY <1>2, <1>3, <2>1, <2>2
<1>9. CASE Exec
  <2>1. writes + 1 \in Writes
    <3>1. writes \in 0 .. MaxWrites /\ writes < MaxWrites
      BY <1>9 DEF Exec, TypeInv, TypeOK
    <3> QED BY <3>1, SessionBounds DEF Writes
  <2> QED BY <1>2, <1>3, <1>9, <2>1 DEF Exec, Idle, handler
<1>10. CASE Savepoint \/ RollbackToSavepoint \/ ReleaseSavepoint \/ PrepareCommit
  <2>1. pc \notin Repairs /\ pc' \notin Repairs /\ resetErr' = resetErr
        /\ txAltered' = txAltered
    BY <1>10 DEF Savepoint, RollbackToSavepoint, ReleaseSavepoint, PrepareCommit, Idle,
       handler
  <2>2. \E out \in Outs :
          \E after \in {SetSavepoint(srv), RollbackToSave(srv), ReleaseSave(srv), {srv}} :
             execCtx(out, after, TRUE)
    BY <1>10 DEF Savepoint, RollbackToSavepoint, ReleaseSavepoint, PrepareCommit
  <2> QED BY <1>2, <1>3, <2>1, <2>2
<1>11. CASE \/ \E k \in {"commit", "rollback"} : Finish(k)
            \/ FinishRefused \/ ResetSkipped \/ PutConn \/ ResetSession
  <2>1. /\ pc \notin Repairs /\ pc' \notin Repairs /\ resetErr' = resetErr
        /\ UNCHANGED <<broken, txAltered, srv>>
    BY <1>11 DEF Finish, FinishRefused, ResetSkipped, PutConn, ResetSession, Idle,
       finishReturns, return, goto, conn, handler
  <2> QED BY <1>1, <2>1
<1>12. CASE ResetStart
  BY <1>12 DEF ResetStart, SettingsInv, goto
<1>13. CASE ResetRequest
  <2>1. PICK out \in Outs : /\ execCtx(out, resetRequest(srv), FALSE)
                            /\ resetErr' = (resetErr \/ out # "ok")
    BY <1>13 DEF ResetRequest
  <2>2. /\ broken => broken'
        /\ out = "ok" => srv' \in resetRequest(srv)
    BY <1>0, <2>1, RoundTrip
  <2>3. CASE pc = "reset.ser"
    <3>1. pc' = "reset.rc"
      BY <1>13, <2>3 DEF ResetRequest
    <3>2. out = "ok" => srv' \in SetIsolation(srv, "SER")
      BY <2>2, <2>3 DEF resetRequest
    <3>3. out = "ok" => srv'.def = "SER"
      BY <1>0, <3>2, SettingFacts
    <3> QED BY <2>1, <3>1, <3>3 DEF SettingsInv
  <2>4. CASE pc = "reset.rc"
    <3>1. pc' = "reset.ro"
      BY <1>13, <2>4 DEF ResetRequest
    <3>2. out = "ok" => srv' \in SetIsolation(srv, "RC")
      BY <2>2, <2>4 DEF resetRequest
    <3>3. out = "ok" /\ srv.def = "SER" => srv'.iso = "RC" /\ srv'.def = "RC" /\ ~srv'.sticky
      BY <1>0, <3>2, SettingFacts
    <3> QED BY <2>1, <2>2, <2>4, <3>1, <3>3 DEF SettingsInv
  <2>5. CASE pc = "reset.ro"
    <3>1. pc' = "reset.end"
      BY <1>13, <2>5 DEF ResetRequest
    <3>2. out = "ok" => srv' \in SetReadWrite(srv)
      BY <2>2, <2>5 DEF resetRequest
    <3>3. out = "ok" => /\ srv'.iso = srv.iso /\ srv'.def = srv.def
                        /\ srv'.sticky = srv.sticky /\ ~srv'.ro
      BY <1>0, <3>2, SettingFacts
    <3> QED BY <2>1, <2>2, <2>5, <3>1, <3>3 DEF SettingsInv, Clean
  <2> QED BY <1>13, <2>3, <2>4, <2>5 DEF ResetRequest
<1>14. CASE ResetEnd
  <2>1. pc = "reset.end" /\ pc' = "idle" /\ ~resetErr'
    BY <1>14 DEF ResetEnd, finishReturns, return
  <2>2. ~broken' => ~broken /\ ~resetErr /\ srv' = srv
    BY <1>14 DEF ResetEnd
  <2> QED BY <2>1, <2>2 DEF SettingsInv, Clean
<1>15. CASE UNCHANGED vars
  BY <1>15 DEF vars, SettingsInv, Clean
<1> QED BY <1>4, <1>6, <1>7, <1>8, <1>9, <1>10, <1>11, <1>12, <1>13, <1>14, <1>15 DEF Next

(* A usable connection whose session is not at its defaults carries the    *)
(* flag that makes the next finish repair it.                              *)
THEOREM AlteredStaysFlagged == Spec => []AlteredIsFlagged
<1>1. Init => SettingsInv
  BY DEF Init, SettingsInv, Clean, Repairs
<1>2. SettingsInv => AlteredIsFlagged
  BY DEF SettingsInv, AlteredIsFlagged, AtRest, Repairs
<1> QED BY <1>1, <1>2, SessionTypeInvariant, SettingsStep, PTL DEF Spec

-----------------------------------------------------------------------------
(***************************************************************************)
(* What finish and ResetSession restore.                                   *)
(***************************************************************************)
(* What a request between transactions keeps of a session: its defaults,   *)
(* and under autocommit that no work is open.                              *)
Keeps(x, s) ==
  /\ x.auto => s.auto
  /\ s.auto /\ s.pending = {} => x.auto /\ x.pending = {}
  /\ Clean(s) => Clean(x)

LEMMA RestoreStep ==
  TypeInv /\ SettingsInv /\ RestoreInv /\ [Next]_vars => RestoreInv'
<1> SUFFICES ASSUME TypeInv, SettingsInv, RestoreInv, [Next]_vars PROVE RestoreInv'
  OBVIOUS
<1>0. /\ broken \in BOOLEAN /\ srv \in ServerSessions /\ faults \in 0 .. MaxFaults
      /\ "RC" \in IsoLevels /\ "SER" \in IsoLevels
  BY DEF TypeInv, TypeOK, IsoLevels
<1>1. srv.pending \in SUBSET Writes /\ {} \in SUBSET Writes
  BY <1>0 DEF ServerSessions
<1> USE DEF Repairs, Restored
<1>2. ASSUME NEW o \in TxOptions, BeginTx(o) \/ BeginTxRefused(o) PROVE RestoreInv'
  BY <1>2 DEF BeginTx, BeginTxRefused, Idle, afterIso, return, conn, RestoreInv
\* BeginTx keeps no promise but that autocommit means no open work.
<1>3. ASSUME NEW out \in Outs, NEW after, execCtx(out, after, TRUE),
             \A x \in after : x.auto => srv.auto /\ x.pending = srv.pending,
             \/ pc' \in Begins
             \/ pc' = "idle" /\ last' \in {"begun", "beginErr"}
      PROVE  RestoreInv'
  <2>1. srv' \in after \cup {srv}
    BY <1>0, <1>3, RoundTrip
  <2>2. srv'.auto => srv'.pending = {}
    BY <1>3, <2>1 DEF RestoreInv
  <2> QED BY <1>3, <2>2 DEF RestoreInv, Begins
<1>4. CASE BeginTxIsolation
  <2>1. opts.iso \in IsoLevels
    BY <1>4 DEF BeginTxIsolation, TypeInv
  <2>2. \A x \in SetTxIsolation(srv, opts.iso) : x.auto => srv.auto /\ x.pending = srv.pending
    BY <1>0, <2>1, SettingFacts DEF SameWork
  <2> QED BY <1>3, <1>4, <2>2 DEF BeginTxIsolation, afterIso, goto, return, Begins
<1>5. CASE BeginTxReadOnly
  <2>1. \A x \in SetTxReadOnly(srv) : x.auto => srv.auto /\ x.pending = srv.pending
    BY <1>0, SettingFacts DEF SameWork
  <2> QED BY <1>3, <1>5, <2>1 DEF BeginTxReadOnly, goto, return, Begins
<1>6. CASE BeginTxAutocommit
  <2>1. \A x \in SetAutocommit(srv, FALSE) : x.auto => srv.auto /\ x.pending = srv.pending
    BY <1>0, AutocommitOff
  <2> QED BY <1>3, <1>6, <2>1 DEF BeginTxAutocommit, return
<1>7. CASE \/ \E k \in {"commit", "rollback"} : Finish(k)
           \/ FinishRefused \/ PutConn \/ ResetSession
  BY <1>7 DEF Finish, FinishRefused, PutConn, ResetSession, Idle, goto, return, conn,
     handler, RestoreInv
<1>8. CASE FinishEnd
  <2>1. \A x \in Commit(srv) \cup Rollback(srv) : x.pending = {}
    BY <1>0, <1>1, TxEndsFacts DEF Commit, Rollback
  <2>2. PICK out \in Outs : execCtx(out, endTran(srv), FALSE)
    BY <1>8 DEF FinishEnd
  <2>3. srv' \in Commit(srv) \cup Rollback(srv) \cup {srv}
    BY <1>0, <2>2, RoundTrip DEF endTran
  <2>4. srv'.auto => srv'.pending = {}
    BY <2>1, <2>3 DEF RestoreInv
  <2> QED BY <1>8, <2>4 DEF FinishEnd, RestoreInv
<1>9. \A x \in SetAutocommit(srv, TRUE) : x.auto /\ x.pending = {}
  <2> TAKE x \in SetAutocommit(srv, TRUE)
  <2>1. x.auto /\ (x.pending = {} \/ x = srv)
    BY <1>0, AutocommitOn
  <2> QED BY <2>1 DEF RestoreInv
<1>10. CASE FinishRestore
  <2>1. PICK out \in Outs :
          /\ execCtx(out, SetAutocommit(srv, TRUE), FALSE)
          /\ IF out = "ok" \/ err
               THEN autocommit' = TRUE /\ goto("reset") /\ UNCHANGED txVars
               ELSE UNCHANGED autocommit /\ told("error") /\ return("finishErr")
    BY <1>10 DEF FinishRestore
  <2>2. /\ srv' \in SetAutocommit(srv, TRUE) \cup {srv}
        /\ out = "ok" => srv' \in SetAutocommit(srv, TRUE)
    BY <1>0, <2>1, RoundTrip
  <2>3. /\ srv'.auto => srv'.pending = {}
        /\ out = "ok" => srv'.auto /\ srv'.pending = {}
    BY <1>9, <2>2 DEF RestoreInv
  <2>4. CASE out = "ok" \/ err
    BY <2>1, <2>3, <2>4 DEF goto, RestoreInv
  <2>5. CASE ~(out = "ok" \/ err)
    BY <2>1, <2>3, <2>5 DEF return, RestoreInv
  <2> QED BY <2>4, <2>5
<1>11. CASE ResetSkipped
  <2>1. pc = "reset" /\ pc' = "idle" /\ UNCHANGED <<broken, srv, autocommit>>
        /\ (last' \in {"finished", "reset"} => ~err)
        /\ (~broken => ~txAltered)
    BY <1>11 DEF ResetSkipped, finishReturns, return, conn
  <2> QED BY <2>1 DEF RestoreInv, SettingsInv, Clean
<1>12. CASE ResetStart
  BY <1>12 DEF ResetStart, goto, RestoreInv
<1>13. CASE ResetRequest
  <2>1. PICK out \in Outs : execCtx(out, resetRequest(srv), FALSE)
    BY <1>13 DEF ResetRequest
  <2>2. \A x \in resetRequest(srv) : x.auto = srv.auto /\ x.pending = srv.pending
    BY <1>0, <1>13, SettingFacts DEF ResetRequest, resetRequest, SameWork
  <2>3. srv'.auto = srv.auto /\ srv'.pending = srv.pending /\ (broken => broken')
    BY <1>0, <2>1, <2>2, RoundTrip
  <2>4. /\ pc \in Repairs /\ pc' \in Repairs /\ UNCHANGED <<err, autocommit>>
    BY <1>13 DEF ResetRequest
  <2> QED BY <2>3, <2>4 DEF RestoreInv
<1>14. CASE ResetEnd
  <2>1. pc = "reset.end" /\ pc' = "idle" /\ UNCHANGED <<srv, autocommit>>
        /\ (last' \in {"finished", "reset"} => ~err)
        /\ (~broken' => ~broken /\ ~resetErr)
    BY <1>14 DEF ResetEnd, finishReturns, return
  <2> QED BY <2>1 DEF RestoreInv, SettingsInv, Clean
\* Statements and savepoints.
<1>15. ASSUME NEW out \in Outs, NEW after, execCtx(out, after, TRUE),
              \A x \in after : Keeps(x, srv),
              pc = "idle", UNCHANGED <<autocommit, handler>>
       PROVE  RestoreInv'
  <2>1. (broken => broken') /\ srv' \in after \cup {srv}
    BY <1>0, <1>15, RoundTrip
  <2>2. Keeps(srv', srv)
    BY <1>15, <2>1 DEF Keeps
  <2> QED BY <1>15, <2>1, <2>2 DEF RestoreInv, Keeps, handler
<1>16. CASE Exec
  <2>1. writes + 1 \in Writes
    <3>1. writes \in 0 .. MaxWrites /\ writes < MaxWrites
      BY <1>16 DEF Exec, TypeInv, TypeOK
    <3> QED BY <3>1, SessionBounds DEF Writes
  <2>2. \A x \in Write(srv, writes + 1) : Keeps(x, srv)
    <3> TAKE x \in Write(srv, writes + 1)
    <3>1. x.auto = srv.auto /\ (srv.auto => x.pending = srv.pending)
      BY <1>0, <2>1, WriteFacts
    <3>2. Clean(srv) => Clean(x)
      BY <1>0, <2>1, CleanKept
    <3> QED BY <3>1, <3>2 DEF Keeps
  <2> QED BY <1>15, <1>16, <2>2 DEF Exec, Idle
<1>17. CASE Savepoint \/ RollbackToSavepoint \/ ReleaseSavepoint \/ PrepareCommit
  <2>1. \A x \in SetSavepoint(srv) \cup ReleaseSave(srv) \cup {srv} : Keeps(x, srv)
    BY <1>0, SavepointFacts, CleanKept DEF Keeps, SameWork
  <2>2. \A x \in RollbackToSave(srv) : Keeps(x, srv)
    BY <1>0, SavepointFacts, CleanKept DEF Keeps
  <2> QED BY <1>15, <1>17, <2>1, <2>2
          DEF Savepoint, RollbackToSavepoint, ReleaseSavepoint, PrepareCommit, Idle
\* ResetSession.
<1>18. CASE ResetRollback
  <2>1. \A x \in Rollback(srv) : x.pending = {}
    BY <1>0, <1>1, TxEndsFacts DEF Rollback
  <2>2. PICK out \in Outs :
          /\ execCtx(out, Rollback(srv), TRUE)
          /\ IF out = "ok" THEN goto("pool.autocommit") /\ UNCHANGED where
                           ELSE return("resetErr") /\ where' = "user"
    BY <1>18 DEF ResetRollback
  <2>3. /\ srv' \in Rollback(srv) \cup {srv}
        /\ out = "ok" => srv' \in Rollback(srv)
    BY <1>0, <2>2, RoundTrip
  <2>4. /\ srv'.auto => srv'.pending = {}
        /\ out = "ok" => srv'.pending = {}
    BY <2>1, <2>3 DEF RestoreInv
  <2> QED BY <2>2, <2>4 DEF RestoreInv, goto, return
<1>19. CASE ResetAutocommit
  <2>1. PICK out \in Outs :
          /\ execCtx(out, SetAutocommit(srv, TRUE), TRUE)
          /\ IF out = "ok" THEN autocommit' = TRUE /\ return("reset")
                           ELSE UNCHANGED autocommit /\ return("resetErr")
    BY <1>19 DEF ResetAutocommit
  <2>2. /\ srv' \in SetAutocommit(srv, TRUE) \cup {srv}
        /\ out = "ok" => srv' \in SetAutocommit(srv, TRUE)
    BY <1>0, <2>1, RoundTrip
  <2>3. /\ srv'.auto => srv'.pending = {}
        /\ out = "ok" => srv'.auto /\ srv'.pending = {}
    BY <1>9, <2>2 DEF RestoreInv
  <2> QED BY <2>1, <2>3 DEF RestoreInv, return
<1>20. CASE UNCHANGED vars
  BY <1>20 DEF vars, RestoreInv, Clean
<1> QED BY <1>2, <1>4, <1>5, <1>6, <1>7, <1>8, <1>10, <1>11, <1>12, <1>13, <1>14, <1>16,
           <1>17, <1>18, <1>19, <1>20 DEF Next

THEOREM SessionInvariant == Spec => [](TypeInv /\ SettingsInv /\ RestoreInv)
<1>1. Init => SettingsInv
  BY DEF Init, SettingsInv, Clean, Repairs
<1>2. Init => RestoreInv
  BY DEF Init, RestoreInv, Restored, Repairs
<1> QED BY <1>1, <1>2, InitTypes, SessionTypeInvariant, SettingsStep, RestoreStep, PTL
        DEF Spec

(* After a Commit or Rollback that returns nil a connection that is still  *)
(* valid is as good as new.                                                *)
THEOREM FinishAlwaysRestores == Spec => []FinishRestores
<1>1. RestoreInv => FinishRestores
  BY DEF RestoreInv, Restored, FinishRestores, AtRest
<1> QED BY <1>1, SessionInvariant, PTL

(* After a ResetSession that returns nil both ends agree on autocommit and *)
(* no earlier user's work is open.                                         *)
THEOREM ResetAlwaysRestores == Spec => []ResetRestores
<1>1. RestoreInv => ResetRestores
  BY DEF RestoreInv, Restored, ResetRestores, AtRest
<1> QED BY <1>1, SessionInvariant, PTL

(* ResetSession never commits what an earlier user left open. *)
THEOREM ResetCommitsNothing == Spec => ResetNeverCommits
<1>1. ASSUME TypeInv, RestoreInv, [Next]_vars
      PROVE  [(pc \in {"pool.rollback", "pool.autocommit"})
                => srv'.committed = srv.committed]_vars
  <2>0. /\ broken \in BOOLEAN /\ srv \in ServerSessions /\ faults \in 0 .. MaxFaults
        /\ {} \in SUBSET Writes
    BY <1>1 DEF TypeInv, TypeOK
  <2>1. CASE ResetRollback
    <3>1. PICK out \in Outs : execCtx(out, Rollback(srv), TRUE)
      BY <2>1 DEF ResetRollback
    <3>2. \A x \in Rollback(srv) : x.committed = srv.committed
      BY <2>0, EndFacts
    <3>3. srv' \in Rollback(srv) \cup {srv}
      BY <2>0, <3>1, RoundTrip
    <3> QED BY <3>2, <3>3
  <2>2. CASE ResetAutocommit
    <3>1. PICK out \in Outs : execCtx(out, SetAutocommit(srv, TRUE), TRUE)
      BY <2>2 DEF ResetAutocommit
    <3>2. srv.pending = {}
      BY <1>1, <2>2 DEF ResetAutocommit, RestoreInv
    <3>3. \A x \in SetAutocommit(srv, TRUE) : x.committed = srv.committed
      BY <2>0, <3>2, AutocommitOn
    <3>4. srv' \in SetAutocommit(srv, TRUE) \cup {srv}
      BY <2>0, <3>1, RoundTrip
    <3> QED BY <3>3, <3>4
  <2>3. CASE pc \in {"pool.rollback", "pool.autocommit"}
    BY <1>1, <2>1, <2>2, <2>3 DEF Next, BeginTx, BeginTxRefused, BeginTxIsolation,
       BeginTxReadOnly, BeginTxAutocommit, Finish, FinishRefused, FinishEnd,
       FinishRestore, ResetSkipped, ResetStart, ResetRequest, ResetEnd, Exec, Savepoint,
       RollbackToSavepoint, ReleaseSavepoint, PrepareCommit, PutConn, ResetSession, Idle
  <2> QED BY <2>3
<1> QED BY <1>1, SessionInvariant, PTL DEF Spec, ResetNeverCommits

-----------------------------------------------------------------------------
(***************************************************************************)
(* Transactions and what they were told.                                   *)
(***************************************************************************)
LEMMA TxStep == TypeInv /\ TxInv /\ [Next]_vars => TxInv'
<1> SUFFICES ASSUME TypeInv, TxInv, [Next]_vars PROVE TxInv'
  OBVIOUS
<1>0. /\ tx \in 0 .. txs /\ txs \in 0 .. MaxTx /\ MaxTx \in Nat
      /\ result \in [Txs -> {"none", "open", "committed", "rolledBack", "error"}]
  BY SessionBounds DEF TypeInv, TypeOK
<1> USE DEF Begins, AfterEnd, Repairs, PoolReset
<1>1. ASSUME NEW o \in TxOptions, BeginTx(o) PROVE TxInv'
  <2>1. /\ pc = "idle" /\ where = "user" /\ where' = where /\ autocommit
        /\ txs' = txs + 1 /\ txs' \in Txs
        /\ pc' \in Begins /\ tx' = tx /\ result' = result
    BY <1>0, <1>1 DEF BeginTx, Idle, afterIso, Txs
  <2>2. tx = 0
    BY <2>1 DEF TxInv
  <2> QED BY <1>0, <2>1, <2>2 DEF TxInv, Txs
<1>2. ASSUME NEW o \in TxOptions, BeginTxRefused(o) PROVE TxInv'
  <2>1. /\ pc = "idle" /\ pc' = "idle" /\ txs' = txs + 1
        /\ UNCHANGED <<where, tx, result, autocommit>>
    BY <1>2 DEF BeginTxRefused, Idle, return, conn
  <2> QED BY <1>0, <2>1 DEF TxInv, Txs
\* Steps that open no transaction and end none.
<1>3. ASSUME UNCHANGED txVars,
             pc' \in Begins => pc \in Begins /\ where' = where,
             pc' \in {"finish.end"} \cup AfterEnd => tx # 0,
             pc' \in PoolReset \/ (pc' = "idle" /\ where' = "pool") => tx = 0,
             pc' = "idle" /\ tx # 0 => ~autocommit'
      PROVE  TxInv'
  BY <1>3 DEF TxInv, txVars
<1>4. CASE BeginTxIsolation \/ BeginTxReadOnly
  <2>1. /\ pc \in Begins /\ UNCHANGED <<txVars, autocommit, where>>
        /\ pc' \in Begins \cup {"idle"}
    BY <1>4 DEF BeginTxIsolation, BeginTxReadOnly, afterIso, goto, return
  <2>2. tx = 0
    BY <2>1 DEF TxInv
  <2> QED BY <1>3, <2>1, <2>2
<1>5. CASE BeginTxAutocommit
  <2>1. /\ pc = "begin.auto" /\ pc' = "idle" /\ txs' = txs /\ where' = where
        /\ \/ tx' = txs /\ result' = [result EXCEPT ![txs] = "open"] /\ ~autocommit'
           \/ UNCHANGED txVars
    BY <1>5 DEF BeginTxAutocommit, return, txVars
  <2>2. tx = 0 /\ txs > 0 /\ txs \in Txs
    BY <1>0, <2>1 DEF TxInv, Txs
  <2>3. where = "user"
    BY <2>1 DEF TxInv
  <2> QED BY <1>0, <2>1, <2>2, <2>3 DEF TxInv, Txs, txVars
<1>6. ASSUME NEW k \in {"commit", "rollback"}, Finish(k) PROVE TxInv'
  BY <1>3, <1>6 DEF Finish, Idle
<1>7. ASSUME NEW v \in {"committed", "rolledBack", "error"}, told(v), pc' = "idle", tx # 0
      PROVE  TxInv'
  <2>1. tx' = 0 /\ txs' = txs /\ result' = [result EXCEPT ![tx] = v] /\ tx \in Txs
    BY <1>0, <1>7 DEF told, Txs
  <2> QED BY <1>0, <1>7, <2>1 DEF TxInv, Txs
<1>8. CASE FinishRefused
  BY <1>7, <1>8 DEF FinishRefused, return
<1>9. CASE FinishEnd
  BY <1>3, <1>9 DEF FinishEnd, TxInv
<1>10. CASE FinishRestore
  <2>1. tx # 0
    BY <1>10 DEF FinishRestore, TxInv
  <2>2. \/ pc' = "reset" /\ UNCHANGED txVars
        \/ pc' = "idle" /\ told("error")
    BY <1>10 DEF FinishRestore, goto, return
  <2> QED BY <1>3, <1>7, <2>1, <2>2
<1>11. CASE ResetSkipped \/ ResetEnd
  <2>1. tx # 0
    BY <1>11 DEF ResetSkipped, ResetEnd, TxInv
  <2>2. pc' = "idle" /\ (told("error") \/ told("committed") \/ told("rolledBack"))
    BY <1>11 DEF ResetSkipped, ResetEnd, finishReturns, Succeeded, return
  <2> QED BY <1>7, <2>1, <2>2
<1>12. CASE ResetStart \/ ResetRequest
  <2>1. tx # 0
    BY <1>12 DEF ResetStart, ResetRequest, TxInv
  <2>2. UNCHANGED txVars /\ pc' \in Repairs
    BY <1>12 DEF ResetStart, ResetRequest, goto
  <2> QED BY <1>3, <2>1, <2>2
<1>13. CASE Exec \/ Savepoint \/ RollbackToSavepoint \/ ReleaseSavepoint \/ PrepareCommit
  <2>1. pc = "idle" /\ pc' = "idle" /\ UNCHANGED <<txVars, autocommit, where>>
    BY <1>13 DEF Exec, Savepoint, RollbackToSavepoint, ReleaseSavepoint, PrepareCommit,
       Idle, handler
  <2> QED BY <1>3, <2>1 DEF TxInv
<1>14. CASE PutConn
  <2>1. tx = 0 /\ pc' = "idle" /\ UNCHANGED txVars
    BY <1>14 DEF PutConn, Idle, handler
  <2> QED BY <1>3, <2>1
<1>15. CASE ResetSession
  <2>1. tx = 0 /\ pc' = "pool.rollback" /\ UNCHANGED txVars
    BY <1>15 DEF ResetSession, goto, TxInv
  <2> QED BY <1>3, <2>1
<1>16. CASE ResetRollback \/ ResetAutocommit
  <2>1. tx = 0
    BY <1>16 DEF ResetRollback, ResetAutocommit, TxInv
  <2>2. UNCHANGED txVars /\ pc' \in {"pool.autocommit", "idle"}
    BY <1>16 DEF ResetRollback, ResetAutocommit, goto, return
  <2> QED BY <1>3, <2>1, <2>2
<1>17. CASE UNCHANGED vars
  BY <1>17 DEF vars, TxInv
<1> QED BY <1>1, <1>2, <1>4, <1>5, <1>6, <1>8, <1>9, <1>10, <1>11, <1>12, <1>13, <1>14,
           <1>15, <1>16, <1>17 DEF Next

(* What may happen to the history without a new write: open work becomes   *)
(* durable or is dropped, and a result is set that nothing contradicts.    *)
Moves ==
  /\ UNCHANGED history
  /\ srv'.pending \subseteq srv.pending
  /\ srv.committed \subseteq srv'.committed
  /\ srv'.committed \subseteq srv.committed \cup srv.pending

LEMMA MovesSettled ==
  ASSUME TypeInv, Recorded, Settled, Moves,
         \A u \in Txs : result[u] # "none" => result'[u] # "none",
         \A u \in Txs : result'[u] \in {"committed", "rolledBack"} => result'[u] = result[u]
  PROVE  Recorded' /\ Settled'
<1>0. \A w \in 1 .. writes : owner[w] # 0 => owner[w] \in Txs
  <2>1. owner \in [Writes -> 0 .. MaxTx] /\ writes \in 0 .. MaxWrites
    BY DEF TypeInv, TypeOK
  <2> QED BY <2>1, SessionBounds DEF Writes, Txs
<1>1. UNCHANGED <<owner, writes, acked, undone>>
  BY DEF Moves, history
<1>2. Recorded'
  BY <1>0, <1>1 DEF Recorded, Moves
<1>3. ASSUME NEW w \in 1 .. writes, owner[w] # 0,
             result'[owner[w]] \in {"committed", "rolledBack"}
      PROVE  /\ result[owner[w]] = result'[owner[w]]
             /\ w \notin srv.pending /\ w \notin srv'.pending
             /\ w \in srv'.committed <=> w \in srv.committed
  <2>1. result[owner[w]] = result'[owner[w]]
    BY <1>0, <1>3
  <2> QED BY <1>3, <2>1 DEF Settled, Moves
<1>4. Settled'
  BY <1>1, <1>3 DEF Settled, CommitHonoured, RollbackHonoured
<1> QED BY <1>2, <1>4

(* With what an open transaction must have, or what must have come of it.  *)
LEMMA MovesKeep ==
  ASSUME TypeInv, WriteInv, Moves, UNCHANGED result, OpenWrites', EndedWrites'
  PROVE  WriteInv'
  BY MovesSettled DEF WriteInv

(* A new write belongs to the open transaction, if there is one. *)
LEMMA ExecStep == TypeInv /\ TxInv /\ WriteInv /\ Exec => WriteInv'
<1> SUFFICES ASSUME TypeInv, TxInv, WriteInv, Exec PROVE WriteInv'
  OBVIOUS
<1>0. /\ broken \in BOOLEAN /\ srv \in ServerSessions /\ faults \in 0 .. MaxFaults
      /\ tx \in 0 .. txs /\ txs \in 0 .. MaxTx /\ MaxTx \in Nat
      /\ owner \in [Writes -> 0 .. MaxTx] /\ writes \in 0 .. MaxWrites /\ MaxWrites \in Nat
  BY SessionBounds DEF TypeInv, TypeOK
<1>1. PICK out \in Outs :
        /\ execCtx(out, Write(srv, writes + 1), TRUE)
        /\ acked' = IF out = "ok" THEN acked \cup {writes + 1} ELSE acked
  BY DEF Exec
<1>2. /\ pc = "idle" /\ pc' = "idle" /\ UNCHANGED <<tx, result, undone>>
      /\ writes < MaxWrites /\ writes' = writes + 1
      /\ owner' = [owner EXCEPT ![writes + 1] = tx]
  BY DEF Exec, Idle, handler, txVars
<1>3. /\ writes + 1 \in Writes /\ owner'[writes + 1] = tx
      /\ \A w \in 1 .. writes : w # writes + 1 /\ owner'[w] = owner[w]
      /\ 1 .. writes' = (1 .. writes) \cup {writes + 1}
      /\ writes + 1 \notin 1 .. writes
  BY <1>0, <1>2 DEF Writes
<1>4. /\ srv' \in Write(srv, writes + 1) \cup {srv}
      /\ broken => broken' /\ srv' = srv /\ out # "ok"
      /\ out = "ok" => srv' \in Write(srv, writes + 1)
      /\ out # "ok" /\ ~broken' => srv' = srv
  BY <1>0, <1>1, RoundTrip
<1>5. ASSUME srv' \in Write(srv, writes + 1)
      PROVE  /\ srv'.auto = srv.auto
             /\ srv.auto => srv'.pending = srv.pending
                            /\ srv'.committed = srv.committed \cup {writes + 1}
             /\ ~srv.auto => srv'.pending = srv.pending \cup {writes + 1}
                             /\ srv'.committed = srv.committed
  BY <1>0, <1>3, <1>5, WriteFacts
<1>6. /\ srv'.pending \subseteq srv.pending \cup {writes + 1}
      /\ srv'.committed \subseteq srv.committed \cup {writes + 1}
      /\ srv.committed \subseteq srv'.committed
  <2>1. srv.auto \in BOOLEAN
    BY <1>0 DEF ServerSessions
  <2> QED BY <1>4, <1>5, <2>1
<1>7. \A w \in 1 .. writes : (Kept(w)' <=> Kept(w))
  BY <1>1, <1>2, <1>3 DEF Kept
<1>8. tx # 0 => result[tx] = "open"
  BY DEF TxInv
<1>9. Recorded'
  BY <1>1, <1>2, <1>3, <1>6, <1>8 DEF WriteInv, Recorded
<1>10. OpenWrites'
  <2> SUFFICES ASSUME tx # 0, ~broken'
               PROVE  /\ ~srv'.auto
                      /\ \A w \in 1 .. writes' : owner'[w] = tx =>
                           (w \in srv'.pending <=> Kept(w)') /\ w \notin srv'.committed
    BY <1>2 DEF OpenWrites
  <2>1. /\ ~broken /\ ~srv.auto
        /\ \A w \in 1 .. writes : owner[w] = tx =>
             (w \in srv.pending <=> Kept(w)) /\ w \notin srv.committed
    BY <1>2, <1>4 DEF WriteInv, OpenWrites
  <2>2. ASSUME NEW w \in 1 .. writes, owner'[w] = tx
        PROVE  (w \in srv'.pending <=> Kept(w)') /\ w \notin srv'.committed
    BY <1>3, <1>4, <1>5, <1>7, <2>1, <2>2
  <2>3. /\ writes + 1 \in srv'.pending
             <=> writes + 1 \in acked' /\ writes + 1 \notin undone'
        /\ writes + 1 \notin srv'.committed
    <3>1. /\ writes + 1 \notin srv.pending /\ writes + 1 \notin srv.committed
          /\ writes + 1 \notin acked /\ writes + 1 \notin undone
      BY <1>3 DEF WriteInv, Recorded
    <3>2. CASE out = "ok"
      BY <1>1, <1>2, <1>4, <1>5, <2>1, <3>1, <3>2
    <3>3. CASE out # "ok"
      BY <1>1, <1>2, <1>4, <3>1, <3>3
    <3> QED BY <3>2, <3>3
  <2>4. ~srv'.auto
    BY <1>4, <1>5, <2>1
  <2> QED BY <1>3, <2>2, <2>3, <2>4 DEF Kept
<1>11. EndedWrites'
  BY <1>2 DEF EndedWrites, AfterEnd, Repairs
<1>12. Settled'
  <2>1. ASSUME NEW w \in 1 .. writes', owner'[w] # 0,
               result'[owner'[w]] \in {"committed", "rolledBack"}
        PROVE  w \in 1 .. writes /\ owner'[w] = owner[w]
    BY <1>2, <1>3, <1>8, <2>1
  <2>2. ASSUME NEW w \in 1 .. writes
        PROVE  /\ w \in srv'.pending <=> w \in srv.pending
               /\ w \in srv'.committed <=> w \in srv.committed
    <3>1. srv.auto \in BOOLEAN
      BY <1>0 DEF ServerSessions
    <3> QED BY <1>3, <1>4, <1>5, <3>1
  <2>3. \A w \in 1 .. writes : (w \in acked' \ undone' <=> w \in acked \ undone)
    BY <1>1, <1>2, <1>3
  <2> QED BY <1>2, <2>1, <2>2, <2>3 DEF WriteInv, Settled, CommitHonoured, RollbackHonoured
<1> QED BY <1>9, <1>10, <1>11, <1>12 DEF WriteInv

(* Undoing to a savepoint takes the same writes from the open work and     *)
(* from those the transaction is to keep.                                  *)
LEMMA RollbackToSavepointStep ==
  TypeInv /\ WriteInv /\ RollbackToSavepoint => WriteInv'
<1> SUFFICES ASSUME TypeInv, WriteInv, RollbackToSavepoint PROVE WriteInv'
  OBVIOUS
<1>0. broken \in BOOLEAN /\ srv \in ServerSessions /\ faults \in 0 .. MaxFaults
  BY DEF TypeInv, TypeOK
<1>1. PICK out \in Outs :
        /\ execCtx(out, RollbackToSave(srv), TRUE)
        /\ undone' = IF out = "ok" THEN undone \cup (srv.pending \ srv.save) ELSE undone
  BY DEF RollbackToSavepoint
<1>2. /\ pc = "idle" /\ pc' = "idle" /\ UNCHANGED <<tx, result, owner, writes, acked>>
  BY DEF RollbackToSavepoint, Idle, handler, txVars
<1>3. /\ srv' \in RollbackToSave(srv) \cup {srv}
      /\ broken => broken' /\ srv' = srv /\ out # "ok"
      /\ out = "ok" => srv' \in RollbackToSave(srv)
      /\ out # "ok" /\ ~broken' => srv' = srv
  BY <1>0, <1>1, RoundTrip
<1>4. ASSUME srv' \in RollbackToSave(srv)
      PROVE  /\ srv'.auto = srv.auto /\ srv'.committed = srv.committed
             /\ srv'.pending = srv.pending \cap srv.save
  BY <1>0, <1>4, SavepointFacts
<1>5. srv'.pending \subseteq srv.pending /\ srv'.committed = srv.committed
  BY <1>3, <1>4
<1>6. Recorded'
  BY <1>1, <1>2, <1>5 DEF WriteInv, Recorded
<1>7. OpenWrites'
  <2> SUFFICES ASSUME tx # 0, ~broken'
               PROVE  /\ ~srv'.auto
                      /\ \A w \in 1 .. writes : owner[w] = tx =>
                           (w \in srv'.pending <=> Kept(w)') /\ w \notin srv'.committed
    BY <1>2 DEF OpenWrites
  <2>1. /\ ~srv.auto
        /\ \A w \in 1 .. writes : owner[w] = tx =>
             (w \in srv.pending <=> Kept(w)) /\ w \notin srv.committed
    BY <1>2, <1>3 DEF WriteInv, OpenWrites
  <2>2. CASE out = "ok"
    BY <1>1, <1>2, <1>3, <1>4, <2>1, <2>2 DEF Kept
  <2>3. CASE out # "ok"
    BY <1>1, <1>2, <1>3, <2>1, <2>3 DEF Kept
  <2> QED BY <2>2, <2>3
<1>8. EndedWrites'
  BY <1>2 DEF EndedWrites, AfterEnd, Repairs
<1>9. Settled'
  <2>1. ASSUME NEW w, w \notin srv.pending
        PROVE  w \in acked' \ undone' <=> w \in acked \ undone
    BY <1>1, <1>2, <2>1
  <2> QED BY <1>2, <1>5, <2>1 DEF WriteInv, Settled, CommitHonoured, RollbackHonoured
<1> QED BY <1>6, <1>7, <1>8, <1>9 DEF WriteInv

(* endTran: what it reports as done has been done. *)
LEMMA FinishEndStep == TypeInv /\ TxInv /\ WriteInv /\ FinishEnd => WriteInv'
<1> SUFFICES ASSUME TypeInv, TxInv, WriteInv, FinishEnd PROVE WriteInv'
  OBVIOUS
<1>0. /\ broken \in BOOLEAN /\ srv \in ServerSessions /\ faults \in 0 .. MaxFaults
      /\ kind \in {"commit", "rollback"}
  BY DEF TypeInv, TypeOK
<1>1. PICK out \in Outs :
        /\ execCtx(out, endTran(srv), FALSE)
        /\ pc' = "finish.restore" /\ err' = (out # "ok")
  BY DEF FinishEnd
<1>2. pc = "finish.end" /\ UNCHANGED <<kind, tx, result, history>> /\ tx # 0
  BY DEF FinishEnd, txVars, TxInv
<1>3. /\ srv' \in endTran(srv) \cup {srv}
      /\ out = "ok" => ~broken /\ srv' \in endTran(srv)
  BY <1>0, <1>1, RoundTrip
<1>4. \A x \in endTran(srv) :
        /\ x.pending = {}
        /\ kind = "commit" => x.committed = srv.committed \cup srv.pending
        /\ kind = "rollback" => x.committed = srv.committed
  BY <1>0, EndFacts DEF endTran
<1>5. Moves
  BY <1>0, <1>2, <1>3, <1>4 DEF Moves
<1>6. OpenWrites'
  BY <1>1 DEF OpenWrites
<1>7. EndedWrites'
  <2> SUFFICES ASSUME ~err'
               PROVE  /\ srv'.pending = {}
                      /\ \A w \in 1 .. writes : owner[w] = tx =>
                           IF kind = "commit" THEN w \in srv'.committed <=> Kept(w)
                                              ELSE w \notin srv'.committed
    BY <1>2 DEF EndedWrites, history, Kept
  <2>1. out = "ok"
    BY <1>1
  <2>2. \A w \in 1 .. writes : owner[w] = tx =>
          (w \in srv.pending <=> Kept(w)) /\ w \notin srv.committed
    BY <1>2, <1>3, <2>1 DEF WriteInv, OpenWrites
  <2> QED BY <1>0, <1>3, <1>4, <2>1, <2>2
<1> QED BY <1>2, <1>5, <1>6, <1>7, MovesKeep

(* Restoring autocommit with no work open commits nothing. *)
LEMMA FinishRestoreStep == TypeInv /\ TxInv /\ WriteInv /\ FinishRestore => WriteInv'
<1> SUFFICES ASSUME TypeInv, TxInv, WriteInv, FinishRestore PROVE WriteInv'
  OBVIOUS
<1>0. /\ broken \in BOOLEAN /\ srv \in ServerSessions /\ faults \in 0 .. MaxFaults
      /\ result \in [Txs -> {"none", "open", "committed", "rolledBack", "error"}]
      /\ srv.pending \in SUBSET Writes
  BY DEF TypeInv, TypeOK, ServerSessions
<1>1. PICK out \in Outs :
        /\ execCtx(out, SetAutocommit(srv, TRUE), FALSE)
        /\ IF out = "ok" \/ err
             THEN autocommit' = TRUE /\ goto("reset") /\ UNCHANGED txVars
             ELSE UNCHANGED autocommit /\ told("error") /\ return("finishErr")
  BY DEF FinishRestore
<1>2. pc = "finish.restore" /\ UNCHANGED <<kind, history>>
  BY <1>1 DEF FinishRestore, goto, return
<1>3. srv' \in SetAutocommit(srv, TRUE) \cup {srv}
  BY <1>0, <1>1, RoundTrip
<1>4. /\ srv'.pending \subseteq srv.pending
      /\ srv.committed \subseteq srv'.committed
      /\ srv'.committed \subseteq srv.committed \cup srv.pending
      /\ srv.pending = {} => srv'.pending = {} /\ srv'.committed = srv.committed
  <2>1. CASE srv' = srv
    BY <2>1
  <2>2. CASE srv' \in SetAutocommit(srv, TRUE)
    <3>1. /\ srv'.pending = {} \/ srv' = srv
          /\ \/ srv'.committed = srv.committed
             \/ srv'.committed = srv.committed \cup srv.pending
          /\ srv.pending = {} => srv'.committed = srv.committed
      BY <1>0, <2>2, AutocommitOn
    <3> QED BY <2>1, <3>1
  <2> QED BY <1>3, <2>1, <2>2
<1>5. Moves
  BY <1>2, <1>4 DEF Moves
<1>6. CASE out = "ok" \/ err
  <2>1. pc' = "reset" /\ UNCHANGED <<err, tx, result>>
    BY <1>1, <1>6 DEF goto, txVars
  <2>2. OpenWrites'
    BY <2>1 DEF OpenWrites
  <2>3. EndedWrites'
    BY <1>2, <1>4, <2>1 DEF WriteInv, EndedWrites, AfterEnd, history, Kept
  <2> QED BY <1>5, <2>1, <2>2, <2>3, MovesKeep
<1>7. CASE ~(out = "ok" \/ err)
  <2>1. pc' = "idle" /\ tx' = 0 /\ result' = [result EXCEPT ![tx] = "error"]
    BY <1>1, <1>7 DEF told, return
  <2>2. OpenWrites' /\ EndedWrites'
    BY <2>1 DEF OpenWrites, EndedWrites, AfterEnd, Repairs
  <2> QED BY <1>0, <1>5, <2>1, <2>2, MovesSettled DEF WriteInv
<1> QED BY <1>6, <1>7

(* finish returns: nil exactly when endTran succeeded, and then what it    *)
(* says is what became of the transaction's writes.                        *)
LEMMA FinishReturnsStep ==
  TypeInv /\ TxInv /\ WriteInv /\ (ResetSkipped \/ ResetEnd) => WriteInv'
<1> SUFFICES ASSUME TypeInv, TxInv, WriteInv, ResetSkipped \/ ResetEnd PROVE WriteInv'
  OBVIOUS
<1>0. /\ result \in [Txs -> {"none", "open", "committed", "rolledBack", "error"}]
      /\ kind \in {"commit", "rollback"} /\ tx \in 0 .. txs /\ txs \in 0 .. MaxTx
      /\ owner \in [Writes -> 0 .. MaxTx] /\ writes \in 0 .. MaxWrites
  BY DEF TypeInv, TypeOK
<1>1. pc \in AfterEnd /\ pc' = "idle" /\ UNCHANGED <<srv, history>> /\ finishReturns
  BY DEF ResetSkipped, ResetEnd, finishReturns, return, AfterEnd, Repairs
<1>2. tx # 0 /\ tx \in Txs
  BY <1>0, <1>1, SessionBounds DEF TxInv, Txs
<1>3. OpenWrites' /\ EndedWrites'
  BY <1>1 DEF finishReturns, told, OpenWrites, EndedWrites, AfterEnd, Repairs
<1>4. CASE err
  <2>1. result' = [result EXCEPT ![tx] = "error"]
    BY <1>1, <1>4 DEF finishReturns, told
  <2> QED BY <1>0, <1>1, <1>3, <2>1, MovesSettled DEF WriteInv, Moves
<1>5. CASE ~err
  <2>1. result' = [result EXCEPT ![tx] = Succeeded] /\ UNCHANGED <<srv, history>>
    BY <1>1, <1>5 DEF finishReturns, told
  <2>2. /\ srv.pending = {}
        /\ \A w \in 1 .. writes : owner[w] = tx =>
             IF kind = "commit" THEN w \in srv.committed <=> Kept(w)
                                ELSE w \notin srv.committed
    BY <1>1, <1>5 DEF WriteInv, EndedWrites
  <2>3. \A w \in 1 .. writes : owner[w] # 0 => owner[w] \in Txs
    BY <1>0, SessionBounds DEF Writes, Txs
  <2>4. Succeeded # "none" /\ (Succeeded = "committed" => kind = "commit")
        /\ (Succeeded = "rolledBack" => kind = "rollback")
    BY <1>0 DEF Succeeded
  <2>5. Recorded'
    BY <1>0, <1>2, <2>1, <2>3, <2>4 DEF WriteInv, Recorded, history
  <2>6. \A w \in 1 .. writes : owner[w] # 0 =>
          result'[owner[w]] = IF owner[w] = tx THEN Succeeded ELSE result[owner[w]]
    BY <1>0, <1>2, <2>1, <2>3
  <2>7. UNCHANGED <<srv, owner, writes, acked, undone>>
    BY <2>1 DEF history
  <2>8. CommitHonoured'
    <3> SUFFICES ASSUME NEW w \in 1 .. writes, owner[w] # 0,
                        result'[owner[w]] = "committed"
                 PROVE  w \in srv.committed <=> w \in acked \ undone
      BY <2>7 DEF CommitHonoured
    <3>1. CASE owner[w] = tx
      BY <2>2, <2>4, <2>6, <3>1 DEF Kept
    <3>2. CASE owner[w] # tx
      BY <2>6, <3>2 DEF WriteInv, Settled, CommitHonoured
    <3> QED BY <3>1, <3>2
  <2>9. RollbackHonoured'
    <3> SUFFICES ASSUME NEW w \in 1 .. writes, owner[w] # 0,
                        result'[owner[w]] = "rolledBack"
                 PROVE  w \notin srv.committed
      BY <2>7 DEF RollbackHonoured
    <3>1. CASE owner[w] = tx
      BY <2>2, <2>4, <2>6, <3>1
    <3>2. CASE owner[w] # tx
      BY <2>6, <3>2 DEF WriteInv, Settled, RollbackHonoured
    <3> QED BY <3>1, <3>2
  <2>10. Settled'
    BY <2>2, <2>7, <2>8, <2>9 DEF Settled
  <2> QED BY <1>3, <2>5, <2>10 DEF WriteInv
<1> QED BY <1>4, <1>5

LEMMA WriteStep == TypeInv /\ TxInv /\ WriteInv /\ [Next]_vars => WriteInv'
<1> SUFFICES ASSUME TypeInv, TxInv, WriteInv, [Next]_vars PROVE WriteInv'
  OBVIOUS
<1>0. /\ broken \in BOOLEAN /\ srv \in ServerSessions /\ faults \in 0 .. MaxFaults
      /\ result \in [Txs -> {"none", "open", "committed", "rolledBack", "error"}]
      /\ tx \in 0 .. txs /\ txs \in 0 .. MaxTx /\ MaxTx \in Nat
      /\ srv.pending \in SUBSET Writes
      /\ "RC" \in IsoLevels /\ "SER" \in IsoLevels
  BY SessionBounds DEF TypeInv, TypeOK, ServerSessions, IsoLevels
<1> USE DEF Begins, AfterEnd, Repairs
\* Steps that leave the server alone.
<1>1. ASSUME UNCHANGED <<srv, history, result, tx, broken>>,
             pc' \notin AfterEnd \/ (pc \in AfterEnd /\ UNCHANGED <<err, kind>>),
             pc' \in {"idle", "finish.end"} => pc \in {"idle", "finish.end"} \/ tx = 0
      PROVE  WriteInv'
  <2>1. Moves
    BY <1>1 DEF Moves
  <2>2. OpenWrites'
    BY <1>1 DEF WriteInv, OpenWrites, history, Kept
  <2>3. EndedWrites'
    BY <1>1 DEF WriteInv, EndedWrites, history, Kept
  <2> QED BY <1>1, <2>1, <2>2, <2>3, MovesKeep
\* Requests outside a transaction, which may end work an earlier one left.
<1>2. ASSUME NEW out \in Outs, NEW after, NEW c \in BOOLEAN, execCtx(out, after, c),
             \A x \in after : /\ x.pending \subseteq srv.pending
                              /\ srv.committed \subseteq x.committed
                              /\ x.committed \subseteq srv.committed \cup srv.pending,
             UNCHANGED <<history, result, tx>>, tx = 0, pc' \notin AfterEnd
      PROVE  WriteInv'
  <2>1. srv' \in after \cup {srv}
    BY <1>0, <1>2, RoundTrip
  <2>2. Moves
    BY <1>2, <2>1 DEF Moves
  <2>3. OpenWrites' /\ EndedWrites'
    BY <1>2 DEF OpenWrites, EndedWrites
  <2> QED BY <1>2, <2>2, <2>3, MovesKeep
<1>3. ASSUME NEW o \in TxOptions, BeginTx(o) \/ BeginTxRefused(o) PROVE WriteInv'
  <2>1. /\ UNCHANGED <<srv, history, result, tx, broken>>
        /\ pc = "idle" /\ pc' \in Begins \cup {"idle"}
    BY <1>3 DEF BeginTx, BeginTxRefused, Idle, afterIso, return, conn
  <2> QED BY <1>1, <2>1
<1>4. CASE BeginTxIsolation
  <2>1. opts.iso \in IsoLevels /\ tx = 0
    BY <1>4 DEF BeginTxIsolation, TypeInv, TxInv
  <2>2. \A x \in SetTxIsolation(srv, opts.iso) : SameWork(x, srv)
    BY <1>0, <2>1, SettingFacts
  <2>3. PICK out \in Outs : execCtx(out, SetTxIsolation(srv, opts.iso), TRUE)
    BY <1>4 DEF BeginTxIsolation
  <2>4. UNCHANGED <<history, result, tx>> /\ pc' \notin AfterEnd
    BY <1>4 DEF BeginTxIsolation, txVars, afterIso, goto, return
  <2> QED BY <1>2, <2>1, <2>2, <2>3, <2>4 DEF SameWork
<1>5. CASE BeginTxReadOnly
  <2>1. tx = 0
    BY <1>5 DEF BeginTxReadOnly, TxInv
  <2>2. \A x \in SetTxReadOnly(srv) : SameWork(x, srv)
    BY <1>0, SettingFacts
  <2>3. PICK out \in Outs : execCtx(out, SetTxReadOnly(srv), TRUE)
    BY <1>5 DEF BeginTxReadOnly
  <2>4. UNCHANGED <<history, result, tx>> /\ pc' \notin AfterEnd
    BY <1>5 DEF BeginTxReadOnly, txVars, goto, return
  <2> QED BY <1>2, <2>1, <2>2, <2>3, <2>4 DEF SameWork
<1>6. CASE BeginTxAutocommit
  <2>1. PICK out \in Outs :
          /\ execCtx(out, SetAutocommit(srv, FALSE), TRUE)
          /\ IF out = "ok"
               THEN /\ autocommit' = FALSE /\ tx' = txs
                    /\ result' = [result EXCEPT ![txs] = "open"]
                    /\ return("begun")
               ELSE /\ return("beginErr") /\ UNCHANGED <<autocommit, tx, result>>
    BY <1>6 DEF BeginTxAutocommit
  <2>2. tx = 0 /\ txs \in Txs /\ result[txs] = "none" /\ UNCHANGED history
    BY <1>0, <1>6 DEF BeginTxAutocommit, TxInv, Txs
  <2>3. \A x \in SetAutocommit(srv, FALSE) :
          ~x.auto /\ x.pending = srv.pending /\ x.committed = srv.committed
    BY <1>0, AutocommitOff
  <2>4. /\ srv' \in SetAutocommit(srv, FALSE) \cup {srv}
        /\ out = "ok" => srv' \in SetAutocommit(srv, FALSE)
    BY <1>0, <2>1, RoundTrip
  <2>5. Moves
    BY <2>2, <2>3, <2>4 DEF Moves
  <2>6. CASE out = "ok"
    <3>1. \A w \in 1 .. writes : owner[w] # txs
      BY <1>0, <2>2 DEF WriteInv, Recorded, Txs
    <3>2. OpenWrites'
      BY <2>1, <2>2, <2>3, <2>4, <2>6, <3>1 DEF OpenWrites, history
    <3>3. EndedWrites'
      BY <2>1, <2>6 DEF EndedWrites, return
    <3> QED BY <1>0, <2>1, <2>2, <2>5, <2>6, <3>2, <3>3, MovesSettled DEF WriteInv
  <2>7. CASE out # "ok"
    <3>1. OpenWrites' /\ EndedWrites'
      BY <2>1, <2>2, <2>7 DEF OpenWrites, EndedWrites, return
    <3> QED BY <2>1, <2>5, <2>7, <3>1, MovesKeep
  <2> QED BY <2>6, <2>7
<1>7. ASSUME NEW k \in {"commit", "rollback"}, Finish(k) PROVE WriteInv'
  BY <1>1, <1>7 DEF Finish, Idle, txVars, conn
<1>8. CASE FinishRefused
  <2>1. /\ tx \in Txs /\ UNCHANGED <<srv, history>> /\ tx' = 0 /\ pc' = "idle"
        /\ result' = [result EXCEPT ![tx] = "error"]
    BY <1>0, <1>8 DEF FinishRefused, told, return, Txs
  <2>2. OpenWrites' /\ EndedWrites' /\ Moves
    BY <2>1 DEF OpenWrites, EndedWrites, Moves
  <2> QED BY <1>0, <2>1, <2>2, MovesSettled DEF WriteInv
<1>9. CASE ResetStart
  BY <1>1, <1>9 DEF ResetStart, goto, txVars
<1>10. CASE ResetRequest
  <2>1. PICK out \in Outs : execCtx(out, resetRequest(srv), FALSE)
    BY <1>10 DEF ResetRequest
  <2>2. \A x \in resetRequest(srv) : SameWork(x, srv)
    BY <1>0, <1>10, SettingFacts DEF ResetRequest, resetRequest
  <2>3. srv' = srv \/ SameWork(srv', srv)
    BY <1>0, <2>1, <2>2, RoundTrip
  <2>4. srv'.pending = srv.pending /\ srv'.committed = srv.committed
    BY <2>3 DEF SameWork
  <2>5. pc \in AfterEnd /\ pc' \in AfterEnd /\ UNCHANGED <<history, result, tx, err, kind>>
    BY <1>10 DEF ResetRequest, txVars
  <2>6. OpenWrites' /\ EndedWrites' /\ Moves
    BY <2>4, <2>5 DEF WriteInv, OpenWrites, EndedWrites, Moves, history, Kept
  <2> QED BY <2>5, <2>6, MovesKeep
<1>11. CASE Savepoint \/ ReleaseSavepoint \/ PrepareCommit
  <2>1. PICK out \in Outs, after \in {SetSavepoint(srv), ReleaseSave(srv), {srv}} :
          execCtx(out, after, TRUE)
    BY <1>11 DEF Savepoint, ReleaseSavepoint, PrepareCommit
  <2>2. \A x \in SetSavepoint(srv) \cup ReleaseSave(srv) \cup {srv} : SameWork(x, srv)
    BY <1>0, SavepointFacts DEF SameWork
  <2>3. SameWork(srv', srv) /\ (broken => broken')
    BY <1>0, <2>1, <2>2, RoundTrip
  <2>4. pc = "idle" /\ pc' = "idle" /\ UNCHANGED <<history, result, tx>>
    BY <1>11 DEF Savepoint, ReleaseSavepoint, PrepareCommit, Idle, handler, txVars
  <2>5. OpenWrites' /\ EndedWrites' /\ Moves
    BY <2>3, <2>4 DEF WriteInv, OpenWrites, EndedWrites, Moves, history, Kept, SameWork
  <2> QED BY <2>4, <2>5, MovesKeep
<1>12. CASE PutConn \/ ResetSession
  BY <1>1, <1>12 DEF PutConn, ResetSession, Idle, goto, txVars, conn, handler
<1>13. CASE ResetRollback
  <2>1. tx = 0
    BY <1>13 DEF ResetRollback, TxInv, PoolReset
  <2>2. \A x \in Rollback(srv) : x.pending = {} /\ x.committed = srv.committed
    BY <1>0, EndFacts
  <2>3. PICK out \in Outs : execCtx(out, Rollback(srv), TRUE)
    BY <1>13 DEF ResetRollback
  <2>4. UNCHANGED <<history, result, tx>> /\ pc' \notin AfterEnd
    BY <1>13 DEF ResetRollback, txVars, goto, return
  <2> QED BY <1>2, <2>1, <2>2, <2>3, <2>4
<1>14. CASE ResetAutocommit
  <2>1. tx = 0
    BY <1>14 DEF ResetAutocommit, TxInv, PoolReset
  <2>2. ASSUME NEW x \in SetAutocommit(srv, TRUE)
        PROVE  /\ x.pending \subseteq srv.pending
               /\ srv.committed \subseteq x.committed
               /\ x.committed \subseteq srv.committed \cup srv.pending
    <3>1. /\ x.pending = {} \/ x = srv
          /\ \/ x.committed = srv.committed
             \/ x.committed = srv.committed \cup srv.pending
      BY <1>0, <2>2, AutocommitOn
    <3> QED BY <3>1
  <2>3. PICK out \in Outs : execCtx(out, SetAutocommit(srv, TRUE), TRUE)
    BY <1>14 DEF ResetAutocommit
  <2>4. UNCHANGED <<history, result, tx>> /\ pc' \notin AfterEnd
    BY <1>14 DEF ResetAutocommit, txVars, return
  <2> QED BY <1>2, <2>1, <2>2, <2>3, <2>4
<1>15. CASE UNCHANGED vars
  BY <1>1, <1>15 DEF vars, history
<1> QED BY <1>3, <1>4, <1>5, <1>6, <1>7, <1>8, <1>9, <1>10, <1>11, <1>12, <1>13, <1>14,
           <1>15, ExecStep, RollbackToSavepointStep, FinishEndStep, FinishRestoreStep,
           FinishReturnsStep DEF Next

LEMMA InitWrites == Init => TxInv /\ WriteInv
<1> SUFFICES ASSUME Init PROVE TxInv /\ WriteInv
  OBVIOUS
<1>1. TxInv
  BY DEF Init, TxInv, Begins, AfterEnd, Repairs, PoolReset
<1>2. 1 .. writes = {}
  BY DEF Init
<1>3. Recorded /\ OpenWrites /\ EndedWrites
  BY <1>2 DEF Init, Recorded, OpenWrites, EndedWrites, AfterEnd, Repairs
<1>4. Settled
  BY <1>2 DEF Settled, CommitHonoured, RollbackHonoured
<1> QED BY <1>1, <1>3, <1>4 DEF WriteInv

THEOREM TransactionInvariant == Spec => [](TxInv /\ WriteInv)
  BY InitWrites, SessionTypeInvariant, TxStep, WriteStep, PTL DEF Spec

(* What a Commit that returns nil says is what the server did, for good.   *)
THEOREM CommitIsExact == Spec => []CommitHonoured
<1>1. WriteInv => CommitHonoured
  BY DEF WriteInv, Settled
<1> QED BY <1>1, TransactionInvariant, PTL

(* What a Rollback that returns nil dropped is never committed later.      *)
THEOREM RollbackIsFinal == Spec => []RollbackHonoured
<1>1. WriteInv => RollbackHonoured
  BY DEF WriteInv, Settled
<1> QED BY <1>1, TransactionInvariant, PTL
=============================================================================
