------------------------------- MODULE Stmts -------------------------------
(***************************************************************************)
(* Statements: direct execution (conn_query.go, result_exec.go), prepared  *)
(* statements (stmt.go) and batches (batch.go), over connections that      *)
(* database/sql takes from its pool, resets, and replaces when they break. *)
(*                                                                         *)
(* A call of the application is a job.  database/sql (external) runs it on *)
(* a connection, and runs it again on another one when the driver returns  *)
(* driver.ErrBadConn: that error therefore is a promise that the server    *)
(* has done nothing.  Jobs that go through Conn.Raw (batches) are not run  *)
(* again.  A round trip is one step, with the outcomes of execCtx that     *)
(* module Conn allows.                                                     *)
(*                                                                         *)
(* The text of a statement is a member of Texts.  The rows a statement     *)
(* changes, the keys it generates and the other frames of a response are   *)
(* the server's (external) choice.                                         *)
(***************************************************************************)
EXTENDS Integers, Sequences, FiniteSets

CONSTANTS Conns,       \* slots of the pool
          Texts,       \* statement texts
          Ops,         \* kinds of job: "exec", "stmt", "batch", "prepbatch"
          MaxIDs,      \* bound on the statement ids of a session
          MaxEntries,  \* bound on the entries of a batch
          MaxJobs,     \* bound on the jobs
          MaxFails,    \* bound on the exchanges that fail
          MaxTries     \* attempts database/sql makes (maxBadConnRetries + 1)

ASSUME StmtsBounds ==
  /\ MaxIDs \in Nat /\ MaxEntries \in Nat /\ MaxJobs \in Nat
  /\ MaxFails \in Nat /\ MaxTries \in Nat \ {0}
  /\ Ops \subseteq {"exec", "stmt", "batch", "prepbatch"} /\ "none" \notin Texts

Ids     == 1 .. MaxIDs
Entries == 1 .. MaxEntries
NoID    == 0
NoKey   == 0

(* What a job reports: execResult, or the counts of a batch. *)
NoReport == [err |-> "none", affected |-> 0, key |-> NoKey, counts |-> <<>>]

VARIABLES
  broken,      \* connections whose conn.broken is set
  handle,      \* id of the stmt a prepared statement has on a connection
  temp,        \* id of the stmt ExecPreparedBatch prepared for itself
  job, jobs,   \* the job under way (kind, text, entries), number of jobs
  pc, cur, tries,     \* where it is, on which connection, its attempts
  told,        \* what the application was told
  prepared,    \* the server's sessions: text of each statement id
  nextID,      \* the id each session gives next
  times,       \* how often each entry of the job was run
  changed, key,       \* rows changed by its entries, first key generated
  leaked,      \* statements whose FREESTMT the server refused
  fails

driver == <<handle, temp>>
calls  == <<job, jobs>>
server == <<prepared, nextID>>
effect == <<times, changed, key>>
vars   == <<broken, handle, temp, job, jobs, pc, cur, tries, told, prepared,
            nextID, times, changed, key, leaked, fails>>

Init ==
  /\ broken = {} /\ fails = 0 /\ leaked = {}
  /\ handle = [t \in Texts |-> [c \in Conns |-> NoID]] /\ temp = NoID
  /\ job = [op |-> "none", text |-> "none", n |-> 0] /\ jobs = 0
  /\ pc = "idle" /\ cur \in Conns /\ tries = 0 /\ told = NoReport
  /\ prepared = [c \in Conns |-> [i \in Ids |-> "none"]]
  /\ nextID = [c \in Conns |-> 1]
  /\ times = [e \in Entries |-> 0] /\ changed = <<>> /\ key = NoKey

-----------------------------------------------------------------------------
(***************************************************************************)
(* Round trips.                                                            *)
(***************************************************************************)
\* Variant: an exchange that fails is reported as driver.ErrBadConn.
execCtxBadConn(c, err, reached) ==
  \/ /\ c \in broken /\ err = "badConn" /\ ~reached /\ UNCHANGED <<broken, fails>>
  \/ /\ c \notin broken
     /\ (err = "ok" /\ reached) \/ (err \in {"error", "ctxErr"} /\ ~reached)
     /\ UNCHANGED <<broken, fails>>
  \/ /\ c \notin broken /\ err = "badConn" /\ fails < MaxFails
     /\ broken' = broken \cup {c} /\ fails' = fails + 1

(* execCtx: refused on a broken connection; done; an ERROR from the server *)
(* or a context that is done already, neither of which had an effect; a    *)
(* failed exchange, whose request the server may have run (reached), and   *)
(* which a context that is done by then turns into its own error.          *)
execCtx(c, err, reached) ==
  \/ /\ c \in broken /\ err = "badConn" /\ ~reached /\ UNCHANGED <<broken, fails>>
  \/ /\ c \notin broken
     /\ (err = "ok" /\ reached) \/ (err \in {"error", "ctxErr"} /\ ~reached)
     /\ UNCHANGED <<broken, fails>>
  \/ /\ c \notin broken /\ err \in {"ioErr", "ctxErr"} /\ fails < MaxFails
     /\ broken' = broken \cup {c} /\ fails' = fails + 1

Errs == {"ok", "error", "ctxErr", "ioErr", "badConn"}

(* The driver returns: database/sql tries again, or tells the application. *)
retried == job.op \in {"exec", "stmt"}

return(report) ==
  IF report.err = "badConn" /\ retried /\ tries < MaxTries
    THEN pc' = "pick" /\ UNCHANGED told
    ELSE pc' = "idle" /\ told' = report

failed(err) == [NoReport EXCEPT !.err = err]

-----------------------------------------------------------------------------
(***************************************************************************)
(* Responses.  A frame is [mode, rows]; key k of a GENERATED frame is the  *)
(* row <<k>>.                                                              *)
(***************************************************************************)
\* Variant: any chained result is taken for the generated keys.
GeneratedKeyAnyMode(chained) ==
  LET with == {i \in 1 .. Len(chained) : chained[i].rows # <<>>}
  IN  IF with = {} THEN NoKey
      ELSE chained[CHOOSE i \in with : \A j \in with : i <= j].rows[1]

(* GeneratedKey: the first row of the first chained GENERATED result that  *)
(* has rows; keys are integers here.                                       *)
GeneratedKey(chained) ==
  LET with == {i \in 1 .. Len(chained) :
                 chained[i].mode = "generated" /\ chained[i].rows # <<>>}
  IN  IF with = {} THEN NoKey
      ELSE chained[CHOOSE i \in with : \A j \in with : i <= j].rows[1]

(* resultFromResponse: a count only from an UPDATECOUNT.                   *)
resultFromResponse(mode, count, chained) ==
  [NoReport EXCEPT !.err = "ok", !.key = GeneratedKey(chained),
                   !.affected = IF mode = "count" THEN count ELSE 0]

\* Variant: as JDBC does, entries that failed are counted as -3.
batchCountsFailed(rowSet) ==
  [NoReport EXCEPT !.err = "ok",
                   !.counts = rowSet \o [i \in 1 .. job.n - Len(rowSet) |-> -3]]

(* batchCounts: one count per row of the BATCHEXECRESPONSE.  A chained     *)
(* ERROR frame is not looked at.                                           *)
batchCounts(rowSet) == [NoReport EXCEPT !.err = "ok", !.counts = rowSet]

(* Responses of the server to a statement that changed n rows and          *)
(* generated keys from k on; 9 stands for the values of other results.     *)
Other == [mode |-> "rows", rows |-> <<9>>]
Keys(k) == [mode |-> "generated", rows |-> k]
Chains(n, k) ==
  LET keys == [i \in 1 .. n |-> k + i - 1]
  IN  {<<>>, <<Keys(keys)>>, <<Other>>, <<Other, Keys(keys)>>,
       <<Keys(<<>>), Keys(keys)>>}

-----------------------------------------------------------------------------
(***************************************************************************)
(* The application and database/sql (external).                            *)
(***************************************************************************)
Start(op, text, n) ==
  /\ pc = "idle" /\ jobs < MaxJobs
  /\ n = 1 \/ op \in {"batch", "prepbatch"}
  /\ job' = [op |-> op, text |-> text, n |-> n] /\ jobs' = jobs + 1
  /\ pc' = "pick" /\ tries' = 0 /\ told' = NoReport
  /\ times' = [e \in Entries |-> 0] /\ changed' = <<>> /\ key' = NoKey
  /\ UNCHANGED <<broken, driver, cur, server, leaked, fails>>

\* Variant: the session is reset with RESETSESSION, which clears its statements.
ResetSessionNative(c) == [prepared EXCEPT ![c] = [i \in Ids |-> "none"]]

(* ResetSession's ROLLBACK and SET AUTOCOMMIT keep the statements.  *)
ResetSession(c) == prepared

(* A connection is taken from the pool.  An error of ResetSession other    *)
(* than ErrBadConn is ignored, and the connection used all the same.       *)
Take(c) ==
  /\ pc = "pick" /\ c \notin broken
  /\ \E err \in Errs, reached \in BOOLEAN : execCtx(c, err, reached)
  /\ prepared' = ResetSession(c)
  /\ cur' = c /\ tries' = tries + 1 /\ pc' = "run"
  /\ UNCHANGED <<driver, calls, told, nextID, effect, leaked>>

(* A broken connection is not IsValid: it is closed, which ends its        *)
(* session, and the slot gets a new one.  stmt.Close on it does nothing.   *)
Replace(c) ==
  /\ pc \in {"idle", "pick"} /\ c \in broken
  /\ broken' = broken \ {c}
  /\ handle' = [t \in Texts |-> [handle[t] EXCEPT ![c] = NoID]]
  /\ prepared' = [prepared EXCEPT ![c] = [i \in Ids |-> "none"]]
  /\ nextID' = [nextID EXCEPT ![c] = 1]
  /\ leaked' = {l \in leaked : l[1] # c}
  /\ UNCHANGED <<temp, calls, pc, cur, tries, told, effect, fails>>

-----------------------------------------------------------------------------
(***************************************************************************)
(* Execution.  The server runs the first k entries of the job.             *)
(***************************************************************************)
runEntries(k, counts) ==
  /\ times' = [e \in Entries |-> IF e <= k THEN times[e] + 1 ELSE times[e]]
  /\ changed' = changed \o counts

(* One statement: ExecContext of conn and of stmt.  On success the server  *)
(* changed n rows; late is an error the driver adds to a response that     *)
(* came (applyOutParams of a CALL).                                        *)
runOne(late) ==
  \E err \in Errs, reached \in BOOLEAN, n \in 0 .. 2, mode \in {"count", "rows"} :
    /\ execCtx(cur, err, reached)
    /\ IF reached THEN runEntries(1, <<n>>) ELSE n = 0 /\ UNCHANGED <<times, changed>>
    /\ mode = "rows" => err = "ok" /\ n = 0
    /\ key' = IF reached /\ n > 0 THEN jobs ELSE key
    /\ IF err # "ok" THEN return(failed(err))
       ELSE IF late THEN return(failed("outErr"))
       ELSE \E chained \in Chains(n, jobs) :
              return(resultFromResponse(mode, n, chained))

(* conn.ExecContext without arguments: EXECDIRECT. *)
ExecDirect ==
  /\ pc = "run" /\ job.op = "exec"
  /\ runOne(FALSE)
  /\ UNCHANGED <<driver, calls, cur, tries, server, leaked>>

(* The statement the job has prepared, on the connection in use. *)
current == IF job.op = "stmt" THEN handle[job.text][cur] ELSE temp

(* PrepareContext.  A server that does not answer with an ERROR answers    *)
(* with PREPARE_ACK.                                                       *)
PrepareContext ==
  /\ pc = "run" /\ job.op \in {"stmt", "prepbatch"}
  /\ job.op = "stmt" => current = NoID
  /\ nextID[cur] \in Ids
  /\ \E err \in Errs, reached \in BOOLEAN :
       /\ execCtx(cur, err, reached)
       /\ IF reached
            THEN /\ prepared' = [prepared EXCEPT ![cur][nextID[cur]] = job.text]
                 /\ nextID' = [nextID EXCEPT ![cur] = @ + 1]
            ELSE UNCHANGED server
       /\ IF err # "ok" THEN return(failed(err)) /\ UNCHANGED driver
          ELSE /\ pc' = "execute" /\ UNCHANGED told
               /\ IF job.op = "stmt"
                    THEN handle' = [handle EXCEPT ![job.text][cur] = nextID[cur]] /\ UNCHANGED temp
                    ELSE temp' = nextID[cur] /\ UNCHANGED handle
  /\ UNCHANGED <<calls, cur, tries, effect, leaked>>

(* stmt.execute: EXECUTE of the id.                                        *)
Execute ==
  /\ pc \in {"run", "execute"} /\ job.op = "stmt" /\ current # NoID
  /\ \E late \in BOOLEAN : runOne(late)
  /\ UNCHANGED <<driver, calls, cur, tries, server, leaked>>

(* stmt.execute refuses a sql.Out it cannot bind before it sends anything. *)
ExecuteRefused ==
  /\ pc \in {"run", "execute"} /\ job.op = "stmt" /\ current # NoID
  /\ cur \notin broken
  /\ return(failed("argErr"))
  /\ UNCHANGED <<broken, driver, calls, cur, tries, server, effect, leaked, fails>>

(* The server runs a batch up to an entry that fails.  It answers with the *)
(* counts so far, the ERROR chained to them, or with the ERROR alone.      *)
runBatch(next(_)) ==
  \E err \in Errs, reached \in BOOLEAN, k \in 0 .. job.n :
    \E counts \in [1 .. k -> 0 .. 1] :
      /\ execCtx(cur, err, reached)
      /\ ~reached /\ err # "error" => k = 0
      /\ err = "error" => k < job.n
      /\ runEntries(k, counts)
      /\ key' = key
      /\ next(IF err = "ok" THEN batchCounts(counts) ELSE failed(err))

(* ExecBatch: BATCHEXECDIRECT. *)
ExecBatch ==
  /\ pc = "run" /\ job.op = "batch"
  /\ runBatch(return)
  /\ UNCHANGED <<driver, calls, cur, tries, server, leaked>>

(* The deferred s.Close() runs after the batch whatever its outcome.  *)
closeTemp(report) == told' = report /\ pc' = "close"

(* ExecPreparedBatch after its PrepareContext: BATCHEXECUTE. *)
ExecPreparedBatch ==
  /\ pc = "execute" /\ job.op = "prepbatch"
  /\ runBatch(closeTemp)
  /\ UNCHANGED <<driver, calls, cur, tries, server, leaked>>

(* The FREESTMT of stmt.Close, under a background context: closed is set   *)
(* first, so an id the server refuses to free is not tried again.          *)
freeStmt(c, id) ==
  \E err \in Errs \ {"ctxErr"}, reached \in BOOLEAN :
    /\ execCtx(c, err, reached)
    /\ prepared' = IF reached THEN [prepared EXCEPT ![c][id] = "none"] ELSE prepared
    /\ leaked' = IF err = "error" THEN leaked \cup {<<c, id>>} ELSE leaked

ExecPreparedBatchCloses ==
  /\ pc = "close"
  /\ freeStmt(cur, temp)
  /\ temp' = NoID /\ pc' = "idle"
  /\ UNCHANGED <<handle, calls, cur, tries, told, nextID, effect>>

(* The application closes a prepared statement: one stmt per connection. *)
CloseStmt(t, c) ==
  /\ pc = "idle" /\ handle[t][c] # NoID
  /\ freeStmt(c, handle[t][c])
  /\ handle' = [handle EXCEPT ![t][c] = NoID]
  /\ UNCHANGED <<temp, calls, pc, cur, tries, told, nextID, effect>>

Next ==
  \/ \E op \in Ops, t \in Texts, n \in 0 .. MaxEntries : Start(op, t, n)
  \/ \E c \in Conns : Take(c) \/ Replace(c)
  \/ \E t \in Texts, c \in Conns : CloseStmt(t, c)
  \/ ExecDirect \/ PrepareContext \/ Execute \/ ExecuteRefused
  \/ ExecBatch \/ ExecPreparedBatch \/ ExecPreparedBatchCloses

Spec == Init /\ [][Next]_vars

-----------------------------------------------------------------------------
(***************************************************************************)
(* Properties.                                                             *)
(***************************************************************************)

(* Every variable stays in its type.                                       *)
TypeOK ==
  /\ broken \subseteq Conns /\ cur \in Conns
  /\ handle \in [Texts -> [Conns -> Ids \cup {NoID}]] /\ temp \in Ids \cup {NoID}
  /\ job.op \in Ops \cup {"none"} /\ job.text \in Texts \cup {"none"}
  /\ job.n \in 0 .. MaxEntries /\ jobs \in 0 .. MaxJobs
  /\ pc \in {"idle", "pick", "run", "execute", "close"} /\ tries \in 0 .. MaxTries
  /\ told.err \in Errs \cup {"none", "argErr", "outErr"}
  /\ told.counts \in Seq(Nat)
  /\ prepared \in [Conns -> [Ids -> Texts \cup {"none"}]]
  /\ nextID \in [Conns -> 1 .. MaxIDs + 1]
  /\ times \in [Entries -> Nat] /\ changed \in Seq(Nat)
  /\ leaked \subseteq Conns \X Ids /\ fails \in 0 .. MaxFails

(* database/sql runs a job again when the driver returns ErrBadConn, and   *)
(* the job's statement is still run at most once: execCtx never returns    *)
(* ErrBadConn for a request that may have reached the server.              *)
AtMostOnce ==
  /\ \A e \in Entries : times[e] <= 1
  /\ told.err \in {"badConn", "argErr"} => \A e \in Entries : times[e] = 0

(* The sessions hold the statements the driver has open, and no others.    *)
(* An open prepared statement, and the one a prepared batch has for        *)
(* itself, is known to the session of its connection under its own text,   *)
(* through pool resets and replaced connections, so that EXECUTE never     *)
(* names nothing, or another statement; and at rest the session of a       *)
(* usable connection holds no statement that no open stmt stands for,      *)
(* except where it refused FREESTMT.                                       *)
StatementsMatch ==
  \A c \in Conns \ broken :
    /\ \A t \in Texts : handle[t][c] # NoID => prepared[c][handle[t][c]] = t
    /\ temp # NoID /\ cur = c => prepared[c][temp] = job.text
    /\ pc = "idle" =>
         \A i \in Ids : prepared[c][i] # "none" =>
           <<c, i>> \in leaked \/ \E t \in Texts : handle[t][c] = i

(* What ExecContext of conn and stmt reports is what the statement did:    *)
(* its update count, and no key but the first one it generated, whatever   *)
(* other results are chained to the response and however often             *)
(* database/sql tried.                                                     *)
ReportIsExact ==
  pc = "idle" /\ told.err = "ok" /\ job.op \in {"exec", "stmt"} =>
    /\ times[1] = 1
    /\ <<told.affected>> = changed
    /\ told.key \in {NoKey, key}

(* batch.go:10-11: "ExecBatch executes a batch [...] and returns one update *)
(* count per statement"; batch.go:34-36: ExecPreparedBatch executes the    *)
(* query "for each row of parameters [...] returning one update count per  *)
(* row".  A batch reported without an error has a count for every entry.   *)
BatchIsComplete ==
  pc = "idle" /\ told.err = "ok" /\ job.op \in {"batch", "prepbatch"} =>
    Len(told.counts) = job.n
=============================================================================
