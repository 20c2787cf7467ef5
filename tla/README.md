# A TLA+ model of go-hsql

go-hsql is a `database/sql` driver for HSQLDB written in Go.  It speaks the
HSQL binary protocol over one TCP socket per connection.  This directory holds
TLA+ modules translated from the driver's source, TLC configurations that check
them on small instances, and TLAPS proofs for every instance.

Run from this directory: `tlc -config MCConn_safety.cfg MCConn` checks one run,
`tlapm ConnProofs.tla` checks the proofs.  `PROJECT.json` lists the runs, the
source lines every definition stands for, the hazards and the findings.

## 1. Inventory of the system

| component | source | state | operations |
|---|---|---|---|
| connection | `conn.go`, `cancel.go` | `closed`, `broken`, `sessionID`, socket and its deadline, one watcher goroutine per cancellable exchange | `connect`/`handshake`, `execCtx` (`send`, `receive`), `watchCancel`, `fireCancel`, `Close`, `IsValid` |
| transactions, pool reset | `tx.go`, `savepoint.go`, `twophase.go`, `conn.go` | `autocommit`, `txAlteredSession`, server session settings | `BeginTx`, `Commit`, `Rollback`, `resetSessionCharacteristics`, savepoints, `PrepareCommit`, `ResetSession` |
| result sets | `rows.go`, `conn_query.go` | current block, position in it, absolute position, chained result sets, server cursor | `Next`/`fetchMore`, `Close`, `NextResultSet`, `rowsFromResponse` |
| updatable result sets | `updatable.go` | materialised rows, their server numbers, position, result id, statement | `QueryUpdatable`, `Next`, `Scan`, `UpdateRow`, `DeleteRow`, `InsertRow`, `Close` |
| LOB transfer | `lob.go` | reader position, offset, frames; length and offset of a fetch | `writeLobCreate*`, `readUTF16Chunk`, `fetchLob`, `lobExchange` |
| LOB parameters | `lob.go`, `array_param.go`, `stmt.go` | `lobIDSeq`, the value slice of a request | `prepareLobParams`, `nextLobID`, `ResetSession` |
| prepared statements | `stmt.go` | statement id, `closed`; the session's statements | `PrepareContext`, `execute`, `Close` |
| batches | `batch.go` | the statement of a prepared batch | `ExecBatch`, `ExecPreparedBatch` |
| callable statements | `callable.go` | the caller's destinations | `splitOutParams`, `applyOutParams`, `assignOutValue` |
| direct execution | `conn_query.go`, `result_exec.go` | count and key of a result | `ExecContext`, `QueryContext` |
| session attributes | `sessionattr.go` | none | read-only round trips |
| wire codec | `internal/proto/*` | buffers | encode and decode frames, results, values |
| arrays | `array.go`, `array_param.go` | none | format and scan |
| configuration | `dsn.go`, `props.go`, `hsql.go`, `tls_config.go` | registry of TLS configurations | parse, register |
| metadata, errors | `rows_coltype.go`, `errors.go` | none | lookups |

**How they interact.**  Everything that talks to the server goes through
`execCtx`: one request, one response up to its NONE terminator, and on any
failure of the exchange `broken = true`.  `database/sql` holds a lock on the
connection, so there is one caller at a time; it asks `IsValid` when a connection
goes back to the pool and runs `ResetSession` when it is taken out again.  The
watcher goroutine of an exchange is not covered by that lock and shares the
socket's deadline with later calls.  `fireCancel` opens a second connection, so
nothing orders the SQLCANCEL with the requests on the first.  Rows, updatable
cursors, transactions and statements keep client-side copies of what the server
holds and lose sight of it when a round trip fails.  LOB fetches
(`lobExchange`) use the same socket but no context and no watcher: to the
connection they are exchanges under a background context.

**What is hard.**  Cancellation racing the response, the deadline and the next
call; several round trips in one handler each of which may fail with or without
the connection; guesses about what the server still retains (a cursor, a
setting, a row number, a statement id, a temporary LOB id); `database/sql`'s retry of
whatever returns `ErrBadConn`; OUT values assigned in the order of a Go map; UTF-16
pairs at the ends of chunks, and encodings at the limits of their widths.
`PROJECT.json` lists these as hazards, each at its line.

**What makes each part correct.**

- connection: no caller reads another caller's response; a connection that goes
  back to the pool has an empty wire; a done context brings its caller back; no
  goroutine leaks; an aborted statement is never reported as done;
- transactions: what `Commit` and `Rollback` report is what the server did;
  settings of one transaction do not reach the next user; `ResetSession`
  discards and never commits;
- result sets: every row once and in order, and no cursor left behind;
- updatable result sets: the client's copy is the server's cursor; an update
  touches no column that none of its keys fits; nothing left behind on failure;
- statements: one call of the application runs its statement at most once; a statement
  id names the same statement for as long as the driver holds it and is released
  afterwards; counts and keys are those of the statement that ran;
- callable statements: every parameter arrives at its position, every destination
  holds the procedure's value or what it held before;
- wire codec, arrays: what is decoded is what was encoded, and what is damaged is not
  decoded;
- LOBs: what is stored is what was passed, or a prefix of it after an error; what is
  fetched is what is stored; and every parameter binds its own content.

## 2. Modules

| module | models | theorems |
|---|---|---|
| `Conn` | connection and cancellation | `ConnProofs` |
| `Session` | transactions and pool reset | `SessionProofs` |
| `ResultStream` | what `driver.Rows` promises (abstract) | |
| `Rows` | result sets; implements `ResultStream` | `RowsProofs` |
| `Updatable` | updatable cursors | `UpdatableProofs` |
| `Lob` | transfer of one LOB | `LobProofs` |
| `LobParams` | temporary ids and payloads | `LobProofs`, second part |
| `Stmts` | direct, prepared and batch execution over a pool | `StmtsProofs` |
| `Params` | parameters and OUT values of a CALL | `ParamsProofs` |
| `Arrays` | the text form of arrays (operators) | `WireProofs` |
| `Wire` | frames, results, values, `receive`; uses `Arrays` | `WireProofs` |
| `MC*` | the instances TLC runs | |

`Conn` says what one exchange is.  The other modules use its result, an operator
`execCtx` with the outcomes a handler can tell apart: `ErrBadConn` before
anything is sent, a context that was done before, success, an ERROR from the
server, and a failed exchange, after which the connection is broken and the
server may or may not have executed the request.  Each round trip is a step of
its own, because others can happen, or fail, in between.

Code outside the repository (the server, the network, `database/sql`, the owner of
a context) is marked external.  It is modelled from how the driver uses it and is
nondeterministic where the driver's code leaves its behaviour open.

### Conn

Exchanges are numbered; number 1 is CONNECT.  `pc` is the caller's place in
`execCtx`/`handshake` (`send`, `read` before the main frame, `rest` before the
terminator, `stop` for the deferred stop, `abandon` for a failed handshake).
`watch[k]` is the place of the watcher of exchange `k` (`select`, `fire`,
`expire`, `exit`), `done` the closed done channels.  `deadline` is what is set on
the socket: none, a time in the past, or the deadline of context `k`.  The wire
is two queues, `toServer` and `toClient`; a frame carries the number of the
exchange it answers, which the protocol does not: this is how the model can say
whose response was read.

Choices: `select` with both channels ready may take either arm.  `sessionID` is
read by the watcher without synchronisation, so `fireCancel` may see it unset.
Data already received can be read although the deadline has passed, or not.
Authentication and TLS are part of the dial.  `left` is the request that a failed LOB
reader leaves in `c.bw`, complete but for its LOB frames and the terminator: the
DISCONNECT that `Close` sends behind it completes it, and the server may run it.  No other
exchange can follow, because the connection is broken.  An SQLCANCEL aborts whatever the
session runs, because the request names statement 0.

### Session

`opts`, `kind` and `err` are the handler's locals; `srv` is the server's session:
autocommit, current and default isolation, the sticky flag of READ UNCOMMITTED
that the comment on `resetSessionCharacteristics` describes, read-only,
uncommitted writes, one savepoint, committed writes.  Whether a SET TRANSACTION
setting outlives its transaction, and whether switching autocommit on commits or
discards open work, is left open: both happen.  `Finish` runs under
`context.Background()`, so no `ctxErr` there.  `database/sql` discards a connection
only on `ErrBadConn` from `ResetSession`; after any other error it hands it out.

### Rows and ResultStream

Rows are their numbers.  The server sends blocks of 1 to FetchSize rows and
forgets a cursor with its last row; it may also answer with an empty block, which
`Next` takes for the end (`short`).  `ResultStream` is the promise to the caller:
rows 1, 2, 3, ... and the end only after the last one or after the server said so.
`Rows` refines it with the mapping `rest <- next`; all other variables are the
same.  A LOB of a row may fail to be fetched in any row, the first of a block that has just
arrived included (`NextLobFails`, `NextFetchedLobFails`).  `closeCurrent` with a closed connection is not a case: `database/sql` closes
rows before their connection.

### Updatable

`pos`, `rows`, `serverNums` are the fields of `UpdatableRows`; the row ids the server
gave are part of a row image.  The server echoes the image of an updated row, as
`mergeUpdatedRows` expects (the silent paths of `updatable.go:314-325`, without an echo, are
left out).  `QueryUpdatable` frees only the statement when the metadata is not that of an
updatable result (`updatable.go:79-82`): the server is assumed to retain a cursor for
updatable results only.  Updates come as Go maps, so when two keys name one column either
may win.  `want` and `may` follow what a column may hold after the updates of its row: by
the comment on `UpdateRow`, which calls the keys labels (the column of that label, or else of
that name), and by the code, where any column that the key fits may get the value.  The object is reached through `Conn.Raw`, so the connection
may be closed under it (`ConnClose`).

### Lob and LobParams

In `Lob` a text is a sequence of runes `b` (one UTF-16 unit) and `s` (two); `encode`
and `decode` are `utf16.Encode` and `Decode`.  The writer makes CREATE and SET frames,
the server applies them in order, `fetchLob` asks for the length and then for blocks
of any size up to the one asked for.  `readI32` and `readI64` drop their errors, so
an answer that ends inside its header reads as zero (`FetchLengthCut`,
`FetchBlockCut`), because the socket was lost or because a late watcher put an immediate
deadline on it (`cut`).  After such a deadline the rest of the answer is on the wire of a
connection that is not broken.  `Lob` ends there, and `Conn` knows only the exchanges of
`execCtx`: its properties do not speak of a connection on which this has happened.

A failed reader (`ReaderFails`: this parameter's or another one's) leaves frames in `c.bw`,
perhaps one that lacks bytes of its declared length.  `CloseDangling` is `conn.Close`: its
DISCONNECT and terminator complete the transmission, the server may execute it, and a frame
that lacks bytes takes them from DISCONNECT (`CloseUnits` bytes; units `d`).  After a
failure of the socket nothing more is written.  `LobParams` has the value slices and the temporary ids:
`stmt.execute` passes a copy of the caller's values, `QueryUpdatable` the slice itself.

The slice a caller gave to `QueryUpdatable` holds references when the call returns; what
happens when it is used again is the exception (`reused`) of both properties.

### Stmts

A call of the application is a job; `database/sql` takes a connection (`Take`, with
`ResetSession`), runs it, and takes another when the driver returns `ErrBadConn`, up to
`MaxTries` times.  Batches go through `Conn.Raw` and are not repeated.  `handle` is the
driver's statement per text and connection, `prepared` what each server session knows,
`temp` the statement a prepared batch made for itself.  The server counts how often each
entry of the job ran (`times`).  A failed exchange may have reached the server or not.
A batch stops at an entry that fails: the server answers with the counts before it,
the ERROR chained to them, or with the ERROR alone.  An update count comes with any of
several chains of other results and generated keys.

### Params

One prepared CALL: `ExecuteCall` (`splitOutParams`), `Send` (array check and encoding),
`CallResponse` or another outcome, and one `ApplyOut` per destination, in any order,
because `applyOutParams` ranges over a map.  A Go value is its kind and a number counted
in halves, so that truncation shows; texts stand for the number they spell.  SMALLINT and
int8 hold `-Small .. Small - 1`, INTEGER `-Wide .. Wide - 1`, BIGINT and int64
`-Long .. Long - 1`; `int16`, `int32` and the unsigned kinds behave as the ones that are
there.  A double is any number that is its own `Nearest`; `Nearest` rounds an int64, and the
integers from `-Exact` to `Exact` (2^53) are doubles.  The coercions of `types.go` are
translated kind by kind, with the zero they fall back on.  `int64(x)` of a double beyond
int64 is one of the results Go's processors give (`ToInt64`).  `asDecimal` reads a double in
the text `%v` gives it, with an exponent from 10^6 on, which `parseDecimal` takes for the
digits before it or refuses (`Printed`).

### Wire and Arrays

The stream is a sequence of bytes.  The server writes one transmission and the next
response after it; the stream may end after any byte.  `Receive` is one round of
`conn.receive`: `ReadFrame`, `DecodeResult` by the mode's `Layout`, metadata, rows and
values.  Reads are functions on the reader (what is left, the sticky error, the last
value).  Widths are parameters, so that one-byte shorts, two-byte ints and three-byte
longs meet their limits with small numbers; a day has 8 seconds (an hour 4, a minute 2), so
zones and negative times cross midnight.  Type codes that share an encoding share a name, and
doubles are the bits of a long.  What the server writes uses `WriteValue` and
`writeMetadata`, the driver's own writers, which mirror Java's; `Means` says what the
reader owes for a value that was sent, without reference to the encoding.  `Arrays` has
the text form a row delivers and the parser of `ScanArray`.

The assumption `ServerSends` says what the server may send: fields in the order of their
mode, values of their column's type, sizes and numbers that fit the integers that carry them,
metadata whose counts agree, strings of code points (a string may hold a surrogate on its
own, not a pair), intervals that are multiples of their last field.  It asks nothing of the
modes (one the driver does not know is allowed) or of the types (`geometry` stands for one it
does not know).  The reader's loops over a negative count, and `make` with one, are
thereby left out.

## 3. Runs

Passing runs.

| run | instance | what it shows |
|---|---|---|
| `conn_safety` | CONNECT and 2 calls, contexts with and without a deadline | `NoCrossTalk`, `ValidIsAligned`, `OneExchange`, `AbortIsReported`, `NoInheritedDeadline` |
| `conn_live` | CONNECT and 1 call, all kinds of context, one chained frame | `CancelUnblocks`, `WatchersExit` |
| `session_tx` | 2 transactions, 2 writes, 2 failing round trips, levels default, RU, SERIALIZABLE and an unsupported one | `CommitHonoured`, `RollbackHonoured`, `AlteredIsFlagged`, `FinishRestores`, `ResetRestores`, `ResetNeverCommits` |
| `updatable_cursor` | up to 3 rows, 2 writes, `SELECT a AS x, b AS a` | `CopyMatchesCursor`, `AheadIsUnseen`, `NamedColumnsOnly`, `NothingLeaks` |
| `stmts_jobs` | 2 connections, 2 texts, 3 jobs of any kind, batches of up to 2, 2 failing exchanges, 3 attempts | `AtMostOnce`, `StatementsMatch`, `ReportIsExact` |
| `value_paths` | CALLs: 2 parameters, 2 variables, every type class, kind and argument at the first | `OutsAreExact`, `InputsArrive` |
| | LOB parameters: 2 connections, 2 parameters, 2 ids, 1 failed exchange, both paths | `BindsOwnPayload`, `PayloadTravels` |
| | LOBs: contents of up to 4 runes, chunks of 3 units | `StoredIsSent`, `FramesAreText`, `FetchIsFaithful` |
| | results: 3 frames, result sets of 0, 1 or 3 rows, blocks of 2 | `CursorsHeldAsNeeded`, `ImplementsResultStream` |
| `wire_receive` | every mode, every type with its limits, every cut of the stream | `DecodesWhatWasSent`, `ArraysAreLossless` |

Each passing safety run also checks the type invariants of its modules.

`value_paths` runs four components that share no state, one in each behaviour: `turn` in
`MCValues` says which, and the other three stay in one of their initial states.  Its state
space is the sum of theirs, not their product.

Runs that end in a violation compare the code with what a comment says of it (section 8):
`conn_deadline`, `session_handout`, `updatable_labels`, `stmts_batch`, `params_inout`.

**Bounds.**  A watcher that outlives its call, a late SQLCANCEL and a late response
need the call they come from and one after it: two calls besides CONNECT are enough,
and `ConnProofs` removes the bound for the safety properties, as the other proofs do for
theirs.  A context with a
deadline can also be cancelled earlier, so `timeout` covers `cancel` in
`conn_safety`.  Two failing round trips reach every pair of failures inside one
`finish`, and a failed `BeginTx` followed by a failed reset.  Two blocks and a rest
need 3 rows with blocks of 2; chained result sets need a first, a middle and a last
one.  Deletes before, at and after the current row need 3 rows.  Four runes with chunks of
3 units put a pair at every place of a chunk and give chunks of 2 units in
between.  Two ids are what one execution with two LOBs uses up: ids run on after an
execution with one LOB and, after `ResetSession`, each of them is used again.  Two failing exchanges break both connections of a pool, so
that a job meets one that is new, one that is reset and one that is replaced; three jobs
prepare on both, and use and close what was prepared.  Two destinations and one variable
are enough for every order and every sharing; among the numbers are one beyond SMALLINT, one
beyond INTEGER, an int64 that is no double, a double beyond int64, one that prints with an
exponent and a negative fraction.  One value beside a string shows a misread length, and every
encoding has values at both ends of its range.

**Deadlock.**  All runs switch the check off, because the system does stop: a closed
or broken connection takes no step, a closed result set neither, and a call under
a background context hangs when the server never answers.

**Symmetry** is not used: exchanges and writes are numbered, and the other sets are too small
for it to matter.

## 4. Fairness

Only `conn_live` assumes any.  Weak fairness of the caller inside an exchange: it is
ordinary code that runs on whenever the socket lets it; the deferred stop always runs.
Weak fairness of each watcher: the Go scheduler runs every goroutine, and
`fireCancel` is bounded by `cancelTimeout`.  Nothing is assumed of the server, the
network, the clock or the owners of contexts: `CancelUnblocks` holds although the
server may never answer.

## 5. What is proved: Conn

`ConnProofs` proves for every number of exchanges, every length of a response and
every mix of contexts (assumption `ConnBounds`):

| theorem | property |
|---|---|
| `TypeCorrect` | `TypeOK` |
| `WireHoldsOneExchange` | `OneExchange` |
| `NeverCrossTalks` | `NoCrossTalk` |
| `ValidStaysAligned` | `ValidIsAligned` |
| `DeadlinesNotInherited` | `NoInheritedDeadline` |
| `AbortsAreReported` | `AbortIsReported` |

*The wire.*  `NoCrossTalk` and `ValidIsAligned` are not inductive: neither says what
may be on the wire while an exchange runs.  `OneExchange` does.  At rest the wire of
a valid connection is quiet; from `send` to the terminator exactly one of the
request under way, the server at work and the response under way stands for the
exchange; a response is open until its terminator.  The inductive invariant is
`Inv == TypeOK /\ OneExchange /\ NoCrossTalk`.  The argument turns on two steps: a
failed exchange sets `broken`, after which nothing is claimed of the wire and no call
starts; and `ReceiveEnd` takes the terminator, the last frame of the exchange, so the
wire is quiet when the connection becomes idle.

*Deadlines.*  `OwnDeadline` is what a deadline on the socket of a usable connection
implies about its context; with `Inv` it is inductive and implies `NoInheritedDeadline`.

*Aborts.*  `AbortIsReported` needs to know that an aborted statement answers with
ERROR and with nothing else: `AbortInv` (`OpenWork`: work under way was not reported
yet, nor was a request that is left in `c.bw`; `AbortsOnWire`: the head frame of an aborted exchange, on the wire or already in
`res`, is ERROR) is inductive with `Inv`.

## 6. What is proved: Session

`SessionProofs` proves for every number of transactions, writes and failing round
trips (assumption `SessionBounds`):

| theorem | property |
|---|---|
| `SessionTypeCorrect` | `TypeOK` |
| `AlteredStaysFlagged` | `AlteredIsFlagged` |
| `FinishAlwaysRestores` | `FinishRestores` |
| `ResetAlwaysRestores` | `ResetRestores` |
| `ResetCommitsNothing` | `ResetNeverCommits` |
| `CommitIsExact` | `CommitHonoured` |
| `RollbackIsFinal` | `RollbackHonoured` |

*Requests.*  The first lemmas say, field by field, what each request may make of a
session, and `RoundTrip` says what `execCtx` adds: only a successful round trip
changes the session of a connection that stays usable.  Everything else uses these.

*Settings.*  `AlteredIsFlagged` speaks of a connection at rest, so it is not inductive:
`resetSessionCharacteristics` clears the flag first and repairs afterwards.
`SettingsInv` says what is known between its three requests: the default level is
SERIALIZABLE after the first, so the second does change it, and that clears the sticky
flag.  If one of them failed, `ResetEnd` breaks the connection and nothing is claimed.

*Restoring.*  `RestoreInv` carries autocommit at both ends and the absence of open work
from `FinishRestore` through the repair to the return, and from the ROLLBACK of
`ResetSession` to its SET AUTOCOMMIT.  The latter is why that request commits nothing.

*Results.*  `TxInv` says which transaction is open and that each is told its result
once.  `WriteInv` follows a write: while its transaction is open it is open on the
server exactly if it was acknowledged and not undone (`OpenWrites`); after a successful
`endTran` it is durable exactly if it was (`EndedWrites`), and no work is open, so
restoring autocommit can commit nothing; and no write of a finished transaction is ever
open again (`Settled`), so no later commit changes the outcome.

## 7. What is proved: the other components

All theorems have the form `Spec => []P`, for every value of the constants that the named
assumption of the module allows; `Invariance` or `AlwaysInv` proves the inductive invariant
`Inv`, with one lemma per action.  The specifications are `Spec`, but for `LobSpec`,
`BindSpec` (`LobParams`) and `CallSpec` (`Params`): modules that one module extends share no
names.

| module | assumption | theorems (property) |
|---|---|---|
| `RowsProofs` | `RowsBounds` | `RowsTypeCorrect` (`TypeOK`), `CursorsAreHeldAsNeeded` (`CursorsHeldAsNeeded`), `RowsImplementsResultStream` (`ImplementsResultStream`) |
| `StmtsProofs` | `StmtsBounds` | `StmtsTypeCorrect` (`TypeOK`), `JobsRunAtMostOnce` (`AtMostOnce`), `SessionsMatchDriver` (`StatementsMatch`), `ReportsAreExact` (`ReportIsExact`) |
| `LobProofs` | `LobBounds` | `LobTypeCorrect` (`LobTypeOK`), `ContentIsStored` (`StoredIsSent`), `ChunksAreText` (`FramesAreText`), `FetchedIsStored` (`FetchIsFaithful`) |
| `LobProofs` | `LobParamsBounds` | `LobParamsTypeCorrect` (`BindTypeOK`), `ContentsAreBound` (`BindsOwnPayload`), `PayloadsTravelWithIds` (`PayloadTravels`) |
| `WireProofs` | `WireBounds`, `ServerSends` | `WireTypes` (`TypeOK`), `WireDecodes` (`DecodesWhatWasSent`), `WireArrays` (`ArraysAreLossless`) |
| `ParamsProofs` | `ParamsBounds`, `DoublesRound`, `CallsAreArguments` | `ParamsTypeCorrect` (`CallTypeOK`), `DestinationsAreExact` (`OutsAreExact`), `ArgumentsArrive` (`InputsArrive`) |
| `UpdatableProofs` | `UpdatableBounds` | `UpdatableTypeCorrect` (`TypeOK`), `CopyIsTheCursor` (`CopyMatchesCursor`), `NextSkipsNothing` (`AheadIsUnseen`), `CursorsAreReleased` (`NothingLeaks`), `UpdatesStayInColumns` (`NamedColumnsOnly`) |

**Induction over data.**  The library's induction theorems take an operator as a parameter,
which the provers cannot instantiate.  `LeastNat` avoids it: a set of natural numbers that
is not empty has a least element (from the library's `WFMin`), so a claim that fails for some
number fails for a least one.  A recursive function is first shown to exist (some table
satisfies its equation for every length), and then its equation is used.  This is how
`rowsUpTo` in `Rows`, `encode`, `decode` and `stored` in `Lob`, and the loops and scans of
`Wire` and `Arrays` are handled.

**Rows.**  `Inv` relates the client's position to the cursor: what is left after the rows in
memory is on the server exactly if the cursor is open and the end was not announced.
`RowsUpToCollects` shows that the loop of `rowsFromResponse` yields every result set of the
response, in order.  The refinement maps each step of `Rows` to a step of `ResultStream`; with
an empty block the abstract stream ends early (`short`), which is the only way it does.

**Stmts.**  `AtMostOnce` needs to know that a job that is tried again has not reached the
server: `UnrunOK` says that before a request of the job is sent none of its entries ran, and
that a job which is to be repeated is in that state.  `IdsOK` and `SessionsOK` relate the
driver's handles, the temporary statement of a batch and the sessions, connection by
connection: ids are given once per session, so an id held by the driver is never another
statement's.  `ReportOK` says that what a job is about to report is the tally of its run; a
batch is left out of `ReportIsExact`, because what it reports is not complete (section 8).

**Lob.**  `encode` distributes over concatenation (`EncodeConcat`), is the identity on bytes
(`EncodeBytes`), and `decode(encode(t)) = t` for every text (`DecodeEncode`).  The writer's
invariant is that the frames written so far, applied by the server, leave the encoding of
the runes read so far, and that `off` is its length: a SET at the end of a LOB appends
(`SetAppends`).  Each frame holds the encoding of a text, so it holds no half pair; a chunk
holds at least one rune because two units fit.  On the way back, what was received is
always a prefix of the content as long as `pos`, and an empty block inside the LOB means that it
was shortened or the answer cut off.  A failed reader leaves frames that hold the encoding of a
prefix, or one frame that lacks bytes; what `Close` has the server store is then that prefix, or
the prefix and bytes of DISCONNECT (`CloseDanglingInv`).

**LobParams.**  Ids given within one execution differ (a counting argument over the positions
that hold LOBs), and the payloads sent with a request overwrite what a session still had
under the same ids.  `ArgsOK` says that a slice `QueryUpdatable` has not rewritten holds what
the caller meant.

**Params.**  The conversion lemmas say that `Wrap` keeps the low bits of a number and the number
itself within its width (`WrapFacts`, from division with remainder), hence what `coerced` makes
of each value in each column (`CoercedArrives`), and that what `assignOutValue` accepts fits the
destination and shows the value (`AssignExact`).  Nothing is assumed of the numbers: `Arrives`
and `Holds` say what becomes of those beyond int64, beyond 2^53 and beyond the column.
`StoredOK` is the loop invariant of `applyOutParams` for any order: a variable that changed, or
that is the destination of a position already applied, holds the value of such a position.

**Updatable.**  `CopyMatchesCursor` and `AheadIsUnseen` are inductive together with the
places of the control (`FlowOK`, `HeldOK`): a delete removes one element of the copy and of
the server's live rows alike, and steps back by one.  `UpdatesStayInColumns` has no hypothesis
about labels and names: whichever column `columnIndex` finds first, the key fits it
(`SettingFits`, from the least column that the key fits), and a column that shares no key with
another one is the first for each of its keys.
`UpdatableBounds` assumes that the mark for a column that is not updated
is none of the values, as the code keeps it apart from them.

**Wire.**  At every level of the codec the lemma has the same shape: a reader, given what the
writer of that level wrote and any bytes after it, returns the Go value of what was written
and leaves exactly those bytes.  It is shown for integers of any width (`GetNum` inverts
`PutNum` for what fits), strings (every code point is read back by the scan of
`decodeModifiedUTF8`, because the bytes after a rune are never taken for a part of it; a high
surrogate on its own is safe because no low one follows), scalars, arrays, rows, types, columns,
the six kinds of metadata, fields and frames.  A loop whose items are read one after the other
is read as a whole; a loop one of whose items fails leaves the sticky error, after which every
read returns its zero value: this is why a value of an unknown type fails its frame and only
that.  `Means` is then shown of every Go value: times by division with remainder, intervals by
the fields' sums.  `ReceiveInv`, the inductive invariant, says that the results are those of
the first frames and the stream is what is left of the bytes of the others, up to the cut:
`ReadFrame` takes a whole frame or fails, so a response that is cut is never decoded.

**Arrays.**  `encodeArrayText` prints each element so that the scan of `parseArrayElements`
finds its end: a quoted string has no quote that is not escaped, a number or hexadecimal text no
comma.  Decimal and hexadecimal digits are read back as the number or the bytes.  The exception,
empty bytes at the end, is a hypothesis of `ArrayRestored` because there the text ends with a
comma.  With `ReceiveInv` the arrays of every row that arrived are restored.

**Only model-checked.**  Liveness (`CancelUnblocks`, `WatchersExit`): fairness and ENABLED
are out of the prover's reach.  Every invariant and every other action property that a passing
run checks is proved.  The runs of section 8 that end in a violation are claims that do not
hold.

## 8. Where code and documentation disagree

Each of these is a run that TLC ends with a counterexample; `PROJECT.json` quotes the
sentence that is contradicted.

- `conn_deadline`: the stop function of `watchCancel` does not wait for the watcher, so
  an immediate deadline may be put on a connection that is already back in the pool.
- `session_handout`: a `BeginTx` that fails half-way leaves a session read-only or at the
  wrong isolation, and the pool hands it out.
- `updatable_labels`: with `SELECT a AS x, b AS a` the update of label `a` writes the column
  labelled `x`, whose name is `a`.
- `stmts_batch`: an entry of a batch fails, the ERROR chained to the counts is not looked at,
  and the caller gets fewer counts than entries, and no error.
- `params_inout`: an INOUT `int8` or `int16` passes `checkOutInputValue` and reaches an integer
  parameter as 0.

The models also show behaviour no run is kept for; where a property is concerned it names
the exception.

- `rows.go:166`: CLOSE_RESULT is sent by the client's position, so also for a cursor the
  server dropped with the last block; the comment at 152-155 says it would not be.
- `conn.go:281`: after a failed LOB reader `Close` completes the request that the caller was
  told had failed; the server may execute it with a truncated LOB (`Truncated`, `FilledUp` in
  `StoredIsSent`).
- `lob.go:420`: `readI32` and `readI64` drop errors, so a connection lost, or a deadline that
  passes, inside the header of a LOB answer reads as an empty or shortened LOB, without an error
  (`cut` in `FetchIsFaithful`); after the deadline the connection stays in use with the rest of
  the answer on its wire.
- `updatable.go:69`: `QueryUpdatable` rewrites its caller's arguments; using them again
  binds ids without their payloads (`reused` in `PayloadTravels`).
- A LOB or an ARRAY in a prepared batch is not converted (`array_param.go:38`), and fails in
  the encoder.
- `callable.go:203`: a DOUBLE beyond int64, or NaN, leaves another number in an `int64` or
  `int` destination, without an error; a BIGINT beyond 2^53 is rounded in a `float64`
  (`BeyondInt64`, `BeyondDoubles` in `Holds`).
- `types.go:404-444`: a string for an INTEGER parameter arrives as 0, a number too large for
  the parameter is cut to its width, and an int64 beyond 2^53 is rounded in a DOUBLE (`Arrives`).
- `types.go:475`: `asDecimal` reads a `float64` in the text of `%v`: from 10^6 on, where that has
  an exponent, it takes the digits before the exponent or refuses the value (`Printed` in
  `Arrives`).
- `array.go:133`: an empty binary element at the end of an array has an empty text and is
  not parsed back.  `ScanArray` into a narrow integer kind wraps without an error.
- `rowout.go:120`: the two's complement of -128 (-32768, ...) is a byte longer than Java's,
  not "minimal-length"; it decodes to the same number.
- `types.go:342`: an INTERVAL SECOND of 60 seconds or more prints only the seconds beyond
  the minute (`lost` in `IntervalMeans`).
- `stmt.go:85`: `ExecContext` of a query whose result has more than one block never closes
  the server's cursor.
- A value that cannot be encoded is found after the exchange has begun, and costs the
  connection (`conn.go:203`), although nothing was sent.
- An SQLCANCEL that arrives late may abort the next statement; after a refused restore the
  `autocommit` field is false outside a transaction; the declared length of a CLOB reader is
  not used.

## 9. What is not modelled

- Session attributes (`sessionattr.go`): three read-only round trips that change nothing;
  the layout of their answers is in `Wire`.
- The field lists of requests (`EncodePayload`): nothing in the repository reads them
  back, so a model would compare a list with its own copy.  The values and metadata
  inside them are in `Wire` and `Params`.
- The text of decimals, and the separators and padding of intervals (their fields are in
  `Wire`): string formatting.
- Nested arrays, `[]any` destinations, and array elements that print and parse with the Go
  library (floats, booleans, times).
- `sql.Scanner` destinations of OUT parameters (the caller's code) and LOBs in OUT
  parameters (`fetchLob` is in `Lob`).
- Corrupted bytes: TCP loses a suffix of a stream, it does not change one.
- Column metadata (`rows_coltype.go`), errors, configuration, TLS: lookups, parsing once.
- SQL text, error wording and logging are abstracted away everywhere.

## 10. Plan

Done: all modules of section 2, and the proofs of their invariants and of the refinement.

What is left: a refinement that shows `Conn` to implement the `execCtx` of `Session` and `Stmts`,
which those modules now take as the outcomes section 2 lists; the LOB exchanges in `Conn`, with
the answers that a deadline leaves half read; nested arrays.
