----------------------------- MODULE StmtsProofs ----------------------------
(***************************************************************************)
(* Proofs about Stmts, for every pool, every number of jobs and every      *)
(* number of failing exchanges: a job runs at most once although it may be *)
(* tried again, the sessions hold the statements the driver has open, and  *)
(* what the application is told is what its statements did.                *)
(***************************************************************************)
EXTENDS Stmts, TLAPS

-----------------------------------------------------------------------------
(***************************************************************************)
(* The inductive invariant.                                                *)
(***************************************************************************)
Waiting == {"pick", "run", "execute"}

(* What is known of the job at each point. *)
JobOK ==
  /\ pc = "pick" => tries < MaxTries
  /\ job.op \in {"exec", "stmt"} => job.n = 1
  /\ job.op # "none" => job.text \in Texts
  /\ pc # "idle" => job.op # "none"
  /\ pc = "execute" => job.op \in {"stmt", "prepbatch"}
  /\ pc = "close" => job.op = "prepbatch"
  /\ temp # NoID <=> pc \in {"execute", "close"} /\ job.op = "prepbatch"

(* A job that has not been executed, or is tried again, has had no effect. *)
UnrunOK ==
  pc \in Waiting => changed = <<>> /\ key = NoKey /\ \A e \in Entries : times[e] = 0

(* ReportIsExact, from the moment the report exists. *)
ReportOK ==
  pc \in {"idle", "close"} /\ told.err = "ok" /\ job.op \in {"exec", "stmt"} =>
    /\ times[1] = 1
    /\ <<told.affected>> = changed
    /\ told.key \in {NoKey, key}

(* Ids are given out once: those in use lie below the next one, and the    *)
(* statement of a prepared batch is no one else's.                         *)
IdsOK ==
  /\ \A t \in Texts, c \in Conns : handle[t][c] < nextID[c]
  /\ \A c \in Conns, i \in Ids : prepared[c][i] # "none" => i < nextID[c]
  /\ temp < nextID[cur]
  /\ temp # NoID => \A t \in Texts : handle[t][cur] # temp

(* StatementsMatch, at rest and in between. *)
Known(c) ==
  /\ \A t \in Texts : handle[t][c] # NoID => prepared[c][handle[t][c]] = t
  /\ temp # NoID /\ cur = c => prepared[c][temp] = job.text

NoStray(c) ==
  \A i \in Ids : prepared[c][i] # "none" =>
    \/ <<c, i>> \in leaked
    \/ \E t \in Texts : handle[t][c] = i
    \/ cur = c /\ temp = i

SessionsOK == \A c \in Conns \ broken : Known(c) /\ NoStray(c)

Inv == TypeOK /\ JobOK /\ UnrunOK /\ AtMostOnce /\ ReportOK /\ IdsOK /\ SessionsOK

LEMMA InvImplies == Inv => StatementsMatch /\ ReportIsExact
<1> SUFFICES ASSUME Inv PROVE StatementsMatch /\ ReportIsExact
  OBVIOUS
<1>1. ReportIsExact
  BY DEF Inv, ReportOK, ReportIsExact
<1>2. pc = "idle" => temp = NoID
  BY DEF Inv, JobOK
<1>3. NoID \notin Ids
  BY StmtsBounds DEF NoID, Ids
<1>4. StatementsMatch
  BY <1>2, <1>3 DEF Inv, SessionsOK, Known, NoStray, StatementsMatch
<1> QED BY <1>1, <1>4

-----------------------------------------------------------------------------
(***************************************************************************)
(* Round trips, reports and responses.                                     *)
(***************************************************************************)
(* execCtx breaks at most its own connection.  ErrBadConn means that the   *)
(* request was not sent; success, that it was run; and after anything else *)
(* the server has done nothing or the connection is broken.                *)
LEMMA ExecFacts ==
  ASSUME TypeOK, NEW c \in Conns, NEW err \in Errs, NEW reached \in BOOLEAN,
         execCtx(c, err, reached)
  PROVE  /\ broken' \subseteq Conns /\ fails' \in 0 .. MaxFails
         /\ broken \subseteq broken' /\ broken' \subseteq broken \cup {c}
         /\ err = "ok" => reached /\ c \notin broken
         /\ err \in {"badConn", "error"} => ~reached
         /\ c \notin broken' => (reached <=> err = "ok")
         /\ err = "badConn" => c \in broken
<1>0. broken \subseteq Conns /\ fails \in 0 .. MaxFails /\ MaxFails \in Nat
  BY StmtsBounds DEF TypeOK
<1> QED BY <1>0 DEF execCtx, Errs

LEMMA ReportFacts ==
  /\ \A err : failed(err).err = err /\ failed(err).counts = <<>>
  /\ \A counts : batchCounts(counts).err = "ok" /\ batchCounts(counts).counts = counts
  /\ \A mode, n, chained :
       LET r == resultFromResponse(mode, n, chained)
       IN  /\ r.err = "ok" /\ r.counts = <<>> /\ r.key = GeneratedKey(chained)
           /\ r.affected = IF mode = "count" THEN n ELSE 0
  BY DEF failed, batchCounts, resultFromResponse, NoReport

(* The key taken from a response is the first one the statement generated, *)
(* whatever else is chained.                                               *)
LEMMA KeyFacts ==
  ASSUME NEW n \in 0 .. 2, NEW k \in Nat, NEW chained \in Chains(n, k)
  PROVE  GeneratedKey(chained) = NoKey \/ (n > 0 /\ GeneratedKey(chained) = k)
<1> DEFINE keys == [i \in 1 .. n |-> k + i - 1]
           with == {i \in 1 .. Len(chained) :
                      chained[i].mode = "generated" /\ chained[i].rows # <<>>}
           hit == CHOOSE i \in with : \A j \in with : i <= j
<1>1. keys \in Seq(Nat) /\ Len(keys) = n /\ (n > 0 => keys[1] = k)
  OBVIOUS
<1>2. keys # <<>> <=> n > 0
  BY <1>1
<1> HIDE DEF keys
<1>3. GeneratedKey(chained) = IF with = {} THEN NoKey ELSE chained[hit].rows[1]
  BY DEF GeneratedKey
<1>4. \/ with = {}
      \/ n > 0 /\ \E m : with = {m} /\ m \in Int /\ chained[m].rows = keys
  <2>1. CASE chained = <<>>
    BY <2>1
  <2>2. CASE chained = <<Keys(keys)>>
    <3>1. Len(chained) = 1 /\ chained[1].mode = "generated" /\ chained[1].rows = keys
      BY <2>2 DEF Keys
    <3>2. with = IF n > 0 THEN {1} ELSE {}
      BY <1>2, <3>1
    <3> QED BY <3>1, <3>2
  <2>3. CASE chained = <<Other>>
    <3>1. Len(chained) = 1 /\ chained[1].mode = "rows"
      BY <2>3 DEF Other
    <3> QED BY <3>1
  <2>4. CASE chained = <<Other, Keys(keys)>>
    <3>1. /\ Len(chained) = 2 /\ chained[1].mode = "rows"
          /\ chained[2].mode = "generated" /\ chained[2].rows = keys
      BY <2>4 DEF Keys, Other
    <3>2. with = IF n > 0 THEN {2} ELSE {}
      BY <1>2, <3>1
    <3> QED BY <3>1, <3>2
  <2>5. CASE chained = <<Keys(<<>>), Keys(keys)>>
    <3>1. /\ Len(chained) = 2 /\ chained[1].rows = <<>>
          /\ chained[2].mode = "generated" /\ chained[2].rows = keys
      BY <2>5 DEF Keys
    <3>2. with = IF n > 0 THEN {2} ELSE {}
      BY <1>2, <3>1
    <3> QED BY <3>1, <3>2
  <2> QED BY <2>1, <2>2, <2>3, <2>4, <2>5 DEF Chains, keys
<1> HIDE DEF with
<1>5. ASSUME NEW m, with = {m}, m \in Int PROVE hit = m
  BY <1>5
<1> HIDE DEF hit
<1> QED BY <1>1, <1>3, <1>4, <1>5

(* How a job goes on after the driver returns.                             *)
LEMMA ReturnFacts ==
  ASSUME NEW r, return(r)
  PROVE  \/ pc' = "pick" /\ told' = told /\ r.err = "badConn" /\ retried /\ tries < MaxTries
         \/ pc' = "idle" /\ told' = r
  BY DEF return

-----------------------------------------------------------------------------
(***************************************************************************)
(* What the executions of a job have in common: the sessions keep their    *)
(* statements, and connections only break.                                 *)
(***************************************************************************)
LEMMA SessionsKept ==
  ASSUME IdsOK, SessionsOK, UNCHANGED <<driver, calls, cur, server, leaked>>,
         broken \subseteq broken'
  PROVE  IdsOK' /\ SessionsOK'
<1>1. UNCHANGED <<handle, temp, job, cur, prepared, nextID, leaked>>
  BY DEF driver, calls, server
<1>2. IdsOK'
  BY <1>1 DEF IdsOK
<1>3. SessionsOK'
  BY <1>1 DEF SessionsOK, Known, NoStray
<1> QED BY <1>2, <1>3

(* The ids and the connections are no one's NoID. *)
LEMMA IdFacts == NoID \notin Ids /\ Ids \subseteq Nat /\ NoID = 0
  BY StmtsBounds DEF NoID, Ids

LEMMA HandleIsNat ==
  ASSUME TypeOK, NEW t \in Texts, NEW c \in Conns
  PROVE  handle[t][c] \in Nat
<1>1. handle[t][c] \in Ids \cup {NoID}
  BY DEF TypeOK
<1>2. NoID \in Nat
  BY DEF NoID
<1> QED BY <1>1, <1>2, IdFacts, Zenon

LEMMA InitInv == Init => Inv
<1> SUFFICES ASSUME Init PROVE Inv
  OBVIOUS
<1>0. MaxTries \in Nat \ {0} /\ MaxIDs \in Nat /\ MaxEntries \in Nat /\ MaxJobs \in Nat /\ MaxFails \in Nat
  BY StmtsBounds
<1>1. TypeOK
  <2>1. /\ job.op = "none" /\ job.text = "none" /\ job.n = 0
        /\ told.err = "none" /\ told.counts = <<>>
    BY DEF Init, NoReport
  <2>2. <<>> \in Seq(Nat) /\ 0 \in 0 .. MaxEntries /\ 0 \in 0 .. MaxJobs
        /\ 0 \in 0 .. MaxTries /\ 0 \in 0 .. MaxFails /\ 1 \in 1 .. MaxIDs + 1
    BY <1>0
  <2>3. /\ handle \in [Texts -> [Conns -> Ids \cup {NoID}]]
        /\ prepared \in [Conns -> [Ids -> Texts \cup {"none"}]]
        /\ nextID \in [Conns -> 1 .. MaxIDs + 1] /\ times \in [Entries -> Nat]
    BY <2>2 DEF Init
  <2> QED BY <2>1, <2>2, <2>3, Zenon DEF Init, TypeOK
<1>2. JobOK
  BY <1>0 DEF Init, JobOK
<1>3. UnrunOK /\ ReportOK
  BY DEF Init, UnrunOK, ReportOK, Waiting, NoReport
<1>4. AtMostOnce
  BY DEF Init, AtMostOnce, NoReport
<1>5. IdsOK
  BY DEF Init, IdsOK, NoID
<1>6. SessionsOK
  BY DEF Init, SessionsOK, Known, NoStray
<1> QED BY <1>1, <1>2, <1>3, <1>4, <1>5, <1>6 DEF Inv

LEMMA StartInv ==
  ASSUME Inv, NEW op \in Ops, NEW t \in Texts, NEW n \in 0 .. MaxEntries, Start(op, t, n)
  PROVE  Inv'
<1>0. MaxTries \in Nat \ {0} /\ MaxEntries \in Nat /\ MaxJobs \in Nat
  BY StmtsBounds
<1>a. /\ job'.op = op /\ job'.text = t /\ job'.n = n
      /\ told'.err = "none" /\ told'.counts = <<>>
      /\ pc = "idle" /\ pc' = "pick" /\ tries' = 0
  BY DEF Start, NoReport
<1>b. UNCHANGED <<broken, handle, temp, cur, prepared, nextID, leaked, fails>>
  BY DEF Start, driver, server
<1>c. op \in {"exec", "stmt", "batch", "prepbatch"} /\ op # "none"
  BY StmtsBounds
<1>d. temp = NoID
  BY <1>a DEF Inv, JobOK
<1>1. TypeOK'
  <2>1. jobs' \in 0 .. MaxJobs
    BY <1>0 DEF Start, Inv, TypeOK
  <2>2. <<>> \in Seq(Nat) /\ 0 \in 0 .. MaxTries
    BY <1>0
  <2>3. times' \in [Entries -> Nat] /\ changed' = <<>>
    BY DEF Start
  <2> QED BY <1>a, <1>b, <2>1, <2>2, <2>3, Zenon DEF Inv, TypeOK
<1>2. JobOK'
  <2>1. op \in {"exec", "stmt"} => n = 1
    BY DEF Start
  <2> QED BY <1>0, <1>a, <1>b, <1>c, <1>d, <2>1 DEF JobOK
<1>3. UnrunOK' /\ ReportOK' /\ AtMostOnce'
  BY <1>a DEF Start, UnrunOK, ReportOK, AtMostOnce, NoReport
<1>4. IdsOK'
  BY <1>b DEF Inv, IdsOK
<1>5. SessionsOK'
  BY <1>b, <1>d DEF Inv, SessionsOK, Known, NoStray
<1> QED BY <1>1, <1>2, <1>3, <1>4, <1>5 DEF Inv

LEMMA TakeInv ==
  ASSUME Inv, NEW c \in Conns, Take(c)
  PROVE  Inv'
<1>0. MaxTries \in Nat \ {0}
  BY StmtsBounds
<1>a. /\ pc = "pick" /\ pc' = "run" /\ cur' = c /\ tries' = tries + 1
      /\ UNCHANGED <<handle, temp, job, jobs, told, prepared, nextID, times, changed, key, leaked>>
  BY DEF Take, driver, calls, effect, ResetSession
<1>b. broken' \subseteq Conns /\ fails' \in 0 .. MaxFails /\ broken \subseteq broken'
  BY ExecFacts DEF Take, Inv
<1>c. temp = NoID
  BY <1>a DEF Inv, JobOK
<1>1. TypeOK'
  <2>1. tries' \in 0 .. MaxTries
    BY <1>0, <1>a DEF Inv, TypeOK, JobOK
  <2> QED BY <1>a, <1>b, <2>1, Zenon DEF Inv, TypeOK
<1>2. JobOK'
  BY <1>a, <1>c DEF Inv, JobOK
<1>3. UnrunOK' /\ AtMostOnce' /\ ReportOK'
  BY <1>a DEF Inv, UnrunOK, ReportOK, AtMostOnce, Waiting
<1>4. IdsOK'
  BY <1>a, <1>c DEF Inv, IdsOK, TypeOK, NoID
<1>5. SessionsOK'
  BY <1>a, <1>b, <1>c, IdFacts DEF Inv, SessionsOK, Known, NoStray
<1> QED BY <1>1, <1>2, <1>3, <1>4, <1>5 DEF Inv

LEMMA ReplaceInv ==
  ASSUME Inv, NEW c \in Conns, Replace(c)
  PROVE  Inv'
<1>0. MaxIDs \in Nat
  BY StmtsBounds
<1>a. /\ pc \in {"idle", "pick"}
      /\ UNCHANGED <<temp, job, jobs, pc, cur, tries, told, times, changed, key, fails>>
  BY DEF Replace, calls, effect
<1>b. temp = NoID
  BY <1>a DEF Inv, JobOK
<1>c. /\ handle' \in [Texts -> [Conns -> Ids \cup {NoID}]]
      /\ \A t \in Texts, d \in Conns : handle'[t][d] = IF d = c THEN NoID ELSE handle[t][d]
  BY DEF Replace, Inv, TypeOK
<1>d. /\ prepared' \in [Conns -> [Ids -> Texts \cup {"none"}]]
      /\ \A d \in Conns, i \in Ids : prepared'[d][i] = IF d = c THEN "none" ELSE prepared[d][i]
  BY DEF Replace, Inv, TypeOK
<1>e. /\ nextID' \in [Conns -> 1 .. MaxIDs + 1]
      /\ \A d \in Conns : nextID'[d] = IF d = c THEN 1 ELSE nextID[d]
  BY <1>0 DEF Replace, Inv, TypeOK
<1>f. \A d \in Conns, i \in Ids : d # c /\ <<d, i>> \in leaked => <<d, i>> \in leaked'
  BY DEF Replace
<1>1. TypeOK'
  <2>1. broken' \subseteq Conns /\ leaked' \subseteq Conns \X Ids
    BY DEF Replace, Inv, TypeOK
  <2> QED BY <1>a, <1>c, <1>d, <1>e, <2>1, Zenon DEF Inv, TypeOK
<1>2. JobOK' /\ UnrunOK' /\ AtMostOnce' /\ ReportOK'
  BY <1>a DEF Inv, JobOK, UnrunOK, AtMostOnce, ReportOK
<1>3. IdsOK'
  <2>1. IdsOK
    BY DEF Inv
  <2>2. \A t \in Texts, d \in Conns : handle'[t][d] < nextID'[d]
    BY <1>c, <1>e, <2>1 DEF IdsOK, NoID
  <2>3. \A d \in Conns, i \in Ids : prepared'[d][i] # "none" => i < nextID'[d]
    BY <1>d, <1>e, <2>1 DEF IdsOK
  <2>4. cur \in Conns /\ nextID'[cur] \in 1 .. MaxIDs + 1
    BY <1>e DEF Inv, TypeOK
  <2>5. temp' < nextID'[cur'] /\ temp' = NoID
    BY <1>0, <1>a, <1>b, <2>4 DEF NoID
  <2> QED BY <2>2, <2>3, <2>5 DEF IdsOK
<1>4. SessionsOK'
  <2> SUFFICES ASSUME NEW d \in Conns, d \notin broken' PROVE Known(d)' /\ NoStray(d)'
    BY DEF SessionsOK
  <2>1. CASE d = c
    <3>1. \A t \in Texts : handle'[t][c] = NoID
      BY <1>c
    <3>2. \A i \in Ids : prepared'[c][i] = "none"
      BY <1>d
    <3> QED BY <1>a, <1>b, <2>1, <3>1, <3>2 DEF Known, NoStray
  <2>2. CASE d # c
    <3>1. d \notin broken
      BY <2>2 DEF Replace
    <3>2. Known(d) /\ NoStray(d)
      BY <3>1 DEF Inv, SessionsOK
    <3>3. \A t \in Texts : handle'[t][d] = handle[t][d] /\ handle[t][d] \in Ids \cup {NoID}
      BY <1>c, <2>2 DEF Inv, TypeOK
    <3>4. \A i \in Ids : prepared'[d][i] = prepared[d][i]
      BY <1>d, <2>2
    <3>5. Known(d)'
      BY <1>a, <1>b, <3>2, <3>3, <3>4 DEF Known
    <3>6. NoStray(d)'
      BY <1>a, <1>f, <2>2, <3>2, <3>3, <3>4 DEF NoStray
    <3> QED BY <3>5, <3>6
  <2> QED BY <2>1, <2>2
<1> QED BY <1>1, <1>2, <1>3, <1>4 DEF Inv

-----------------------------------------------------------------------------
(***************************************************************************)
(* The execution of one statement.                                         *)
(***************************************************************************)
LEMMA RunOneInv ==
  ASSUME Inv, pc \in {"run", "execute"}, job.op \in {"exec", "stmt"},
         NEW late \in BOOLEAN, runOne(late),
         UNCHANGED <<driver, calls, cur, tries, server, leaked>>
  PROVE  Inv'
<1>0. /\ MaxEntries \in Nat /\ 1 \in Entries /\ jobs \in Nat /\ cur \in Conns
      /\ job.n = 1
  BY StmtsBounds DEF Inv, TypeOK, JobOK, Entries
<1>a. UNCHANGED <<handle, temp, job, jobs, cur, tries, prepared, nextID, leaked>>
  BY DEF driver, calls, server
<1>b. changed = <<>> /\ key = NoKey /\ times \in [Entries -> Nat] /\ \A e \in Entries : times[e] = 0
  BY DEF Inv, TypeOK, UnrunOK, Waiting
<1>c. temp = NoID
  BY DEF Inv, JobOK
<1>d. PICK err \in Errs, reached \in BOOLEAN, n \in 0 .. 2, mode \in {"count", "rows"} :
        /\ execCtx(cur, err, reached)
        /\ IF reached THEN runEntries(1, <<n>>) ELSE n = 0 /\ UNCHANGED <<times, changed>>
        /\ mode = "rows" => err = "ok" /\ n = 0
        /\ key' = IF reached /\ n > 0 THEN jobs ELSE key
        /\ IF err # "ok" THEN return(failed(err))
           ELSE IF late THEN return(failed("outErr"))
           ELSE \E chained \in Chains(n, jobs) :
                  return(resultFromResponse(mode, n, chained))
  BY DEF runOne
<1>e. /\ broken' \subseteq Conns /\ fails' \in 0 .. MaxFails /\ broken \subseteq broken'
      /\ err = "ok" => reached
      /\ err = "badConn" => ~reached
  BY <1>0, <1>d, ExecFacts DEF Inv
<1>f. /\ times' \in [Entries -> Nat] /\ changed' \in Seq(Nat)
      /\ reached => /\ \A e \in Entries : times'[e] = IF e <= 1 THEN 1 ELSE 0
                    /\ changed' = <<n>>
      /\ ~reached => times' = times /\ changed' = changed
  <2>1. CASE reached
    <3>1. runEntries(1, <<n>>) /\ <<n>> \in Seq(Nat)
      BY <1>d, <2>1
    <3>2. changed' = <<n>>
      BY <1>b, <3>1 DEF runEntries
    <3>3. /\ times' \in [Entries -> Nat]
          /\ \A e \in Entries : times'[e] = IF e <= 1 THEN 1 ELSE 0
      BY <1>b, <3>1 DEF runEntries, Entries
    <3> QED BY <2>1, <3>1, <3>2, <3>3
  <2>2. CASE ~reached
    BY <1>b, <1>d, <2>2
  <2> QED BY <2>1, <2>2
<1>g. PICK r : /\ return(r) /\ r.err \in Errs \cup {"outErr"} /\ r.counts = <<>>
               /\ r.err = "badConn" => ~reached
               /\ r.err = "ok" => reached /\ r.affected = n /\ r.key \in {NoKey, key'}
  <2>1. CASE err # "ok"
    BY <1>d, <1>e, <2>1, ReportFacts
  <2>2. CASE err = "ok" /\ late
    <3>1. return(failed("outErr"))
      BY <1>d, <2>2
    <3> QED BY <3>1, ReportFacts
  <2>3. CASE err = "ok" /\ ~late
    <3>1. PICK chained \in Chains(n, jobs) : return(resultFromResponse(mode, n, chained))
      BY <1>d, <2>3
    <3> DEFINE s == resultFromResponse(mode, n, chained)
    <3>2. /\ s.err = "ok" /\ s.counts = <<>> /\ s.key = GeneratedKey(chained)
          /\ s.affected = IF mode = "count" THEN n ELSE 0
      BY ReportFacts
    <3>3. s.affected = n
      BY <1>d, <3>2
    <3>4. reached /\ key' = IF n > 0 THEN jobs ELSE NoKey
      BY <1>b, <1>d, <1>e, <2>3
    <3>5. s.key \in {NoKey, key'}
      BY <1>0, <3>2, <3>4, KeyFacts
    <3>6. return(s)
      BY <3>1
    <3> HIDE DEF s
    <3>7. s.err \in Errs \cup {"outErr"}
      BY <3>2 DEF Errs
    <3> QED BY <3>2, <3>3, <3>4, <3>5, <3>6, <3>7
  <2> QED BY <2>1, <2>2, <2>3, Zenon
<1>h. \/ pc' = "pick" /\ told' = told /\ r.err = "badConn" /\ tries < MaxTries
      \/ pc' = "idle" /\ told' = r
  BY <1>g, ReturnFacts
<1>1. TypeOK'
  <2>1. pc' \in {"idle", "pick", "run", "execute", "close"}
    BY <1>h
  <2>2. /\ told'.err \in Errs \cup {"none", "argErr", "outErr"}
        /\ told'.counts \in Seq(Nat)
    <3>1. <<>> \in Seq(Nat)
      OBVIOUS
    <3> QED BY <1>g, <1>h, <3>1, Zenon DEF Inv, TypeOK
  <2> QED BY <1>a, <1>e, <1>f, <2>1, <2>2, Zenon DEF Inv, TypeOK
<1>2. JobOK'
  BY <1>a, <1>c, <1>h DEF Inv, JobOK
<1>3. UnrunOK'
  <2>1. pc' \in Waiting => ~reached
    BY <1>g, <1>h DEF Waiting
  <2>2. ~reached => key' = key
    BY <1>d
  <2> QED BY <1>b, <1>f, <2>1, <2>2 DEF UnrunOK
<1>4. AtMostOnce'
  <2>1. \A e \in Entries : times'[e] <= 1
    <3>1. CASE reached
      BY <1>f, <3>1
    <3>2. CASE ~reached
      BY <1>b, <1>f, <3>2
    <3> QED BY <3>1, <3>2
  <2>2. told'.err \in {"badConn", "argErr"} => ~reached
    BY <1>g, <1>h DEF Errs
  <2>3. ~reached => \A e \in Entries : times'[e] = 0
    BY <1>b, <1>f
  <2> QED BY <2>1, <2>2, <2>3 DEF AtMostOnce
<1>5. ReportOK'
  <2> SUFFICES ASSUME pc' = "idle", told'.err = "ok"
               PROVE  times'[1] = 1 /\ <<told'.affected>> = changed' /\ told'.key \in {NoKey, key'}
    BY <1>a, <1>h DEF ReportOK
  <2>1. told' = r /\ reached
    BY <1>g, <1>h
  <2> QED BY <1>0, <1>f, <1>g, <2>1
<1>6. IdsOK' /\ SessionsOK'
  BY <1>e, SessionsKept DEF Inv
<1> QED BY <1>1, <1>2, <1>3, <1>4, <1>5, <1>6 DEF Inv

LEMMA ExecuteRefusedInv ==
  ASSUME Inv, ExecuteRefused
  PROVE  Inv'
<1> DEFINE r == failed("argErr")
<1>a. r.err = "argErr" /\ r.counts = <<>>
  BY ReportFacts
<1>b. /\ pc \in {"run", "execute"} /\ job.op = "stmt"
      /\ UNCHANGED <<broken, handle, temp, job, jobs, cur, tries, prepared, nextID,
                     times, changed, key, leaked, fails>>
  BY DEF ExecuteRefused, driver, calls, server, effect
<1>c. pc' = "idle" /\ told' = r
  BY <1>a DEF ExecuteRefused, return
<1>d. temp = NoID
  BY <1>b DEF Inv, JobOK
<1> HIDE DEF r
<1>1. TypeOK'
  <2>1. <<>> \in Seq(Nat)
    OBVIOUS
  <2> QED BY <1>a, <1>b, <1>c, <2>1, Zenon DEF Inv, TypeOK
<1>2. JobOK' /\ UnrunOK' /\ ReportOK'
  BY <1>a, <1>b, <1>c, <1>d DEF Inv, JobOK, UnrunOK, ReportOK, Waiting
<1>3. AtMostOnce'
  BY <1>b DEF Inv, AtMostOnce, UnrunOK, Waiting
<1>4. IdsOK' /\ SessionsOK'
  BY <1>b DEF Inv, IdsOK, SessionsOK, Known, NoStray
<1> QED BY <1>1, <1>2, <1>3, <1>4 DEF Inv

-----------------------------------------------------------------------------
(***************************************************************************)
(* The execution of a batch.                                               *)
(***************************************************************************)
(* What the server ran of a batch, and the report r of it. *)
BatchRan(r) ==
  /\ broken' \subseteq Conns /\ fails' \in 0 .. MaxFails /\ broken \subseteq broken'
  /\ times' \in [Entries -> Nat] /\ \A e \in Entries : times'[e] <= 1
  /\ changed' \in Seq(Nat) /\ key' = key
  /\ r.err \in Errs /\ r.counts \in Seq(Nat)
  /\ r.err = "badConn" => changed' = changed /\ \A e \in Entries : times'[e] = 0
  /\ r.err = "ok" => r.counts = changed'

LEMMA BatchFacts ==
  ASSUME Inv, pc \in {"run", "execute"}, NEW err \in Errs, NEW reached \in BOOLEAN,
         NEW k \in 0 .. job.n, NEW counts \in [1 .. k -> 0 .. 1],
         execCtx(cur, err, reached), ~reached /\ err # "error" => k = 0,
         runEntries(k, counts), key' = key
  PROVE  BatchRan(IF err = "ok" THEN batchCounts(counts) ELSE failed(err))
<1> DEFINE r == IF err = "ok" THEN batchCounts(counts) ELSE failed(err)
<1>0. MaxEntries \in Nat /\ k \in Nat /\ cur \in Conns
  BY StmtsBounds DEF Inv, TypeOK
<1>1. /\ broken' \subseteq Conns /\ fails' \in 0 .. MaxFails /\ broken \subseteq broken'
      /\ err = "badConn" => ~reached
  BY <1>0, ExecFacts DEF Inv
<1>2. changed = <<>> /\ times \in [Entries -> Nat] /\ \A e \in Entries : times[e] = 0
  BY DEF Inv, TypeOK, UnrunOK, Waiting
<1>3. counts \in Seq(Nat) /\ Len(counts) = k
  BY <1>0
<1>4. changed' = counts
  BY <1>2, <1>3 DEF runEntries
<1>5. /\ times' \in [Entries -> Nat]
      /\ \A e \in Entries : times'[e] = IF e <= k THEN 1 ELSE 0
  BY <1>0, <1>2 DEF runEntries, Entries
<1>6. r.err = err /\ r.counts \in Seq(Nat) /\ (err = "ok" => r.counts = counts)
  <2>1. CASE err = "ok"
    BY <1>3, <2>1, ReportFacts
  <2>2. CASE err # "ok"
    <3>1. r = failed(err)
      BY <2>2
    <3>2. r.err = err /\ r.counts = <<>>
      BY <3>1, ReportFacts, Zenon
    <3> HIDE DEF r
    <3> QED BY <2>2, <3>2
  <2> QED BY <2>1, <2>2
<1>7. err = "badConn" => k = 0
  BY <1>1
<1>8. err = "badConn" => changed' = changed /\ \A e \in Entries : times'[e] = 0
  BY <1>2, <1>3, <1>4, <1>5, <1>7 DEF Entries
<1>9. \A e \in Entries : times'[e] <= 1
  BY <1>5
<1> HIDE DEF r
<1>10. BatchRan(r)
  BY <1>1, <1>3, <1>4, <1>5, <1>6, <1>8, <1>9, Zenon DEF BatchRan
<1> QED BY <1>10 DEF r

(* A batch that was run keeps the invariant, whether its report is final   *)
(* or its statement is still to be closed.                                 *)
LEMMA BatchInv ==
  ASSUME Inv, pc \in {"run", "execute"}, NEW r, BatchRan(r), told' = r,
         UNCHANGED <<driver, calls, cur, tries, server, leaked>>,
         \/ pc' = "idle" /\ pc = "run" /\ job.op = "batch"
         \/ pc' = "close" /\ pc = "execute" /\ job.op = "prepbatch"
  PROVE  Inv'
<1>a. UNCHANGED <<handle, temp, job, jobs, cur, tries, prepared, nextID, leaked>>
  BY DEF driver, calls, server
<1>1. TypeOK'
  BY <1>a, Zenon DEF Inv, TypeOK, BatchRan
<1>2. JobOK'
  BY <1>a DEF Inv, JobOK
<1>3. UnrunOK'
  BY DEF UnrunOK, Waiting
<1>4. AtMostOnce'
  BY DEF AtMostOnce, BatchRan, Errs
<1>5. ReportOK'
  BY <1>a DEF ReportOK, BatchRan
<1>6. IdsOK' /\ SessionsOK'
  BY SessionsKept DEF Inv, BatchRan
<1> QED BY <1>1, <1>2, <1>3, <1>4, <1>5, <1>6 DEF Inv

LEMMA ExecBatchInv ==
  ASSUME Inv, ExecBatch
  PROVE  Inv'
<1>1. PICK r : BatchRan(r) /\ return(r)
  BY BatchFacts DEF ExecBatch, runBatch
<1>2. pc' = "idle" /\ told' = r
  BY <1>1 DEF ExecBatch, return, retried
<1> QED BY <1>1, <1>2, BatchInv DEF ExecBatch

LEMMA ExecPreparedBatchInv ==
  ASSUME Inv, ExecPreparedBatch
  PROVE  Inv'
<1>1. PICK r : BatchRan(r) /\ closeTemp(r)
  BY BatchFacts DEF ExecPreparedBatch, runBatch
<1>2. pc' = "close" /\ told' = r
  BY <1>1 DEF closeTemp
<1> QED BY <1>1, <1>2, BatchInv DEF ExecPreparedBatch

-----------------------------------------------------------------------------
(***************************************************************************)
(* PREPARE and FREESTMT.                                                   *)
(***************************************************************************)
(* A new id is nobody's, so the statement prepared under it disturbs none. *)
LEMMA PrepareContextInv ==
  ASSUME Inv, PrepareContext
  PROVE  Inv'
<1> DEFINE id == nextID[cur]
<1>0. /\ MaxIDs \in Nat /\ cur \in Conns /\ id \in Ids /\ id \in Nat
      /\ job.text \in Texts /\ "none" \notin Texts
      /\ job.op \in {"stmt", "prepbatch"} /\ pc = "run"
  BY StmtsBounds DEF PrepareContext, Inv, TypeOK, JobOK, Ids
<1>a. UNCHANGED <<job, jobs, cur, tries, times, changed, key, leaked>>
  BY DEF PrepareContext, calls, effect
<1>b. temp = NoID /\ (job.op = "stmt" => handle[job.text][cur] = NoID)
  BY <1>0 DEF PrepareContext, current, Inv, JobOK
<1>c. PICK err \in Errs, reached \in BOOLEAN :
       /\ execCtx(cur, err, reached)
       /\ IF reached
            THEN /\ prepared' = [prepared EXCEPT ![cur][nextID[cur]] = job.text]
                 /\ nextID' = [nextID EXCEPT ![cur] = @ + 1]
            ELSE UNCHANGED server
       /\ IF err # "ok" THEN return(failed(err)) /\ UNCHANGED driver
          ELSE /\ pc' = "execute" /\ UNCHANGED told
               /\ IF job.op = "stmt"
                    THEN handle' = [handle EXCEPT ![job.text][cur] = nextID[cur]] /\ UNCHANGED temp
                    ELSE temp' = nextID[cur] /\ UNCHANGED handle
  BY DEF PrepareContext
<1>d. /\ broken' \subseteq Conns /\ fails' \in 0 .. MaxFails /\ broken \subseteq broken'
      /\ cur \notin broken' => (reached <=> err = "ok")
      /\ err = "ok" => reached /\ cur \notin broken
  BY <1>0, <1>c, ExecFacts DEF Inv
(* The session: one more statement at most, under the new id. *)
<1>e. /\ prepared' \in [Conns -> [Ids -> Texts \cup {"none"}]]
      /\ nextID' \in [Conns -> 1 .. MaxIDs + 1]
      /\ \A c \in Conns, i \in Ids :
           prepared'[c][i] = IF reached /\ c = cur /\ i = id THEN job.text ELSE prepared[c][i]
      /\ \A c \in Conns : nextID'[c] = IF reached /\ c = cur THEN id + 1 ELSE nextID[c]
  <2>1. CASE reached
    <3>1. prepared' = [prepared EXCEPT ![cur][id] = job.text] /\ nextID' = [nextID EXCEPT ![cur] = id + 1]
      BY <1>c, <2>1
    <3>2. id + 1 \in 1 .. MaxIDs + 1
      BY <1>0 DEF Ids
    <3>3. /\ nextID' \in [Conns -> 1 .. MaxIDs + 1]
          /\ \A c \in Conns : nextID'[c] = IF c = cur THEN id + 1 ELSE nextID[c]
      BY <1>0, <3>1, <3>2 DEF Inv, TypeOK
    <3> HIDE DEF id
    <3>4. /\ prepared' \in [Conns -> [Ids -> Texts \cup {"none"}]]
          /\ \A c \in Conns, i \in Ids :
               prepared'[c][i] = IF c = cur /\ i = id THEN job.text ELSE prepared[c][i]
      BY <1>0, <3>1 DEF Inv, TypeOK
    <3> QED BY <2>1, <3>3, <3>4
  <2>2. CASE ~reached
    BY <1>c, <2>2 DEF server, Inv, TypeOK
  <2> QED BY <2>1, <2>2
(* The driver: the id is kept when the preparation succeeded. *)
<1>f. CASE err # "ok"
  <2>1. UNCHANGED <<handle, temp>>
    BY <1>c, <1>f DEF driver
  <2>2. \/ pc' = "pick" /\ told' = told /\ tries < MaxTries
        \/ pc' = "idle" /\ told' = failed(err)
    BY <1>c, <1>f, ReturnFacts
  <2>3. failed(err).err = err /\ failed(err).counts = <<>>
    BY ReportFacts
  <2>4. TypeOK'
    <3>1. <<>> \in Seq(Nat)
      OBVIOUS
    <3>2. pc' \in {"idle", "pick", "run", "execute", "close"}
      BY <2>2
    <3>3. /\ told'.err \in Errs \cup {"none", "argErr", "outErr"}
          /\ told'.counts \in Seq(Nat)
      BY <2>2, <2>3, <3>1, Zenon DEF Inv, TypeOK
    <3> QED BY <1>a, <1>d, <1>e, <2>1, <3>2, <3>3, Zenon DEF Inv, TypeOK
  <2>5. JobOK'
    BY <1>0, <1>a, <1>b, <2>1, <2>2 DEF Inv, JobOK
  <2>6. UnrunOK' /\ AtMostOnce'
    BY <1>0, <1>a, <2>2 DEF Inv, UnrunOK, AtMostOnce, Waiting
  <2>7. ReportOK'
    BY <1>f, <2>2, <2>3 DEF ReportOK
  <2>8. IdsOK'
    <3>1. ASSUME NEW c \in Conns
          PROVE  nextID[c] \in Nat /\ nextID'[c] \in Nat /\ nextID[c] <= nextID'[c]
      <4>1. nextID[c] \in 1 .. MaxIDs + 1
        BY DEF Inv, TypeOK
      <4>2. nextID'[c] = nextID[c] \/ nextID'[c] = nextID[c] + 1
        BY <1>e
      <4> QED BY <1>0, <4>1, <4>2
    <3>2. ASSUME NEW t \in Texts, NEW c \in Conns PROVE handle'[t][c] < nextID'[c]
      <4>1. handle[t][c] \in Nat
        BY HandleIsNat DEF Inv
      <4>2. handle[t][c] < nextID[c]
        BY DEF Inv, IdsOK
      <4> QED BY <2>1, <3>1, <4>1, <4>2
    <3>3. ASSUME NEW c \in Conns, NEW i \in Ids, prepared'[c][i] # "none" PROVE i < nextID'[c]
      <4>1. CASE reached /\ c = cur /\ i = id
        BY <1>0, <1>e, <4>1
      <4>2. CASE ~(reached /\ c = cur /\ i = id)
        <5>1. prepared[c][i] # "none"
          BY <1>e, <3>3, <4>2
        <5>2. i < nextID[c] /\ i \in Nat
          BY <5>1, IdFacts DEF Inv, IdsOK
        <5> QED BY <3>1, <5>2
      <4> QED BY <4>1, <4>2
    <3>4. temp' < nextID'[cur']
      BY <1>0, <1>a, <1>b, <1>e, <2>1 DEF NoID
    <3> QED BY <1>b, <2>1, <3>2, <3>3, <3>4 DEF IdsOK
  <2>9. SessionsOK'
    <3>1. \A c \in Conns \ broken', i \in Ids : prepared'[c][i] = prepared[c][i]
      BY <1>d, <1>e, <1>f
    <3>2. \A t \in Texts, c \in Conns : handle[t][c] \in Ids \cup {NoID}
      BY DEF Inv, TypeOK
    <3>3. \A c \in Conns \ broken' : Known(c) /\ NoStray(c)
      BY <1>d DEF Inv, SessionsOK
    <3> QED BY <1>a, <1>b, <2>1, <3>1, <3>2, <3>3 DEF SessionsOK, Known, NoStray
  <2> QED BY <2>4, <2>5, <2>6, <2>7, <2>8, <2>9 DEF Inv
<1>g. CASE err = "ok"
  <2>0. reached /\ cur \notin broken
    BY <1>d, <1>g
  <2>1. pc' = "execute" /\ told' = told
    BY <1>c, <1>g
  <2>2. /\ handle' \in [Texts -> [Conns -> Ids \cup {NoID}]]
        /\ \A t \in Texts, c \in Conns :
             handle'[t][c] = IF job.op = "stmt" /\ t = job.text /\ c = cur THEN id ELSE handle[t][c]
        /\ temp' = IF job.op = "stmt" THEN NoID ELSE id
    <3>1. CASE job.op = "stmt"
      <4>1. handle' = [handle EXCEPT ![job.text][cur] = id] /\ temp' = temp
        BY <1>c, <1>g, <3>1
      <4> HIDE DEF id
      <4> QED BY <1>0, <1>b, <3>1, <4>1 DEF Inv, TypeOK
    <3>2. CASE job.op # "stmt"
      BY <1>c, <1>g, <3>2 DEF Inv, TypeOK
    <3> QED BY <3>1, <3>2
  <2> HIDE DEF id
  <2>3. TypeOK'
    <3>1. temp' \in Ids \cup {NoID}
      BY <1>0, <2>2
    <3> QED BY <1>a, <1>d, <1>e, <2>1, <2>2, <3>1, Zenon DEF Inv, TypeOK
  <2>4. JobOK'
    <3>1. temp' # NoID <=> job.op = "prepbatch"
      BY <1>0, <2>2, IdFacts
    <3> QED BY <1>0, <1>a, <2>1, <3>1 DEF Inv, JobOK
  <2>5. UnrunOK' /\ AtMostOnce' /\ ReportOK'
    BY <1>0, <1>a, <2>1 DEF Inv, UnrunOK, AtMostOnce, ReportOK, Waiting
  <2>6. ASSUME NEW t \in Texts
        PROVE  handle[t][cur] < id /\ handle[t][cur] \in Nat /\ handle[t][cur] # id
    <3>1. handle[t][cur] \in Nat
      BY <1>0, HandleIsNat DEF Inv
    <3>2. handle[t][cur] < id
      BY <1>0 DEF id, Inv, IdsOK
    <3> QED BY <1>0, <3>1, <3>2
  <2>7. IdsOK'
    <3>1. \A t \in Texts, c \in Conns : handle'[t][c] < nextID'[c]
      BY <1>0, <1>e, <2>0, <2>2, <2>6 DEF Inv, IdsOK
    <3>2. \A c \in Conns, i \in Ids : prepared'[c][i] # "none" => i < nextID'[c]
      <4> SUFFICES ASSUME NEW c \in Conns, NEW i \in Ids, prepared'[c][i] # "none"
                   PROVE  i < nextID'[c]
        OBVIOUS
      <4>1. CASE c = cur /\ i = id
        BY <1>0, <1>e, <2>0, <4>1
      <4>2. CASE ~(c = cur /\ i = id)
        <5>1. i < nextID[c] /\ i \in Nat /\ nextID[c] \in Nat
          BY <1>e, <4>2, IdFacts DEF Inv, IdsOK, TypeOK
        <5> QED BY <1>0, <1>e, <5>1 DEF id
      <4> QED BY <4>1, <4>2
    <3>3. temp' < nextID'[cur']
      BY <1>0, <1>a, <1>e, <2>0, <2>2 DEF NoID
    <3>4. temp' # NoID => \A t \in Texts : handle'[t][cur'] # temp'
      BY <1>0, <1>a, <2>2, <2>6
    <3> QED BY <3>1, <3>2, <3>3, <3>4 DEF IdsOK
  <2>8. SessionsOK'
    <3> SUFFICES ASSUME NEW c \in Conns, c \notin broken' PROVE Known(c)' /\ NoStray(c)'
      BY DEF SessionsOK
    <3>1. Known(c) /\ NoStray(c)
      BY <1>d DEF Inv, SessionsOK
    <3>2. \A t \in Texts : handle[t][c] \in Ids \cup {NoID}
      BY DEF Inv, TypeOK
    <3>3. CASE c # cur
      <4>1. \A i \in Ids : prepared'[c][i] = prepared[c][i]
        BY <1>e, <3>3
      <4>2. \A t \in Texts : handle'[t][c] = handle[t][c]
        BY <2>2, <3>3
      <4> QED BY <1>a, <3>1, <3>2, <3>3, <4>1, <4>2 DEF Known, NoStray
    <3>4. CASE c = cur
      <4>1. prepared'[c][id] = job.text /\ \A i \in Ids : i # id => prepared'[c][i] = prepared[c][i]
        BY <1>0, <1>e, <2>0, <3>4
      <4>2. Known(c)'
        <5>1. ASSUME NEW t \in Texts, handle'[t][c] # NoID PROVE prepared'[c][handle'[t][c]] = t
          <6>1. CASE job.op = "stmt" /\ t = job.text
            BY <2>2, <3>4, <4>1, <6>1
          <6>2. CASE ~(job.op = "stmt" /\ t = job.text)
            <7>1. handle'[t][c] = handle[t][c]
              BY <2>2, <6>2
            <7> QED BY <2>6, <3>1, <3>2, <3>4, <4>1, <5>1, <7>1 DEF Known
          <6> QED BY <6>1, <6>2
        <5>2. temp' # NoID => prepared'[c][temp'] = job'.text
          BY <1>a, <2>2, <4>1
        <5> QED BY <5>1, <5>2 DEF Known
      <4>3. NoStray(c)'
        <5> SUFFICES ASSUME NEW i \in Ids, prepared'[c][i] # "none"
                     PROVE  \/ <<c, i>> \in leaked'
                            \/ \E t \in Texts : handle'[t][c] = i
                            \/ cur' = c /\ temp' = i
          BY DEF NoStray
        <5>1. CASE i = id
          BY <1>0, <1>a, <2>2, <3>4, <5>1
        <5>2. CASE i # id
          <6>1. <<c, i>> \in leaked \/ \E t \in Texts : handle[t][c] = i
            BY <1>b, <3>1, <4>1, <5>2, IdFacts DEF NoStray
          <6>2. ASSUME NEW t \in Texts, handle[t][c] = i PROVE handle'[t][c] = i
            BY <1>b, <2>2, <3>4, <6>2, IdFacts
          <6> QED BY <1>a, <6>1, <6>2
        <5> QED BY <5>1, <5>2
      <4> QED BY <4>2, <4>3
    <3> QED BY <3>3, <3>4
  <2> QED BY <2>3, <2>4, <2>5, <2>7, <2>8 DEF Inv
<1> QED BY <1>f, <1>g

(* FREESTMT removes its id or nothing; an id that a usable connection      *)
(* still has was refused.                                                  *)
LEMMA FreeFacts ==
  ASSUME Inv, NEW c \in Conns, NEW id \in Ids, freeStmt(c, id)
  PROVE  /\ broken' \subseteq Conns /\ fails' \in 0 .. MaxFails /\ broken \subseteq broken'
         /\ prepared' \in [Conns -> [Ids -> Texts \cup {"none"}]]
         /\ leaked' \subseteq Conns \X Ids /\ leaked \subseteq leaked'
         /\ \A d \in Conns, i \in Ids :
              \/ prepared'[d][i] = prepared[d][i]
              \/ d = c /\ i = id /\ prepared'[d][i] = "none"
         /\ c \notin broken' => prepared'[c][id] = "none" \/ <<c, id>> \in leaked'
<1>1. PICK err \in Errs \ {"ctxErr"}, reached \in BOOLEAN :
        /\ execCtx(c, err, reached)
        /\ prepared' = IF reached THEN [prepared EXCEPT ![c][id] = "none"] ELSE prepared
        /\ leaked' = IF err = "error" THEN leaked \cup {<<c, id>>} ELSE leaked
  BY DEF freeStmt
<1>2. /\ broken' \subseteq Conns /\ fails' \in 0 .. MaxFails /\ broken \subseteq broken'
      /\ c \notin broken' => (reached <=> err = "ok")
  BY <1>1, ExecFacts DEF Inv
<1>3. c \notin broken' => err \in {"ok", "error"}
  BY <1>1, <1>2 DEF execCtx, Errs
<1>4. leaked' \subseteq Conns \X Ids /\ leaked \subseteq leaked'
  BY <1>1 DEF Inv, TypeOK
<1>5. CASE reached
  BY <1>1, <1>2, <1>4, <1>5 DEF Inv, TypeOK
<1>6. CASE ~reached
  <2>1. prepared' = prepared
    BY <1>1, <1>6
  <2>2. c \notin broken' => <<c, id>> \in leaked'
    BY <1>1, <1>2, <1>3, <1>6
  <2> QED BY <1>2, <1>4, <2>1, <2>2 DEF Inv, TypeOK
<1> QED BY <1>5, <1>6

LEMMA ExecPreparedBatchClosesInv ==
  ASSUME Inv, ExecPreparedBatchCloses
  PROVE  Inv'
<1>0. cur \in Conns /\ temp \in Ids /\ temp' = NoID /\ pc = "close" /\ pc' = "idle"
  BY DEF ExecPreparedBatchCloses, Inv, TypeOK, JobOK
<1>a. UNCHANGED <<handle, job, jobs, cur, tries, told, nextID, times, changed, key>>
  BY DEF ExecPreparedBatchCloses, calls, effect
<1>b. /\ broken' \subseteq Conns /\ fails' \in 0 .. MaxFails /\ broken \subseteq broken'
      /\ prepared' \in [Conns -> [Ids -> Texts \cup {"none"}]]
      /\ leaked' \subseteq Conns \X Ids /\ leaked \subseteq leaked'
  BY <1>0, FreeFacts DEF ExecPreparedBatchCloses
<1>c. \A d \in Conns, i \in Ids :
        \/ prepared'[d][i] = prepared[d][i]
        \/ d = cur /\ i = temp /\ prepared'[d][i] = "none"
  BY <1>0, FreeFacts, ZenonT(40) DEF ExecPreparedBatchCloses
<1>d. cur \notin broken' => prepared'[cur][temp] = "none" \/ <<cur, temp>> \in leaked'
  BY <1>0, FreeFacts DEF ExecPreparedBatchCloses
<1>1. TypeOK'
  BY <1>0, <1>a, <1>b, Zenon DEF Inv, TypeOK
<1>2. JobOK' /\ UnrunOK' /\ AtMostOnce' /\ ReportOK'
  BY <1>0, <1>a DEF Inv, JobOK, UnrunOK, AtMostOnce, ReportOK, Waiting
<1>3. IdsOK'
  <2>1. temp' < nextID'[cur']
    BY <1>0, <1>a DEF Inv, TypeOK, NoID
  <2>2. \A c \in Conns, i \in Ids : prepared'[c][i] # "none" => i < nextID'[c]
    BY <1>a, <1>c DEF Inv, IdsOK
  <2> QED BY <1>0, <1>a, <2>1, <2>2 DEF Inv, IdsOK
<1>4. SessionsOK'
  <2> SUFFICES ASSUME NEW c \in Conns, c \notin broken' PROVE Known(c)' /\ NoStray(c)'
    BY DEF SessionsOK
  <2>1. Known(c) /\ NoStray(c)
    BY <1>b DEF Inv, SessionsOK
  <2>2. \A t \in Texts : handle[t][c] \in Ids \cup {NoID}
    BY DEF Inv, TypeOK
  <2>3. c = cur => \A t \in Texts : handle[t][c] # temp
    BY <1>0, IdFacts DEF Inv, IdsOK
  <2>4. "none" \notin Texts
    BY StmtsBounds
  <2>5. Known(c)'
    BY <1>0, <1>a, <1>c, <2>1, <2>2, <2>3 DEF Known
  <2>6. NoStray(c)'
    BY <1>a, <1>b, <1>c, <1>d, <2>1 DEF NoStray
  <2> QED BY <2>5, <2>6
<1> QED BY <1>1, <1>2, <1>3, <1>4 DEF Inv

(* Two open statements of a usable connection have different ids: the      *)
(* session knows each under its own text.                                  *)
LEMMA CloseStmtInv ==
  ASSUME Inv, NEW t \in Texts, NEW c \in Conns, CloseStmt(t, c)
  PROVE  Inv'
<1> DEFINE id == handle[t][c]
<1>0. id \in Ids /\ pc = "idle"
  BY DEF CloseStmt, Inv, TypeOK
<1>a. UNCHANGED <<temp, job, jobs, pc, cur, tries, told, nextID, times, changed, key>>
  BY DEF CloseStmt, calls, effect
<1>b. /\ handle' \in [Texts -> [Conns -> Ids \cup {NoID}]]
      /\ \A u \in Texts, d \in Conns :
           handle'[u][d] = IF u = t /\ d = c THEN NoID ELSE handle[u][d]
  BY DEF CloseStmt, Inv, TypeOK
<1>c. freeStmt(c, id)
  BY DEF CloseStmt
<1> HIDE DEF id
<1>d. /\ broken' \subseteq Conns /\ fails' \in 0 .. MaxFails /\ broken \subseteq broken'
      /\ prepared' \in [Conns -> [Ids -> Texts \cup {"none"}]]
      /\ leaked' \subseteq Conns \X Ids /\ leaked \subseteq leaked'
  BY <1>0, <1>c, FreeFacts
<1>e. \A d \in Conns, i \in Ids :
        \/ prepared'[d][i] = prepared[d][i]
        \/ d = c /\ i = id /\ prepared'[d][i] = "none"
  BY <1>0, <1>c, FreeFacts
<1>f. c \notin broken' => prepared'[c][id] = "none" \/ <<c, id>> \in leaked'
  BY <1>0, <1>c, FreeFacts
<1>g. temp = NoID
  BY <1>0 DEF Inv, JobOK
<1>1. TypeOK'
  BY <1>a, <1>b, <1>d, Zenon DEF Inv, TypeOK
<1>2. JobOK' /\ UnrunOK' /\ AtMostOnce' /\ ReportOK'
  BY <1>a DEF Inv, JobOK, UnrunOK, AtMostOnce, ReportOK
<1>3. IdsOK'
  <2>1. \A u \in Texts, d \in Conns : handle'[u][d] < nextID'[d]
    <3>1. \A d \in Conns : NoID < nextID[d]
      BY DEF Inv, TypeOK, NoID
    <3> QED BY <1>a, <1>b, <3>1 DEF Inv, IdsOK
  <2>2. \A d \in Conns, i \in Ids : prepared'[d][i] # "none" => i < nextID'[d]
    BY <1>a, <1>e DEF Inv, IdsOK
  <2> QED BY <1>a, <1>g, <2>1, <2>2 DEF Inv, IdsOK
<1>4. SessionsOK'
  <2> SUFFICES ASSUME NEW d \in Conns, d \notin broken' PROVE Known(d)' /\ NoStray(d)'
    BY DEF SessionsOK
  <2>1. Known(d) /\ NoStray(d)
    BY <1>d DEF Inv, SessionsOK
  <2>2. \A u \in Texts : handle[u][d] \in Ids \cup {NoID}
    BY DEF Inv, TypeOK
  <2>3. ASSUME NEW u \in Texts, handle'[u][d] # NoID PROVE prepared'[d][handle'[u][d]] = u
    <3>1. handle'[u][d] = handle[u][d] /\ ~(u = t /\ d = c)
      BY <1>b, <2>3
    <3>2. prepared[d][handle[u][d]] = u /\ handle[u][d] \in Ids
      BY <2>1, <2>2, <2>3, <3>1 DEF Known
    <3>3. d = c => prepared[d][id] = t
      BY <1>0, <2>1, IdFacts DEF id, Known
    <3>4. d = c => handle[u][d] # id
      BY <3>1, <3>2, <3>3
    <3> QED BY <1>e, <3>1, <3>2, <3>4
  <2>4. Known(d)'
    BY <1>a, <1>g, <2>3 DEF Known
  <2>5. NoStray(d)'
    <3> SUFFICES ASSUME NEW i \in Ids, prepared'[d][i] # "none"
                 PROVE  <<d, i>> \in leaked' \/ \E u \in Texts : handle'[u][d] = i
      BY DEF NoStray
    <3>1. CASE d = c /\ i = id
      BY <1>f, <3>1
    <3>2. CASE ~(d = c /\ i = id)
      <4>1. <<d, i>> \in leaked \/ \E u \in Texts : handle[u][d] = i
        BY <1>e, <1>g, <2>1, <3>2, IdFacts DEF NoStray
      <4>2. ASSUME NEW u \in Texts, handle[u][d] = i PROVE handle'[u][d] = i
        BY <1>b, <3>2, <4>2 DEF id
      <4> QED BY <1>d, <4>1, <4>2
    <3> QED BY <3>1, <3>2
  <2> QED BY <2>4, <2>5
<1> QED BY <1>1, <1>2, <1>3, <1>4 DEF Inv

-----------------------------------------------------------------------------
(***************************************************************************)
(* The theorems.                                                           *)
(***************************************************************************)
LEMMA StepInv == Inv /\ [Next]_vars => Inv'
<1> SUFFICES ASSUME Inv, [Next]_vars PROVE Inv'
  OBVIOUS
<1>1. CASE \E op \in Ops, t \in Texts, n \in 0 .. MaxEntries : Start(op, t, n)
  BY <1>1, StartInv
<1>2. CASE \E c \in Conns : Take(c) \/ Replace(c)
  BY <1>2, TakeInv, ReplaceInv
<1>3. CASE \E t \in Texts, c \in Conns : CloseStmt(t, c)
  BY <1>3, CloseStmtInv
<1>4. CASE ExecDirect
  BY <1>4, RunOneInv DEF ExecDirect
<1>5. CASE PrepareContext
  BY <1>5, PrepareContextInv
<1>6. CASE Execute
  BY <1>6, RunOneInv DEF Execute
<1>7. CASE ExecuteRefused
  BY <1>7, ExecuteRefusedInv
<1>8. CASE ExecBatch
  BY <1>8, ExecBatchInv
<1>9. CASE ExecPreparedBatch
  BY <1>9, ExecPreparedBatchInv
<1>10. CASE ExecPreparedBatchCloses
  BY <1>10, ExecPreparedBatchClosesInv
<1>11. CASE UNCHANGED vars
  <2>1. UNCHANGED <<broken, handle, temp, job, jobs, pc, cur, tries>>
    BY <1>11 DEF vars
  <2>2. UNCHANGED <<told, prepared, nextID, times, changed, key, leaked, fails>>
    BY <1>11 DEF vars
  <2>3. TypeOK' /\ JobOK' /\ UnrunOK' /\ AtMostOnce' /\ ReportOK'
    BY <2>1, <2>2, ZenonT(40) DEF Inv, TypeOK, JobOK, UnrunOK, AtMostOnce, ReportOK
  <2>4. IdsOK' /\ SessionsOK'
    BY <2>1, <2>2 DEF Inv, IdsOK, SessionsOK, Known, NoStray
  <2> QED BY <2>3, <2>4 DEF Inv
<1> QED BY <1>1, <1>2, <1>3, <1>4, <1>5, <1>6, <1>7, <1>8, <1>9, <1>10, <1>11 DEF Next

LEMMA Invariance == Spec => []Inv
  BY InitInv, StepInv, PTL DEF Spec

(* Every variable stays in its type, through every retry, batch and        *)
(* replacement of a connection.                                            *)
THEOREM StmtsTypeCorrect == Spec => []TypeOK
<1>1. Inv => TypeOK
  BY DEF Inv
<1> QED BY <1>1, Invariance, PTL

(* execCtx (conn.go) returns driver.ErrBadConn for a request it has not    *)
(* sent and for no other, so however often database/sql tries a job again  *)
(* its statement, or any entry of a batch, is run at most once, and not at *)
(* all when the job is told ErrBadConn or refused for its arguments.       *)
THEOREM JobsRunAtMostOnce == Spec => []AtMostOnce
<1>1. Inv => AtMostOnce
  BY DEF Inv
<1> QED BY <1>1, Invariance, PTL

(* The ids stmt.go keeps and the statements the sessions hold agree on     *)
(* every connection that is not broken: through ResetSession, failed       *)
(* PREPAREs and FREESTMTs, prepared batches and replaced connections.      *)
THEOREM SessionsMatchDriver == Spec => []StatementsMatch
  BY InvImplies, Invariance, PTL

(* resultFromResponse (result_exec.go) reports the rows changed and the    *)
(* first key generated by the job's own run, whatever else is chained to   *)
(* the response and however often database/sql tried.                      *)
THEOREM ReportsAreExact == Spec => []ReportIsExact
  BY InvImplies, Invariance, PTL
=============================================================================
