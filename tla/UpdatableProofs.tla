--------------------------- MODULE UpdatableProofs --------------------------
(***************************************************************************)
(* Proofs about Updatable, for every number of rows, columns, keys and     *)
(* writes: the client's copy stays the server's cursor, Next neither skips *)
(* nor repeats a row, nothing is left behind on the server, and updates    *)
(* write no column that their keys do not fit.                             *)
(***************************************************************************)
EXTENDS Updatable, SequenceTheorems, WellFoundedInduction, TLAPS

-----------------------------------------------------------------------------
(***************************************************************************)
(* The inductive invariant.                                                *)
(***************************************************************************)
Tabs     == UNION {[D -> Images \cup {Deleted}] : D \in SUBSET (0 .. MaxRows - 1)}
Sessions == [stmt : BOOLEAN, cursor : BOOLEAN, tab : Tabs,
             inserted : SUBSET [Cols -> Contents]]

SrvOK == srv \in Sessions

(* What the position and the result id are before and after the query. *)
FlowOK ==
  /\ pc \in {"new", "prepared"} => seen = -1
  /\ pc = "open" => resultID = 1

(* What the server may still hold at each point of QueryUpdatable and      *)
(* Close.  A closed connection holds nothing.                              *)
HeldOK ==
  /\ connClosed => ~srv.stmt /\ ~srv.cursor
  /\ ~broken =>
       /\ pc = "new" => ~srv.stmt
       /\ pc \in {"new", "prepared", "free", "failed"} => ~srv.cursor
       /\ pc = "failed" /\ srv.stmt => "stmt" \in refused
       /\ pc \in {"close.stmt", "done"} /\ srv.cursor => "cursor" \in refused /\ firstErr
       /\ pc = "done" /\ srv.stmt => "stmt" \in refused /\ firstErr

Inv == TypeOK /\ SrvOK /\ FlowOK /\ HeldOK /\ CopyMatchesCursor /\ AheadIsUnseen

-----------------------------------------------------------------------------
(***************************************************************************)
(* Sequences, rounds trips and the server.                                 *)
(***************************************************************************)
LEMMA RemoveAtFacts ==
  ASSUME NEW S, NEW s \in Seq(S), NEW i \in 1 .. Len(s)
  PROVE  /\ RemoveAt(s, i) \in Seq(S) /\ Len(RemoveAt(s, i)) = Len(s) - 1
         /\ \A j \in 1 .. Len(s) - 1 : RemoveAt(s, i)[j] = IF j < i THEN s[j] ELSE s[j + 1]
<1> DEFINE a == SubSeq(s, 1, i - 1)
           b == SubSeq(s, i + 1, Len(s))
<1>0. Len(s) \in Nat /\ i \in Int /\ 1 <= i /\ i <= Len(s)
  OBVIOUS
<1>1. a \in Seq(S) /\ Len(a) = i - 1 /\ \A j \in 1 .. i - 1 : a[j] = s[j]
  OBVIOUS
<1>2. b \in Seq(S) /\ Len(b) = Len(s) - i /\ \A j \in 1 .. Len(s) - i : b[j] = s[i + j]
  OBVIOUS
<1>3. RemoveAt(s, i) = a \o b
  BY DEF RemoveAt
<1> HIDE DEF a, b
<1>4. a \o b \in Seq(S) /\ Len(a \o b) = Len(s) - 1
  <2>1. a \o b \in Seq(S) /\ Len(a \o b) = Len(a) + Len(b)
    BY <1>1, <1>2, ConcatProperties
  <2>2. Len(a) + Len(b) = Len(s) - 1
    BY <1>0, <1>1, <1>2
  <2> QED BY <2>1, <2>2
<1>5. ASSUME NEW j \in 1 .. Len(s) - 1 PROVE (a \o b)[j] = IF j < i THEN s[j] ELSE s[j + 1]
  <2>1. CASE j < i
    BY <1>1, <1>2, <2>1
  <2>2. CASE ~(j < i)
    <3>1. (a \o b)[j] = b[j - (i - 1)]
      BY <1>1, <1>2, <2>2
    <3>2. j - (i - 1) \in 1 .. Len(s) - i /\ i + (j - (i - 1)) = j + 1
      BY <2>2
    <3>3. b[j - (i - 1)] = s[i + (j - (i - 1))]
      BY <1>2, <3>2
    <3>4. j \in Int /\ ~(j < i)
      BY <1>0, <2>2
    <3> QED BY <3>1, <3>2, <3>3, <3>4, Zenon
  <2> QED BY <2>1, <2>2, Zenon
<1> QED BY <1>3, <1>4, <1>5

(* execCtx: success is the only outcome that lets the connection live and  *)
(* the session change; ErrBadConn on an unbroken connection means that it  *)
(* is closed.                                                              *)
LEMMA ExecFacts ==
  ASSUME TypeOK, NEW out \in Outs, NEW after, execCtx(out, after)
  PROVE  /\ broken' \in BOOLEAN /\ (broken => broken')
         /\ srv' \in after \/ srv' = srv
         /\ out = "ok" => ~connClosed /\ ~broken /\ ~broken' /\ srv' \in after
         /\ out # "ok" /\ ~broken' => srv' = srv /\ (connClosed \/ out = "refused")
         /\ connClosed => srv' = srv
<1>1. connClosed \in BOOLEAN /\ broken \in BOOLEAN
  BY DEF TypeOK
<1>2. CASE out = "badConn"
  BY <1>1, <1>2, Zenon DEF execCtx
<1>3. CASE out = "ok"
  <2>1. ~connClosed /\ ~broken /\ srv' \in after /\ broken' = broken
    BY <1>3 DEF execCtx
  <2> QED BY <1>1, <1>3, <2>1, Zenon
<1>4. CASE out = "refused"
  BY <1>1, <1>4, Zenon DEF execCtx
<1>5. CASE out = "ioErr"
  BY <1>1, <1>5, Zenon DEF execCtx
<1> QED BY <1>2, <1>3, <1>4, <1>5 DEF Outs

LEMMA TabFacts ==
  ASSUME NEW t
  PROVE  t \in Tabs <=> /\ t \in [DOMAIN t -> Images \cup {Deleted}]
                        /\ DOMAIN t \subseteq 0 .. MaxRows - 1
<1>1. ASSUME t \in Tabs
      PROVE  t \in [DOMAIN t -> Images \cup {Deleted}] /\ DOMAIN t \subseteq 0 .. MaxRows - 1
  <2>1. PICK D \in SUBSET (0 .. MaxRows - 1) : t \in [D -> Images \cup {Deleted}]
    BY <1>1 DEF Tabs
  <2> QED BY <2>1
<1>2. ASSUME t \in [DOMAIN t -> Images \cup {Deleted}], DOMAIN t \subseteq 0 .. MaxRows - 1
      PROVE  t \in Tabs
  BY <1>2 DEF Tabs
<1> QED BY <1>1, <1>2

LEMMA SessionFacts ==
  ASSUME NEW s \in Sessions
  PROVE  /\ s.stmt \in BOOLEAN /\ s.cursor \in BOOLEAN
         /\ \A k \in DOMAIN s.tab : s.tab[k] \in Images \cup {Deleted} /\ k \in Int
         /\ DOMAIN s.tab \subseteq 0 .. MaxRows - 1
         /\ s.inserted \subseteq [Cols -> Contents]
<1>1. s.tab \in Tabs /\ s.inserted \subseteq [Cols -> Contents]
  BY DEF Sessions
<1>2. s.stmt \in BOOLEAN /\ s.cursor \in BOOLEAN
  BY DEF Sessions
<1>3. s.tab \in [DOMAIN s.tab -> Images \cup {Deleted}] /\ DOMAIN s.tab \subseteq 0 .. MaxRows - 1
  BY <1>1, TabFacts
<1> QED BY <1>1, <1>2, <1>3

(* The server operations that touch no row. *)
LEMMA FlagFacts ==
  ASSUME NEW s \in Sessions
  PROVE  /\ \A x \in Prepared(s) : x \in Sessions /\ x.cursor = s.cursor
         /\ \A x \in ClosedResult(s) : x \in Sessions /\ ~x.cursor /\ x.stmt = s.stmt
         /\ \A x \in FreedStmt(s) : x \in Sessions /\ ~x.stmt /\ x.cursor = s.cursor
         /\ LET x == [s EXCEPT !.stmt = FALSE, !.cursor = FALSE]
            IN  x \in Sessions /\ ~x.stmt /\ ~x.cursor /\ x.tab = s.tab
  BY DEF Prepared, ClosedResult, FreedStmt, Sessions

(* No image of a row is the mark of a deleted one. *)
LEMMA ImageFacts ==
  /\ Deleted \notin Images
  /\ \A x \in Images : x.id \in RowIDs /\ x.val \in [Cols -> Contents]
<1>1. MaxRows \in Nat /\ MaxWrites \in Nat
  BY UpdatableBounds
<1> QED BY <1>1 DEF Images, Deleted, RowIDs

LEMMA ExecutedFacts ==
  ASSUME NEW s \in Sessions, NEW n \in 0 .. MaxRows, NEW x \in Executed(s, n)
  PROVE  /\ x \in Sessions /\ DOMAIN x.tab = 0 .. n - 1
         /\ \A k \in 0 .. n - 1 : /\ x.tab[k] \in Images
                                  /\ x.tab[k].val = [c \in Cols |-> "old"]
<1> DEFINE image(k) == [id |-> k, val |-> [c \in Cols |-> "old"]]
           t == [k \in 0 .. n - 1 |-> image(k)]
<1>0. MaxRows \in Nat /\ MaxWrites \in Nat
  BY UpdatableBounds
<1>1. ASSUME NEW k \in 0 .. n - 1 PROVE image(k) \in Images /\ image(k).val = [c \in Cols |-> "old"]
  <2>1. k \in RowIDs
    BY <1>0 DEF RowIDs
  <2>2. [c \in Cols |-> "old"] \in [Cols -> Contents]
    BY DEF Contents
  <2> QED BY <2>1, <2>2 DEF Images
<1> HIDE DEF image
<1>2. t \in [0 .. n - 1 -> Images \cup {Deleted}] /\ DOMAIN t = 0 .. n - 1
  BY <1>1
<1>3. t \in Tabs
  BY <1>0, <1>2, TabFacts
<1>4. x = [s EXCEPT !.cursor = TRUE, !.tab = t]
  BY DEF Executed, image
<1>5. \A k \in 0 .. n - 1 : t[k] = image(k)
  OBVIOUS
<1> HIDE DEF t
<1>6. x \in Sessions /\ x.tab = t
  BY <1>3, <1>4 DEF Sessions
<1> QED BY <1>1, <1>2, <1>5, <1>6

(* A session after one row of it changed. *)
LEMMA RowChanged ==
  ASSUME NEW s \in Sessions, NEW num \in DOMAIN s.tab, NEW v \in Images \cup {Deleted}
  PROVE  LET x == [s EXCEPT !.tab[num] = v] IN
         /\ x \in Sessions /\ x.stmt = s.stmt /\ x.cursor = s.cursor
         /\ DOMAIN x.tab = DOMAIN s.tab /\ x.tab[num] = v
         /\ \A k \in DOMAIN s.tab \ {num} : x.tab[k] = s.tab[k]
<1> DEFINE x == [s EXCEPT !.tab[num] = v]
           t == [s.tab EXCEPT ![num] = v]
<1>1. s.tab \in Tabs
  BY DEF Sessions
<1>2. s.tab \in [DOMAIN s.tab -> Images \cup {Deleted}] /\ DOMAIN s.tab \subseteq 0 .. MaxRows - 1
  BY <1>1, TabFacts
<1>3. /\ t \in [DOMAIN s.tab -> Images \cup {Deleted}] /\ DOMAIN t = DOMAIN s.tab
      /\ t[num] = v /\ \A k \in DOMAIN s.tab \ {num} : t[k] = s.tab[k]
  BY <1>2
<1>4. t \in Tabs
  BY <1>2, <1>3, TabFacts
<1>5. x = [s EXCEPT !.tab = t]
  BY DEF Sessions
<1> HIDE DEF t, x
<1>6. x \in Sessions /\ x.stmt = s.stmt /\ x.cursor = s.cursor /\ x.tab = t
  BY <1>4, <1>5 DEF Sessions
<1> QED BY <1>3, <1>6 DEF x

(* The contents of row num after an update with request r. *)
merged(s, num, r) == [c \in Cols |-> IF r[c] = NotUpdated THEN s.tab[num].val[c] ELSE r[c]]

LEMMA UpdatedFacts ==
  ASSUME TypeOK, writes < MaxWrites, NEW s \in Sessions, NEW num, NEW id \in RowIDs,
         NEW r \in [Cols -> Values \cup {NotUpdated}], NEW x \in Updated(s, num, id, r)
  PROVE  /\ num \in Live(s)
         /\ x \in Sessions /\ x.stmt = s.stmt /\ x.cursor = s.cursor
         /\ DOMAIN x.tab = DOMAIN s.tab
         /\ x.tab[num] \in Images /\ x.tab[num].val = merged(s, num, r)
         /\ \A k \in DOMAIN s.tab \ {num} : x.tab[k] = s.tab[k]
<1>0. MaxRows \in Nat /\ MaxWrites \in Nat /\ writes \in 0 .. MaxWrites
  BY UpdatableBounds DEF TypeOK
<1>1. Finds(s, num, id)
  BY DEF Updated
<1>2. num \in Live(s) /\ num \in DOMAIN s.tab /\ s.tab[num] # Deleted
  BY <1>1 DEF Finds, Live
<1>3. PICK new \in {id, MaxRows + writes} :
        x = [s EXCEPT !.tab[num] = [id |-> new, val |-> merged(s, num, r)]]
  BY <1>1 DEF Updated, merged
<1>4. new \in RowIDs
  BY <1>0 DEF RowIDs
<1>5. s.tab[num] \in Images
  <2>1. s.tab \in Tabs
    BY DEF Sessions
  <2>2. s.tab[num] \in Images \cup {Deleted}
    BY <1>2, <2>1, TabFacts
  <2> QED BY <1>2, <2>2
<1>6. merged(s, num, r) \in [Cols -> Contents]
  <2>1. s.tab[num].val \in [Cols -> Contents]
    BY <1>5, ImageFacts
  <2>2. ASSUME NEW c \in Cols
        PROVE  (IF r[c] = NotUpdated THEN s.tab[num].val[c] ELSE r[c]) \in Contents
    BY <2>1 DEF Contents
  <2> QED BY <2>2 DEF merged
<1> DEFINE v == [id |-> new, val |-> merged(s, num, r)]
<1>7. v \in Images /\ v.val = merged(s, num, r)
  BY <1>4, <1>6 DEF Images
<1> HIDE DEF v
<1>8. x = [s EXCEPT !.tab[num] = v]
  BY <1>3 DEF v
<1>9. /\ x \in Sessions /\ x.stmt = s.stmt /\ x.cursor = s.cursor
      /\ DOMAIN x.tab = DOMAIN s.tab /\ x.tab[num] = v
      /\ \A k \in DOMAIN s.tab \ {num} : x.tab[k] = s.tab[k]
  BY <1>2, <1>7, <1>8, RowChanged
<1> QED BY <1>2, <1>7, <1>9

LEMMA DeletedFacts ==
  ASSUME NEW s \in Sessions, NEW num, NEW id, NEW x \in DeletedRow(s, num, id)
  PROVE  /\ num \in Live(s)
         /\ x \in Sessions /\ x.stmt = s.stmt /\ x.cursor = s.cursor
         /\ DOMAIN x.tab = DOMAIN s.tab /\ x.tab[num] = Deleted
         /\ \A k \in DOMAIN s.tab \ {num} : x.tab[k] = s.tab[k]
<1>1. Finds(s, num, id) /\ x = [s EXCEPT !.tab[num] = Deleted]
  BY DEF DeletedRow
<1>2. num \in Live(s) /\ num \in DOMAIN s.tab
  BY <1>1 DEF Finds, Live
<1>3. Deleted \in Images \cup {Deleted}
  OBVIOUS
<1> QED BY <1>1, <1>2, <1>3, RowChanged

LEMMA InsertedFacts ==
  ASSUME NEW s \in Sessions, NEW v \in [Cols -> Values], NEW x \in InsertedRow(s, v)
  PROVE  x \in Sessions /\ x.stmt = s.stmt /\ x.cursor = s.cursor /\ x.tab = s.tab
<1>1. x = [s EXCEPT !.inserted = @ \cup {v}]
  BY DEF InsertedRow
<1>2. v \in [Cols -> Contents]
  BY DEF Contents
<1> QED BY <1>1, <1>2 DEF Sessions

-----------------------------------------------------------------------------
(***************************************************************************)
(* Steps that leave the rows alone.                                        *)
(***************************************************************************)
(* The rows stay as they are, or the cursor is not usable after the step. *)
LEMMA RowsKept ==
  ASSUME Inv, Usable' => Usable /\ UNCHANGED <<rows, serverNums, pos, seen>> /\ srv'.tab = srv.tab
  PROVE  CopyMatchesCursor' /\ AheadIsUnseen'
<1>1. CASE ~Usable'
  BY <1>1 DEF CopyMatchesCursor, AheadIsUnseen
<1>2. CASE Usable'
  <2>1. Usable /\ UNCHANGED <<rows, serverNums, pos, seen>> /\ srv'.tab = srv.tab
    BY <1>2
  <2>2. Live(srv)' = Live(srv)
    BY <2>1 DEF Live
  <2> QED BY <2>1, <2>2 DEF Inv, CopyMatchesCursor, AheadIsUnseen
<1> QED BY <1>1, <1>2

LEMMA InitInv == Init => Inv
<1> SUFFICES ASSUME Init PROVE Inv
  OBVIOUS
<1>0. MaxRows \in Nat /\ MaxWrites \in Nat
  BY UpdatableBounds
<1>1. SrvOK /\ ~srv.stmt /\ ~srv.cursor
  <2>1. <<>> \in [{} -> Images \cup {Deleted}] /\ DOMAIN <<>> = {}
    OBVIOUS
  <2>2. <<>> \in Tabs
    BY <2>1, TabFacts
  <2> QED BY <2>2 DEF Init, SrvOK, Sessions
<1>2. TypeOK
  <2>1. /\ srv.stmt \in BOOLEAN /\ srv.cursor \in BOOLEAN
        /\ \A k \in DOMAIN srv.tab : srv.tab[k] \in Images \cup {Deleted}
        /\ srv.inserted \subseteq [Cols -> Contents]
    BY <1>1, SessionFacts DEF SrvOK
  <2>2. /\ rows \in Seq(Images) /\ serverNums \in Seq(0 .. MaxRows - 1)
        /\ Len(rows) = Len(serverNums) /\ pos \in -1 .. Len(rows) - 1
    BY DEF Init
  <2>3. seen \in -1 .. MaxRows - 1 /\ writes \in 0 .. MaxWrites
    BY <1>0 DEF Init
  <2>4. /\ connClosed \in BOOLEAN /\ broken \in BOOLEAN /\ closed \in BOOLEAN
        /\ stmtClosed \in BOOLEAN /\ firstErr \in BOOLEAN
        /\ pc = "new" /\ resultID = 0 /\ refused = {}
    BY DEF Init
  <2> QED BY <2>1, <2>2, <2>3, <2>4 DEF TypeOK
<1>3. FlowOK
  BY DEF Init, FlowOK
<1>4. HeldOK
  BY <1>1 DEF Init, HeldOK
<1>5. CopyMatchesCursor /\ AheadIsUnseen
  BY DEF Init, CopyMatchesCursor, AheadIsUnseen, Usable
<1> QED BY <1>1, <1>2, <1>3, <1>4, <1>5 DEF Inv

(* The type of what the server's answer and the state of the connection    *)
(* can change.                                                             *)
ServerTyped ==
  /\ broken \in BOOLEAN /\ srv.stmt \in BOOLEAN /\ srv.cursor \in BOOLEAN
  /\ \A k \in DOMAIN srv.tab : srv.tab[k] \in Images \cup {Deleted}
  /\ srv.inserted \subseteq [Cols -> Contents]

LEMMA ServerTypedNext ==
  ASSUME broken' \in BOOLEAN, srv' \in Sessions
  PROVE  ServerTyped' /\ SrvOK'
<1>1. /\ srv'.stmt \in BOOLEAN /\ srv'.cursor \in BOOLEAN
      /\ \A k \in DOMAIN srv'.tab : srv'.tab[k] \in Images \cup {Deleted}
      /\ srv'.inserted \subseteq [Cols -> Contents]
  BY SessionFacts
<1>2. ServerTyped'
  BY <1>1, Zenon DEF ServerTyped
<1> QED BY <1>2 DEF SrvOK

LEMMA QueryPrepareInv ==
  ASSUME Inv, QueryPrepare
  PROVE  Inv'
<1>0. PICK out \in Outs, updatable \in BOOLEAN :
        /\ execCtx(out, Prepared(srv))
        /\ pc' = IF out # "ok" THEN "failed" ELSE IF updatable THEN "prepared" ELSE "free"
  BY DEF QueryPrepare
<1>a. /\ pc = "new" /\ pc' \in {"prepared", "free", "failed"} /\ (pc' # "failed" => out = "ok")
      /\ (out = "ok" => pc' # "failed")
  BY <1>0 DEF QueryPrepare
<1>b. UNCHANGED <<connClosed, rows, serverNums, pos, resultID, closed, stmtClosed,
                  firstErr, refused, seen, want, writes>>
  BY DEF QueryPrepare, cursor, releases, caller
<1>c. /\ broken' \in BOOLEAN /\ (broken => broken')
      /\ srv' \in Prepared(srv) \/ srv' = srv
      /\ out # "ok" /\ ~broken' => srv' = srv
      /\ connClosed => srv' = srv
  BY <1>0, ExecFacts DEF Inv
<1>d. srv' \in Sessions /\ srv'.cursor = srv.cursor
  BY <1>c, FlagFacts DEF Inv, SrvOK
<1>1. ServerTyped' /\ SrvOK'
  BY <1>c, <1>d, ServerTypedNext
<1>2. TypeOK'
  BY <1>a, <1>b, <1>1, Zenon DEF Inv, TypeOK, ServerTyped
<1>3. FlowOK'
  BY <1>a, <1>b DEF Inv, FlowOK
<1>4. HeldOK'
  <2>1. HeldOK
    BY DEF Inv
  <2>2. connClosed' => ~srv'.stmt /\ ~srv'.cursor
    BY <1>b, <1>c, <2>1, Zenon DEF HeldOK
  <2>3. ~broken' => ~broken
    BY <1>c, Zenon
  <2>4. ~broken' => ~srv'.cursor
    BY <1>a, <1>d, <2>1, <2>3, Zenon DEF HeldOK
  <2>5. ~broken' /\ pc' = "failed" => ~srv'.stmt
    BY <1>a, <1>c, <2>1, <2>3, Zenon DEF HeldOK
  <2> QED BY <1>a, <2>2, <2>4, <2>5 DEF HeldOK
<1>5. CopyMatchesCursor' /\ AheadIsUnseen'
  BY <1>a, RowsKept DEF Usable
<1> QED BY <1>1, <1>2, <1>3, <1>4, <1>5 DEF Inv

LEMMA QueryExecuteFailsInv ==
  ASSUME Inv, QueryExecuteFails
  PROVE  Inv'
<1>0. PICK out \in Outs, n \in 0 .. MaxRows :
        execCtx(out, IF out = "ioErr" THEN Executed(srv, n) ELSE {srv})
  BY DEF QueryExecuteFails
<1>a. pc = "prepared" /\ pc' = "free"
  BY DEF QueryExecuteFails
<1>b. UNCHANGED <<connClosed, rows, serverNums, pos, resultID, closed, stmtClosed,
                  firstErr, refused, seen, want, writes>>
  BY DEF QueryExecuteFails, cursor, releases, caller
<1>c. /\ broken' \in BOOLEAN /\ (broken => broken')
      /\ srv' \in (IF out = "ioErr" THEN Executed(srv, n) ELSE {srv}) \/ srv' = srv
      /\ out = "ok" => srv' \in (IF out = "ioErr" THEN Executed(srv, n) ELSE {srv})
      /\ out # "ok" /\ ~broken' => srv' = srv
      /\ connClosed => srv' = srv
  BY <1>0, ExecFacts DEF Inv
<1>d. srv' \in Sessions
  <2>1. srv' \in Executed(srv, n) \/ srv' = srv
    BY <1>c
  <2> QED BY <2>1, ExecutedFacts DEF Inv, SrvOK
<1>e. ~broken' => srv' = srv
  <2>1. out = "ok" => srv' = srv
    BY <1>c
  <2> QED BY <1>c, <2>1, Zenon
<1>1. ServerTyped' /\ SrvOK'
  BY <1>c, <1>d, ServerTypedNext
<1>2. TypeOK'
  BY <1>a, <1>b, <1>1, Zenon DEF Inv, TypeOK, ServerTyped
<1>3. FlowOK'
  BY <1>a DEF FlowOK
<1>4. HeldOK'
  <2>1. HeldOK
    BY DEF Inv
  <2>2. connClosed' => ~srv'.stmt /\ ~srv'.cursor
    BY <1>b, <1>c, <2>1, Zenon DEF HeldOK
  <2>3. ~broken' => ~broken
    BY <1>c, Zenon
  <2>4. ~broken' => ~srv'.cursor
    BY <1>a, <1>e, <2>1, <2>3, Zenon DEF HeldOK
  <2> QED BY <1>a, <2>2, <2>4 DEF HeldOK
<1>5. CopyMatchesCursor' /\ AheadIsUnseen'
  BY <1>a, RowsKept DEF Usable
<1> QED BY <1>1, <1>2, <1>3, <1>4, <1>5 DEF Inv

(* stmt.Close frees the statement, unless the server refuses that. *)
LEMMA FreeFacts ==
  ASSUME Inv, NEW out \in Outs, freeStmt(out)
  PROVE  /\ broken' \in BOOLEAN /\ (broken => broken') /\ stmtClosed' \in BOOLEAN
         /\ refused' \subseteq {"cursor", "stmt"} /\ refused \subseteq refused'
         /\ srv' \in Sessions /\ srv'.cursor = srv.cursor
         /\ connClosed => srv' = srv
         /\ ~broken' /\ srv'.stmt => out = "refused" /\ "stmt" \in refused'
<1>0. /\ TypeOK /\ srv \in Sessions /\ refused \subseteq {"cursor", "stmt"}
      /\ broken \in BOOLEAN /\ stmtClosed \in BOOLEAN /\ connClosed \in BOOLEAN
      /\ connClosed => ~srv.stmt
  BY DEF Inv, TypeOK, SrvOK, HeldOK
<1>1. CASE connClosed /\ out = "ok" /\ UNCHANGED <<broken, srv, stmtClosed, refused>>
  <2>1. broken' = broken /\ srv' = srv /\ stmtClosed' = stmtClosed /\ refused' = refused
    BY <1>1
  <2>2. refused' \subseteq {"cursor", "stmt"} /\ refused \subseteq refused'
    BY <1>0, <2>1
  <2>3. broken' \in BOOLEAN /\ (broken => broken') /\ stmtClosed' \in BOOLEAN
    BY <1>0, <2>1, Zenon
  <2>4. srv' \in Sessions /\ srv'.cursor = srv.cursor /\ ~srv'.stmt
    BY <1>0, <1>1, <2>1, Zenon
  <2> QED BY <2>1, <2>2, <2>3, <2>4, Zenon
<1>2. CASE /\ ~connClosed /\ stmtClosed' = TRUE /\ execCtx(out, FreedStmt(srv))
           /\ refused' = IF out = "refused" THEN refused \cup {"stmt"} ELSE refused
  <2>1. /\ broken' \in BOOLEAN /\ (broken => broken')
        /\ srv' \in FreedStmt(srv) \/ srv' = srv
        /\ out = "ok" => srv' \in FreedStmt(srv)
        /\ out # "ok" /\ ~broken' => srv' = srv /\ (connClosed \/ out = "refused")
    BY <1>0, <1>2, ExecFacts
  <2>2. srv' \in Sessions /\ srv'.cursor = srv.cursor
    BY <1>0, <2>1, FlagFacts
  <2>3. out = "ok" => ~srv'.stmt
    BY <1>0, <2>1, FlagFacts
  <2>4. refused' \subseteq {"cursor", "stmt"} /\ refused \subseteq refused'
    BY <1>0, <1>2
  <2>5. out = "refused" => "stmt" \in refused'
    BY <1>2
  <2>6. ~broken' /\ srv'.stmt => out = "refused"
    BY <1>2, <2>1, <2>3, Zenon
  <2>7. stmtClosed' \in BOOLEAN
    BY <1>2
  <2> QED BY <1>2, <2>1, <2>2, <2>4, <2>5, <2>6, <2>7, Zenon
<1> QED BY <1>1, <1>2 DEF freeStmt

LEMMA QueryFreesInv ==
  ASSUME Inv, QueryFrees
  PROVE  Inv'
<1>0. PICK out \in Outs : freeStmt(out)
  BY DEF QueryFrees
<1>a. pc = "free" /\ pc' = "failed"
  BY DEF QueryFrees
<1>b. UNCHANGED <<connClosed, rows, serverNums, pos, resultID, closed, firstErr, seen, want, writes>>
  BY DEF QueryFrees, caller
<1>c. /\ broken' \in BOOLEAN /\ (broken => broken') /\ stmtClosed' \in BOOLEAN
      /\ refused' \subseteq {"cursor", "stmt"}
      /\ srv' \in Sessions /\ srv'.cursor = srv.cursor
      /\ connClosed => srv' = srv
      /\ ~broken' /\ srv'.stmt => out = "refused" /\ "stmt" \in refused'
  BY <1>0, FreeFacts
<1>1. ServerTyped' /\ SrvOK'
  BY <1>c, ServerTypedNext
<1>2. TypeOK'
  BY <1>a, <1>b, <1>c, <1>1, Zenon DEF Inv, TypeOK, ServerTyped
<1>3. FlowOK'
  BY <1>a DEF FlowOK
<1>4. HeldOK'
  <2>1. HeldOK
    BY DEF Inv
  <2>2. connClosed' => ~srv'.stmt /\ ~srv'.cursor
    BY <1>b, <1>c, <2>1, Zenon DEF HeldOK
  <2>3. ~broken' => ~srv'.cursor
    BY <1>a, <1>c, <2>1, Zenon DEF HeldOK
  <2> QED BY <1>a, <1>c, <2>2, <2>3 DEF HeldOK
<1>5. CopyMatchesCursor' /\ AheadIsUnseen'
  BY <1>a, RowsKept DEF Usable
<1> QED BY <1>1, <1>2, <1>3, <1>4, <1>5 DEF Inv

LEMMA CloseInv ==
  ASSUME Inv, Close
  PROVE  Inv'
<1>a. /\ pc = "open" /\ pc' \in {"close.cursor", "close.stmt"} /\ resultID = 1
      /\ pc' = "close.stmt" => connClosed
  BY DEF Close, Open, Inv, FlowOK
<1>b. UNCHANGED <<connClosed, broken, rows, serverNums, pos, resultID, stmtClosed,
                  firstErr, refused, srv, seen, want, writes>>
  BY DEF Close, conn, releases, caller
<1>1. TypeOK'
  <2>1. closed' \in BOOLEAN
    BY DEF Close
  <2> QED BY <1>a, <1>b, <2>1, Zenon DEF Inv, TypeOK
<1>2. SrvOK' /\ FlowOK'
  BY <1>a, <1>b DEF Inv, SrvOK, FlowOK
<1>3. HeldOK'
  <2>1. connClosed => ~srv.stmt /\ ~srv.cursor
    BY DEF Inv, HeldOK
  <2> QED BY <1>a, <1>b, <2>1 DEF HeldOK
<1>4. CopyMatchesCursor' /\ AheadIsUnseen'
  BY <1>a, RowsKept DEF Usable
<1> QED BY <1>1, <1>2, <1>3, <1>4 DEF Inv

LEMMA CloseCursorInv ==
  ASSUME Inv, CloseCursor
  PROVE  Inv'
<1>0. PICK out \in Outs :
        /\ execCtx(out, ClosedResult(srv))
        /\ firstErr' = (out # "ok")
        /\ refused' = IF out = "refused" THEN refused \cup {"cursor"} ELSE refused
  BY DEF CloseCursor
<1>a. pc = "close.cursor" /\ pc' = "close.stmt"
  BY DEF CloseCursor
<1>b. UNCHANGED <<connClosed, rows, serverNums, pos, resultID, closed, stmtClosed,
                  seen, want, writes>>
  BY DEF CloseCursor, cursor, caller
<1>c. /\ broken' \in BOOLEAN /\ (broken => broken')
      /\ srv' \in ClosedResult(srv) \/ srv' = srv
      /\ out = "ok" => srv' \in ClosedResult(srv)
      /\ out # "ok" /\ ~broken' => srv' = srv /\ (connClosed \/ out = "refused")
      /\ connClosed => srv' = srv
  BY <1>0, ExecFacts DEF Inv
<1>d. srv' \in Sessions /\ (out = "ok" => ~srv'.cursor)
  BY <1>c, FlagFacts DEF Inv, SrvOK
<1>e. refused' \subseteq {"cursor", "stmt"} /\ (out = "refused" => "cursor" \in refused')
  BY <1>0 DEF Inv, TypeOK
<1>1. ServerTyped' /\ SrvOK'
  BY <1>c, <1>d, ServerTypedNext
<1>2. TypeOK'
  <2>1. firstErr' \in BOOLEAN
    BY <1>0, Zenon
  <2> QED BY <1>a, <1>b, <1>e, <1>1, <2>1, Zenon DEF Inv, TypeOK, ServerTyped
<1>3. FlowOK'
  BY <1>a DEF FlowOK
<1>4. HeldOK'
  <2>1. HeldOK
    BY DEF Inv
  <2>2. connClosed' => ~srv'.stmt /\ ~srv'.cursor
    BY <1>b, <1>c, <2>1, Zenon DEF HeldOK
  <2>3. ~broken' /\ srv'.cursor => out = "refused"
    BY <1>b, <1>c, <1>d, <2>2, Zenon
  <2>4. out = "refused" => firstErr'
    BY <1>0
  <2> QED BY <1>a, <1>e, <2>2, <2>3, <2>4 DEF HeldOK
<1>5. CopyMatchesCursor' /\ AheadIsUnseen'
  BY <1>a, RowsKept DEF Usable
<1> QED BY <1>1, <1>2, <1>3, <1>4, <1>5 DEF Inv

LEMMA CloseStmtInv ==
  ASSUME Inv, CloseStmt
  PROVE  Inv'
<1>0. PICK out \in Outs : freeStmt(out) /\ firstErr' = (firstErr \/ out # "ok")
  BY DEF CloseStmt
<1>a. pc = "close.stmt" /\ pc' = "done"
  BY DEF CloseStmt
<1>b. UNCHANGED <<connClosed, rows, serverNums, pos, resultID, closed, seen, want, writes>>
  BY DEF CloseStmt, caller
<1>c. /\ broken' \in BOOLEAN /\ (broken => broken') /\ stmtClosed' \in BOOLEAN
      /\ refused' \subseteq {"cursor", "stmt"} /\ refused \subseteq refused'
      /\ srv' \in Sessions /\ srv'.cursor = srv.cursor
      /\ connClosed => srv' = srv
      /\ ~broken' /\ srv'.stmt => out = "refused" /\ "stmt" \in refused'
  BY <1>0, FreeFacts
<1>1. ServerTyped' /\ SrvOK'
  BY <1>c, ServerTypedNext
<1>2. TypeOK'
  <2>1. firstErr' \in BOOLEAN
    BY <1>0, Zenon
  <2> QED BY <1>a, <1>b, <1>c, <1>1, <2>1, Zenon DEF Inv, TypeOK, ServerTyped
<1>3. FlowOK'
  BY <1>a DEF FlowOK
<1>4. HeldOK'
  <2>1. HeldOK
    BY DEF Inv
  <2>2. connClosed' => ~srv'.stmt /\ ~srv'.cursor
    BY <1>b, <1>c, <2>1, Zenon DEF HeldOK
  <2>3. ~broken' /\ srv'.cursor => "cursor" \in refused' /\ firstErr'
    <3>1. ~broken' /\ srv'.cursor => ~broken /\ srv.cursor
      BY <1>c, Zenon
    <3>2. ~broken /\ srv.cursor => "cursor" \in refused /\ firstErr
      BY <1>a, <2>1, Zenon DEF HeldOK
    <3> QED BY <1>0, <1>c, <3>1, <3>2, Zenon
  <2>4. out = "refused" => firstErr'
    BY <1>0
  <2>5. ~broken' /\ srv'.stmt => "stmt" \in refused' /\ firstErr'
    BY <1>c, <2>4, Zenon
  <2> QED BY <1>a, <2>2, <2>3, <2>5 DEF HeldOK
<1>5. CopyMatchesCursor' /\ AheadIsUnseen'
  BY <1>a, RowsKept DEF Usable
<1> QED BY <1>1, <1>2, <1>3, <1>4, <1>5 DEF Inv

LEMMA ConnCloseInv ==
  ASSUME Inv, ConnClose
  PROVE  Inv'
<1>a. /\ pc = "open" /\ connClosed' = TRUE
      /\ UNCHANGED <<broken, pc, rows, serverNums, pos, resultID, closed, stmtClosed,
                     firstErr, refused, seen, want, writes>>
  BY DEF ConnClose, cursor, releases, caller
<1>b. srv' \in Sessions /\ ~srv'.stmt /\ ~srv'.cursor /\ srv'.tab = srv.tab
  BY FlagFacts DEF ConnClose, Inv, SrvOK
<1>c. broken' \in BOOLEAN
  BY <1>a, Zenon DEF Inv, TypeOK
<1>1. ServerTyped' /\ SrvOK'
  BY <1>b, <1>c, ServerTypedNext
<1>2. TypeOK'
  <2>1. connClosed' \in BOOLEAN
    BY <1>a
  <2> QED BY <1>a, <1>1, <2>1, Zenon DEF Inv, TypeOK, ServerTyped
<1>3. FlowOK' /\ HeldOK'
  BY <1>a, <1>b DEF Inv, FlowOK, HeldOK
<1>4. CopyMatchesCursor' /\ AheadIsUnseen'
  BY <1>a, <1>b, RowsKept DEF Usable
<1> QED BY <1>1, <1>2, <1>3, <1>4 DEF Inv

LEMMA ScanLobFailsInv ==
  ASSUME Inv, ScanLobFails
  PROVE  Inv'
<1>a. /\ pc = "open" /\ broken' = TRUE
      /\ UNCHANGED <<connClosed, pc, rows, serverNums, pos, resultID, closed, stmtClosed,
                     firstErr, refused, srv, seen, want, writes>>
  BY DEF ScanLobFails, HasCurrent, Open, cursor, releases, caller
<1>1. TypeOK'
  <2>1. broken' \in BOOLEAN
    BY <1>a
  <2> QED BY <1>a, <2>1, Zenon DEF Inv, TypeOK
<1>2. SrvOK' /\ FlowOK' /\ HeldOK'
  BY <1>a DEF Inv, SrvOK, FlowOK, HeldOK
<1>3. CopyMatchesCursor' /\ AheadIsUnseen'
  BY <1>a, RowsKept DEF Usable
<1> QED BY <1>1, <1>2, <1>3 DEF Inv

(* UpdateRow, DeleteRow and InsertRow leave what the server holds alone. *)
LEMMA HeldKept ==
  ASSUME Inv, pc = "open", pc' = "open", resultID' = resultID, connClosed' = connClosed,
         connClosed => srv' = srv
  PROVE  FlowOK' /\ HeldOK'
<1>1. connClosed' => ~srv'.stmt /\ ~srv'.cursor
  BY Zenon DEF Inv, HeldOK
<1> QED BY <1>1 DEF Inv, FlowOK, HeldOK

LEMMA InsertRowInv ==
  ASSUME Inv, NEW values \in UpdateMaps, InsertRow(values)
  PROVE  Inv'
<1>0. PICK out \in Outs, r \in insertRequests(values) : execCtx(out, InsertedRow(srv, r))
  BY DEF InsertRow
<1>a. /\ pc = "open" /\ writes < MaxWrites /\ writes' = writes + 1
      /\ UNCHANGED <<connClosed, pc, rows, serverNums, pos, resultID, closed, stmtClosed,
                     firstErr, refused, seen, want>>
  BY DEF InsertRow, Open, cursor, releases, caller
<1>b. /\ broken' \in BOOLEAN /\ (broken => broken')
      /\ srv' \in InsertedRow(srv, r) \/ srv' = srv
      /\ connClosed => srv' = srv
  BY <1>0, ExecFacts DEF Inv
<1>c. r \in [Cols -> Values]
  BY DEF insertRequests
<1>d. srv' \in Sessions /\ srv'.tab = srv.tab
  BY <1>b, <1>c, InsertedFacts DEF Inv, SrvOK
<1>1. ServerTyped' /\ SrvOK'
  BY <1>b, <1>d, ServerTypedNext
<1>2. TypeOK'
  <2>1. writes' \in 0 .. MaxWrites
    BY <1>a, UpdatableBounds DEF Inv, TypeOK
  <2> QED BY <1>a, <1>1, <2>1, Zenon DEF Inv, TypeOK, ServerTyped
<1>3. FlowOK' /\ HeldOK'
  BY <1>a, <1>b, HeldKept
<1>4. CopyMatchesCursor' /\ AheadIsUnseen'
  <2>1. Usable' => Usable
    BY <1>a, <1>b, Zenon DEF Usable
  <2> QED BY <1>a, <1>d, <2>1, RowsKept
<1> QED BY <1>1, <1>2, <1>3, <1>4 DEF Inv

-----------------------------------------------------------------------------
(***************************************************************************)
(* Steps that move over the rows or change them.                           *)
(***************************************************************************)
(* CopyMatchesCursor, position by position. *)
LEMMA CopyFacts ==
  ASSUME Inv, Usable
  PROVE  /\ Len(rows) \in Nat /\ Len(serverNums) = Len(rows)
         /\ DOMAIN rows = 1 .. Len(rows) /\ DOMAIN serverNums = 1 .. Len(rows)
         /\ \A i \in 1 .. Len(rows) :
              serverNums[i] \in Int /\ serverNums[i] \in Live(srv) /\ rows[i] = srv.tab[serverNums[i]]
         /\ \A k \in Live(srv) : k \in Int /\ \E i \in 1 .. Len(rows) : serverNums[i] = k
         /\ \A i, j \in 1 .. Len(rows) : i < j => serverNums[i] < serverNums[j]
<1>1. /\ rows \in Seq(Images) /\ serverNums \in Seq(0 .. MaxRows - 1)
      /\ Len(rows) = Len(serverNums)
  BY DEF Inv, TypeOK
<1>2. /\ Len(rows) \in Nat /\ DOMAIN rows = 1 .. Len(rows)
      /\ DOMAIN serverNums = 1 .. Len(rows)
      /\ \A i \in 1 .. Len(rows) : serverNums[i] \in Int
  <2>1. Len(rows) \in Nat /\ DOMAIN rows = 1 .. Len(rows) /\ DOMAIN serverNums = 1 .. Len(rows)
    BY <1>1
  <2>2. ASSUME NEW i \in 1 .. Len(rows) PROVE serverNums[i] \in Int
    <3>1. serverNums[i] \in 0 .. MaxRows - 1
      BY <1>1, ElementOfSeq
    <3> QED BY <3>1
  <2> QED BY <2>1, <2>2
<1>3. /\ \A i \in DOMAIN rows : rows[i] = srv.tab[serverNums[i]]
      /\ Range(serverNums) = Live(srv)
      /\ \A i, j \in DOMAIN serverNums : i < j => serverNums[i] < serverNums[j]
  BY DEF Inv, CopyMatchesCursor
<1>4. \A i \in 1 .. Len(rows) : serverNums[i] \in Live(srv)
  BY <1>2, <1>3 DEF Range
<1>5. \A k \in Live(srv) : \E i \in 1 .. Len(rows) : serverNums[i] = k
  BY <1>2, <1>3 DEF Range
<1>6. \A k \in Live(srv) : k \in Int
  BY <1>2, <1>5
<1> QED BY <1>1, <1>2, <1>3, <1>4, <1>5, <1>6

LEMMA NextRowInv ==
  ASSUME Inv, NextRow
  PROVE  Inv'
<1>a. /\ pc = "open" /\ pos + 1 < Len(rows) /\ pos' = pos + 1 /\ seen' = serverNums[pos + 2]
      /\ UNCHANGED <<connClosed, broken, pc, rows, serverNums, resultID, closed, stmtClosed,
                     firstErr, refused, srv, want, writes>>
  BY DEF NextRow, Open, conn, releases
<1>b. /\ rows \in Seq(Images) /\ serverNums \in Seq(0 .. MaxRows - 1)
      /\ Len(rows) = Len(serverNums) /\ pos \in -1 .. Len(rows) - 1
      /\ Len(rows) \in Nat /\ MaxRows \in Nat
  BY UpdatableBounds DEF Inv, TypeOK
<1>1. TypeOK'
  <2>1. pos' \in -1 .. Len(rows') - 1
    BY <1>a, <1>b
  <2>2. pos + 2 \in 1 .. Len(serverNums)
    BY <1>a, <1>b
  <2>3. seen' \in 0 .. MaxRows - 1
    BY <1>a, <1>b, <2>2
  <2>4. seen' \in -1 .. MaxRows - 1
    BY <1>b, <2>3
  <2> QED BY <1>a, <2>1, <2>4, Zenon DEF Inv, TypeOK
<1>2. SrvOK' /\ FlowOK' /\ HeldOK'
  BY <1>a DEF Inv, SrvOK, FlowOK, HeldOK
<1>3. Usable' => Usable
  BY <1>a DEF Usable
<1>4. CopyMatchesCursor'
  BY <1>a, <1>3 DEF Inv, CopyMatchesCursor, Live
<1>5. AheadIsUnseen'
  <2> SUFFICES ASSUME Usable
               PROVE  {serverNums[i] : i \in (pos + 1) + 2 .. Len(rows)}
                        = {k \in Live(srv) : k > serverNums[pos + 2]}
    BY <1>a, <1>3 DEF AheadIsUnseen, Live
  <2> DEFINE N == Len(rows)
             p == pos + 2
  <2>0. p \in 1 .. N /\ (pos + 1) + 2 = p + 1 /\ N \in Nat
    BY <1>a, <1>b
  <2>1. /\ \A i \in 1 .. N : serverNums[i] \in Int /\ serverNums[i] \in Live(srv)
        /\ \A k \in Live(srv) : k \in Int /\ \E i \in 1 .. N : serverNums[i] = k
        /\ \A i, j \in 1 .. N : i < j => serverNums[i] < serverNums[j]
    BY CopyFacts
  <2> HIDE DEF N, p
  <2>2. ASSUME NEW i \in p + 1 .. N
        PROVE  serverNums[i] \in Live(srv) /\ serverNums[i] > serverNums[p]
    <3>1. i \in 1 .. N /\ p < i
      BY <2>0
    <3>2. serverNums[p] < serverNums[i]
      BY <2>0, <2>1, <3>1
    <3> QED BY <2>0, <2>1, <3>1, <3>2
  <2>3. ASSUME NEW k \in Live(srv), k > serverNums[p]
        PROVE  \E i \in p + 1 .. N : serverNums[i] = k
    <3>1. PICK i \in 1 .. N : serverNums[i] = k
      BY <2>1
    <3>2. serverNums[p] \in Int /\ k \in Int
      BY <2>0, <2>1
    <3>3. ~(i < p) /\ i # p
      BY <2>0, <2>1, <2>3, <3>1, <3>2
    <3>4. i \in p + 1 .. N
      BY <2>0, <3>3
    <3> QED BY <3>1, <3>4
  <2>4. {serverNums[i] : i \in p + 1 .. N} = {k \in Live(srv) : k > serverNums[p]}
    BY <2>2, <2>3
  <2> QED BY <2>0, <2>4 DEF N, p
<1> QED BY <1>1, <1>2, <1>4, <1>5 DEF Inv

LEMMA QueryExecuteInv ==
  ASSUME Inv, QueryExecute
  PROVE  Inv'
<1>0. PICK n \in 0 .. MaxRows :
        /\ execCtx("ok", Executed(srv, n))
        /\ rows' = [i \in 1 .. n |-> srv'.tab[i - 1]]
        /\ serverNums' = [i \in 1 .. n |-> i - 1]
  BY DEF QueryExecute
<1>a. /\ pc = "prepared" /\ pc' = "open" /\ pos' = -1 /\ resultID' = 1 /\ n \in Nat
      /\ UNCHANGED <<connClosed, closed, stmtClosed, firstErr, refused, seen, writes>>
      /\ MaxRows \in Nat
  BY UpdatableBounds DEF QueryExecute, releases
<1>b. broken' \in BOOLEAN /\ ~connClosed /\ ~broken' /\ srv' \in Executed(srv, n)
  <2>1. "ok" \in Outs
    BY DEF Outs
  <2> QED BY <1>0, <2>1, ExecFacts DEF Inv
<1>c. /\ srv' \in Sessions /\ DOMAIN srv'.tab = 0 .. n - 1
      /\ \A k \in 0 .. n - 1 : srv'.tab[k] \in Images
  BY <1>b, ExecutedFacts DEF Inv, SrvOK
<1>d. /\ rows' \in Seq(Images) /\ Len(rows') = n
      /\ serverNums' \in Seq(0 .. MaxRows - 1) /\ Len(serverNums') = n
  <2>1. \A i \in 1 .. n : i - 1 \in 0 .. n - 1 /\ i - 1 \in 0 .. MaxRows - 1
    BY <1>a
  <2> QED BY <1>0, <1>a, <1>c, <2>1
<1>1. ServerTyped' /\ SrvOK'
  BY <1>b, <1>c, ServerTypedNext
<1>2. TypeOK'
  <2>1. pos' \in -1 .. Len(rows') - 1 /\ Len(rows') = Len(serverNums')
    BY <1>a, <1>d
  <2>2. resultID' \in {0, 1}
    BY <1>a
  <2> QED BY <1>a, <1>d, <1>1, <2>1, <2>2, Zenon DEF Inv, TypeOK, ServerTyped
<1>3. FlowOK'
  BY <1>a DEF FlowOK
<1>4. HeldOK'
  BY <1>a, <1>b DEF HeldOK
<1>5. Live(srv)' = 0 .. n - 1
  BY <1>c, ImageFacts DEF Live
<1>6. \A i \in 1 .. n : serverNums'[i] = i - 1 /\ rows'[i] = srv'.tab[i - 1]
  BY <1>0
<1>7. {serverNums'[i] : i \in 1 .. n} = 0 .. n - 1
  <2>1. ASSUME NEW i \in 1 .. n PROVE serverNums'[i] \in 0 .. n - 1
    BY <1>a, <1>6
  <2>2. ASSUME NEW k \in 0 .. n - 1 PROVE \E i \in 1 .. n : serverNums'[i] = k
    <3>1. k + 1 \in 1 .. n /\ (k + 1) - 1 = k
      BY <1>a
    <3> QED BY <1>6, <3>1
  <2> QED BY <2>1, <2>2
<1>8. CopyMatchesCursor'
  <2>1. DOMAIN rows' = 1 .. n /\ DOMAIN serverNums' = 1 .. n
    BY <1>0
  <2>2. Range(serverNums)' = Live(srv)'
    BY <1>5, <1>7, <2>1 DEF Range
  <2>3. \A i \in DOMAIN rows' : rows'[i] = srv'.tab[serverNums'[i]]
    BY <1>6, <2>1
  <2>4. \A i, j \in DOMAIN serverNums' : i < j => serverNums'[i] < serverNums'[j]
    BY <1>6, <2>1
  <2> QED BY <2>2, <2>3, <2>4 DEF CopyMatchesCursor
<1>9. AheadIsUnseen'
  <2>1. seen' = -1 /\ pos' + 2 = 1
    BY <1>a DEF Inv, FlowOK
  <2>2. {k \in 0 .. n - 1 : k > -1} = 0 .. n - 1
    OBVIOUS
  <2>3. {serverNums'[i] : i \in pos' + 2 .. Len(rows')} = {k \in Live(srv)' : k > seen'}
    BY <1>5, <1>7, <1>d, <2>1, <2>2
  <2> QED BY <2>3 DEF AheadIsUnseen
<1> QED BY <1>1, <1>2, <1>3, <1>4, <1>8, <1>9 DEF Inv

(* The row the position is on. *)
LEMMA CurrentFacts ==
  ASSUME Inv, HasCurrent
  PROVE  /\ pc = "open" /\ pos + 1 \in 1 .. Len(rows) /\ pos \in Int
         /\ rows \in Seq(Images) /\ serverNums \in Seq(0 .. MaxRows - 1)
         /\ Len(rows) = Len(serverNums) /\ Len(rows) \in Nat
         /\ serverNums[pos + 1] \in 0 .. MaxRows - 1
         /\ rows[pos + 1] \in Images /\ rows[pos + 1].id \in RowIDs
<1>1. /\ rows \in Seq(Images) /\ serverNums \in Seq(0 .. MaxRows - 1)
      /\ Len(rows) = Len(serverNums) /\ pos \in -1 .. Len(rows) - 1
  BY DEF Inv, TypeOK
<1>2. pc = "open" /\ pos + 1 \in 1 .. Len(rows) /\ pos \in Int /\ Len(rows) \in Nat
  BY <1>1 DEF HasCurrent, Open
<1>3. serverNums[pos + 1] \in 0 .. MaxRows - 1
  <2>1. pos + 1 \in 1 .. Len(serverNums)
    BY <1>1, <1>2
  <2> QED BY <1>1, <2>1, ElementOfSeq
<1>4. rows[pos + 1] \in Images
  BY <1>1, <1>2, ElementOfSeq
<1> QED BY <1>1, <1>2, <1>3, <1>4, ImageFacts

LEMMA UpdateRowInv ==
  ASSUME Inv, NEW updates \in UpdateMaps, UpdateRow(updates)
  PROVE  Inv'
<1> DEFINE num == serverNums[pos + 1]
           id == rows[pos + 1].id
<1>0. PICK out \in Outs, r \in updateRequests(updates) :
        /\ execCtx(out, Updated(srv, num, id, r))
        /\ IF out = "ok" THEN rows' = mergeUpdatedRows(num, srv'.tab[num]) ELSE rows' = rows
  BY DEF UpdateRow
<1>a. /\ HasCurrent /\ writes < MaxWrites /\ writes' = writes + 1
      /\ UNCHANGED <<connClosed, pc, serverNums, pos, resultID, closed, stmtClosed,
                     firstErr, refused, seen>>
  BY DEF UpdateRow, releases
<1>b. /\ pc = "open" /\ rows \in Seq(Images) /\ serverNums \in Seq(0 .. MaxRows - 1)
      /\ Len(rows) = Len(serverNums) /\ Len(rows) \in Nat /\ id \in RowIDs
  BY <1>a, CurrentFacts
<1>c. /\ broken' \in BOOLEAN /\ (broken => broken')
      /\ srv' \in Updated(srv, num, id, r) \/ srv' = srv
      /\ out = "ok" => srv' \in Updated(srv, num, id, r) /\ ~broken
      /\ out # "ok" /\ ~broken' => srv' = srv
      /\ connClosed => srv' = srv
  BY <1>0, ExecFacts DEF Inv
<1>d. r \in [Cols -> Values \cup {NotUpdated}]
  BY DEF updateRequests
<1> HIDE DEF num, id
<1>e. ASSUME srv' \in Updated(srv, num, id, r)
      PROVE  /\ num \in Live(srv) /\ srv' \in Sessions /\ DOMAIN srv'.tab = DOMAIN srv.tab
             /\ srv'.tab[num] \in Images
             /\ \A k \in DOMAIN srv.tab \ {num} : srv'.tab[k] = srv.tab[k]
  <2>1. TypeOK /\ srv \in Sessions /\ writes < MaxWrites
    BY <1>a DEF Inv, SrvOK
  <2>2. id \in RowIDs
    BY <1>b
  <2>3. \A x \in Updated(srv, num, id, r) :
          /\ num \in Live(srv) /\ x \in Sessions /\ DOMAIN x.tab = DOMAIN srv.tab
          /\ x.tab[num] \in Images
          /\ \A k \in DOMAIN srv.tab \ {num} : x.tab[k] = srv.tab[k]
    <3> USE <2>1, <2>2, <1>d
    <3> TAKE x \in Updated(srv, num, id, r)
    <3> QED BY UpdatedFacts
  <2> QED BY <1>e, <2>3
<1>f. srv' \in Sessions
  BY <1>c, <1>e DEF Inv, SrvOK
<1>1. ServerTyped' /\ SrvOK'
  BY <1>c, <1>f, ServerTypedNext
<1>2. /\ rows' \in Seq(Images) /\ Len(rows') = Len(rows)
      /\ out = "ok" => \A i \in 1 .. Len(rows) :
           rows'[i] = IF serverNums[i] = num THEN srv'.tab[num] ELSE rows[i]
  <2>1. CASE out = "ok"
    <3>1. srv'.tab[num] \in Images
      BY <1>c, <1>e, <2>1
    <3>2. rows' = [i \in 1 .. Len(rows) |-> IF serverNums[i] = num THEN srv'.tab[num] ELSE rows[i]]
      BY <1>0, <1>b, <2>1 DEF mergeUpdatedRows
    <3>3. \A i \in 1 .. Len(rows) : rows[i] \in Images
      BY <1>b
    <3> QED BY <1>b, <3>1, <3>2, <3>3
  <2>2. CASE out # "ok"
    BY <1>0, <1>b, <2>2
  <2> QED BY <2>1, <2>2
<1>3. TypeOK'
  <2>1. writes' \in 0 .. MaxWrites
    BY <1>a, UpdatableBounds DEF Inv, TypeOK
  <2>2. Len(rows') = Len(serverNums') /\ pos' \in -1 .. Len(rows') - 1
    BY <1>a, <1>2 DEF Inv, TypeOK
  <2> QED BY <1>a, <1>1, <1>2, <2>1, <2>2, Zenon DEF Inv, TypeOK, ServerTyped
<1>4. FlowOK' /\ HeldOK'
  BY <1>a, <1>b, <1>c, HeldKept
<1>5. CopyMatchesCursor' /\ AheadIsUnseen'
  <2>1. CASE out # "ok"
    <3>1. Usable' => Usable /\ srv' = srv
      BY <1>a, <1>c, <2>1, Zenon DEF Usable
    <3>2. rows' = rows
      BY <1>0, <2>1
    <3> QED BY <1>a, <3>1, <3>2, RowsKept
  <2>2. CASE out = "ok"
    <3>0. Usable
      BY <1>b, <1>c, <2>2 DEF Usable
    <3>1. /\ num \in Live(srv) /\ DOMAIN srv'.tab = DOMAIN srv.tab
          /\ srv'.tab[num] # Deleted
          /\ \A k \in DOMAIN srv.tab \ {num} : srv'.tab[k] = srv.tab[k]
      BY <1>c, <1>e, <2>2, ImageFacts
    <3>2. Live(srv)' = Live(srv)
      BY <3>1 DEF Live
    <3>3. ASSUME NEW i \in 1 .. Len(rows) PROVE rows'[i] = srv'.tab[serverNums[i]]
      <4>1. serverNums[i] \in DOMAIN srv.tab /\ rows[i] = srv.tab[serverNums[i]]
        BY <3>0, CopyFacts DEF Live
      <4> QED BY <1>2, <2>2, <3>1, <4>1
    <3>4. DOMAIN rows' = 1 .. Len(rows)
      BY <1>2
    <3>5. CopyMatchesCursor'
      BY <1>a, <3>0, <3>2, <3>3, <3>4 DEF Inv, CopyMatchesCursor
    <3>6. AheadIsUnseen'
      BY <1>a, <1>2, <3>0, <3>2 DEF Inv, AheadIsUnseen
    <3> QED BY <3>5, <3>6
  <2> QED BY <2>1, <2>2
<1> QED BY <1>1, <1>3, <1>4, <1>5 DEF Inv

(* Compacting the copy: position j holds what position up(j) held. *)
LEMMA DeleteRowInv ==
  ASSUME Inv, DeleteRow
  PROVE  Inv'
<1> DEFINE p == pos + 1
           N == Len(rows)
           num == serverNums[p]
           id == rows[p].id
           up(j) == IF j < p THEN j ELSE j + 1
<1>0. PICK out \in Outs :
        /\ execCtx(out, DeletedRow(srv, num, id))
        /\ IF out = "ok" THEN /\ rows' = RemoveAt(rows, p)
                              /\ serverNums' = RemoveAt(serverNums, p)
                              /\ pos' = pos - 1
                         ELSE UNCHANGED <<rows, serverNums, pos>>
  BY DEF DeleteRow
<1>a. /\ HasCurrent
      /\ UNCHANGED <<connClosed, pc, resultID, closed, stmtClosed, firstErr, refused,
                     seen, want, writes>>
  BY DEF DeleteRow, releases, caller
<1>b. /\ pc = "open" /\ rows \in Seq(Images) /\ serverNums \in Seq(0 .. MaxRows - 1)
      /\ Len(serverNums) = N /\ N \in Nat /\ p \in 1 .. N /\ pos \in Int /\ pos = p - 1
  BY <1>a, CurrentFacts
<1>c. /\ broken' \in BOOLEAN /\ (broken => broken')
      /\ srv' \in DeletedRow(srv, num, id) \/ srv' = srv
      /\ out = "ok" => srv' \in DeletedRow(srv, num, id) /\ ~broken
      /\ out # "ok" /\ ~broken' => srv' = srv
      /\ connClosed => srv' = srv
  BY <1>0, ExecFacts DEF Inv
<1>d. ASSUME srv' \in DeletedRow(srv, num, id)
      PROVE  /\ num \in Live(srv) /\ srv' \in Sessions /\ DOMAIN srv'.tab = DOMAIN srv.tab
             /\ srv'.tab[num] = Deleted
             /\ \A k \in DOMAIN srv.tab \ {num} : srv'.tab[k] = srv.tab[k]
  BY <1>d, DeletedFacts DEF Inv, SrvOK
<1>e. srv' \in Sessions
  BY <1>c, <1>d DEF Inv, SrvOK
<1> HIDE DEF p, N, num, id
<1>1. ServerTyped' /\ SrvOK'
  BY <1>c, <1>e, ServerTypedNext
<1>2. FlowOK' /\ HeldOK'
  BY <1>a, <1>b, <1>c, HeldKept
<1>3. CASE out # "ok"
  <2>1. UNCHANGED <<rows, serverNums, pos>>
    BY <1>0, <1>3
  <2>2. TypeOK'
    BY <1>a, <1>1, <2>1, Zenon DEF Inv, TypeOK, ServerTyped
  <2>3. Usable' => Usable /\ srv' = srv
    BY <1>a, <1>c, <1>3, Zenon DEF Usable
  <2>4. CopyMatchesCursor' /\ AheadIsUnseen'
    BY <1>a, <2>1, <2>3, RowsKept
  <2> QED BY <1>1, <1>2, <2>2, <2>4 DEF Inv
<1>4. CASE out = "ok"
  <2>1. /\ rows' = RemoveAt(rows, p) /\ serverNums' = RemoveAt(serverNums, p)
        /\ pos' = pos - 1
    BY <1>0, <1>4
  <2>2. /\ rows' \in Seq(Images) /\ Len(rows') = N - 1
        /\ \A j \in 1 .. N - 1 : rows'[j] = rows[up(j)]
    <3>1. Len(rows) = N /\ p \in 1 .. Len(rows)
      BY <1>b DEF N
    <3>2. /\ RemoveAt(rows, p) \in Seq(Images) /\ Len(RemoveAt(rows, p)) = Len(rows) - 1
          /\ \A j \in 1 .. Len(rows) - 1 : RemoveAt(rows, p)[j] = IF j < p THEN rows[j] ELSE rows[j + 1]
      BY <1>b, <3>1, RemoveAtFacts
    <3> QED BY <2>1, <3>1, <3>2
  <2>3. /\ serverNums' \in Seq(0 .. MaxRows - 1) /\ Len(serverNums') = N - 1
        /\ \A j \in 1 .. N - 1 : serverNums'[j] = serverNums[up(j)]
    <3>1. Len(serverNums) = N /\ p \in 1 .. Len(serverNums)
      BY <1>b
    <3>2. /\ RemoveAt(serverNums, p) \in Seq(0 .. MaxRows - 1)
          /\ Len(RemoveAt(serverNums, p)) = Len(serverNums) - 1
          /\ \A j \in 1 .. Len(serverNums) - 1 :
               RemoveAt(serverNums, p)[j] = IF j < p THEN serverNums[j] ELSE serverNums[j + 1]
      BY <1>b, <3>1, RemoveAtFacts
    <3> QED BY <2>1, <3>1, <3>2
  <2>4. TypeOK'
    <3>1. Len(rows') = Len(serverNums') /\ pos' \in -1 .. Len(rows') - 1
      BY <1>b, <2>1, <2>2, <2>3
    <3> QED BY <1>a, <1>1, <2>2, <2>3, <3>1, Zenon DEF Inv, TypeOK, ServerTyped
  <2>5. Usable
    BY <1>b, <1>c, <1>4 DEF Usable
  <2>6. /\ \A i \in 1 .. N : /\ serverNums[i] \in Int /\ serverNums[i] \in Live(srv)
                            /\ rows[i] = srv.tab[serverNums[i]]
        /\ \A k \in Live(srv) : k \in Int /\ \E i \in 1 .. N : serverNums[i] = k
        /\ \A i, j \in 1 .. N : i < j => serverNums[i] < serverNums[j]
    BY <2>5, CopyFacts DEF N
  <2>7. /\ num \in Live(srv) /\ num = serverNums[p] /\ num \in Int
        /\ DOMAIN srv'.tab = DOMAIN srv.tab /\ srv'.tab[num] = Deleted
        /\ \A k \in DOMAIN srv.tab \ {num} : srv'.tab[k] = srv.tab[k]
    BY <1>b, <1>c, <1>d, <1>4, <2>6 DEF num
  <2>8. Live(srv)' = Live(srv) \ {num}
    BY <2>7 DEF Live
  <2>9. ASSUME NEW j \in 1 .. N - 1
        PROVE  up(j) \in 1 .. N /\ up(j) # p /\ serverNums[up(j)] # num
    <3>1. up(j) \in 1 .. N /\ up(j) # p /\ (up(j) < p \/ p < up(j))
      BY <1>b
    <3> HIDE DEF up
    <3>2. serverNums[up(j)] < num \/ num < serverNums[up(j)]
      BY <1>b, <2>6, <2>7, <3>1
    <3>3. serverNums[up(j)] \in Int
      BY <2>6, <3>1
    <3> QED BY <2>7, <3>1, <3>2, <3>3
  <2>10. ASSUME NEW i \in 1 .. N, i # p PROVE \E j \in 1 .. N - 1 : up(j) = i
    <3>1. CASE i < p
      BY <1>b, <3>1
    <3>2. CASE p < i
      <4>1. i - 1 \in 1 .. N - 1 /\ up(i - 1) = i
        BY <1>b, <3>2
      <4> QED BY <4>1
    <3> QED BY <1>b, <2>10, <3>1, <3>2
  <2>11. ASSUME NEW i \in 1 .. N - 1, NEW j \in 1 .. N - 1, i < j PROVE up(i) < up(j)
    BY <1>b, <2>11
  <2>12. CopyMatchesCursor'
    <3>1. DOMAIN rows' = 1 .. N - 1 /\ DOMAIN serverNums' = 1 .. N - 1
      BY <2>2, <2>3
    <3>2. ASSUME NEW j \in 1 .. N - 1 PROVE rows'[j] = srv'.tab[serverNums'[j]]
      <4>1. rows[up(j)] = srv.tab[serverNums[up(j)]] /\ serverNums[up(j)] \in DOMAIN srv.tab \ {num}
        BY <2>6, <2>9 DEF Live
      <4> QED BY <2>2, <2>3, <2>7, <4>1
    <3> HIDE DEF up
    <3>3. ASSUME NEW j \in 1 .. N - 1 PROVE serverNums'[j] \in Live(srv) \ {num}
      BY <2>3, <2>6, <2>9
    <3>4. ASSUME NEW k \in Live(srv) \ {num} PROVE \E j \in 1 .. N - 1 : serverNums'[j] = k
      <4>1. PICK i \in 1 .. N : serverNums[i] = k
        BY <2>6
      <4>2. i # p
        BY <2>7, <4>1
      <4>3. PICK j \in 1 .. N - 1 : up(j) = i
        BY <2>10, <4>2
      <4> QED BY <2>3, <4>1, <4>3
    <3>5. Range(serverNums)' = Live(srv)'
      BY <2>8, <3>1, <3>3, <3>4 DEF Range
    <3>6. ASSUME NEW i \in 1 .. N - 1, NEW j \in 1 .. N - 1, i < j
          PROVE  serverNums'[i] < serverNums'[j]
      BY <2>3, <2>6, <2>9, <2>11, <3>6
    <3> QED BY <3>1, <3>2, <3>5, <3>6 DEF CopyMatchesCursor
  <2>13. AheadIsUnseen'
    <3>1. {serverNums[i] : i \in p + 1 .. N} = {k \in Live(srv) : k > seen}
      <4>1. pos + 2 = p + 1
        BY <1>b
      <4> QED BY <2>5, <4>1 DEF Inv, AheadIsUnseen, N
    <3>2. ~(num > seen)
      <4> SUFFICES ASSUME num > seen PROVE FALSE
        OBVIOUS
      <4>1. PICK i \in p + 1 .. N : serverNums[i] = num
        BY <2>7, <3>1
      <4>2. i \in 1 .. N /\ p < i
        BY <1>b
      <4> QED BY <1>b, <2>6, <2>7, <4>1, <4>2
    <3>3. ASSUME NEW j \in p .. N - 1 PROVE serverNums'[j] = serverNums[j + 1]
      <4>1. j \in 1 .. N - 1 /\ up(j) = j + 1
        BY <1>b
      <4> QED BY <2>3, <4>1
    <3>4. {serverNums'[i] : i \in p .. N - 1} = {serverNums[i] : i \in p + 1 .. N}
      <4>1. ASSUME NEW i \in p .. N - 1 PROVE \E j \in p + 1 .. N : serverNums'[i] = serverNums[j]
        <5>1. i + 1 \in p + 1 .. N
          BY <1>b
        <5> QED BY <3>3, <5>1
      <4>2. ASSUME NEW j \in p + 1 .. N PROVE \E i \in p .. N - 1 : serverNums'[i] = serverNums[j]
        <5>1. j - 1 \in p .. N - 1 /\ (j - 1) + 1 = j
          BY <1>b
        <5> QED BY <3>3, <5>1
      <4> QED BY <4>1, <4>2
    <3>5. {k \in Live(srv)' : k > seen} = {k \in Live(srv) : k > seen}
      BY <2>8, <3>2
    <3>6. pos' + 2 = p /\ Len(rows') = N - 1 /\ seen' = seen
      BY <1>a, <1>b, <2>1, <2>2
    <3> QED BY <3>1, <3>4, <3>5, <3>6 DEF AheadIsUnseen
  <2> QED BY <1>1, <1>2, <2>4, <2>12, <2>13 DEF Inv
<1> QED BY <1>3, <1>4

-----------------------------------------------------------------------------
(***************************************************************************)
(* The theorems on the copy, the position and the releases.                *)
(***************************************************************************)
LEMMA StepInv == Inv /\ [Next]_vars => Inv'
<1> SUFFICES ASSUME Inv, [Next]_vars PROVE Inv'
  OBVIOUS
<1>1. CASE QueryPrepare \/ QueryExecuteFails \/ QueryExecute \/ QueryFrees
  BY <1>1, QueryPrepareInv, QueryExecuteFailsInv, QueryExecuteInv, QueryFreesInv
<1>2. CASE NextRow \/ ScanLobFails \/ DeleteRow
  BY <1>2, NextRowInv, ScanLobFailsInv, DeleteRowInv
<1>3. CASE \E updates \in UpdateMaps : UpdateRow(updates) \/ InsertRow(updates)
  BY <1>3, UpdateRowInv, InsertRowInv
<1>4. CASE Close \/ CloseCursor \/ CloseStmt \/ ConnClose
  BY <1>4, CloseInv, CloseCursorInv, CloseStmtInv, ConnCloseInv
<1>5. CASE UNCHANGED vars
  <2>1. UNCHANGED <<connClosed, broken, pc, rows, serverNums, pos, resultID, closed>>
    BY <1>5 DEF vars
  <2>2. UNCHANGED <<stmtClosed, firstErr, srv, seen, want, refused, writes>>
    BY <1>5 DEF vars
  <2>3. TypeOK'
    BY <2>1, <2>2, ZenonT(40) DEF Inv, TypeOK
  <2>4. SrvOK' /\ FlowOK' /\ HeldOK'
    BY <2>1, <2>2, Zenon DEF Inv, SrvOK, FlowOK, HeldOK
  <2>5. CopyMatchesCursor' /\ AheadIsUnseen'
    BY <2>1, <2>2, RowsKept DEF Usable
  <2> QED BY <2>3, <2>4, <2>5 DEF Inv
<1> QED BY <1>1, <1>2, <1>3, <1>4, <1>5 DEF Next

LEMMA Invariance == Spec => []Inv
  BY InitInv, StepInv, PTL DEF Spec

(* Every variable stays in its type: rows and serverNums keep one length,  *)
(* and pos stays within them.                                              *)
THEOREM UpdatableTypeCorrect == Spec => []TypeOK
<1>1. Inv => TypeOK
  BY DEF Inv
<1> QED BY <1>1, Invariance, PTL

(* However many rows UpdateRow and DeleteRow (updatable.go) change and     *)
(* remove, in whatever order, the client's copy stays the server's cursor, *)
(* so that every request names the row it is meant for.                    *)
THEOREM CopyIsTheCursor == Spec => []CopyMatchesCursor
<1>1. Inv => CopyMatchesCursor
  BY DEF Inv
<1> QED BY <1>1, Invariance, PTL

(* The step back DeleteRow takes is right for every position: Next goes on *)
(* with the first live row it has not selected.                            *)
THEOREM NextSkipsNothing == Spec => []AheadIsUnseen
<1>1. Inv => AheadIsUnseen
  BY DEF Inv
<1> QED BY <1>1, Invariance, PTL

(* QueryUpdatable and Close release what they opened, whichever of their   *)
(* round trips fails, and Close reports what it could not release.         *)
THEOREM CursorsAreReleased == Spec => []NothingLeaks
<1>1. Inv => NothingLeaks
  <2> SUFFICES ASSUME Inv, pc \in {"failed", "done"}, ~broken
               PROVE  /\ srv.stmt => "stmt" \in refused
                      /\ srv.cursor => "cursor" \in refused
                      /\ pc = "done" /\ (srv.stmt \/ srv.cursor) => firstErr
    BY DEF NothingLeaks
  <2>1. HeldOK
    BY DEF Inv
  <2>2. CASE pc = "failed"
    BY <2>1, <2>2 DEF HeldOK
  <2>3. CASE pc = "done"
    BY <2>1, <2>3 DEF HeldOK
  <2> QED BY <2>2, <2>3
<1> QED BY <1>1, Invariance, PTL

-----------------------------------------------------------------------------
(***************************************************************************)
(* UpdateRow writes the columns that its keys fit.                         *)
(***************************************************************************)
(* A set of natural numbers that is not empty has a least element. *)
LEMMA LeastNat ==
  ASSUME NEW T \in SUBSET Nat, T # {}
  PROVE  \E x \in T : \A y \in T : x <= y
<1>1. IsWellFoundedOn(OpToRel(<, Nat), Nat)
  BY NatLessThanWellFounded
<1>2. PICK x \in T : \A y \in T : ~ (<<y, x>> \in OpToRel(<, Nat))
  BY <1>1, WFMin
<1>3. ASSUME NEW y \in T PROVE x <= y
  <2>1. OpToRel(<, Nat) = {ss \in Nat \X Nat : ss[1] < ss[2]}
    BY DEF OpToRel
  <2>2. ~(<<y, x>> \in {ss \in Nat \X Nat : ss[1] < ss[2]})
    BY <1>2, <2>1
  <2>3. y \in Nat /\ x \in Nat
    OBVIOUS
  <2>4. ~(y < x)
    BY <2>2, <2>3
  <2> QED BY <2>3, <2>4
<1> QED BY <1>3

(* The keys that set a column fit it, and one that fits no other sets it.   *)
LEMMA SettingFits ==
  ASSUME NEW updates, NEW c \in Cols
  PROVE  /\ setting(updates, c) \subseteq fitting(updates, c)
         /\ \A key \in fitting(updates, c) : Unshared(key, c) => key \in setting(updates, c)
<1> DEFINE hits(key) == {d \in Cols : key \in {Columns[d].label, Columns[d].name}}
<1>0. Cols \subseteq Nat \ {0}
  BY UpdatableBounds DEF Cols
<1>1. \A key : columnIndex(key) = IF hits(key) = {} THEN 0 ELSE Min(hits(key))
  BY DEF columnIndex
<1>2. ASSUME NEW key, hits(key) # {} PROVE Min(hits(key)) \in hits(key)
  <2> DEFINE T == hits(key)
  <2>1. T \in SUBSET Nat /\ T # {}
    BY <1>0, <1>2
  <2> HIDE DEF T
  <2>2. \E x \in T : \A y \in T : x <= y
    BY <2>1, LeastNat
  <2>3. Min(T) \in T
    BY <2>2 DEF Min
  <2> QED BY <2>3 DEF T
<1>3. ASSUME NEW key \in setting(updates, c) PROVE key \in fitting(updates, c)
  <2>1. key \in DOMAIN updates /\ columnIndex(key) = c /\ c # 0
    BY <1>0 DEF setting
  <2>2. hits(key) # {} /\ Min(hits(key)) = c
    BY <1>1, <2>1
  <2>3. c \in hits(key)
    BY <1>2, <2>2
  <2> QED BY <2>1, <2>3 DEF fitting
<1>4. ASSUME NEW key \in fitting(updates, c), Unshared(key, c) PROVE key \in setting(updates, c)
  <2>1. hits(key) = {c} /\ key \in DOMAIN updates
    BY <1>4 DEF fitting, Unshared
  <2>2. Min({c}) = c
    BY <1>2, <2>1
  <2>3. columnIndex(key) = c
    BY <1>1, <2>1, <2>2
  <2> QED BY <2>1, <2>3 DEF setting
<1> QED BY <1>3, <1>4

(* What may be in a column is known of every live row. *)
MayOK == Usable => Live(srv) \subseteq DOMAIN may

(* A step that changes no row, or after which the cursor is not usable. *)
LEMMA WritesKept ==
  ASSUME MayOK, NamedColumnsOnly, Usable' => Usable /\ may' = may /\ srv'.tab = srv.tab
  PROVE  MayOK' /\ NamedColumnsOnly'
<1>1. CASE ~Usable'
  BY <1>1 DEF MayOK, NamedColumnsOnly
<1>2. CASE Usable'
  <2>1. Usable /\ may' = may /\ srv'.tab = srv.tab
    BY <1>2
  <2>2. Live(srv)' = Live(srv)
    BY <2>1 DEF Live
  <2> QED BY <2>1, <2>2 DEF MayOK, NamedColumnsOnly
<1> QED BY <1>1, <1>2

LEMMA QueryExecuteWrites ==
  ASSUME Inv, QueryExecute
  PROVE  MayOK' /\ NamedColumnsOnly'
<1>1. PICK n \in 0 .. MaxRows :
        /\ execCtx("ok", Executed(srv, n))
        /\ may' = [k \in 0 .. n - 1 |-> [c \in Cols |-> {"old"}]]
  BY DEF QueryExecute
<1>2. srv' \in Executed(srv, n)
  BY <1>1 DEF execCtx
<1>3. /\ DOMAIN srv'.tab = 0 .. n - 1
      /\ \A k \in 0 .. n - 1 : srv'.tab[k].val = [c \in Cols |-> "old"]
  BY <1>2, ExecutedFacts DEF Inv, SrvOK
<1>4. Live(srv)' \subseteq 0 .. n - 1
  BY <1>3 DEF Live
<1>5. DOMAIN may' = 0 .. n - 1 /\ \A k \in 0 .. n - 1, c \in Cols : may'[k][c] = {"old"}
  BY <1>1
<1>6. \A k \in 0 .. n - 1, c \in Cols : srv'.tab[k].val[c] = "old"
  BY <1>3
<1> QED BY <1>4, <1>5, <1>6 DEF MayOK, NamedColumnsOnly

LEMMA DeleteRowWrites ==
  ASSUME Inv, MayOK, NamedColumnsOnly, DeleteRow
  PROVE  MayOK' /\ NamedColumnsOnly'
<1> DEFINE num == serverNums[pos + 1]
           id == rows[pos + 1].id
<1>1. PICK out \in Outs : execCtx(out, DeletedRow(srv, num, id))
  BY DEF DeleteRow
<1>2. pc = "open" /\ pc' = pc /\ may' = may
  BY DEF DeleteRow, HasCurrent, Open, caller
<1> HIDE DEF num, id
<1>3. /\ broken => broken'
      /\ out = "ok" => srv' \in DeletedRow(srv, num, id) /\ ~broken
      /\ out # "ok" /\ ~broken' => srv' = srv
  BY <1>1, ExecFacts DEF Inv
<1>4. CASE out # "ok"
  <2>1. Usable' => Usable /\ srv' = srv
    BY <1>2, <1>3, <1>4, Zenon DEF Usable
  <2> QED BY <1>2, <2>1, WritesKept
<1>5. CASE out = "ok"
  <2>1. /\ DOMAIN srv'.tab = DOMAIN srv.tab /\ srv'.tab[num] = Deleted
        /\ \A k \in DOMAIN srv.tab \ {num} : srv'.tab[k] = srv.tab[k]
    BY <1>3, <1>5, DeletedFacts DEF Inv, SrvOK
  <2>2. Usable
    BY <1>2, <1>3, <1>5 DEF Usable
  <2>3. \A k \in Live(srv)' : k \in Live(srv) /\ srv'.tab[k] = srv.tab[k]
    BY <2>1 DEF Live
  <2> QED BY <1>2, <2>2, <2>3 DEF MayOK, NamedColumnsOnly
<1> QED BY <1>4, <1>5

LEMMA UpdatedSrv ==
  ASSUME TypeOK, writes < MaxWrites, srv \in Sessions, NEW num, NEW id \in RowIDs,
         NEW r \in [Cols -> Values \cup {NotUpdated}]
  PROVE  \A x \in Updated(srv, num, id, r) :
           /\ num \in Live(srv) /\ DOMAIN x.tab = DOMAIN srv.tab
           /\ x.tab[num] \in Images /\ x.tab[num].val = merged(srv, num, r)
           /\ \A k \in DOMAIN srv.tab \ {num} : x.tab[k] = srv.tab[k]
<1> TAKE x \in Updated(srv, num, id, r)
<1> QED BY UpdatedFacts, SMTT(30)

LEMMA UpdateRowWrites ==
  ASSUME Inv, MayOK, NamedColumnsOnly,
         NEW updates \in UpdateMaps, UpdateRow(updates)
  PROVE  MayOK' /\ NamedColumnsOnly'
<1> DEFINE num == serverNums[pos + 1]
           id == rows[pos + 1].id
           told == possible(may[num], updates)
<1>1. PICK out \in Outs, r \in updateRequests(updates) :
        /\ execCtx(out, Updated(srv, num, id, r))
        /\ IF out = "ok" THEN may' = [may EXCEPT ![num] = told] ELSE may' = may
  BY DEF UpdateRow
<1>2. HasCurrent /\ pc' = pc /\ writes < MaxWrites
  BY DEF UpdateRow
<1>3. pc = "open" /\ id \in RowIDs
  BY <1>2, CurrentFacts
<1> HIDE DEF num, id, told
<1>4. /\ broken => broken'
      /\ out = "ok" => srv' \in Updated(srv, num, id, r) /\ ~broken
      /\ out # "ok" /\ ~broken' => srv' = srv
  BY <1>1, ExecFacts DEF Inv
<1>5. CASE out # "ok"
  <2>1. Usable' => Usable /\ srv' = srv
    BY <1>2, <1>4, <1>5, Zenon DEF Usable
  <2>2. may' = may
    BY <1>1, <1>5
  <2> QED BY <2>1, <2>2, WritesKept
<1>6. CASE out = "ok"
  <2>0. Usable
    BY <1>3, <1>4, <1>6 DEF Usable
  <2>1. r \in [Cols -> Values \cup {NotUpdated}]
    BY DEF updateRequests
  <2>2. \A x \in Updated(srv, num, id, r) :
          /\ num \in Live(srv) /\ DOMAIN x.tab = DOMAIN srv.tab
          /\ x.tab[num] \in Images /\ x.tab[num].val = merged(srv, num, r)
          /\ \A k \in DOMAIN srv.tab \ {num} : x.tab[k] = srv.tab[k]
    <3>1. TypeOK /\ srv \in Sessions /\ writes < MaxWrites
      BY <1>2 DEF Inv, SrvOK
    <3> QED BY <1>3, <2>1, <3>1, UpdatedSrv
  <2>3. /\ num \in Live(srv) /\ DOMAIN srv'.tab = DOMAIN srv.tab
        /\ srv'.tab[num] \in Images /\ srv'.tab[num].val = merged(srv, num, r)
        /\ \A k \in DOMAIN srv.tab \ {num} : srv'.tab[k] = srv.tab[k]
    BY <1>4, <1>6, <2>2
  <2>4. Live(srv)' = Live(srv)
    BY <2>3, ImageFacts DEF Live
  <2>5. Live(srv) \subseteq DOMAIN may
    BY <2>0 DEF MayOK
  <2>6. /\ DOMAIN may' = DOMAIN may /\ may'[num] = told
        /\ \A k \in DOMAIN may \ {num} : may'[k] = may[k]
    BY <1>1, <1>6, <2>3, <2>5
  <2>7. ASSUME NEW c \in Cols
        PROVE  /\ setting(updates, c) \subseteq fitting(updates, c)
               /\ \A key \in fitting(updates, c) : Unshared(key, c) => key \in setting(updates, c)
    BY SettingFits
  <2>8. ASSUME NEW c \in Cols PROVE srv'.tab[num].val[c] \in told[c]
    <3> DEFINE fit == given(updates, fitting(updates, c))
               own == \E key \in fitting(updates, c) : Unshared(key, c)
    <3>1. srv'.tab[num].val[c] = IF r[c] = NotUpdated THEN srv.tab[num].val[c] ELSE r[c]
      BY <2>3 DEF merged
    <3>2. told[c] = IF own THEN fit ELSE may[num][c] \cup fit
      BY DEF told, possible
    <3>3. IF setting(updates, c) = {} THEN r[c] = NotUpdated
          ELSE r[c] \in {updates[key] : key \in setting(updates, c)}
      BY DEF updateRequests
    <3>4. CASE setting(updates, c) = {}
      <4>1. srv.tab[num].val[c] \in may[num][c]
        BY <2>0, <2>3 DEF NamedColumnsOnly
      <4>2. ~own
        BY <2>7, <3>4
      <4> QED BY <3>1, <3>2, <3>3, <3>4, <4>1, <4>2
    <3>5. CASE setting(updates, c) # {}
      <4>1. \A key \in DOMAIN updates : updates[key] \in Values
        BY DEF UpdateMaps
      <4>2. setting(updates, c) \subseteq DOMAIN updates
        BY DEF setting
      <4>3. r[c] # NotUpdated
        BY <3>3, <3>5, <4>1, <4>2, UpdatableBounds
      <4>4. r[c] \in fit
        BY <2>7, <3>3, <3>5 DEF given
      <4>5. fit \subseteq told[c]
        BY <3>2
      <4> QED BY <3>1, <4>3, <4>4, <4>5
    <3> QED BY <3>4, <3>5
  <2>9. ASSUME NEW k \in Live(srv), NEW c \in Cols PROVE srv'.tab[k].val[c] \in may'[k][c]
    <3>1. CASE k = num
      BY <2>6, <2>8, <3>1
    <3>2. CASE k # num
      <4>1. srv'.tab[k] = srv.tab[k] /\ may'[k] = may[k]
        BY <2>3, <2>5, <2>6, <3>2 DEF Live
      <4> QED BY <2>0, <4>1 DEF NamedColumnsOnly
    <3> QED BY <3>1, <3>2
  <2> QED BY <2>4, <2>5, <2>6, <2>9 DEF MayOK, NamedColumnsOnly
<1> QED BY <1>5, <1>6

LEMMA WritesStep ==
  ASSUME Inv, MayOK, NamedColumnsOnly, [Next]_vars
  PROVE  MayOK' /\ NamedColumnsOnly'
<1>1. CASE QueryExecute
  BY <1>1, QueryExecuteWrites
<1>2. CASE DeleteRow
  BY <1>2, DeleteRowWrites
<1>3. ASSUME NEW updates \in UpdateMaps, UpdateRow(updates) PROVE MayOK' /\ NamedColumnsOnly'
  BY <1>3, UpdateRowWrites
<1>4. ASSUME NEW values \in UpdateMaps, InsertRow(values) PROVE MayOK' /\ NamedColumnsOnly'
  <2>0. PICK out \in Outs, r \in insertRequests(values) : execCtx(out, InsertedRow(srv, r))
    BY <1>4 DEF InsertRow
  <2>1. pc' = pc /\ may' = may
    BY <1>4 DEF InsertRow, caller
  <2>2. (broken => broken') /\ (srv' \in InsertedRow(srv, r) \/ srv' = srv)
    BY <2>0, ExecFacts DEF Inv
  <2>3. r \in [Cols -> Values]
    BY DEF insertRequests
  <2>4. srv'.tab = srv.tab
    BY <2>2, <2>3, InsertedFacts DEF Inv, SrvOK
  <2>5. Usable' => Usable
    BY <2>1, <2>2, Zenon DEF Usable
  <2> QED BY <2>1, <2>4, <2>5, WritesKept
<1>5. CASE QueryPrepare \/ QueryExecuteFails \/ QueryFrees \/ Close \/ CloseCursor \/ CloseStmt
  <2>1. pc' # "open"
    BY <1>5 DEF QueryPrepare, QueryExecuteFails, QueryFrees, Close, CloseCursor, CloseStmt
  <2> QED BY <2>1, WritesKept DEF Usable
<1>6. CASE ScanLobFails
  <2>1. ~Usable'
    BY <1>6 DEF ScanLobFails, Usable
  <2> QED BY <2>1, WritesKept
<1>7. CASE NextRow \/ UNCHANGED vars
  <2>1. UNCHANGED <<pc, broken, srv, may>>
    BY <1>7 DEF NextRow, conn, vars
  <2> QED BY <2>1, WritesKept DEF Usable
<1>8. CASE ConnClose
  <2>1. UNCHANGED <<pc, broken, may>>
    BY <1>8 DEF ConnClose, caller
  <2>2. srv'.tab = srv.tab
    BY <1>8, FlagFacts DEF ConnClose, Inv, SrvOK
  <2> QED BY <2>1, <2>2, WritesKept DEF Usable
<1> QED BY <1>1, <1>2, <1>3, <1>4, <1>5, <1>6, <1>7, <1>8 DEF Next

(* For all columns, labels, names and keys, clashing ones included:        *)
(* UpdateRow (updatable.go) leaves every column that no key fits and every *)
(* other row alone, always writes a column that has a key of its own, and  *)
(* writes only values given for the column, in whatever order Go ranges    *)
(* over the map and whatever was updated before.                           *)
THEOREM UpdatesStayInColumns == Spec => []NamedColumnsOnly
<1>1. Init => MayOK /\ NamedColumnsOnly
  BY DEF Init, MayOK, NamedColumnsOnly, Usable
<1>2. Inv /\ MayOK /\ NamedColumnsOnly /\ [Next]_vars => MayOK' /\ NamedColumnsOnly'
  BY WritesStep
<1> QED BY <1>1, <1>2, Invariance, PTL DEF Spec
=============================================================================
