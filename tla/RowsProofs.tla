----------------------------- MODULE RowsProofs -----------------------------
(***************************************************************************)
(* Proofs about Rows, for every response, every number of rows and every   *)
(* block size: the types, that a cursor is retained exactly as long as it  *)
(* is needed, and that every step of Rows is a step of ResultStream.       *)
(***************************************************************************)
EXTENDS Rows, WellFoundedInduction, TLAPS

-----------------------------------------------------------------------------
(***************************************************************************)
(* The loop that collects the result sets.                                 *)
(***************************************************************************)
(* A set of natural numbers has a least one: induction in the form the     *)
(* provers can use.                                                        *)
LEMMA LeastNat ==
  ASSUME NEW T \in SUBSET Nat, T # {}
  PROVE  \E x \in T : \A y \in T : x <= y
<1>1. IsWellFoundedOn(OpToRel(<, Nat), Nat)
  BY NatLessThanWellFounded
<1>2. PICK x \in T : \A y \in T : ~ (<<y, x>> \in OpToRel(<, Nat))
  BY <1>1, WFMin
<1>3. ASSUME NEW y \in T PROVE x <= y
  <2>1. OpToRel(<, Nat) = {ss \in Nat \X Nat : ss[1] < ss[2]}
    BY DEF OpToRel
  <2>2. ~(<<y, x>> \in {ss \in Nat \X Nat : ss[1] < ss[2]})
    BY <1>2, <2>1
  <2>3. y \in Nat /\ x \in Nat
    OBVIOUS
  <2>4. ~(y < x)
    BY <2>2, <2>3
  <2> QED BY <2>3, <2>4
<1> QED BY <1>3

(* One round of the loop, and a table of its first n rounds. *)
Round(t, k) ==
  IF k = 0 THEN <<>>
  ELSE IF isRowsResult(k) THEN Append(t[k - 1], k) ELSE t[k - 1]
Table(t, n) == t = [k \in 0 .. n |-> Round(t, k)]

(* The recursive definition defines something. *)
LEMMA RowsUpToDefined == Table(rowsUpTo, MaxFrames)
<1> DEFINE T == {n \in Nat : ~ \E t : Table(t, n)}
<1>1. T = {}
  <2> SUFFICES ASSUME T # {} PROVE FALSE
    OBVIOUS
  <2>1. PICK m \in T : \A y \in T : m <= y
    BY LeastNat
  <2>2. m \in Nat /\ m # 0
    <3>1. Table([k \in 0 .. 0 |-> <<>>], 0)
      BY DEF Table, Round
    <3> QED BY <3>1
  <2>3. m - 1 \in Nat /\ m - 1 \notin T
    BY <2>1, <2>2
  <2>4. PICK t : Table(t, m - 1)
    BY <2>3
  <2> DEFINE u == [k \in 0 .. m |-> IF k < m THEN t[k] ELSE Round(t, m)]
  <2>5. ASSUME NEW k \in 0 .. m PROVE u[k] = Round(u, k)
    <3>1. k # 0 => u[k - 1] = t[k - 1]
      BY <2>2
    <3>2. Round(u, k) = Round(t, k)
      BY <3>1 DEF Round
    <3>3. CASE k = m
      BY <2>2, <3>2, <3>3
    <3>4. CASE k # m
      <4>1. k \in 0 .. m - 1 /\ u[k] = t[k]
        BY <2>2, <3>4
      <4>2. t[k] = Round(t, k)
        BY <2>4, <4>1 DEF Table
      <4> QED BY <3>2, <4>1, <4>2
    <3> QED BY <3>3, <3>4
  <2>6. u = [k \in 0 .. m |-> u[k]]
    OBVIOUS
  <2> HIDE DEF u
  <2>7. Table(u, m)
    BY <2>5, <2>6 DEF Table
  <2> QED BY <2>7
<1>2. PICK v : Table(v, MaxFrames)
  BY <1>1, RowsBounds
<1>3. rowsUpTo = CHOOSE t : Table(t, MaxFrames)
  BY DEF rowsUpTo, Table, Round
<1> QED BY <1>2, <1>3

(* The result sets among the first n frames, in the order of the frames.   *)
Collected(s, n) ==
  /\ s \in Seq(1 .. n)
  /\ \A i, j \in 1 .. Len(s) : i < j => s[i] < s[j]
  /\ \A i \in 1 .. Len(s) : isRowsResult(s[i])
  /\ \A k \in 1 .. n : isRowsResult(k) => \E i \in 1 .. Len(s) : s[i] = k

(* The loop collects every result set of the response, in order. *)
LEMMA RowsUpToCollects ==
  ASSUME NEW n \in 0 .. MaxFrames
  PROVE  Collected(rowsUpTo[n], n)
<1> USE DEF isRowsResult
<1> DEFINE T == {m \in 0 .. MaxFrames : ~ Collected(rowsUpTo[m], m)}
<1>0. MaxFrames \in Nat
  BY RowsBounds
<1>1. \A k \in 0 .. MaxFrames : rowsUpTo[k] = Round(rowsUpTo, k)
  BY RowsUpToDefined DEF Table
<1>2. T = {}
  <2> SUFFICES ASSUME T # {} PROVE FALSE
    OBVIOUS
  <2>1. PICK m \in T : \A y \in T : m <= y
    <3>1. T \in SUBSET Nat
      BY <1>0
    <3> HIDE DEF T
    <3> QED BY <3>1, LeastNat
  <2>2. m # 0
    <3>1. rowsUpTo[0] = <<>>
      BY <1>0, <1>1 DEF Round
    <3>2. Collected(<<>>, 0)
      BY DEF Collected
    <3> QED BY <2>1, <3>1, <3>2
  <2>3. m \in 1 .. MaxFrames /\ m - 1 \in 0 .. MaxFrames
    BY <1>0, <2>2
  <2>4. Collected(rowsUpTo[m - 1], m - 1)
    BY <1>0, <2>1, <2>3
  <2> HIDE DEF T
  <2> DEFINE s == rowsUpTo[m - 1]
  <2>5. s \in Seq(1 .. m - 1) /\ s \in Seq(1 .. m) /\ Len(s) \in Nat
    BY <1>0, <2>3, <2>4 DEF Collected
  <2>6. Collected(rowsUpTo[m], m)
    <3>1. CASE isRowsResult(m)
      <4>1. rowsUpTo[m] = Append(s, m)
        <5>1. rowsUpTo[m] = Round(rowsUpTo, m)
          BY <1>0, <1>1, <2>3
        <5> QED BY <2>2, <3>1, <5>1, Zenon DEF Round
      <4> DEFINE u == Append(s, m)
      <4>2. /\ u \in Seq(1 .. m) /\ Len(u) = Len(s) + 1 /\ u[Len(s) + 1] = m
            /\ \A i \in 1 .. Len(s) : u[i] = s[i]
        BY <1>0, <2>3, <2>5
      <4>3. \A i \in 1 .. Len(s) : s[i] \in 1 .. m - 1
        <5>1. s \in Seq(1 .. m - 1)
          BY <2>5
        <5> HIDE DEF s
        <5> QED BY <1>0, <2>3, <5>1
      <4> HIDE DEF u, s
      <4>4. \A i, j \in 1 .. Len(u) : i < j => u[i] < u[j]
        <5>1. \A i, j \in 1 .. Len(s) : i < j => s[i] < s[j]
          BY <2>4 DEF Collected, s
        <5>2. \A i \in 1 .. Len(u) : i <= Len(s) \/ i = Len(s) + 1
          BY <2>5, <4>2
        <5> TAKE i, j \in 1 .. Len(u)
        <5> HAVE i < j
        <5>3. i \in 1 .. Len(s) /\ (j \in 1 .. Len(s) \/ j = Len(s) + 1)
          BY <2>5, <4>2, <5>2
        <5>4. s[i] \in 1 .. m - 1 /\ u[i] = s[i]
          BY <4>2, <4>3, <5>3
        <5>5. CASE j = Len(s) + 1
          BY <1>0, <2>3, <4>2, <5>4, <5>5
        <5>6. CASE j \in 1 .. Len(s)
          BY <4>2, <5>1, <5>3, <5>6
        <5> QED BY <5>3, <5>5, <5>6
      <4>5. \A i \in 1 .. Len(u) : isRowsResult(u[i])
        BY <2>4, <2>5, <3>1, <4>2 DEF Collected, s
      <4>6. \A k \in 1 .. m : isRowsResult(k) => \E i \in 1 .. Len(u) : u[i] = k
        <5> TAKE k \in 1 .. m
        <5>1. CASE k = m
          BY <2>5, <4>2, <5>1
        <5>2. CASE k # m
          <6>1. isRowsResult(k) => \E i \in 1 .. Len(s) : s[i] = k
            BY <1>0, <2>3, <2>4, <5>2 DEF Collected, s
          <6> QED BY <2>5, <4>2, <6>1
        <5> QED BY <5>1, <5>2
      <4> QED BY <4>1, <4>2, <4>4, <4>5, <4>6 DEF Collected, u
    <3>2. CASE ~isRowsResult(m)
      <4>1. rowsUpTo[m] = s
        BY <1>0, <1>1, <2>3, <3>2 DEF Round
      <4>2. \A k \in 1 .. m : isRowsResult(k) => k \in 1 .. m - 1
        BY <1>0, <2>3, <3>2
      <4> QED BY <2>4, <2>5, <4>1, <4>2 DEF Collected
    <3> QED BY <3>1, <3>2
  <2> QED BY <2>6 DEF T
<1> QED BY <1>2

-----------------------------------------------------------------------------
(***************************************************************************)
(* The inductive invariant.                                                *)
(***************************************************************************)
(* The server's rows that have reached the client. *)
Delivered == absPos - blockPos + Len(block)

(* The first block of a result set starts with its first row. *)
FirstBlocksOK ==
  \A k \in FrameIDs : /\ Len(first[k]) <= total[k]
                      /\ \A j \in 1 .. Len(first[k]) : first[k][j] = j

(* The block in memory holds consecutive rows, those around absPos. *)
BlockOK ==
  cur # 0 => /\ blockPos <= absPos /\ Delivered <= total[cur]
             /\ \A j \in 1 .. Len(block) : block[j] = absPos - blockPos + j

(* A caller that can go on reading has got the rows up to absPos. *)
ReaderOK == CanRead => cur # 0 /\ ~done /\ ~short /\ row = absPos

(* The server retains the cursor of the current result set as long as it   *)
(* has rows to deliver, and those of the sets ahead as it opened them.     *)
CursorOK ==
  /\ \A k \in held : id[k] = k
  /\ cur \in held => Delivered < total[cur]
  /\ CanRead /\ Delivered < total[cur] => cur \in held
  /\ \A k \in FrameIDs : k > cur /\ isRowsResult(k) =>
       (k \in held <=> Len(first[k]) < total[k])

(* The sets to come lie ahead, in order, and none with a cursor is missed. *)
AheadOK ==
  /\ \A i \in 1 .. Len(next) : next[i] > cur /\ isRowsResult(next[i])
  /\ \A i, j \in 1 .. Len(next) : i < j => next[i] < next[j]
  /\ cur = 0 => next = <<>>
  /\ status # "closed" /\ cur # 0 =>
       \A k \in held : k > cur => \E i \in 1 .. Len(next) : next[i] = k

(* The second half of CursorsHeldAsNeeded. *)
Released ==
  ~closeErr /\ ~broken => \A k \in held : k > cur \/ (k = cur /\ status # "closed")

Inv == TypeOK /\ FirstBlocksOK /\ BlockOK /\ ReaderOK /\ CursorOK /\ AheadOK /\ Released

LEMMA InvImpliesHeld == Inv => CursorsHeldAsNeeded
  BY DEF Inv, TypeOK, CursorOK, ReaderOK, Released, CursorsHeldAsNeeded, Delivered,
         CanRead, Exhausted

-----------------------------------------------------------------------------
(***************************************************************************)
(* The server's blocks.                                                    *)
(***************************************************************************)
LEMMA BlocksFacts ==
  ASSUME NEW size \in Nat, NEW off \in Nat, off <= size, NEW b \in Blocks(size, off)
  PROVE  /\ b \in Seq(Nat) /\ Len(b) \in 1 .. size - off
         /\ \A j \in 1 .. Len(b) : b[j] = off + j
<1> DEFINE limit == IF FetchSize = 0 \/ size - off < FetchSize THEN size - off ELSE FetchSize
<1>1. limit \in 0 .. size - off
  BY RowsBounds
<1>2. PICK n \in 1 .. limit : b = [j \in 1 .. n |-> off + j]
  BY DEF Blocks
<1> HIDE DEF limit
<1>3. n \in Nat /\ n \in 1 .. size - off
  BY <1>1, <1>2
<1>4. b \in Seq(Nat) /\ Len(b) = n
  BY <1>2, <1>3
<1> QED BY <1>2, <1>3, <1>4

LEMMA FirstBlocksFacts ==
  ASSUME NEW size \in Nat, NEW b \in FirstBlocks(size)
  PROVE  /\ b \in Seq(Nat) /\ Len(b) <= size
         /\ \A j \in 1 .. Len(b) : b[j] = j
<1>1. CASE size = 0
  BY <1>1 DEF FirstBlocks
<1>2. CASE size # 0 /\ FetchSize = 0
  <2>1. b = [j \in 1 .. size |-> j]
    BY <1>2 DEF FirstBlocks
  <2>2. b \in Seq(Nat) /\ Len(b) = size
    BY <2>1
  <2> QED BY <2>1, <2>2
<1>3. CASE size # 0 /\ FetchSize # 0
  <2>1. b \in Blocks(size, 0)
    BY <1>3 DEF FirstBlocks
  <2>2. /\ b \in Seq(Nat) /\ Len(b) \in 1 .. size - 0
        /\ \A j \in 1 .. Len(b) : b[j] = 0 + j
    BY <2>1, BlocksFacts
  <2> QED BY <2>2
<1> QED BY <1>1, <1>2, <1>3

-----------------------------------------------------------------------------
(***************************************************************************)
(* The invariant holds initially.                                          *)
(***************************************************************************)
LEMMA InitInv == Init => Inv
<1> SUFFICES ASSUME Init PROVE Inv
  OBVIOUS
<1>0. MaxFrames \in Nat \ {0} /\ 1 \in FrameIDs /\ FrameIDs \subseteq Nat \ {0}
  BY RowsBounds DEF FrameIDs
<1>1. total \in [FrameIDs -> Nat]
  BY RowsBounds DEF Init
<1>2. \A k \in FrameIDs : first[k] \in Seq(Nat) /\ Len(first[k]) <= total[k]
                          /\ \A j \in 1 .. Len(first[k]) : first[k][j] = j
  <2> TAKE k \in FrameIDs
  <2>1. total[k] \in Nat /\ first[k] \in FirstBlocks(total[k])
    BY <1>1 DEF Init
  <2> QED BY <2>1, FirstBlocksFacts
<1>3. first \in [FrameIDs -> Seq(Nat)]
  BY <1>2 DEF Init
<1>4. FirstBlocksOK
  BY <1>2 DEF FirstBlocksOK
<1>a. /\ kind \in [FrameIDs -> Kinds] /\ id \in [FrameIDs -> 0 .. MaxFrames]
      /\ broken = FALSE /\ row = 0 /\ short = FALSE /\ closeErr = FALSE
      /\ held \subseteq FrameIDs
  BY DEF Init
<1>5. CASE resultSets = <<>>
  <2>1. /\ cur = 0 /\ block = <<>> /\ blockPos = 0 /\ absPos = 0
        /\ done = TRUE /\ next = <<>> /\ status = "eof"
    BY <1>5 DEF Init
  <2>2. TypeOK
    <3>1. block \in Seq(Nat) /\ next \in Seq(FrameIDs) /\ blockPos \in 0 .. Len(block)
      BY <2>1
    <3>2. absPos \in Nat /\ row \in Nat
      BY <1>a, <2>1
    <3> QED BY <1>1, <1>3, <1>a, <2>1, <3>1, <3>2, Zenon DEF TypeOK
  <2>3. BlockOK /\ ReaderOK /\ AheadOK /\ Released
    BY <1>0, <2>1 DEF Init, BlockOK, ReaderOK, AheadOK, Released, CanRead
  <2>4. CursorOK
    BY <1>0, <2>1 DEF Init, CursorOK, CanRead, isRowsResult
  <2> QED BY <1>4, <2>2, <2>3, <2>4 DEF Inv
<1>6. CASE resultSets # <<>>
  <2>0. Collected(resultSets, MaxFrames)
    <3>1. resultSets = rowsUpTo[MaxFrames]
      BY <1>6 DEF resultSets
    <3> QED BY <1>0, <3>1, RowsUpToCollects
  <2> DEFINE s == resultSets
  <2>1. s \in Seq(FrameIDs) /\ s # <<>>
    BY <1>6, <2>0 DEF Collected, FrameIDs
  <2>2. /\ cur = Head(s) /\ block = first[Head(s)] /\ blockPos = 0 /\ absPos = 0
        /\ done = FALSE /\ next = Tail(s) /\ status = "ready"
    BY <1>6 DEF Init, loadResult
  <2>a. /\ \A i, j \in 1 .. Len(s) : i < j => s[i] < s[j]
        /\ \A i \in 1 .. Len(s) : isRowsResult(s[i])
        /\ \A k \in FrameIDs : isRowsResult(k) => \E i \in 1 .. Len(s) : s[i] = k
    BY <2>0 DEF Collected, FrameIDs
  <2> HIDE DEF s
  <2>3. /\ cur \in FrameIDs /\ cur = s[1] /\ next \in Seq(FrameIDs)
        /\ Len(s) \in Nat /\ Len(s) >= 1 /\ Len(next) = Len(s) - 1
        /\ \A i \in 1 .. Len(next) : next[i] = s[i + 1]
    BY <2>1, <2>2
  <2>4. TypeOK
    <3>1. cur # 0 /\ total[cur] \in Nat /\ block \in Seq(Nat) /\ Len(block) \in Nat
      BY <1>0, <1>1, <1>2, <2>2, <2>3
    <3>2. absPos \in Nat /\ row \in Nat /\ blockPos \in 0 .. Len(block) /\ absPos <= total[cur]
      BY <1>a, <2>2, <3>1
    <3> QED BY <1>1, <1>3, <1>a, <2>2, <2>3, <3>1, <3>2, Zenon DEF TypeOK
  <2>5. BlockOK
    BY <1>0, <1>1, <1>2, <2>2, <2>3 DEF BlockOK, Delivered
  <2>6. ReaderOK
    BY <1>0, <2>2, <2>3 DEF Init, ReaderOK, CanRead
  <2>7. isRowsResult(cur)
    BY <2>3, <2>a
  <2>8. CursorOK
    <3>1. Delivered = Len(first[cur])
      BY <1>2, <2>2, <2>3 DEF Delivered
    <3> QED BY <2>3, <2>7, <3>1 DEF Init, CursorOK, isRowsResult
  <2>9. \A i \in 1 .. Len(next) : next[i] > cur /\ isRowsResult(next[i])
    <3> TAKE i \in 1 .. Len(next)
    <3>1. 1 \in 1 .. Len(s) /\ i + 1 \in 1 .. Len(s) /\ next[i] = s[i + 1] /\ 1 < i + 1
      BY <2>3
    <3>2. s[1] < s[i + 1] /\ isRowsResult(s[i + 1])
      BY <2>a, <3>1
    <3>3. s[1] \in FrameIDs /\ s[i + 1] \in FrameIDs
      BY <2>1, <3>1
    <3> QED BY <1>0, <2>3, <3>1, <3>2, <3>3
  <2>10. \A i, j \in 1 .. Len(next) : i < j => next[i] < next[j]
    BY <2>3, <2>a
  <2>11. ASSUME NEW k \in held
         PROVE  k >= cur /\ (k > cur => \E i \in 1 .. Len(next) : next[i] = k)
    <3>1. k \in FrameIDs /\ isRowsResult(k)
      BY DEF Init, isRowsResult
    <3>2. PICK i \in 1 .. Len(s) : s[i] = k
      BY <2>a, <3>1
    <3>3. CASE i = 1
      BY <1>0, <2>3, <3>2, <3>3
    <3>4. CASE i # 1
      <4>1. i - 1 \in 1 .. Len(next) /\ next[i - 1] = k
        BY <2>3, <3>2, <3>4
      <4>2. s[1] < s[i]
        BY <2>3, <2>a, <3>4
      <4> QED BY <1>0, <2>3, <3>1, <3>2, <4>1, <4>2
    <3> QED BY <3>3, <3>4
  <2>12. AheadOK
    BY <1>0, <2>3, <2>9, <2>10, <2>11 DEF AheadOK
  <2>13. Released
    BY <1>0, <2>2, <2>3, <2>4, <2>11 DEF Released, TypeOK
  <2> QED BY <1>4, <2>4, <2>5, <2>6, <2>8, <2>12, <2>13 DEF Inv
<1> QED BY <1>5, <1>6

-----------------------------------------------------------------------------
(***************************************************************************)
(* Every step preserves it.                                                *)
(***************************************************************************)
(* The numbers of a caller that can read. *)
LEMMA ReadingFacts ==
  ASSUME Inv, CanRead
  PROVE  /\ cur \in FrameIDs /\ cur # 0 /\ total[cur] \in Nat
         /\ block \in Seq(Nat) /\ Len(block) \in Nat
         /\ absPos \in Nat /\ blockPos \in Nat /\ blockPos <= Len(block)
         /\ blockPos <= absPos /\ Delivered <= total[cur] /\ row = absPos
         /\ Exhausted <=> blockPos = Len(block)
         /\ Exhausted => Delivered = absPos
<1>1. cur # 0 /\ row = absPos
  BY DEF Inv, ReaderOK
<1>2. /\ cur \in FrameIDs /\ total[cur] \in Nat /\ block \in Seq(Nat)
      /\ absPos \in Nat /\ blockPos \in 0 .. Len(block)
  BY <1>1 DEF Inv, TypeOK
<1>3. blockPos <= absPos /\ Delivered <= total[cur]
  BY <1>1 DEF Inv, BlockOK
<1>4. Len(block) \in Nat
  BY <1>2
<1> QED BY <1>1, <1>2, <1>3, <1>4 DEF Delivered, Exhausted

(* Steps that only hand out a row or an error leave the rest alone. *)
LEMMA NextInBlockInv == Inv /\ NextInBlock => Inv'
<1> SUFFICES ASSUME Inv, NextInBlock PROVE Inv'
  OBVIOUS
<1> USE DEF NextInBlock, handOut
<1>1. /\ cur \in FrameIDs /\ cur # 0 /\ total[cur] \in Nat
      /\ block \in Seq(Nat) /\ Len(block) \in Nat
      /\ absPos \in Nat /\ blockPos \in Nat /\ blockPos < Len(block)
      /\ blockPos <= absPos /\ Delivered <= total[cur]
  BY ReadingFacts DEF Exhausted
<1>2. /\ UNCHANGED <<kind, total, first, id, broken, cur, done, next, held, short, closeErr, block>>
      /\ blockPos' = blockPos + 1 /\ absPos' = absPos + 1 /\ status' = "row"
      /\ row' = block[blockPos + 1]
  BY DEF response
<1>3. row' = absPos' /\ row' \in Nat /\ absPos' <= total[cur] /\ Delivered' = Delivered
  BY <1>1, <1>2 DEF Inv, BlockOK, Delivered
<1>4. TypeOK'
  <2>1. absPos' \in Nat /\ blockPos' \in 0 .. Len(block)
    BY <1>1, <1>2
  <2> QED BY <1>1, <1>2, <1>3, <2>1, Zenon DEF Inv, TypeOK
<1>5. FirstBlocksOK'
  BY <1>2 DEF Inv, FirstBlocksOK
<1>6. BlockOK'
  BY <1>1, <1>2, <1>3 DEF Inv, BlockOK
<1>7. ReaderOK'
  BY <1>1, <1>2, <1>3 DEF Inv, ReaderOK, CanRead
<1>8. CursorOK'
  BY <1>2, <1>3 DEF Inv, CursorOK, CanRead, isRowsResult
<1>9. AheadOK' /\ Released'
  BY <1>1, <1>2 DEF Inv, AheadOK, Released, CanRead, isRowsResult
<1> QED BY <1>4, <1>5, <1>6, <1>7, <1>8, <1>9 DEF Inv

LEMMA NextFetchesInv == Inv /\ NextFetches => Inv'
<1> SUFFICES ASSUME Inv, NextFetches PROVE Inv'
  OBVIOUS
<1> USE DEF NextFetches
<1>1. /\ cur \in FrameIDs /\ cur # 0 /\ total[cur] \in Nat
      /\ absPos \in Nat /\ absPos < total[cur] /\ Delivered = absPos
  BY ReadingFacts
<1>2. PICK b \in Blocks(total[cur], absPos) :
        /\ handOut(b, 0)
        /\ held' = IF absPos + Len(b) >= total[cur] THEN held \ {cur} ELSE held
  BY DEF requestOffset
<1>3. /\ b \in Seq(Nat) /\ Len(b) \in 1 .. total[cur] - absPos
      /\ \A j \in 1 .. Len(b) : b[j] = absPos + j
  BY <1>1, BlocksFacts
<1>4. /\ UNCHANGED <<kind, total, first, id, broken, cur, done, next, short, closeErr>>
      /\ block' = b /\ blockPos' = 1 /\ absPos' = absPos + 1 /\ status' = "row"
      /\ row' = b[1]
  BY <1>2 DEF response, handOut
<1>5. row' = absPos' /\ absPos' \in Nat /\ absPos' <= total[cur]
      /\ Delivered' = absPos + Len(b) /\ Delivered' <= total[cur]
  BY <1>1, <1>3, <1>4 DEF Delivered
<1>6. held' \subseteq held /\ (cur \in held' <=> Delivered' < total[cur])
      /\ \A k : k # cur => (k \in held' <=> k \in held)
  BY <1>1, <1>2, <1>3, <1>5
<1>7. TypeOK'
  <2>1. block' \in Seq(Nat) /\ blockPos' \in 0 .. Len(block') /\ row' \in Nat
    BY <1>3, <1>4, <1>5
  <2>2. held' \subseteq FrameIDs
    BY <1>6 DEF Inv, TypeOK
  <2> QED BY <1>4, <1>5, <2>1, <2>2, Zenon DEF Inv, TypeOK
<1>8. FirstBlocksOK'
  BY <1>4 DEF Inv, FirstBlocksOK
<1>9. BlockOK'
  BY <1>1, <1>3, <1>4, <1>5 DEF BlockOK
<1>10. ReaderOK'
  BY <1>1, <1>4, <1>5 DEF Inv, ReaderOK, CanRead
<1>11. CursorOK'
  <2>1. \A k \in held' : id'[k] = k
    BY <1>4, <1>6 DEF Inv, CursorOK
  <2>2. \A k \in FrameIDs : k > cur => k # cur
    BY <1>1 DEF FrameIDs
  <2>3. \A k \in FrameIDs : k > cur' /\ isRowsResult(k)' =>
          (k \in held' <=> Len(first'[k]) < total'[k])
    BY <1>4, <1>6, <2>2 DEF Inv, CursorOK, isRowsResult
  <2> QED BY <1>4, <1>6, <2>1, <2>3 DEF CursorOK, CanRead
<1>12. AheadOK'
  BY <1>1, <1>4, <1>6 DEF Inv, AheadOK, CanRead, isRowsResult
<1>13. Released'
  BY <1>4, <1>6 DEF Inv, Released, CanRead
<1> QED BY <1>7, <1>8, <1>9, <1>10, <1>11, <1>12, <1>13 DEF Inv

(* The end of a result set, and errors while reading it. *)
LEMMA NextStopsInv ==
  ASSUME Inv, NextAtEnd \/ NextEmpty \/ NextFetchFails
  PROVE  Inv'
<1>1. /\ UNCHANGED <<kind, total, first, id, cur, block, blockPos, absPos, next, held, row, closeErr>>
      /\ status' \in {"eof", "rowErr"} /\ CanRead
      /\ broken' \in {broken, TRUE} /\ done' \in BOOLEAN /\ short' \in BOOLEAN
  <2>1. done \in BOOLEAN /\ short \in BOOLEAN
    BY DEF Inv, TypeOK
  <2> QED BY <2>1 DEF NextAtEnd, NextEmpty, NextFetchFails, response, rows
<1>2. TypeOK'
  <2>1. broken' \in BOOLEAN
    BY <1>1 DEF Inv, TypeOK
  <2> QED BY <1>1, <2>1, Zenon DEF Inv, TypeOK
<1>3. FirstBlocksOK' /\ BlockOK'
  BY <1>1 DEF Inv, FirstBlocksOK, BlockOK, Delivered
<1>4. ReaderOK'
  BY <1>1 DEF ReaderOK, CanRead
<1>5. CursorOK' /\ AheadOK'
  BY <1>1 DEF Inv, CursorOK, AheadOK, Delivered, CanRead, isRowsResult
<1>6. Released'
  <2>1. ~broken' => ~broken
    BY <1>1, Zenon
  <2> QED BY <1>1, <2>1 DEF Inv, Released, CanRead
<1> QED BY <1>2, <1>3, <1>4, <1>5, <1>6 DEF Inv

LEMMA NextLobFailsInv == Inv /\ NextLobFails => Inv'
<1> SUFFICES ASSUME Inv, NextLobFails PROVE Inv'
  OBVIOUS
<1>1. /\ cur \in FrameIDs /\ cur # 0 /\ total[cur] \in Nat
      /\ block \in Seq(Nat) /\ Len(block) \in Nat
      /\ absPos \in Nat /\ blockPos \in Nat /\ blockPos < Len(block)
      /\ blockPos <= absPos /\ Delivered <= total[cur]
  BY ReadingFacts DEF NextLobFails, Exhausted
<1>2. /\ UNCHANGED <<kind, total, first, id, cur, block, done, next, held, row, short, closeErr>>
      /\ blockPos' = blockPos + 1 /\ absPos' = absPos + 1 /\ status' = "rowErr"
      /\ broken' = TRUE /\ CanRead
  BY DEF NextLobFails, response
<1>3. absPos' <= total[cur] /\ Delivered' = Delivered
  BY <1>1, <1>2 DEF Delivered
<1>4. TypeOK'
  <2>1. absPos' \in Nat /\ blockPos' \in 0 .. Len(block)
    BY <1>1, <1>2
  <2> QED BY <1>1, <1>2, <1>3, <2>1, Zenon DEF Inv, TypeOK
<1>5. FirstBlocksOK'
  BY <1>2 DEF Inv, FirstBlocksOK
<1>6. BlockOK'
  BY <1>1, <1>2, <1>3 DEF Inv, BlockOK
<1>7. ReaderOK' /\ Released'
  BY <1>2 DEF ReaderOK, Released, CanRead
<1>8. CursorOK'
  BY <1>2, <1>3 DEF Inv, CursorOK, CanRead, isRowsResult
<1>9. AheadOK'
  BY <1>2 DEF Inv, AheadOK, CanRead, isRowsResult
<1> QED BY <1>4, <1>5, <1>6, <1>7, <1>8, <1>9 DEF Inv

LEMMA NextFetchedLobFailsInv == Inv /\ NextFetchedLobFails => Inv'
<1> SUFFICES ASSUME Inv, NextFetchedLobFails PROVE Inv'
  OBVIOUS
<1> USE DEF NextFetchedLobFails
<1>1. /\ cur \in FrameIDs /\ cur # 0 /\ total[cur] \in Nat
      /\ absPos \in Nat /\ absPos < total[cur] /\ Delivered = absPos
  BY ReadingFacts
<1>2. PICK b \in Blocks(total[cur], absPos) :
        /\ block' = b
        /\ held' = IF absPos + Len(b) >= total[cur] THEN held \ {cur} ELSE held
  BY DEF requestOffset
<1>3. /\ b \in Seq(Nat) /\ Len(b) \in 1 .. total[cur] - absPos
      /\ \A j \in 1 .. Len(b) : b[j] = absPos + j
  BY <1>1, BlocksFacts
<1>4. /\ UNCHANGED <<kind, total, first, id, cur, done, next, row, short, closeErr>>
      /\ block' = b /\ blockPos' = 1 /\ absPos' = absPos + 1 /\ status' = "rowErr"
      /\ broken' = TRUE /\ CanRead
  BY <1>2 DEF response
<1>5. absPos' \in Nat /\ absPos' <= total[cur]
      /\ Delivered' = absPos + Len(b) /\ Delivered' <= total[cur]
  BY <1>1, <1>3, <1>4 DEF Delivered
<1>6. held' \subseteq held /\ (cur \in held' => Delivered' < total[cur])
      /\ \A k : k # cur => (k \in held' <=> k \in held)
  BY <1>1, <1>2, <1>3, <1>5
<1>7. TypeOK'
  <2>1. block' \in Seq(Nat) /\ blockPos' \in 0 .. Len(block')
    BY <1>3, <1>4
  <2>2. held' \subseteq FrameIDs
    BY <1>6 DEF Inv, TypeOK
  <2> QED BY <1>4, <1>5, <2>1, <2>2, Zenon DEF Inv, TypeOK
<1>8. FirstBlocksOK'
  BY <1>4 DEF Inv, FirstBlocksOK
<1>9. BlockOK'
  BY <1>1, <1>3, <1>4, <1>5 DEF BlockOK
<1>10. ReaderOK' /\ Released'
  BY <1>4 DEF ReaderOK, Released, CanRead
<1>11. CursorOK'
  <2>1. \A k \in held' : id'[k] = k
    BY <1>4, <1>6 DEF Inv, CursorOK
  <2>2. \A k \in FrameIDs : k > cur => k # cur
    BY <1>1 DEF FrameIDs
  <2>3. \A k \in FrameIDs : k > cur' /\ isRowsResult(k)' =>
          (k \in held' <=> Len(first'[k]) < total'[k])
    BY <1>4, <1>6, <2>2 DEF Inv, CursorOK, isRowsResult
  <2> QED BY <1>4, <1>6, <2>1, <2>3 DEF CursorOK, CanRead
<1>12. AheadOK'
  BY <1>1, <1>4, <1>6 DEF Inv, AheadOK, CanRead, isRowsResult
<1> QED BY <1>7, <1>8, <1>9, <1>10, <1>11, <1>12 DEF Inv

(* CLOSE_RESULT drops at most the current cursor; when nothing failed, it  *)
(* is gone afterwards: if no request was sent, the server had none.        *)
LEMMA CloseCurrentFacts ==
  ASSUME Inv, NEW ok \in BOOLEAN, closeCurrent(ok)
  PROVE  /\ broken' \in BOOLEAN /\ closeErr' \in BOOLEAN
         /\ held' \subseteq held /\ (\A k : k # cur => (k \in held' <=> k \in held))
         /\ ~closeErr' => ~closeErr /\ broken' = broken /\ cur \notin held'
<1>0. broken \in BOOLEAN /\ closeErr \in BOOLEAN /\ held \subseteq FrameIDs
  BY DEF Inv, TypeOK
<1>1. ~outstanding => cur \notin held
  <2> SUFFICES ASSUME cur \in held PROVE outstanding
    OBVIOUS
  <2>1. cur \in FrameIDs /\ id[cur] = cur /\ cur # 0
    BY <1>0, RowsBounds DEF Inv, CursorOK, FrameIDs
  <2>2. Delivered < total[cur]
    BY DEF Inv, CursorOK
  <2>3. total[cur] \in Nat /\ absPos \in Nat /\ blockPos \in 0 .. Len(block) /\ block \in Seq(Nat)
    BY <2>1 DEF Inv, TypeOK
  <2>4. absPos < total[cur]
    BY <2>2, <2>3 DEF Delivered
  <2> QED BY <2>1, <2>4 DEF outstanding
<1>2. CASE ~outstanding
  BY <1>0, <1>1, <1>2 DEF closeCurrent
<1>3. CASE outstanding
  BY <1>0, <1>3 DEF closeCurrent
<1> QED BY <1>2, <1>3

LEMMA CloseInv == Inv /\ Close => Inv'
<1> SUFFICES ASSUME Inv, Close PROVE Inv'
  OBVIOUS
<1>1. /\ UNCHANGED <<kind, total, first, id, cur, block, blockPos, absPos, row, short>>
      /\ status' = "closed" /\ done' = TRUE /\ next' = <<>>
  BY DEF Close, response
<1>2. PICK ok \in BOOLEAN : closeCurrent(ok)
  BY DEF Close
<1>3. /\ broken' \in BOOLEAN /\ closeErr' \in BOOLEAN
      /\ held' \subseteq held /\ (\A k : k # cur => (k \in held' <=> k \in held))
      /\ ~closeErr' => ~closeErr /\ broken' = broken /\ cur \notin held'
  BY <1>2, CloseCurrentFacts
<1>4. TypeOK'
  <2>1. next' \in Seq(FrameIDs) /\ held' \subseteq FrameIDs
    BY <1>1, <1>3 DEF Inv, TypeOK
  <2> QED BY <1>1, <1>3, <2>1, Zenon DEF Inv, TypeOK
<1>5. FirstBlocksOK' /\ BlockOK'
  BY <1>1 DEF Inv, FirstBlocksOK, BlockOK, Delivered
<1>6. ReaderOK' /\ AheadOK'
  BY <1>1 DEF ReaderOK, AheadOK, CanRead
<1>7. CursorOK'
  <2>1. \A k \in FrameIDs : k > cur => k # cur
    BY DEF Inv, TypeOK, FrameIDs
  <2> QED BY <1>1, <1>3, <2>1 DEF Inv, CursorOK, Delivered, CanRead, isRowsResult
<1>8. Released'
  BY <1>1, <1>3 DEF Inv, Released
<1> QED BY <1>4, <1>5, <1>6, <1>7, <1>8 DEF Inv

LEMMA NextResultSetFailsInv == Inv /\ NextResultSetFails => Inv'
<1> SUFFICES ASSUME Inv, NextResultSetFails PROVE Inv'
  OBVIOUS
<1>1. /\ UNCHANGED <<kind, total, first, id, cur, block, blockPos, absPos, done, next, row, short>>
      /\ status' = "advanceErr" /\ status # "closed"
  BY DEF NextResultSetFails, CanRead, response, rows
<1>2. closeCurrent(FALSE)
  BY DEF NextResultSetFails
<1>3. /\ broken' \in BOOLEAN /\ closeErr' \in BOOLEAN
      /\ held' \subseteq held /\ (\A k : k # cur => (k \in held' <=> k \in held))
      /\ ~closeErr' => ~closeErr /\ broken' = broken /\ cur \notin held'
  BY <1>2, CloseCurrentFacts
<1>4. TypeOK'
  <2>1. held' \subseteq FrameIDs
    BY <1>3 DEF Inv, TypeOK
  <2> QED BY <1>1, <1>3, <2>1, Zenon DEF Inv, TypeOK
<1>5. FirstBlocksOK' /\ BlockOK'
  BY <1>1 DEF Inv, FirstBlocksOK, BlockOK, Delivered
<1>6. ReaderOK'
  BY <1>1 DEF ReaderOK, CanRead
<1>7. AheadOK'
  BY <1>1, <1>3 DEF Inv, AheadOK, isRowsResult
<1>8. CursorOK'
  <2>1. \A k \in FrameIDs : k > cur => k # cur
    BY DEF Inv, TypeOK, FrameIDs
  <2> QED BY <1>1, <1>3, <2>1 DEF Inv, CursorOK, Delivered, CanRead, isRowsResult
<1>9. Released'
  BY <1>1, <1>3 DEF Inv, Released
<1> QED BY <1>4, <1>5, <1>6, <1>7, <1>8, <1>9 DEF Inv

(* The next result set is the first one ahead; the cursor of the one left  *)
(* behind is gone, and no other lies between the two.                      *)
LEMMA NextResultSetInv == Inv /\ NextResultSet => Inv'
<1> SUFFICES ASSUME Inv, NextResultSet PROVE Inv'
  OBVIOUS
<1> DEFINE c == Head(next)
<1>0. FrameIDs \subseteq Nat \ {0} /\ cur \in Nat
  BY RowsBounds DEF Inv, TypeOK, FrameIDs
<1>1. /\ UNCHANGED <<kind, total, first, id>>
      /\ cur' = c /\ block' = first[c] /\ blockPos' = 0 /\ absPos' = 0 /\ done' = FALSE
      /\ next' = Tail(next) /\ row' = 0 /\ short' = FALSE /\ status' = "ready"
      /\ status # "closed" /\ next # <<>>
  BY DEF NextResultSet, loadResult, CanRead, response
<1>2. closeCurrent(TRUE)
  BY DEF NextResultSet
<1>3. /\ broken' \in BOOLEAN /\ closeErr' \in BOOLEAN
      /\ held' \subseteq held /\ (\A k : k # cur => (k \in held' <=> k \in held))
      /\ ~closeErr' => ~closeErr /\ broken' = broken /\ cur \notin held'
  BY <1>2, CloseCurrentFacts
<1>4. next \in Seq(FrameIDs) /\ total \in [FrameIDs -> Nat] /\ first \in [FrameIDs -> Seq(Nat)]
      /\ held \subseteq FrameIDs
  BY DEF Inv, TypeOK
<1>5. /\ Len(next) \in Nat /\ Len(next) >= 1 /\ c = next[1] /\ c \in FrameIDs
      /\ next' \in Seq(FrameIDs) /\ Len(next') = Len(next) - 1
      /\ \A i \in 1 .. Len(next') : next'[i] = next[i + 1]
  BY <1>1, <1>4
<1> HIDE DEF c
<1>6. c > cur /\ isRowsResult(c) /\ cur # 0 /\ c # 0 /\ c \in Nat
  <2>1. 1 \in 1 .. Len(next)
    BY <1>5
  <2>2. next[1] > cur /\ isRowsResult(next[1])
    BY <2>1 DEF Inv, AheadOK
  <2> QED BY <1>0, <1>1, <1>5, <2>2 DEF Inv, AheadOK
<1>7. total[c] \in Nat /\ first[c] \in Seq(Nat) /\ Len(first[c]) \in Nat /\ Len(first[c]) <= total[c]
      /\ \A j \in 1 .. Len(first[c]) : first[c][j] = j
  BY <1>4, <1>5 DEF Inv, FirstBlocksOK
<1>8. TypeOK'
  <2>1. /\ absPos' \in Nat /\ blockPos' \in 0 .. Len(block') /\ row' \in Nat
        /\ absPos' <= total'[cur'] /\ held' \subseteq FrameIDs /\ block' \in Seq(Nat)
    BY <1>1, <1>3, <1>4, <1>7
  <2> QED BY <1>1, <1>3, <1>5, <2>1, Zenon DEF Inv, TypeOK
<1>9. FirstBlocksOK'
  BY <1>1 DEF Inv, FirstBlocksOK
<1>10. Delivered' = Len(first[c])
  BY <1>1, <1>7 DEF Delivered
<1>11. BlockOK' /\ ReaderOK'
  BY <1>1, <1>6, <1>7, <1>10 DEF BlockOK, ReaderOK
<1>12. CursorOK'
  <2>1. \A k \in FrameIDs : k >= c => k > cur /\ k # cur
    BY <1>0, <1>6
  <2>2. \A k \in FrameIDs : k >= c /\ isRowsResult(k) => (k \in held' <=> Len(first[k]) < total[k])
    BY <1>3, <2>1 DEF Inv, CursorOK, isRowsResult
  <2>3. c \in held' <=> Len(first[c]) < total[c]
    BY <1>5, <1>6, <2>2
  <2>4. \A k \in FrameIDs : k > c => k >= c
    BY <1>0, <1>6
  <2>5. \A k \in held' : id[k] = k
    BY <1>3 DEF Inv, CursorOK
  <2> QED BY <1>1, <1>10, <2>2, <2>3, <2>4, <2>5 DEF CursorOK, isRowsResult
<1>13. ASSUME NEW k \in held', k > cur
       PROVE  k >= c /\ (k > c => \E i \in 1 .. Len(next') : next'[i] = k)
  <2>1. PICK i \in 1 .. Len(next) : next[i] = k
    BY <1>1, <1>3, <1>6, <1>13 DEF Inv, AheadOK
  <2>2. CASE i = 1
    BY <1>5, <1>6, <2>1, <2>2
  <2>3. CASE i # 1
    <3>1. i - 1 \in 1 .. Len(next') /\ next'[i - 1] = k
      BY <1>5, <2>1, <2>3
    <3>2. 1 \in 1 .. Len(next) /\ 1 < i
      BY <1>5, <2>3
    <3>3. next[1] < next[i]
      BY <3>2 DEF Inv, AheadOK
    <3> QED BY <1>0, <1>3, <1>4, <1>5, <1>6, <2>1, <3>1, <3>3
  <2> QED BY <2>2, <2>3
<1>14. AheadOK'
  <2>1. \A i \in 1 .. Len(next') : next'[i] > c /\ isRowsResult(next'[i])
    <3> TAKE i \in 1 .. Len(next')
    <3>1. 1 \in 1 .. Len(next) /\ i + 1 \in 1 .. Len(next) /\ 1 < i + 1 /\ next'[i] = next[i + 1]
      BY <1>5
    <3>2. next[1] < next[i + 1] /\ isRowsResult(next[i + 1])
      BY <3>1 DEF Inv, AheadOK
    <3>3. next[i + 1] \in FrameIDs
      BY <1>4, <3>1
    <3> QED BY <1>0, <1>5, <1>6, <3>1, <3>2, <3>3
  <2>2. \A i, j \in 1 .. Len(next') : i < j => next'[i] < next'[j]
    BY <1>5 DEF Inv, AheadOK
  <2>3. \A k \in held' : k > c => k > cur
    BY <1>0, <1>3, <1>4, <1>6
  <2> QED BY <1>1, <1>6, <1>13, <2>1, <2>2, <2>3 DEF AheadOK, isRowsResult
<1>15. Released'
  <2> SUFFICES ASSUME ~closeErr', ~broken', NEW k \in held'
               PROVE  k > c \/ k = c
    BY <1>1 DEF Released
  <2>1. k \in held /\ k # cur /\ ~closeErr /\ ~broken
    BY <1>3
  <2>2. k > cur
    BY <2>1 DEF Inv, Released
  <2>3. k >= c /\ k \in Nat
    BY <1>0, <1>4, <1>13, <2>1, <2>2
  <2> QED BY <1>6, <2>3
<1> QED BY <1>8, <1>9, <1>11, <1>12, <1>14, <1>15 DEF Inv

LEMMA StepInv == Inv /\ [Next]_vars => Inv'
<1>1. CASE UNCHANGED vars
  BY <1>1 DEF vars, Inv, TypeOK, FirstBlocksOK, BlockOK, ReaderOK, CursorOK, AheadOK,
              Released, Delivered, CanRead, isRowsResult
<1> QED BY <1>1, NextInBlockInv, NextFetchesInv, NextStopsInv, NextLobFailsInv,
           NextFetchedLobFailsInv, CloseInv, NextResultSetInv, NextResultSetFailsInv DEF Next

LEMMA Invariance == Spec => []Inv
  BY InitInv, StepInv, PTL DEF Spec

-----------------------------------------------------------------------------
(***************************************************************************)
(* Theorems.                                                               *)
(***************************************************************************)
(* rows keeps its types: the position never runs past the block in memory  *)
(* (Next would index out of range) or past the announced size.             *)
THEOREM RowsTypeCorrect == Spec => []TypeOK
<1>1. Inv => TypeOK
  BY DEF Inv
<1> QED BY <1>1, Invariance, PTL

(* A REQUESTDATA always finds its cursor, and Close and NextResultSet      *)
(* leave none behind, for every response and every block size.             *)
THEOREM CursorsAreHeldAsNeeded == Spec => []CursorsHeldAsNeeded
  BY InvImpliesHeld, Invariance, PTL

(* The paging of rows.go implements the stream of rows that driver.Rows    *)
(* promises: a response is an initial state of ResultStream, and each call *)
(* of Next, NextResultSet and Close is one of its steps.                   *)
THEOREM RowsImplementsResultStream == Spec => ImplementsResultStream
<1>1. Init => Stream!Init
  <2> SUFFICES ASSUME Init PROVE Stream!Init
    OBVIOUS
  <2>1. DOMAIN total = FrameIDs /\ cur \in FrameIDs \cup {0} /\ next \in Seq(FrameIDs)
    BY InitInv DEF Inv, TypeOK
  <2>2. CASE resultSets = <<>>
    BY <2>2 DEF Init, Stream!Init
  <2>3. CASE resultSets # <<>>
    <3>1. status = "ready" /\ row = 0 /\ short = FALSE
      BY <2>3 DEF Init
    <3>2. cur # 0
      BY <3>1, InitInv DEF Inv, ReaderOK, CanRead
    <3> QED BY <2>1, <3>1, <3>2 DEF Stream!Init
  <2> QED BY <2>2, <2>3
<1>2. Inv /\ [Next]_vars => [Stream!Next]_(Stream!vars)
  <2> SUFFICES ASSUME Inv, [Next]_vars PROVE [Stream!Next]_(Stream!vars)
    OBVIOUS
  <2> USE DEF Stream!Next
  <2>1. CASE NextInBlock
    <3>1. /\ UNCHANGED <<total, cur, next, short>> /\ status' = "row" /\ CanRead
          /\ row' = block[blockPos + 1] /\ ~Exhausted
      BY <2>1 DEF NextInBlock, handOut, response
    <3>2. /\ total[cur] \in Nat /\ absPos \in Nat /\ blockPos \in Nat /\ Len(block) \in Nat
          /\ blockPos < Len(block) /\ Delivered <= total[cur] /\ row = absPos /\ cur # 0
      BY <3>1, ReadingFacts
    <3>3. block[blockPos + 1] = absPos - blockPos + (blockPos + 1)
      BY <3>2 DEF Inv, BlockOK
    <3>4. row' = row + 1 /\ row < total[cur]
      BY <3>1, <3>2, <3>3 DEF Delivered
    <3> QED BY <3>1, <3>4 DEF Stream!Deliver, Stream!Reading, CanRead
  <2>2. CASE NextFetches
    <3>1. /\ UNCHANGED <<total, cur, next, short>> /\ status' = "row" /\ CanRead
          /\ absPos < total[cur]
      BY <2>2 DEF NextFetches, handOut, response
    <3>2. PICK b \in Blocks(total[cur], absPos) : row' = b[1]
      BY <2>2 DEF NextFetches, handOut, requestOffset
    <3>3. total[cur] \in Nat /\ absPos \in Nat /\ row = absPos
      BY <3>1, ReadingFacts
    <3>4. row' = row + 1
      BY <3>1, <3>2, <3>3, BlocksFacts
    <3> QED BY <3>1, <3>3, <3>4 DEF Stream!Deliver, Stream!Reading, CanRead
  <2>3. CASE NextAtEnd
    <3>1. /\ UNCHANGED <<total, row, cur, next, short>> /\ status' = "eof" /\ CanRead
          /\ absPos >= total[cur] /\ Exhausted
      BY <2>3 DEF NextAtEnd, response
    <3>2. row = total[cur]
      BY <3>1, ReadingFacts
    <3> QED BY <3>1, <3>2 DEF Stream!EndOfSet, Stream!Reading, CanRead
  <2>4. CASE NextEmpty
    <3>1. ~short
      BY <2>4 DEF NextEmpty, Inv, ReaderOK
    <3> QED BY <2>4, <3>1 DEF NextEmpty, response, Stream!Truncate, Stream!Reading, CanRead
  <2>5. CASE NextFetchFails \/ NextLobFails \/ NextFetchedLobFails
    BY <2>5 DEF NextFetchFails, NextLobFails, NextFetchedLobFails, response, rows,
                Stream!Fail, Stream!Reading, CanRead
  <2>6. CASE Close
    BY <2>6 DEF Close, response, Stream!Close
  <2>7. CASE NextResultSet
    BY <2>7 DEF NextResultSet, loadResult, response, CanRead, Stream!Advance, Stream!Reading
  <2>8. CASE NextResultSetFails
    BY <2>8 DEF NextResultSetFails, response, rows, CanRead, Stream!AdvanceFails, Stream!Reading
  <2>9. CASE UNCHANGED vars
    BY <2>9 DEF vars, Stream!vars
  <2> QED BY <2>1, <2>2, <2>3, <2>4, <2>5, <2>6, <2>7, <2>8, <2>9 DEF Next
<1> QED BY <1>1, <1>2, Invariance, PTL DEF Spec, ImplementsResultStream, Stream!Spec
=============================================================================
